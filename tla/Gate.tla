-------------------------------- MODULE Gate --------------------------------
(***************************************************************************)
(* The gate service (service-src/service_gate.c) with its buffers          *)
(* (databuffer.h) and its table of connections (hashid.h).                 *)
(*                                                                         *)
(* The gate handles one message at a time, so each action is one message:  *)
(* from the socket thread (accept, data, close) or from a service (start,  *)
(* kick, forward, broker, close).  Packages have a header of two bytes.    *)
(***************************************************************************)
EXTENDS Integers, Sequences, SequencesExt, FiniteSets

CONSTANTS Conns,        \* socket ids of the connections accepted, each once
          Cap,          \* max_connection
          HashMod,      \* hashmod + 1, a power of two
          Base,         \* values of a byte: 256
          TooLong,      \* 0x1000000: a package that long closes the connection
          Sends,        \* what each client sends
          Agents,       \* services packages can be forwarded to
          Watchdog,     \* g->watchdog, or "none"
          MaxFrag,      \* bound: bytes of a fragment
          MaxCtrl       \* bound: forward, broker and close commands

VARIABLES g,        \* listen: listening; broker; aborted: an assertion failed; ctrl: see MaxCtrl
          hash,     \* struct hashid: id of each node, list of nodes of each bucket, count
          conn,     \* struct connection, by node
          mp,       \* struct messagepool: free list and nodes made
          sock,     \* the socket thread's side of each id
          out       \* packages forwarded for each id

gateVars == <<g, hash, conn, mp, sock, out>>

Nodes == 0 .. Cap - 1
NoBuffer == [header |-> 0, offset |-> 0, size |-> 0, list |-> <<>>]
NoConn == [id |-> -1, agent |-> "none", buffer |-> NoBuffer]

start_listen == [listen |-> TRUE, broker |-> "none", aborted |-> FALSE, ctrl |-> 0]

\* gate_init, with hashid_init
Init ==
    /\ g = start_listen
    /\ hash = [id |-> [n \in Nodes |-> -1], list |-> [h \in 0 .. HashMod - 1 |-> <<>>], count |-> 0]
    /\ conn = [n \in Nodes |-> NoConn]
    /\ mp = [free |-> <<>>, n |-> 0]
    /\ sock = [c \in Conns |-> [st |-> "none", input |-> Sends[c], arrived |-> <<>>]]
    /\ out = [c \in Conns |-> <<>>]

-----------------------------------------------------------------------------
(* hashid.h                                                                *)

Bucket(id) == id % HashMod

hashid_lookup(id) ==
    LET found == {n \in ToSet(hash.list[Bucket(id)]) : hash.id[n] = id}
    IN  IF found = {} THEN -1 ELSE CHOOSE n \in found : TRUE

hashid_remove_KeepLink(id) == [hash EXCEPT !.id[hashid_lookup(id)] = -1, !.count = @ - 1]

hashid_remove(id) ==
    LET n == hashid_lookup(id)
    IN  [hash EXCEPT !.id[n] = -1, !.list[Bucket(id)] = SelectSeq(@, LAMBDA m : m # n), !.count = @ - 1]

\* the first free node from id % cap on
FreeNode(id) ==
    LET at(i) == (i + id) % Cap
        i == CHOOSE i \in Nodes : hash.id[at(i)] = -1 /\ \A j \in 0 .. i - 1 : hash.id[at(j)] # -1
    IN  at(i)

hashid_insert(id) ==
    [hash EXCEPT !.id[FreeNode(id)] = id, !.list[Bucket(id)] = <<FreeNode(id)>> \o @, !.count = @ + 1]

hashid_full == hash.count = Cap

-----------------------------------------------------------------------------
(* databuffer.h: x is a buffer with the pool and what was read from it.     *)

_return_message(x) ==
    [x EXCEPT !.db.list = Tail(@), !.free = <<Head(x.db.list).n>> \o @]

RECURSIVE databuffer_read(_, _)
databuffer_read(x, sz) ==
    LET db == x.db
        msg == db.list[1].msg
        bsz == Len(msg) - db.offset
        Copy(y, n) == [y EXCEPT !.str = @ \o SubSeq(msg, db.offset + 1, db.offset + n), !.db.size = @ - n]
    IN  IF bsz > sz THEN [Copy(x, sz) EXCEPT !.db.offset = @ + sz]
        ELSE IF bsz = sz THEN [_return_message(Copy(x, sz)) EXCEPT !.db.offset = 0]
        ELSE databuffer_read([_return_message(Copy(x, bsz)) EXCEPT !.db.offset = 0], sz - bsz)

\* The pool grows by a page of nodes: one node here.
databuffer_push(x, msg) ==
    LET fresh == x.free = <<>>
    IN  [x EXCEPT !.db.list = Append(@, [n |-> IF fresh THEN x.n + 1 ELSE x.free[1], msg |-> msg]),
                  !.db.size = @ + Len(msg),
                  !.free = IF fresh THEN @ ELSE Tail(@),
                  !.n = IF fresh THEN @ + 1 ELSE @]

\* Is there a header, and how long is its package?  ok: the package is there.
Header(z) == [z EXCEPT !.db.header = z.str[1] * Base + z.str[2]]
HeaderRead(y, there) == [y EXCEPT !.ok = there /\ y.db.size >= y.db.header]
databuffer_readheader(x) ==
    HeaderRead(IF x.db.header # 0 \/ x.db.size < 2 THEN x ELSE Header(databuffer_read([x EXCEPT !.str = <<>>], 2)),
               x.db.header # 0 \/ x.db.size >= 2)

databuffer_reset_Not(x) == x

databuffer_reset(x) == [x EXCEPT !.db.header = 0]

databuffer_clear(x) ==
    [x EXCEPT !.db = NoBuffer, !.free = Reverse([k \in DOMAIN x.db.list |-> x.db.list[k].n]) \o @]

-----------------------------------------------------------------------------
(* service_gate.c                                                          *)

\* _forward: to the broker, the agent or the watchdog; to nobody, it is not read
_forward(x, agent) ==
    LET y == databuffer_read([x EXCEPT !.str = <<>>], x.db.header)
        to == IF g.broker # "none" THEN g.broker ELSE IF agent # "none" THEN agent ELSE Watchdog
    IN  IF to = "none" THEN x ELSE [y EXCEPT !.out = Append(@, [to |-> to, data |-> y.str])]

RECURSIVE Dispatch(_, _)
\* the loop of dispatch_message
DispatchNext(y, agent) ==
    IF ~y.ok THEN y
    ELSE IF y.db.header = 0 THEN Dispatch(y, agent)
    ELSE IF y.db.header >= TooLong THEN [databuffer_clear(y) EXCEPT !.close = TRUE]
    ELSE Dispatch(databuffer_reset(_forward(y, agent)), agent)
Dispatch(x, agent) == DispatchNext(databuffer_readheader(x), agent)

Work(n, c) ==
    [db |-> IF n = -1 THEN NoBuffer ELSE conn[n].buffer, free |-> mp.free, n |-> mp.n,
     str |-> <<>>, out |-> out[c], ok |-> FALSE, close |-> FALSE]

\* SKYNET_SOCKET_TYPE_ACCEPT; skynet_socket_close if there is no room
Accept(c) ==
    /\ ~g.aborted /\ sock[c].st = "none"
    /\ IF ~g.listen \* assert(g->listen_id == message->id)
       THEN g' = [g EXCEPT !.aborted = TRUE] /\ UNCHANGED <<hash, conn, sock>>
       ELSE /\ IF hashid_full
               THEN UNCHANGED <<hash, conn>> /\ sock' = [sock EXCEPT ![c].st = "closing"]
               ELSE /\ hash' = hashid_insert(c)
                    /\ conn' = [conn EXCEPT ![FreeNode(c)].id = c]
                    /\ sock' = [sock EXCEPT ![c].st = "paccept"]
            /\ UNCHANGED g
    /\ UNCHANGED <<mp, out>>

\* dispatch_message, or the message of an unknown connection, which is closed
Taken(c, len) == [sock[c] EXCEPT !.input = SubSeq(@, len + 1, Len(@)), !.arrived = @ \o SubSeq(sock[c].input, 1, len)]

Data(c, len) ==
    /\ ~g.aborted /\ sock[c].st \in {"open", "closing"} /\ len <= Len(sock[c].input)
    /\ \E n \in {hashid_lookup(c)} :
          IF n = -1 THEN sock' = [sock EXCEPT ![c] = [Taken(c, len) EXCEPT !.st = "closing"]] /\ UNCHANGED <<conn, mp, out>>
          ELSE \E x \in {Dispatch(databuffer_push(Work(n, c), SubSeq(sock[c].input, 1, len)), conn[n].agent)} :
               /\ conn' = [conn EXCEPT ![n].buffer = x.db]
               /\ mp' = [free |-> x.free, n |-> x.n]
               /\ out' = [out EXCEPT ![c] = x.out]
               /\ sock' = [sock EXCEPT ![c] = IF x.close THEN [Taken(c, len) EXCEPT !.st = "closing", !.input = <<>>]
                                              ELSE Taken(c, len)]
    /\ UNCHANGED <<g, hash>>

\* SKYNET_SOCKET_TYPE_CLOSE and _ERROR: the peer's doing, or ours; always the last message
Closed(c) ==
    LET n == hashid_lookup(c)
        x == databuffer_clear(Work(n, c))
    IN  /\ ~g.aborted /\ sock[c].st \in {"paccept", "open", "closing"}
        /\ IF n = -1 THEN UNCHANGED <<hash, conn, mp>>
           ELSE /\ hash' = hashid_remove(c)
                /\ conn' = [conn EXCEPT ![n] = NoConn]
                /\ mp' = [mp EXCEPT !.free = x.free]
        /\ sock' = [sock EXCEPT ![c].st = "gone"]
        /\ UNCHANGED <<g, out>>

\* _ctrl: start, kick
Start(c) ==
    /\ ~g.aborted /\ sock[c].st = "paccept" /\ hashid_lookup(c) # -1
    /\ sock' = [sock EXCEPT ![c].st = "open"]
    /\ UNCHANGED <<g, hash, conn, mp, out>>

Kick(c) ==
    /\ ~g.aborted /\ sock[c].st \in {"paccept", "open"} /\ hashid_lookup(c) # -1
    /\ sock' = [sock EXCEPT ![c].st = "closing"]
    /\ UNCHANGED <<g, hash, conn, mp, out>>

Ctrl(h) == ~g.aborted /\ g.ctrl < MaxCtrl /\ g' = [h EXCEPT !.ctrl = @ + 1]

\* _forward_agent: only of a connection in the table
_forward_agent(c, a) ==
    IF hashid_lookup(c) = -1 THEN conn ELSE [conn EXCEPT ![hashid_lookup(c)].agent = a]

\* _ctrl: forward, broker, close
ForwardCommand(c, a) ==
    /\ Ctrl(g)
    /\ conn' = _forward_agent(c, a)
    /\ UNCHANGED <<hash, mp, sock, out>>

Broker(a) == Ctrl([g EXCEPT !.broker = a]) /\ UNCHANGED <<hash, conn, mp, sock, out>>

CloseListener == g.listen /\ Ctrl([g EXCEPT !.listen = FALSE]) /\ UNCHANGED <<hash, conn, mp, sock, out>>

Next ==
    \/ \E c \in Conns : \/ Accept(c) \/ Closed(c) \/ Start(c) \/ Kick(c)
                        \/ \E len \in 1 .. MaxFrag : Data(c, len)
                        \/ \E a \in Agents : ForwardCommand(c, a)
    \/ \E a \in Agents : Broker(a)
    \/ CloseListener

Spec == Init /\ [][Next]_gateVars

-----------------------------------------------------------------------------
(* Properties.                                                             *)

RECURSIVE Packages(_)
\* the packages in a sequence of bytes, up to one that is too long
Packages(s) ==
    LET size == s[1] * Base + s[2]
        rest == SubSeq(s, size + 3, Len(s))
    IN  IF Len(s) < 2 \/ Len(s) - 2 < size \/ size >= TooLong THEN <<>>
        ELSE IF size = 0 THEN Packages(rest)
        ELSE <<SubSeq(s, 3, size + 2)>> \o Packages(rest)

\* What was forwarded for a connection is the packages in the bytes it delivered
\* while it was in the table, whoever they went to, whatever the fragments, and
\* although all connections share the nodes of one pool.
PackagesForwarded ==
    \A c \in Conns : hashid_lookup(c) # -1 =>
      [k \in DOMAIN out[c] |-> out[c][k].data] = Packages(sock[c].arrived)

\* The table finds every connection that was accepted and not closed, and no other,
\* after any sequence of accepts and closes: no id is lost in a bucket, no node
\* serves two ids, and the buffers hold each node of the pool once or not at all.
ConnectionTable ==
    /\ \A c \in Conns : LET n == hashid_lookup(c)
                        IN  IF n = -1 THEN sock[c].st \in {"none", "closing", "gone"}
                            ELSE conn[n].id = c /\ sock[c].st \in {"paccept", "open", "closing"}
    /\ hash.count = Cardinality({n \in Nodes : hash.id[n] # -1})
    /\ LET lists == FlattenSeq([k \in 1 .. HashMod |-> hash.list[k - 1]])
       IN  ToSet(lists) = {n \in Nodes : hash.id[n] # -1} /\ Len(lists) = hash.count
    /\ LET held == FlattenSeq([k \in 1 .. Cap |-> [j \in DOMAIN conn[k - 1].buffer.list |->
                                                      conn[k - 1].buffer.list[j].n]]) \o mp.free
       IN  Len(held) = mp.n /\ ToSet(held) = 1 .. mp.n
=============================================================================
