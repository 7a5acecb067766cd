---------------------------- MODULE SocketServer ----------------------------
(***************************************************************************)
(* The socket server (skynet-src/socket_server.c): one socket thread that  *)
(* polls, and workers that reserve ids, write requests into a pipe and,    *)
(* when nothing is waiting to be sent, write to the descriptor themselves. *)
(*                                                                         *)
(* A slot of the table serves one id after the other; id % NSlot is the    *)
(* slot.  A TCP packet has two units so that a write can be partial; a UDP *)
(* datagram has one.  What a peer does, how much the kernel takes and when *)
(* a connection is made are choices.                                       *)
(*                                                                         *)
(* A step of the socket thread is one iteration of its poll loop, except   *)
(* where workers can come in between: before it takes dw_lock in           *)
(* force_close, and before it decrements `sending'.  Workers stop wherever *)
(* the code reads or writes something shared.                              *)
(***************************************************************************)
EXTENDS Integers, Sequences, FiniteSets

CONSTANTS Workers,      \* threads that call the socket API
          Scenes,       \* the instances, see scene
          None

\* An instance: nslot (MAX_SOCKET) and nevent (MAX_EVENT), how ids are made (kinds:
\* "O" connect, "L" listen, "B" bind, "U" udp), the other calls of the API, and the
\* bounds: ids reserved, calls made (ncall) and moves of the network (nmove).
VARIABLE scene

SceneRecords == [nslot : Nat \ {0}, nevent : Nat, ids : Nat, ncall : Nat, nmove : Nat,
                 kinds : SUBSET {"O", "L", "B", "U"},
                 calls : SUBSET {"D", "P", "A", "C", "K", "X", "R", "S", "exit"}]
Buffers == [p : Nat, off : Nat, to : Nat]

ASSUME SocketAssumption ==
    /\ IsFiniteSet(Workers)
    /\ \A s \in Scenes : s \in SceneRecords
    /\ None \notin Workers /\ None \notin Nat /\ None \notin Buffers

VARIABLES slot,     \* struct socket, by slot
          lock,     \* dw_lock: the worker that holds it, or None
          alloc,    \* alloc_id
          pipe,     \* requests written to sendctrl_fd, not yet read
          ev,       \* events of the last sp_wait not yet dispatched
          ctrl,     \* checkctrl
          th,       \* where the socket thread is
          net,      \* the kernel's and the peer's side of each id
          wire,     \* what was written to the descriptor of each id
          told,     \* what the owner of each id was told
          wk,       \* where each worker is
          sent,     \* packets handed to the API so far
          freed,    \* how often the buffer of each packet was freed
          conn,     \* the last connect request of each worker for each UDP id
          due,      \* for each id, what the first to close it had sent before
          calls,    \* calls made, see scene.ncall
          moves,    \* moves of the network, see scene.nmove
          failed    \* assertions that did not hold

NSlot == scene.nslot
MaxCalls == scene.ncall

sockVars == <<scene, slot, lock, alloc, ev, ctrl, th, net, wire, told>>
vars == <<scene, slot, lock, alloc, pipe, ev, ctrl, th, net, wire, told, wk, sent, freed, conn, due, calls, moves, failed>>

Ids == 1 .. scene.ids
Slots == 0 .. NSlot - 1
H(id) == id % NSlot                       \* HASH_ID
Tag(id) == id \div NSlot                  \* ID_TAG16
MaxSending == 65535

FreshSlot == [type |-> "INVALID", id |-> 0, protocol |-> "unknown", reading |-> FALSE,
              writing |-> FALSE, closing |-> FALSE, tag |-> 0, sending |-> 0,
              high |-> <<>>, low |-> <<>>, dw |-> None, wb |-> 0,
              udpconnecting |-> 0, address |-> 0]

\* est: outcome of connect, or "listen"; inb: data (or, for a listener, connections) to be
\* read; fin: the peer closed; rst: it reset, "err" until an error was returned;
\* shut: we shut down our side; conns: connect requests of a UDP id so far.
FreshNet == [udp |-> FALSE, est |-> "wait", inb |-> 0, fin |-> FALSE, rst |-> "no",
             shut |-> FALSE, conns |-> 0]

Resting == [pc |-> "idle", id |-> 0, p |-> 0, cmd |-> "none"]
Polling == [pc |-> "poll", slot |-> None, id |-> 0, msg |-> "none", ctrl |-> FALSE]

Init ==
    /\ scene \in Scenes
    /\ slot = [i \in Slots |-> FreshSlot]
    /\ lock = [i \in Slots |-> None]
    /\ alloc = 0 /\ pipe = <<>> /\ ev = <<>> /\ ctrl = TRUE
    /\ th = Polling
    /\ net = [id \in Ids |-> FreshNet]
    /\ wire = [id \in Ids |-> <<>>]
    /\ told = [id \in Ids |-> [start |-> FALSE, open |-> FALSE, close |-> 0]]
    /\ wk = [w \in Workers |-> Resting]
    /\ sent = <<>> /\ freed = <<>>
    /\ conn = [x \in Workers \X Ids |-> 0]
    /\ due = [id \in Ids |-> None]
    /\ calls = 0 /\ moves = 0 /\ failed = {}

-----------------------------------------------------------------------------
(* Write buffers.  A packet is its index in `sent'; a buffer is a packet    *)
(* with the offset already written and, for UDP, where it goes to.          *)

Size(p) == IF sent[p].udp THEN 1 ELSE 2
Left(b) == Size(b.p) - b.off
Buffer(p, off, to) == [p |-> p, off |-> off, to |-> to]
Packets(list) == {list[k].p : k \in DOMAIN list}
Free(ps) == freed' = [p \in DOMAIN freed |-> freed[p] + (IF p \in ps THEN 1 ELSE 0)]

\* What is on the wire is a sequence of pieces: n units of the packet, from off.  A
\* piece that goes on where the last one ended is one with it.
Piece(b, n) == [p |-> b.p, off |-> b.off, n |-> n, to |-> b.to]
End(u) == u.off + u.n
Extend(s, out) ==
    IF s # <<>> /\ out # <<>> /\ s[Len(s)].p = out[1].p /\ End(s[Len(s)]) = out[1].off
    THEN [s EXCEPT ![Len(s)].n = @ + out[1].n] \o Tail(out)
    ELSE s \o out

\* The units of a list that are left to be sent, by place and number.
Units(list) == {u \in (1 .. Len(list)) \X (1 .. 2) : u[2] <= Left(list[u[1]])}
Load(list) == Cardinality(Units(list))

\* What a write to the descriptor can do to a list: the kernel takes m whole buffers
\* and n units of the next one (m is less only if it would block); a datagram with no
\* address, or that met an error, is dropped, and the rest is left for later.
Outcomes(list, udp, reset) ==
    {r \in [m : 0 .. Len(list), n : 0 .. 1, drop : 0 .. 1] :
       /\ r.m = Len(list) => r.n = 0 /\ r.drop = 0
       /\ IF udp THEN /\ r.n = 0
                      /\ \A j \in 1 .. r.m : list[j].to # 0
                      /\ r.m < Len(list) /\ r.drop = 1 => reset \/ list[r.m + 1].to = 0
                 ELSE /\ r.drop = 0
                      /\ r.m < Len(list) => r.n < Left(list[r.m + 1])
       /\ reset /\ list # <<>> => r.m = 0 /\ r.n = 0 /\ (udp => r.drop = 1)}

Nothing == [m |-> 0, n |-> 0, drop |-> 0]

\* Variant: the rest of a buffer written in part is forgotten.
Rest_Forget(list, r) ==
    [j \in 1 .. Len(list) - r.m - r.n - r.drop |-> list[r.m + r.n + r.drop + j]]

\* send_list_tcp, send_list_udp: what stays in the list, and what is written.
Rest(list, r) ==
    [j \in 1 .. Len(list) - r.m - r.drop |->
       LET b == list[r.m + r.drop + j]
       IN  IF j = 1 THEN [b EXCEPT !.off = @ + r.n] ELSE b]
Written(list, r) ==
    [j \in 1 .. r.m + r.n |-> Piece(list[j], IF j <= r.m THEN Left(list[j]) ELSE r.n)]

Invalid(x, id) == x.id # id \/ x.type = "INVALID"
BufferEmpty(x) == x.high = <<>> /\ x.low = <<>>
Uncomplete(list) == list # <<>> /\ list[1].off # 0

NoMoreSendingData(x) ==
    \/ BufferEmpty(x) /\ x.dw = None /\ x.sending = 0
    \/ x.type = "HALFCLOSE_WRITE"

CanDirectWrite_Connecting(x, id) ==
    x.id = id /\ NoMoreSendingData(x) /\ x.type = "CONNECTED"

CanDirectWrite(x, id) ==
    x.id = id /\ NoMoreSendingData(x) /\ x.type = "CONNECTED" /\ x.udpconnecting = 0

Check(name, holds) == failed' = IF holds THEN failed ELSE failed \cup {name}

-----------------------------------------------------------------------------
(* Workers: ids and requests.                                              *)

Put(r) == pipe' = Append(pipe, r)
Idle(w) == wk[w].pc = "idle" /\ th.pc # "exit"
Goto(w, r) == wk' = [wk EXCEPT ![w] = r]

\* reserve_id: the next id whose slot is free, though events of its last socket may
\* still wait to be dispatched
FreeIds == {id \in alloc + 1 .. alloc + NSlot : slot[H(id)].type = "INVALID"}

Reserve(id) ==
    [slot EXCEPT ![H(id)] = [@ EXCEPT !.type = "RESERVE", !.id = id,
                                      !.protocol = "unknown", !.udpconnecting = 0]]

\* An id of this kind is reserved and the request written.
OpenRequest(w, kind) ==
    /\ Idle(w) /\ calls < MaxCalls
    /\ kind \in scene.kinds
    /\ calls' = calls + 1
    /\ \E id \in FreeIds :
           /\ \A i \in FreeIds : id <= i
           /\ id <= scene.ids
           /\ alloc' = id
           /\ slot' = Reserve(id)
           /\ Put([cmd |-> kind, id |-> id])
           /\ net' = [net EXCEPT ![id].udp = (kind = "U"), ![id].est = IF kind = "L" THEN "listen" ELSE @]
           \* a service waits for the answer before it uses an id (socket.lua),
           \* except to start a listener and for UDP
           /\ told' = [told EXCEPT ![id].open = (kind = "U"), ![id].start = (kind = "L")]
    /\ UNCHANGED <<scene, lock, ev, ctrl, th, wire, wk, sent, freed, conn, due, moves, failed>>

\* socket_server_connect (with open_request), _bind, _udp; _listen returns an error
\* to its caller and reserves nothing if the address cannot be bound.
Connect(w) == OpenRequest(w, "O")
BindFd(w) == OpenRequest(w, "B")
Udp(w) == OpenRequest(w, "U")
Listen(w) == OpenRequest(w, "L")

Call(w, name, id) ==
    /\ Idle(w) /\ name \in scene.calls /\ calls < MaxCalls
    /\ told[id].open \/ (told[id].start /\ name \in {"R", "K", "X"})
    /\ calls' = calls + 1
    /\ UNCHANGED moves

Request(w, id, cmd) ==
    /\ Call(w, cmd, id)
    /\ Put([cmd |-> cmd, id |-> id])
    /\ UNCHANGED <<sockVars, wk, sent, freed, conn, failed>>

\* socket_server_start, _pause
StartPause(w, id) == (Request(w, id, "R") \/ Request(w, id, "S")) /\ UNCHANGED due

\* socket_server_close, _shutdown; due is what the first to close had sent
Close(w, id) ==
    /\ Request(w, id, "K")
    /\ due' = IF due[id] # None THEN due
              ELSE [due EXCEPT ![id] = {p \in DOMAIN sent : sent[p].id = id /\ sent[p].w = w}]
Shutdown(w, id) == Request(w, id, "X") /\ due' = [due EXCEPT ![id] = {}]

\* socket_server_exit
Exit(w) ==
    /\ Idle(w) /\ "exit" \in scene.calls /\ ~\E k \in DOMAIN pipe : pipe[k].cmd = "exit"
    /\ Put([cmd |-> "exit"])
    /\ UNCHANGED <<sockVars, wk, sent, freed, conn, due, calls, moves, failed>>

-----------------------------------------------------------------------------
(* Workers: sending.                                                       *)

\* The packet is new; `ok' says that the server took it.
Handed(w, id, kind, ok) ==
    /\ sent' = Append(sent, [id |-> id, w |-> w, kind |-> kind, ok |-> ok, retried |-> FALSE,
                             udp |-> net[id].udp, since |-> conn[<<w, id>>]])
    /\ freed' = Append(freed, IF ok THEN 0 ELSE 1)

\* A request that carries its address is not counted.
Queueing(kind) == IF kind = "A" THEN "put" ELSE "inc"

\* The call has looked at the socket: the packet is dropped, written directly if
\* the lock is free, or queued.
Sending(w, id, kind, bad, direct) ==
    /\ Call(w, kind, id)
    /\ Handed(w, id, kind, ~bad)
    /\ lock' = IF ~bad /\ direct THEN [lock EXCEPT ![H(id)] = w] ELSE lock
    /\ IF bad THEN UNCHANGED wk
       ELSE Goto(w, [pc |-> IF direct THEN "check" ELSE Queueing(kind), id |-> id, p |-> Len(sent) + 1, cmd |-> kind])
    /\ UNCHANGED <<scene, slot, alloc, pipe, ev, ctrl, th, net, wire, told, conn, due, failed>>

\* The first look at the lists, then socket_trylock, which also fails while the socket
\* thread is in send_buffer or force_close.
TryDirect(x, id) ==
    IF CanDirectWrite(x, id) /\ lock[H(id)] = None THEN BOOLEAN ELSE {FALSE}

\* socket_server_send, up to the double check
Send(w, id) ==
    LET x == slot[H(id)]
    IN  \E direct \in TryDirect(x, id) : Sending(w, id, "D", Invalid(x, id) \/ x.closing, direct)

\* socket_server_send_lowpriority
SendLow(w, id) == Sending(w, id, "P", Invalid(slot[H(id)], id), FALSE)

\* socket_server_udp_send: the datagram carries its address
UdpSend(w, id) ==
    LET x == slot[H(id)]
    IN  net[id].udp /\ \E direct \in TryDirect(x, id) : Sending(w, id, "A", Invalid(x, id), direct)

\* The second look, with the lock.
DoubleCheck(w) ==
    LET id == wk[w].id
        again == CanDirectWrite(slot[H(id)], id)
    IN  /\ wk[w].pc = "check"
        /\ Goto(w, [wk[w] EXCEPT !.pc = IF again THEN "write" ELSE Queueing(wk[w].cmd)])
        /\ lock' = IF again THEN lock ELSE [lock EXCEPT ![H(id)] = None]
        /\ UNCHANGED <<scene, slot, alloc, pipe, ev, ctrl, th, net, wire, told, sent, freed, conn, due, calls, moves, failed>>

\* The direct write, with the lock.  The rest of a packet goes to dw_buffer and
\* the socket thread is asked to enable the write event; a datagram that could
\* not be sent goes there too, or to the pipe if it has its own address.
DirectWrite(w) ==
    LET r == wk[w]
        i == H(r.id)
        x == slot[i]
        to == IF x.protocol # "udp" THEN 0 ELSE IF r.cmd = "A" THEN MaxCalls + 1 ELSE x.address
    IN  /\ r.pc = "write"
        /\ lock' = [lock EXCEPT ![i] = None]
        /\ \/ \* udp (%d) address first
              /\ x.protocol = "udp" /\ to = 0
              /\ Free({r.p}) /\ Goto(w, Resting)
              /\ UNCHANGED <<slot, wire, sent>>
           \/ /\ x.protocol = "udp" => to # 0
              /\ \E n \in 0 .. Size(r.p) :
                   /\ net[r.id].rst # "no" => n = 0
                   /\ wire' = IF n = 0 THEN wire
                              ELSE [wire EXCEPT ![r.id] = Extend(@, <<Piece(Buffer(r.p, 0, to), n)>>)]
                   /\ IF n = Size(r.p)
                      THEN Free({r.p}) /\ Goto(w, Resting) /\ UNCHANGED <<slot, sent>>
                      ELSE /\ UNCHANGED freed
                           /\ IF r.cmd = "A"
                              THEN Goto(w, [r EXCEPT !.pc = "put"]) /\ UNCHANGED <<slot, sent>>
                              ELSE /\ slot' = [slot EXCEPT ![i].dw = Buffer(r.p, n, 0)]
                                   /\ sent' = [sent EXCEPT ![r.p].retried = TRUE]
                                   /\ Goto(w, [r EXCEPT !.pc = "inc", !.cmd = "W"])
        /\ UNCHANGED <<scene, alloc, pipe, ev, ctrl, th, net, told, conn, due, calls, moves, failed>>

\* inc_sending_ref: only for TCP and only if the slot still serves this id; it waits
\* while the 16 bits are full.
IncSending(w) ==
    LET r == wk[w]
        i == H(r.id)
        mine == slot[i].protocol = "tcp" /\ slot[i].tag = Tag(r.id)
    IN  /\ r.pc = "inc"
        /\ mine => slot[i].sending < MaxSending
        /\ slot' = IF mine THEN [slot EXCEPT ![i].sending = @ + 1] ELSE slot
        /\ Goto(w, [r EXCEPT !.pc = "put"])
        /\ UNCHANGED <<scene, lock, alloc, pipe, ev, ctrl, th, net, wire, told, sent, freed, conn, due, calls, moves, failed>>

\* send_request of D, P, A and W
PutRequest(w) ==
    LET r == wk[w]
    IN  /\ r.pc = "put"
        /\ Put([cmd |-> r.cmd, id |-> r.id, p |-> r.p])
        /\ Goto(w, Resting)
        /\ UNCHANGED <<sockVars, sent, freed, conn, due, calls, moves, failed>>

\* socket_server_udp_connect: no direct writes from here until the socket thread
\* has stored the address.
UdpConnect(w, id) ==
    LET x == slot[H(id)]
    IN  /\ Call(w, "C", id)
        /\ lock[H(id)] = None
        /\ ~Invalid(x, id) /\ net[id].udp
        /\ slot' = [slot EXCEPT ![H(id)].udpconnecting = @ + 1]
        /\ Goto(w, [pc |-> "resolve", id |-> id, p |-> 0, cmd |-> "C"])
        /\ UNCHANGED <<scene, lock, alloc, pipe, ev, ctrl, th, net, wire, told, conn, sent, freed, due, failed>>

\* getaddrinfo: the name may not resolve, or to an address of the other family (0).
Resolve(w) ==
    LET id == wk[w].id
        n == net[id].conns + 1
    IN  /\ wk[w].pc = "resolve"
        /\ Goto(w, Resting)
        /\ \/ UNCHANGED <<pipe, net, conn>>
           \/ Put([cmd |-> "C", id |-> id, n |-> 0]) /\ UNCHANGED <<net, conn>>
           \/ /\ Put([cmd |-> "C", id |-> id, n |-> n])
              /\ net' = [net EXCEPT ![id].conns = n]
              /\ conn' = [conn EXCEPT ![<<w, id>>] = n]
        /\ UNCHANGED <<scene, slot, lock, alloc, ev, ctrl, th, wire, told, sent, freed, due, calls, moves, failed>>

-----------------------------------------------------------------------------
(* The socket thread: changes of one slot.                                 *)

workVars == <<scene, lock, wk, conn, due, calls, moves>>
SetSlot(i, x) == slot' = [slot EXCEPT ![i] = x]
Tell(id, msg) ==
    told' = IF id \notin Ids THEN told
            ELSE [told EXCEPT ![id].open = @ \/ msg = "open",
                              ![id].close = @ + (IF msg = "close" THEN 1 ELSE 0)]

\* clear_closed_event: after a request that closed a socket, its event is void.
ClearClosed(msg, i, gone) ==
    ev' = IF gone /\ msg \in {"close", "err"} THEN [k \in DOMAIN ev |-> IF ev[k].slot = i THEN [ev[k] EXCEPT !.slot = None] ELSE ev[k]]
          ELSE ev

\* force_close, up to the lock: the write lists are freed.  It goes on in ForceClose.
BeginForceClose(i, msg, fromCtrl) ==
    /\ Check("force_close: type # RESERVE", slot[i].type # "RESERVE")
    /\ Free(Packets(slot[i].high) \cup Packets(slot[i].low))
    /\ SetSlot(i, [slot[i] EXCEPT !.high = <<>>, !.low = <<>>])
    /\ th' = [pc |-> "force", slot |-> i, id |-> 0, msg |-> msg, ctrl |-> fromCtrl]

ForceClose_KeepDirect ==
    LET i == th.slot
    IN  /\ th.pc = "force" /\ lock[i] = None
        /\ SetSlot(i, [slot[i] EXCEPT !.type = "INVALID", !.dw = None])
        /\ Tell(slot[i].id, th.msg)
        /\ th' = IF th.ctrl THEN [th EXCEPT !.pc = "clear", !.id = slot[i].id] ELSE Polling
        /\ UNCHANGED <<workVars, alloc, pipe, ev, ctrl, net, wire, sent, freed, failed>>

\* force_close with the lock: the descriptor is closed and dw_buffer freed.
ForceClose ==
    LET i == th.slot
    IN  /\ th.pc = "force" /\ lock[i] = None
        /\ SetSlot(i, [slot[i] EXCEPT !.type = "INVALID", !.dw = None])
        /\ Free(IF slot[i].dw = None THEN {} ELSE {slot[i].dw.p})
        /\ Tell(slot[i].id, th.msg)
        /\ th' = IF th.ctrl THEN [th EXCEPT !.pc = "clear", !.id = slot[i].id] ELSE Polling
        /\ UNCHANGED <<workVars, alloc, pipe, ev, ctrl, net, wire, sent, failed>>

\* clear_closed_event after a request that closed the socket by force
ClearEvent ==
    LET x == slot[th.slot]
    IN  /\ th.pc = "clear"
        /\ ClearClosed(th.msg, th.slot, x.id = th.id /\ x.type = "INVALID")
        /\ th' = Polling
        /\ UNCHANGED <<workVars, slot, alloc, pipe, ctrl, net, wire, told, sent, freed, failed>>

\* new_fd
NewFd(x, id, protocol, reading) ==
    [x EXCEPT !.id = id, !.reading = reading, !.writing = FALSE, !.closing = FALSE,
              !.tag = Tag(id), !.sending = 0, !.protocol = protocol, !.wb = 0,
              !.dw = None]
CheckNewFd(x) == Check("new_fd: RESERVE and empty lists", x.type = "RESERVE" /\ BufferEmpty(x))

\* close_read
CloseRead(x) == [x EXCEPT !.type = "HALFCLOSE_READ", !.reading = FALSE]

-----------------------------------------------------------------------------
(* The socket thread: requests.                                            *)

Req == Head(pipe)
X == slot[H(Req.id)]

\* ctrl_cmd: the head of the pipe is one of cmds
Ctrl(cmds) ==
    /\ th.pc = "poll" /\ ctrl /\ pipe # <<>>
    /\ Req.cmd \in cmds
    /\ pipe' = Tail(pipe)

\* The descriptor of a new id is ready.
SetUp(cmd, protocol, reading, type, msg) ==
    /\ Ctrl({cmd})
    /\ CheckNewFd(X)
    /\ SetSlot(H(Req.id), [NewFd(X, Req.id, protocol, reading) EXCEPT !.type = type, !.address = 0,
                                                                    !.writing = (type = "CONNECTING")])
    /\ Tell(Req.id, msg)
    /\ ClearClosed(msg, H(Req.id), type = "INVALID")
    /\ UNCHANGED <<workVars, alloc, ctrl, th, net, wire, sent, freed>>

\* Nothing comes of the id: open_socket finds no address or no connection, or new_fd
\* cannot poll the descriptor.
NoSocket(cmd) ==
    /\ Ctrl({cmd})
    /\ CheckNewFd(X) \/ (cmd = "O" /\ UNCHANGED failed)
    /\ SetSlot(H(Req.id), [X EXCEPT !.type = "INVALID"])
    /\ LET msg == IF cmd = "U" THEN "none" ELSE "err"
       IN  Tell(Req.id, msg) /\ ClearClosed(msg, H(Req.id), TRUE)
    /\ UNCHANGED <<workVars, alloc, ctrl, th, net, wire, sent, freed>>

\* open_socket: it fails, connects at once or goes on in report_connect
OpenSocket ==
    \/ NoSocket("O") \/ SetUp("O", "tcp", TRUE, "INVALID", "err")
    \/ SetUp("O", "tcp", TRUE, "CONNECTED", "open")
    \/ SetUp("O", "tcp", TRUE, "CONNECTING", "none")

ListenSocket ==
    \/ NoSocket("L") \/ SetUp("L", "tcp", FALSE, "INVALID", "err")
    \/ SetUp("L", "tcp", FALSE, "PLISTEN", "none")
BindSocket == NoSocket("B") \/ SetUp("B", "tcp", TRUE, "BIND", "open")
AddUdpSocket == NoSocket("U") \/ SetUp("U", "udp", TRUE, "CONNECTED", "none")

CloseSocket_TellAlways ==
    LET i == H(Req.id)
        half == FALSE
    IN  /\ Ctrl({"K", "X"})
        /\ \/ /\ Invalid(X, Req.id)
              /\ UNCHANGED <<slot, th, told, freed, failed>>
           \/ /\ ~Invalid(X, Req.id)
              /\ Req.cmd = "X" \/ NoMoreSendingData(X)
              /\ BeginForceClose(i, IF half THEN "none" ELSE "close", TRUE)
              /\ UNCHANGED told
           \/ /\ ~Invalid(X, Req.id)
              /\ Req.cmd = "K" /\ ~NoMoreSendingData(X)
              /\ SetSlot(i, IF half THEN [X EXCEPT !.closing = TRUE]
                            ELSE [CloseRead(X) EXCEPT !.closing = TRUE])
              /\ Tell(Req.id, IF half THEN "none" ELSE "close")
              /\ UNCHANGED <<th, freed, failed>>
        /\ UNCHANGED <<workVars, alloc, ev, ctrl, net, wire, sent>>

CloseSocket_ListsOnly ==
    LET i == H(Req.id)
        half == X.type = "HALFCLOSE_READ"
    IN  /\ Ctrl({"K", "X"})
        /\ \/ /\ Invalid(X, Req.id)
              /\ UNCHANGED <<slot, th, told, freed, failed>>
           \/ /\ ~Invalid(X, Req.id)
              /\ Req.cmd = "X" \/ BufferEmpty(X)
              /\ BeginForceClose(i, IF half THEN "none" ELSE "close", TRUE)
              /\ UNCHANGED told
           \/ /\ ~Invalid(X, Req.id)
              /\ Req.cmd = "K" /\ ~BufferEmpty(X)
              /\ SetSlot(i, IF half THEN [X EXCEPT !.closing = TRUE]
                            ELSE [CloseRead(X) EXCEPT !.closing = TRUE])
              /\ Tell(Req.id, IF half THEN "none" ELSE "close")
              /\ UNCHANGED <<th, freed, failed>>
        /\ UNCHANGED <<workVars, alloc, ev, ctrl, net, wire, sent>>

\* close_socket: at once if nothing is being sent or on shutdown, else when the
\* buffers are sent.  The owner is told now, unless it was told already.
CloseSocket ==
    LET i == H(Req.id)
        half == X.type = "HALFCLOSE_READ"
    IN  /\ Ctrl({"K", "X"})
        /\ \/ /\ Invalid(X, Req.id)
              /\ UNCHANGED <<slot, th, told, freed, failed>>
           \/ /\ ~Invalid(X, Req.id)
              /\ Req.cmd = "X" \/ NoMoreSendingData(X)
              /\ BeginForceClose(i, IF half THEN "none" ELSE "close", TRUE)
              /\ UNCHANGED told
           \/ /\ ~Invalid(X, Req.id)
              /\ Req.cmd = "K" /\ ~NoMoreSendingData(X)
              /\ SetSlot(i, IF half THEN [X EXCEPT !.closing = TRUE]
                            ELSE [CloseRead(X) EXCEPT !.closing = TRUE])
              /\ Tell(Req.id, IF half THEN "none" ELSE "close")
              /\ UNCHANGED <<th, freed, failed>>
        /\ UNCHANGED <<workVars, alloc, ev, ctrl, net, wire, sent>>

\* resume_socket: a socket that is gone or going is an error, which drops its event;
\* the read event may be refused.
Resume ==
    LET i == H(Req.id)
        bad == Invalid(X, Req.id) \/ X.type = "HALFCLOSE_READ"
    IN  /\ Ctrl({"R"})
        /\ \/ bad /\ UNCHANGED <<slot, told>>
           \/ ~bad /\ ~X.reading /\ SetSlot(i, [X EXCEPT !.reading = TRUE]) /\ UNCHANGED told
           \/ /\ ~bad
              /\ SetSlot(i, [X EXCEPT !.reading = TRUE,
                                      !.type = CASE @ = "PACCEPT" -> "CONNECTED"
                                                 [] @ = "PLISTEN" -> "LISTEN"
                                                 [] OTHER -> @])
              /\ Tell(Req.id, IF X.type \in {"PACCEPT", "PLISTEN", "CONNECTED"} THEN "open" ELSE "none")
        /\ ClearClosed(IF bad THEN "err" ELSE "none", i, X.id = Req.id /\ X.type = "INVALID")
        /\ UNCHANGED <<workVars, alloc, ctrl, th, net, wire, sent, freed, failed>>

\* A request that only changes the slot, if it still serves the id.
Adjust(cmd, x) ==
    /\ Ctrl({cmd})
    /\ IF Invalid(X, Req.id) THEN UNCHANGED slot ELSE SetSlot(H(Req.id), x)
    /\ UNCHANGED <<workVars, alloc, ev, ctrl, th, net, wire, told, sent, freed, failed>>

\* pause_socket, trigger_write, set_udp_address (an address of the other family is an
\* error, and udpconnecting stays)
Pause == Adjust("S", [X EXCEPT !.reading = FALSE])
TriggerWrite == Adjust("W", [X EXCEPT !.writing = TRUE])
SetUdpAddress ==
    Adjust("C", IF Req.n = 0 THEN X ELSE [X EXCEPT !.address = Req.n, !.udpconnecting = @ - 1])

\* send_socket: what keeps a packet from being sent
Refused(x, id) ==
    \/ Invalid(x, id) \/ x.closing
    \/ x.type \in {"HALFCLOSE_WRITE", "PACCEPT", "PLISTEN", "LISTEN"}

Appended_NoEvent(x, b, toLow) ==
    [x EXCEPT !.high = IF toLow THEN @ ELSE Append(@, b),
              !.low = IF toLow THEN Append(@, b) ELSE @,
              !.wb = @ + Left(b)]

\* append_sendbuffer, _low, _udp
Appended(x, b, toLow) ==
    [x EXCEPT !.high = IF toLow THEN @ ELSE Append(@, b),
              !.low = IF toLow THEN Append(@, b) ELSE @,
              !.writing = @ \/ BufferEmpty(x),
              !.wb = @ + Left(b)]

\* send_socket; D and P go on in DecSending
SendSocket ==
    LET i == H(Req.id)
        to == IF ~sent[Req.p].udp THEN 0 ELSE IF Req.cmd = "A" THEN MaxCalls + 1 ELSE X.address
        b == Buffer(Req.p, 0, to)
        drop == Refused(X, Req.id) \/ (BufferEmpty(X) /\ X.protocol = "udp" /\ to = 0)
    IN  /\ Ctrl({"D", "P", "A"})
        /\ \/ /\ drop
              /\ Free({Req.p}) /\ UNCHANGED <<slot, wire>>
           \/ /\ ~drop /\ X.protocol = "tcp"
              /\ SetSlot(i, Appended(X, b, Req.cmd = "P" /\ ~BufferEmpty(X)))
              /\ UNCHANGED <<freed, wire>>
           \/ \* the datagram is sent now
              /\ ~drop /\ X.protocol = "udp" /\ BufferEmpty(X)
              /\ Free({Req.p}) /\ wire' = [wire EXCEPT ![Req.id] = Extend(@, <<Piece(b, 1)>>)]
              /\ UNCHANGED slot
           \/ /\ ~drop /\ X.protocol = "udp"
              /\ SetSlot(i, Appended(X, b, Req.cmd = "P"))
              /\ UNCHANGED <<freed, wire>>
        /\ th' = IF Req.cmd = "A" THEN th ELSE [th EXCEPT !.pc = "dec", !.slot = i, !.id = Req.id]
        /\ UNCHANGED <<workVars, alloc, ev, ctrl, net, told, sent, failed>>

\* dec_sending_ref
DecSending ==
    LET x == slot[th.slot]
        mine == x.id = th.id /\ x.protocol = "tcp"
    IN  /\ th.pc = "dec"
        /\ Check("dec_sending_ref: sending # 0", mine => x.sending # 0)
        /\ slot' = IF mine /\ x.sending # 0 THEN [slot EXCEPT ![th.slot].sending = @ - 1] ELSE slot
        /\ th' = Polling
        /\ UNCHANGED <<workVars, alloc, pipe, ev, ctrl, net, wire, told, sent, freed>>

\* SOCKET_EXIT: the socket thread ends
ExitCmd ==
    /\ Ctrl({"exit"})
    /\ th' = [Polling EXCEPT !.pc = "exit"]
    /\ UNCHANGED <<workVars, slot, alloc, ev, ctrl, net, wire, told, sent, freed, failed>>
-----------------------------------------------------------------------------
(* The socket thread: events.                                              *)

\* What sp_wait can say about a slot: writable is up to the kernel.
Events(i) ==
    LET x == slot[i]
        n == net[x.id]
        read == x.reading /\ (n.inb > 0 \/ n.fin \/ n.rst # "no")
        eof == n.rst # "no" \/ (n.fin /\ n.shut)
        Event(write) == [slot |-> i, read |-> read, write |-> write, error |-> n.rst = "err", eof |-> eof]
    IN  IF x.type \in {"INVALID", "RESERVE"} THEN {}
        ELSE {e \in {Event(FALSE), Event(x.writing /\ (x.type = "CONNECTING" => n.est # "wait"))} :
                e.read \/ e.write \/ e.error \/ e.eof}

\* has_cmd finds the pipe empty.
NoCommand ==
    /\ th.pc = "poll" /\ ctrl /\ pipe = <<>>
    /\ ctrl' = FALSE
    /\ UNCHANGED <<workVars, slot, alloc, pipe, ev, th, net, wire, told, sent, freed, failed>>

\* sp_wait: one event per slot; the pipe's own event only counts when it is the first,
\* and then the requests are read before the next one.
SpWait ==
    LET one == UNION {Events(i) : i \in Slots}
    IN  /\ th.pc = "poll" /\ ~ctrl /\ ev = <<>>
        /\ \/ pipe # <<>> /\ ev' = <<>> /\ th' = th
           \/ \E e \in one : ev' = <<e>> /\ th' = [th EXCEPT !.pc = "fresh"]
           \/ /\ scene.nevent > 1
              /\ \/ \E e, f \in one : e.slot # f.slot /\ ev' = <<e, f>> /\ th' = [th EXCEPT !.pc = "fresh"]
                 \/ pipe # <<>> /\ th' = th /\ \E e \in one : ev' = <<e>>
        /\ ctrl' = TRUE
        /\ UNCHANGED <<workVars, slot, alloc, pipe, net, wire, told, sent, freed, failed>>

E0 == Head(ev)
Y == slot[E0.slot]

\* The next event: right after sp_wait, or when there are no requests to look for.
Event(types) ==
    /\ ev # <<>> /\ (th.pc = "fresh" \/ (th.pc = "poll" /\ ~ctrl))
    /\ E0.slot # None /\ Y.type \in types
    /\ ctrl' = (th.pc = "fresh")
    /\ UNCHANGED <<workVars, pipe, sent>>

Plain == {"CONNECTED", "HALFCLOSE_READ", "HALFCLOSE_WRITE", "PACCEPT", "PLISTEN", "BIND"}

\* report_connect: no connection, or the write event cannot be turned off.  A connection
\* still being made has no error yet.
ReportConnect ==
    /\ Event({"CONNECTING"})
    /\ ev' = Tail(ev)
    /\ \/ /\ net[Y.id].est = "fail" \/ NoMoreSendingData(Y)
          /\ BeginForceClose(E0.slot, "err", FALSE) /\ UNCHANGED told
       \/ /\ net[Y.id].est # "fail"
          /\ SetSlot(E0.slot, [Y EXCEPT !.type = "CONNECTED", !.writing = @ /\ ~NoMoreSendingData(Y)])
          /\ Tell(Y.id, "open")
          /\ th' = Polling
          /\ UNCHANGED <<freed, failed>>
    /\ UNCHANGED <<alloc, net, wire>>

\* reserve_id and new_fd for a connection
Accept(id) ==
    LET x == Reserve(id)[H(id)]
        y == NewFd(x, id, "tcp", FALSE)
    IN  /\ \A i \in FreeIds : id <= i
        /\ id <= scene.ids
        /\ alloc' = id
        /\ CheckNewFd(x)
        /\ \/ (\E z \in {x, y} : SetSlot(H(id), [z EXCEPT !.type = "INVALID"])) /\ UNCHANGED told
           \/ /\ SetSlot(H(id), [y EXCEPT !.type = "PACCEPT"])
              /\ told' = [told EXCEPT ![id].start = TRUE]

\* report_accept: accept fails and leaves the connection waiting (EMFILE), or the
\* connection is closed for want of an id, or it has a new id, unless new_fd fails.
ReportAccept ==
    /\ Event({"LISTEN"})
    /\ ev' = Tail(ev)
    /\ th' = Polling
    /\ \/ UNCHANGED <<slot, alloc, net, told, failed>>
       \/ /\ net[Y.id].inb > 0
          /\ net' = [net EXCEPT ![Y.id].inb = @ - 1]
          /\ UNCHANGED <<slot, alloc, told, failed>> \/ \E id \in FreeIds : Accept(id)
    /\ UNCHANGED <<wire, freed>>

\* An event of a slot that was closed meanwhile is ignored.
InvalidSocket ==
    /\ Event({"INVALID"})
    /\ ev' = Tail(ev) /\ th' = Polling
    /\ UNCHANGED <<slot, alloc, net, wire, told, freed, failed>>

\* e->s is NULL
VoidEvent ==
    /\ ev # <<>> /\ E0.slot = None
    /\ th.pc = "poll" /\ ~ctrl
    /\ ev' = Tail(ev)
    /\ UNCHANGED <<workVars, slot, alloc, pipe, ctrl, th, net, wire, told, sent, freed, failed>>

\* After a read the same event may stand for a write.
AfterRead(goOn) ==
    ev' = IF goOn /\ E0.write THEN <<[E0 EXCEPT !.read = FALSE]>> \o Tail(ev) ELSE Tail(ev)

\* forward_message_tcp
ReadTcp ==
    LET n == net[Y.id]
    IN  /\ Event(Plain) /\ E0.read /\ Y.protocol = "tcp"
        /\ \/ \* an error, or nothing there
              /\ n.inb = 0 /\ (n.rst = "err" \/ (n.rst = "no" /\ ~n.fin))
              /\ net' = [net EXCEPT ![Y.id].rst = IF @ = "err" THEN "done" ELSE @]
              /\ AfterRead(n.rst = "no") /\ th' = Polling
              /\ UNCHANGED <<slot, told, freed, failed>>
           \/ \* data; n == sz reads again
              /\ n.inb > 0
              /\ net' = [net EXCEPT ![Y.id].inb = @ - 1]
              /\ (ev' = ev /\ Y.type # "HALFCLOSE_READ") \/ AfterRead(TRUE)
              /\ th' = Polling
              /\ UNCHANGED <<slot, told, freed, failed>>
           \/ \* the peer closed
              /\ n.inb = 0 /\ (n.rst = "done" \/ (n.fin /\ n.rst = "no"))
              /\ IF Y.closing
                 THEN /\ AfterRead(TRUE) /\ UNCHANGED told
                      /\ IF NoMoreSendingData(Y) THEN BeginForceClose(E0.slot, "none", FALSE)
                         ELSE UNCHANGED <<slot, freed, failed>> /\ th' = Polling
                 ELSE IF Y.type = "HALFCLOSE_READ"
                 THEN AfterRead(TRUE) /\ th' = Polling /\ UNCHANGED <<slot, told, freed, failed>>
                 ELSE IF Y.type = "HALFCLOSE_WRITE"
                 THEN AfterRead(FALSE) /\ BeginForceClose(E0.slot, "close", FALSE) /\ UNCHANGED told
                 ELSE /\ AfterRead(FALSE) /\ th' = Polling
                      /\ SetSlot(E0.slot, CloseRead(Y)) /\ Tell(Y.id, "close")
                      /\ UNCHANGED <<freed, failed>>
              /\ UNCHANGED net
        /\ UNCHANGED <<alloc, wire>>

\* forward_message_udp: reads until there is nothing left; an error closes
ReadUdp ==
    LET n == net[Y.id]
    IN  /\ Event(Plain) /\ E0.read /\ Y.protocol # "tcp"
        /\ \/ /\ n.inb > 0 /\ net' = [net EXCEPT ![Y.id].inb = @ - 1]
              /\ ev' = ev /\ th' = Polling
              /\ UNCHANGED <<slot, freed, failed>>
           \/ /\ n.inb = 0 /\ n.rst = "no" /\ AfterRead(TRUE) /\ th' = Polling
              /\ UNCHANGED <<slot, net, freed, failed>>
           \/ /\ n.inb = 0 /\ n.rst # "no" /\ AfterRead(FALSE)
              /\ BeginForceClose(E0.slot, "err", FALSE) /\ UNCHANGED net
        /\ UNCHANGED <<alloc, wire, told>>

RaiseUncomplete_Not(x) == x

\* raise_uncomplete: the rest of a low packet goes on as high
RaiseUncomplete(x) == [x EXCEPT !.high = <<Head(x.low)>>, !.low = Tail(x.low)]

\* The socket after send_buffer_: steps 1 to 3, with the outcomes h and l of its lists.
SentBy(x, h, l) ==
    LET high == Rest(x.high, h)
        low == Rest(x.low, l)
        y == [x EXCEPT !.high = high, !.low = low,
                       !.wb = @ - ((Load(x.high) + Load(x.low)) - (Load(high) + Load(low)))]
    IN  [x |-> IF high = <<>> /\ Uncomplete(low) THEN RaiseUncomplete(y) ELSE y,
         out |-> Written(x.high, h) \o Written(x.low, l)]

WithDirect_Last(x, a) ==
    IF x.dw = None THEN x
    ELSE [x EXCEPT !.high = Append(@, [x.dw EXCEPT !.to = a]), !.dw = None, !.wb = @ + Left(x.dw)]

\* send_buffer: the rest of a direct write comes first; for UDP its address is
\* whatever the memory holds.
WithDirect(x, a) ==
    IF x.dw = None THEN x
    ELSE [x EXCEPT !.high = <<[x.dw EXCEPT !.to = a]>> \o @, !.dw = None, !.wb = @ + Left(x.dw)]

\* An error of write: close_write
WriteError(x) ==
    LET i == E0.slot
        all == Packets(x.high) \cup Packets(x.low)
        close == x.closing \/ x.type = "HALFCLOSE_READ"
        already == x.type = "HALFCLOSE_WRITE"
    IN  /\ SetSlot(i, IF close THEN [x EXCEPT !.high = <<>>, !.low = <<>>, !.type = "INVALID"]
                      ELSE IF already THEN x
                      ELSE [x EXCEPT !.type = "HALFCLOSE_WRITE", !.writing = FALSE])
        /\ Free(IF close THEN all ELSE {})
        /\ net' = [net EXCEPT ![x.id].rst = "done", ![x.id].shut = @ \/ ~(close \/ already)]
        /\ UNCHANGED <<wire, told, failed>>

\* send_buffer_ with these outcomes; step 4 when all is sent
WriteSome(x, h, l) ==
    LET r == SentBy(x, h, l)
        y == r.x
        had == Packets(x.high) \cup Packets(x.low)
        empty == BufferEmpty(y)
    IN  /\ wire' = [wire EXCEPT ![x.id] = Extend(@, r.out)]
        /\ Free(had \ (Packets(y.high) \cup Packets(y.low)))
        /\ failed' = failed \cup (IF Uncomplete(x.low) THEN {"send_buffer: low is complete"} ELSE {})
                            \cup (IF empty /\ y.wb # 0 THEN {"send_buffer: wb_size = 0"} ELSE {})
        /\ SetSlot(E0.slot, IF ~empty THEN y
                            ELSE IF y.closing THEN [y EXCEPT !.type = "INVALID"]
                            ELSE [y EXCEPT !.writing = FALSE])
        /\ UNCHANGED <<net, told>>

SendBuffer ==
    /\ Event(Plain) /\ ~E0.read /\ E0.write
    /\ ev' = Tail(ev) /\ th' = Polling
    /\ \/ /\ lock[E0.slot] # None          \* blocked by a direct write
          /\ UNCHANGED <<slot, net, wire, told, freed, failed>>
       \/ /\ lock[E0.slot] = None
          /\ \E a \in IF Y.protocol = "udp" /\ Y.dw # None THEN 0 .. MaxCalls + 1 ELSE {0} :
               LET x == WithDirect(Y, a)
                   udp == Y.protocol = "udp"
                   reset == net[x.id].rst # "no"
               IN  \/ reset /\ ~udp /\ ~BufferEmpty(x) /\ WriteError(x)
                   \/ /\ udp \/ ~reset \/ BufferEmpty(x)
                      /\ \E h \in Outcomes(x.high, udp, reset) :
                           IF h.m + h.drop < Len(x.high) THEN WriteSome(x, h, Nothing)
                           ELSE \E l \in Outcomes(x.low, udp, reset) : WriteSome(x, h, l)
    /\ UNCHANGED alloc

\* The error and eof flags, if there was nothing to read or write
ErrorEvent ==
    /\ Event(Plain) /\ ~E0.read /\ ~E0.write
    /\ ev' = Tail(ev)
    /\ \/ /\ E0.error
          /\ net' = [net EXCEPT ![Y.id].rst = IF @ = "err" THEN "done" ELSE @] /\ th' = Polling
          /\ UNCHANGED <<slot, freed, failed>>
       \/ /\ ~E0.error /\ E0.eof
          /\ BeginForceClose(E0.slot, IF Y.type = "HALFCLOSE_READ" THEN "none" ELSE "close", FALSE)
          /\ UNCHANGED net
       \/ /\ ~E0.error /\ ~E0.eof /\ th' = Polling
          /\ UNCHANGED <<slot, net, freed, failed>>
    /\ UNCHANGED <<alloc, wire, told>>

\* An event of a socket closed meanwhile whose slot is reserved again: it has no
\* descriptor to read and nothing to write, and force_close asserts it is not called.
ReservedEvent ==
    LET write == ~E0.read /\ E0.write
    IN  /\ Event({"RESERVE"})
        /\ ev' = Tail(ev) /\ th' = Polling
        /\ Check("event of a reserved slot",
                 /\ ~E0.read
                 /\ IF write THEN Y.wb = 0 /\ ~Y.closing ELSE E0.error \/ ~E0.eof)
        /\ SetSlot(E0.slot, [Y EXCEPT !.writing = @ /\ ~write])
        /\ UNCHANGED <<alloc, net, wire, told, freed>>

-----------------------------------------------------------------------------
(* The network.                                                            *)

Network(id) ==
    LET x == slot[H(id)]
        n == net[id]
        Becomes(m) == net' = [net EXCEPT ![id] = m]
    IN  /\ x.id = id /\ x.type \notin {"INVALID", "RESERVE"} /\ n.rst = "no"
        /\ moves < scene.nmove /\ moves' = moves + 1
        /\ \/ x.type = "CONNECTING" /\ n.est = "wait" /\ \E o \in {"ok", "fail"} : Becomes([n EXCEPT !.est = o])
           \/ x.type # "CONNECTING" /\ n.inb = 0 /\ ~n.fin /\ Becomes([n EXCEPT !.inb = 1])
           \/ x.type \notin {"CONNECTING", "PLISTEN", "LISTEN"} /\ ~n.udp /\ ~n.fin /\ Becomes([n EXCEPT !.fin = TRUE])
           \/ x.type \notin {"CONNECTING", "PLISTEN", "LISTEN"} /\ Becomes([n EXCEPT !.rst = "err"])
        /\ UNCHANGED <<scene, slot, lock, alloc, pipe, ev, ctrl, th, wire, told, wk, sent, freed, conn, due, calls, failed>>

Worker(w) ==
    \/ Connect(w) \/ Listen(w) \/ BindFd(w) \/ Udp(w)
    \/ \E id \in 1 .. alloc :
         StartPause(w, id) \/ Close(w, id) \/ Shutdown(w, id)
         \/ Send(w, id) \/ SendLow(w, id) \/ UdpSend(w, id) \/ UdpConnect(w, id)
    \/ DoubleCheck(w) \/ DirectWrite(w) \/ IncSending(w) \/ PutRequest(w) \/ Resolve(w)
    \/ Exit(w)

SocketThread ==
    \/ OpenSocket \/ ListenSocket \/ BindSocket \/ AddUdpSocket \/ CloseSocket
    \/ Resume \/ Pause \/ TriggerWrite \/ SetUdpAddress \/ SendSocket \/ DecSending \/ ExitCmd
    \/ ForceClose \/ ClearEvent
    \/ NoCommand \/ SpWait \/ ReportConnect \/ ReportAccept \/ InvalidSocket \/ VoidEvent \/ ReadTcp \/ ReadUdp \/ SendBuffer
    \/ ErrorEvent \/ ReservedEvent

\* An assertion that does not hold ends the process.
Next == failed = {} /\ ((\E w \in Workers : Worker(w)) \/ SocketThread \/ (\E id \in Ids : Network(id)))

Spec == Init /\ [][Next]_vars
-----------------------------------------------------------------------------
(* Properties.                                                             *)

\* The id's descriptor is open and nobody has begun to close it by force.
Open(id) == slot[H(id)].id = id /\ slot[H(id)].type \notin {"INVALID", "RESERVE"}
            /\ ~(th.pc = "force" /\ th.slot = H(id))

Whole(p) == \E k \in DOMAIN wire[sent[p].id] :
              LET u == wire[sent[p].id][k] IN u.p = p /\ u.off = 0 /\ u.n = Size(p)

\* What the peer of an open socket has received is packets for this id, each once
\* and in one piece (the last one may be incomplete), and packets one worker sent
\* with the same priority in the order it sent them, although direct writes, both
\* lists and the rest of a partial direct write are served by different threads.
WireIsPackets ==
    \A id \in Ids : Open(id) /\ ~net[id].udp =>
      LET s == wire[id]
      IN  \A k \in DOMAIN s :
            /\ sent[s[k].p].id = id
            /\ s[k].off = 0 /\ (s[k].n = Size(s[k].p) \/ k = Len(s))
            /\ \A j \in 1 .. k - 1 :
                 /\ s[j].p # s[k].p
                 /\ sent[s[j].p].w = sent[s[k].p].w /\ sent[s[j].p].kind = sent[s[k].p].kind => s[j].p < s[k].p

\* While a connection is up, no packet the server accepted disappears: its buffer
\* is freed only after the whole of it was written.
NoneLost ==
    \A p \in DOMAIN sent :
      LET id == sent[p].id
      IN  sent[p].ok /\ ~sent[p].udp /\ freed[p] > 0 /\ Open(id) /\ slot[H(id)].type = "CONNECTED"
            => Whole(p)

\* Every buffer is in exactly one hand (a worker, the pipe, a write list, the direct
\* write buffer) or was freed exactly once, whatever way the packet took.
Hands(p) ==
    {<<"worker", w, 0>> : w \in {v \in Workers : wk[v].pc # "idle" /\ wk[v].p = p /\ wk[v].cmd # "W"}}
    \cup {<<"pipe", k, 0>> : k \in {j \in DOMAIN pipe : pipe[j].cmd \in {"D", "P", "A"} /\ pipe[j].p = p}}
    \cup (UNION {{<<"high", i, k>> : k \in {j \in DOMAIN slot[i].high : slot[i].high[j].p = p}} : i \in Slots})
    \cup (UNION {{<<"low", i, k>> : k \in {j \in DOMAIN slot[i].low : slot[i].low[j].p = p}} : i \in Slots})
    \cup {<<"direct", i, 0>> : i \in {j \in Slots : slot[j].dw # None /\ slot[j].dw.p = p}}

BufferOnce == \A p \in DOMAIN sent : sent[p].ok => freed[p] + Cardinality(Hands(p)) = 1

\* "SOCKET_CLOSE can be raised (only once)": the owner is told once, whoever closes
\* first, with half-closed sockets, errors and hangups in any order.
CloseOnce == \A id \in Ids : told[id].close <= 1

\* A service that sends and then closes: all it sent is on the wire when the
\* descriptor is closed, unless the peer reset the connection, someone asked for a
\* shutdown, or an earlier socket of the slot was reset: the end its event reports may
\* meet this one instead (clear_closed_event), which then is closed by force.
Flushed ==
    \A id \in Ids :
      due[id] # None /\ id <= alloc /\ ~net[id].udp /\ net[id].est # "listen"
      /\ (\A j \in 1 .. id : H(j) = H(id) => net[j].rst = "no")
      /\ (slot[H(id)].id # id \/ slot[H(id)].type = "INVALID")
        => \A p \in due[id] : sent[p].ok => Whole(p)

\* The write event is enabled, or a request to enable it is on its way, whenever
\* something waits in a list or in the direct write buffer of a live socket.
WriteArmed ==
    \A i \in Slots :
      LET x == slot[i]
      IN  /\ x.type \in {"CONNECTED", "HALFCLOSE_READ", "BIND"} /\ x.protocol = "tcp"
          /\ ~(th.pc = "force" /\ th.slot = i)
          /\ ~BufferEmpty(x) \/ x.dw # None
          => \/ x.writing
             \/ \E k \in DOMAIN pipe : pipe[k].cmd = "W" /\ pipe[k].id = x.id
             \/ \E w \in Workers : wk[w].pc # "idle" /\ wk[w].cmd = "W" /\ wk[w].id = x.id

\* A datagram goes to the address its sender gave, or to one that was connected no
\* earlier than the sender's own last connect, except if its first write failed:
\* the second one takes the address from memory that was not set.
UdpAddress ==
    \A id \in Ids : net[id].udp =>
      \A k \in DOMAIN wire[id] :
        LET u == wire[id][k]
        IN  ~sent[u.p].retried =>
              IF sent[u.p].kind = "A" THEN u.to = MaxCalls + 1 ELSE u.to >= sent[u.p].since /\ u.to > 0

\* The assertions of new_fd, force_close, dec_sending_ref and send_buffer_ hold, unless
\* an event meets a slot that was reserved since.
NoListAssertFails == failed \subseteq {"event of a reserved slot"}

\* The assertions hold whatever happens, as reserve_id lets anyone have a free slot.
NoSocketAssertFails == failed = {}

\* "busy waiting here for socket thread dec it": when no request is on its way, the
\* count of requests being sent is 0 again.
SendingDrains ==
    (\A w \in Workers : wk[w].pc = "idle") /\ pipe = <<>> /\ th.pc = "poll"
      => \A i \in Slots : slot[i].type = "CONNECTED" => slot[i].sending = 0
=============================================================================
