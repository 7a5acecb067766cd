------------------------------- MODULE Harbor -------------------------------
(***************************************************************************)
(* The harbor service (service-src/service_harbor.c) of two processes and  *)
(* the part of their slave services (service/cslave.lua) that makes the    *)
(* connection between them.                                                *)
(*                                                                         *)
(* The process 1 connects ("S"), the process 2 accepts ("A").  A message   *)
(* for a service of the other process is given to the local harbor, by     *)
(* handle or by global name.  The bytes of a message on the wire are two   *)
(* pieces of header and two of content: where a fragment ends is arbitrary.*)
(***************************************************************************)
EXTENDS Naturals, Sequences, SequencesExt, FiniteSets

CONSTANTS QueueSize,    \* DEFAULT_QUEUE_SIZE
          MaxSend,      \* bound: messages each process sends
          MaxFrag       \* bound: pieces of a fragment

VARIABLES h,        \* struct harbor of each process, h->s[other] in it
          net,      \* what is on the wire to each process
          link,     \* up: the connection lives; id: the byte the slave of process 2 read
          owner,    \* the process that registered the global name
          says,     \* the harbor id process 2 was started with
          sent, got \* messages given to a harbor; messages that arrived, with their handle

harborVars == <<h, net, link, owner, says, sent, got>>

Nodes == {1, 2}
Other(n) == 3 - n
Handle == 1         \* the handle of the service in either process; 0 is no handle
NoQueue == [size |-> 0]

new_queue == [size |-> QueueSize, head |-> 0, tail |-> 0, data |-> [i \in 0 .. QueueSize - 1 |-> <<>>]]

\* harbor_create
Init ==
    /\ h = [n \in Nodes |-> [fd |-> FALSE, status |-> "WAIT", queue |-> NoQueue, read |-> <<>>,
                             value |-> FALSE, names |-> NoQueue]]
    /\ net = [n \in Nodes |-> <<>>]
    /\ link = [up |-> FALSE, id |-> 0, garbled |-> FALSE, early |-> FALSE, called |-> FALSE]
    /\ owner \in Nodes /\ says \in {2, 3}
    /\ sent = [n \in Nodes |-> <<>>] /\ got = [n \in Nodes |-> <<>>]

-----------------------------------------------------------------------------
(* The queues.                                                             *)

push_queue_msg_Last(q, m) ==
    LET full == (q.tail + 1) % q.size = q.head
        p == IF ~full THEN q
             ELSE [size |-> 2 * q.size, head |-> 0, tail |-> q.size - 2,
                   data |-> [i \in 0 .. 2 * q.size - 1 |-> q.data[(i + q.head) % q.size]]]
    IN  [p EXCEPT !.data[p.tail] = m, !.tail = (@ + 1) % p.size]

push_queue_msg(q, m) ==
    LET full == (q.tail + 1) % q.size = q.head
        p == IF ~full THEN q
             ELSE [size |-> 2 * q.size, head |-> 0, tail |-> q.size - 1,
                   data |-> [i \in 0 .. 2 * q.size - 1 |->
                               IF i < q.size - 1 THEN q.data[(i + q.head) % q.size] ELSE <<>>]]
    IN  [p EXCEPT !.data[p.tail] = m, !.tail = (@ + 1) % p.size]

\* push_queue: into the queue, made when it is missing
push_queue(q, m) == push_queue_msg(IF q = NoQueue THEN new_queue ELSE q, m)

\* what a loop of pop_queue takes out
pop_queue(q) ==
    IF q = NoQueue THEN <<>>
    ELSE [k \in 1 .. (q.tail + q.size - q.head) % q.size |-> q.data[(q.head + k - 1) % q.size]]

-----------------------------------------------------------------------------
(* Sending.  x is the state of a step in process n: its harbor, what it     *)
(* puts on the wire and what it gives to services of its own process.       *)

Work(n) == [s |-> h[n], out |-> <<>>, local |-> <<>>, early |-> FALSE]

\* send_remote: length, content and cookie of a message
send_remote(x, m) ==
    [x EXCEPT !.out = @ \o <<<<m, "h1">>, <<m, "h2">>, <<m, "c1">>, <<m, "c2">>>>,
              !.early = @ \/ x.s.status = "HANDSHAKE"]

dispatch_queue_Keep(x) == FoldLeft(send_remote, x, pop_queue(x.s.queue))

dispatch_queue(x) ==
    [FoldLeft(send_remote, x, pop_queue(x.s.queue)) EXCEPT !.s.queue = NoQueue]

remote_send_handle(x, m, local) ==
    IF local THEN [x EXCEPT !.local = Append(@, m)]
    ELSE IF ~x.s.fd \/ x.s.status = "HANDSHAKE"
         THEN IF x.s.status = "DOWN" THEN x ELSE [x EXCEPT !.s.queue = push_queue(@, m)]
         ELSE send_remote(x, m)

remote_send_name(x, m, local) ==
    IF x.s.value THEN remote_send_handle(x, [m EXCEPT !.dst = Handle], local)
    ELSE [x EXCEPT !.s.names = push_queue(@, m)]

\* the messages that waited for a name: sent at once on a connection, however far
\* it is; without one they join the queue of the harbor as they are
dispatch_name_queue(x, local) ==
    LET ms == pop_queue(x.s.names)
        Whole(m) == [m EXCEPT !.dst = Handle]
    IN  IF local THEN [x EXCEPT !.local = @ \o [k \in DOMAIN ms |-> Whole(ms[k])]]
        ELSE IF ~x.s.fd
             THEN [x EXCEPT !.s.queue = IF @ = NoQueue THEN x.s.names ELSE FoldLeft(push_queue_msg, @, ms)]
             ELSE FoldLeft(send_remote, x, [k \in DOMAIN ms |-> Whole(ms[k])])

update_name(x, local) ==
    LET y == [x EXCEPT !.s.value = TRUE]
    IN  IF x.s.names = NoQueue THEN y ELSE [dispatch_name_queue(y, local) EXCEPT !.s.names = NoQueue]

\* The end of a step: a dead connection swallows what is written to it.
Done(n, x) ==
    /\ h' = [h EXCEPT ![n] = x.s]
    /\ net' = [net EXCEPT ![Other(n)] = IF link.up THEN @ \o x.out ELSE @]
    /\ got' = [got EXCEPT ![n] = @ \o x.local]

-----------------------------------------------------------------------------
(* mainloop of the harbor.                                                 *)

\* PTYPE_SYSTEM: a message of a service, by handle or by name
SendMessage(n, by) ==
    LET m == [src |-> n, k |-> Len(sent[n]) + 1, by |-> by, dst |-> IF by = "name" THEN 0 ELSE Handle]
        x == IF by = "name" THEN remote_send_name(Work(n), m, owner = n) ELSE remote_send_handle(Work(n), m, FALSE)
    IN  /\ Len(sent[n]) < MaxSend
        /\ sent' = [sent EXCEPT ![n] = Append(@, m)]
        /\ Done(n, x)
        /\ link' = [link EXCEPT !.early = @ \/ x.early]
        /\ UNCHANGED <<owner, says>>

\* PTYPE_HARBOR "N": the slave knows the name
CommandName(n) ==
    LET x == update_name(Work(n), owner = n)
    IN  /\ ~h[n].value
        /\ Done(n, x)
        /\ link' = [link EXCEPT !.early = @ \/ x.early]
        /\ UNCHANGED <<owner, says, sent>>

handshake(x, id) == [x EXCEPT !.out = <<<<id, "id">>>>]

\* "S": the slave of process 1 has connected
CommandConnect ==
    LET x == handshake(Work(1), 1)
    IN  /\ ~h[1].fd /\ ~link.called
        /\ h' = [h EXCEPT ![1] = [x.s EXCEPT !.fd = TRUE, !.status = "HANDSHAKE"]]
        /\ net' = [net EXCEPT ![2] = x.out]
        /\ link' = [link EXCEPT !.up = TRUE, !.called = TRUE]
        /\ UNCHANGED <<owner, says, sent, got>>

\* accept_slave: socket.read(fd, 1); what else came with it, or comes before the
\* harbor takes the socket over, stays behind in the slave's buffer
CslaveRead(k) ==
    /\ link.up /\ ~h[2].fd /\ k <= Len(net[2])
    /\ link' = [link EXCEPT !.id = IF @ = 0 THEN net[2][1][1] ELSE @]
    /\ net' = [net EXCEPT ![2] = SubSeq(@, k + 1, Len(@))]
    /\ UNCHANGED <<h, owner, says, sent, got>>

\* "A"
CommandAccept ==
    LET x == dispatch_queue(handshake([Work(2) EXCEPT !.s.fd = TRUE, !.s.status = "HEADER"], says))
    IN  /\ link.id # 0 /\ ~h[2].fd
        /\ Done(2, x)
        /\ UNCHANGED <<link, owner, says, sent>>

close_harbor(x) == [x EXCEPT !.s.status = "DOWN", !.s.queue = NoQueue]

\* forward_local_messsage; without a handle the sender is told of an error
forward_local_messsage(x, m) == [x EXCEPT !.local = Append(@, m)]

\* One piece for push_socket_data.
PushPiece(x, piece) ==
    LET read == Append(x.s.read, piece)
    IN  CASE x.s.status = "HANDSHAKE" ->
               IF piece # <<2, "id">> THEN close_harbor(x)
               ELSE dispatch_queue([x EXCEPT !.s.status = "HEADER"])
          [] x.s.status = "HEADER" ->
               IF Len(read) = 1 THEN [x EXCEPT !.s.read = read]
               ELSE IF read[1][2] = "h1" /\ read[2][2] = "h2" THEN [x EXCEPT !.s.read = read, !.s.status = "CONTENT"]
               ELSE [x EXCEPT !.s.status = "GARBLED"]
          [] x.s.status = "CONTENT" ->
               IF Len(read) < 4 THEN [x EXCEPT !.s.read = read]
               ELSE [forward_local_messsage(x, piece[1]) EXCEPT !.s.read = <<>>, !.s.status = "HEADER"]
          [] OTHER -> x

push_socket_data(n, k) ==
    LET x == FoldLeft(PushPiece, Work(n), SubSeq(net[n], 1, k))
    IN  /\ link.up /\ h[n].fd /\ k <= Len(net[n])
        /\ h' = [h EXCEPT ![n] = x.s]
        /\ net' = [net EXCEPT ![n] = SubSeq(@, k + 1, Len(@)), ![Other(n)] = @ \o x.out]
        /\ got' = [got EXCEPT ![n] = @ \o x.local]
        /\ link' = [link EXCEPT !.up = x.s.status # "DOWN", !.garbled = @ \/ x.s.status = "GARBLED"]
        /\ UNCHANGED <<owner, says, sent>>

\* The connection breaks.  SKYNET_SOCKET_TYPE_CLOSE: report_harbor_down only tells
\* the slave; the harbor keeps its fd and its status.
Break ==
    /\ link.up
    /\ link' = [link EXCEPT !.up = FALSE]
    /\ net' = [n \in Nodes |-> <<>>]
    /\ UNCHANGED <<h, owner, says, sent, got>>

Next ==
    \/ \E n \in Nodes : \/ \E by \in {"handle", "name"} : SendMessage(n, by)
                        \/ CommandName(n)
                        \/ \E k \in 1 .. MaxFrag : push_socket_data(n, k)
    \/ CommandConnect \/ CommandAccept \/ Break
    \/ \E k \in 1 .. MaxFrag : CslaveRead(k)

Spec == Init /\ [][Next]_harborVars

-----------------------------------------------------------------------------
(* Properties.                                                             *)

ByHandle(ms, n) == SelectSeq(ms, LAMBDA m : m.src = n /\ m.by = "handle")
Waiting(n) == ByHandle(pop_queue(h[n].queue), n)
Settled == link.up /\ (\A n \in Nodes : net[n] = <<>> /\ h[n].status = "HEADER")

\* Unless a message went out before the handshake, what arrives of the messages sent
\* by handle is what was sent, in order, each once: through a queue that grows while
\* it waits for the connection, the handshake and any fragments, with the messages
\* for a name among them; and once the connection is at rest nothing is missing.
InOrder ==
    \A n \in Nodes : ~link.early =>
      /\ ~link.garbled
      /\ IsPrefix(ByHandle(got[Other(n)], n), ByHandle(sent[n], n))
      /\ Settled => ByHandle(got[Other(n)], n) = ByHandle(sent[n], n)

\* A harbor has a queue for the other one only while that cannot be written to: when
\* the handshake is over nothing is left behind in it, and no later message overtakes.
QueueOnlyBefore ==
    \A n \in Nodes : h[n].queue # NoQueue => h[n].status \in {"WAIT", "HANDSHAKE"}

\* "we should send self_id to fd first , and then recv a id (check it), and at last
\* send queue" (service_harbor.c:9): no message goes out before the handshake is done.  A name that
\* is resolved meanwhile sends its queue at once, so this does not hold; no run checks it.
HandshakeFirst == ~link.early
=============================================================================
