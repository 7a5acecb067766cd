------------------------------ MODULE Netpack ------------------------------
(***************************************************************************)
(* lualib-src/lua-netpack.c: packages of a two byte size and data, found   *)
(* in the fragments in which the bytes of many connections arrive.         *)
(*                                                                         *)
(* The fragment of a connection that ends inside a package is kept in a    *)
(* hash of lists, several packages of one fragment go through a ring that  *)
(* grows.  After a fragment with more than one package the gate pops until *)
(* the ring is empty before it looks at the next message (gateserver.lua). *)
(***************************************************************************)
EXTENDS Naturals, Sequences, SequencesExt, FiniteSets

CONSTANTS Fds,
          Base,         \* values of a byte: 256
          HashSize,     \* HASHSIZE
          QueueSize,    \* QUEUESIZE
          Packages,     \* the packages clients send
          MaxPackage,   \* bound: packages of one connection
          MaxConn       \* bound: connections that use one fd

VARIABLES input,    \* bytes of each fd that have not arrived
          arrived,  \* bytes of each fd that have
          conns,    \* connections each fd has had
          q,        \* struct queue
          got       \* packages of each fd given to the gate

packVars == <<input, arrived, conns, q, got>>

write_size(len) == <<len \div Base, len % Base>>
lpack(p) == write_size(Len(p)) \o p
read_size(s) == s[1] * Base + s[2]
Rest(s, n) == SubSeq(s, n + 1, Len(s))

Streams == {FlattenSeq([k \in DOMAIN ps |-> lpack(ps[k])]) : ps \in UNION {[1 .. n -> Packages] : n \in 1 .. MaxPackage}}

hash_fd(fd) == fd % HashSize

Init ==
    /\ input \in [Fds -> Streams]
    /\ arrived = [f \in Fds |-> <<>>] /\ conns = [f \in Fds |-> 1]
    /\ q = [cap |-> QueueSize, head |-> 0, tail |-> 0,
            ring |-> [i \in 0 .. QueueSize - 1 |-> <<>>],
            hash |-> [h \in 0 .. HashSize - 1 |-> <<>>]]
    /\ got = [f \in Fds |-> <<>>]

\* find_uncomplete takes the entry out of its list.
UncompleteOf(x, fd) == SelectSeq(x.hash[hash_fd(fd)], LAMBDA u : u.id = fd)
Without(x, fd) == [x EXCEPT !.hash[hash_fd(fd)] = SelectSeq(@, LAMBDA u : u.id # fd)]

\* save_uncomplete.  read: bytes of the package so far, or "header" with its first byte
Saved(x, fd, u) == [x EXCEPT !.hash[hash_fd(fd)] = <<u>> \o @]
HeaderByte(fd, b) == [id |-> fd, half |-> TRUE, size |-> b, data |-> <<>>]
Part(fd, size, data) == [id |-> fd, half |-> FALSE, size |-> size, data |-> data]

expand_queue_NoTurn(x) ==
    [x EXCEPT !.cap = @ + QueueSize, !.head = 0, !.tail = x.cap,
              !.ring = [i \in 0 .. x.cap + QueueSize - 1 |-> IF i < x.cap THEN x.ring[i] ELSE <<>>]]

expand_queue(x) ==
    [x EXCEPT !.cap = @ + QueueSize, !.head = 0, !.tail = x.cap,
              !.ring = [i \in 0 .. x.cap + QueueSize - 1 |->
                          IF i < x.cap THEN x.ring[(x.head + i) % x.cap] ELSE <<>>]]

push_data(x, fd, data) ==
    LET y == [x EXCEPT !.ring[x.tail] = <<fd, data>>, !.tail = IF @ + 1 >= x.cap THEN @ + 1 - x.cap ELSE @ + 1]
    IN  IF y.head = y.tail THEN expand_queue(y) ELSE y

RECURSIVE push_more(_, _, _)
push_more(x, fd, s) ==
    IF Len(s) = 1 THEN Saved(x, fd, HeaderByte(fd, s[1]))
    ELSE LET size == read_size(s)
             data == Rest(s, 2)
             y == push_data(x, fd, SubSeq(data, 1, size))
         IN  IF Len(data) < size THEN Saved(x, fd, Part(fd, size, data))
             ELSE IF Len(data) = size THEN y ELSE push_more(y, fd, Rest(data, size))

\* A package that may be incomplete and the bytes after its header: what becomes
\* of the queue and, if nothing follows the package, the package itself.
Complete(x, fd, size, data) ==
    IF Len(data) < size THEN [q |-> Saved(x, fd, Part(fd, size, data)), now |-> <<>>]
    ELSE IF Len(data) = size THEN [q |-> x, now |-> <<data>>]
    ELSE [q |-> push_more(push_data(x, fd, SubSeq(data, 1, size)), fd, Rest(data, size)), now |-> <<>>]

\* filter_data_
filter_data(fd, s) ==
    LET x == Without(q, fd)
        u == UncompleteOf(q, fd)[1]
    IN  IF UncompleteOf(q, fd) # <<>>
        THEN IF u.half THEN Complete(x, fd, u.size * Base + s[1], Rest(s, 1))
             ELSE Complete(x, fd, u.size, u.data \o s)
        ELSE IF Len(s) = 1 THEN [q |-> Saved(x, fd, HeaderByte(fd, s[1])), now |-> <<>>]
        ELSE Complete(x, fd, read_size(s), Rest(s, 2))

\* lfilter of SKYNET_SOCKET_TYPE_DATA
FilterData(fd, n) ==
    LET r == filter_data(fd, SubSeq(input[fd], 1, n))
    IN  /\ q.head = q.tail /\ n <= Len(input[fd])
        /\ q' = r.q
        /\ got' = [got EXCEPT ![fd] = @ \o r.now]
        /\ input' = [input EXCEPT ![fd] = Rest(@, n)]
        /\ arrived' = [arrived EXCEPT ![fd] = @ \o SubSeq(input[fd], 1, n)]
        /\ UNCHANGED conns

close_uncomplete_Keep(fd) == q

close_uncomplete(fd) == Without(q, fd)

\* lfilter of SKYNET_SOCKET_TYPE_CLOSE and _ERROR; the id may be used again
FilterClose(fd, s) ==
    /\ q.head = q.tail /\ conns[fd] < MaxConn
    /\ q' = close_uncomplete(fd)
    /\ input' = [input EXCEPT ![fd] = s]
    /\ arrived' = [arrived EXCEPT ![fd] = <<>>]
    /\ got' = [got EXCEPT ![fd] = <<>>]
    /\ conns' = [conns EXCEPT ![fd] = @ + 1]

lpop ==
    LET np == q.ring[q.head]
    IN  /\ q.head # q.tail
        /\ q' = [q EXCEPT !.head = IF @ + 1 >= q.cap THEN 0 ELSE @ + 1]
        /\ got' = [got EXCEPT ![np[1]] = Append(@, np[2])]
        /\ UNCHANGED <<input, arrived, conns>>

Next ==
    \/ \E fd \in Fds : \/ \E n \in 1 .. Len(input[fd]) : FilterData(fd, n)
                       \/ \E s \in Streams : FilterClose(fd, s)
    \/ lpop

Spec == Init /\ [][Next]_packVars

-----------------------------------------------------------------------------
(* Properties.                                                             *)

RECURSIVE Frames(_)
\* the packages a sequence of bytes holds completely
Frames(s) ==
    IF Len(s) < 2 \/ Len(s) - 2 < read_size(s) THEN <<>>
    ELSE <<SubSeq(s, 3, 2 + read_size(s))>> \o Frames(Rest(s, 2 + read_size(s)))

Waiting(fd) ==
    LET n == (q.tail + q.cap - q.head) % q.cap
        all == [k \in 1 .. n |-> q.ring[(q.head + k - 1) % q.cap]]
        mine == SelectSeq(all, LAMBDA np : np[1] = fd)
    IN  [k \in DOMAIN mine |-> mine[k][2]]

\* Whatever the fragments and however those of several connections interleave, what
\* the gate was given and what waits in the ring are exactly the packages in the
\* bytes that arrived on this connection, in order; a former connection of the same
\* fd leaves nothing behind.
PackagesFound == \A fd \in Fds : got[fd] \o Waiting(fd) = Frames(arrived[fd])
=============================================================================
