---------------------------- MODULE SocketBuffer ----------------------------
(***************************************************************************)
(* The read buffer of a Lua socket (lualib-src/lua-socket.c): a list of    *)
(* the messages the socket thread delivered, an offset into the first one, *)
(* and a pool the list's nodes come from and go back to.  A byte is a      *)
(* member of Bytes; a message is a non-empty sequence of them.             *)
(***************************************************************************)
EXTENDS Naturals, Sequences, SequencesExt, FiniteSets

CONSTANTS Bytes,
          Sep,          \* the separator of readline
          MaxPush,      \* bound: messages pushed
          MaxMsg,       \* bound: bytes of a message
          PageNode      \* 8: the first page of the pool has twice as many nodes

VARIABLES sb,       \* struct socket_buffer: size, offset, list of nodes [n, msg]
          pool,     \* free: the free list; pages: how many there are; n: nodes made
          op        \* the last call and what it returned

bufVars == <<sb, pool, op>>

Flat(b) == SubSeq(FlattenSeq([k \in DOMAIN b.list |-> b.list[k].msg]), b.offset + 1,
                  FoldLeft(LAMBDA s, x : s + Len(x.msg), 0, b.list))

Init ==
    /\ sb = [size |-> 0, offset |-> 0, list |-> <<>>]
    /\ pool = [free |-> <<>>, pages |-> 0, n |-> 0]
    /\ op = [name |-> "new", arg |-> <<>>, found |-> TRUE, ret |-> <<>>, pushed |-> 0]

\* found: the call returned something else than nil
Did(name, arg, found, ret) ==
    op' = [name |-> name, arg |-> arg, found |-> found, ret |-> ret,
           pushed |-> op.pushed + (IF name = "push" THEN 1 ELSE 0)]

\* lnewpool: a page of nodes, twice as large as the one before
NewPool(p) ==
    LET size == PageNode * 2 ^ (p.pages + 1)
    IN  [free |-> [k \in 1 .. size |-> p.n + k], pages |-> p.pages + 1, n |-> p.n + size]

lpushbuffer(msg) ==
    LET p == IF pool.free = <<>> THEN NewPool(pool) ELSE pool
    IN  /\ op.pushed < MaxPush
        /\ pool' = [p EXCEPT !.free = Tail(@)]
        /\ sb' = [sb EXCEPT !.list = Append(@, [n |-> Head(p.free), msg |-> msg]), !.size = @ + Len(msg)]
        /\ Did("push", msg, TRUE, <<>>)

return_free_node_KeepOffset(x) ==
    [x EXCEPT !.sb.list = Tail(@), !.free = <<Head(x.sb.list).n>> \o @]

\* x: the buffer, the free list and what has been collected
return_free_node(x) ==
    [x EXCEPT !.sb.list = Tail(@), !.sb.offset = 0, !.free = <<Head(x.sb.list).n>> \o @]

\* Bytes of the first node, at most n, added to what was collected
Collect(x, n) ==
    LET b == x.sb
    IN  [x EXCEPT !.str = @ \o SubSeq(b.list[1].msg, b.offset + 1, b.offset + n)]

RECURSIVE PopLoop(_, _, _)
\* the loop of pop_lstring
PopLoop(x, sz, skip) ==
    LET b == x.sb
        bytes == Len(b.list[1].msg) - b.offset
        real == IF sz > skip THEN sz - skip ELSE 0
        some == Collect(x, IF real < bytes THEN real ELSE bytes)
    IN  IF bytes > sz THEN [Collect(x, real) EXCEPT !.sb.offset = @ + sz]
        ELSE IF bytes = sz THEN return_free_node(Collect(x, real))
        ELSE PopLoop(return_free_node(some), sz - bytes, skip)

pop_lstring(sz, skip) == PopLoop([sb |-> sb, free |-> pool.free, str |-> <<>>], sz, skip)

\* A call took sz bytes and returned all but the last skip.
Popped(name, arg, sz, skip) ==
    LET x == pop_lstring(sz, skip)
    IN  /\ sb' = [x.sb EXCEPT !.size = @ - sz]
        /\ pool' = [pool EXCEPT !.free = x.free]
        /\ Did(name, arg, TRUE, x.str)

lpopbuffer(sz) ==
    IF sb.size < sz \/ sz = 0
    THEN Did("pop", sz, FALSE, <<>>) /\ UNCHANGED <<sb, pool>>
    ELSE Popped("pop", sz, sz, 0)

RECURSIVE FreeAll(_)
FreeAll(x) ==
    IF x.sb.list = <<>> THEN x
    ELSE FreeAll(return_free_node(Collect(x, Len(x.sb.list[1].msg) - x.sb.offset)))

\* lreadall, lclearbuffer
lreadall ==
    LET x == FreeAll([sb |-> sb, free |-> pool.free, str |-> <<>>])
    IN  /\ sb' = [x.sb EXCEPT !.size = 0]
        /\ pool' = [pool EXCEPT !.free = x.free]
        /\ Did("all", <<>>, TRUE, x.str)
lclearbuffer ==
    LET x == FreeAll([sb |-> sb, free |-> pool.free, str |-> <<>>])
    IN  /\ sb' = [x.sb EXCEPT !.size = 0]
        /\ pool' = [pool EXCEPT !.free = x.free]
        /\ Did("clear", <<>>, TRUE, <<>>)

check_sep_OneNode(k, from, sep) ==
    LET msg == sb.list[k].msg
    IN  Len(msg) - from >= Len(sep) /\ SubSeq(msg, from + 1, from + Len(sep)) = sep

RECURSIVE check_sep(_, _, _)
\* check_sep: does sep begin at byte from of node k?  It may go on in the next ones.
check_sep(k, from, sep) ==
    LET msg == sb.list[k].msg
        sz == Len(msg) - from
    IN  IF sz >= Len(sep) THEN SubSeq(msg, from + 1, from + Len(sep)) = sep
        ELSE /\ SubSeq(msg, from + 1, Len(msg)) = SubSeq(sep, 1, sz)
             /\ check_sep(k + 1, 0, SubSeq(sep, sz + 1, Len(sep)))

RECURSIVE FindSep(_, _, _)
\* the loop of lreadline: how many bytes precede the separator, or -1 (size + 1 here)
FindSep(i, k, from) ==
    IF i + Len(Sep) > sb.size THEN sb.size + 1
    ELSE IF check_sep(k, from, Sep) THEN i
    ELSE IF from + 1 < Len(sb.list[k].msg) THEN FindSep(i + 1, k, from + 1)
    ELSE IF k = Len(sb.list) THEN sb.size + 1
    ELSE FindSep(i + 1, k + 1, 0)

lreadline ==
    LET i == IF sb.list = <<>> THEN sb.size + 1 ELSE FindSep(0, 1, sb.offset)
    IN  IF i > sb.size
        THEN Did("line", <<>>, FALSE, <<>>) /\ UNCHANGED <<sb, pool>>
        ELSE Popped("line", <<>>, i + Len(Sep), Len(Sep))

Next ==
    \/ \E n \in 1 .. MaxMsg : \E msg \in [1 .. n -> Bytes] : lpushbuffer(msg)
    \/ \E sz \in 0 .. MaxMsg + 1 : lpopbuffer(sz)
    \/ lreadline \/ lreadall \/ lclearbuffer

Spec == Init /\ [][Next]_bufVars

-----------------------------------------------------------------------------
(* Properties.                                                             *)

FirstSep(s) == {i \in 0 .. Len(s) - Len(Sep) : SubSeq(s, i + 1, i + Len(Sep)) = Sep}

\* However the bytes were cut into messages, pop and readline return them as one
\* stream: pop the next sz bytes if there are that many, readline what precedes the
\* first separator, also one that lies across messages, and nothing in between is
\* lost or returned twice.
ReadIsNext ==
    LET s == Flat(sb)  t == Flat(sb')
    IN  CASE op'.name = "push" -> t = s \o op'.arg
          [] op'.name = "pop" /\ ~op'.found -> t = s /\ (op'.arg = 0 \/ op'.arg > Len(s))
          [] op'.name = "pop" -> s = op'.ret \o t /\ Len(op'.ret) = op'.arg
          [] op'.name = "line" /\ ~op'.found -> t = s /\ FirstSep(s) = {}
          [] op'.name = "line" -> s = op'.ret \o Sep \o t /\ \A i \in FirstSep(s) : i >= Len(op'.ret)
          [] op'.name = "all" -> op'.ret = s /\ t = <<>>
          [] OTHER -> t = <<>>

ReadsTheStream == [][ReadIsNext]_bufVars

\* Every node of every page is in the list or in the free list, once, and size is
\* what the list holds: the pool never leaks a node or hands one out twice.
NodesKept ==
    /\ sb.size = Len(Flat(sb))
    /\ LET used == [k \in DOMAIN sb.list |-> sb.list[k].n]
           all == used \o pool.free
       IN  Len(all) = pool.n /\ ToSet(all) = 1 .. pool.n
=============================================================================
