------------------------------ MODULE Cluster -------------------------------
(***************************************************************************)
(* lualib-src/lua-cluster.c with service/clustersender.lua, the session     *)
(* mode of lualib/skynet/socketchannel.lua and service/clusteragent.lua:    *)
(* requests and pushes from one node to the services of another.           *)
(*                                                                         *)
(* A package is its type, its numbers (a DWORD is one number) and the      *)
(* units of the message.  Small packages are written with high priority,   *)
(* the packages of large messages with low priority: the socket server     *)
(* sends a low one when no high one is left.  A break loses what is under  *)
(* way, answers every waiting caller with an error, and the next request   *)
(* connects again, to a new agent.                                         *)
(***************************************************************************)
EXTENDS Integers, Sequences, SequencesExt, FiniteSets, Functions

CONSTANTS MultiPart,    \* MULTI_PART
          MaxSession,   \* INT32_MAX
          Calls,        \* [addr, size, push] that may be sent
          ReplySizes,   \* sizes of the answers
          MaxCalls,     \* bound: calls of a behaviour
          MaxBreaks,    \* bound: broken connections
          MaxChanges    \* bound: changes of the registered names

VARIABLES sent,         \* the calls, in order
          session,      \* of clustersender
          thread,       \* __thread: session -> call
          data,         \* __result_data: session -> what came of a large answer
          result,       \* call -> what the caller got
          hi, lo,       \* packages on their way to the agent, by priority
          rhi, rlo,     \* packages on their way back
          conn,         \* the connection
          agents,       \* connection -> the agent
          delivered,    \* what the services got
          replies,      \* call -> what the service answered
          changes

clusterVars == <<sent, session, thread, data, result, hi, lo, rhi, rlo, conn, agents, delivered, replies, changes>>

Empty == [k \in {} |-> k]
Err == [ok |-> FALSE, s |-> <<>>]
NewAgent == [large |-> Empty, name |-> "unknown", table |-> 1, asked |-> 0, waiters |-> <<>>, pending |-> {}, live |-> TRUE]
IsName(addr) == Len(addr) > 1
Part(s, n) == SubSeq(s, n * MultiPart + 1, IF (n + 1) * MultiPart < Len(s) THEN (n + 1) * MultiPart ELSE Len(s))
Parts(s) == ((Len(s) - 1) \div MultiPart) + 1

-----------------------------------------------------------------------------
(* Requests.  A numeric address is <<n>>, a name starts with '@'.           *)

packreq_number(addr, n, msg, push) ==
    IF Len(msg) < MultiPart THEN <<0, addr[1], IF push THEN 0 ELSE n>> \o msg
    ELSE <<IF push THEN 65 ELSE 1, addr[1], n, Len(msg)>>

packreq_string(addr, n, msg, push) ==
    IF Len(msg) < MultiPart THEN <<128, Len(addr)>> \o addr \o <<IF push THEN 0 ELSE n>> \o msg
    ELSE <<IF push THEN 193 ELSE 129, Len(addr)>> \o addr \o <<n, Len(msg)>>

packreq_multi_Last(n, msg) ==
    [k \in 1 .. Parts(msg) |-> <<IF k < Len(msg) \div MultiPart THEN 2 ELSE 3, n>> \o Part(msg, k - 1)]

packreq_multi(n, msg) == [k \in 1 .. Parts(msg) |-> <<IF k < Parts(msg) THEN 2 ELSE 3, n>> \o Part(msg, k - 1)]

packrequest(addr, n, msg, push) ==
    [first |-> IF IsName(addr) THEN packreq_string(addr, n, msg, push) ELSE packreq_number(addr, n, msg, push),
     next |-> IF n + 1 > MaxSession THEN 1 ELSE n + 1,
     padding |-> IF Len(msg) < MultiPart THEN <<>> ELSE packreq_multi(n, msg)]

\* session of a push is 0, or a session of its own when it is large
unpackreq_number(p) == [addr |-> <<p[2]>>, session |-> p[3], msg |-> SubSeq(p, 4, Len(p)), padding |-> FALSE, push |-> p[3] = 0]
unpackmreq_number(p, push) == [addr |-> <<p[2]>>, session |-> p[3], size |-> p[4], padding |-> TRUE, push |-> push]
unpackmreq_part(p) == [addr |-> <<>>, session |-> p[2], msg |-> SubSeq(p, 3, Len(p)), padding |-> p[1] = 2, push |-> FALSE]
unpackreq_string(p) ==
    LET n == p[2] IN [addr |-> SubSeq(p, 3, n + 2), session |-> p[n + 3], msg |-> SubSeq(p, n + 4, Len(p)), padding |-> FALSE,
                      push |-> p[n + 3] = 0]
unpackmreq_string(p, push) ==
    LET n == p[2] IN [addr |-> SubSeq(p, 3, n + 2), session |-> p[n + 3], size |-> p[n + 4], padding |-> TRUE, push |-> push]

lunpackrequest(p) ==
    CASE p[1] = 0 -> unpackreq_number(p)
      [] p[1] \in {1, 65} -> unpackmreq_number(p, p[1] = 65)
      [] p[1] \in {2, 3} -> unpackmreq_part(p)
      [] p[1] = 128 -> unpackreq_string(p)
      [] p[1] \in {129, 193} -> unpackmreq_string(p, p[1] = 193)

\* a large request is its size and its parts
lappend(parts, r) == Append(parts, IF "size" \in DOMAIN r THEN <<r.size>> ELSE r.msg)
lconcat(parts) == LET s == FlattenSeq(Tail(parts)) IN IF Len(s) = parts[1][1] THEN s ELSE <<>>

-----------------------------------------------------------------------------
(* Responses.                                                              *)

lpackresponse(n, ok, msg) ==
    IF ok /\ Len(msg) > MultiPart
    THEN <<<<n, 2, Len(msg)>>>> \o [k \in 1 .. Parts(msg) |-> <<n, IF k < Parts(msg) THEN 3 ELSE 4>> \o Part(msg, k - 1)]
    ELSE <<<<n, IF ok THEN 1 ELSE 0>> \o (IF ok THEN msg ELSE Part(msg, 0))>>

lunpackresponse(p) ==
    [session |-> p[1], ok |-> p[2] # 0, msg |-> SubSeq(p, 3, Len(p)), padding |-> p[2] \in {2, 3}]

-----------------------------------------------------------------------------

Init ==
    /\ sent = <<>> /\ session = 1 /\ thread = Empty /\ data = Empty /\ result = Empty
    /\ hi = <<>> /\ lo = <<>> /\ rhi = <<>> /\ rlo = <<>>
    /\ conn = 1 /\ agents = <<NewAgent>> /\ delivered = <<>> /\ replies = Empty /\ changes = 0

Msg(id, size) == [k \in 1 .. size |-> 10 * id + k]
Reply(id, size) == [k \in 1 .. size |-> 100 * id + k]

\* nothing is left of the call that had session n, INT32_MAX calls before
Unused(n) ==
    /\ n \notin DOMAIN thread \cup DOMAIN agents[conn].large
    /\ \A p \in Range(lo) : lunpackrequest(p).session # n

\* command.req and command.push
Send(c) ==
    LET id == Len(sent) + 1
        p == packrequest(c.addr, session, Msg(id, c.size), c.push)
        large == p.padding # <<>>
    IN  /\ Len(sent) < MaxCalls /\ Unused(session)
        /\ sent' = Append(sent, [addr |-> c.addr, size |-> c.size, push |-> c.push, conn |-> conn])
        /\ session' = IF c.push /\ ~large THEN session ELSE p.next
        /\ thread' = IF c.push THEN thread ELSE (session :> id) @@ thread
        /\ hi' = IF large THEN hi ELSE Append(hi, p.first)
        /\ lo' = IF large THEN (lo \o <<p.first>>) \o p.padding ELSE lo
        /\ UNCHANGED <<data, result, rhi, rlo, conn, agents, delivered, replies, changes>>

\* where a request goes once its address is known
Deliver(a, reqs) ==
    [a EXCEPT !.pending = @ \cup {[session |-> reqs[k].session, id |-> (reqs[k].msg[1]) \div 10] : k \in {j \in DOMAIN reqs : ~reqs[j].push}}]

Got(c, reqs) == [k \in DOMAIN reqs |-> [addr |-> reqs[k].addr, msg |-> reqs[k].msg, conn |-> c]]

SendBack(ps) == IF Len(ps) > 1 THEN rlo' = rlo \o ps /\ UNCHANGED rhi ELSE rhi' = rhi \o ps /\ UNCHANGED rlo

\* register_name[name] of the current table: known, to be asked for, or being asked for
Resolve(c, a, req) ==
    CASE ~IsName(req.addr) \/ a.name = "known" ->
           /\ agents' = [agents EXCEPT ![c] = Deliver(a, <<req>>)]
           /\ delivered' = delivered \o Got(c, <<req>>)
           /\ UNCHANGED <<rhi, rlo>>
      [] IsName(req.addr) /\ a.name # "known" /\ a.asked = 0 ->
           /\ agents' = [agents EXCEPT ![c] = [a EXCEPT !.asked = a.table, !.waiters = <<[req |-> req, table |-> a.table]>>]]
           /\ UNCHANGED <<delivered, rhi, rlo>>
      [] OTHER ->
           /\ agents' = [agents EXCEPT ![c] = [a EXCEPT !.waiters = Append(@, [req |-> req, table |-> a.table])]]
           /\ UNCHANGED <<delivered, rhi, rlo>>

\* dispatch_request with package p
Dispatch(p) ==
    LET r == lunpackrequest(p)
        a == agents[conn]
        known == r.session \in DOMAIN a.large
        req == IF known THEN a.large[r.session] ELSE [addr |-> r.addr, push |-> r.push, parts |-> <<>>]
        rest == [a EXCEPT !.large = Restrict(@, DOMAIN @ \ {r.session})]
        msg == IF known THEN lconcat(lappend(req.parts, r)) ELSE r.msg
        full == [addr |-> IF known THEN req.addr ELSE r.addr, session |-> r.session, msg |-> msg,
                 push |-> IF known THEN req.push ELSE r.push]
    IN  IF r.padding
        THEN /\ agents' = [agents EXCEPT ![conn].large = (r.session :> [req EXCEPT !.parts = lappend(@, r)]) @@ @]
             /\ UNCHANGED <<delivered, rhi, rlo>>
        ELSE IF msg = <<>>
        THEN agents' = [agents EXCEPT ![conn] = rest] /\ SendBack(lpackresponse(r.session, FALSE, <<0>>)) /\ UNCHANGED delivered
        ELSE Resolve(conn, rest, full)

Arrive ==
    /\ \/ hi # <<>> /\ Dispatch(Head(hi)) /\ hi' = Tail(hi) /\ UNCHANGED lo
       \/ hi = <<>> /\ lo # <<>> /\ Dispatch(Head(lo)) /\ lo' = Tail(lo) /\ UNCHANGED hi
    /\ UNCHANGED <<sent, session, thread, data, result, conn, replies, changes>>

\* who waited for the name in a table that namechange has replaced gets an error
Missed_None(a) == <<>>
Missed(a) == SelectSeq(a.waiters, LAMBDA w : w.table # a.asked /\ ~w.req.push)

\* the answer of clusterd: it goes into the table that asked; those who waited look
\* into the table they came from
NameFound(c) ==
    LET a == agents[c]
        ok == SelectSeq(a.waiters, LAMBDA w : w.table = a.asked)
        not == Missed(a)
        reqs == [k \in DOMAIN ok |-> ok[k].req]
    IN  /\ a.live /\ a.asked # 0
        /\ agents' = [agents EXCEPT ![c] = Deliver([a EXCEPT !.asked = 0, !.waiters = <<>>,
                                                             !.name = IF a.asked = a.table THEN "known" ELSE @], reqs)]
        /\ delivered' = delivered \o Got(c, reqs)
        /\ IF c = conn THEN rhi' = rhi \o [k \in DOMAIN not |-> <<not[k].req.session, 0>>] ELSE UNCHANGED rhi
        /\ replies' = [i \in {(not[k].req.msg[1]) \div 10 : k \in DOMAIN not} |-> Err] @@ replies
        /\ UNCHANGED <<sent, session, thread, data, result, hi, lo, rlo, conn, changes>>

\* command "namechange"
NameChange ==
    /\ changes < MaxChanges /\ changes' = changes + 1
    /\ agents' = [agents EXCEPT ![conn].name = "unknown", ![conn].table = @ + 1]
    /\ UNCHANGED <<sent, session, thread, data, result, hi, lo, rhi, rlo, conn, delivered, replies>>

\* a service answers, or fails
Answer(c, q, r) ==
    /\ agents[c].live /\ q \in agents[c].pending
    /\ agents' = [agents EXCEPT ![c].pending = @ \ {q}]
    /\ replies' = (q.id :> r) @@ replies
    /\ IF c = conn THEN SendBack(lpackresponse(q.session, r.ok, r.s)) ELSE UNCHANGED <<rhi, rlo>>
    /\ UNCHANGED <<sent, session, thread, data, result, hi, lo, conn, delivered, changes>>

AgentExit(c) ==
    /\ c < conn /\ agents[c].live
    /\ agents' = [agents EXCEPT ![c].live = FALSE]
    /\ UNCHANGED <<sent, session, thread, data, result, hi, lo, rhi, rlo, conn, delivered, replies, changes>>

Respond_KeepData(p) ==
    LET r == lunpackresponse(p)
        n == r.session
        old == IF n \in DOMAIN data THEN data[n] ELSE <<>>
        all == Append(old, r.msg)
        value == IF r.ok /\ n \in DOMAIN data THEN lconcat(all) ELSE r.msg
    IN  IF n \notin DOMAIN thread THEN UNCHANGED <<thread, data, result>>
        ELSE IF r.padding /\ r.ok THEN data' = (n :> all) @@ data /\ UNCHANGED <<thread, result>>
        ELSE /\ result' = (thread[n] :> [ok |-> r.ok, s |-> value]) @@ result
             /\ thread' = Restrict(thread, DOMAIN thread \ {n})
             /\ UNCHANGED data

\* dispatch_by_session with response p; a large answer is put together with lconcat
Respond(p) ==
    LET r == lunpackresponse(p)
        n == r.session
        old == IF n \in DOMAIN data THEN data[n] ELSE <<>>
        all == Append(old, r.msg)
        value == IF r.ok /\ n \in DOMAIN data THEN lconcat(all) ELSE r.msg
    IN  IF n \notin DOMAIN thread THEN UNCHANGED <<thread, data, result>>
        ELSE IF r.padding /\ r.ok THEN data' = (n :> all) @@ data /\ UNCHANGED <<thread, result>>
        ELSE /\ result' = (thread[n] :> [ok |-> r.ok, s |-> value]) @@ result
             /\ thread' = Restrict(thread, DOMAIN thread \ {n})
             /\ data' = Restrict(data, DOMAIN data \ {n})

Receive ==
    /\ \/ rhi # <<>> /\ Respond(Head(rhi)) /\ rhi' = Tail(rhi) /\ UNCHANGED rlo
       \/ rhi = <<>> /\ rlo # <<>> /\ Respond(Head(rlo)) /\ rlo' = Tail(rlo) /\ UNCHANGED rhi
    /\ UNCHANGED <<sent, session, hi, lo, conn, agents, delivered, replies, changes>>

wakeup_all_None == Empty
wakeup_all == [i \in Range(thread) |-> [ok |-> FALSE, s |-> <<-1>>]]

\* close_channel_socket
Break ==
    /\ conn <= MaxBreaks
    /\ hi' = <<>> /\ lo' = <<>> /\ rhi' = <<>> /\ rlo' = <<>>
    /\ result' = wakeup_all @@ result
    /\ thread' = Empty /\ data' = Empty
    /\ conn' = conn + 1 /\ agents' = Append(agents, NewAgent)
    /\ UNCHANGED <<sent, session, delivered, replies, changes>>

Next ==
    \/ \E c \in Calls : Send(c)
    \/ Arrive \/ Receive \/ NameChange \/ Break
    \/ \E c \in 1 .. conn : NameFound(c) \/ AgentExit(c)
         \/ \E q \in agents[c].pending, n \in ReplySizes \cup {-1} :
              Answer(c, q, IF n = -1 THEN Err ELSE [ok |-> TRUE, s |-> Reply(q.id, n)])

Spec == Init /\ [][Next]_clusterVars

-----------------------------------------------------------------------------
(* Properties.                                                             *)

\* A service gets what was sent to it, whole and at most once, although the parts of
\* large messages and small messages are mixed on the way; the small requests of one
\* connection to one address keep their order, also while their name is asked for.
ClusterDelivers ==
    LET id(d) == (d.msg[1]) \div 10
    IN  /\ \A k \in DOMAIN delivered :
             LET d == delivered[k] IN d.msg = Msg(id(d), sent[id(d)].size) /\ d.addr = sent[id(d)].addr
        /\ \A j, k \in DOMAIN delivered :
             j < k =>
               /\ id(delivered[j]) # id(delivered[k])
               /\ (/\ delivered[j].addr = delivered[k].addr /\ delivered[j].conn = delivered[k].conn
                   /\ Len(delivered[j].msg) < MultiPart /\ Len(delivered[k].msg) < MultiPart)
                  => id(delivered[j]) < id(delivered[k])

\* A caller gets the whole answer to its own request, or the error of a broken
\* connection; it is answered once.  A session that is used again is not confused.
ClusterAnswers ==
    /\ \A i \in DOMAIN result : result[i].s # <<-1>> => i \in DOMAIN replies /\ result[i] = replies[i]
    /\ \A n \in DOMAIN thread : thread[n] \notin DOMAIN result

\* What session n waits for: the last package of its request, its turn at the agent or
\* at the service, or the last package of its answer.
OnItsWay(n) ==
    LET a == agents[conn]
    IN  \/ \E p \in Range(hi) \cup Range(lo) :
              LET r == lunpackrequest(p) IN r.session = n /\ ~r.padding
        \/ a.live /\ a.asked # 0 /\ \E w \in Range(a.waiters) : w.req.session = n
        \/ a.live /\ \E q \in a.pending : q.session = n
        \/ \E p \in Range(rhi) \cup Range(rlo) :
              LET r == lunpackresponse(p) IN r.session = n /\ ~(r.padding /\ r.ok)

\* Each call waits under one session or has its one result, and nobody waits when
\* nothing is on its way for it: neither a break, nor a change of names while a request
\* waits for its name, nor a session that is used again loses a call or its waiter.
CallsAccounted ==
    /\ {i \in DOMAIN sent : ~sent[i].push} = Range(thread) \cup DOMAIN result
    /\ IsInjective(thread)
    /\ \A n \in DOMAIN thread : OnItsWay(n)
=============================================================================
