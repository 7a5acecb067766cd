----------------------------- MODULE Multicast ------------------------------
(***************************************************************************)
(* Multicast channels: service/multicastd.lua, one daemon on every node,   *)
(* lualib/skynet/multicast.lua in the services and lua-multicast.c, whose  *)
(* packages the subscribers of one node share and close one by one.        *)
(* The links between the nodes are those of the harbors: in order.         *)
(***************************************************************************)
EXTENDS Integers, Sequences, FiniteSets, Functions, SequencesExt

CONSTANTS Nodes,       \* the harbor ids, 1 .. n
          NodeOf,      \* service -> its node
          Base,        \* 256: a channel's id modulo Base is its owner
          Wrap,        \* 0x80000000: the ids are below it
          MaxOps,      \* bound: operations the services start
          MaxNew       \* bound: the first of them that may be multicast.new

Services == DOMAIN NodeOf
Channels == {c \in 1 .. Wrap - 1 : c % Base \in Nodes}
Owner(c) == c % Base

VARIABLES channel,     \* node -> channel -> [live, group, n]: channel and channel_n
          remote,      \* node -> channel -> nodes: channel_remote
          nextchan,    \* node -> channel_id
          asking,      \* node -> {<<service, channel>>}: SUBs that wait for a SUBR
          raced,       \* history: channels a node gave up while a SUB of it waited
          dbox, sbox,  \* the queues of the daemons and of the services
          link,        \* node -> messages of other nodes on their way
          pkgs,        \* the packages so far: [reference, bound, freed]
          svc,         \* service -> [busy, known, sub]: its chan objects
          ops

mcVars == <<channel, remote, nextchan, asking, raced, dbox, sbox, link, pkgs, svc, ops>>

Msg(k, from, c, x) == [k |-> k, from |-> from, c |-> c, x |-> x]
NoChannel == [live |-> FALSE, group |-> {}, n |-> 0]
NewChannel == [live |-> TRUE, group |-> {}, n |-> 0]

Init ==
    /\ channel = [n \in Nodes |-> [c \in Channels |-> NoChannel]]
    /\ remote = [n \in Nodes |-> [c \in Channels |-> {}]]
    /\ nextchan = [n \in Nodes |-> n]
    /\ asking = [n \in Nodes |-> {}] /\ raced = {}
    /\ dbox = [n \in Nodes |-> <<>>] /\ sbox = [s \in Services |-> <<>>]
    /\ link = [n \in Nodes |-> <<>>]
    /\ pkgs = <<>>
    /\ svc = [s \in Services |-> [busy |-> FALSE, known |-> {}, sub |-> {}]]
    /\ ops = 0

-----------------------------------------------------------------------------
(* A service: multicast.lua.                                               *)

\* one more operation of s, which sends m to the daemon of its node
Start(s, m, calls) ==
    /\ ops < MaxOps /\ ~svc[s].busy
    /\ ops' = ops + 1
    /\ dbox' = [dbox EXCEPT ![NodeOf[s]] = Append(@, m)]
    /\ UNCHANGED <<channel, remote, nextchan, asking, raced, sbox, link>>
    /\ \/ calls /\ svc' = [svc EXCEPT ![s].busy = TRUE]
       \/ ~calls

\* multicast.new: a new channel
new(s) == ops < MaxNew /\ Start(s, Msg("NEW", s, 0, 0), TRUE) /\ UNCHANGED pkgs

\* multicast.new with conf.channel, the id another service passed on
Open(s, c) ==
    /\ c \in UNION {svc[t].known : t \in Services} \ svc[s].known
    /\ svc' = [svc EXCEPT ![s].known = @ \cup {c}]
    /\ UNCHANGED <<channel, remote, nextchan, asking, raced, dbox, sbox, link, pkgs, ops>>

\* mc.pack: a package nobody refers to yet
mc_packlocal(ps) == Append(ps, [reference |-> 0, bound |-> FALSE, freed |-> 0])

publish(s, c) ==
    /\ c \in svc[s].known
    /\ pkgs' = mc_packlocal(pkgs)
    /\ Start(s, Msg("PUB", s, c, Len(pkgs) + 1), TRUE)

subscribe(s, c) ==
    /\ c \in svc[s].known \ svc[s].sub
    /\ Start(s, Msg("SUB", s, c, 0), TRUE)
    /\ UNCHANGED pkgs

unsubscribe(s, c) ==
    /\ c \in svc[s].known \cap svc[s].sub
    /\ Start(s, Msg("USUB", s, c, 0), FALSE)
    /\ svc' = [svc EXCEPT ![s].sub = @ \ {c}]
    /\ UNCHANGED pkgs

delete(s, c) ==
    /\ c \in svc[s].known
    /\ Start(s, Msg("DEL", s, c, 0), FALSE)
    /\ svc' = [svc EXCEPT ![s].known = @ \ {c}, ![s].sub = @ \ {c}]
    /\ UNCHANGED pkgs

\* the answer to its call
Answered(s) ==
    /\ sbox[s] # <<>> /\ Head(sbox[s]).k \in {"NEW", "SUB", "PUB"}
    /\ LET m == Head(sbox[s])
       IN  svc' = [svc EXCEPT ![s].busy = FALSE,
                              ![s].known = IF m.k = "NEW" THEN @ \cup {m.c} ELSE @,
                              ![s].sub = IF m.k = "SUB" THEN @ \cup {m.c} ELSE @]
    /\ sbox' = [sbox EXCEPT ![s] = Tail(@)]
    /\ UNCHANGED <<channel, remote, nextchan, asking, raced, dbox, link, pkgs, ops>>

\* mc_closelocal of package p, in the packages ps
mc_closelocal(ps, p) ==
    [ps EXCEPT ![p].reference = @ - 1, ![p].freed = IF ps[p].reference - 1 <= 0 THEN @ + 1 ELSE @]

\* dispatch_subscribe: whether the channel is still subscribed or not, the package is closed
dispatch_subscribe(s) ==
    /\ sbox[s] # <<>> /\ Head(sbox[s]).k = "LOCAL"
    /\ pkgs' = mc_closelocal(pkgs, Head(sbox[s]).x)
    /\ sbox' = [sbox EXCEPT ![s] = Tail(@)]
    /\ UNCHANGED <<channel, remote, nextchan, asking, raced, dbox, link, svc, ops>>

-----------------------------------------------------------------------------
(* The daemon of a node: multicastd.lua.                                   *)

IsNext(n, k) == dbox[n] # <<>> /\ Head(dbox[n]).k = k
Msg1(n) == Head(dbox[n])
Taken(n) == dbox' = [dbox EXCEPT ![n] = Tail(@)]
ret(s, m) == sbox' = [sbox EXCEPT ![s] = Append(@, m)]
Remotely(ns, m) == link' = [n \in Nodes |-> IF n \in ns THEN Append(link[n], m) ELSE link[n]]

mc_nextid(id) == (id + Base) % Wrap

\* command.NEW: the first id from channel_id on that is not in use
command_NEW(n) ==
    /\ IsNext(n, "NEW")
    /\ \E c \in Channels :
         LET walk == [i \in 0 .. Wrap \div Base |-> (nextchan[n] + i * Base) % Wrap]
             free == {i \in DOMAIN walk : ~channel[n][walk[i]].live}
         IN  /\ \E i \in free : c = walk[i] /\ \A j \in free : i <= j
             /\ channel' = [channel EXCEPT ![n][c] = NewChannel]
             /\ nextchan' = [nextchan EXCEPT ![n] = mc_nextid(c)]
             /\ ret(Msg1(n).from, Msg("NEW", n, c, 0))
    /\ Taken(n)
    /\ UNCHANGED <<remote, asking, raced, link, pkgs, svc, ops>>

\* command.DELR
DELR(n) ==
    /\ IsNext(n, "DELR")
    /\ channel' = [channel EXCEPT ![n][Msg1(n).c] = NoChannel]
    /\ Taken(n)
    /\ UNCHANGED <<remote, nextchan, asking, raced, sbox, link, pkgs, svc, ops>>

\* command.DEL: here, or passed on to the owner
DEL(n) ==
    LET c == Msg1(n).c
    IN  /\ IsNext(n, "DEL")
        /\ Taken(n)
        /\ \/ /\ Owner(c) # n
              /\ Remotely({Owner(c)}, Msg("DEL", n, c, 0))
              /\ UNCHANGED <<channel, remote>>
           \/ /\ Owner(c) = n
              /\ channel' = [channel EXCEPT ![n][c] = NoChannel]
              /\ remote' = [remote EXCEPT ![n][c] = {}]
              /\ Remotely(remote[n][c], Msg("DELR", n, c, 0))
        /\ UNCHANGED <<nextchan, asking, raced, sbox, pkgs, svc, ops>>

\* mc_bindrefer
mc_bindrefer(ps, p, ref) == [ps EXCEPT ![p].reference = ref, ![p].bound = TRUE]

\* publish: a copy to every remote node, the package itself to the group, each of whom
\* closes it; caller is the service that waits for PUB, if it does
Publish(n, c, ps, p, caller) ==
    LET g == channel[n][c]
        dead == g.group = {}
    IN  /\ Remotely(remote[n][c], Msg("REMOTE", n, c, 0))
        /\ pkgs' = IF dead THEN mc_closelocal(mc_bindrefer(ps, p, 1), p) ELSE mc_bindrefer(ps, p, g.n)
        /\ sbox' = [s \in Services |-> sbox[s]
                      \o (IF s \in g.group THEN <<Msg("LOCAL", n, c, p)>> ELSE <<>>)
                      \o (IF s \in caller THEN <<Msg("PUB", n, c, 0)>> ELSE <<>>)]

\* mc_remote: the package is given up, its data is sent
mc_remote(ps, p) == [ps EXCEPT ![p].bound = TRUE, ![p].freed = @ + 1]

\* command.PUB
PUB(n) ==
    LET m == Msg1(n)
    IN  /\ IsNext(n, "PUB")
        /\ Taken(n)
        /\ \/ /\ Owner(m.c) # n
              /\ pkgs' = mc_remote(pkgs, m.x)
              /\ Remotely({Owner(m.c)}, Msg("REMOTE", n, m.c, 0))
              /\ ret(m.from, Msg("PUB", n, m.c, 0))
           \/ /\ Owner(m.c) = n
              /\ Publish(n, m.c, pkgs, m.x, {m.from})
        /\ UNCHANGED <<channel, remote, nextchan, asking, raced, svc, ops>>

\* a package with a copy of what came from another node
mc_packremote(ps) == Append(ps, [reference |-> 0, bound |-> FALSE, freed |-> 0])

\* the protocol "multicast" of the daemon
Forwarded(n) ==
    /\ IsNext(n, "REMOTE")
    /\ Taken(n)
    /\ Publish(n, Msg1(n).c, mc_packremote(pkgs), Len(pkgs) + 1, {})
    /\ UNCHANGED <<channel, remote, nextchan, asking, raced, svc, ops>>

\* command.SUBR
SUBR(n) ==
    LET m == Msg1(n)
    IN  /\ IsNext(n, "SUBR")
        /\ Taken(n)
        /\ remote' = IF channel[n][m.c].live THEN [remote EXCEPT ![n][m.c] = @ \cup {m.from}] ELSE remote
        /\ Remotely({m.from}, Msg(IF channel[n][m.c].live THEN "SUBRok" ELSE "SUBRdead", n, m.c, m.x))
        /\ UNCHANGED <<channel, nextchan, asking, raced, sbox, pkgs, svc, ops>>

\* the group with s, counted once
Joined(g, s) == IF g.live /\ s \notin g.group THEN [g EXCEPT !.group = @ \cup {s}, !.n = @ + 1] ELSE g

\* command.SUB, up to the call of SUBR when the channel is another node's and not known here
SUB(n) ==
    LET m == Msg1(n)
    IN  /\ IsNext(n, "SUB")
        /\ Taken(n)
        /\ \/ /\ Owner(m.c) # n /\ ~channel[n][m.c].live
              /\ asking' = [asking EXCEPT ![n] = @ \cup {<<m.from, m.c>>}]
              /\ Remotely({Owner(m.c)}, Msg("SUBR", n, m.c, m.from))
              /\ UNCHANGED <<channel, sbox>>
           \/ /\ Owner(m.c) = n \/ channel[n][m.c].live
              /\ channel' = [channel EXCEPT ![n][m.c] = Joined(@, m.from)]
              /\ ret(m.from, Msg("SUB", n, m.c, 0))
              /\ UNCHANGED <<asking, link>>
        /\ UNCHANGED <<remote, nextchan, raced, pkgs, svc, ops>>

\* the rest of command.SUB: the double check, and the group
Subscribed(n) ==
    LET m == Msg1(n)
        g == channel[n][m.c]
    IN  /\ dbox[n] # <<>> /\ m.k \in {"SUBRok", "SUBRdead"}
        /\ Taken(n)
        /\ asking' = [asking EXCEPT ![n] = @ \ {<<m.x, m.c>>}]
        /\ channel' = IF m.k = "SUBRdead" THEN channel
                      ELSE [channel EXCEPT ![n][m.c] = Joined(IF g.live THEN g ELSE NewChannel, m.x)]
        /\ ret(m.x, Msg("SUB", n, m.c, 0))
        /\ UNCHANGED <<remote, nextchan, raced, link, pkgs, svc, ops>>

\* command.USUBR; the assert stops it when the channel has no remote group
USUBR(n) ==
    /\ IsNext(n, "USUBR")
    /\ Taken(n)
    /\ remote' = [remote EXCEPT ![n][Msg1(n).c] = @ \ {Msg1(n).from}]
    /\ UNCHANGED <<channel, nextchan, asking, raced, sbox, link, pkgs, svc, ops>>

\* nobody of the node is left
IsLast_One(g) == g.n <= 1
IsLast(g) == g.n = 0

\* mutant: the count stays
Left_KeepCount(n, c, s) ==
    LET g == [channel[n][c] EXCEPT !.group = @ \ {s}]
    IN  IF g.group = {} /\ Owner(c) # n THEN NoChannel ELSE g

\* the group without s, and without itself when it was another node's and is empty now
Left(n, c, s) ==
    LET g == [channel[n][c] EXCEPT !.group = @ \ {s}, !.n = @ - 1]
    IN  IF IsLast(g) /\ Owner(c) # n THEN NoChannel ELSE g

\* command.USUB; the assert stops it when there is no such channel
USUB(n) ==
    LET m == Msg1(n)
        gone == channel[n][m.c].live /\ m.from \in channel[n][m.c].group
    IN  /\ IsNext(n, "USUB")
        /\ Taken(n)
        /\ \/ ~gone /\ UNCHANGED <<channel, raced, link>>
           \/ /\ gone
              /\ channel' = [channel EXCEPT ![n][m.c] = Left(n, m.c, m.from)]
              /\ LET last == ~channel'[n][m.c].live
                 IN  /\ Remotely(IF last THEN {Owner(m.c)} ELSE {}, Msg("USUBR", n, m.c, 0))
                     /\ raced' = IF last /\ \E a \in asking[n] : a[2] = m.c THEN raced \cup {<<n, m.c>>} ELSE raced
        /\ UNCHANGED <<remote, nextchan, asking, sbox, pkgs, svc, ops>>

\* a message of another node arrives
Arrive(n) ==
    /\ link[n] # <<>>
    /\ dbox' = [dbox EXCEPT ![n] = Append(@, Head(link[n]))]
    /\ link' = [link EXCEPT ![n] = Tail(@)]
    /\ UNCHANGED <<channel, remote, nextchan, asking, raced, sbox, pkgs, svc, ops>>

Daemon(n) ==
    \/ command_NEW(n) \/ DELR(n) \/ DEL(n) \/ PUB(n) \/ Forwarded(n) \/ SUBR(n) \/ SUB(n)
    \/ Subscribed(n) \/ USUBR(n) \/ USUB(n) \/ Arrive(n)

Service(s) ==
    \/ new(s) \/ Answered(s) \/ dispatch_subscribe(s)
    \/ \E c \in Channels : Open(s, c) \/ publish(s, c) \/ subscribe(s, c) \/ unsubscribe(s, c) \/ delete(s, c)

Next == (\E n \in Nodes : Daemon(n)) \/ (\E s \in Services : Service(s))

Spec == Init /\ [][Next]_mcVars

-----------------------------------------------------------------------------
(* Properties.                                                             *)

\* how many services have package p in their queue
Pending(p) == Cardinality(UNION {{<<s, i>> : i \in {j \in DOMAIN sbox[s] : sbox[s][j].k = "LOCAL" /\ sbox[s][j].x = p}} : s \in Services})

\* However subscriptions, publications and deletions of channels interleave on the two
\* nodes, a package counts exactly the queues it is still in, so that the last subscriber
\* to close it frees it, once, and nobody is left with a pointer to a freed one.
PackagesCounted ==
    \A p \in DOMAIN pkgs :
        /\ Pending(p) = pkgs[p].reference
        /\ pkgs[p].freed = IF pkgs[p].bound /\ pkgs[p].reference = 0 THEN 1 ELSE 0

Quiet == /\ \A n \in Nodes : dbox[n] = <<>> /\ link[n] = <<>>
         /\ \A s \in Services : sbox[s] = <<>>

\* When nothing is under way, a service that has subscribed to a living channel is in the
\* group of its node, and the owner of the channel forwards to that node - unless the node
\* gave the channel up (USUB of its last subscriber) while this SUB waited for the owner's
\* answer: such a subscriber is never served.
SubscribersServed ==
    Quiet => \A s \in Services : \A c \in svc[s].sub :
        LET n == NodeOf[s] IN
        channel[Owner(c)][c].live /\ <<n, c>> \notin raced
            => s \in channel[n][c].group /\ (n # Owner(c) => n \in remote[Owner(c)][c])
=============================================================================
