----------------------------- MODULE Sharedata ------------------------------
(***************************************************************************)
(* Shared data under one name: service/sharedatad.lua hands out pointers   *)
(* to objects of lua-sharedata.c, lualib/skynet/sharedata.lua keeps a      *)
(* proxy of them in a client (sharedata/corelib.lua) and a coroutine that  *)
(* waits for the next version.  An object counts its references; the       *)
(* service deletes what is not in the pool and not referred to.            *)
(*                                                                         *)
(* A query q is one call of sharedata.query or sharedata.deepcopy by the   *)
(* client ClientOf[q]; the proxy it makes has its name.                    *)
(***************************************************************************)
EXTENDS Integers, Sequences, FiniteSets, SequencesExt, FiniteSetsExt

CONSTANTS ClientOf,    \* query -> its client
          MaxObj       \* bound: objects that are made

Queries == DOMAIN ClientOf
Clients == {ClientOf[q] : q \in Queries}

VARIABLES objs,        \* the objects so far: [ref, dirty, inmap]: struct state and objmap
          pool,        \* pool[name].obj, 0 is nil
          watch,       \* the queries whose monitor waits in pool[name].watch
          inbox,       \* client -> its requests to the service
          cache,       \* client -> the query whose proxy is in cache[name], 0 is nil
          call,        \* query -> [st, val]: the coroutine that called query
          proxy,       \* query -> [obj, root, update]: __obj and the box __gcobj
          mon,         \* query -> [st, val]: its monitor coroutine
          garbage      \* object -> boxes of it that wait for the garbage collector

sdVars == <<objs, pool, watch, inbox, cache, call, proxy, mon, garbage>>

Objs == 1 .. MaxObj
NoProxy == [obj |-> 0, root |-> 0, update |-> 0]

Init ==
    /\ objs = <<>> /\ pool = 0 /\ watch = {}
    /\ inbox = [c \in Clients |-> <<>>]
    /\ cache = [c \in Clients |-> 0]
    /\ call = [q \in Queries |-> [st |-> "idle", val |-> 0]]
    /\ proxy = [q \in Queries |-> NoProxy]
    /\ mon = [q \in Queries |-> [st |-> "none", val |-> 0]]
    /\ garbage = [o \in Objs |-> 0]

lincref(os, o) == [os EXCEPT ![o].ref = @ + 1]
ldecref(os, o) == [os EXCEPT ![o].ref = @ - 1]
lmarkdirty(os, o) == [os EXCEPT ![o].dirty = TRUE]

Request(c, ms) == inbox' = [inbox EXCEPT ![c] = @ \o ms]
Message(k, q, o) == [k |-> k, q |-> q, o |-> o]

-----------------------------------------------------------------------------
(* The service.                                                            *)

\* response(true, v) to all watchers
Answered_None(v) == mon
Answered(v) == [q \in Queries |-> IF q \in watch THEN [st |-> "reply", val |-> v] ELSE mon[q]]

\* newobj, when lnewconf succeeds
newobj(os) == Append(os, [ref |-> 1, dirty |-> FALSE, inmap |-> TRUE])

CMD_new ==
    /\ pool = 0 /\ Len(objs) < MaxObj
    /\ objs' = newobj(objs) /\ pool' = Len(objs) + 1
    /\ UNCHANGED <<watch, inbox, cache, call, proxy, mon, garbage>>

CMD_delete ==
    /\ pool # 0
    /\ objs' = ldecref(objs, pool) /\ pool' = 0
    /\ watch' = {}
    /\ mon' = Answered(0)
    /\ UNCHANGED <<inbox, cache, call, proxy, garbage>>

\* the old object is given up first, then CMD.new, then the watchers get the new one
CMD_update ==
    /\ pool # 0 /\ Len(objs) < MaxObj
    /\ LET new == Len(objs) + 1
           os == lmarkdirty(newobj(ldecref(objs, pool)), pool)
       IN  /\ objs' = [os EXCEPT ![new].ref = @ + Cardinality(watch)]
           /\ pool' = new
           /\ mon' = Answered(new)
    /\ watch' = {}
    /\ UNCHANGED <<inbox, cache, call, proxy, garbage>>

\* CMD.new raises an error in the middle: the name is gone, and its watchers with it,
\* which wait for ever
UpdateFails ==
    /\ pool # 0
    /\ objs' = ldecref(objs, pool) /\ pool' = 0 /\ watch' = {}
    /\ mon' = [q \in Queries |-> IF q \in watch THEN [mon[q] EXCEPT !.st = "lost"] ELSE mon[q]]
    /\ UNCHANGED <<inbox, cache, call, proxy, garbage>>

IsNext(c, k) == inbox[c] # <<>> /\ Head(inbox[c]).k = k
Taken(c) == inbox' = [inbox EXCEPT ![c] = Tail(@)]

\* a call that raises an error in the service raises one in the caller
CMD_query(c) ==
    LET q == Head(inbox[c]).q
    IN  /\ IsNext(c, "query") /\ Taken(c)
        /\ objs' = IF pool = 0 THEN objs ELSE lincref(objs, pool)
        /\ call' = [call EXCEPT ![q] = [st |-> IF pool = 0 THEN "over" ELSE "got", val |-> pool]]
        /\ UNCHANGED <<pool, watch, cache, proxy, mon, garbage>>

CMD_confirm(c) ==
    LET o == Head(inbox[c]).o
    IN  /\ IsNext(c, "confirm") /\ Taken(c)
        /\ objs' = IF objs[o].inmap THEN ldecref(objs, o) ELSE objs
        /\ UNCHANGED <<pool, watch, cache, call, proxy, mon, garbage>>

\* what a client has that asks for the next version after o
UpToDate_Always(o) == TRUE
UpToDate(o) == o = pool

CMD_monitor(c) ==
    LET m == Head(inbox[c])
    IN  /\ IsNext(c, "monitor") /\ Taken(c)
        /\ \/ /\ pool = 0
              /\ mon' = [mon EXCEPT ![m.q].st = "failed"] /\ UNCHANGED <<objs, watch>>
           \/ /\ pool # 0 /\ ~UpToDate(m.o)
              /\ objs' = lincref(objs, pool)
              /\ mon' = [mon EXCEPT ![m.q] = [st |-> "reply", val |-> pool]] /\ UNCHANGED watch
           \/ /\ pool # 0 /\ UpToDate(m.o)
              /\ watch' = watch \cup {m.q} /\ UNCHANGED <<objs, mon>>
        /\ UNCHANGED <<pool, cache, call, proxy, garbage>>

\* collectobj: whatever is not in the pool and has no reference
lgetref(o) == objs[o].ref
Collectable(o) == objs[o].inmap /\ o # pool /\ lgetref(o) <= 0
collectobj ==
    /\ \E o \in DOMAIN objs : Collectable(o)
    /\ objs' = [o \in DOMAIN objs |-> IF Collectable(o) THEN [objs[o] EXCEPT !.inmap = FALSE] ELSE objs[o]]
    /\ UNCHANGED <<pool, watch, inbox, cache, call, proxy, mon, garbage>>

-----------------------------------------------------------------------------
(* A client.                                                               *)

query(q) ==
    /\ call[q].st = "idle"
    /\ \/ /\ cache[ClientOf[q]] # 0
          /\ call' = [call EXCEPT ![q].st = "over"] /\ UNCHANGED inbox
       \/ /\ cache[ClientOf[q]] = 0
          /\ call' = [call EXCEPT ![q].st = "asked"]
          /\ Request(ClientOf[q], <<Message("query", q, 0)>>)
    /\ UNCHANGED <<objs, pool, watch, cache, proxy, mon, garbage>>

\* sd.box
lboxconf(os, o) == lincref(os, o)

\* the answer of query: somebody else made the proxy, or here it is
Answer_Confirmed(q, o) == <<Message("confirm", q, o), Message("confirm", q, o)>>
Answer(q, o) == <<Message("confirm", q, o)>>
Boxed(q) ==
    LET c == ClientOf[q]
        o == call[q].val
        cached == IF cache[c] = 0 THEN 0 ELSE proxy[cache[c]].obj
    IN  /\ call[q].st = "got"
        /\ call' = [call EXCEPT ![q].st = "over"]
        /\ \/ /\ cached = o
              /\ Request(c, <<Message("confirm", q, o)>>)
              /\ UNCHANGED <<objs, cache, proxy, mon>>
           \/ /\ cached # o
              /\ objs' = lboxconf(objs, o)
              /\ proxy' = [proxy EXCEPT ![q] = [obj |-> o, root |-> o, update |-> 0]]
              /\ cache' = [cache EXCEPT ![c] = q]
              /\ mon' = [mon EXCEPT ![q] = [st |-> "wait", val |-> o]]
              /\ Request(c, Answer(q, o) \o <<Message("monitor", q, o)>>)
        /\ UNCHANGED <<pool, watch, garbage>>

\* sharedata.deepcopy: only a copy is made
deepcopy(q) ==
    /\ call[q].st = "got"
    /\ call' = [call EXCEPT ![q].st = "over"]
    /\ Request(ClientOf[q], <<Message("confirm", q, call[q].val)>>)
    /\ UNCHANGED <<objs, pool, watch, cache, proxy, mon, garbage>>

\* the monitor coroutine gets an answer
lisdirty(o) == objs[o].dirty
lupdate(q) ==
    LET c == ClientOf[q]
        n == mon[q].val
        p == proxy[q]
    IN  /\ mon[q].st = "reply" /\ n # 0 /\ lisdirty(p.obj) /\ p.root # n
        /\ proxy' = [proxy EXCEPT ![q].update = n]
        /\ garbage' = IF p.update # 0 THEN [garbage EXCEPT ![p.update] = @ + 1] ELSE garbage
        /\ objs' = lboxconf(objs, n)
        /\ mon' = [mon EXCEPT ![q].st = "wait"]
        /\ Request(c, <<Message("confirm", q, n), Message("monitor", q, n)>>)
        /\ UNCHANGED <<pool, watch, cache, call>>

\* "Only dirty object can be update": the coroutine dies, nothing is confirmed
UpdateRefused(q) ==
    /\ mon[q].st = "reply" /\ mon[q].val # 0 /\ (~lisdirty(proxy[q].obj) \/ proxy[q].root = mon[q].val)
    /\ mon' = [mon EXCEPT ![q].st = "refused"]
    /\ UNCHANGED <<objs, pool, watch, inbox, cache, call, proxy, garbage>>

MonitorEnds(q) ==
    /\ mon[q].st = "reply" /\ mon[q].val = 0
    /\ mon' = [mon EXCEPT ![q].st = "ended"]
    /\ cache' = [cache EXCEPT ![ClientOf[q]] = IF @ = q THEN 0 ELSE @]
    /\ UNCHANGED <<objs, pool, watch, inbox, call, proxy, garbage>>

\* what the next access finds: getcobj, needupdate and update of corelib
lneedupdate(q) == IF lisdirty(proxy[q].obj) /\ proxy[q].update # 0 THEN proxy[q].update ELSE proxy[q].obj

getcobj(q) ==
    /\ proxy[q].obj # 0 /\ lneedupdate(q) # proxy[q].obj
    /\ garbage' = [garbage EXCEPT ![proxy[q].root] = @ + 1]
    /\ LET n == lneedupdate(q) IN proxy' = [proxy EXCEPT ![q] = [obj |-> n, root |-> n, update |-> 0]]
    /\ UNCHANGED <<objs, pool, watch, inbox, cache, call, mon>>

\* nobody has the proxy any more, when its monitor is over: the cache is weak
Drop(q) ==
    /\ proxy[q].obj # 0 /\ mon[q].st \in {"ended", "failed", "refused"}
    /\ garbage' = [o \in Objs |-> garbage[o] + (IF o = proxy[q].root THEN 1 ELSE 0) + (IF o = proxy[q].update THEN 1 ELSE 0)]
    /\ proxy' = [proxy EXCEPT ![q] = NoProxy]
    /\ cache' = [cache EXCEPT ![ClientOf[q]] = IF @ = q THEN 0 ELSE @]
    /\ UNCHANGED <<objs, pool, watch, inbox, call, mon>>

\* __gc of a box
releaseobj(o) ==
    /\ garbage[o] > 0
    /\ garbage' = [garbage EXCEPT ![o] = @ - 1] /\ objs' = ldecref(objs, o)
    /\ UNCHANGED <<pool, watch, inbox, cache, call, proxy, mon>>

Service ==
    \/ CMD_new \/ CMD_delete \/ CMD_update \/ UpdateFails \/ collectobj
    \/ \E c \in Clients : CMD_query(c) \/ CMD_confirm(c) \/ CMD_monitor(c)

Client ==
    \/ \E q \in Queries : query(q) \/ Boxed(q) \/ deepcopy(q) \/ lupdate(q) \/ UpdateRefused(q)
                            \/ MonitorEnds(q) \/ getcobj(q) \/ Drop(q)
    \/ \E o \in Objs : releaseobj(o)

Next == Service \/ Client

Spec == Init /\ [][Next]_sdVars

-----------------------------------------------------------------------------
(* Properties.                                                             *)

N(S) == Cardinality(S)
Confirms(o) == FoldSet(LAMBDA c, n : n + N({i \in DOMAIN inbox[c] : inbox[c][i].k = "confirm" /\ inbox[c][i].o = o}), 0, Clients)

\* An object counts exactly the pool, the boxes of the proxies, the boxes that are
\* garbage, and the pointers that are under way from the service to a client and
\* back to be confirmed, so that collectobj never deletes what a client can reach.
\* (A refused update never confirms its pointer: such an object is never deleted.)
RefExact ==
    \A o \in DOMAIN objs :
        /\ objs[o].ref = (IF o = pool THEN 1 ELSE 0)
              + N({q \in Queries : proxy[q].root = o}) + N({q \in Queries : proxy[q].update = o})
              + garbage[o] + Confirms(o)
              + N({q \in Queries : call[q].st = "got" /\ call[q].val = o})
              + N({q \in Queries : mon[q].st \in {"reply", "refused"} /\ mon[q].val = o})
        /\ ~objs[o].inmap => objs[o].ref = 0

\* A client that waits for the next version has the last one: its next access to the
\* proxy finds the object of the pool, even when several updates came before it looked.
WatcherNewest == \A q \in watch : lneedupdate(q) = pool

\* Whoever waits for the next version is among the watchers of the name or has its
\* request on the way to them: update and delete answer all of them, and no client
\* waits for a version nobody will tell it of.  (The exception is an update that fails,
\* sharedatad.lua:105: the watchers it drops are "lost", and keep the old version even
\* when the name is made again.)
WatchersKept ==
    \A q \in Queries :
        mon[q].st = "wait" <=>
          \/ q \in watch
          \/ \E i \in DOMAIN inbox[ClientOf[q]] :
                LET m == inbox[ClientOf[q]][i] IN m.k = "monitor" /\ m.q = q

\* "Only dirty object can be update": no client is refused the version it is told of.
\* It does not hold when the name is deleted and made again meanwhile; no run checks it.
OnlyDirtyUpdated == \A q \in Queries : mon[q].st # "refused"
=============================================================================
