------------------------------- MODULE Mutexd -------------------------------
(***************************************************************************)
(* The mutex service of the game servers (geek/script/mutex/mutexd.lua),   *)
(* its two clients mutex.lua and mutex_batch.lua, and as much of the       *)
(* coroutine scheduler of lualib/skynet.lua as they depend on: coroutines  *)
(* that have finished are kept in a pool and used again for the next       *)
(* request, and woken coroutines run before the next request is taken.     *)
(*                                                                         *)
(* One request is one coroutine; it runs until it ends or waits.           *)
(***************************************************************************)
EXTENDS Integers, Sequences, SequencesExt, FiniteSets

CONSTANTS Clients,
          Want,   \* for each client its call: [batch, ids]
          Cos,    \* coroutines, at least one per client
          None

Ids == UNION {ToSet(Want[c].ids) : c \in Clients}
Batch(c) == Want[c].batch

(* Everyone calls the plain mutex, with one id: a value for Want.          *)
PlainMutex == [c \in Clients |-> [batch |-> FALSE, ids |-> <<1>>]]

TheId(c) == Head(Want[c].ids)

(* utils.lock_action, the one caller of mutex_batch, passes no id twice.   *)
MutexAssumption ==
  /\ \A c \in Clients : Len(Want[c].ids) > 0 /\ IsInjective(Want[c].ids)
  /\ \A c \in Clients : ~Batch(c) => Len(Want[c].ids) = 1
  /\ Cardinality(Cos) >= Cardinality(Clients)
  /\ None \notin Cos \cup Clients

VARIABLES client,         \* "idle", "asking", "in" or "leaving"
          inbox,          \* the requests the service has not yet taken
          thread_queue,   \* of each id, or None: current_thread and threads
          batch_queue,    \* of each id, or None: threads
          coroutine_pool,
          job,            \* the client whose request a coroutine serves
          waits,          \* how many more times it will call skynet.wait
          sleep_session,  \* the coroutines in skynet.wait
          wakeup_queue

vars == <<client, inbox, thread_queue, batch_queue, coroutine_pool, job,
          waits, sleep_session, wakeup_queue>>

Init ==
  /\ client = [c \in Clients |-> "idle"]
  /\ inbox = << >>
  /\ thread_queue = [id \in Ids |-> None]
  /\ batch_queue = [id \in Ids |-> None]
  /\ coroutine_pool = << >>
  /\ job = [co \in Cos |-> None]
  /\ waits = [co \in Cos |-> 0]
  /\ sleep_session = {}
  /\ wakeup_queue = << >>

-----------------------------------------------------------------------------
(* The clients: a call of aquire, the protected function, a call of        *)
(* release.                                                                *)
Ask(c) ==
  /\ client[c] = "idle"
  /\ client' = [client EXCEPT ![c] = "asking"]
  /\ inbox' = Append(inbox, c)
  /\ UNCHANGED <<thread_queue, batch_queue, coroutine_pool, job, waits,
                 sleep_session, wakeup_queue>>

Leave(c) ==
  /\ client[c] = "in"
  /\ client' = [client EXCEPT ![c] = "leaving"]
  /\ inbox' = Append(inbox, c)
  /\ UNCHANGED <<thread_queue, batch_queue, coroutine_pool, job, waits,
                 sleep_session, wakeup_queue>>

-----------------------------------------------------------------------------
(* Coroutines.                                                             *)
Unborn == {co \in Cos : job[co] = None /\ co \notin ToSet(coroutine_pool)}

(* co_create: the coroutine that finished last, or a new one (which one    *)
(* does not matter: nobody refers to it yet).                              *)
co_create(co) ==
  co = IF coroutine_pool = << >> THEN CHOOSE x \in Unborn : TRUE
       ELSE Last(coroutine_pool)

PoolWithout == IF coroutine_pool = << >> THEN << >> ELSE Front(coroutine_pool)

(* Request c is answered and co goes back to the pool.                     *)
Answer(co, c) ==
  /\ client' = [client EXCEPT ![c] = IF @ = "asking" THEN "in" ELSE "idle"]
  /\ job' = [job EXCEPT ![co] = None]

AnswerAtOnce(co, c) ==
  /\ Answer(co, c)
  /\ coroutine_pool' = Append(PoolWithout, co)
  /\ UNCHANGED <<waits, sleep_session>>

(* skynet.wait, n times.                                                   *)
Wait(co, c, n) ==
  /\ job' = [job EXCEPT ![co] = c]
  /\ waits' = [waits EXCEPT ![co] = n]
  /\ sleep_session' = sleep_session \cup {co}
  /\ coroutine_pool' = PoolWithout
  /\ UNCHANGED client

(* skynet.wakeup for each of cos: one that does not sleep is not woken.    *)
Wakeup(cos) ==
  wakeup_queue' = wakeup_queue \o SelectSeq(cos, LAMBDA co : co \in sleep_session)

(* The pool is a weak table: the collector may take what nobody refers to. *)
Collect(co) ==
  /\ wakeup_queue = << >>
  /\ co \in ToSet(coroutine_pool)
  /\ \A id \in Ids : thread_queue[id] # None => thread_queue[id].current_thread # co
  /\ coroutine_pool' = SelectSeq(coroutine_pool, LAMBDA x : x # co)
  /\ UNCHANGED <<client, inbox, thread_queue, batch_queue, job, waits,
                 sleep_session, wakeup_queue>>

-----------------------------------------------------------------------------
(* Variant: the newest request first.                                      *)
Take_Newest(c, co) ==
  /\ wakeup_queue = << >>
  /\ inbox # << >> /\ c = Last(inbox)
  /\ co_create(co)
  /\ inbox' = Front(inbox)

(* The service takes the next request, c's, and runs co for it.            *)
Take(c, co) ==
  /\ wakeup_queue = << >>
  /\ inbox # << >> /\ c = Head(inbox)
  /\ co_create(co)
  /\ inbox' = Tail(inbox)

aquire(c, co) ==
  LET id == TheId(c)
      q  == thread_queue[id]
  IN
  /\ ~Batch(c) /\ client[c] = "asking"
  /\ Take(c, co)
  /\ \/ /\ q = None
        /\ thread_queue' = [thread_queue EXCEPT ![id] =
                              [threads |-> << >>, current_thread |-> co]]
        /\ AnswerAtOnce(co, c)
     \/ /\ q # None /\ q.current_thread = co
        /\ UNCHANGED thread_queue
        /\ AnswerAtOnce(co, c)
     \/ /\ q # None /\ q.current_thread # co
        /\ thread_queue' = [thread_queue EXCEPT ![id].threads = Append(@, co)]
        /\ Wait(co, c, 1)
  /\ UNCHANGED <<batch_queue, wakeup_queue>>

(* A release of a mutex that is not taken is logged as an error.           *)
release(c, co) ==
  LET id == TheId(c)
      q  == thread_queue[id]
  IN
  /\ ~Batch(c) /\ client[c] = "leaving"
  /\ Take(c, co)
  /\ \/ /\ q = None
        /\ UNCHANGED <<thread_queue, wakeup_queue>>
     \/ /\ q # None /\ q.threads # << >>
        /\ thread_queue' = [thread_queue EXCEPT ![id].threads = Tail(@)]
        /\ Wakeup(<<Head(q.threads)>>)
     \/ /\ q # None /\ q.threads = << >>
        /\ thread_queue' = [thread_queue EXCEPT ![id] = None]
        /\ UNCHANGED wakeup_queue
  /\ AnswerAtOnce(co, c)
  /\ UNCHANGED batch_queue

-----------------------------------------------------------------------------
(* Variant: the coroutine waits once, however many ids are taken.          *)
aquire_batch_OneWait(c, co) ==
  LET ids   == ToSet(Want[c].ids)
      taken == {id \in ids : batch_queue[id] # None}
  IN
  /\ Batch(c) /\ client[c] = "asking"
  /\ Take(c, co)
  /\ batch_queue' = [id \in Ids |->
       CASE id \in taken       -> Append(batch_queue[id], co)
         [] id \in ids \ taken -> << >>
         [] OTHER              -> batch_queue[id]]
  /\ IF taken = {} THEN AnswerAtOnce(co, c) ELSE Wait(co, c, 1)
  /\ UNCHANGED <<thread_queue, wakeup_queue>>

(* Variant: an id nobody waits for counts as free.                         *)
aquire_batch_EmptyIsFree(c, co) ==
  LET ids   == ToSet(Want[c].ids)
      taken == {id \in ids : batch_queue[id] \notin {None, << >>}}
  IN
  /\ Batch(c) /\ client[c] = "asking"
  /\ Take(c, co)
  /\ batch_queue' = [id \in Ids |->
       CASE id \in taken       -> Append(batch_queue[id], co)
         [] id \in ids \ taken -> << >>
         [] OTHER              -> batch_queue[id]]
  /\ IF taken = {} THEN AnswerAtOnce(co, c) ELSE Wait(co, c, Cardinality(taken))
  /\ UNCHANGED <<thread_queue, wakeup_queue>>

(* A free id is taken, for each other id the coroutine waits once.         *)
aquire_batch(c, co) ==
  LET ids   == ToSet(Want[c].ids)
      taken == {id \in ids : batch_queue[id] # None}
  IN
  /\ Batch(c) /\ client[c] = "asking"
  /\ Take(c, co)
  /\ batch_queue' = [id \in Ids |->
       CASE id \in taken       -> Append(batch_queue[id], co)
         [] id \in ids \ taken -> << >>
         [] OTHER              -> batch_queue[id]]
  /\ IF taken = {} THEN AnswerAtOnce(co, c) ELSE Wait(co, c, Cardinality(taken))
  /\ UNCHANGED <<thread_queue, wakeup_queue>>

(* Variant: the queue goes when its last coroutine is woken.               *)
release_batch_DropsQueue(c, co) ==
  LET ids    == Want[c].ids
      waited == SelectSeq(ids, LAMBDA id : batch_queue[id] # << >>)
  IN
  /\ Batch(c) /\ client[c] = "leaving"
  /\ Take(c, co)
  /\ batch_queue' = [id \in Ids |->
       IF id \notin ToSet(ids) THEN batch_queue[id]
       ELSE IF Len(batch_queue[id]) > 1 THEN Tail(batch_queue[id]) ELSE None]
  /\ Wakeup([i \in DOMAIN waited |-> Head(batch_queue[waited[i]])])
  /\ AnswerAtOnce(co, c)
  /\ UNCHANGED thread_queue

(* Each id goes to the first coroutine waiting for it, if there is one.    *)
release_batch(c, co) ==
  LET ids    == Want[c].ids
      waited == SelectSeq(ids, LAMBDA id : batch_queue[id] # << >>)
  IN
  /\ Batch(c) /\ client[c] = "leaving"
  /\ Take(c, co)
  /\ batch_queue' = [id \in Ids |->
       CASE id \in ToSet(waited)               -> Tail(batch_queue[id])
         [] id \in ToSet(ids) \ ToSet(waited)  -> None
         [] OTHER                              -> batch_queue[id]]
  /\ Wakeup([i \in DOMAIN waited |-> Head(batch_queue[waited[i]])])
  /\ AnswerAtOnce(co, c)
  /\ UNCHANGED thread_queue

-----------------------------------------------------------------------------
(* dispatch_wakeup: the coroutine goes on after skynet.wait.  It waits     *)
(* again, or it has what it waited for.                                    *)
dispatch_wakeup ==
  LET co == Head(wakeup_queue)
      c  == job[co]
  IN
  /\ wakeup_queue # << >>
  /\ wakeup_queue' = Tail(wakeup_queue)
  /\ \/ /\ co \notin sleep_session
        /\ UNCHANGED <<client, job, coroutine_pool, waits, sleep_session, thread_queue>>
     \/ /\ co \in sleep_session /\ waits[co] > 1
        /\ waits' = [waits EXCEPT ![co] = @ - 1]
        /\ UNCHANGED <<client, job, coroutine_pool, sleep_session, thread_queue>>
     \/ /\ co \in sleep_session /\ waits[co] = 1
        /\ waits' = [waits EXCEPT ![co] = 0]
        /\ sleep_session' = sleep_session \ {co}
        /\ thread_queue' = IF Batch(c) THEN thread_queue
                           ELSE [thread_queue EXCEPT ![TheId(c)].current_thread = co]
        /\ Answer(co, c)
        /\ coroutine_pool' = Append(coroutine_pool, co)
  /\ UNCHANGED <<inbox, batch_queue>>

Service ==
  \/ dispatch_wakeup
  \/ \E c \in Clients, co \in Cos :
       aquire(c, co) \/ release(c, co) \/ aquire_batch(c, co) \/ release_batch(c, co)

Next ==
  \/ Service
  \/ \E c \in Clients : Ask(c) \/ Leave(c)
  \/ \E co \in Cos : Collect(co)

(* The service is scheduled (EveryMessageHandled of SkynetServer) and the  *)
(* protected functions return.                                             *)
Spec == Init /\ [][Next]_vars /\ WF_vars(Service)
             /\ \A c \in Clients : WF_vars(Leave(c))

-----------------------------------------------------------------------------
(* The types of the service's tables: a queue that exists has a holder.    *)
TypeOK ==
  /\ client \in [Clients -> {"idle", "asking", "in", "leaving"}]
  /\ inbox \in Seq(Clients)
  /\ \A id \in Ids :
       /\ thread_queue[id] = None
          \/ thread_queue[id] \in [threads : Seq(Cos), current_thread : Cos]
       /\ batch_queue[id] = None \/ batch_queue[id] \in Seq(Cos)
  /\ coroutine_pool \in Seq(Cos) /\ wakeup_queue \in Seq(Cos)
  /\ job \in [Cos -> Clients \cup {None}]
  /\ waits \in [Cos -> 0..Cardinality(Ids)]
  /\ sleep_session \in SUBSET Cos

(* Two clients of mutex_batch inside at once have no id in common.         *)
BatchExclusion ==
  \A c, d \in Clients :
    /\ c # d /\ Batch(c) /\ Batch(d)
    /\ client[c] = "in" /\ client[d] = "in"
    => ToSet(Want[c].ids) \cap ToSet(Want[d].ids) = {}

(* assert(q) in release_batch holds: what a client has locked is locked    *)
(* until its release_batch is served.                                      *)
BatchReleasable ==
  \A c \in Clients : Batch(c) /\ client[c] \in {"in", "leaving"} =>
    \A id \in ToSet(Want[c].ids) : batch_queue[id] # None

(* A coroutine sleeps exactly once for every queue it waits in and every   *)
(* wakeup on its way to it: no wakeup is lost, none is left over for the   *)
(* next request the pooled coroutine serves.                               *)
WakeupsCounted ==
  TypeOK /\ \A co \in Cos :
    LET b == Cardinality({id \in Ids : batch_queue[id] # None
                                       /\ co \in ToSet(batch_queue[id])})
        s == Cardinality({id \in Ids : thread_queue[id] # None
                                       /\ co \in ToSet(thread_queue[id].threads)})
        w == Len(SelectSeq(wakeup_queue, LAMBDA x : x = co))
    IN  waits[co] = b + s + w /\ (waits[co] > 0 <=> co \in sleep_session)

Asks(c) == client[c] = "asking"
IsIn(c) == client[c] = "in"

(* Who asks gets in: batches that overlap in any order do not wait for     *)
(* each other in a circle, as each enters all its queues in one step.      *)
EveryoneGetsIn == \A c \in Clients : Asks(c) ~> IsIn(c)

(* A release finds the queue of its mutex: who is inside holds it.         *)
ReleaseFindsQueue ==
  \A c \in Clients : ~Batch(c) /\ client[c] \in {"in", "leaving"} =>
    thread_queue[TheId(c)] # None
=============================================================================
