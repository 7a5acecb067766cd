----------------------------- MODULE SkynetStart ----------------------------
(***************************************************************************)
(* The threads of a skynet process (skynet_start.c): workers that sleep on *)
(* a condition variable when there is nothing to dispatch, the timer and   *)
(* socket threads that wake them, and the end of the process once no       *)
(* context is left.                                                        *)
(*                                                                         *)
(* A section under m->mutex is one step.  wakeup takes no mutex: it reads  *)
(* m->sleep, and signals later; the signal reaches one of the threads that *)
(* wait at that moment, or nobody.  What a dispatch does is SkynetServer's *)
(* business: here gq is the set of services with messages waiting; a       *)
(* dispatch takes one, runs its callback and returns for the next.         *)
(***************************************************************************)
EXTENDS Integers, FiniteSets, FiniteSetTheorems, TLAPS

CONSTANTS Services,
          Endless,    \* services whose callback may never return
          Logger,     \* the service named logger
          Workers,
          MaxPosts,   \* bound on the messages sent and signals caught
          None

StartAssumption ==
  /\ IsFiniteSet(Services) /\ IsFiniteSet(Workers)
  /\ Endless \subseteq Services
  /\ Cardinality(Endless) < Cardinality(Workers)
  /\ Logger \in Services
  /\ MaxPosts \in Nat
  /\ None \notin Services

VARIABLES
  gq,       \* services with messages waiting
  posts,    \* messages sent and signals caught so far
  total,    \* the contexts G_NODE.total counts
  run,      \* the service whose callback a worker runs
  pc,       \* where each worker is
  waiting,  \* workers in pthread_cond_wait
  sleep, quit,
  timer, socket, monitor,  \* where these threads are
  sockexit, \* skynet_socket_exit was called
  SIG       \* a signal was caught

workVars == <<gq, posts, total, run>>
condVars == <<waiting, sleep, quit>>
others   == <<timer, socket, monitor, sockexit, SIG>>
vars == <<workVars, pc, condVars, others>>

count == Cardinality(Workers)

Init ==
  /\ gq \in SUBSET Services
  /\ posts = 0
  /\ total = Services
  /\ run = [w \in Workers |-> None]
  /\ pc = [w \in Workers |-> "loop"]
  /\ waiting = {} /\ sleep = 0 /\ quit = 0
  /\ timer = "update" /\ socket = "poll" /\ monitor = "loop"
  /\ sockexit = FALSE /\ SIG = 0

(* A message for s, from a callback, the timer wheel or a socket.          *)
Post(s) ==
  /\ posts < MaxPosts
  /\ s \in total
  /\ posts' = posts + 1
  /\ gq' = gq \cup {s}

-----------------------------------------------------------------------------
(* thread_worker.                                                          *)
GotoW(w, l) == pc' = [pc EXCEPT ![w] = l]

WhileNotQuit(w) ==
  /\ pc[w] = "loop"
  /\ GotoW(w, IF quit = 1 THEN "end" ELSE "dispatch")
  /\ UNCHANGED <<workVars, condVars, others>>

(* skynet_context_message_dispatch up to the callback.  The queue of a     *)
(* context that is gone is dropped; no service is run by two workers.      *)
Dispatch(w, s) ==
  /\ pc[w] = "dispatch"
  /\ s \in gq /\ \A u \in Workers : run[u] # s
  /\ gq' = gq \ {s}
  /\ run' = [run EXCEPT ![w] = IF s \in total THEN s ELSE None]
  /\ GotoW(w, IF s \in total THEN "callback" ELSE "loop")
  /\ UNCHANGED <<posts, total, condVars, others>>

(* Nothing to dispatch: it returns NULL.                                   *)
DispatchNull(w) ==
  /\ pc[w] = "dispatch"
  /\ \A s \in gq : \E u \in Workers : run[u] = s
  /\ GotoW(w, "sleep")
  /\ UNCHANGED <<workVars, condVars, others>>

CallbackPosts(w, s) ==
  /\ pc[w] = "callback"
  /\ Post(s)
  /\ UNCHANGED <<total, run, pc, condVars, others>>

(* The callback returns.  If the service has exited its context is deleted *)
(* now, with the last reference.                                           *)
CallbackReturns(w) ==
  /\ pc[w] = "callback"
  /\ run' = [run EXCEPT ![w] = None]
  /\ total' \in {total, total \ {run[w]}}
  /\ GotoW(w, "loop")
  /\ UNCHANGED <<gq, posts, condVars, others>>

(* Variant: the worker waits without looking at quit again.                *)
CondWait_Always(w) ==
  /\ pc[w] = "sleep"
  /\ sleep' = sleep + 1
  /\ waiting' = waiting \cup {w}
  /\ GotoW(w, "waiting")
  /\ UNCHANGED <<workVars, quit, others>>

(* Under the mutex: ++sleep, and pthread_cond_wait unless quit is set      *)
(* (then --sleep follows at once).                                         *)
CondWait(w) ==
  /\ pc[w] = "sleep"
  /\ \/ /\ quit = 0
        /\ sleep' = sleep + 1
        /\ waiting' = waiting \cup {w}
        /\ GotoW(w, "waiting")
     \/ /\ quit = 1
        /\ GotoW(w, "loop")
        /\ UNCHANGED <<sleep, waiting>>
  /\ UNCHANGED <<workVars, quit, others>>

(* Variant: --sleep is forgotten.                                          *)
Woken_NoDec(w) ==
  /\ pc[w] = "waiting" /\ w \notin waiting
  /\ GotoW(w, "loop")
  /\ UNCHANGED <<workVars, condVars, others>>

Woken(w) ==
  /\ pc[w] = "waiting" /\ w \notin waiting
  /\ sleep' = sleep - 1
  /\ GotoW(w, "loop")
  /\ UNCHANGED <<workVars, waiting, quit, others>>

Spurious(w) ==
  /\ w \in waiting
  /\ waiting' = waiting \ {w}
  /\ UNCHANGED <<workVars, pc, sleep, quit, others>>

-----------------------------------------------------------------------------
(* wakeup(m, busy): the test of m->sleep, then the signal.                 *)
MustSignal(busy) == sleep >= count - busy

Signal ==
  \/ \E w \in waiting : waiting' = waiting \ {w}
  \/ waiting = {} /\ UNCHANGED waiting

(* thread_timer.  skynet_updatetime may fire timers (SkynetTimer).         *)
UpdateTime ==
  /\ timer = "update"
  /\ (\E s \in Services : Post(s)) \/ UNCHANGED <<gq, posts>>
  /\ timer' = "abort?"
  /\ UNCHANGED <<total, run, pc, condVars, socket, monitor, sockexit, SIG>>

(* Variant: the timer wakes a worker only if all of them sleep.            *)
TimerChecks_AllAsleep ==
  /\ timer = "abort?"
  /\ timer' = IF total = {} THEN "exit" ELSE IF MustSignal(0) THEN "signal" ELSE "sig?"
  /\ UNCHANGED <<workVars, pc, condVars, socket, monitor, sockexit, SIG>>

(* CHECK_ABORT, then wakeup(m, m->count-1).                                *)
TimerChecks ==
  /\ timer = "abort?"
  /\ timer' = IF total = {} THEN "exit"
              ELSE IF MustSignal(count - 1) THEN "signal" ELSE "sig?"
  /\ UNCHANGED <<workVars, pc, condVars, socket, monitor, sockexit, SIG>>

TimerSignals ==
  /\ timer = "signal"
  /\ Signal
  /\ timer' = "sig?"
  /\ UNCHANGED <<workVars, pc, sleep, quit, socket, monitor, sockexit, SIG>>

(* if (SIG): a message to the logger, if there is one; then SIG = 0.       *)
signal_hup ==
  /\ timer = "sig?"
  /\ timer' = IF SIG = 1 THEN "clear" ELSE "update"
  /\ gq' = IF SIG = 1 THEN gq \cup ({Logger} \cap total) ELSE gq
  /\ UNCHANGED <<posts, total, run, pc, condVars, socket, monitor, sockexit, SIG>>

ClearSIG ==
  /\ timer = "clear"
  /\ timer' = "update"
  /\ SIG' = 0
  /\ UNCHANGED <<workVars, pc, condVars, socket, monitor, sockexit>>

(* The signal handler, at any time.                                        *)
handle_hup ==
  /\ posts < MaxPosts
  /\ posts' = posts + 1
  /\ SIG' = 1
  /\ UNCHANGED <<gq, total, run, pc, condVars, timer, socket, monitor, sockexit>>

skynet_socket_exit ==
  /\ timer = "exit"
  /\ sockexit' = TRUE
  /\ timer' = "quit"
  /\ UNCHANGED <<workVars, pc, condVars, socket, monitor, SIG>>

(* m->quit = 1 and the broadcast, under the mutex.                         *)
Quit ==
  /\ timer = "quit"
  /\ quit' = 1
  /\ waiting' = {}
  /\ timer' = "end"
  /\ UNCHANGED <<workVars, pc, sleep, socket, monitor, sockexit, SIG>>

-----------------------------------------------------------------------------
(* thread_socket: skynet_socket_poll returns 0 after skynet_socket_exit,   *)
(* > 0 when a message was forwarded, < 0 when there is more to read.       *)
PollExits ==
  /\ socket = "poll" /\ sockexit
  /\ socket' = "end"
  /\ UNCHANGED <<workVars, pc, condVars, timer, monitor, sockexit, SIG>>

PollForwards ==
  /\ socket = "poll"
  /\ \E s \in Services : Post(s)
  /\ socket' = "wakeup"
  /\ UNCHANGED <<total, run, pc, condVars, timer, monitor, sockexit, SIG>>

PollAgain ==
  /\ socket = "poll"
  /\ total = {}
  /\ socket' = "end"
  /\ UNCHANGED <<workVars, pc, condVars, timer, monitor, sockexit, SIG>>

SocketWakeup ==
  /\ socket = "wakeup"
  /\ socket' = IF MustSignal(0) THEN "signal" ELSE "poll"
  /\ UNCHANGED <<workVars, pc, condVars, timer, monitor, sockexit, SIG>>

SocketSignals ==
  /\ socket = "signal"
  /\ Signal
  /\ socket' = "poll"
  /\ UNCHANGED <<workVars, pc, sleep, quit, timer, monitor, sockexit, SIG>>

(* thread_monitor (what it looks at is SkynetMonitor's business).          *)
MonitorAborts ==
  /\ monitor = "loop" /\ total = {}
  /\ monitor' = "end"
  /\ UNCHANGED <<workVars, pc, condVars, timer, socket, sockexit, SIG>>

-----------------------------------------------------------------------------
Worker(w) ==
  \/ WhileNotQuit(w) \/ DispatchNull(w) \/ (\E s \in Services : Dispatch(w, s))
  \/ CondWait(w) \/ Woken(w)

TimerThread  == \/ UpdateTime \/ TimerChecks \/ TimerSignals \/ signal_hup
                \/ ClearSIG \/ skynet_socket_exit \/ Quit
SocketThread == PollExits \/ SocketWakeup \/ SocketSignals

Ended == /\ timer = "end" /\ socket = "end" /\ monitor = "end"
         /\ \A w \in Workers : pc[w] = "end"

(* start() has joined every thread.                                        *)
Joined == Ended /\ UNCHANGED vars

Next ==
  \/ \E w \in Workers : \/ Worker(w) \/ CallbackReturns(w) \/ Spurious(w)
                        \/ \E s \in Services : CallbackPosts(w, s)
  \/ TimerThread \/ SocketThread \/ PollForwards \/ PollAgain
  \/ MonitorAborts \/ handle_hup \/ Joined

ReturnsInTime(w) == CallbackReturns(w) /\ run[w] \notin Endless

(* Every thread is scheduled, whoever asks for the mutex gets it, and the  *)
(* callbacks return but for those of Endless.  Nothing is assumed of       *)
(* sockets, signals and spurious wakeups.                                  *)
Spec ==
  /\ Init /\ [][Next]_vars
  /\ WF_vars(TimerThread) /\ WF_vars(SocketThread) /\ WF_vars(MonitorAborts)
  /\ \A w \in Workers :
       /\ WF_vars(Worker(w))
       /\ WF_vars(ReturnsInTime(w))

-----------------------------------------------------------------------------
(* The types of the threads' states: sleep is between 0 and the number of  *)
(* workers, SIG is a flag.                                                 *)
TypeOK ==
  /\ gq \in SUBSET Services /\ total \in SUBSET Services
  /\ posts \in 0..MaxPosts
  /\ run \in [Workers -> Services \cup {None}]
  /\ pc \in [Workers -> {"loop", "dispatch", "callback", "sleep", "waiting", "end"}]
  /\ waiting \in SUBSET Workers
  /\ sleep \in 0..count /\ quit \in {0, 1} /\ SIG \in {0, 1}
  /\ timer \in {"update", "abort?", "signal", "sig?", "clear", "exit", "quit", "end"}
  /\ socket \in {"poll", "wakeup", "signal", "end"} /\ monitor \in {"loop", "end"}

(* m->sleep, which wakeup reads without the mutex, counts the workers that *)
(* are asleep or have yet to leave pthread_cond_wait; when all threads     *)
(* have ended free_monitor destroys a condition variable nobody waits for. *)
SleepCounted ==
  /\ TypeOK
  /\ sleep = Cardinality({w \in Workers : pc[w] = "waiting"})
  /\ Ended => waiting = {}

HasWork(s) == s \in gq
Taken(s)   == s \notin gq \/ quit = 1
AllGone    == total = {}

(* A service with messages is run or dropped, even if every other worker   *)
(* is caught in an endless callback, the signal was sent when nobody was   *)
(* waiting yet, or no socket ever has an event again.                      *)
WorkIsTaken == \A s \in Services \ Endless : HasWork(s) ~> Taken(s)

(* Once the last context is gone all threads end, those asleep included.   *)
ProcessEnds == AllGone ~> Ended
-----------------------------------------------------------------------------
(* Proofs.                                                                 *)

(* Who has gone to sleep and has not yet left pthread_cond_wait; the ones  *)
(* that a signal can reach are among them.                                 *)
Asleep == {w \in Workers : pc[w] = "waiting"}
SleepInv ==
  /\ TypeOK
  /\ sleep = Cardinality(Asleep)
  /\ waiting \subseteq Asleep

(* The sleepers are finitely many, and at most all workers.                *)
LEMMA AsleepFinite ==
  ASSUME StartAssumption
  PROVE  IsFiniteSet(Asleep) /\ Cardinality(Asleep) \in Nat /\ count \in Nat /\ Cardinality(Asleep) <= count
<1>1. Asleep \subseteq Workers
  BY DEF Asleep
<1> QED
  BY <1>1, FS_Subset, FS_CardinalityType DEF StartAssumption, count

LEMMA StartInit ==
  ASSUME StartAssumption, Init
  PROVE  SleepInv
<1>1. Asleep = {}
  BY DEF Asleep, Init
<1>2. sleep = Cardinality(Asleep)
  BY <1>1, FS_EmptySet DEF Init
<1>3. TypeOK
  BY AsleepFinite DEF TypeOK, Init, StartAssumption
<1> QED
  BY <1>2, <1>3 DEF SleepInv, Init

(* A step at which nobody falls asleep or awakes.                          *)
LEMMA SleepersStay ==
  ASSUME SleepInv, UNCHANGED sleep, waiting' \subseteq waiting, TypeOK',
         \A w \in Workers : pc'[w] = "waiting" <=> pc[w] = "waiting"
  PROVE  SleepInv'
<1>1. Asleep' = Asleep
  BY DEF Asleep
<1> QED
  BY <1>1 DEF SleepInv

(* A worker that is about to sleep, or to go on.                           *)
LEMMA CondWaitSleep ==
  ASSUME StartAssumption, SleepInv, NEW w \in Workers, CondWait(w)
  PROVE  SleepInv'
<1>0. pc \in [Workers -> {"loop", "dispatch", "callback", "sleep", "waiting", "end"}] /\ w \notin Asleep /\ pc[w] = "sleep"
  BY DEF SleepInv, TypeOK, CondWait, Asleep
<1>1. CASE sleep' = sleep + 1 /\ waiting' = waiting \cup {w} /\ GotoW(w, "waiting")
  <2>1. Asleep' = Asleep \cup {w}
    BY <1>0, <1>1 DEF GotoW, Asleep
  <2>2. Cardinality(Asleep') = Cardinality(Asleep) + 1
    BY <2>1, <1>0, AsleepFinite, FS_AddElement
  <2>3. IsFiniteSet(Asleep') /\ Cardinality(Asleep') <= count
    <3>1. Asleep' \subseteq Workers
      BY <2>1 DEF Asleep
    <3> QED
      BY <3>1, FS_Subset DEF StartAssumption, count
  <2>4. TypeOK'
    <3>1. sleep' \in 0 .. count
      BY <2>2, <2>3, <1>1, AsleepFinite DEF SleepInv
    <3>2. pc' \in [Workers -> {"loop", "dispatch", "callback", "sleep", "waiting", "end"}]
      BY <1>0, <1>1 DEF GotoW
    <3> QED
      BY <3>1, <3>2, <1>1 DEF TypeOK, SleepInv, CondWait, workVars, others, count
  <2> QED
    BY <2>1, <2>2, <2>4, <1>1 DEF SleepInv
<1>2. CASE GotoW(w, "loop") /\ UNCHANGED <<sleep, waiting>>
  <2>1. \A u \in Workers : pc'[u] = "waiting" <=> pc[u] = "waiting"
    BY <1>0, <1>2 DEF GotoW
  <2>2. TypeOK'
    BY <1>0, <1>2 DEF TypeOK, SleepInv, CondWait, GotoW, workVars, others, count
  <2> QED
    BY <2>1, <2>2, <1>2, SleepersStay
<1> QED
  BY <1>1, <1>2 DEF CondWait

(* A worker that leaves pthread_cond_wait.                                 *)
LEMMA WokenSleep ==
  ASSUME StartAssumption, SleepInv, NEW w \in Workers, Woken(w)
  PROVE  SleepInv'
<1>0. pc \in [Workers -> {"loop", "dispatch", "callback", "sleep", "waiting", "end"}] /\ w \in Asleep
  BY DEF SleepInv, TypeOK, Woken, Asleep
<1>1. Asleep' = Asleep \ {w}
  BY <1>0 DEF Woken, GotoW, Asleep
<1>2. Cardinality(Asleep') = Cardinality(Asleep) - 1 /\ Cardinality(Asleep') \in Nat
  BY <1>0, <1>1, AsleepFinite, FS_RemoveElement, FS_CardinalityType
<1>3. sleep' \in 0 .. count
  BY <1>2, AsleepFinite DEF SleepInv, Woken
<1>4. TypeOK'
  <2>1. pc' \in [Workers -> {"loop", "dispatch", "callback", "sleep", "waiting", "end"}]
    BY <1>0 DEF Woken, GotoW
  <2> QED
    BY <1>3, <2>1 DEF TypeOK, SleepInv, Woken, workVars, others, count
<1> QED
  BY <1>1, <1>2, <1>4 DEF SleepInv, Woken

(* The other steps of a worker.                                            *)
LEMMA WorkSleep ==
  ASSUME StartAssumption, SleepInv, NEW w \in Workers,
         \/ WhileNotQuit(w) \/ DispatchNull(w) \/ CallbackReturns(w) \/ Spurious(w)
         \/ \E s \in Services : Dispatch(w, s) \/ CallbackPosts(w, s)
  PROVE  SleepInv'
<1>0. pc \in [Workers -> {"loop", "dispatch", "callback", "sleep", "waiting", "end"}] /\ TypeOK
  BY DEF SleepInv, TypeOK
<1>1. CASE WhileNotQuit(w)
  BY <1>0, <1>1, SleepersStay DEF WhileNotQuit, GotoW, TypeOK, workVars, condVars, others, count
<1>2. CASE DispatchNull(w)
  BY <1>0, <1>2, SleepersStay DEF DispatchNull, GotoW, TypeOK, workVars, condVars, others, count
<1>3. CASE CallbackReturns(w)
  <2>1. TypeOK' /\ UNCHANGED <<sleep, waiting>>
    BY <1>0, <1>3 DEF CallbackReturns, GotoW, TypeOK, condVars, others, count
  <2>2. \A u \in Workers : pc'[u] = "waiting" <=> pc[u] = "waiting"
    BY <1>0, <1>3 DEF CallbackReturns, GotoW
  <2> QED
    BY <2>1, <2>2, SleepersStay
<1>4. CASE Spurious(w)
  BY <1>0, <1>4, SleepersStay DEF Spurious, TypeOK, workVars, others, count
<1>5. ASSUME NEW s \in Services, Dispatch(w, s) PROVE SleepInv'
  <2>1. TypeOK' /\ UNCHANGED <<sleep, waiting>>
    BY <1>0, <1>5 DEF Dispatch, GotoW, TypeOK, condVars, others, count
  <2>2. \A u \in Workers : pc'[u] = "waiting" <=> pc[u] = "waiting"
    BY <1>0, <1>5 DEF Dispatch, GotoW
  <2> QED
    BY <2>1, <2>2, SleepersStay
<1>6. ASSUME NEW s \in Services, CallbackPosts(w, s) PROVE SleepInv'
  <2>1. TypeOK'
    BY <1>0, <1>6 DEF CallbackPosts, Post, TypeOK, condVars, others, count, StartAssumption
  <2> QED
    BY <2>1, <1>6, SleepersStay DEF CallbackPosts, condVars
<1> QED
  BY <1>1, <1>2, <1>3, <1>4, <1>5, <1>6

(* The timer, socket and monitor threads wake, and never count.            *)
LEMMA ThreadsSleep ==
  ASSUME StartAssumption, SleepInv,
         TimerThread \/ SocketThread \/ PollForwards \/ PollAgain \/ MonitorAborts \/ handle_hup \/ Joined
  PROVE  SleepInv'
<1>0. TypeOK
  BY DEF SleepInv
<1> USE DEF TypeOK, workVars, condVars, others, count
<1>1. CASE UpdateTime \/ PollForwards \/ handle_hup
  <2>1. TypeOK'
    BY <1>0, <1>1 DEF UpdateTime, PollForwards, handle_hup, Post, StartAssumption
  <2> QED
    BY <2>1, <1>1, SleepersStay DEF UpdateTime, PollForwards, handle_hup
<1>2. CASE TimerChecks \/ signal_hup \/ ClearSIG \/ skynet_socket_exit
  <2>1. TypeOK'
    BY <1>0, <1>2 DEF TimerChecks, signal_hup, ClearSIG, skynet_socket_exit, StartAssumption
  <2> QED
    BY <2>1, <1>2, SleepersStay DEF TimerChecks, signal_hup, ClearSIG, skynet_socket_exit
<1>3. CASE TimerSignals \/ SocketSignals \/ Quit
  <2>1. waiting' \subseteq waiting /\ UNCHANGED sleep /\ UNCHANGED pc
    BY <1>3 DEF TimerSignals, SocketSignals, Quit, Signal
  <2>2. TypeOK'
    BY <1>0, <1>3, <2>1 DEF TimerSignals, SocketSignals, Quit
  <2> QED
    BY <2>1, <2>2, SleepersStay
<1>4. CASE PollExits \/ PollAgain \/ SocketWakeup \/ MonitorAborts
  <2>1. TypeOK'
    BY <1>0, <1>4 DEF PollExits, PollAgain, SocketWakeup, MonitorAborts
  <2> QED
    BY <2>1, <1>4, SleepersStay DEF PollExits, PollAgain, SocketWakeup, MonitorAborts
<1>5. CASE Joined
  BY <1>0, <1>5, SleepersStay DEF Joined, vars
<1> QED
  BY <1>1, <1>2, <1>3, <1>4, <1>5 DEF TimerThread, SocketThread

LEMMA SleepStep ==
  ASSUME StartAssumption, SleepInv, [Next]_vars
  PROVE  SleepInv'
<1>1. CASE UNCHANGED vars
  BY <1>1, SleepersStay DEF vars, workVars, condVars, others, TypeOK, SleepInv, count
<1>2. ASSUME NEW w \in Workers,
             Worker(w) \/ CallbackReturns(w) \/ Spurious(w) \/ \E s \in Services : CallbackPosts(w, s)
      PROVE  SleepInv'
  BY <1>2, CondWaitSleep, WokenSleep, WorkSleep DEF Worker
<1>3. CASE TimerThread \/ SocketThread \/ PollForwards \/ PollAgain \/ MonitorAborts \/ handle_hup \/ Joined
  BY <1>3, ThreadsSleep
<1> QED
  BY <1>1, <1>2, <1>3 DEF Next

(* m->sleep counts the workers that are asleep for any number of workers,  *)
(* whoever signals and whenever; once all threads have ended nobody waits. *)
THEOREM SleepersCounted == StartAssumption => (Spec => []SleepCounted)
<1> SUFFICES ASSUME StartAssumption PROVE Spec => []SleepCounted
  OBVIOUS
<1>1. Init => SleepInv
  BY StartInit
<1>2. SleepInv /\ [Next]_vars => SleepInv'
  BY SleepStep
<1>3. SleepInv => SleepCounted
  BY DEF SleepInv, SleepCounted, Ended, Asleep
<1> QED
  BY <1>1, <1>2, <1>3, PTL DEF Spec
=============================================================================
