------------------------------ MODULE MCKernel ------------------------------
(***************************************************************************)
(* The parts of the kernel that have to get something done, each by        *)
(* itself: the lock, the timer wheel, the threads, the monitor and the     *)
(* mutex service.  A behaviour is one of one part; the lock has its own    *)
(* variables, the other parts share s1 to s13, and what a part does not    *)
(* use stays empty.                                                        *)
(***************************************************************************)
EXTENDS RWLock, TLC

CONSTANT Nobody   \* no context, no service, no coroutine

VARIABLES part,
          s1, s2, s3, s4, s5, s6, s7, s8, s9, s10, s11, s12, s13

from9  == <<s9, s10, s11, s12, s13>>
from10 == <<s10, s11, s12, s13>>
from12 == <<s12, s13>>
slots  == <<s1, s2, s3, s4, s5, s6, s7, s8, from9>>
kernelVars == <<part, vars, slots>>

-----------------------------------------------------------------------------
(* The instances.  The wheel: 2 near slots and four levels of 2, so that   *)
(* the time wraps at 32.                                                   *)
W == INSTANCE SkynetTimer WITH
       NearShift <- 1, LevelShift <- 1, Timers <- 1..2,
       Delays <- {0, 2, 15}, Jumps <- 1..2,
       near <- s1, t <- s2, time <- s3, current <- s4, pc <- s5, todo <- s6,
       rem <- s7, order <- s8

T == INSTANCE SkynetStart WITH
       Services <- {8, 9}, Endless <- {8}, Logger <- 9,
       Workers <- 1..2, MaxPosts <- 2, None <- Nobody,
       gq <- s1, posts <- s2, total <- s3, run <- s4, pc <- s5, waiting <- s6,
       sleep <- s7, quit <- s8, timer <- s9, socket <- s10, monitor <- s11,
       sockexit <- s12, SIG <- s13

M == INSTANCE SkynetMonitor WITH
       Services <- {8, 9}, Workers <- 1..2, None <- Nobody,
       changed <- s1, destination <- s2, run <- s3, pc <- s4, at <- s5,
       todo <- s6, now <- s7, total <- s8, endless <- s9, handle <- s10,
       ran <- s11

(* Two batches in opposite order, and two clients of one plain mutex.      *)
WantBoth ==
  1 :> [batch |-> TRUE, ids |-> <<1, 2>>] @@ 2 :> [batch |-> TRUE, ids |-> <<2, 1>>]
    @@ 3 :> [batch |-> FALSE, ids |-> <<1>>] @@ 4 :> [batch |-> FALSE, ids |-> <<1>>]

X == INSTANCE Mutexd WITH
       Clients <- DOMAIN WantBoth, Want <- WantBoth, Cos <- 5..8, None <- Nobody,
       client <- s1, inbox <- s2, thread_queue <- s3, batch_queue <- s4,
       coroutine_pool <- s5, job <- s6, waits <- s7, sleep_session <- s8,
       wakeup_queue <- s9

ASSUME KernelAssumption ==
  /\ W!TimerAssumption /\ T!StartAssumption
  /\ M!MonitorAssumption /\ X!MutexAssumption

-----------------------------------------------------------------------------
Empty12 == s12 = << >> /\ s13 = << >>
Empty10 == s10 = << >> /\ s11 = << >> /\ Empty12
Empty9  == s9 = << >> /\ Empty10
Empty1  == /\ s1 = << >> /\ s2 = << >> /\ s3 = << >> /\ s4 = << >>
           /\ s5 = << >> /\ s6 = << >> /\ s7 = << >> /\ s8 = << >> /\ Empty9

KernelInit ==
  /\ Init
  /\ \/ part = "lock" /\ Empty1
     \/ part = "timer" /\ W!Init /\ Empty9
     \/ part = "threads" /\ T!Init
     \/ part = "monitor" /\ M!Init /\ Empty12
     \/ part = "mutex" /\ X!Init /\ Empty10

LockStep   == part = "lock" /\ Next /\ UNCHANGED <<part, slots>>
Apart      == UNCHANGED <<part, vars>>
TimerStep  == part = "timer" /\ W!Next /\ Apart /\ UNCHANGED from9
ThreadStep == part = "threads" /\ T!Next /\ Apart
WatchStep  == part = "monitor" /\ M!Next /\ Apart /\ UNCHANGED from12
MutexStep  == part = "mutex" /\ X!Next /\ Apart /\ UNCHANGED from10

KernelNext ==
  LockStep \/ TimerStep \/ ThreadStep \/ WatchStep \/ MutexStep

(* Each part's own fairness: thread i of the part is scheduled.            *)
Fair(i) ==
  \/ part = "lock" /\ i \in Threads /\ Step(i) /\ UNCHANGED <<part, slots>>
  \/ part = "timer" /\ i = 5 /\ W!thread_timer /\ Apart /\ UNCHANGED from9
  \/ part = "threads" /\ Apart /\ \/ i = 5 /\ T!TimerThread
                                  \/ i = 6 /\ T!SocketThread
                                  \/ i = 7 /\ T!MonitorAborts
                                  \/ i \in 1..2 /\ T!Worker(i)
                                  \/ i \in 3..4 /\ T!ReturnsInTime(i - 2)
  \/ part = "monitor" /\ Apart /\ UNCHANGED from12
       /\ ((i = 5 /\ M!MonitorThread) \/ (i \in 1..2 /\ M!IncVersion(i)))
  \/ part = "mutex" /\ Apart /\ UNCHANGED from10
       /\ ((i = 5 /\ X!Service) \/ (i \in 1..4 /\ X!Leave(i)))

KernelFairness == \A i \in 1..7 : WF_kernelVars(Fair(i))

KernelSpec == KernelInit /\ [][KernelNext]_kernelVars /\ KernelFairness

-----------------------------------------------------------------------------
(* The timer wheel loses nothing while lists move through its levels, and  *)
(* a timeout is answered in the tick it is due.                            *)
TimerExact == part = "timer" => W!NothingLost /\ W!OnTime

(* m->sleep counts the workers asleep, though wakeup reads it without the  *)
(* mutex.                                                                  *)
SleepCounted == part = "threads" => T!SleepCounted

(* mutex_batch excludes those that share an id, its release finds what was *)
(* locked, and each coroutine has as many wakeups coming as waits to do.   *)
MutexBatches ==
  part = "mutex" => X!BatchExclusion /\ X!BatchReleasable /\ X!WakeupsCounted

(* No step answers timers of one tick out of the order they were set in,   *)
(* or marks a service endless that the worker the monitor looks at has not *)
(* run since its version was compared.                                     *)
KernelSteps ==
  [][/\ part = "timer" => W!InSetOrder
     /\ part = "monitor" => M!MarkedHadRun]_kernelVars

(* Once the last context is gone all threads end, those asleep included.   *)
ProcessEnds == (part = "threads" /\ T!AllGone) ~> (part = "threads" /\ T!Ended)

(* A callback that never returns is reported, and reported again after the *)
(* service's mark was taken back, whatever the other worker does (workers  *)
(* and services are alike).                                                *)
EndlessReported ==
  <>[](part = "monitor" /\ M!Runs(1, 8)) => []<>(part = "monitor" /\ M!Marked(8))

Waits(i) ==
  CASE part = "lock" -> pc[i] = "w_drain"
    [] part = "timer" -> i \in W!Armed
    [] part = "threads" -> T!HasWork(9)
    [] part = "mutex" -> X!Asks(2 * i)
    [] OTHER -> FALSE

Served(i) ==
  CASE part = "lock" -> pc[i] = "w_held"
    [] part = "timer" -> i \notin W!Armed
    [] part = "threads" -> T!Taken(9)
    [] part = "mutex" -> X!IsIn(2 * i)
    [] OTHER -> FALSE

(* Nobody waits for ever: a writer that has raised the flag gets in, as    *)
(* new readers turn round and those inside leave; a timeout is answered; a *)
(* service with messages is run or dropped, even if the other worker is    *)
(* caught in an endless callback, the signal was sent when nobody was      *)
(* waiting yet, or no socket ever has an event again; who asks the mutex   *)
(* service gets in, as batches that overlap in any order do not wait for   *)
(* each other in a circle.                                                 *)
NobodyWaitsForever == \A i \in 1..2 : Waits(i) ~> Served(i)
=============================================================================
