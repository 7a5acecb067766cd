---------------------------- MODULE SkynetMonitor ---------------------------
(***************************************************************************)
(* The endless-loop monitor (skynet_monitor.c, thread_monitor of           *)
(* skynet_start.c): a worker notes in its skynet_monitor what it           *)
(* dispatches, before and after each callback; every five seconds the      *)
(* monitor thread compares the version it sees with the one it saw before. *)
(* The fields are read and written without a lock, one at a time.          *)
(*                                                                         *)
(* changed[w] is version # check_version: the versions themselves are only *)
(* compared (that 2^32 callbacks fit between two rounds is left out).      *)
(***************************************************************************)
EXTENDS Integers, FiniteSets

CONSTANTS Services, Workers, None

MonitorAssumption == None \notin Services \cup Workers

VARIABLES changed, destination,  \* of each worker's skynet_monitor
          run,      \* the service whose callback a worker runs
          pc,       \* where each worker is
          at, todo, now,  \* the monitor thread: where it is, the workers left
                          \* in this round, the one it looks at
          handle,   \* the argument of skynet_context_endless, then its context
          total,    \* services whose handle is registered
          endless,  \* ctx->endless
          ran       \* history: what worker now ran since its version was compared

workerVars  == <<run, pc, total>>
monitorVars == <<at, todo, now, handle>>
vars == <<changed, destination, workerVars, monitorVars, endless, ran>>

Init ==
  /\ changed = [w \in Workers |-> FALSE]
  /\ destination = [w \in Workers |-> None]
  /\ run = [w \in Workers |-> None]
  /\ pc = [w \in Workers |-> "idle"]
  /\ at = "round" /\ todo = {} /\ now = None /\ handle = None
  /\ total = Services
  /\ endless = {} /\ ran = {}

-----------------------------------------------------------------------------
(* skynet_monitor_trigger(sm, source, handle), before the callback: the    *)
(* destination is written, then the version is incremented.                *)
Trigger(w, s) ==
  /\ pc[w] = "idle"
  /\ s \in total /\ \A u \in Workers : run[u] # s
  /\ run' = [run EXCEPT ![w] = s]
  /\ destination' = [destination EXCEPT ![w] = s]
  /\ pc' = [pc EXCEPT ![w] = "begin"]
  /\ ran' = IF w = now THEN ran \cup {s} ELSE ran
  /\ UNCHANGED <<changed, total, monitorVars, endless>>

(* Variant: the destination is left behind when the callback returns.      *)
TriggerZero_Keep(w) ==
  /\ pc[w] = "callback"
  /\ pc' = [pc EXCEPT ![w] = "end"]
  /\ UNCHANGED <<changed, destination, run, total, monitorVars, endless, ran>>

(* skynet_monitor_trigger(sm, 0, 0), after it.  The service may have       *)
(* exited.                                                                 *)
TriggerZero(w) ==
  /\ pc[w] = "callback"
  /\ destination' = [destination EXCEPT ![w] = None]
  /\ pc' = [pc EXCEPT ![w] = "end"]
  /\ UNCHANGED <<changed, run, total, monitorVars, endless, ran>>

IncVersion(w) ==
  /\ \/ /\ pc[w] = "begin"
        /\ pc' = [pc EXCEPT ![w] = "callback"]
        /\ UNCHANGED <<run, total>>
     \/ /\ pc[w] = "end"
        /\ pc' = [pc EXCEPT ![w] = "idle"]
        /\ run' = [run EXCEPT ![w] = None]
        /\ total' \in {total, total \ {run[w]}}
  /\ changed' = [changed EXCEPT ![w] = TRUE]
  /\ UNCHANGED <<destination, monitorVars, endless, ran>>

(* cmd_stat "endless": the service asks, and the mark is taken back.       *)
StatEndless(w) ==
  /\ pc[w] = "callback"
  /\ run[w] \in endless
  /\ endless' = endless \ {run[w]}
  /\ UNCHANGED <<changed, destination, workerVars, monitorVars, ran>>

-----------------------------------------------------------------------------
Round ==
  /\ at = "round"
  /\ todo = {}
  /\ todo' = Workers
  /\ at' = "check"
  /\ UNCHANGED <<changed, destination, workerVars, now, handle, endless, ran>>

Looks(w) ==
  /\ at' = "look" /\ now' = w
  /\ ran' = {s \in Services : run[w] = s /\ pc[w] # "end"}

(* Variant: check_version is never updated.                                *)
Compare_NoStore(w) ==
  /\ at = "check" /\ w \in todo
  /\ todo' = todo \ {w}
  /\ IF changed[w] THEN UNCHANGED <<at, now, ran>> ELSE Looks(w)
  /\ UNCHANGED <<changed, destination, workerVars, handle, endless>>

(* skynet_monitor_check: the versions are compared.                        *)
Compare(w) ==
  /\ at = "check" /\ w \in todo
  /\ todo' = todo \ {w}
  /\ \/ /\ changed[w]
        /\ changed' = [changed EXCEPT ![w] = FALSE]
        /\ UNCHANGED <<at, now, ran>>
     \/ /\ ~changed[w]
        /\ Looks(w)
        /\ UNCHANGED changed
  /\ UNCHANGED <<destination, workerVars, handle, endless>>

Watched == UNCHANGED <<changed, destination, workerVars, todo>>
Checked == at' = "check" /\ now' = None /\ handle' = None /\ ran' = {}

(* if (sm->destination)                                                    *)
Look ==
  /\ at = "look"
  /\ \/ /\ destination[now] # None
        /\ at' = "pass"
        /\ UNCHANGED <<now, handle, ran>>
     \/ destination[now] = None /\ Checked
  /\ Watched /\ UNCHANGED endless

(* skynet_context_endless(sm->destination): it is read again, and may be 0 *)
(* by now, or the next service of this worker.                             *)
Pass ==
  /\ at = "pass"
  /\ handle' = destination[now]
  /\ at' = "grab"
  /\ Watched /\ UNCHANGED <<now, endless, ran>>

(* skynet_handle_grab: the context, if its handle is still registered.     *)
Grab ==
  /\ at = "grab"
  /\ \/ /\ handle \in total
        /\ at' = "mark"
        /\ UNCHANGED <<now, handle, ran>>
     \/ handle \notin total /\ Checked
  /\ Watched /\ UNCHANGED endless

(* ctx->endless = true: the reference keeps the context, not its dispatch. *)
Mark ==
  /\ at = "mark"
  /\ endless' = endless \cup {handle}
  /\ Checked
  /\ Watched

(* The five seconds of sleep.                                              *)
Sleep ==
  /\ at = "check" /\ todo = {}
  /\ at' = "round"
  /\ UNCHANGED <<changed, destination, workerVars, todo, now, handle, endless, ran>>

MonitorThread ==
  Round \/ (\E w \in Workers : Compare(w)) \/ Look \/ Pass \/ Grab \/ Mark \/ Sleep

Next ==
  \/ MonitorThread
  \/ \E w \in Workers : TriggerZero(w) \/ IncVersion(w) \/ StatEndless(w)
  \/ \E w \in Workers, s \in Services : Trigger(w, s)

(* The monitor thread is scheduled; workers do not stop inside             *)
(* skynet_monitor_trigger.  Callbacks need not return.                     *)
Spec == /\ Init /\ [][Next]_vars
        /\ WF_vars(MonitorThread)
        /\ \A w \in Workers : WF_vars(IncVersion(w))

-----------------------------------------------------------------------------
(* The types of the monitor's fields: what is marked endless is a service, *)
(* and the monitor holds a context when it marks it.                       *)
TypeOK ==
  /\ changed \in [Workers -> BOOLEAN]
  /\ destination \in [Workers -> Services \cup {None}]
  /\ run \in [Workers -> Services \cup {None}]
  /\ pc \in [Workers -> {"idle", "begin", "callback", "end"}]
  /\ at \in {"round", "check", "look", "pass", "grab", "mark"}
  /\ todo \in SUBSET Workers /\ now \in Workers \cup {None}
  /\ handle \in Services \cup {None} /\ (at = "mark" => handle # None)
  /\ endless \in SUBSET Services /\ ran \in SUBSET Services

Runs(w, s) == run[w] = s
Marked(s)  == s \in endless

(* A callback that never returns is reported, and reported again after the *)
(* service's mark was taken back, whatever the other workers do.           *)
EndlessReported ==
  \A w \in Workers, s \in Services : <>[]Runs(w, s) => []<>Marked(s)

(* Whom the monitor marks, the worker it looks at was running at the       *)
(* comparison of the versions or took up since: nobody is marked for a     *)
(* callback that had returned before the check began.  (destination, the   *)
(* handle and ctx->endless are three unlocked accesses: a callback that    *)
(* returns between them, or has only just begun, is marked all the same.)  *)
MarkedHadRun == \A s \in endless' \ endless : s \in ran

MarksHadRun == [][MarkedHadRun]_vars
=============================================================================
