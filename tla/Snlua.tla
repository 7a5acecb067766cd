------------------------------- MODULE Snlua --------------------------------
(***************************************************************************)
(* service-src/service_snlua.c: the coroutines of a Lua service, resumed   *)
(* through lua_resumeX so that a signal from another thread (snlua_signal, *)
(* the command SIGNAL) can interrupt whichever runs, and timed by the      *)
(* profile library.                                                        *)
(*                                                                         *)
(* The service's thread executes Lua code in the state on top of stack;    *)
(* pc is where it is inside lua_resumeX or signal_hook.  Each signaller is *)
(* a thread inside snlua_signal.  A coroutine that is dead or abandoned    *)
(* may be collected: using its lua_State afterwards is an error.           *)
(***************************************************************************)
EXTENDS Integers, Sequences, SequencesExt, FiniteSets

CONSTANTS Cos,        \* the coroutines
          Main,       \* the main state
          Signallers, \* threads that send the signal 0
          Wrap,       \* the clock of get_time wraps (0x10000 s)
          MaxSignal,  \* bound: signals
          MaxTick,    \* bound: units of CPU time; less than Wrap
          MaxResume   \* bound: resumes

NoState == 0
States == Cos \cup {Main}

VARIABLES trap,     \* l->trap
          activeL,  \* l->activeL
          hook,     \* the states that have signal_hook set
          stack,    \* the states that run, the current one last
          st,       \* of each coroutine: "suspended", "running", "dead", "freed"
          pc,       \* [at, co]: where the service's thread is
          sig,      \* of each signaller, [at, L]
          time,     \* [now, start, total, real, out]: the profile library
          used      \* bounds, and what went wrong: [signal, tick, resume, freed]

snluaVars == <<trap, activeL, hook, stack, st, pc, sig, time, used>>

Lua == [at |-> "lua", co |-> NoState]
Top == Last(stack)
None == -1

SnluaInit ==
    /\ trap = 0 /\ activeL = NoState /\ hook = {} /\ stack = <<Main>>
    /\ st = [c \in Cos |-> "suspended"]
    /\ pc = Lua
    /\ sig = [g \in Signallers |-> [at |-> "idle", L |-> NoState]]
    /\ time = [now |-> Wrap - 1, start |-> [c \in States |-> None], total |-> [c \in States |-> 0],
               real |-> [c \in States |-> 0], out |-> 0, due |-> 0]
    /\ used \in {[signal |-> s, tick |-> t, resume |-> 0, freed |-> FALSE] : s \in {0, MaxSignal}, t \in {0, MaxTick}}
    /\ (used.signal = MaxSignal \/ used.tick = MaxTick)  \* bound: the signals or the time, not both

-----------------------------------------------------------------------------
(* The profile library.                                                    *)

get_time == time.now
diff_time_NoWrap(start) == time.now - start
diff_time(start) == IF time.now < start THEN time.now + Wrap - start ELSE time.now - start
timing_enable(co) == time.start[co] # None

\* the thread consumes CPU time, all of it within the states that run
Tick ==
    /\ pc = Lua /\ used.tick < MaxTick
    /\ time' = [time EXCEPT !.now = (@ + 1) % Wrap,
                            !.real = [c \in States |-> IF c \in ToSet(stack) /\ timing_enable(c) THEN @[c] + 1 ELSE @[c]]]
    /\ used' = [used EXCEPT !.tick = @ + 1]
    /\ UNCHANGED <<trap, activeL, hook, stack, st, pc, sig>>

\* profile.start: of the current state, or of a coroutine that will run
lstart(co) ==
    /\ pc = Lua /\ co \in {Top} \cup {c \in Cos : st[c] = "suspended"} /\ ~timing_enable(co)
    /\ time' = [time EXCEPT !.start[co] = get_time, !.total[co] = 0, !.real[co] = 0]
    /\ UNCHANGED <<trap, activeL, hook, stack, st, pc, sig, used>>

\* profile.stop of the current state
lstop ==
    /\ pc = Lua /\ timing_enable(Top)
    /\ time' = [time EXCEPT !.out = time.total[Top] + diff_time(time.start[Top]), !.due = time.real[Top],
                            !.start[Top] = None, !.total[Top] = 0, !.real[Top] = 0]
    /\ UNCHANGED <<trap, activeL, hook, stack, st, pc, sig, used>>

-----------------------------------------------------------------------------
(* Resuming a coroutine: timing_resume, auxresume, lua_resumeX, switchL.   *)

\* a lua_State is given a hook: by the service's thread or by a signaller
lua_sethook(L) ==
    /\ hook' = hook \cup {L}
    /\ used' = [used EXCEPT !.freed = @ \/ (L \in Cos /\ st[L] = "freed")]

timing_resume(co) ==
    /\ pc = Lua /\ co \in Cos /\ st[co] \in {"suspended", "dead"} /\ used.resume < MaxResume
    /\ time' = IF timing_enable(co) THEN [time EXCEPT !.start[co] = get_time] ELSE time
    /\ pc' = [at |-> "switch", co |-> co]
    /\ used' = [used EXCEPT !.resume = @ + 1]
    /\ UNCHANGED <<trap, activeL, hook, stack, st, sig>>

\* switchL: the active state first, then the look at the trap
SwitchTo ==
    /\ pc.at = "switch"
    /\ activeL' = pc.co
    /\ pc' = [pc EXCEPT !.at = "switched"]
    /\ UNCHANGED <<trap, hook, stack, st, sig, time, used>>
Enter ==
    /\ pc.at = "switched"
    /\ IF trap # 0 THEN lua_sethook(pc.co) ELSE UNCHANGED <<hook, used>>
    /\ IF st[pc.co] = "dead" THEN pc' = [pc EXCEPT !.at = "left"] /\ UNCHANGED <<stack, st>>
       ELSE pc' = Lua /\ stack' = Append(stack, pc.co) /\ st' = [st EXCEPT ![pc.co] = "running"]
    /\ UNCHANGED <<trap, activeL, sig, time>>

\* the coroutine yields, or ends by returning or by an error
Leave(how) ==
    /\ st' = [st EXCEPT ![Top] = how]
    /\ stack' = Front(stack)
    /\ pc' = [at |-> "left", co |-> Top]
lua_yield(how) ==
    /\ pc = Lua /\ Top # Main /\ Leave(how)
    /\ UNCHANGED <<trap, activeL, hook, sig, time, used>>

\* lua_resumeX looks at the trap and waits for a signaller in the middle of its work
LoadTrap ==
    /\ pc.at = "left"
    /\ pc' = [pc EXCEPT !.at = IF trap # 0 THEN "wait" ELSE "back"]
    /\ UNCHANGED <<trap, activeL, hook, stack, st, sig, time, used>>
WaitTrap ==
    /\ pc.at = "wait" /\ trap < 0
    /\ pc' = [pc EXCEPT !.at = "back"]
    /\ UNCHANGED <<trap, activeL, hook, stack, st, sig, time, used>>

\* switchL to the state that resumed, then the time of the coroutine is added
SwitchBack ==
    /\ pc.at = "back"
    /\ activeL' = Top
    /\ pc' = [pc EXCEPT !.at = "switchedback"]
    /\ UNCHANGED <<trap, hook, stack, st, sig, time, used>>
Resumed_NoHook ==
    /\ pc.at = "switchedback"
    /\ time' = IF timing_enable(pc.co) THEN [time EXCEPT !.total[pc.co] = @ + diff_time(time.start[pc.co])] ELSE time
    /\ pc' = Lua
    /\ UNCHANGED <<trap, activeL, hook, used, stack, st, sig>>
Resumed ==
    /\ pc.at = "switchedback"
    /\ IF trap # 0 THEN lua_sethook(Top) ELSE UNCHANGED <<hook, used>>
    /\ time' = IF timing_enable(pc.co) THEN [time EXCEPT !.total[pc.co] = @ + diff_time(time.start[pc.co])] ELSE time
    /\ pc' = Lua
    /\ UNCHANGED <<trap, activeL, stack, st, sig>>

\* signal_hook, before an instruction of the current state; the error it raises
\* ends the coroutine, or in the main state the message
signal_hook ==
    /\ pc = Lua /\ Top \in hook
    /\ hook' = hook \ {Top}
    /\ pc' = IF trap # 0 THEN [at |-> "hooked", co |-> Top] ELSE pc
    /\ UNCHANGED <<trap, activeL, stack, st, sig, time, used>>
RaiseSignal ==
    /\ pc.at = "hooked"
    /\ trap' = 0
    /\ IF Top = Main THEN pc' = Lua /\ UNCHANGED <<stack, st>> ELSE Leave("dead")
    /\ UNCHANGED <<activeL, hook, sig, time, used>>

\* the collector takes a coroutine that is dead or abandoned
Collect(co) ==
    /\ pc = Lua /\ st[co] \in {"dead", "suspended"}
    /\ st' = [st EXCEPT ![co] = "freed"]
    /\ hook' = hook \ {co}
    /\ time' = [time EXCEPT !.start[co] = None]
    /\ UNCHANGED <<trap, activeL, stack, pc, sig, used>>

-----------------------------------------------------------------------------
(* snlua_signal on another thread, for signal 0.                           *)

At(g, at) == sig' = [sig EXCEPT ![g].at = at]

snlua_signal(g) ==
    /\ sig[g].at = "idle" /\ used.signal < MaxSignal
    /\ used' = [used EXCEPT !.signal = @ + 1]
    /\ IF trap = 0 THEN At(g, "cas") ELSE UNCHANGED sig
    /\ UNCHANGED <<trap, activeL, hook, stack, st, pc, time>>
TakeTrap(g) ==
    /\ sig[g].at = "cas"
    /\ IF trap = 0 THEN trap' = 1 /\ At(g, "active") ELSE trap' = trap /\ At(g, "idle")
    /\ UNCHANGED <<activeL, hook, stack, st, pc, time, used>>
ReadActive(g) ==
    /\ sig[g].at = "active"
    /\ activeL # NoState  \* there is a window in which a service has resumed nothing yet
    /\ sig' = [sig EXCEPT ![g] = [at |-> "sethook", L |-> activeL]]
    /\ UNCHANGED <<trap, activeL, hook, stack, st, pc, time, used>>
SetHook(g) ==
    /\ sig[g].at = "sethook"
    /\ lua_sethook(sig[g].L)
    /\ At(g, "finish")
    /\ UNCHANGED <<trap, activeL, stack, st, pc, time>>
FinishSet(g) ==
    /\ sig[g].at = "finish"
    /\ trap' = IF trap = 1 THEN -1 ELSE trap
    /\ sig' = [sig EXCEPT ![g] = [at |-> "idle", L |-> NoState]]
    /\ UNCHANGED <<activeL, hook, stack, st, pc, time, used>>

SnluaNext ==
    \/ Tick \/ lstop \/ SwitchTo \/ Enter \/ LoadTrap \/ WaitTrap \/ SwitchBack \/ Resumed \/ signal_hook \/ RaiseSignal
    \/ \E co \in States : lstart(co)
    \/ \E co \in Cos : timing_resume(co) \/ Collect(co)
    \/ \E how \in {"suspended", "dead"} : lua_yield(how)
    \/ \E g \in Signallers : snlua_signal(g) \/ TakeTrap(g) \/ ReadActive(g) \/ SetHook(g) \/ FinishSet(g)

SnluaSpec == SnluaInit /\ [][SnluaNext]_snluaVars

-----------------------------------------------------------------------------
(* Properties.                                                             *)

\* A signaller only touches a coroutine that still exists: lua_resumeX does not
\* leave a coroutine, which may then be collected, while lua_sethook on it is
\* under way ("wait for lua_sethook", service_snlua.c:92).  It does not hold when the
\* signal comes just after lua_resumeX looked at the trap; no run checks it.
HooksLive == ~used.freed

\* A signal is not lost: when no signaller is at work and the trap is set, the
\* state that runs has the hook that will raise it, whatever resumes and yields
\* came between (the active state is written before the trap is read).
SignalPending ==
    (trap # 0 /\ pc = Lua /\ \A g \in Signallers : sig[g].at = "idle") => Top \in hook

\* profile.stop answers the CPU time for which the coroutine was running (with
\* what it resumed) since profile.start, across yields, resumes by others and
\* the wrap of the clock.
ProfileExact == time.out = time.due
=============================================================================
