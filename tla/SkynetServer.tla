---------------------------- MODULE SkynetServer ----------------------------
(***************************************************************************)
(* The scheduler of skynet: service contexts and their reference counts    *)
(* (skynet_server.c), their message queues and the global queue of queues  *)
(* (skynet_mq.c), the membership of the handle table (skynet_handle.c),    *)
(* and the worker threads that dispatch messages (skynet_start.c).         *)
(*                                                                         *)
(* A step is what one lock or one atomic operation makes indivisible in    *)
(* the code: a section under the spin lock of a message queue (with the    *)
(* global queue's lock nested in it), a section under the handle table's   *)
(* lock, one ATOM_* on a reference count.  Between two of them any other   *)
(* thread may run.  Service names stand for handles: a handle belongs to   *)
(* one context for ever (SkynetHandle models how handles are made).        *)
(*                                                                         *)
(* hold[<<t, v>>] is the context thread t holds a reference to in the C    *)
(* variable v: "ctx" of skynet_context_message_dispatch, "tgt" the ctx of  *)
(* skynet_context_push, skynet_handle_retire and the other functions that  *)
(* grab by handle, "new" the ctx of skynet_context_new before it releases  *)
(* it.  own[<<t, v>>] is a message queue only t may put in the global      *)
(* queue: "q" and "nq" of the dispatch loop, "new" in skynet_context_new.  *)
(***************************************************************************)
EXTENDS Integers, Sequences, FiniteSets

CONSTANTS Services,     \* handles that can come to exist
          Boot,         \* the services skynet_start has launched
          SelfStart,    \* those whose init sent a message to itself (snlua)
          Workers,      \* worker threads
          Externals,    \* the timer and socket threads: they only push
          Weight,       \* weight[] of start(), for each worker
          Mute,         \* services that never call skynet_callback
          MonitorExit,  \* G_NODE.monitor_exit, or None
          MaxCalls,     \* bound on the calls of services and external threads
          None

Threads == Workers \cup Externals
CtxVars == {"ctx", "tgt", "new"}
MqVars  == {"q", "nq", "new"}

ASSUME ServerAssumption ==
  /\ IsFiniteSet(Services) /\ IsFiniteSet(Threads)
  /\ Boot \subseteq Services
  /\ SelfStart \subseteq Boot
  /\ Mute \subseteq Services
  /\ Workers \cap Externals = {}
  /\ None \notin Services
  /\ MonitorExit \in Services \cup {None}
  /\ Weight \in [Workers -> -1..3]
  /\ MaxCalls \in Nat

VARIABLES
  slot,       \* contexts in the handle table
  mem,        \* memory of each context: "none", "alive", "freed"
  ref,        \* ctx->ref
  init,       \* ctx->init
  total,      \* G_NODE.total
  mq,         \* the messages of each message_queue, oldest first
  qmem,       \* memory of each message_queue: "none", "alive", "freed"
  in_global,  \* q->in_global
  release,    \* q->release
  gq,         \* the global queue
  pc,         \* where each thread is
  hold, own,  \* the references and queues the threads hold, see above
  rel,        \* which of its CtxVars thread t is about to release
  ret,        \* where t goes on after a call
  dying,      \* the context t is running delete_context on
  dst, msg,   \* destination and message of the skynet_send t is in
  victim,     \* handle t is about to retire
  left,       \* messages t will still dispatch before it lets go of q
  calls       \* number of those calls so far

ctxVars   == <<mem, ref, init, total>>
mqVars    == <<mq, qmem, in_global, release, gq>>
callVars  == <<rel, ret, dying, dst, msg, victim, left, calls>>
vars      == <<slot, ctxVars, mqVars, pc, hold, own, callVars>>

Locations == {"fetch", "grab", "mqrel", "drop", "pop", "callback", "requeue",
              "putback", "send", "push", "retire", "release", "mark", "free",
              "init", "l_init", "l_push", "l_retire", "idle"}

Kinds == {"msg", "error", "exit"}
NoMsg == [src |-> None, id |-> 0, kind |-> "msg"]
Message == [src : Services \cup {None}, id : 0..MaxCalls, kind : Kinds]

(* The sequences that hold every member of S once.                         *)
Orders(S) ==
  {f \in [1..Cardinality(S) -> S] :
     /\ \A i, j \in 1..Cardinality(S) : f[i] = f[j] => i = j
     /\ \A s \in S : \E i \in 1..Cardinality(S) : f[i] = s}

FirstMq ==
  [s \in Services |-> IF s \in SelfStart THEN <<[NoMsg EXCEPT !.src = s]>> ELSE << >>]

Init ==
  /\ slot = Boot
  /\ mem = [s \in Services |-> IF s \in Boot THEN "alive" ELSE "none"]
  /\ ref = [s \in Services |-> IF s \in Boot THEN 1 ELSE 0]
  /\ init = [s \in Services |-> s \in Boot]
  /\ total = Cardinality(Boot)
  /\ mq = FirstMq
  /\ qmem = [s \in Services |-> IF s \in Boot THEN "alive" ELSE "none"]
  /\ in_global = [s \in Services |-> IF s \in Boot THEN 1 ELSE 0]
  /\ release = [s \in Services |-> 0]
  /\ gq \in Orders(Boot)
  /\ pc = [t \in Threads |-> IF t \in Workers THEN "fetch" ELSE "idle"]
  /\ hold = [x \in Threads \X CtxVars |-> None]
  /\ own = [x \in Threads \X MqVars |-> None]
  /\ rel = [t \in Threads |-> "tgt"]
  /\ ret = [t \in Threads |-> "idle"]
  /\ dying = [t \in Threads |-> None]
  /\ dst = [t \in Threads |-> None]
  /\ msg = [t \in Threads |-> NoMsg]
  /\ victim = [t \in Threads |-> None]
  /\ left = [t \in Threads |-> 0]
  /\ calls = 0

-----------------------------------------------------------------------------
(* Building blocks.                                                        *)

Goto(t, l) == pc' = [pc EXCEPT ![t] = l]

Return(t) ==
  /\ Goto(t, ret[t])
  /\ ret' = [ret EXCEPT ![t] = "idle"]

SetHold(t, v, s) == hold' = [hold EXCEPT ![<<t, v>>] = s]
SetOwn(t, v, s)  == own' = [own EXCEPT ![<<t, v>>] = s]

(* skynet_context_release(v), to continue at l: the reference count is     *)
(* decremented in the next step.                                           *)
CallRelease(t, v, l) ==
  /\ Goto(t, "release")
  /\ rel' = [rel EXCEPT ![t] = v]
  /\ ret' = [ret EXCEPT ![t] = l]

(* skynet_send(m) to d, to continue at l.                                  *)
CallSend(t, d, m, l) ==
  /\ Goto(t, "send")
  /\ dst' = [dst EXCEPT ![t] = d]
  /\ msg' = [msg EXCEPT ![t] = m]
  /\ ret' = [ret EXCEPT ![t] = l]

(* The service whose code t is running: one it dispatches to, or one it    *)
(* initialises.                                                            *)
Running(t) == IF own[<<t, "new">>] # None THEN own[<<t, "new">>]
              ELSE own[<<t, "q">>]

-----------------------------------------------------------------------------
(* skynet_context_message_dispatch: taking a queue and its context.        *)

skynet_globalmq_pop(t) ==
  /\ pc[t] = "fetch"
  /\ gq # << >>
  /\ gq' = Tail(gq)
  /\ SetOwn(t, "q", Head(gq))
  /\ Goto(t, "grab")
  /\ UNCHANGED <<slot, ctxVars, mq, qmem, in_global, release, hold, callVars>>

DispatchGrab(t) ==
  LET s == own[<<t, "q">>] IN
  /\ pc[t] = "grab"
  /\ s \in slot
  /\ ref' = [ref EXCEPT ![s] = @ + 1]
  /\ SetHold(t, "ctx", s)
  /\ left' = [left EXCEPT ![t] = 0]
  /\ Goto(t, "pop")
  /\ UNCHANGED <<slot, mem, init, total, mqVars, own,
                 rel, ret, dying, dst, msg, victim, calls>>

DispatchGone(t) ==
  /\ pc[t] = "grab"
  /\ own[<<t, "q">>] \notin slot
  /\ Goto(t, "mqrel")
  /\ UNCHANGED <<slot, ctxVars, mqVars, hold, own, callVars>>

(* n >>= weight, with n the length after the first pop; a weight of -1     *)
(* leaves n at 1.  left counts the iterations after the current one.       *)
Batch(t, len) ==
  LET w == Weight[t]
      n == CASE w = -1 -> 1
             [] w = 0  -> len
             [] w = 1  -> len \div 2
             [] w = 2  -> len \div 4
             [] w = 3  -> len \div 8
  IN  IF n > 0 THEN n - 1 ELSE 0

(* One iteration of the loop up to the call of the callback.  The first    *)
(* pop of a batch is the one made with left = 0.                           *)
PopMessage(t) ==
  LET s == own[<<t, "q">>] IN
  /\ pc[t] = "pop"
  /\ mq[s] # << >>
  /\ mq' = [mq EXCEPT ![s] = Tail(@)]
  /\ left' = [left EXCEPT ![t] =
                IF @ = 0 THEN Batch(t, Len(mq[s]) - 1) ELSE @ - 1]
  /\ Goto(t, "callback")
  /\ UNCHANGED <<slot, ctxVars, qmem, in_global, release, gq, hold, own,
                 rel, ret, dying, dst, msg, victim, calls>>

(* Variant: an empty queue is given up without clearing in_global.         *)
PopEmpty_KeepFlag(t) ==
  /\ pc[t] = "pop"
  /\ mq[own[<<t, "q">>]] = << >>
  /\ SetOwn(t, "q", None)
  /\ CallRelease(t, "ctx", "fetch")
  /\ UNCHANGED <<slot, ctxVars, mqVars, hold,
                 dying, dst, msg, victim, left, calls>>

(* An empty queue is given up: skynet_mq_pop clears in_global under the    *)
(* queue's lock.                                                           *)
PopEmpty(t) ==
  LET s == own[<<t, "q">>] IN
  /\ pc[t] = "pop"
  /\ mq[s] = << >>
  /\ in_global' = [in_global EXCEPT ![s] = 0]
  /\ SetOwn(t, "q", None)
  /\ CallRelease(t, "ctx", "fetch")
  /\ UNCHANGED <<slot, ctxVars, mq, qmem, release, gq, hold,
                 dying, dst, msg, victim, left, calls>>

(* The callback returned (or there is none, and the message was freed).    *)
CallbackReturns(t) ==
  /\ pc[t] = "callback"
  /\ Goto(t, IF left[t] > 0 THEN "pop" ELSE "requeue")
  /\ UNCHANGED <<slot, ctxVars, mqVars, hold, own, callVars>>

(* The end of a batch: look for another queue.  If there is none, keep q   *)
(* and dispatch it again; otherwise put q back first.                      *)
KeepQueue(t) ==
  /\ pc[t] = "requeue"
  /\ gq = << >>
  /\ CallRelease(t, "ctx", "grab")
  /\ UNCHANGED <<slot, ctxVars, mqVars, hold, own,
                 dying, dst, msg, victim, left, calls>>

PopNext(t) ==
  /\ pc[t] = "requeue"
  /\ gq # << >>
  /\ gq' = Tail(gq)
  /\ SetOwn(t, "nq", Head(gq))
  /\ Goto(t, "putback")
  /\ UNCHANGED <<slot, ctxVars, mq, qmem, in_global, release, hold, callVars>>

PutBack(t) ==
  /\ pc[t] = "putback"
  /\ gq' = Append(gq, own[<<t, "q">>])
  /\ own' = [own EXCEPT ![<<t, "q">>] = own[<<t, "nq">>], ![<<t, "nq">>] = None]
  /\ CallRelease(t, "ctx", "grab")
  /\ UNCHANGED <<slot, ctxVars, mq, qmem, in_global, release, hold,
                 dying, dst, msg, victim, left, calls>>

-----------------------------------------------------------------------------
(* skynet_context_release and delete_context.                              *)

ReleaseRef(t) ==
  LET x == <<t, rel[t]>> IN
  /\ pc[t] = "release"
  /\ ref' = [ref EXCEPT ![hold[x]] = @ - 1]
  /\ hold' = [hold EXCEPT ![x] = None]
  /\ rel' = [rel EXCEPT ![t] = "tgt"]
  /\ UNCHANGED <<slot, mem, init, total, mqVars, own,
                 dst, msg, victim, left, calls>>

KeepContext(t) ==
  /\ ReleaseRef(t)
  /\ ref[hold[<<t, rel[t]>>]] # 1
  /\ Return(t)
  /\ UNCHANGED dying

(* Variant: delete_context when one reference is left.                     *)
LastReference_TooEarly(t) ==
  /\ ReleaseRef(t)
  /\ ref[hold[<<t, rel[t]>>]] \in {1, 2}
  /\ dying' = [dying EXCEPT ![t] = hold[<<t, rel[t]>>]]
  /\ ret' = [ret EXCEPT ![t] = IF @ = "l_init" THEN "l_push" ELSE @]
  /\ Goto(t, "mark")

(* skynet_context_new does not set init of a context it has deleted.       *)
LastReference(t) ==
  /\ ReleaseRef(t)
  /\ ref[hold[<<t, rel[t]>>]] = 1
  /\ dying' = [dying EXCEPT ![t] = hold[<<t, rel[t]>>]]
  /\ ret' = [ret EXCEPT ![t] = IF @ = "l_init" THEN "l_push" ELSE @]
  /\ Goto(t, "mark")

(* delete_context: the queue is told that its context is gone.  A queue    *)
(* nobody owns goes to the global queue, so that a worker will drop it.    *)
skynet_mq_mark_release(t) ==
  LET s == dying[t] IN
  /\ pc[t] = "mark"
  /\ release' = [release EXCEPT ![s] = 1]
  /\ gq' = IF in_global[s] = 1 THEN gq ELSE Append(gq, s)
  /\ Goto(t, "free")
  /\ UNCHANGED <<slot, ctxVars, mq, qmem, in_global, hold, own, callVars>>

FreeContext(t) ==
  LET s == dying[t] IN
  /\ pc[t] = "free"
  /\ mem' = [mem EXCEPT ![s] = "freed"]
  /\ total' = total - 1
  /\ dying' = [dying EXCEPT ![t] = None]
  /\ Return(t)
  /\ UNCHANGED <<slot, ref, init, mqVars, hold, own,
                 rel, dst, msg, victim, left, calls>>

-----------------------------------------------------------------------------
(* skynet_send and skynet_context_push.                                    *)

(* Variant: the context is found by its handle without skynet_context_grab.*)
PushGrab_NoRef(t) ==
  /\ pc[t] = "send"
  /\ dst[t] \in slot
  /\ SetHold(t, "tgt", dst[t])
  /\ dst' = [dst EXCEPT ![t] = None]
  /\ Goto(t, "push")
  /\ UNCHANGED <<slot, ctxVars, mqVars, own,
                 rel, ret, dying, msg, victim, left, calls>>

PushGrab(t) ==
  LET s == dst[t] IN
  /\ pc[t] = "send"
  /\ s \in slot
  /\ ref' = [ref EXCEPT ![s] = @ + 1]
  /\ SetHold(t, "tgt", s)
  /\ dst' = [dst EXCEPT ![t] = None]
  /\ Goto(t, "push")
  /\ UNCHANGED <<slot, mem, init, total, mqVars, own,
                 rel, ret, dying, msg, victim, left, calls>>

(* skynet_context_push returns -1 and skynet_send frees the message.       *)
PushGone(t) ==
  /\ pc[t] = "send"
  /\ dst[t] \notin slot
  /\ dst' = [dst EXCEPT ![t] = None]
  /\ msg' = [msg EXCEPT ![t] = NoMsg]
  /\ Return(t)
  /\ UNCHANGED <<slot, ctxVars, mqVars, hold, own,
                 rel, dying, victim, left, calls>>

(* Variants: the newest message first; the queue is pushed and the flag    *)
(* not set.                                                                *)
skynet_mq_push_Front(t) ==
  LET s == hold[<<t, "tgt">>] IN
  /\ pc[t] = "push"
  /\ mq' = [mq EXCEPT ![s] = <<msg[t]>> \o @]
  /\ in_global' = [in_global EXCEPT ![s] = 1]
  /\ gq' = IF in_global[s] = 1 THEN gq ELSE Append(gq, s)
  /\ msg' = [msg EXCEPT ![t] = NoMsg]
  /\ CallRelease(t, "tgt", ret[t])
  /\ UNCHANGED <<slot, ctxVars, qmem, release, hold, own,
                 dying, dst, victim, left, calls>>

skynet_mq_push_NoFlag(t) ==
  LET s == hold[<<t, "tgt">>] IN
  /\ pc[t] = "push"
  /\ mq' = [mq EXCEPT ![s] = Append(@, msg[t])]
  /\ gq' = IF in_global[s] = 1 THEN gq ELSE Append(gq, s)
  /\ msg' = [msg EXCEPT ![t] = NoMsg]
  /\ CallRelease(t, "tgt", ret[t])
  /\ UNCHANGED <<slot, ctxVars, qmem, in_global, release, hold, own,
                 dying, dst, victim, left, calls>>

(* The queue goes to the global queue unless it is there already, or with  *)
(* a thread that will put it there.                                        *)
skynet_mq_push(t) ==
  LET s == hold[<<t, "tgt">>] IN
  /\ pc[t] = "push"
  /\ mq' = [mq EXCEPT ![s] = Append(@, msg[t])]
  /\ in_global' = [in_global EXCEPT ![s] = 1]
  /\ gq' = IF in_global[s] = 1 THEN gq ELSE Append(gq, s)
  /\ msg' = [msg EXCEPT ![t] = NoMsg]
  /\ CallRelease(t, "tgt", ret[t])
  /\ UNCHANGED <<slot, ctxVars, qmem, release, hold, own,
                 dying, dst, victim, left, calls>>

-----------------------------------------------------------------------------
(* skynet_mq_release: a worker found no context for its queue, or a launch *)
(* failed.  A queue whose context still has to be deleted goes back to the *)
(* global queue; else every message is dropped and the queue freed.        *)

DropVar(t) == IF own[<<t, "new">>] # None THEN "new" ELSE "q"
AfterDrop(t) == IF own[<<t, "new">>] # None THEN "callback" ELSE "fetch"

(* Variant: the queue is handed back even if its context is gone.          *)
HandBack_Always(t) ==
  LET v == DropVar(t) IN
  /\ pc[t] = "mqrel"
  /\ gq' = Append(gq, own[<<t, v>>])
  /\ SetOwn(t, v, None)
  /\ Goto(t, AfterDrop(t))
  /\ UNCHANGED <<slot, ctxVars, mq, qmem, in_global, release, hold, callVars>>

HandBack(t) ==
  LET v == DropVar(t) IN
  /\ pc[t] = "mqrel"
  /\ release[own[<<t, v>>]] = 0
  /\ gq' = Append(gq, own[<<t, v>>])
  /\ SetOwn(t, v, None)
  /\ Goto(t, AfterDrop(t))
  /\ UNCHANGED <<slot, ctxVars, mq, qmem, in_global, release, hold, callVars>>

(* Variant: the queue is dropped whatever its release flag says.           *)
StartDrop_Unmarked(t) ==
  /\ pc[t] = "mqrel"
  /\ Goto(t, "drop")
  /\ UNCHANGED <<slot, ctxVars, mqVars, hold, own, callVars>>

StartDrop(t) ==
  /\ pc[t] = "mqrel"
  /\ release[own[<<t, DropVar(t)>>]] = 1
  /\ Goto(t, "drop")
  /\ UNCHANGED <<slot, ctxVars, mqVars, hold, own, callVars>>

(* _drop_queue with drop_message: the source of each message gets an error *)
(* message; skynet_send to destination 0 does nothing.                     *)
DropMessage(t) ==
  LET s == own[<<t, DropVar(t)>>]
      m == Head(mq[s])
  IN
  /\ pc[t] = "drop"
  /\ mq[s] # << >>
  /\ mq' = [mq EXCEPT ![s] = Tail(@)]
  /\ \/ /\ m.src = None
        /\ UNCHANGED <<pc, dst, msg, ret>>
     \/ /\ m.src # None
        /\ CallSend(t, m.src, [src |-> s, id |-> m.id, kind |-> "error"], "drop")
  /\ UNCHANGED <<slot, ctxVars, qmem, in_global, release, gq, hold, own,
                 rel, dying, victim, left, calls>>

(* Variant: the queue is freed with messages in it.                        *)
FreeQueue_Undropped(t) ==
  LET s == own[<<t, DropVar(t)>>] IN
  /\ pc[t] = "drop"
  /\ in_global' = [in_global EXCEPT ![s] = 0]
  /\ qmem' = [qmem EXCEPT ![s] = "freed"]
  /\ SetOwn(t, DropVar(t), None)
  /\ Goto(t, AfterDrop(t))
  /\ UNCHANGED <<slot, ctxVars, mq, release, gq, hold, callVars>>

FreeQueue(t) ==
  LET s == own[<<t, DropVar(t)>>] IN
  /\ pc[t] = "drop"
  /\ mq[s] = << >>
  /\ in_global' = [in_global EXCEPT ![s] = 0]
  /\ qmem' = [qmem EXCEPT ![s] = "freed"]
  /\ SetOwn(t, DropVar(t), None)
  /\ Goto(t, AfterDrop(t))
  /\ UNCHANGED <<slot, ctxVars, mq, release, gq, hold, callVars>>

-----------------------------------------------------------------------------
(* What a callback, or the init function of a module, may do.  External    *)
(* threads only send: the timer's and the socket server's messages have    *)
(* source 0.                                                               *)

CanCall(t) == pc[t] \in {"callback", "init"} /\ Running(t) \notin Mute

CountCall ==
  /\ calls < MaxCalls
  /\ calls' = calls + 1

Send(t, d) ==
  /\ CanCall(t) \/ pc[t] = "idle"
  /\ CountCall
  /\ CallSend(t, d, [src |-> IF pc[t] = "idle" THEN None ELSE Running(t),
                     id |-> calls + 1, kind |-> "msg"], pc[t])
  /\ UNCHANGED <<slot, ctxVars, mqVars, hold, own, rel, dying, victim, left>>

(* cmd_logon, cmd_logoff, cmd_signal: grab another context by its handle,  *)
(* use it, release it.  A handle without a context changes nothing.        *)
Borrow(t, s) ==
  /\ CanCall(t)
  /\ CountCall
  /\ s \in slot
  /\ ref' = [ref EXCEPT ![s] = @ + 1]
  /\ SetHold(t, "tgt", s)
  /\ CallRelease(t, "tgt", pc[t])
  /\ UNCHANGED <<slot, mem, init, total, mqVars, own,
                 dying, dst, msg, victim, left>>

(* handle_exit, for cmd_exit and cmd_kill: tell the monitor, then retire.  *)
handle_exit(t, s) ==
  /\ CanCall(t)
  /\ CountCall
  /\ mem[s] # "none"
  /\ victim' = [victim EXCEPT ![t] = s]
  /\ \/ /\ MonitorExit = None
        /\ Goto(t, "retire")
        /\ UNCHANGED <<dst, msg, ret>>
     \/ /\ MonitorExit # None
        /\ CallSend(t, MonitorExit,
                    [src |-> s, id |-> calls + 1, kind |-> "exit"], "retire")
  /\ UNCHANGED <<slot, ctxVars, mqVars, hold, own, rel, dying, left>>

(* skynet_handle_retire(s): the reference of the handle table passes to    *)
(* ctx, which is then released.  The names of the handle are               *)
(* SkynetHandle's business.                                                *)
Retire(t, s, l) ==
  /\ s \in slot
  /\ slot' = slot \ {s}
  /\ SetHold(t, "tgt", s)
  /\ CallRelease(t, "tgt", l)
  /\ UNCHANGED <<ctxVars, mqVars, own, dying, dst, msg, left, calls>>

NothingToRetire(t, s, l) ==
  /\ s \notin slot
  /\ Goto(t, l)
  /\ UNCHANGED <<slot, ctxVars, mqVars, hold, own,
                 rel, ret, dying, dst, msg, left, calls>>

Home(t) == IF own[<<t, "new">>] # None THEN "init" ELSE "callback"

RetireVictim(t) ==
  /\ pc[t] = "retire"
  /\ Retire(t, victim[t], Home(t)) \/ NothingToRetire(t, victim[t], Home(t))
  /\ victim' = [victim EXCEPT ![t] = None]

-----------------------------------------------------------------------------
(* skynet_context_new.  Nobody knows the handle before it is returned, so  *)
(* skynet_handle_register, skynet_mq_create and context_inc are one step.  *)

skynet_context_new(t, s) ==
  /\ CanCall(t)
  /\ pc[t] = "callback"
  /\ mem[s] = "none"
  /\ slot' = slot \cup {s}
  /\ mem' = [mem EXCEPT ![s] = "alive"]
  /\ ref' = [ref EXCEPT ![s] = 2]
  /\ total' = total + 1
  /\ qmem' = [qmem EXCEPT ![s] = "alive"]
  /\ in_global' = [in_global EXCEPT ![s] = 1]
  /\ SetHold(t, "new", s)
  /\ SetOwn(t, "new", s)
  /\ Goto(t, "init")
  /\ UNCHANGED <<init, mq, release, gq, callVars>>

(* The init function of the module returned 0, or not.                     *)
InitSucceeds(t) ==
  /\ pc[t] = "init"
  /\ CallRelease(t, "new", "l_init")
  /\ UNCHANGED <<slot, ctxVars, mqVars, hold, own,
                 dying, dst, msg, victim, left, calls>>

InitFails(t) ==
  /\ pc[t] = "init"
  /\ CallRelease(t, "new", "l_retire")
  /\ UNCHANGED <<slot, ctxVars, mqVars, hold, own,
                 dying, dst, msg, victim, left, calls>>

(* Variant: the queue is published and init never set.                     *)
SetInit_Skipped(t) ==
  /\ pc[t] = "l_init"
  /\ Goto(t, "l_push")
  /\ UNCHANGED <<slot, ctxVars, mqVars, hold, own, callVars>>

(* ctx->init = true.  No reference protects ctx any more: if the service   *)
(* has been killed meanwhile the write goes to freed memory.               *)
SetInit(t) ==
  LET s == own[<<t, "new">>] IN
  /\ pc[t] = "l_init"
  /\ init' = IF mem[s] = "alive" THEN [init EXCEPT ![s] = TRUE] ELSE init
  /\ Goto(t, "l_push")
  /\ UNCHANGED <<slot, mem, ref, total, mqVars, hold, own, callVars>>

PublishQueue(t) ==
  /\ pc[t] = "l_push"
  /\ gq' = Append(gq, own[<<t, "new">>])
  /\ SetOwn(t, "new", None)
  /\ Goto(t, "callback")
  /\ UNCHANGED <<slot, ctxVars, mq, qmem, in_global, release, hold, callVars>>

RetireFailed(t) ==
  /\ pc[t] = "l_retire"
  /\ \/ Retire(t, own[<<t, "new">>], "mqrel")
     \/ NothingToRetire(t, own[<<t, "new">>], "mqrel")
  /\ UNCHANGED victim

-----------------------------------------------------------------------------
(* The part of a thread's code it cannot put off: everything but the       *)
(* decisions of a callback (and of the external threads) what to do next.  *)
Run(t) ==
  \/ skynet_globalmq_pop(t) \/ DispatchGrab(t) \/ DispatchGone(t)
  \/ PopMessage(t) \/ PopEmpty(t) \/ CallbackReturns(t)
  \/ KeepQueue(t) \/ PopNext(t) \/ PutBack(t)
  \/ KeepContext(t) \/ LastReference(t)
  \/ skynet_mq_mark_release(t) \/ FreeContext(t)
  \/ PushGrab(t) \/ PushGone(t) \/ skynet_mq_push(t)
  \/ HandBack(t) \/ StartDrop(t) \/ DropMessage(t) \/ FreeQueue(t)
  \/ RetireVictim(t)
  \/ InitSucceeds(t) \/ InitFails(t) \/ SetInit(t) \/ PublishQueue(t)
  \/ RetireFailed(t)

Call(t) ==
  \E s \in Services :
    Send(t, s) \/ Borrow(t, s) \/ handle_exit(t, s) \/ skynet_context_new(t, s)

Next == \E t \in Threads : Run(t) \/ Call(t)

Spec == Init /\ [][Next]_vars

(* Threads are scheduled, callbacks and init functions return.             *)
FairSpec == Spec /\ \A t \in Threads : WF_vars(Run(t))

-----------------------------------------------------------------------------
(* The types of what contexts, queues and threads hold; left, the rest of  *)
(* a batch (n of skynet_context_message_dispatch), is never negative.      *)
TypeOK ==
  /\ slot \in SUBSET Services
  /\ mem \in [Services -> {"none", "alive", "freed"}]
  /\ ref \in [Services -> Int]
  /\ init \in [Services -> BOOLEAN]
  /\ total \in Int
  /\ mq \in [Services -> Seq(Message)]
  /\ qmem \in [Services -> {"none", "alive", "freed"}]
  /\ in_global \in [Services -> {0, 1}]
  /\ release \in [Services -> {0, 1}]
  /\ gq \in Seq(Services)
  /\ pc \in [Threads -> Locations]
  /\ hold \in [Threads \X CtxVars -> Services \cup {None}]
  /\ own \in [Threads \X MqVars -> Services \cup {None}]
  /\ rel \in [Threads -> CtxVars]
  /\ ret \in [Threads -> Locations]
  /\ dying \in [Threads -> Services \cup {None}]
  /\ dst \in [Threads -> Services \cup {None}]
  /\ msg \in [Threads -> Message]
  /\ victim \in [Threads -> Services \cup {None}]
  /\ left \in [Threads -> Nat]
  /\ calls \in 0..MaxCalls

(* The C variables that hold a reference to the context of s.              *)
Holders(s) == {x \in Threads \X CtxVars : hold[x] = s}

(* ctx->ref is the handle table's reference plus one for every C variable  *)
(* that was given one.  A grab or a release too many on any of the paths   *)
(* (failed launch, kill during init, kill of oneself...) breaks it.        *)
RefCount ==
  \A s \in Services :
    ref[s] = Cardinality(Holders(s)) + IF s \in slot THEN 1 ELSE 0

(* What is reached through a reference has not been freed: neither the     *)
(* context nor its queue, and the queue has not been given up for dropping *)
(* (skynet_mq_push into such a queue would lose the message, or put the    *)
(* queue into the global queue twice).                                     *)
HeldIsUsable ==
  \A s \in Services :
    s \in slot \/ Holders(s) # {} =>
      mem[s] = "alive" /\ qmem[s] = "alive" /\ release[s] = 0

(* A context is deleted by one thread only, once nobody can reach it, and  *)
(* skynet_mq_mark_release finds release = 0, as it asserts.                *)
DeletedOnce ==
  \A t \in Threads : dying[t] # None =>
    LET s == dying[t] IN
    /\ ref[s] = 0 /\ mem[s] = "alive"
    /\ pc[t] = "mark" => release[s] = 0 /\ qmem[s] = "alive"
    /\ \A u \in Threads \ {t} : dying[u] # s

(* The comment on in_global: "1 means mq is in global mq, or the message   *)
(* is dispatching."  A queue is in one place at most, in the global queue  *)
(* or with one thread, and it is somewhere exactly when in_global or       *)
(* release is set and it is not freed.  (skynet_globalmq_push asserts that *)
(* the queue is not linked already.)                                       *)
InOnePlace ==
  /\ \A x, y \in Threads \X MqVars : own[x] # None /\ own[x] = own[y] => x = y
  /\ \A i, j \in DOMAIN gq : gq[i] = gq[j] => i = j
  /\ \A x \in Threads \X MqVars : \A i \in DOMAIN gq : own[x] # gq[i]

Placed(s) ==
  (\E x \in Threads \X MqVars : own[x] = s) \/ (\E i \in DOMAIN gq : gq[i] = s)

Flagged(s) == qmem[s] = "alive" /\ (in_global[s] = 1 \/ release[s] = 1)

PlacedIffFlagged == \A s \in Services : Placed(s) <=> Flagged(s)

QueueInOnePlace == InOnePlace /\ PlacedIffFlagged

(* A thread is inside the callback of the context it dispatches to.        *)
InCallback(t) ==
  /\ hold[<<t, "ctx">>] # None
  /\ pc[t] \notin {"pop", "requeue", "putback"}
  /\ ~(pc[t] = "release" /\ rel[t] = "ctx")

(* The services whose code t runs: callbacks and init functions.           *)
Executing(t) ==
  (IF InCallback(t) THEN {hold[<<t, "ctx">>]} ELSE {})
    \cup ({hold[<<t, "new">>]} \ {None})

(* CHECKCALLING_BEGIN asserts it: a service is never run by two threads at *)
(* the same time, neither its callback nor its init function; and the      *)
(* callback is only called after init was set (assert(ctx->init)).         *)
ExclusiveDispatch ==
  /\ \A t, u \in Threads : t # u => Executing(t) \cap Executing(u) = {}
  /\ \A t \in Threads : InCallback(t) =>
       /\ init[hold[<<t, "ctx">>]]
       /\ hold[<<t, "ctx">>] # hold[<<t, "new">>]
       /\ own[<<t, "q">>] = hold[<<t, "ctx">>]

(* Messages a service sends to another wait there in the order sent.       *)
PerSenderOrder ==
  \A s \in Services : \A i, j \in DOMAIN mq[s] :
    /\ i < j
    /\ mq[s][i].kind = "msg" /\ mq[s][j].kind = "msg"
    /\ mq[s][i].src # None /\ mq[s][i].src = mq[s][j].src
    => mq[s][i].id < mq[s][j].id

-----------------------------------------------------------------------------
(* A message that got into a queue comes out of it: it is dispatched, or   *)
(* dropped and reported, even if the service is killed with messages       *)
(* waiting.                                                                *)
EveryMessageHandled ==
  \A s \in Services : \A n \in 1..MaxCalls :
    (\E i \in DOMAIN mq[s] : mq[s][i].id = n)
      ~> (\A i \in DOMAIN mq[s] : mq[s][i].id # n)

(* A retired context is deleted and its queue freed.                       *)
RetiredIsFreed ==
  \A s \in Services :
    mem[s] = "alive" /\ s \notin slot ~> mem[s] = "freed" /\ qmem[s] = "freed"

-----------------------------------------------------------------------------
(* The mailbox a service sees.                                             *)
Status(s) ==
  CASE mem[s] = "none"   -> "none"
    [] release[s] = 1    -> "closed"
    [] OTHER             -> IF init[s] THEN "up" ELSE "starting"

Actors == INSTANCE ActorSystem WITH
  FirstMail <- FirstMq,
  status    <- [s \in Services |-> Status(s)],
  mail      <- mq,
  running   <- UNION {Executing(t) : t \in Threads}

(* The scheduler keeps the promise of ActorSystem: whatever the threads    *)
(* do, a service sees its own messages one at a time, in the order they    *)
(* were pushed, and none is dropped while it could still be dispatched.    *)
ImplementsActors == Actors!Spec

-----------------------------------------------------------------------------
(* The inductive invariant: what each thread holds at each place of the    *)
(* code, and what that says about contexts and queues.                     *)

Subs == {"send", "push", "release", "mark", "free"}
Tops == Locations \ Subs

(* Thread t is at l, or in a call that returns to l.                       *)
At(t, l) == pc[t] = l \/ (pc[t] \in Subs /\ ret[t] = l)

(* The C variables of t while it is at l, but for the one a call releases. *)
Frame(t, l) ==
  LET C == hold[<<t, "ctx">>]  N  == hold[<<t, "new">>]
      Q == own[<<t, "q">>]     NQ == own[<<t, "nq">>]    NW == own[<<t, "new">>]
  IN
  /\ l \in Tops
  /\ NQ # None <=> l = "putback"
  /\ Q = None <=> l \in {"idle", "fetch"}
  /\ C = IF l \in {"idle", "fetch", "grab"} \/ (l \in {"mqrel", "drop"} /\ NW = None)
         THEN None ELSE Q
  /\ l \in {"idle", "fetch", "grab", "pop", "callback", "requeue", "putback"} => NW = None
  /\ l \in {"init", "l_init", "l_push", "l_retire"} => NW # None
  /\ N = IF l \in {"init", "retire"} THEN NW ELSE None

SendReturns == {"callback", "init", "drop", "idle", "retire"}

LocalInv(t) ==
  LET C == hold[<<t, "ctx">>]  N  == hold[<<t, "new">>]  G == hold[<<t, "tgt">>]
      Q == own[<<t, "q">>]     NQ == own[<<t, "nq">>]    NW == own[<<t, "new">>]
  IN
  /\ pc[t] \in Tops => Frame(t, pc[t])
  /\ pc[t] = "send" => Frame(t, ret[t]) /\ ret[t] \in SendReturns /\ dst[t] # None
  /\ pc[t] = "push" => Frame(t, ret[t]) /\ ret[t] \in SendReturns
  /\ pc[t] = "release" /\ rel[t] = "tgt" =>
       Frame(t, ret[t]) /\ ret[t] \in SendReturns \cup {"mqrel"}
  /\ pc[t] = "release" /\ rel[t] = "ctx" =>
       /\ C # None /\ N = None /\ NW = None /\ NQ = None
       /\ ret[t] \in {"fetch", "grab"} /\ (Q = None <=> ret[t] = "fetch")
  /\ pc[t] = "release" /\ rel[t] = "new" =>
       /\ NW # None /\ N = NW /\ Q # None /\ C = Q /\ NQ = None
       /\ ret[t] \in {"l_init", "l_retire"}
  /\ pc[t] \in {"mark", "free"} => Frame(t, ret[t]) /\ ret[t] # "l_init"
  /\ G # None <=> pc[t] = "push" \/ (pc[t] = "release" /\ rel[t] = "tgt")
  /\ dying[t] # None <=> pc[t] \in {"mark", "free"}
  /\ At(t, "retire") => victim[t] # None
  /\ t \in Externals => At(t, "idle")

Local == \A t \in Threads : LocalInv(t)

(* A queue is only dropped after its context was deleted; a failed launch  *)
(* has retired its handle before it gives its queue away.                  *)
DropOK(t) ==
  /\ At(t, "drop") => release[own[<<t, DropVar(t)>>]] = 1
  /\ At(t, "mqrel") => own[<<t, "new">>] \notin slot
  /\ At(t, "l_push") => own[<<t, "new">>] \notin slot \/ init[own[<<t, "new">>]]

DropsReleased == \A t \in Threads : DropOK(t)

(* A context in the table is initialised, or its launch is under way.      *)
SlotInit ==
  /\ \A s \in slot : init[s] \/ \E t \in Threads : own[<<t, "new">>] = s
  /\ \A t \in Threads : hold[<<t, "ctx">>] # None => init[hold[<<t, "ctx">>]]

Unborn ==
  \A s \in Services :
    /\ mem[s] = "none" => qmem[s] = "none" /\ in_global[s] = 0 /\ release[s] = 0
    /\ qmem[s] = "none" => mem[s] = "none"

Dying ==
  \A t \in Threads : dying[t] # None =>
    LET s == dying[t] IN
    /\ ref[s] = 0 /\ mem[s] = "alive"
    /\ pc[t] = "mark" => release[s] = 0 /\ qmem[s] = "alive"
    /\ pc[t] = "free" => release[s] = 1
    /\ \A u \in Threads \ {t} : dying[u] # s

ServerInv ==
  /\ TypeOK
  /\ Local
  /\ RefCount
  /\ HeldIsUsable
  /\ Dying
  /\ QueueInOnePlace
  /\ DropsReleased
  /\ SlotInit
  /\ Unborn
=============================================================================
