------------------------------- MODULE RWLock -------------------------------
(***************************************************************************)
(* The spinning reader/writer lock of skynet-src/rwlock.h, the one the     *)
(* handle table (skynet_handle.c) and the shared objects of lua-stm.c are  *)
(* guarded with.  Every access to lock->write and lock->read is one        *)
(* sequentially consistent atomic step, as ATOM_* of atomic.h makes it.    *)
(*                                                                         *)
(* atomic.h gives ATOM_CAS two meanings.  Without <stdatomic.h> it is      *)
(* __sync_bool_compare_and_swap, which takes the expected value by value.  *)
(* With <stdatomic.h> (the default build) it is                            *)
(* atomic_compare_exchange_weak on the address of the caller's variable:   *)
(* it may fail spuriously, and when it fails it stores the value it found  *)
(* in that variable.  StdAtomic chooses the branch.                        *)
(***************************************************************************)
EXTENDS Integers, FiniteSets, FiniteSetTheorems, TLAPS

CONSTANTS Threads,    \* threads that use the lock
          Writers,    \* those of them that call rwlock_wlock
          StdAtomic   \* TRUE: ATOM_CAS is atomic_compare_exchange_weak

ASSUME LockAssumption ==
  /\ IsFiniteSet(Threads)
  /\ Writers \subseteq Threads
  /\ StdAtomic \in BOOLEAN

VARIABLES write,  \* lock->write
          read,   \* lock->read
          clear,  \* the local variable clear of rwlock_wlock, per thread
          pc      \* where each thread is

vars == <<write, read, clear, pc>>

Locations == {"idle", "r_spin", "r_inc", "r_check", "r_undo", "r_held",
              "w_cas", "w_drain", "w_held"}

Init ==
  /\ write = 0
  /\ read = 0
  /\ clear = [t \in Threads |-> 0]
  /\ pc = [t \in Threads |-> "idle"]

Goto(t, l) == pc' = [pc EXCEPT ![t] = l]

-----------------------------------------------------------------------------
(* rwlock_rlock and rwlock_runlock *)

rwlock_rlock(t) ==
  /\ pc[t] = "idle"
  /\ Goto(t, "r_spin")
  /\ UNCHANGED <<write, read, clear>>

RSpin(t) ==      \* while (ATOM_LOAD(&lock->write)) {}
  /\ pc[t] = "r_spin"
  /\ write = 0
  /\ Goto(t, "r_inc")
  /\ UNCHANGED <<write, read, clear>>

RInc(t) ==       \* ATOM_FINC(&lock->read)
  /\ pc[t] = "r_inc"
  /\ read' = read + 1
  /\ Goto(t, "r_check")
  /\ UNCHANGED <<write, clear>>

(* Variant: the second look at the flag is left out.                       *)
RCheck_NoSecondLook(t) ==
  /\ pc[t] = "r_check"
  /\ Goto(t, "r_held")
  /\ UNCHANGED <<write, read, clear>>

(* Variant: the reader waits for the writer without backing out.           *)
RCheck_Waits(t) ==
  /\ pc[t] = "r_check"
  /\ pc' = IF write = 0 THEN [pc EXCEPT ![t] = "r_held"] ELSE pc
  /\ UNCHANGED <<write, read, clear>>

RCheck(t) ==     \* if (ATOM_LOAD(&lock->write))
  /\ pc[t] = "r_check"
  /\ Goto(t, IF write = 0 THEN "r_held" ELSE "r_undo")
  /\ UNCHANGED <<write, read, clear>>

RUndo(t) ==      \* ATOM_FDEC(&lock->read) and round the loop again
  /\ pc[t] = "r_undo"
  /\ read' = read - 1
  /\ Goto(t, "r_spin")
  /\ UNCHANGED <<write, clear>>

rwlock_runlock(t) ==
  /\ pc[t] = "r_held"
  /\ read' = read - 1
  /\ Goto(t, "idle")
  /\ UNCHANGED <<write, clear>>

-----------------------------------------------------------------------------
(* rwlock_wlock and rwlock_wunlock *)

rwlock_wlock(t) ==   \* int clear = 0
  /\ pc[t] = "idle"
  /\ t \in Writers
  /\ clear' = [clear EXCEPT ![t] = 0]
  /\ Goto(t, "w_cas")
  /\ UNCHANGED <<write, read>>

(* Variant: test and set are two steps, so the test is not repeated.       *)
CasSucceeds_NotAtomic(t) ==
  /\ pc[t] = "w_cas"
  /\ write' = 1
  /\ Goto(t, "w_drain")
  /\ UNCHANGED <<read, clear>>

CasSucceeds(t) ==    \* ATOM_CAS(&lock->write, clear, 1) returned true
  /\ pc[t] = "w_cas"
  /\ write = clear[t]
  /\ write' = 1
  /\ Goto(t, "w_drain")
  /\ UNCHANGED <<read, clear>>

CasFails(t) ==       \* ... returned false: with stdatomic, clear := write
  /\ pc[t] = "w_cas"
  /\ write # clear[t] \/ StdAtomic
  /\ clear' = IF StdAtomic THEN [clear EXCEPT ![t] = write] ELSE clear
  /\ UNCHANGED <<write, read, pc>>

WDrain(t) ==         \* while (ATOM_LOAD(&lock->read)) {}
  /\ pc[t] = "w_drain"
  /\ read = 0
  /\ Goto(t, "w_held")
  /\ UNCHANGED <<write, read, clear>>

rwlock_wunlock(t) == \* ATOM_STORE(&lock->write, 0)
  /\ pc[t] = "w_held"
  /\ write' = 0
  /\ Goto(t, "idle")
  /\ UNCHANGED <<read, clear>>

-----------------------------------------------------------------------------
(* What a thread does once it has called a function of the lock, and until *)
(* it has left its critical section.                                       *)
Step(t) ==
  \/ RSpin(t) \/ RInc(t) \/ RCheck(t) \/ RUndo(t) \/ rwlock_runlock(t)
  \/ CasSucceeds(t) \/ CasFails(t) \/ WDrain(t) \/ rwlock_wunlock(t)

Call(t) == rwlock_rlock(t) \/ rwlock_wlock(t)

Next == \E t \in Threads : Call(t) \/ Step(t)

Spec == Init /\ [][Next]_vars

(* A thread the kernel keeps scheduling goes on; nobody has to call.       *)
FairSpec == Spec /\ \A t \in Threads : WF_vars(Step(t))

-----------------------------------------------------------------------------
(* The types of the lock's two fields and of the threads' variables; only  *)
(* Writers are in rwlock_wlock.                                            *)
TypeOK ==
  /\ write \in {0, 1}
  /\ read \in Nat
  /\ clear \in [Threads -> {0, 1}]
  /\ pc \in [Threads -> Locations]
  /\ \A t \in Threads : pc[t] \in {"w_cas", "w_drain", "w_held"} => t \in Writers

(* The threads whose increment of lock->read is in force.                  *)
Counted == {t \in Threads : pc[t] \in {"r_check", "r_undo", "r_held"}}

(* rwlock_wlock gives the caller the table to itself: while a thread is    *)
(* between rwlock_wlock and rwlock_wunlock no other one is inside a read   *)
(* or a write section.  skynet_handle_register and _retire rely on it when *)
(* they replace the slot array other threads are about to read.            *)
MutualExclusion ==
  \A t, u \in Threads :
    pc[t] = "w_held" /\ t # u => pc[u] \notin {"w_held", "r_held"}

(* Only one writer at a time waits for the readers to leave.  A second one *)
(* would let rwlock_wunlock of the first clear the flag under its feet.    *)
OneWriterPastTheFlag ==
  \A t, u \in Threads :
    pc[t] \in {"w_drain", "w_held"} /\ pc[u] \in {"w_drain", "w_held"} => t = u

(* No increment of lock->read is forgotten and none is undone twice: the   *)
(* back-out path of rwlock_rlock balances.                                 *)
ReadersCounted == read = Cardinality(Counted)

(* A writer that has raised the flag gets in: new readers see it and turn  *)
(* round, the readers inside leave.                                        *)
WriterGetsIn == \A t \in Writers : pc[t] = "w_drain" ~> pc[t] = "w_held"

(* What the proof of MutualExclusion needs besides the properties above:   *)
(* the flag is up exactly while a writer is past its CAS, and a failing    *)
(* CAS has not turned the expected value into "locked".                    *)
FlagIsUp ==
  write = 1 <=> \E t \in Threads : pc[t] \in {"w_drain", "w_held"}

ExpectsClear == \A t \in Threads : pc[t] = "w_cas" => clear[t] = 0

NoReaderUnderWriter ==
  \A t, u \in Threads : pc[t] = "w_held" => pc[u] # "r_held"

(* The inductive invariant.  It needs a CAS that leaves clear alone, or a  *)
(* single writer, whose CAS can only fail spuriously.                      *)
LockInv ==
  /\ TypeOK
  /\ ReadersCounted
  /\ FlagIsUp
  /\ ExpectsClear
  /\ OneWriterPastTheFlag
  /\ NoReaderUnderWriter

SafeCas == ~StdAtomic \/ \A t, u \in Writers : t = u

-----------------------------------------------------------------------------
(* Proof that the lock excludes, for any number of threads, when its CAS   *)
(* leaves the caller's expected value alone or only one thread writes      *)
(* (SafeCas).  The build with <stdatomic.h> and two writers is outside     *)
(* that hypothesis, and TLC shows it does not exclude.                     *)

(* The set of counted readers is finite, before and after a step.          *)
LEMMA CountedFinite == IsFiniteSet(Counted) /\ IsFiniteSet(Counted')
  <1>1. Counted \in SUBSET Threads /\ Counted' \in SUBSET Threads
    BY DEF Counted
  <1> QED BY <1>1, FS_Subset, LockAssumption

(* A thread that starts to count adds one, one that stops takes one off,   *)
(* any other move leaves the number of counted readers as it is.           *)
LEMMA CountedMoves ==
  ASSUME TypeOK, NEW t \in Threads, NEW l \in Locations, Goto(t, l)
  PROVE  LET C == {"r_check", "r_undo", "r_held"} IN
         /\ pc[t] \notin C /\ l \in C
              => Cardinality(Counted') = Cardinality(Counted) + 1
         /\ pc[t] \in C /\ l \notin C
              => Cardinality(Counted') = Cardinality(Counted) - 1
         /\ (pc[t] \in C <=> l \in C)
              => Cardinality(Counted') = Cardinality(Counted)
  <1> DEFINE C == {"r_check", "r_undo", "r_held"}
  <1>0. \A u \in Threads : pc'[u] = IF u = t THEN l ELSE pc[u]
    BY DEF Goto, TypeOK
  <1>1. CASE pc[t] \notin C /\ l \in C
    <2>1. Counted' = Counted \cup {t} /\ t \notin Counted
      BY <1>0, <1>1 DEF Counted
    <2> QED BY <2>1, <1>1, CountedFinite, FS_AddElement
  <1>2. CASE pc[t] \in C /\ l \notin C
    <2>1. Counted' = Counted \ {t} /\ t \in Counted
      BY <1>0, <1>2 DEF Counted
    <2> QED BY <2>1, <1>2, CountedFinite, FS_RemoveElement
  <1>3. CASE pc[t] \in C <=> l \in C
    <2>1. Counted' = Counted BY <1>0, <1>3 DEF Counted
    <2> QED BY <2>1, <1>3
  <1> QED BY <1>1, <1>2, <1>3

(* A reader inside shows in lock->read.                                    *)
LEMMA ReadZero ==
  ASSUME ReadersCounted, read = 0
  PROVE  \A t \in Threads : pc[t] # "r_held"
  <1>1. Counted = {} BY CountedFinite, FS_EmptySet DEF ReadersCounted
  <1> QED BY <1>1 DEF Counted

(* A free lock.                                                            *)
LEMMA InitInv == Init => LockInv
  <1> SUFFICES ASSUME Init PROVE LockInv OBVIOUS
  <1>1. Counted = {} BY DEF Init, Counted
  <1>2. ReadersCounted BY <1>1, FS_EmptySet DEF Init, ReadersCounted
  <1>3. TypeOK BY DEF Init, TypeOK, Locations
  <1> QED BY <1>2, <1>3 DEF Init, LockInv, FlagIsUp, ExpectsClear,
       OneWriterPastTheFlag, NoReaderUnderWriter

(* Every step of the lock's functions preserves LockInv.                   *)
LEMMA StepInv ==
  ASSUME SafeCas, LockInv, [Next]_vars
  PROVE  LockInv'
  <1> USE LockAssumption
  <1>1. CASE UNCHANGED vars
    BY <1>1 DEF LockInv, TypeOK, ReadersCounted, FlagIsUp, ExpectsClear,
       OneWriterPastTheFlag, NoReaderUnderWriter, Counted, vars
  <1>2. ASSUME NEW t \in Threads, Call(t) \/ Step(t)
        PROVE  LockInv'
    <2> USE <1>2
    <2>a. TypeOK /\ ReadersCounted BY DEF LockInv
    <2>1. CASE rwlock_rlock(t)
      <3>1. Goto(t, "r_spin") /\ pc[t] = "idle" BY <2>1 DEF rwlock_rlock
      <3>2. ReadersCounted'
        BY <2>1, <2>a, <3>1, CountedMoves DEF ReadersCounted, rwlock_rlock, Locations
      <3> QED BY <2>1, <3>2 DEF LockInv, TypeOK, FlagIsUp, ExpectsClear,
           OneWriterPastTheFlag, NoReaderUnderWriter, rwlock_rlock, Goto, Locations
    <2>2. CASE RSpin(t)
      <3>1. Goto(t, "r_inc") /\ pc[t] = "r_spin" BY <2>2 DEF RSpin
      <3>2. ReadersCounted'
        BY <2>2, <2>a, <3>1, CountedMoves DEF ReadersCounted, RSpin, Locations
      <3> QED BY <2>2, <3>2 DEF LockInv, TypeOK, FlagIsUp, ExpectsClear,
           OneWriterPastTheFlag, NoReaderUnderWriter, RSpin, Goto, Locations
    <2>3. CASE RInc(t)
      <3>1. Goto(t, "r_check") /\ pc[t] = "r_inc" BY <2>3 DEF RInc
      <3>2. ReadersCounted'
        BY <2>3, <2>a, <3>1, CountedMoves DEF ReadersCounted, RInc, Locations
      <3> QED BY <2>3, <3>2 DEF LockInv, TypeOK, FlagIsUp, ExpectsClear,
           OneWriterPastTheFlag, NoReaderUnderWriter, RInc, Goto, Locations
    <2>4. CASE RCheck(t)
      <3>1. PICK l \in {"r_held", "r_undo"} :
              Goto(t, l) /\ pc[t] = "r_check" /\ (l = "r_held" => write = 0)
        BY <2>4 DEF RCheck
      <3>2. ReadersCounted'
        BY <2>4, <2>a, <3>1, CountedMoves DEF ReadersCounted, RCheck, Locations
      <3>3. l = "r_held" => \A u \in Threads : pc[u] # "w_held"
        BY <3>1 DEF LockInv, FlagIsUp
      <3>4. NoReaderUnderWriter'
        BY <2>4, <3>1, <3>3 DEF LockInv, TypeOK, NoReaderUnderWriter, Goto
      <3> QED BY <2>4, <3>1, <3>2, <3>4 DEF LockInv, TypeOK, FlagIsUp, ExpectsClear,
           OneWriterPastTheFlag, RCheck, Goto, Locations
    <2>5. CASE RUndo(t)
      <3>1. Goto(t, "r_spin") /\ pc[t] = "r_undo" BY <2>5 DEF RUndo
      <3>2. ReadersCounted'
        BY <2>5, <2>a, <3>1, CountedMoves DEF ReadersCounted, RUndo, Locations
      <3>3. read' \in Nat
        BY <3>2, CountedFinite, FS_CardinalityType DEF ReadersCounted
      <3> QED BY <2>5, <3>2, <3>3 DEF LockInv, TypeOK, FlagIsUp, ExpectsClear,
           OneWriterPastTheFlag, NoReaderUnderWriter, RUndo, Goto, Locations
    <2>6. CASE rwlock_runlock(t)
      <3>1. Goto(t, "idle") /\ pc[t] = "r_held" BY <2>6 DEF rwlock_runlock
      <3>2. ReadersCounted'
        BY <2>6, <2>a, <3>1, CountedMoves DEF ReadersCounted, rwlock_runlock, Locations
      <3>3. read' \in Nat
        BY <3>2, CountedFinite, FS_CardinalityType DEF ReadersCounted
      <3> QED BY <2>6, <3>2, <3>3 DEF LockInv, TypeOK, FlagIsUp, ExpectsClear,
           OneWriterPastTheFlag, NoReaderUnderWriter, rwlock_runlock, Goto, Locations
    <2>7. CASE rwlock_wlock(t)
      <3>1. Goto(t, "w_cas") /\ pc[t] = "idle" BY <2>7 DEF rwlock_wlock
      <3>2. ReadersCounted'
        BY <2>7, <2>a, <3>1, CountedMoves DEF ReadersCounted, rwlock_wlock, Locations
      <3> QED BY <2>7, <3>2 DEF LockInv, TypeOK, FlagIsUp, ExpectsClear,
           OneWriterPastTheFlag, NoReaderUnderWriter, rwlock_wlock, Goto, Locations
    <2>8. CASE CasSucceeds(t)
      <3>1. Goto(t, "w_drain") /\ pc[t] = "w_cas" BY <2>8 DEF CasSucceeds
      <3>2. ReadersCounted'
        BY <2>8, <2>a, <3>1, CountedMoves DEF ReadersCounted, CasSucceeds, Locations
      <3>3. write = 0 BY <2>8 DEF CasSucceeds, LockInv, ExpectsClear
      <3>4. \A u \in Threads : pc[u] \notin {"w_drain", "w_held"}
        BY <3>3 DEF LockInv, FlagIsUp
      <3>5. FlagIsUp'
        BY <2>8, <3>1 DEF LockInv, TypeOK, FlagIsUp, CasSucceeds, Goto
      <3> QED BY <2>8, <3>2, <3>4, <3>5 DEF LockInv, TypeOK, ExpectsClear,
           OneWriterPastTheFlag, NoReaderUnderWriter, CasSucceeds, Goto, Locations
    <2>9. CASE CasFails(t)
      <3>1. Counted' = Counted BY <2>9 DEF CasFails, Counted
      <3>2. ASSUME StdAtomic PROVE write = 0
        <4>1. t \in Writers BY <2>9 DEF CasFails, LockInv, TypeOK
        <4>2. \A u \in Threads : pc[u] \in {"w_drain", "w_held"} => u = t
          BY <3>2, <4>1 DEF SafeCas, LockInv, TypeOK
        <4> QED BY <2>9, <4>2 DEF CasFails, LockInv, FlagIsUp, TypeOK
      <3>3. clear' \in [Threads -> {0, 1}] /\ ExpectsClear'
        BY <2>9, <3>2 DEF CasFails, LockInv, TypeOK, ExpectsClear
      <3> QED BY <2>9, <3>1, <3>3 DEF LockInv, TypeOK, ReadersCounted, FlagIsUp,
           OneWriterPastTheFlag, NoReaderUnderWriter, CasFails
    <2>10. CASE WDrain(t)
      <3>1. Goto(t, "w_held") /\ pc[t] = "w_drain" BY <2>10 DEF WDrain
      <3>2. ReadersCounted'
        BY <2>10, <2>a, <3>1, CountedMoves DEF ReadersCounted, WDrain, Locations
      <3>3. \A u \in Threads : pc[u] # "r_held"
        BY <2>10, <2>a, ReadZero DEF WDrain
      <3>4. FlagIsUp'
        BY <2>10, <3>1 DEF LockInv, TypeOK, FlagIsUp, WDrain, Goto
      <3> QED BY <2>10, <3>2, <3>3, <3>4 DEF LockInv, TypeOK, ExpectsClear,
           OneWriterPastTheFlag, NoReaderUnderWriter, WDrain, Goto, Locations
    <2>11. CASE rwlock_wunlock(t)
      <3>1. Goto(t, "idle") /\ pc[t] = "w_held" BY <2>11 DEF rwlock_wunlock
      <3>2. ReadersCounted'
        BY <2>11, <2>a, <3>1, CountedMoves DEF ReadersCounted, rwlock_wunlock, Locations
      <3>3. FlagIsUp'
        BY <2>11, <3>1 DEF LockInv, TypeOK, FlagIsUp, OneWriterPastTheFlag,
           rwlock_wunlock, Goto
      <3> QED BY <2>11, <3>2, <3>3 DEF LockInv, TypeOK, ExpectsClear,
           OneWriterPastTheFlag, NoReaderUnderWriter, rwlock_wunlock, Goto, Locations
    <2> QED BY <2>1, <2>2, <2>3, <2>4, <2>5, <2>6, <2>7, <2>8, <2>9, <2>10,
         <2>11 DEF Call, Step
  <1> QED BY <1>1, <1>2 DEF Next

(* LockInv is an invariant of the lock under SafeCas.                      *)
THEOREM LockInvariant == SafeCas => (Spec => []LockInv)
  <1> SUFFICES ASSUME SafeCas PROVE Spec => []LockInv OBVIOUS
  <1>1. Init => LockInv BY InitInv
  <1>2. LockInv /\ [Next]_vars => LockInv' BY StepInv
  <1> QED BY <1>1, <1>2, PTL DEF Spec

(* A thread between rwlock_wlock and rwlock_wunlock is alone, whatever the *)
(* number of threads.                                                      *)
THEOREM Exclusion == SafeCas => (Spec => []MutualExclusion)
  <1> SUFFICES ASSUME SafeCas PROVE Spec => []MutualExclusion OBVIOUS
  <1>1. LockInv => MutualExclusion
    BY DEF LockInv, MutualExclusion, OneWriterPastTheFlag, NoReaderUnderWriter
  <1>2. Spec => []LockInv BY LockInvariant
  <1> QED BY <1>1, <1>2, PTL
=============================================================================
