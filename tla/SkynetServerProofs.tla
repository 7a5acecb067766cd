------------------------- MODULE SkynetServerProofs -------------------------
(***************************************************************************)
(* ServerInv is an invariant of SkynetServer for every set of services,    *)
(* workers and external threads and every assignment of weights, and the   *)
(* safety properties follow from it.                                       *)
(*                                                                         *)
(* First facts about reference counts (Ref...), about the places of queues *)
(* (Gq...), and about the parts of the invariant a step does not touch;    *)
(* then one lemma per action; then the theorems.                           *)
(***************************************************************************)
EXTENDS SkynetServer, FiniteSetTheorems, TLAPS

(* The C variables that hold references, and those that own queues.        *)
HoldVars == Threads \X CtxVars
OwnVars  == Threads \X MqVars

(* The holders of a context are finitely many.                             *)
LEMMA HoldersFinite ==
  ASSUME NEW s
  PROVE  IsFiniteSet(Holders(s)) /\ IsFiniteSet(Holders(s)')
  <1>1. IsFiniteSet(CtxVars)
    <2>1. CtxVars = ({"ctx"} \cup {"tgt"}) \cup {"new"} BY DEF CtxVars
    <2> QED BY <2>1, FS_Singleton, FS_AddElement
  <1>2. IsFiniteSet(Threads \X CtxVars)
    BY <1>1, FS_Product, ServerAssumption
  <1>3. Holders(s) \in SUBSET (Threads \X CtxVars)
        /\ Holders(s)' \in SUBSET (Threads \X CtxVars)
    BY DEF Holders
  <1> QED BY <1>2, <1>3, FS_Subset

(* A variable that is given a reference is one more holder of that         *)
(* context.                                                                *)
LEMMA HolderAdded ==
  ASSUME TypeOK, NEW x \in Threads \X CtxVars, NEW s \in Services,
         hold[x] = None, hold' = [hold EXCEPT ![x] = s]
  PROVE  /\ Cardinality(Holders(s)') = Cardinality(Holders(s)) + 1
         /\ Holders(s)' = Holders(s) \cup {x}
         /\ \A u \in Services \ {s} : Holders(u)' = Holders(u)
  <1> USE ServerAssumption
  <1>1. Holders(s)' = Holders(s) \cup {x} /\ x \notin Holders(s)
    BY DEF TypeOK, Holders
  <1>2. \A u \in Services \ {s} : Holders(u)' = Holders(u)
    BY DEF TypeOK, Holders
  <1> QED BY <1>1, <1>2, HoldersFinite, FS_AddElement

(* A variable that gives its reference up is one holder less.              *)
LEMMA HolderRemoved ==
  ASSUME TypeOK, NEW x \in Threads \X CtxVars, NEW s \in Services,
         hold[x] = s, hold' = [hold EXCEPT ![x] = None]
  PROVE  /\ Cardinality(Holders(s)') = Cardinality(Holders(s)) - 1
         /\ Holders(s)' = Holders(s) \ {x}
         /\ \A u \in Services \ {s} : Holders(u)' = Holders(u)
  <1> USE ServerAssumption
  <1>1. Holders(s)' = Holders(s) \ {x} /\ x \in Holders(s)
    BY DEF TypeOK, Holders
  <1>2. \A u \in Services \ {s} : Holders(u)' = Holders(u)
    BY DEF TypeOK, Holders
  <1> QED BY <1>1, <1>2, HoldersFinite, FS_RemoveElement

(* A context with ref = 0 is neither in the handle table nor held.         *)
LEMMA NoRefNoHolder ==
  ASSUME TypeOK, RefCount, NEW s \in Services, ref[s] = 0
  PROVE  s \notin slot /\ Holders(s) = {}
  <1>1. Cardinality(Holders(s)) \in Nat
    BY HoldersFinite, FS_CardinalityType
  <1>2. s \notin slot /\ Cardinality(Holders(s)) = 0
    BY <1>1 DEF RefCount
  <1> QED BY <1>2, HoldersFinite, FS_EmptySet

(* skynet_context_grab keeps RefCount.                                     *)
LEMMA RefGrab ==
  ASSUME TypeOK, RefCount, NEW x \in Threads \X CtxVars, NEW s \in Services,
         hold[x] = None, hold' = [hold EXCEPT ![x] = s],
         ref' = [ref EXCEPT ![s] = @ + 1], slot' = slot
  PROVE  RefCount'
  <1>1. \A u \in Services : Cardinality(Holders(u)) \in Nat
    BY HoldersFinite, FS_CardinalityType
  <1>2. ref \in [Services -> Int] /\ slot \in SUBSET Services BY DEF TypeOK
  <1>3. Cardinality(Holders(s)') = Cardinality(Holders(s)) + 1
        /\ \A u \in Services \ {s} : Holders(u)' = Holders(u)
    BY <1>2, HolderAdded
  <1> QED BY <1>1, <1>2, <1>3 DEF RefCount

(* skynet_context_release keeps RefCount.                                  *)
LEMMA RefRelease ==
  ASSUME TypeOK, RefCount, NEW x \in Threads \X CtxVars, NEW s \in Services,
         hold[x] = s, hold' = [hold EXCEPT ![x] = None],
         ref' = [ref EXCEPT ![s] = @ - 1], slot' = slot
  PROVE  RefCount'
  <1>1. \A u \in Services : Cardinality(Holders(u)) \in Nat
    BY HoldersFinite, FS_CardinalityType
  <1>2. ref \in [Services -> Int] /\ slot \in SUBSET Services BY DEF TypeOK
  <1>3. Cardinality(Holders(s)') = Cardinality(Holders(s)) - 1
        /\ \A u \in Services \ {s} : Holders(u)' = Holders(u)
    BY <1>2, HolderRemoved
  <1> QED BY <1>1, <1>2, <1>3 DEF RefCount

(* Moving the table's reference into a C variable keeps RefCount.          *)
LEMMA RefRetire ==
  ASSUME TypeOK, RefCount, NEW x \in Threads \X CtxVars, NEW s \in slot,
         hold[x] = None, hold' = [hold EXCEPT ![x] = s],
         ref' = ref, slot' = slot \ {s}
  PROVE  RefCount'
  <1>1. \A u \in Services : Cardinality(Holders(u)) \in Nat
    BY HoldersFinite, FS_CardinalityType
  <1>2. ref \in [Services -> Int] /\ slot \in SUBSET Services BY DEF TypeOK
  <1>3. Cardinality(Holders(s)') = Cardinality(Holders(s)) + 1
        /\ \A u \in Services \ {s} : Holders(u)' = Holders(u)
    BY <1>2, HolderAdded
  <1> QED BY <1>1, <1>2, <1>3 DEF RefCount

(* A new context starts with the two references skynet_context_new         *)
(* counts.                                                                 *)
LEMMA RefNew ==
  ASSUME TypeOK, RefCount, NEW x \in Threads \X CtxVars, NEW s \in Services,
         s \notin slot, Holders(s) = {},
         hold[x] = None, hold' = [hold EXCEPT ![x] = s],
         ref' = [ref EXCEPT ![s] = 2], slot' = slot \cup {s}
  PROVE  RefCount'
  <1>1. \A u \in Services : Cardinality(Holders(u)) \in Nat
    BY HoldersFinite, FS_CardinalityType
  <1>2. Cardinality(Holders(s)) = 0 BY FS_EmptySet
  <1>3. ref \in [Services -> Int] /\ slot \in SUBSET Services BY DEF TypeOK
  <1>4. Cardinality(Holders(s)') = Cardinality(Holders(s)) + 1
        /\ \A u \in Services \ {s} : Holders(u)' = Holders(u)
    BY HolderAdded
  <1> QED BY <1>1, <1>2, <1>3, <1>4 DEF RefCount
-----------------------------------------------------------------------------
(* Moving a queue from one place to another.                               *)

(* A thread takes the first queue of the global queue.                     *)
LEMMA GqTake ==
  ASSUME TypeOK, QueueInOnePlace, NEW x \in OwnVars, own[x] = None,
         gq # << >>, gq' = Tail(gq), own' = [own EXCEPT ![x] = Head(gq)],
         \A u \in Services : Flagged(u)' <=> Flagged(u)
  PROVE  QueueInOnePlace' /\ Head(gq) \in Services
  <1> USE ServerAssumption
  <1>1. /\ gq \in Seq(Services) /\ own \in [OwnVars -> Services \cup {None}]
        /\ Len(gq) \in Nat \ {0}
    BY DEF TypeOK, OwnVars
  <1>2. /\ Head(gq) = gq[1] /\ Head(gq) \in Services
        /\ DOMAIN gq' = 1..(Len(gq) - 1)
        /\ \A i \in DOMAIN gq' : gq'[i] = gq[i + 1]
        /\ DOMAIN gq = 1..Len(gq)
    BY <1>1
  <1>3. \A y \in OwnVars : own'[y] = IF y = x THEN gq[1] ELSE own[y]
    BY <1>1, <1>2
  <1>4. InOnePlace'
    <2>1. \A y, z \in OwnVars : own'[y] # None /\ own'[y] = own'[z] => y = z
      BY <1>1, <1>2, <1>3 DEF QueueInOnePlace, InOnePlace, OwnVars
    <2>2. \A i, j \in DOMAIN gq' : gq'[i] = gq'[j] => i = j
      BY <1>1, <1>2 DEF QueueInOnePlace, InOnePlace
    <2>3. \A y \in OwnVars : \A i \in DOMAIN gq' : own'[y] # gq'[i]
      BY <1>1, <1>2, <1>3 DEF QueueInOnePlace, InOnePlace, OwnVars
    <2> QED BY <2>1, <2>2, <2>3 DEF InOnePlace, OwnVars
  <1>5. \A u \in Services : Placed(u)' <=> Placed(u)
    <2> SUFFICES ASSUME NEW u \in Services PROVE Placed(u)' <=> Placed(u)
      OBVIOUS
    <2>1. (\E i \in DOMAIN gq : gq[i] = u)
            <=> u = gq[1] \/ \E i \in DOMAIN gq' : gq'[i] = u
      <3>1. \A i \in DOMAIN gq : i = 1 \/ (i - 1 \in DOMAIN gq' /\ gq'[i - 1] = gq[i])
        BY <1>1, <1>2
      <3>2. 1 \in DOMAIN gq /\ \A i \in DOMAIN gq' : i + 1 \in DOMAIN gq
        BY <1>1, <1>2
      <3>3. ASSUME NEW i \in DOMAIN gq, gq[i] = u, u # gq[1]
            PROVE  \E j \in DOMAIN gq' : gq'[j] = u
        BY <3>1, <3>3
      <3>4. ASSUME NEW j \in DOMAIN gq', gq'[j] = u
            PROVE  \E i \in DOMAIN gq : gq[i] = u
        BY <1>2, <3>2, <3>4
      <3> QED BY <3>2, <3>3, <3>4
    <2>2. (\E y \in OwnVars : own'[y] = u)
            <=> u = gq[1] \/ \E y \in OwnVars : own[y] = u
      BY <1>1, <1>2, <1>3
    <2> QED BY <2>1, <2>2 DEF Placed, OwnVars
  <1> QED BY <1>2, <1>4, <1>5 DEF QueueInOnePlace, PlacedIffFlagged

(* A thread puts a queue it owns into the global queue.                    *)
LEMMA GqGive ==
  ASSUME TypeOK, QueueInOnePlace, NEW x \in OwnVars, own[x] # None,
         gq' = Append(gq, own[x]), own' = [own EXCEPT ![x] = None],
         \A u \in Services : Flagged(u)' <=> Flagged(u)
  PROVE  QueueInOnePlace'
  <1> USE ServerAssumption
  <1>1. /\ gq \in Seq(Services) /\ own \in [OwnVars -> Services \cup {None}]
        /\ Len(gq) \in Nat /\ own[x] \in Services
    BY DEF TypeOK, OwnVars
  <1>2. /\ DOMAIN gq' = 1..(Len(gq) + 1)
        /\ \A i \in DOMAIN gq' : gq'[i] = IF i = Len(gq) + 1 THEN own[x] ELSE gq[i]
        /\ DOMAIN gq = 1..Len(gq)
    BY <1>1
  <1>3. \A y \in OwnVars : own'[y] = IF y = x THEN None ELSE own[y]
    BY <1>1
  <1>4. InOnePlace'
    <2>1. \A y, z \in OwnVars : own'[y] # None /\ own'[y] = own'[z] => y = z
      BY <1>1, <1>3 DEF QueueInOnePlace, InOnePlace, OwnVars
    <2>2. \A i, j \in DOMAIN gq' : gq'[i] = gq'[j] => i = j
      BY <1>1, <1>2 DEF QueueInOnePlace, InOnePlace, OwnVars
    <2>3. \A y \in OwnVars : \A i \in DOMAIN gq' : own'[y] # gq'[i]
      BY <1>1, <1>2, <1>3 DEF QueueInOnePlace, InOnePlace, OwnVars
    <2> QED BY <2>1, <2>2, <2>3 DEF InOnePlace, OwnVars
  <1>5. \A u \in Services : Placed(u)' <=> Placed(u)
    <2> SUFFICES ASSUME NEW u \in Services PROVE Placed(u)' <=> Placed(u)
      OBVIOUS
    <2>1. (\E i \in DOMAIN gq' : gq'[i] = u)
            <=> u = own[x] \/ \E i \in DOMAIN gq : gq[i] = u
      <3>1. Len(gq) + 1 \in DOMAIN gq' /\ gq'[Len(gq) + 1] = own[x]
        BY <1>1, <1>2
      <3>2. \A i \in DOMAIN gq : i \in DOMAIN gq' /\ gq'[i] = gq[i]
        BY <1>1, <1>2
      <3> QED BY <1>1, <1>2, <3>1, <3>2
    <2>2. (\E y \in OwnVars : own[y] = u)
            <=> u = own[x] \/ \E y \in OwnVars : own'[y] = u
      BY <1>1, <1>3
    <2> QED BY <2>1, <2>2 DEF Placed, OwnVars
  <1> QED BY <1>4, <1>5 DEF QueueInOnePlace, PlacedIffFlagged

(* A queue nobody has is flagged and enters the global queue.              *)
LEMMA GqEnter ==
  ASSUME TypeOK, QueueInOnePlace, NEW s \in Services, ~Placed(s),
         gq' = Append(gq, s), own' = own, Flagged(s)',
         \A u \in Services \ {s} : Flagged(u)' <=> Flagged(u)
  PROVE  QueueInOnePlace'
  <1> USE ServerAssumption
  <1>1. gq \in Seq(Services) /\ Len(gq) \in Nat
    BY DEF TypeOK
  <1>2. /\ DOMAIN gq' = 1..(Len(gq) + 1)
        /\ \A i \in DOMAIN gq' : gq'[i] = IF i = Len(gq) + 1 THEN s ELSE gq[i]
        /\ DOMAIN gq = 1..Len(gq)
    BY <1>1
  <1>3. /\ \A y \in Threads \X MqVars : own[y] # s
        /\ \A i \in DOMAIN gq : gq[i] # s
    BY DEF Placed
  <1>4. InOnePlace'
    <2>2. \A i, j \in DOMAIN gq' : gq'[i] = gq'[j] => i = j
      BY <1>1, <1>2, <1>3 DEF QueueInOnePlace, InOnePlace
    <2>3. \A y \in Threads \X MqVars : \A i \in DOMAIN gq' : own'[y] # gq'[i]
      BY <1>1, <1>2, <1>3 DEF QueueInOnePlace, InOnePlace
    <2> QED BY <2>2, <2>3 DEF QueueInOnePlace, InOnePlace
  <1>5. \A u \in Services : Placed(u)' <=> u = s \/ Placed(u)
    <2> SUFFICES ASSUME NEW u \in Services PROVE Placed(u)' <=> u = s \/ Placed(u)
      OBVIOUS
    <2>1. (\E i \in DOMAIN gq' : gq'[i] = u)
            <=> u = s \/ \E i \in DOMAIN gq : gq[i] = u
      <3>1. Len(gq) + 1 \in DOMAIN gq' /\ gq'[Len(gq) + 1] = s
        BY <1>1, <1>2
      <3>2. \A i \in DOMAIN gq : i \in DOMAIN gq' /\ gq'[i] = gq[i]
        BY <1>1, <1>2
      <3> QED BY <1>1, <1>2, <3>1, <3>2
    <2> QED BY <2>1 DEF Placed
  <1> QED BY <1>4, <1>5 DEF QueueInOnePlace, PlacedIffFlagged

(* A thread lets go of its queue, which is no longer flagged.              *)
LEMMA GiveUp ==
  ASSUME TypeOK, QueueInOnePlace, NEW x \in OwnVars, NEW s \in Services,
         own[x] = s, own' = [own EXCEPT ![x] = None], gq' = gq, ~Flagged(s)',
         \A u \in Services \ {s} : Flagged(u)' <=> Flagged(u)
  PROVE  QueueInOnePlace'
  <1> USE ServerAssumption
  <1>1. own \in [OwnVars -> Services \cup {None}] BY DEF TypeOK, OwnVars
  <1>3. \A y \in OwnVars : own'[y] = IF y = x THEN None ELSE own[y]
    BY <1>1
  <1>4. InOnePlace'
    BY <1>1, <1>3 DEF QueueInOnePlace, InOnePlace, OwnVars, TypeOK
  <1>5. ~Placed(s)'
    BY <1>1, <1>3 DEF QueueInOnePlace, InOnePlace, Placed, OwnVars
  <1>6. \A u \in Services \ {s} : Placed(u)' <=> Placed(u)
    BY <1>1, <1>3 DEF Placed, OwnVars
  <1> QED BY <1>4, <1>5, <1>6 DEF QueueInOnePlace, PlacedIffFlagged

(* A thread comes to own a queue that has just been made.                  *)
LEMMA TakeNew ==
  ASSUME TypeOK, QueueInOnePlace, NEW x \in OwnVars, NEW s \in Services,
         ~Placed(s), own[x] = None, own' = [own EXCEPT ![x] = s], gq' = gq,
         Flagged(s)', \A u \in Services \ {s} : Flagged(u)' <=> Flagged(u)
  PROVE  QueueInOnePlace'
  <1> USE ServerAssumption
  <1>1. own \in [OwnVars -> Services \cup {None}] BY DEF TypeOK, OwnVars
  <1>3. \A y \in OwnVars : own'[y] = IF y = x THEN s ELSE own[y]
    BY <1>1
  <1>4. InOnePlace'
    BY <1>1, <1>3 DEF QueueInOnePlace, InOnePlace, OwnVars, Placed
  <1>5. \A u \in Services : Placed(u)' <=> u = s \/ Placed(u)
    BY <1>1, <1>3 DEF Placed, OwnVars
  <1> QED BY <1>4, <1>5 DEF QueueInOnePlace, PlacedIffFlagged

(* No queue moves and no flag changes.                                     *)
LEMMA PlaceSame ==
  ASSUME QueueInOnePlace, own' = own, gq' = gq,
         \A u \in Services : Flagged(u)' <=> Flagged(u)
  PROVE  QueueInOnePlace'
  BY DEF QueueInOnePlace, InOnePlace, PlacedIffFlagged, Placed
-----------------------------------------------------------------------------
(* One lemma per action: it preserves every part of ServerInv.            *)

(* Nothing of the other threads changes.                                   *)
Frozen(t) ==
  \A u \in Threads : u # t =>
    /\ pc'[u] = pc[u] /\ ret'[u] = ret[u] /\ rel'[u] = rel[u]
    /\ dying'[u] = dying[u] /\ dst'[u] = dst[u] /\ victim'[u] = victim[u]
    /\ \A v \in CtxVars : hold'[<<u, v>>] = hold[<<u, v>>]
    /\ \A v \in MqVars : own'[<<u, v>>] = own[<<u, v>>]

(* Local is about one thread at a time.                                    *)
LEMMA LocalOthers ==
  ASSUME Local, NEW t \in Threads, Frozen(t), LocalInv(t)'
  PROVE  Local'
  <1> SUFFICES ASSUME NEW u \in Threads, u # t PROVE LocalInv(u)'
    BY DEF Local
  <1>1. LocalInv(u) BY DEF Local
  <1>2. /\ pc'[u] = pc[u] /\ ret'[u] = ret[u] /\ rel'[u] = rel[u]
        /\ dying'[u] = dying[u] /\ dst'[u] = dst[u] /\ victim'[u] = victim[u]
        /\ hold'[<<u, "ctx">>] = hold[<<u, "ctx">>]
        /\ hold'[<<u, "tgt">>] = hold[<<u, "tgt">>]
        /\ hold'[<<u, "new">>] = hold[<<u, "new">>]
        /\ own'[<<u, "q">>] = own[<<u, "q">>]
        /\ own'[<<u, "nq">>] = own[<<u, "nq">>]
        /\ own'[<<u, "new">>] = own[<<u, "new">>]
    BY DEF Frozen, CtxVars, MqVars
  <1> QED BY <1>1, <1>2 DEF LocalInv, Frame, At

(* So is DropsReleased, but for release, init and slot.                    *)
LEMMA DropOthers ==
  ASSUME TypeOK, Local, DropsReleased, NEW t \in Threads, Frozen(t), DropOK(t)',
         \A s \in Services : release[s] = 1 => release'[s] = 1,
         \A s \in Services : init[s] => init'[s],
         \A s \in slot' : s \in slot \/ \A x \in OwnVars : own[x] # s
  PROVE  DropsReleased'
  <1> SUFFICES ASSUME NEW u \in Threads, u # t PROVE DropOK(u)'
    BY DEF DropsReleased
  <1> USE ServerAssumption
  <1>1. DropOK(u) /\ LocalInv(u) BY DEF DropsReleased, Local
  <1>2. /\ \A l \in Locations : At(u, l)' <=> At(u, l)
        /\ DropVar(u)' = DropVar(u)
        /\ \A v \in MqVars : own'[<<u, v>>] = own[<<u, v>>]
        /\ DropVar(u) \in MqVars
    BY DEF Frozen, At, DropVar, MqVars
  <1>3. At(u, "drop") => own[<<u, DropVar(u)>>] \in Services
    BY <1>1 DEF LocalInv, At, Frame, DropVar, TypeOK, MqVars, Subs, Tops, Locations,
       SendReturns, CtxVars
  <1>4. At(u, "l_push") => own[<<u, "new">>] \in Services
    BY <1>1 DEF LocalInv, At, Frame, TypeOK, MqVars, Subs, Tops, Locations,
       SendReturns, CtxVars
  <1>5. own'[<<u, "new">>] = own[<<u, "new">>] /\ <<u, "new">> \in OwnVars
    BY <1>2 DEF MqVars, OwnVars
  <1> QED BY <1>1, <1>2, <1>3, <1>4, <1>5 DEF DropOK, Locations

(* A thread that is not inside a call holds what Frame says.               *)
LEMMA AtTop ==
  ASSUME ServerInv, NEW t \in Threads, pc[t] \in Tops
  PROVE  /\ Frame(t, pc[t]) /\ hold[<<t, "tgt">>] = None /\ dying[t] = None
         /\ t \in Externals => pc[t] = "idle"
  BY DEF ServerInv, Local, LocalInv, At, Tops, Subs

(* The parts of the invariant.                                             *)
LEMMA Facts ==
  ASSUME ServerInv
  PROVE  TypeOK /\ Local /\ RefCount /\ HeldIsUsable /\ Dying /\ QueueInOnePlace
         /\ DropsReleased /\ SlotInit /\ Unborn
  BY DEF ServerInv

(* RefCount depends on slot, ref and hold only.                            *)
LEMMA RefSame ==
  ASSUME RefCount, UNCHANGED <<slot, ref, hold>> PROVE RefCount'
  BY DEF RefCount, Holders

(* HeldIsUsable depends on these five variables only.                      *)
LEMMA HeldSame ==
  ASSUME HeldIsUsable, UNCHANGED <<slot, mem, qmem, release, hold>>
  PROVE  HeldIsUsable'
  BY DEF HeldIsUsable, Holders

(* A reference taken from the handle table leads to a usable context.      *)
LEMMA HeldGrab ==
  ASSUME TypeOK, HeldIsUsable, NEW x \in HoldVars, NEW s \in slot,
         hold' = [hold EXCEPT ![x] = s], slot' \in SUBSET slot,
         UNCHANGED <<mem, qmem, release>>
  PROVE  HeldIsUsable'
  <1> USE ServerAssumption
  <1>1. \A u \in Services : u # s => Holders(u)' \in SUBSET Holders(u)
    BY DEF TypeOK, Holders, HoldVars
  <1>2. s \in Services BY DEF TypeOK
  <1> QED BY <1>1, <1>2 DEF HeldIsUsable

(* Fewer references, fewer obligations.                                    *)
LEMMA HeldRelease ==
  ASSUME TypeOK, HeldIsUsable, NEW x \in HoldVars,
         hold' = [hold EXCEPT ![x] = None],
         UNCHANGED <<slot, mem, qmem, release>>
  PROVE  HeldIsUsable'
  <1> USE ServerAssumption
  <1>1. \A u \in Services : Holders(u)' \in SUBSET Holders(u)
    BY DEF TypeOK, Holders, HoldVars
  <1> QED BY <1>1 DEF HeldIsUsable

(* A context that is being deleted cannot be reached.                      *)
LEMMA DyingUnreachable ==
  ASSUME TypeOK, RefCount, Dying, NEW u \in Threads, dying[u] # None
  PROVE  /\ dying[u] \in Services /\ ref[dying[u]] = 0
         /\ dying[u] \notin slot /\ Holders(dying[u]) = {}
  <1>1. dying[u] \in Services /\ ref[dying[u]] = 0 BY DEF TypeOK, Dying
  <1> QED BY <1>1, NoRefNoHolder

(* A step that spares the contexts being deleted keeps Dying.              *)
LEMMA DyingSame ==
  ASSUME TypeOK, Dying, NEW t \in Threads, Frozen(t), dying[t] = None,
         dying' = dying,
         \A u \in Threads : dying[u] # None =>
           LET s == dying[u] IN
           ref'[s] = ref[s] /\ mem'[s] = mem[s]
             /\ release'[s] = release[s] /\ qmem'[s] = qmem[s]
  PROVE  Dying'
  <1> SUFFICES ASSUME NEW u \in Threads, dying'[u] # None
               PROVE  LET s == dying'[u] IN
                      /\ ref'[s] = 0 /\ mem'[s] = "alive"
                      /\ pc'[u] = "mark" => release'[s] = 0 /\ qmem'[s] = "alive"
                      /\ pc'[u] = "free" => release'[s] = 1
                      /\ \A w \in Threads \ {u} : dying'[w] # s
    BY DEF Dying
  <1>1. u # t /\ pc'[u] = pc[u] BY DEF Frozen
  <1> QED BY <1>1 DEF Dying

(* A queue has one owner, who has it in one variable.                      *)
LEMMA OwnDistinct ==
  ASSUME QueueInOnePlace, NEW t \in Threads, NEW u \in Threads,
         NEW v \in MqVars, NEW w \in MqVars,
         own[<<t, v>>] # None, own[<<t, v>>] = own[<<u, w>>]
  PROVE  t = u /\ v = w
  <1>1. <<t, v>> \in Threads \X MqVars /\ <<u, w>> \in Threads \X MqVars
    OBVIOUS
  <1>2. <<t, v>> = <<u, w>> BY <1>1 DEF QueueInOnePlace, InOnePlace
  <1> QED BY <1>2

(* The number of messages left is a natural number for every weight.       *)
LEMMA BatchType ==
  ASSUME NEW t \in Workers, NEW len \in Nat
  PROVE  Batch(t, len) \in Nat
  <1> DEFINE Less(m) == IF m > 0 THEN m - 1 ELSE 0
  <1>1. \A m \in Nat : Less(m) \in Nat OBVIOUS
  <1>2. len \div 2 \in Nat /\ len \div 4 \in Nat /\ len \div 8 \in Nat OBVIOUS
  <1>3. Weight[t] \in {-1, 0, 1, 2, 3} BY ServerAssumption
  <1>4. Batch(t, len) \in
          {Less(1), Less(len), Less(len \div 2), Less(len \div 4), Less(len \div 8)}
    BY <1>3 DEF Batch
  <1> HIDE DEF Less
  <1> QED BY <1>1, <1>2, <1>4

(* SlotInit holds on when the table only loses contexts.                   *)
LEMMA SlotSame ==
  ASSUME SlotInit, slot' \in SUBSET slot, init' = init,
         \A u \in Threads : /\ own'[<<u, "new">>] = own[<<u, "new">>]
                            /\ hold'[<<u, "ctx">>] \in {hold[<<u, "ctx">>], None}
  PROVE  SlotInit'
  BY DEF SlotInit

(* DispatchGrab preserves ServerInv.                                       *)
LEMMA DispatchGrab_Inv ==
  ASSUME ServerInv, NEW t \in Threads, DispatchGrab(t)
  PROVE  ServerInv'
  <1> USE ServerAssumption, Facts
  <1>a. /\ pc[t] = "grab" /\ own[<<t, "q">>] \in Services /\ own[<<t, "q">>] \in slot
        /\ hold[<<t, "ctx">>] = None /\ hold[<<t, "new">>] = None /\ hold[<<t, "tgt">>] = None
        /\ own[<<t, "nq">>] = None /\ own[<<t, "new">>] = None /\ dying[t] = None
        /\ t \notin Externals
    <2>1. pc[t] = "grab" BY DEF DispatchGrab, Goto, SetHold
    <2>2. Frame(t, "grab") /\ hold[<<t, "tgt">>] = None /\ dying[t] = None
          /\ (t \in Externals => "grab" = "idle")
      BY <2>1, AtTop DEF Tops, Subs, Locations
    <2> QED BY <2>1, <2>2 DEF DispatchGrab, Goto, SetHold, Frame, TypeOK, CtxVars, MqVars
  <1>1. TypeOK'
    BY <1>a DEF TypeOK, DispatchGrab, Goto, SetHold, ctxVars, mqVars, callVars, Locations, CtxVars, MqVars
  <1>2. Frozen(t)
    BY <1>a DEF TypeOK, Frozen, DispatchGrab, Goto, SetHold, ctxVars, mqVars, callVars
  <1>3. LocalInv(t)'
    BY <1>a DEF TypeOK, LocalInv, Frame, At, DispatchGrab, Goto, SetHold, ctxVars, mqVars, callVars,
       Subs, Tops, Locations, SendReturns, CtxVars, MqVars
  <1>4. Local'
    BY <1>2, <1>3, LocalOthers
  <1>5. RefCount'
    BY <1>a, RefGrab DEF DispatchGrab, SetHold, CtxVars
  <1>6. HeldIsUsable'
    BY <1>a, HeldGrab DEF DispatchGrab, SetHold, CtxVars, HoldVars, mqVars
  <1>7. Dying'
    BY <1>a, <1>2, DyingSame, DyingUnreachable DEF TypeOK, DispatchGrab, mqVars
  <1>8. QueueInOnePlace'
    BY PlaceSame DEF Flagged, DispatchGrab, Goto, SetHold, ctxVars, mqVars, callVars
  <1>9. DropOK(t)'
    BY <1>a DEF TypeOK, DropsReleased, DropOK, DropVar, At, DispatchGrab, Goto, SetHold, ctxVars, mqVars, callVars,
       Subs, Tops, Locations, SendReturns, CtxVars, MqVars
  <1>10. DropsReleased'
    BY <1>2, <1>9, DropOthers DEF DispatchGrab, Goto, SetHold, ctxVars, mqVars, callVars
  <1>11. SlotInit'
    <2>1. init[own[<<t, "q">>]]
      <3>1. ASSUME NEW u \in Threads, own[<<u, "new">>] = own[<<t, "q">>]
            PROVE  FALSE
        <4>1. own[<<t, "q">>] # None
          BY <1>a
        <4>2. "new" \in MqVars /\ "q" \in MqVars
          BY DEF MqVars
        <4>3. u = t /\ "new" = "q"
          BY <3>1, <4>1, <4>2, OwnDistinct
        <4> QED BY <4>3
      <3> QED BY <1>a, <3>1 DEF SlotInit
    <2> QED BY <1>a, <2>1 DEF TypeOK, SlotInit, DispatchGrab, SetHold, mqVars, CtxVars
  <1>12. Unborn'
    BY DEF Unborn, DispatchGrab, Goto, SetHold, ctxVars, mqVars, callVars
  <1> QED BY <1>1, <1>4, <1>5, <1>6, <1>7, <1>8, <1>10, <1>11, <1>12 DEF ServerInv

(* DispatchGone preserves ServerInv.                                       *)
LEMMA DispatchGone_Inv ==
  ASSUME ServerInv, NEW t \in Threads, DispatchGone(t)
  PROVE  ServerInv'
  <1> USE ServerAssumption, Facts
  <1>a. /\ pc[t] = "grab" /\ own[<<t, "q">>] \in Services /\ own[<<t, "q">>] \notin slot
        /\ hold[<<t, "ctx">>] = None /\ hold[<<t, "new">>] = None /\ hold[<<t, "tgt">>] = None
        /\ own[<<t, "nq">>] = None /\ own[<<t, "new">>] = None /\ dying[t] = None
        /\ t \notin Externals
    <2>1. pc[t] = "grab" BY DEF DispatchGone, Goto
    <2>2. Frame(t, "grab") /\ hold[<<t, "tgt">>] = None /\ dying[t] = None
          /\ (t \in Externals => "grab" = "idle")
      BY <2>1, AtTop DEF Tops, Subs, Locations
    <2> QED BY <2>1, <2>2 DEF DispatchGone, Goto, Frame, TypeOK, CtxVars, MqVars
  <1>1. TypeOK'
    BY <1>a DEF TypeOK, DispatchGone, Goto, ctxVars, mqVars, callVars, Locations, CtxVars, MqVars
  <1>2. Frozen(t)
    BY <1>a DEF TypeOK, Frozen, DispatchGone, Goto, ctxVars, mqVars, callVars
  <1>3. LocalInv(t)'
    BY <1>a DEF TypeOK, LocalInv, Frame, At, DispatchGone, Goto, ctxVars, mqVars, callVars,
       Subs, Tops, Locations, SendReturns, CtxVars, MqVars
  <1>4. Local'
    BY <1>2, <1>3, LocalOthers
  <1>5. RefCount'
    BY RefSame DEF DispatchGone, Goto, ctxVars, mqVars, callVars
  <1>6. HeldIsUsable'
    BY HeldSame DEF DispatchGone, Goto, ctxVars, mqVars, callVars
  <1>7. Dying'
    BY <1>a, <1>2, DyingSame DEF DispatchGone, Goto, ctxVars, mqVars, callVars
  <1>8. QueueInOnePlace'
    BY PlaceSame DEF Flagged, DispatchGone, Goto, ctxVars, mqVars, callVars
  <1>9. DropOK(t)'
    BY <1>a DEF TypeOK, DropsReleased, DropOK, DropVar, At, DispatchGone, Goto, ctxVars, mqVars, callVars,
       Subs, Tops, Locations, SendReturns, CtxVars, MqVars
  <1>10. DropsReleased'
    BY <1>2, <1>9, DropOthers DEF DispatchGone, Goto, ctxVars, mqVars, callVars
  <1>11. SlotInit'
    BY <1>a, SlotSame DEF TypeOK, DispatchGone, Goto, ctxVars, mqVars, callVars, CtxVars, MqVars
  <1>12. Unborn'
    BY DEF Unborn, DispatchGone, Goto, ctxVars, mqVars, callVars
  <1> QED BY <1>1, <1>4, <1>5, <1>6, <1>7, <1>8, <1>10, <1>11, <1>12 DEF ServerInv

(* skynet_globalmq_pop preserves ServerInv.                                *)
LEMMA skynet_globalmq_pop_Inv ==
  ASSUME ServerInv, NEW t \in Threads, skynet_globalmq_pop(t)
  PROVE  ServerInv'
  <1> USE ServerAssumption, Facts
  <1>a. /\ pc[t] = "fetch" /\ Head(gq) \in Services /\ t \notin Externals
        /\ hold[<<t, "ctx">>] = None /\ hold[<<t, "new">>] = None /\ hold[<<t, "tgt">>] = None
        /\ own[<<t, "q">>] = None /\ own[<<t, "nq">>] = None /\ own[<<t, "new">>] = None /\ dying[t] = None
    <2>1. pc[t] = "fetch" BY DEF skynet_globalmq_pop, Goto, SetOwn
    <2>2. Frame(t, "fetch") /\ hold[<<t, "tgt">>] = None /\ dying[t] = None
          /\ (t \in Externals => "fetch" = "idle")
      BY <2>1, AtTop DEF Tops, Subs, Locations
    <2> QED BY <2>1, <2>2 DEF skynet_globalmq_pop, Goto, SetOwn, Frame, TypeOK, CtxVars, MqVars
  <1>1. TypeOK'
    <2>1. gq' \in Seq(Services) BY <1>a DEF TypeOK, skynet_globalmq_pop
    <2>2. own' \in [Threads \X MqVars -> Services \cup {None}]
      BY <1>a DEF TypeOK, skynet_globalmq_pop, SetOwn, MqVars
    <2> QED BY <1>a, <2>1, <2>2 DEF TypeOK, skynet_globalmq_pop, Goto, ctxVars, mqVars, callVars,
         Locations, CtxVars
  <1>2. Frozen(t)
    BY <1>a DEF TypeOK, Frozen, skynet_globalmq_pop, Goto, SetOwn, ctxVars, mqVars, callVars
  <1>3. LocalInv(t)'
    BY <1>a DEF TypeOK, LocalInv, Frame, At, skynet_globalmq_pop, Goto, SetOwn, ctxVars, mqVars, callVars,
       Subs, Tops, Locations, SendReturns, CtxVars, MqVars
  <1>4. Local'
    BY <1>2, <1>3, LocalOthers
  <1>5. RefCount'
    BY RefSame DEF skynet_globalmq_pop, Goto, SetOwn, ctxVars, mqVars, callVars
  <1>6. HeldIsUsable'
    BY HeldSame DEF skynet_globalmq_pop, Goto, SetOwn, ctxVars, mqVars, callVars
  <1>7. Dying'
    BY <1>a, <1>2, DyingSame DEF skynet_globalmq_pop, Goto, SetOwn, ctxVars, mqVars, callVars
  <1>8. QueueInOnePlace'
    BY <1>a, GqTake DEF skynet_globalmq_pop, SetOwn, Flagged, OwnVars, MqVars
  <1>9. DropOK(t)'
    BY <1>a DEF TypeOK, DropsReleased, DropOK, DropVar, At, skynet_globalmq_pop, Goto, SetOwn, ctxVars, mqVars, callVars,
       Subs, Tops, Locations, SendReturns, CtxVars, MqVars
  <1>10. DropsReleased'
    BY <1>2, <1>9, DropOthers DEF skynet_globalmq_pop, Goto, SetOwn, ctxVars, mqVars, callVars
  <1>11. SlotInit'
    BY <1>a, SlotSame DEF TypeOK, skynet_globalmq_pop, Goto, SetOwn, ctxVars, mqVars, callVars, CtxVars, MqVars
  <1>12. Unborn'
    BY DEF Unborn, skynet_globalmq_pop, Goto, SetOwn, ctxVars, mqVars, callVars
  <1> QED BY <1>1, <1>4, <1>5, <1>6, <1>7, <1>8, <1>10, <1>11, <1>12 DEF ServerInv

(* PopMessage preserves ServerInv.                                         *)
LEMMA PopMessage_Inv ==
  ASSUME ServerInv, NEW t \in Threads, PopMessage(t)
  PROVE  ServerInv'
  <1> USE ServerAssumption, Facts
  <1>a. /\ pc[t] = "pop"
        /\ own[<<t, "q">>] \in Services /\ hold[<<t, "ctx">>] = own[<<t, "q">>]
        /\ hold[<<t, "new">>] = None /\ hold[<<t, "tgt">>] = None
        /\ own[<<t, "nq">>] = None /\ own[<<t, "new">>] = None /\ dying[t] = None
        /\ t \notin Externals
    <2>1. pc[t] = "pop" BY DEF PopMessage, Goto
    <2>2. Frame(t, "pop") /\ hold[<<t, "tgt">>] = None /\ dying[t] = None
          /\ (t \in Externals => "pop" = "idle")
      BY <2>1, AtTop DEF Tops, Subs, Locations
    <2> QED BY <2>1, <2>2 DEF PopMessage, Goto, Frame, TypeOK, CtxVars, MqVars
  <1>c. Batch(t, Len(mq[own[<<t, "q">>]]) - 1) \in Nat
    <2>1. t \in Workers BY <1>a DEF Threads
    <2>2. Len(mq[own[<<t, "q">>]]) - 1 \in Nat BY <1>a DEF PopMessage, TypeOK
    <2> QED BY <2>1, <2>2, BatchType
  <1>1. TypeOK'
    <2>1. left' \in [Threads -> Nat] BY <1>c DEF PopMessage, TypeOK
    <2>2. mq' \in [Services -> Seq(Message)] BY <1>a DEF PopMessage, TypeOK
    <2> QED BY <1>a, <2>1, <2>2 DEF TypeOK, PopMessage, Goto, ctxVars, Locations
  <1>2. Frozen(t)
    BY <1>a DEF TypeOK, Frozen, PopMessage, Goto, ctxVars, mqVars, callVars
  <1>3. LocalInv(t)'
    BY <1>a DEF TypeOK, LocalInv, Frame, At, PopMessage, Goto, ctxVars, mqVars, callVars,
       Subs, Tops, Locations, SendReturns, CtxVars, MqVars
  <1>4. Local'
    BY <1>2, <1>3, LocalOthers
  <1>5. RefCount'
    BY RefSame DEF PopMessage, Goto, ctxVars, mqVars, callVars
  <1>6. HeldIsUsable'
    BY HeldSame DEF PopMessage, Goto, ctxVars, mqVars, callVars
  <1>7. Dying'
    BY <1>a, <1>2, DyingSame DEF PopMessage, Goto, ctxVars, mqVars, callVars
  <1>8. QueueInOnePlace'
    BY PlaceSame DEF Flagged, PopMessage, Goto, ctxVars, mqVars, callVars
  <1>9. DropOK(t)'
    BY <1>a DEF TypeOK, DropsReleased, DropOK, DropVar, At, PopMessage, Goto, ctxVars, mqVars, callVars,
       Subs, Tops, Locations, SendReturns, CtxVars, MqVars
  <1>10. DropsReleased'
    BY <1>2, <1>9, DropOthers DEF PopMessage, Goto, ctxVars, mqVars, callVars
  <1>11. SlotInit'
    BY <1>a, SlotSame DEF TypeOK, PopMessage, Goto, ctxVars, mqVars, callVars, CtxVars, MqVars
  <1>12. Unborn'
    BY DEF Unborn, PopMessage, Goto, ctxVars, mqVars, callVars
  <1> QED BY <1>1, <1>4, <1>5, <1>6, <1>7, <1>8, <1>10, <1>11, <1>12 DEF ServerInv

(* PopEmpty preserves ServerInv.                                           *)
LEMMA PopEmpty_Inv ==
  ASSUME ServerInv, NEW t \in Threads, PopEmpty(t)
  PROVE  ServerInv'
  <1> USE ServerAssumption, Facts
  <1>a. /\ pc[t] = "pop"
        /\ own[<<t, "q">>] \in Services /\ hold[<<t, "ctx">>] = own[<<t, "q">>]
        /\ hold[<<t, "new">>] = None /\ hold[<<t, "tgt">>] = None
        /\ own[<<t, "nq">>] = None /\ own[<<t, "new">>] = None /\ dying[t] = None
        /\ t \notin Externals
    <2>1. pc[t] = "pop" BY DEF PopEmpty, SetOwn, CallRelease, Goto
    <2>2. Frame(t, "pop") /\ hold[<<t, "tgt">>] = None /\ dying[t] = None
          /\ (t \in Externals => "pop" = "idle")
      BY <2>1, AtTop DEF Tops, Subs, Locations
    <2> QED BY <2>1, <2>2 DEF PopEmpty, SetOwn, CallRelease, Goto, Frame, TypeOK, CtxVars, MqVars
  <1>b. /\ mem[own[<<t, "q">>]] = "alive" /\ qmem[own[<<t, "q">>]] = "alive"
        /\ release[own[<<t, "q">>]] = 0
    <2>1. <<t, "ctx">> \in Holders(own[<<t, "q">>]) BY <1>a DEF Holders, CtxVars
    <2> QED BY <1>a, <2>1 DEF HeldIsUsable
  <1>1. TypeOK'
    BY <1>a DEF TypeOK, PopEmpty, SetOwn, CallRelease, Goto, ctxVars, mqVars, callVars, Locations, CtxVars, MqVars
  <1>2. Frozen(t)
    BY <1>a DEF TypeOK, Frozen, PopEmpty, SetOwn, CallRelease, Goto, ctxVars, mqVars, callVars
  <1>3. LocalInv(t)'
    BY <1>a DEF TypeOK, LocalInv, Frame, At, PopEmpty, SetOwn, CallRelease, Goto, ctxVars, mqVars, callVars,
       Subs, Tops, Locations, SendReturns, CtxVars, MqVars
  <1>4. Local'
    BY <1>2, <1>3, LocalOthers
  <1>5. RefCount'
    BY RefSame DEF PopEmpty, SetOwn, CallRelease, Goto, ctxVars, mqVars, callVars
  <1>6. HeldIsUsable'
    BY HeldSame DEF PopEmpty, SetOwn, CallRelease, Goto, ctxVars, mqVars, callVars
  <1>7. Dying'
    BY <1>a, <1>2, DyingSame DEF PopEmpty, SetOwn, CallRelease, Goto, ctxVars, mqVars, callVars
  <1>8. QueueInOnePlace'
    <2> PICK s \in Services : s = own[<<t, "q">>] BY <1>a
    <2>1. ~Flagged(s)' BY <1>b DEF PopEmpty, Flagged, TypeOK
    <2>2. \A u \in Services \ {s} : Flagged(u)' <=> Flagged(u)
      BY DEF PopEmpty, Flagged, TypeOK
    <2> QED BY <1>a, <2>1, <2>2, GiveUp DEF PopEmpty, SetOwn, OwnVars, MqVars
  <1>9. DropOK(t)'
    BY <1>a DEF TypeOK, DropsReleased, DropOK, DropVar, At, PopEmpty, SetOwn, CallRelease, Goto, ctxVars, mqVars, callVars,
       Subs, Tops, Locations, SendReturns, CtxVars, MqVars
  <1>10. DropsReleased'
    BY <1>2, <1>9, DropOthers DEF PopEmpty, SetOwn, CallRelease, Goto, ctxVars, mqVars, callVars
  <1>11. SlotInit'
    BY <1>a, SlotSame DEF TypeOK, PopEmpty, SetOwn, CallRelease, Goto, ctxVars, mqVars, callVars, CtxVars, MqVars
  <1>12. Unborn'
    BY DEF Unborn, PopEmpty, SetOwn, CallRelease, Goto, ctxVars, mqVars, callVars
  <1> QED BY <1>1, <1>4, <1>5, <1>6, <1>7, <1>8, <1>10, <1>11, <1>12 DEF ServerInv

(* CallbackReturns preserves ServerInv.                                    *)
LEMMA CallbackReturns_Inv ==
  ASSUME ServerInv, NEW t \in Threads, CallbackReturns(t)
  PROVE  ServerInv'
  <1> USE ServerAssumption, Facts
  <1>a. /\ pc[t] = "callback"
        /\ own[<<t, "q">>] \in Services /\ hold[<<t, "ctx">>] = own[<<t, "q">>]
        /\ hold[<<t, "new">>] = None /\ hold[<<t, "tgt">>] = None
        /\ own[<<t, "nq">>] = None /\ own[<<t, "new">>] = None /\ dying[t] = None
        /\ t \notin Externals
    <2>1. pc[t] = "callback" BY DEF CallbackReturns, Goto
    <2>2. Frame(t, "callback") /\ hold[<<t, "tgt">>] = None /\ dying[t] = None
          /\ (t \in Externals => "callback" = "idle")
      BY <2>1, AtTop DEF Tops, Subs, Locations
    <2> QED BY <2>1, <2>2 DEF CallbackReturns, Goto, Frame, TypeOK, CtxVars, MqVars
  <1>1. TypeOK'
    BY <1>a DEF TypeOK, CallbackReturns, Goto, ctxVars, mqVars, callVars, Locations, CtxVars, MqVars
  <1>2. Frozen(t)
    BY <1>a DEF TypeOK, Frozen, CallbackReturns, Goto, ctxVars, mqVars, callVars
  <1>3. LocalInv(t)'
    BY <1>a DEF TypeOK, LocalInv, Frame, At, CallbackReturns, Goto, ctxVars, mqVars, callVars,
       Subs, Tops, Locations, SendReturns, CtxVars, MqVars
  <1>4. Local'
    BY <1>2, <1>3, LocalOthers
  <1>5. RefCount'
    BY RefSame DEF CallbackReturns, Goto, ctxVars, mqVars, callVars
  <1>6. HeldIsUsable'
    BY HeldSame DEF CallbackReturns, Goto, ctxVars, mqVars, callVars
  <1>7. Dying'
    BY <1>a, <1>2, DyingSame DEF CallbackReturns, Goto, ctxVars, mqVars, callVars
  <1>8. QueueInOnePlace'
    BY PlaceSame DEF Flagged, CallbackReturns, Goto, ctxVars, mqVars, callVars
  <1>9. DropOK(t)'
    BY <1>a DEF TypeOK, DropsReleased, DropOK, DropVar, At, CallbackReturns, Goto, ctxVars, mqVars, callVars,
       Subs, Tops, Locations, SendReturns, CtxVars, MqVars
  <1>10. DropsReleased'
    BY <1>2, <1>9, DropOthers DEF CallbackReturns, Goto, ctxVars, mqVars, callVars
  <1>11. SlotInit'
    BY <1>a, SlotSame DEF TypeOK, CallbackReturns, Goto, ctxVars, mqVars, callVars, CtxVars, MqVars
  <1>12. Unborn'
    BY DEF Unborn, CallbackReturns, Goto, ctxVars, mqVars, callVars
  <1> QED BY <1>1, <1>4, <1>5, <1>6, <1>7, <1>8, <1>10, <1>11, <1>12 DEF ServerInv

(* KeepQueue preserves ServerInv.                                          *)
LEMMA KeepQueue_Inv ==
  ASSUME ServerInv, NEW t \in Threads, KeepQueue(t)
  PROVE  ServerInv'
  <1> USE ServerAssumption, Facts
  <1>a. /\ pc[t] = "requeue"
        /\ own[<<t, "q">>] \in Services /\ hold[<<t, "ctx">>] = own[<<t, "q">>]
        /\ hold[<<t, "new">>] = None /\ hold[<<t, "tgt">>] = None
        /\ own[<<t, "nq">>] = None /\ own[<<t, "new">>] = None /\ dying[t] = None
        /\ t \notin Externals
    <2>1. pc[t] = "requeue" BY DEF KeepQueue, CallRelease, Goto
    <2>2. Frame(t, "requeue") /\ hold[<<t, "tgt">>] = None /\ dying[t] = None
          /\ (t \in Externals => "requeue" = "idle")
      BY <2>1, AtTop DEF Tops, Subs, Locations
    <2> QED BY <2>1, <2>2 DEF KeepQueue, CallRelease, Goto, Frame, TypeOK, CtxVars, MqVars
  <1>1. TypeOK'
    BY <1>a DEF TypeOK, KeepQueue, CallRelease, Goto, ctxVars, mqVars, callVars, Locations, CtxVars, MqVars
  <1>2. Frozen(t)
    BY <1>a DEF TypeOK, Frozen, KeepQueue, CallRelease, Goto, ctxVars, mqVars, callVars
  <1>3. LocalInv(t)'
    BY <1>a DEF TypeOK, LocalInv, Frame, At, KeepQueue, CallRelease, Goto, ctxVars, mqVars, callVars,
       Subs, Tops, Locations, SendReturns, CtxVars, MqVars
  <1>4. Local'
    BY <1>2, <1>3, LocalOthers
  <1>5. RefCount'
    BY RefSame DEF KeepQueue, CallRelease, Goto, ctxVars, mqVars, callVars
  <1>6. HeldIsUsable'
    BY HeldSame DEF KeepQueue, CallRelease, Goto, ctxVars, mqVars, callVars
  <1>7. Dying'
    BY <1>a, <1>2, DyingSame DEF KeepQueue, CallRelease, Goto, ctxVars, mqVars, callVars
  <1>8. QueueInOnePlace'
    BY PlaceSame DEF Flagged, KeepQueue, CallRelease, Goto, ctxVars, mqVars, callVars
  <1>9. DropOK(t)'
    BY <1>a DEF TypeOK, DropsReleased, DropOK, DropVar, At, KeepQueue, CallRelease, Goto, ctxVars, mqVars, callVars,
       Subs, Tops, Locations, SendReturns, CtxVars, MqVars
  <1>10. DropsReleased'
    BY <1>2, <1>9, DropOthers DEF KeepQueue, CallRelease, Goto, ctxVars, mqVars, callVars
  <1>11. SlotInit'
    BY <1>a, SlotSame DEF TypeOK, KeepQueue, CallRelease, Goto, ctxVars, mqVars, callVars, CtxVars, MqVars
  <1>12. Unborn'
    BY DEF Unborn, KeepQueue, CallRelease, Goto, ctxVars, mqVars, callVars
  <1> QED BY <1>1, <1>4, <1>5, <1>6, <1>7, <1>8, <1>10, <1>11, <1>12 DEF ServerInv

(* PopNext preserves ServerInv.                                            *)
LEMMA PopNext_Inv ==
  ASSUME ServerInv, NEW t \in Threads, PopNext(t)
  PROVE  ServerInv'
  <1> USE ServerAssumption, Facts
  <1>a. /\ pc[t] = "requeue" /\ Head(gq) \in Services
        /\ own[<<t, "q">>] \in Services /\ hold[<<t, "ctx">>] = own[<<t, "q">>]
        /\ hold[<<t, "new">>] = None /\ hold[<<t, "tgt">>] = None
        /\ own[<<t, "nq">>] = None /\ own[<<t, "new">>] = None /\ dying[t] = None
        /\ t \notin Externals
    <2>1. pc[t] = "requeue" BY DEF PopNext, Goto, SetOwn
    <2>2. Frame(t, "requeue") /\ hold[<<t, "tgt">>] = None /\ dying[t] = None
          /\ (t \in Externals => "requeue" = "idle")
      BY <2>1, AtTop DEF Tops, Subs, Locations
    <2> QED BY <2>1, <2>2 DEF PopNext, Goto, SetOwn, Frame, TypeOK, CtxVars, MqVars
  <1>1. TypeOK'
    <2>1. gq' \in Seq(Services) BY <1>a DEF TypeOK, PopNext
    <2>2. own' \in [Threads \X MqVars -> Services \cup {None}]
      BY <1>a DEF TypeOK, PopNext, SetOwn, MqVars
    <2> QED BY <1>a, <2>1, <2>2 DEF TypeOK, PopNext, Goto, ctxVars, mqVars, callVars,
         Locations, CtxVars
  <1>2. Frozen(t)
    BY <1>a DEF TypeOK, Frozen, PopNext, Goto, SetOwn, ctxVars, mqVars, callVars
  <1>3. LocalInv(t)'
    BY <1>a DEF TypeOK, LocalInv, Frame, At, PopNext, Goto, SetOwn, ctxVars, mqVars, callVars,
       Subs, Tops, Locations, SendReturns, CtxVars, MqVars
  <1>4. Local'
    BY <1>2, <1>3, LocalOthers
  <1>5. RefCount'
    BY RefSame DEF PopNext, Goto, SetOwn, ctxVars, mqVars, callVars
  <1>6. HeldIsUsable'
    BY HeldSame DEF PopNext, Goto, SetOwn, ctxVars, mqVars, callVars
  <1>7. Dying'
    BY <1>a, <1>2, DyingSame DEF PopNext, Goto, SetOwn, ctxVars, mqVars, callVars
  <1>8. QueueInOnePlace'
    BY <1>a, GqTake DEF PopNext, SetOwn, Flagged, OwnVars, MqVars
  <1>9. DropOK(t)'
    BY <1>a DEF TypeOK, DropsReleased, DropOK, DropVar, At, PopNext, Goto, SetOwn, ctxVars, mqVars, callVars,
       Subs, Tops, Locations, SendReturns, CtxVars, MqVars
  <1>10. DropsReleased'
    BY <1>2, <1>9, DropOthers DEF PopNext, Goto, SetOwn, ctxVars, mqVars, callVars
  <1>11. SlotInit'
    BY <1>a, SlotSame DEF TypeOK, PopNext, Goto, SetOwn, ctxVars, mqVars, callVars, CtxVars, MqVars
  <1>12. Unborn'
    BY DEF Unborn, PopNext, Goto, SetOwn, ctxVars, mqVars, callVars
  <1> QED BY <1>1, <1>4, <1>5, <1>6, <1>7, <1>8, <1>10, <1>11, <1>12 DEF ServerInv

(* A thread puts its queue back and goes on with the next one.             *)
LEMMA GqSwap ==
  ASSUME TypeOK, QueueInOnePlace, NEW x \in OwnVars, NEW y \in OwnVars, x # y,
         own[x] # None, own[y] # None, gq' = Append(gq, own[x]),
         own' = [own EXCEPT ![x] = own[y], ![y] = None],
         \A u \in Services : Flagged(u)' <=> Flagged(u)
  PROVE  QueueInOnePlace'
  <1> USE ServerAssumption
  <1>1. /\ gq \in Seq(Services) /\ own \in [OwnVars -> Services \cup {None}]
        /\ Len(gq) \in Nat /\ own[x] \in Services /\ own[y] \in Services
    BY DEF TypeOK, OwnVars
  <1>2. /\ DOMAIN gq' = 1..(Len(gq) + 1)
        /\ \A i \in DOMAIN gq' : gq'[i] = IF i = Len(gq) + 1 THEN own[x] ELSE gq[i]
        /\ DOMAIN gq = 1..Len(gq)
    BY <1>1
  <1>3. \A z \in OwnVars :
          own'[z] = IF z = x THEN own[y] ELSE IF z = y THEN None ELSE own[z]
    BY <1>1
  <1>4. InOnePlace'
    <2>1. \A w, z \in OwnVars : own'[w] # None /\ own'[w] = own'[z] => w = z
      BY <1>1, <1>3 DEF QueueInOnePlace, InOnePlace, OwnVars
    <2>2. \A i, j \in DOMAIN gq' : gq'[i] = gq'[j] => i = j
      BY <1>1, <1>2 DEF QueueInOnePlace, InOnePlace, OwnVars
    <2>3. \A z \in OwnVars : \A i \in DOMAIN gq' : own'[z] # gq'[i]
      BY <1>1, <1>2, <1>3 DEF QueueInOnePlace, InOnePlace, OwnVars
    <2> QED BY <2>1, <2>2, <2>3 DEF InOnePlace, OwnVars
  <1>5. \A u \in Services : Placed(u)' <=> Placed(u)
    <2> SUFFICES ASSUME NEW u \in Services PROVE Placed(u)' <=> Placed(u)
      OBVIOUS
    <2>1. (\E i \in DOMAIN gq' : gq'[i] = u)
            <=> u = own[x] \/ \E i \in DOMAIN gq : gq[i] = u
      <3>1. Len(gq) + 1 \in DOMAIN gq' /\ gq'[Len(gq) + 1] = own[x]
        BY <1>1, <1>2
      <3>2. \A i \in DOMAIN gq : i \in DOMAIN gq' /\ gq'[i] = gq[i]
        BY <1>1, <1>2
      <3> QED BY <1>1, <1>2, <3>1, <3>2
    <2>2. (\E z \in OwnVars : own[z] = u)
            <=> u = own[x] \/ \E z \in OwnVars : own'[z] = u
      BY <1>1, <1>3
    <2> QED BY <2>1, <2>2 DEF Placed, OwnVars
  <1> QED BY <1>4, <1>5 DEF QueueInOnePlace, PlacedIffFlagged

(* PutBack preserves ServerInv.                                            *)
LEMMA PutBack_Inv ==
  ASSUME ServerInv, NEW t \in Threads, PutBack(t)
  PROVE  ServerInv'
  <1> USE ServerAssumption, Facts
  <1>a. /\ pc[t] = "putback"
        /\ own[<<t, "q">>] \in Services /\ hold[<<t, "ctx">>] = own[<<t, "q">>]
        /\ hold[<<t, "new">>] = None /\ hold[<<t, "tgt">>] = None
        /\ own[<<t, "nq">>] \in Services /\ own[<<t, "new">>] = None /\ dying[t] = None
        /\ t \notin Externals
    <2>1. pc[t] = "putback" BY DEF PutBack, CallRelease, Goto
    <2>2. Frame(t, "putback") /\ hold[<<t, "tgt">>] = None /\ dying[t] = None
          /\ (t \in Externals => "putback" = "idle")
      BY <2>1, AtTop DEF Tops, Subs, Locations
    <2> QED BY <2>1, <2>2 DEF PutBack, CallRelease, Goto, Frame, TypeOK, CtxVars, MqVars
  <1>1. TypeOK'
    <2>1. gq' \in Seq(Services) BY <1>a DEF TypeOK, PutBack
    <2>2. own' \in [Threads \X MqVars -> Services \cup {None}]
      BY <1>a DEF TypeOK, PutBack, SetOwn, MqVars
    <2> QED BY <1>a, <2>1, <2>2 DEF TypeOK, PutBack, CallRelease, Goto, ctxVars, mqVars, callVars,
         Locations, CtxVars
  <1>2. Frozen(t)
    BY <1>a DEF TypeOK, Frozen, PutBack, CallRelease, Goto, ctxVars, mqVars, callVars
  <1>3. LocalInv(t)'
    BY <1>a DEF TypeOK, LocalInv, Frame, At, PutBack, CallRelease, Goto, ctxVars, mqVars, callVars,
       Subs, Tops, Locations, SendReturns, CtxVars, MqVars
  <1>4. Local'
    BY <1>2, <1>3, LocalOthers
  <1>5. RefCount'
    BY RefSame DEF PutBack, CallRelease, Goto, ctxVars, mqVars, callVars
  <1>6. HeldIsUsable'
    BY HeldSame DEF PutBack, CallRelease, Goto, ctxVars, mqVars, callVars
  <1>7. Dying'
    BY <1>a, <1>2, DyingSame DEF PutBack, CallRelease, Goto, ctxVars, mqVars, callVars
  <1>8. QueueInOnePlace'
    <2>1. <<t, "q">> # <<t, "nq">> OBVIOUS
    <2> QED BY <1>a, <2>1, GqSwap DEF PutBack, Flagged, OwnVars, MqVars
  <1>9. DropOK(t)'
    BY <1>a DEF TypeOK, DropsReleased, DropOK, DropVar, At, PutBack, CallRelease, Goto, ctxVars, mqVars, callVars,
       Subs, Tops, Locations, SendReturns, CtxVars, MqVars
  <1>10. DropsReleased'
    BY <1>2, <1>9, DropOthers DEF PutBack, CallRelease, Goto, ctxVars, mqVars, callVars
  <1>11. SlotInit'
    BY <1>a, SlotSame DEF TypeOK, PutBack, CallRelease, Goto, ctxVars, mqVars, callVars, CtxVars, MqVars
  <1>12. Unborn'
    BY DEF Unborn, PutBack, CallRelease, Goto, ctxVars, mqVars, callVars
  <1> QED BY <1>1, <1>4, <1>5, <1>6, <1>7, <1>8, <1>10, <1>11, <1>12 DEF ServerInv

(* InitSucceeds preserves ServerInv.                                       *)
LEMMA InitSucceeds_Inv ==
  ASSUME ServerInv, NEW t \in Threads, InitSucceeds(t)
  PROVE  ServerInv'
  <1> USE ServerAssumption, Facts
  <1>a. /\ pc[t] = "init"
        /\ own[<<t, "q">>] \in Services /\ hold[<<t, "ctx">>] = own[<<t, "q">>]
        /\ own[<<t, "new">>] \in Services /\ hold[<<t, "new">>] = own[<<t, "new">>]
        /\ own[<<t, "nq">>] = None /\ hold[<<t, "tgt">>] = None /\ dying[t] = None
        /\ t \notin Externals
    <2>1. pc[t] = "init" BY DEF InitSucceeds, CallRelease, Goto
    <2>2. Frame(t, "init") /\ hold[<<t, "tgt">>] = None /\ dying[t] = None
          /\ (t \in Externals => "init" = "idle")
      BY <2>1, AtTop DEF Tops, Subs, Locations
    <2> QED BY <2>1, <2>2 DEF InitSucceeds, CallRelease, Goto, Frame, TypeOK, CtxVars, MqVars
  <1>1. TypeOK'
    BY <1>a DEF TypeOK, InitSucceeds, CallRelease, Goto, ctxVars, mqVars, callVars, Locations, CtxVars, MqVars
  <1>2. Frozen(t)
    BY <1>a DEF TypeOK, Frozen, InitSucceeds, CallRelease, Goto, ctxVars, mqVars, callVars
  <1>3. LocalInv(t)'
    BY <1>a DEF TypeOK, LocalInv, Frame, At, InitSucceeds, CallRelease, Goto, ctxVars, mqVars, callVars,
       Subs, Tops, Locations, SendReturns, CtxVars, MqVars
  <1>4. Local'
    BY <1>2, <1>3, LocalOthers
  <1>5. RefCount'
    BY RefSame DEF InitSucceeds, CallRelease, Goto, ctxVars, mqVars, callVars
  <1>6. HeldIsUsable'
    BY HeldSame DEF InitSucceeds, CallRelease, Goto, ctxVars, mqVars, callVars
  <1>7. Dying'
    BY <1>a, <1>2, DyingSame DEF InitSucceeds, CallRelease, Goto, ctxVars, mqVars, callVars
  <1>8. QueueInOnePlace'
    BY PlaceSame DEF Flagged, InitSucceeds, CallRelease, Goto, ctxVars, mqVars, callVars
  <1>9. DropOK(t)'
    BY <1>a DEF TypeOK, DropsReleased, DropOK, DropVar, At, InitSucceeds, CallRelease, Goto, ctxVars, mqVars, callVars,
       Subs, Tops, Locations, SendReturns, CtxVars, MqVars
  <1>10. DropsReleased'
    BY <1>2, <1>9, DropOthers DEF InitSucceeds, CallRelease, Goto, ctxVars, mqVars, callVars
  <1>11. SlotInit'
    BY <1>a, SlotSame DEF TypeOK, InitSucceeds, CallRelease, Goto, ctxVars, mqVars, callVars, CtxVars, MqVars
  <1>12. Unborn'
    BY DEF Unborn, InitSucceeds, CallRelease, Goto, ctxVars, mqVars, callVars
  <1> QED BY <1>1, <1>4, <1>5, <1>6, <1>7, <1>8, <1>10, <1>11, <1>12 DEF ServerInv

(* InitFails preserves ServerInv.                                          *)
LEMMA InitFails_Inv ==
  ASSUME ServerInv, NEW t \in Threads, InitFails(t)
  PROVE  ServerInv'
  <1> USE ServerAssumption, Facts
  <1>a. /\ pc[t] = "init"
        /\ own[<<t, "q">>] \in Services /\ hold[<<t, "ctx">>] = own[<<t, "q">>]
        /\ own[<<t, "new">>] \in Services /\ hold[<<t, "new">>] = own[<<t, "new">>]
        /\ own[<<t, "nq">>] = None /\ hold[<<t, "tgt">>] = None /\ dying[t] = None
        /\ t \notin Externals
    <2>1. pc[t] = "init" BY DEF InitFails, CallRelease, Goto
    <2>2. Frame(t, "init") /\ hold[<<t, "tgt">>] = None /\ dying[t] = None
          /\ (t \in Externals => "init" = "idle")
      BY <2>1, AtTop DEF Tops, Subs, Locations
    <2> QED BY <2>1, <2>2 DEF InitFails, CallRelease, Goto, Frame, TypeOK, CtxVars, MqVars
  <1>1. TypeOK'
    BY <1>a DEF TypeOK, InitFails, CallRelease, Goto, ctxVars, mqVars, callVars, Locations, CtxVars, MqVars
  <1>2. Frozen(t)
    BY <1>a DEF TypeOK, Frozen, InitFails, CallRelease, Goto, ctxVars, mqVars, callVars
  <1>3. LocalInv(t)'
    BY <1>a DEF TypeOK, LocalInv, Frame, At, InitFails, CallRelease, Goto, ctxVars, mqVars, callVars,
       Subs, Tops, Locations, SendReturns, CtxVars, MqVars
  <1>4. Local'
    BY <1>2, <1>3, LocalOthers
  <1>5. RefCount'
    BY RefSame DEF InitFails, CallRelease, Goto, ctxVars, mqVars, callVars
  <1>6. HeldIsUsable'
    BY HeldSame DEF InitFails, CallRelease, Goto, ctxVars, mqVars, callVars
  <1>7. Dying'
    BY <1>a, <1>2, DyingSame DEF InitFails, CallRelease, Goto, ctxVars, mqVars, callVars
  <1>8. QueueInOnePlace'
    BY PlaceSame DEF Flagged, InitFails, CallRelease, Goto, ctxVars, mqVars, callVars
  <1>9. DropOK(t)'
    BY <1>a DEF TypeOK, DropsReleased, DropOK, DropVar, At, InitFails, CallRelease, Goto, ctxVars, mqVars, callVars,
       Subs, Tops, Locations, SendReturns, CtxVars, MqVars
  <1>10. DropsReleased'
    BY <1>2, <1>9, DropOthers DEF InitFails, CallRelease, Goto, ctxVars, mqVars, callVars
  <1>11. SlotInit'
    BY <1>a, SlotSame DEF TypeOK, InitFails, CallRelease, Goto, ctxVars, mqVars, callVars, CtxVars, MqVars
  <1>12. Unborn'
    BY DEF Unborn, InitFails, CallRelease, Goto, ctxVars, mqVars, callVars
  <1> QED BY <1>1, <1>4, <1>5, <1>6, <1>7, <1>8, <1>10, <1>11, <1>12 DEF ServerInv

(* SetInit preserves ServerInv.                                            *)
LEMMA SetInit_Inv ==
  ASSUME ServerInv, NEW t \in Threads, SetInit(t)
  PROVE  ServerInv'
  <1> USE ServerAssumption, Facts
  <1>a. /\ pc[t] = "l_init"
        /\ own[<<t, "q">>] \in Services /\ hold[<<t, "ctx">>] = own[<<t, "q">>]
        /\ own[<<t, "new">>] \in Services /\ hold[<<t, "new">>] = None
        /\ own[<<t, "nq">>] = None /\ hold[<<t, "tgt">>] = None /\ dying[t] = None
        /\ t \notin Externals
    <2>1. pc[t] = "l_init" BY DEF SetInit, Goto
    <2>2. Frame(t, "l_init") /\ hold[<<t, "tgt">>] = None /\ dying[t] = None
          /\ (t \in Externals => "l_init" = "idle")
      BY <2>1, AtTop DEF Tops, Subs, Locations
    <2> QED BY <2>1, <2>2 DEF SetInit, Goto, Frame, TypeOK, CtxVars, MqVars
  <1>1. TypeOK'
    BY <1>a DEF TypeOK, SetInit, Goto, ctxVars, mqVars, callVars, Locations, CtxVars, MqVars
  <1>2. Frozen(t)
    BY <1>a DEF TypeOK, Frozen, SetInit, Goto, ctxVars, mqVars, callVars
  <1>3. LocalInv(t)'
    BY <1>a DEF TypeOK, LocalInv, Frame, At, SetInit, Goto, ctxVars, mqVars, callVars,
       Subs, Tops, Locations, SendReturns, CtxVars, MqVars
  <1>4. Local'
    BY <1>2, <1>3, LocalOthers
  <1>5. RefCount'
    BY RefSame DEF SetInit, Goto, ctxVars, mqVars, callVars
  <1>6. HeldIsUsable'
    BY HeldSame DEF SetInit, Goto, ctxVars, mqVars, callVars
  <1>7. Dying'
    BY <1>a, <1>2, DyingSame DEF SetInit, Goto, ctxVars, mqVars, callVars
  <1>8. QueueInOnePlace'
    BY PlaceSame DEF Flagged, SetInit, Goto, ctxVars, mqVars, callVars
  <1>9. DropOK(t)'
    BY <1>a DEF TypeOK, HeldIsUsable, DropOK, At, SetInit, Goto, ctxVars, mqVars, callVars, Subs
  <1>10. DropsReleased'
    BY <1>2, <1>9, DropOthers DEF SetInit, Goto, ctxVars, mqVars, callVars
  <1>11. SlotInit'
    <2>1. \A s \in Services : init[s] => init'[s] BY <1>a DEF TypeOK, SetInit
    <2>2. \A s \in slot : s \in Services BY DEF TypeOK
    <2>3. \A u \in Threads : hold[<<u, "ctx">>] # None => hold[<<u, "ctx">>] \in Services
      BY DEF TypeOK, CtxVars
    <2> QED BY <2>1, <2>2, <2>3 DEF SlotInit, SetInit
  <1>12. Unborn'
    BY DEF Unborn, SetInit, Goto, ctxVars, mqVars, callVars
  <1> QED BY <1>1, <1>4, <1>5, <1>6, <1>7, <1>8, <1>10, <1>11, <1>12 DEF ServerInv

(* PublishQueue preserves ServerInv.                                       *)
LEMMA PublishQueue_Inv ==
  ASSUME ServerInv, NEW t \in Threads, PublishQueue(t)
  PROVE  ServerInv'
  <1> USE ServerAssumption, Facts
  <1>a. /\ pc[t] = "l_push"
        /\ own[<<t, "q">>] \in Services /\ hold[<<t, "ctx">>] = own[<<t, "q">>]
        /\ own[<<t, "new">>] \in Services /\ hold[<<t, "new">>] = None
        /\ own[<<t, "nq">>] = None /\ hold[<<t, "tgt">>] = None /\ dying[t] = None
        /\ t \notin Externals
    <2>1. pc[t] = "l_push" BY DEF PublishQueue, Goto, SetOwn
    <2>2. Frame(t, "l_push") /\ hold[<<t, "tgt">>] = None /\ dying[t] = None
          /\ (t \in Externals => "l_push" = "idle")
      BY <2>1, AtTop DEF Tops, Subs, Locations
    <2> QED BY <2>1, <2>2 DEF PublishQueue, Goto, SetOwn, Frame, TypeOK, CtxVars, MqVars
  <1>1. TypeOK'
    BY <1>a DEF TypeOK, PublishQueue, Goto, SetOwn, ctxVars, mqVars, callVars, Locations, CtxVars, MqVars
  <1>2. Frozen(t)
    BY <1>a DEF TypeOK, Frozen, PublishQueue, Goto, SetOwn, ctxVars, mqVars, callVars
  <1>3. LocalInv(t)'
    BY <1>a DEF TypeOK, LocalInv, Frame, At, PublishQueue, Goto, SetOwn, ctxVars, mqVars, callVars,
       Subs, Tops, Locations, SendReturns, CtxVars, MqVars
  <1>4. Local'
    BY <1>2, <1>3, LocalOthers
  <1>5. RefCount'
    BY RefSame DEF PublishQueue, Goto, SetOwn, ctxVars, mqVars, callVars
  <1>6. HeldIsUsable'
    BY HeldSame DEF PublishQueue, Goto, SetOwn, ctxVars, mqVars, callVars
  <1>7. Dying'
    BY <1>a, <1>2, DyingSame DEF PublishQueue, Goto, SetOwn, ctxVars, mqVars, callVars
  <1>8. QueueInOnePlace'
    BY <1>a, GqGive DEF PublishQueue, SetOwn, Flagged, OwnVars, MqVars
  <1>9. DropOK(t)'
    BY <1>a DEF TypeOK, DropsReleased, DropOK, DropVar, At, PublishQueue, Goto, SetOwn, ctxVars, mqVars, callVars,
       Subs, Tops, Locations, SendReturns, CtxVars, MqVars
  <1>10. DropsReleased'
    BY <1>2, <1>9, DropOthers DEF PublishQueue, Goto, SetOwn, ctxVars, mqVars, callVars
  <1>11. SlotInit'
    <2>1. own[<<t, "new">>] \notin slot \/ init[own[<<t, "new">>]]
      BY <1>a DEF DropsReleased, DropOK, At
    <2>2. \A u \in Threads : u # t => own'[<<u, "new">>] = own[<<u, "new">>]
      BY <1>2 DEF Frozen, MqVars
    <2> QED BY <1>a, <2>1, <2>2 DEF SlotInit, PublishQueue, ctxVars
  <1>12. Unborn'
    BY DEF Unborn, PublishQueue, Goto, SetOwn, ctxVars, mqVars, callVars
  <1> QED BY <1>1, <1>4, <1>5, <1>6, <1>7, <1>8, <1>10, <1>11, <1>12 DEF ServerInv

(* Who holds the last reference holds it instead of the handle table.      *)
LEMMA LastRefUnlisted ==
  ASSUME TypeOK, RefCount, NEW s \in Services, Holders(s) # {}, ref[s] = 1
  PROVE  s \notin slot
  <1>1. Cardinality(Holders(s)) \in Nat /\ Cardinality(Holders(s)) # 0
    BY HoldersFinite, FS_CardinalityType, FS_EmptySet
  <1> QED BY <1>1 DEF RefCount

(* KeepContext preserves ServerInv.                                        *)
LEMMA KeepContext_Inv ==
  ASSUME ServerInv, NEW t \in Threads, KeepContext(t)
  PROVE  ServerInv'
  <1> USE ServerAssumption, Facts
  <1>a. /\ pc[t] = "release" /\ rel[t] \in CtxVars /\ dying[t] = None
        /\ hold[<<t, rel[t]>>] \in Services /\ ret[t] \in Tops
        /\ <<t, rel[t]>> \in Holders(hold[<<t, rel[t]>>])
    <2>1. pc[t] = "release" /\ LocalInv(t) BY DEF KeepContext, ReleaseRef, Local
    <2>2. rel[t] \in CtxVars BY DEF TypeOK
    <2>3. dying[t] = None /\ hold[<<t, rel[t]>>] # None /\ ret[t] \in Tops
      BY <2>1, <2>2 DEF LocalInv, Frame, CtxVars, Tops, Subs, Locations
    <2> QED BY <2>1, <2>2, <2>3 DEF TypeOK, Holders
  <1>b. \A s \in Services : Holders(s) # {} =>
          mem[s] = "alive" /\ qmem[s] = "alive" /\ release[s] = 0
    BY DEF HeldIsUsable
  <1>1. TypeOK'
    <2>1. pc' \in [Threads -> Locations] /\ ret' \in [Threads -> Locations]
      <3>1. "idle" \in Locations BY DEF Locations
      <3> QED BY <3>1 DEF TypeOK, KeepContext, Return, Goto
    <2> QED BY <1>a, <2>1 DEF TypeOK, KeepContext, ReleaseRef, mqVars, CtxVars
  <1>2. Frozen(t)
    BY <1>a DEF TypeOK, Frozen, KeepContext, ReleaseRef, Return, Goto, ctxVars, mqVars, callVars
  <1>3. LocalInv(t)'
    <2>1. LocalInv(t) BY DEF Local
    <2>2. CASE rel[t] = "tgt"
      BY <1>a, <2>1, <2>2 DEF TypeOK, LocalInv, Frame, At, KeepContext, ReleaseRef, Return, Goto, mqVars,
         Subs, Tops, Locations, SendReturns, CtxVars
    <2>3. CASE rel[t] = "ctx"
      BY <1>a, <2>1, <2>3 DEF TypeOK, LocalInv, Frame, At, KeepContext, ReleaseRef, Return, Goto, mqVars,
         Subs, Tops, Locations, SendReturns, CtxVars
    <2>4. CASE rel[t] = "new"
      BY <1>a, <2>1, <2>4 DEF TypeOK, LocalInv, Frame, At, KeepContext, ReleaseRef, Return, Goto, mqVars,
         Subs, Tops, Locations, SendReturns, CtxVars
    <2> QED BY <1>a, <2>2, <2>3, <2>4 DEF CtxVars
  <1>4. Local'
    BY <1>2, <1>3, LocalOthers
  <1>5. RefCount'
    BY <1>a, RefRelease DEF KeepContext, ReleaseRef
  <1>6. HeldIsUsable'
    BY <1>a, HeldRelease DEF KeepContext, ReleaseRef, HoldVars, mqVars
  <1>7. Dying'
    <2>1. \A u \in Threads : dying[u] # None => dying[u] # hold[<<t, rel[t]>>]
      BY <1>a, DyingUnreachable
    <2> QED BY <1>a, <1>2, <2>1, DyingSame DEF TypeOK, KeepContext, ReleaseRef, mqVars
  <1>8. QueueInOnePlace'
    BY PlaceSame DEF Flagged, KeepContext, ReleaseRef, Return, Goto, ctxVars, mqVars, callVars
  <1>9. DropOK(t)'
    <2>1. \A l \in Locations : At(t, l)' => At(t, l)
      BY <1>a DEF TypeOK, At, KeepContext, ReleaseRef, Return, Goto, Subs, Tops
    <2> QED BY <2>1 DEF DropsReleased, DropOK, DropVar, KeepContext, ReleaseRef, mqVars, Locations
  <1>10. DropsReleased'
    BY <1>2, <1>9, DropOthers DEF KeepContext, ReleaseRef, Return, Goto, ctxVars, mqVars, callVars
  <1>11. SlotInit'
    BY <1>a, SlotSame DEF TypeOK, KeepContext, ReleaseRef, CtxVars
  <1>12. Unborn'
    BY DEF Unborn, KeepContext, ReleaseRef, Return, Goto, ctxVars, mqVars, callVars
  <1> QED BY <1>1, <1>4, <1>5, <1>6, <1>7, <1>8, <1>10, <1>11, <1>12 DEF ServerInv

(* LastReference preserves ServerInv.                                      *)
LEMMA LastReference_Inv ==
  ASSUME ServerInv, NEW t \in Threads, LastReference(t)
  PROVE  ServerInv'
  <1> USE ServerAssumption, Facts
  <1>a. /\ pc[t] = "release" /\ rel[t] \in CtxVars /\ dying[t] = None
        /\ hold[<<t, rel[t]>>] \in Services /\ ret[t] \in Tops
        /\ <<t, rel[t]>> \in Holders(hold[<<t, rel[t]>>])
    <2>1. pc[t] = "release" /\ LocalInv(t) BY DEF LastReference, ReleaseRef, Local
    <2>2. rel[t] \in CtxVars BY DEF TypeOK
    <2>3. dying[t] = None /\ hold[<<t, rel[t]>>] # None /\ ret[t] \in Tops
      BY <2>1, <2>2 DEF LocalInv, Frame, CtxVars, Tops, Subs, Locations
    <2> QED BY <2>1, <2>2, <2>3 DEF TypeOK, Holders
  <1>b. \A s \in Services : Holders(s) # {} =>
          mem[s] = "alive" /\ qmem[s] = "alive" /\ release[s] = 0
    BY DEF HeldIsUsable
  <1>1. TypeOK'
    BY <1>a DEF TypeOK, LastReference, ReleaseRef, Return, Goto, ctxVars, mqVars, callVars, Locations, CtxVars, MqVars
  <1>2. Frozen(t)
    BY <1>a DEF TypeOK, Frozen, LastReference, ReleaseRef, Return, Goto, ctxVars, mqVars, callVars
  <1>3. LocalInv(t)'
    <2>1. LocalInv(t) BY DEF Local
    <2>2. CASE rel[t] = "tgt"
      BY <1>a, <2>1, <2>2 DEF TypeOK, LocalInv, Frame, At, LastReference, ReleaseRef, Return, Goto, mqVars,
         Subs, Tops, Locations, SendReturns, CtxVars
    <2>3. CASE rel[t] = "ctx"
      BY <1>a, <2>1, <2>3 DEF TypeOK, LocalInv, Frame, At, LastReference, ReleaseRef, Return, Goto, mqVars,
         Subs, Tops, Locations, SendReturns, CtxVars
    <2>4. CASE rel[t] = "new"
      BY <1>a, <2>1, <2>4 DEF TypeOK, LocalInv, Frame, At, LastReference, ReleaseRef, Return, Goto, mqVars,
         Subs, Tops, Locations, SendReturns, CtxVars
    <2> QED BY <1>a, <2>2, <2>3, <2>4 DEF CtxVars
  <1>4. Local'
    BY <1>2, <1>3, LocalOthers
  <1>5. RefCount'
    BY <1>a, RefRelease DEF LastReference, ReleaseRef
  <1>6. HeldIsUsable'
    BY <1>a, HeldRelease DEF LastReference, ReleaseRef, HoldVars, mqVars
  <1>7. Dying'
    <2> PICK s \in Services : s = hold[<<t, rel[t]>>] BY <1>a
    <2>1. \A u \in Threads : dying[u] # None => dying[u] # s /\ u # t
      BY <1>a, DyingUnreachable
    <2>2. /\ dying' = [dying EXCEPT ![t] = s] /\ ref' = [ref EXCEPT ![s] = 0]
          /\ mem' = mem /\ release' = release /\ qmem' = qmem
          /\ mem[s] = "alive" /\ qmem[s] = "alive" /\ release[s] = 0
      BY <1>a, <1>b DEF LastReference, ReleaseRef, mqVars, TypeOK
    <2>3. \A u \in Threads : pc'[u] = IF u = t THEN "mark" ELSE pc[u]
      BY DEF LastReference, Goto, TypeOK
    <2>4. \A u \in Threads : dying[u] # None => dying[u] \in Services BY DEF TypeOK
    <2>5. /\ \A u \in Threads : dying'[u] = IF u = t THEN s ELSE dying[u]
          /\ \A d \in Services : ref'[d] = IF d = s THEN 0 ELSE ref[d]
      BY <2>2 DEF TypeOK
    <2> QED BY <1>a, <2>1, <2>2, <2>3, <2>4, <2>5 DEF Dying
  <1>8. QueueInOnePlace'
    BY PlaceSame DEF Flagged, LastReference, ReleaseRef, Return, Goto, ctxVars, mqVars, callVars
  <1>9. DropOK(t)'
    <2>1. \A l \in Tops : At(t, l)' /\ l # "l_push" => At(t, l)
      BY <1>a DEF TypeOK, At, LastReference, ReleaseRef, Goto, Subs, Tops
    <2>2. hold[<<t, rel[t]>>] \notin slot
      BY <1>a, LastRefUnlisted DEF LastReference
    <2>3. At(t, "l_push")' => own[<<t, "new">>] \notin slot
      <3>1. LocalInv(t) BY DEF Local
      <3>2. At(t, "l_push")' => ret[t] \in {"l_init", "l_push"}
        BY <1>a DEF At, LastReference, Goto, Subs, TypeOK
      <3>3. ret[t] \in {"l_init", "l_push"} => rel[t] = "new" /\ own[<<t, "new">>] = hold[<<t, rel[t]>>]
        BY <1>a, <3>1 DEF LocalInv, CtxVars, SendReturns
      <3> QED BY <2>2, <3>2, <3>3
    <2> QED BY <2>1, <2>3 DEF DropsReleased, DropOK, DropVar, LastReference, ReleaseRef, mqVars, Locations,
         Tops, Subs
  <1>10. DropsReleased'
    BY <1>2, <1>9, DropOthers DEF LastReference, ReleaseRef, Return, Goto, ctxVars, mqVars, callVars
  <1>11. SlotInit'
    BY <1>a, SlotSame DEF TypeOK, LastReference, ReleaseRef, CtxVars
  <1>12. Unborn'
    BY DEF Unborn, LastReference, ReleaseRef, Return, Goto, ctxVars, mqVars, callVars
  <1> QED BY <1>1, <1>4, <1>5, <1>6, <1>7, <1>8, <1>10, <1>11, <1>12 DEF ServerInv

(* skynet_mq_mark_release preserves ServerInv.                             *)
LEMMA skynet_mq_mark_release_Inv ==
  ASSUME ServerInv, NEW t \in Threads, skynet_mq_mark_release(t)
  PROVE  ServerInv'
  <1> USE ServerAssumption, Facts
  <1>a. /\ pc[t] = "mark" /\ dying[t] \in Services
        /\ ref[dying[t]] = 0 /\ mem[dying[t]] = "alive"
        /\ dying[t] \notin slot /\ Holders(dying[t]) = {}
        /\ hold[<<t, "tgt">>] = None /\ ret[t] \in Tops
        /\ \A u \in Threads : u # t => dying[u] # dying[t]
    <2>1. pc[t] = "mark" /\ LocalInv(t) BY DEF skynet_mq_mark_release, Local
    <2>2. dying[t] # None /\ hold[<<t, "tgt">>] = None /\ ret[t] \in Tops
      BY <2>1 DEF LocalInv, Frame
    <2> QED BY <2>1, <2>2, DyingUnreachable DEF Dying, TypeOK
  <1>b. release[dying[t]] = 0 /\ qmem[dying[t]] = "alive"
    BY <1>a DEF Dying
  <1>1. TypeOK'
    <2>1. gq' \in Seq(Services) BY <1>a DEF TypeOK, skynet_mq_mark_release
    <2> QED BY <1>a, <2>1 DEF TypeOK, skynet_mq_mark_release, Goto, ctxVars, callVars, Locations
  <1>2. Frozen(t)
    BY <1>a DEF TypeOK, Frozen, skynet_mq_mark_release, Goto, ctxVars, mqVars, callVars
  <1>3. LocalInv(t)'
    <2>1. LocalInv(t) BY DEF Local
    <2> QED BY <1>a, <2>1 DEF TypeOK, LocalInv, Frame, At, skynet_mq_mark_release, Goto, ctxVars, callVars,
         Subs, Tops, Locations
  <1>4. Local'
    BY <1>2, <1>3, LocalOthers
  <1>5. RefCount'
    BY RefSame DEF skynet_mq_mark_release, Goto, ctxVars, mqVars, callVars
  <1>6. HeldIsUsable'
    <2> PICK s \in Services : s = dying[t] BY <1>a
    <2>1. \A u \in Services : Holders(u)' = Holders(u)
      BY DEF Holders, skynet_mq_mark_release
    <2> QED BY <1>a, <2>1 DEF HeldIsUsable, skynet_mq_mark_release, ctxVars, TypeOK
  <1>7. Dying'
    <2>1. \A u \in Threads : pc'[u] = IF u = t THEN "free" ELSE pc[u]
      BY DEF skynet_mq_mark_release, Goto, TypeOK
    <2>2. dying' = dying /\ ref' = ref /\ mem' = mem /\ qmem' = qmem
      BY DEF skynet_mq_mark_release, ctxVars, callVars
    <2>3. \A s \in Services : release'[s] = IF s = dying[t] THEN 1 ELSE release[s]
      BY DEF skynet_mq_mark_release, TypeOK
    <2>4. \A u \in Threads : dying[u] # None => dying[u] \in Services
      BY DEF TypeOK
    <2> QED BY <1>a, <2>1, <2>2, <2>3, <2>4 DEF Dying
  <1>8. QueueInOnePlace'
    <2> PICK s \in Services : s = dying[t] BY <1>a
    <2>1. \A u \in Services \ {s} : Flagged(u)' <=> Flagged(u)
      BY DEF Flagged, skynet_mq_mark_release, TypeOK
    <2>2. Flagged(s)' BY <1>a, <1>b DEF Flagged, skynet_mq_mark_release, TypeOK
    <2>3. CASE in_global[s] = 1
      <3>1. Flagged(s) BY <1>b, <2>3 DEF Flagged
      <3> QED BY <2>1, <2>2, <2>3, <3>1, PlaceSame DEF skynet_mq_mark_release
    <2>4. CASE in_global[s] # 1
      <3>1. ~Placed(s) BY <1>b, <2>4 DEF Flagged, QueueInOnePlace, PlacedIffFlagged
      <3> QED BY <2>1, <2>2, <2>4, <3>1, GqEnter DEF skynet_mq_mark_release
    <2> QED BY <2>3, <2>4
  <1>9. DropOK(t)'
    <2>1. \A l \in Locations : l \in Tops => (At(t, l)' => At(t, l))
      BY <1>a DEF At, skynet_mq_mark_release, Goto, callVars, Subs, Tops, TypeOK
    <2>2. \A s \in Services : release[s] = 1 => release'[s] = 1
      BY DEF skynet_mq_mark_release, TypeOK
    <2>3. At(t, "drop") => own[<<t, DropVar(t)>>] \in Services
      <3>1. LocalInv(t) BY DEF Local
      <3> QED BY <1>a, <3>1 DEF LocalInv, At, Frame, DropVar, TypeOK, MqVars, Subs, Locations
    <2> QED BY <2>1, <2>2, <2>3 DEF DropsReleased, DropOK, DropVar, skynet_mq_mark_release, ctxVars,
         Locations, Tops, Subs
  <1>10. DropsReleased'
    <2>1. \A s \in Services : release[s] = 1 => release'[s] = 1
      BY DEF skynet_mq_mark_release, TypeOK
    <2> QED BY <1>2, <1>9, <2>1, DropOthers DEF skynet_mq_mark_release, ctxVars
  <1>11. SlotInit'
    BY <1>a, SlotSame DEF TypeOK, skynet_mq_mark_release, Goto, ctxVars, mqVars, callVars, CtxVars, MqVars
  <1>12. Unborn'
    BY <1>a, <1>b DEF Unborn, skynet_mq_mark_release, ctxVars, TypeOK
  <1> QED BY <1>1, <1>4, <1>5, <1>6, <1>7, <1>8, <1>10, <1>11, <1>12 DEF ServerInv

(* FreeContext preserves ServerInv.                                        *)
LEMMA FreeContext_Inv ==
  ASSUME ServerInv, NEW t \in Threads, FreeContext(t)
  PROVE  ServerInv'
  <1> USE ServerAssumption, Facts
  <1>a. /\ pc[t] = "free" /\ dying[t] \in Services
        /\ ref[dying[t]] = 0 /\ mem[dying[t]] = "alive"
        /\ dying[t] \notin slot /\ Holders(dying[t]) = {}
        /\ hold[<<t, "tgt">>] = None /\ ret[t] \in Tops
        /\ \A u \in Threads : u # t => dying[u] # dying[t]
    <2>1. pc[t] = "free" /\ LocalInv(t) BY DEF FreeContext, Local
    <2>2. dying[t] # None /\ hold[<<t, "tgt">>] = None /\ ret[t] \in Tops
      BY <2>1 DEF LocalInv, Frame
    <2> QED BY <2>1, <2>2, DyingUnreachable DEF Dying, TypeOK
  <1>1. TypeOK'
    <2>1. pc' \in [Threads -> Locations] /\ ret' \in [Threads -> Locations]
      <3>1. "idle" \in Locations BY DEF Locations
      <3> QED BY <3>1 DEF TypeOK, FreeContext, Return, Goto
    <2> QED BY <1>a, <2>1 DEF TypeOK, FreeContext, mqVars
  <1>2. Frozen(t)
    BY <1>a DEF TypeOK, Frozen, FreeContext, Return, Goto, ctxVars, mqVars, callVars
  <1>3. LocalInv(t)'
    <2>1. LocalInv(t) BY DEF Local
    <2> QED BY <1>a, <2>1 DEF TypeOK, LocalInv, Frame, At, FreeContext, Return, Goto,
         Subs, Tops, Locations, SendReturns
  <1>4. Local'
    BY <1>2, <1>3, LocalOthers
  <1>5. RefCount'
    BY RefSame DEF FreeContext, Return, Goto, ctxVars, mqVars, callVars
  <1>6. HeldIsUsable'
    <2> PICK s \in Services : s = dying[t] BY <1>a
    <2>1. \A u \in Services : Holders(u)' = Holders(u)
      BY DEF Holders, FreeContext
    <2> QED BY <1>a, <2>1 DEF HeldIsUsable, FreeContext, mqVars, TypeOK
  <1>7. Dying'
    <2>1. \A u \in Threads : u # t => pc'[u] = pc[u] /\ dying'[u] = dying[u]
      BY <1>2 DEF Frozen
    <2>2. dying'[t] = None /\ ref' = ref /\ release' = release /\ qmem' = qmem
      BY DEF FreeContext, mqVars, TypeOK
    <2>3. \A s \in Services : s # dying[t] => mem'[s] = mem[s]
      BY DEF FreeContext, TypeOK
    <2>4. \A u \in Threads : dying[u] # None => dying[u] \in Services
      BY DEF TypeOK
    <2> QED BY <1>a, <2>1, <2>2, <2>3, <2>4 DEF Dying
  <1>8. QueueInOnePlace'
    BY PlaceSame DEF Flagged, FreeContext, Return, Goto, ctxVars, mqVars, callVars
  <1>9. DropOK(t)'
    <2>1. \A l \in Locations : At(t, l)' => At(t, l)
      BY <1>a DEF At, FreeContext, Return, Goto, Subs, TypeOK, Tops
    <2> QED BY <2>1 DEF DropsReleased, DropOK, DropVar, FreeContext, mqVars, Locations
  <1>10. DropsReleased'
    BY <1>2, <1>9, DropOthers DEF FreeContext, Return, Goto, ctxVars, mqVars, callVars
  <1>11. SlotInit'
    BY <1>a, SlotSame DEF TypeOK, FreeContext, Return, Goto, ctxVars, mqVars, callVars, CtxVars, MqVars
  <1>12. Unborn'
    BY <1>a DEF Unborn, FreeContext, mqVars, TypeOK
  <1> QED BY <1>1, <1>4, <1>5, <1>6, <1>7, <1>8, <1>10, <1>11, <1>12 DEF ServerInv

(* PushGrab preserves ServerInv.                                           *)
LEMMA PushGrab_Inv ==
  ASSUME ServerInv, NEW t \in Threads, PushGrab(t)
  PROVE  ServerInv'
  <1> USE ServerAssumption, Facts
  <1>a. /\ pc[t] = "send" /\ dst[t] \in slot /\ dst[t] \in Services
        /\ hold[<<t, "tgt">>] = None /\ dying[t] = None
        /\ ret[t] \in SendReturns /\ ret[t] \in Tops
    <2>1. pc[t] = "send" /\ LocalInv(t) BY DEF PushGrab, Local
    <2>2. Frame(t, ret[t]) /\ ret[t] \in SendReturns /\ dying[t] = None /\ hold[<<t, "tgt">>] = None
      BY <2>1 DEF LocalInv
    <2> QED BY <2>1, <2>2 DEF PushGrab, Frame, TypeOK, CtxVars
  <1>1. TypeOK'
    BY <1>a DEF TypeOK, PushGrab, Goto, SetHold, ctxVars, mqVars, callVars, Locations, CtxVars, MqVars
  <1>2. Frozen(t)
    BY <1>a DEF TypeOK, Frozen, PushGrab, Goto, SetHold, ctxVars, mqVars, callVars
  <1>3. LocalInv(t)'
    <2>1. LocalInv(t) BY DEF Local
    <2> QED BY <1>a, <2>1 DEF TypeOK, LocalInv, Frame, At, PushGrab, SetHold, Goto, mqVars, callVars,
         Subs, Tops, CtxVars
  <1>4. Local'
    BY <1>2, <1>3, LocalOthers
  <1>5. RefCount'
    BY <1>a, RefGrab DEF PushGrab, SetHold, CtxVars
  <1>6. HeldIsUsable'
    BY <1>a, HeldGrab DEF PushGrab, SetHold, CtxVars, HoldVars, mqVars
  <1>7. Dying'
    BY <1>a, <1>2, DyingSame, DyingUnreachable DEF TypeOK, PushGrab, mqVars
  <1>8. QueueInOnePlace'
    BY PlaceSame DEF Flagged, PushGrab, Goto, SetHold, ctxVars, mqVars, callVars
  <1>9. DropOK(t)'
    BY <1>a DEF TypeOK, DropsReleased, DropOK, DropVar, At, PushGrab, Goto, SetHold, ctxVars, mqVars, callVars,
       Subs, Tops, Locations, SendReturns, CtxVars, MqVars
  <1>10. DropsReleased'
    BY <1>2, <1>9, DropOthers DEF PushGrab, Goto, SetHold, ctxVars, mqVars, callVars
  <1>11. SlotInit'
    BY <1>a, SlotSame DEF TypeOK, PushGrab, Goto, SetHold, ctxVars, mqVars, callVars, CtxVars, MqVars
  <1>12. Unborn'
    BY DEF Unborn, PushGrab, Goto, SetHold, ctxVars, mqVars, callVars
  <1> QED BY <1>1, <1>4, <1>5, <1>6, <1>7, <1>8, <1>10, <1>11, <1>12 DEF ServerInv

(* PushGone preserves ServerInv.                                           *)
LEMMA PushGone_Inv ==
  ASSUME ServerInv, NEW t \in Threads, PushGone(t)
  PROVE  ServerInv'
  <1> USE ServerAssumption, Facts
  <1>a. /\ pc[t] = "send" /\ dst[t] \notin slot
        /\ hold[<<t, "tgt">>] = None /\ dying[t] = None
        /\ ret[t] \in SendReturns /\ ret[t] \in Tops
    <2>1. pc[t] = "send" /\ LocalInv(t) BY DEF PushGone, Local
    <2>2. Frame(t, ret[t]) /\ ret[t] \in SendReturns /\ dying[t] = None /\ hold[<<t, "tgt">>] = None
      BY <2>1 DEF LocalInv
    <2> QED BY <2>1, <2>2 DEF PushGone, Frame, TypeOK, CtxVars
  <1>1. TypeOK'
    <2>1. pc' \in [Threads -> Locations] /\ ret' \in [Threads -> Locations]
      <3>1. "idle" \in Locations BY DEF Locations
      <3> QED BY <3>1 DEF TypeOK, PushGone, Return, Goto
    <2>2. NoMsg \in Message BY DEF NoMsg, Message, Kinds
    <2> QED BY <2>1, <2>2 DEF TypeOK, PushGone, ctxVars, mqVars
  <1>2. Frozen(t)
    BY <1>a DEF TypeOK, Frozen, PushGone, Return, Goto, ctxVars, mqVars, callVars
  <1>3. LocalInv(t)'
    <2>1. LocalInv(t) BY DEF Local
    <2> QED BY <1>a, <2>1 DEF TypeOK, LocalInv, Frame, At, PushGone, Return, Goto, Subs, Tops,
         SendReturns
  <1>4. Local'
    BY <1>2, <1>3, LocalOthers
  <1>5. RefCount'
    BY RefSame DEF PushGone, Return, Goto, ctxVars, mqVars, callVars
  <1>6. HeldIsUsable'
    BY HeldSame DEF PushGone, Return, Goto, ctxVars, mqVars, callVars
  <1>7. Dying'
    BY <1>a, <1>2, DyingSame DEF PushGone, Return, Goto, ctxVars, mqVars, callVars
  <1>8. QueueInOnePlace'
    BY PlaceSame DEF Flagged, PushGone, Return, Goto, ctxVars, mqVars, callVars
  <1>9. DropOK(t)'
    <2>1. \A l \in Locations : At(t, l)' => At(t, l)
      BY <1>a DEF At, PushGone, Return, Goto, Subs, TypeOK, Tops
    <2> QED BY <2>1 DEF DropsReleased, DropOK, DropVar, PushGone, ctxVars, mqVars, Locations
  <1>10. DropsReleased'
    BY <1>2, <1>9, DropOthers DEF PushGone, Return, Goto, ctxVars, mqVars, callVars
  <1>11. SlotInit'
    BY <1>a, SlotSame DEF TypeOK, PushGone, Return, Goto, ctxVars, mqVars, callVars, CtxVars, MqVars
  <1>12. Unborn'
    BY DEF Unborn, PushGone, Return, Goto, ctxVars, mqVars, callVars
  <1> QED BY <1>1, <1>4, <1>5, <1>6, <1>7, <1>8, <1>10, <1>11, <1>12 DEF ServerInv

(* skynet_mq_push preserves ServerInv.                                     *)
LEMMA skynet_mq_push_Inv ==
  ASSUME ServerInv, NEW t \in Threads, skynet_mq_push(t)
  PROVE  ServerInv'
  <1> USE ServerAssumption, Facts
  <1>a. /\ pc[t] = "push"
        /\ hold[<<t, "tgt">>] \in Services /\ dying[t] = None
        /\ ret[t] \in SendReturns /\ ret[t] \in Tops
    <2>1. pc[t] = "push" /\ LocalInv(t) BY DEF skynet_mq_push, Local
    <2>2. Frame(t, ret[t]) /\ ret[t] \in SendReturns /\ dying[t] = None /\ hold[<<t, "tgt">>] # None
      BY <2>1 DEF LocalInv
    <2> QED BY <2>1, <2>2 DEF skynet_mq_push, Frame, TypeOK, CtxVars
  <1>b. qmem[hold[<<t, "tgt">>]] = "alive" /\ release[hold[<<t, "tgt">>]] = 0
        /\ mem[hold[<<t, "tgt">>]] = "alive"
    <2>1. <<t, "tgt">> \in Holders(hold[<<t, "tgt">>]) BY <1>a DEF Holders, CtxVars
    <2> QED BY <1>a, <2>1 DEF HeldIsUsable
  <1>1. TypeOK'
    <2>1. gq' \in Seq(Services) BY <1>a DEF TypeOK, skynet_mq_push
    <2>2. mq' \in [Services -> Seq(Message)] BY <1>a DEF TypeOK, skynet_mq_push
    <2>3. NoMsg \in Message BY DEF NoMsg, Message, Kinds
    <2> QED BY <1>a, <2>1, <2>2, <2>3 DEF TypeOK, skynet_mq_push, CallRelease, Goto, ctxVars,
         Locations, CtxVars
  <1>2. Frozen(t)
    BY <1>a DEF TypeOK, Frozen, skynet_mq_push, CallRelease, Goto, ctxVars, mqVars, callVars
  <1>3. LocalInv(t)'
    <2>1. LocalInv(t) BY DEF Local
    <2> QED BY <1>a, <2>1 DEF TypeOK, LocalInv, Frame, At, skynet_mq_push, CallRelease, Goto,
         Subs, Tops, CtxVars
  <1>4. Local'
    BY <1>2, <1>3, LocalOthers
  <1>5. RefCount'
    BY RefSame DEF skynet_mq_push, CallRelease, Goto, ctxVars, mqVars, callVars
  <1>6. HeldIsUsable'
    BY HeldSame DEF skynet_mq_push, CallRelease, Goto, ctxVars, mqVars, callVars
  <1>7. Dying'
    BY <1>a, <1>2, DyingSame DEF skynet_mq_push, CallRelease, Goto, ctxVars, mqVars, callVars
  <1>8. QueueInOnePlace'
    <2> PICK s \in Services : s = hold[<<t, "tgt">>] BY <1>a
    <2>1. \A u \in Services \ {s} : Flagged(u)' <=> Flagged(u)
      BY DEF Flagged, skynet_mq_push, TypeOK
    <2>2. Flagged(s)' BY <1>b DEF Flagged, skynet_mq_push, TypeOK
    <2>3. CASE in_global[s] = 1
      <3>1. Flagged(s) BY <1>b, <2>3 DEF Flagged
      <3> QED BY <2>1, <2>2, <2>3, <3>1, PlaceSame DEF skynet_mq_push
    <2>4. CASE in_global[s] # 1
      <3>1. ~Placed(s) BY <1>b, <2>4 DEF Flagged, QueueInOnePlace, PlacedIffFlagged
      <3> QED BY <2>1, <2>2, <2>4, <3>1, GqEnter DEF skynet_mq_push
    <2> QED BY <2>3, <2>4
  <1>9. DropOK(t)'
    BY <1>a DEF TypeOK, DropsReleased, DropOK, DropVar, At, skynet_mq_push, CallRelease, Goto, ctxVars, mqVars, callVars,
       Subs, Tops, Locations, SendReturns, CtxVars, MqVars
  <1>10. DropsReleased'
    BY <1>2, <1>9, DropOthers DEF skynet_mq_push, CallRelease, Goto, ctxVars, mqVars, callVars
  <1>11. SlotInit'
    BY <1>a, SlotSame DEF TypeOK, skynet_mq_push, CallRelease, Goto, ctxVars, mqVars, callVars, CtxVars, MqVars
  <1>12. Unborn'
    BY <1>a, <1>b DEF Unborn, skynet_mq_push, ctxVars, TypeOK
  <1> QED BY <1>1, <1>4, <1>5, <1>6, <1>7, <1>8, <1>10, <1>11, <1>12 DEF ServerInv

(* HandBack preserves ServerInv.                                           *)
LEMMA HandBack_Inv ==
  ASSUME ServerInv, NEW t \in Threads, HandBack(t)
  PROVE  ServerInv'
  <1> USE ServerAssumption, Facts
  <1>a. /\ pc[t] = "mqrel" /\ own[<<t, "q">>] \in Services
        /\ hold[<<t, "new">>] = None /\ hold[<<t, "tgt">>] = None /\ own[<<t, "nq">>] = None /\ dying[t] = None
        /\ hold[<<t, "ctx">>] = IF own[<<t, "new">>] = None THEN None ELSE own[<<t, "q">>]
        /\ own[<<t, "new">>] \in Services \cup {None}
        /\ DropVar(t) \in MqVars /\ own[<<t, DropVar(t)>>] \in Services
        /\ t \notin Externals
    <2>1. pc[t] = "mqrel" BY DEF HandBack
    <2>2. Frame(t, "mqrel") /\ hold[<<t, "tgt">>] = None /\ dying[t] = None
          /\ (t \in Externals => "mqrel" = "idle")
      BY <2>1, AtTop DEF Tops, Subs, Locations
    <2> QED BY <2>1, <2>2 DEF DropVar, Frame, TypeOK, CtxVars, MqVars
  <1>1. TypeOK'
    <2>1. gq' \in Seq(Services) BY <1>a DEF TypeOK, HandBack
    <2>2. AfterDrop(t) \in Locations BY DEF AfterDrop, Locations
    <2> QED BY <1>a, <2>1, <2>2 DEF TypeOK, HandBack, SetOwn, Goto, ctxVars, callVars
  <1>2. Frozen(t)
    BY <1>a DEF TypeOK, Frozen, HandBack, SetOwn, Goto, ctxVars, mqVars, callVars
  <1>3. LocalInv(t)'
    <2>1. CASE own[<<t, "new">>] = None
      BY <1>a, <2>1 DEF TypeOK, LocalInv, Frame, At, HandBack, SetOwn, Goto, AfterDrop, DropVar, callVars,
         Subs, Tops, Locations, CtxVars, MqVars
    <2>2. CASE own[<<t, "new">>] # None
      BY <1>a, <2>2 DEF TypeOK, LocalInv, Frame, At, HandBack, SetOwn, Goto, AfterDrop, DropVar, callVars,
         Subs, Tops, Locations, CtxVars, MqVars
    <2> QED BY <2>1, <2>2
  <1>4. Local'
    BY <1>2, <1>3, LocalOthers
  <1>5. RefCount'
    BY RefSame DEF HandBack, SetOwn, Goto, ctxVars, mqVars, callVars
  <1>6. HeldIsUsable'
    BY HeldSame DEF HandBack, SetOwn, Goto, ctxVars, mqVars, callVars
  <1>7. Dying'
    BY <1>a, <1>2, DyingSame DEF HandBack, SetOwn, Goto, ctxVars, mqVars, callVars
  <1>8. QueueInOnePlace'
    BY <1>a, GqGive DEF HandBack, SetOwn, Flagged, OwnVars
  <1>9. DropOK(t)'
    <2>1. AfterDrop(t) \in {"fetch", "callback"} BY DEF AfterDrop
    <2> QED BY <2>1 DEF TypeOK, DropOK, At, HandBack, Goto, Subs
  <1>10. DropsReleased'
    BY <1>2, <1>9, DropOthers DEF HandBack, SetOwn, Goto, ctxVars, mqVars, callVars
  <1>11. SlotInit'
    <2>1. own[<<t, "new">>] \notin slot
      BY <1>a DEF DropsReleased, DropOK, At
    <2>2. \A u \in Threads : u # t => /\ own'[<<u, "new">>] = own[<<u, "new">>]
                                     /\ hold'[<<u, "ctx">>] = hold[<<u, "ctx">>]
      BY <1>2 DEF Frozen, MqVars, CtxVars
    <2> QED BY <1>a, <2>1, <2>2 DEF SlotInit, HandBack, ctxVars
  <1>12. Unborn'
    BY DEF Unborn, HandBack, SetOwn, Goto, ctxVars, mqVars, callVars
  <1> QED BY <1>1, <1>4, <1>5, <1>6, <1>7, <1>8, <1>10, <1>11, <1>12 DEF ServerInv

(* StartDrop preserves ServerInv.                                          *)
LEMMA StartDrop_Inv ==
  ASSUME ServerInv, NEW t \in Threads, StartDrop(t)
  PROVE  ServerInv'
  <1> USE ServerAssumption, Facts
  <1>a. /\ pc[t] = "mqrel" /\ own[<<t, "q">>] \in Services
        /\ hold[<<t, "new">>] = None /\ hold[<<t, "tgt">>] = None /\ own[<<t, "nq">>] = None /\ dying[t] = None
        /\ hold[<<t, "ctx">>] = IF own[<<t, "new">>] = None THEN None ELSE own[<<t, "q">>]
        /\ own[<<t, "new">>] \in Services \cup {None}
        /\ DropVar(t) \in MqVars /\ own[<<t, DropVar(t)>>] \in Services
        /\ t \notin Externals
    <2>1. pc[t] = "mqrel" BY DEF StartDrop
    <2>2. Frame(t, "mqrel") /\ hold[<<t, "tgt">>] = None /\ dying[t] = None
          /\ (t \in Externals => "mqrel" = "idle")
      BY <2>1, AtTop DEF Tops, Subs, Locations
    <2> QED BY <2>1, <2>2 DEF DropVar, Frame, TypeOK, CtxVars, MqVars
  <1>1. TypeOK'
    BY <1>a DEF TypeOK, StartDrop, Goto, ctxVars, mqVars, callVars, Locations, CtxVars, MqVars
  <1>2. Frozen(t)
    BY <1>a DEF TypeOK, Frozen, StartDrop, Goto, ctxVars, mqVars, callVars
  <1>3. LocalInv(t)'
    BY <1>a DEF TypeOK, LocalInv, Frame, At, StartDrop, Goto, ctxVars, mqVars, callVars,
       Subs, Tops, Locations, SendReturns, CtxVars, MqVars
  <1>4. Local'
    BY <1>2, <1>3, LocalOthers
  <1>5. RefCount'
    BY RefSame DEF StartDrop, Goto, ctxVars, mqVars, callVars
  <1>6. HeldIsUsable'
    BY HeldSame DEF StartDrop, Goto, ctxVars, mqVars, callVars
  <1>7. Dying'
    BY <1>a, <1>2, DyingSame DEF StartDrop, Goto, ctxVars, mqVars, callVars
  <1>8. QueueInOnePlace'
    BY PlaceSame DEF Flagged, StartDrop, Goto, ctxVars, mqVars, callVars
  <1>9. DropOK(t)'
    BY <1>a DEF TypeOK, DropsReleased, DropOK, DropVar, At, StartDrop, Goto, ctxVars, mqVars, callVars,
       Subs, Tops, Locations, SendReturns, CtxVars, MqVars
  <1>10. DropsReleased'
    BY <1>2, <1>9, DropOthers DEF StartDrop, Goto, ctxVars, mqVars, callVars
  <1>11. SlotInit'
    BY <1>a, SlotSame DEF TypeOK, StartDrop, Goto, ctxVars, mqVars, callVars, CtxVars, MqVars
  <1>12. Unborn'
    BY DEF Unborn, StartDrop, Goto, ctxVars, mqVars, callVars
  <1> QED BY <1>1, <1>4, <1>5, <1>6, <1>7, <1>8, <1>10, <1>11, <1>12 DEF ServerInv

(* DropMessage preserves ServerInv.                                        *)
LEMMA DropMessage_Inv ==
  ASSUME ServerInv, NEW t \in Threads, DropMessage(t)
  PROVE  ServerInv'
  <1> USE ServerAssumption, Facts
  <1>a. /\ pc[t] = "drop" /\ own[<<t, "q">>] \in Services
        /\ hold[<<t, "new">>] = None /\ hold[<<t, "tgt">>] = None /\ own[<<t, "nq">>] = None /\ dying[t] = None
        /\ hold[<<t, "ctx">>] = IF own[<<t, "new">>] = None THEN None ELSE own[<<t, "q">>]
        /\ own[<<t, "new">>] \in Services \cup {None}
        /\ DropVar(t) \in MqVars /\ own[<<t, DropVar(t)>>] \in Services
        /\ t \notin Externals
        /\ release[own[<<t, DropVar(t)>>]] = 1
    <2>1. pc[t] = "drop" BY DEF DropMessage
    <2>2. Frame(t, "drop") /\ hold[<<t, "tgt">>] = None /\ dying[t] = None
          /\ (t \in Externals => "drop" = "idle")
      BY <2>1, AtTop DEF Tops, Subs, Locations
    <2>3. release[own[<<t, DropVar(t)>>]] = 1 BY <2>1 DEF DropsReleased, DropOK, At
    <2> QED BY <2>1, <2>2, <2>3 DEF DropVar, Frame, TypeOK, CtxVars, MqVars
  <1>b. Head(mq[own[<<t, DropVar(t)>>]]) \in Message
        /\ mq' \in [Services -> Seq(Message)]
    BY <1>a DEF TypeOK, DropMessage
  <1>c. PICK m \in Message : m = Head(mq[own[<<t, DropVar(t)>>]]) BY <1>b
  <1>d. m.src \in Services \cup {None}
        /\ [src |-> own[<<t, DropVar(t)>>], id |-> m.id, kind |-> "error"] \in Message
    BY <1>a DEF Message, Kinds
  <1>1. TypeOK'
    <2>1. /\ dst' \in [Threads -> Services \cup {None}]
          /\ msg' \in [Threads -> Message]
      <3>1. CASE m.src = None
        BY <1>c, <3>1 DEF TypeOK, DropMessage, CallSend
      <3>2. CASE m.src # None
        <4>1. PICK e \in Message :
                dst' = [dst EXCEPT ![t] = m.src] /\ msg' = [msg EXCEPT ![t] = e]
          BY <1>c, <1>d, <3>2 DEF DropMessage, CallSend
        <4> QED BY <1>d, <4>1 DEF TypeOK
      <3> QED BY <3>1, <3>2
    <2>2. pc' \in [Threads -> Locations] /\ ret' \in [Threads -> Locations]
      BY DEF TypeOK, DropMessage, CallSend, Goto, Locations
    <2> QED BY <1>b, <2>1, <2>2 DEF TypeOK, DropMessage, ctxVars
  <1>2. Frozen(t)
    BY <1>a DEF TypeOK, Frozen, DropMessage, CallSend, Goto, ctxVars, mqVars, callVars
  <1>3. LocalInv(t)'
    <2>1. Head(mq[own[<<t, DropVar(t)>>]]).src \in Services \cup {None} BY <1>c, <1>d
    <2> QED BY <1>a, <2>1 DEF TypeOK, LocalInv, Frame, At, DropMessage, CallSend, Goto,
         Subs, Tops, Locations, SendReturns, CtxVars, MqVars
  <1>4. Local'
    BY <1>2, <1>3, LocalOthers
  <1>5. RefCount'
    BY RefSame DEF DropMessage, CallSend, Goto, ctxVars, mqVars, callVars
  <1>6. HeldIsUsable'
    BY HeldSame DEF DropMessage, CallSend, Goto, ctxVars, mqVars, callVars
  <1>7. Dying'
    BY <1>a, <1>2, DyingSame DEF DropMessage, CallSend, Goto, ctxVars, mqVars, callVars
  <1>8. QueueInOnePlace'
    BY PlaceSame DEF Flagged, DropMessage, CallSend, Goto, ctxVars, mqVars, callVars
  <1>9. DropOK(t)'
    BY <1>a DEF TypeOK, DropOK, DropVar, At, DropMessage, CallSend, Goto, ctxVars, Subs
  <1>10. DropsReleased'
    BY <1>2, <1>9, DropOthers DEF DropMessage, CallSend, Goto, ctxVars, mqVars, callVars
  <1>11. SlotInit'
    BY <1>a, SlotSame DEF TypeOK, DropMessage, CallSend, Goto, ctxVars, mqVars, callVars, CtxVars, MqVars
  <1>12. Unborn'
    BY DEF Unborn, DropMessage, CallSend, Goto, ctxVars, mqVars, callVars
  <1> QED BY <1>1, <1>4, <1>5, <1>6, <1>7, <1>8, <1>10, <1>11, <1>12 DEF ServerInv

(* FreeQueue preserves ServerInv.                                          *)
LEMMA FreeQueue_Inv ==
  ASSUME ServerInv, NEW t \in Threads, FreeQueue(t)
  PROVE  ServerInv'
  <1> USE ServerAssumption, Facts
  <1>a. /\ pc[t] = "drop" /\ own[<<t, "q">>] \in Services
        /\ hold[<<t, "new">>] = None /\ hold[<<t, "tgt">>] = None /\ own[<<t, "nq">>] = None /\ dying[t] = None
        /\ hold[<<t, "ctx">>] = IF own[<<t, "new">>] = None THEN None ELSE own[<<t, "q">>]
        /\ own[<<t, "new">>] \in Services \cup {None}
        /\ DropVar(t) \in MqVars /\ own[<<t, DropVar(t)>>] \in Services
        /\ t \notin Externals
        /\ release[own[<<t, DropVar(t)>>]] = 1
    <2>1. pc[t] = "drop" BY DEF FreeQueue
    <2>2. Frame(t, "drop") /\ hold[<<t, "tgt">>] = None /\ dying[t] = None
          /\ (t \in Externals => "drop" = "idle")
      BY <2>1, AtTop DEF Tops, Subs, Locations
    <2>3. release[own[<<t, DropVar(t)>>]] = 1 BY <2>1 DEF DropsReleased, DropOK, At
    <2> QED BY <2>1, <2>2, <2>3 DEF DropVar, Frame, TypeOK, CtxVars, MqVars
  <1>b. own[<<t, DropVar(t)>>] \notin slot /\ Holders(own[<<t, DropVar(t)>>]) = {}
    BY <1>a DEF HeldIsUsable
  <1>c. qmem[own[<<t, DropVar(t)>>]] = "alive"
    <2> PICK s \in Services : s = own[<<t, DropVar(t)>>] BY <1>a
    <2>1. Placed(s) BY <1>a DEF Placed
    <2> QED BY <2>1 DEF QueueInOnePlace, PlacedIffFlagged, Flagged
  <1>1. TypeOK'
    <2>1. AfterDrop(t) \in Locations BY DEF AfterDrop, Locations
    <2> QED BY <1>a, <2>1 DEF TypeOK, FreeQueue, SetOwn, Goto, ctxVars, callVars
  <1>2. Frozen(t)
    BY <1>a DEF TypeOK, Frozen, FreeQueue, SetOwn, Goto, ctxVars, mqVars, callVars
  <1>3. LocalInv(t)'
    <2>1. CASE own[<<t, "new">>] = None
      BY <1>a, <2>1 DEF TypeOK, LocalInv, Frame, At, FreeQueue, SetOwn, Goto, AfterDrop, DropVar, callVars,
         Subs, Tops, Locations, CtxVars, MqVars
    <2>2. CASE own[<<t, "new">>] # None
      BY <1>a, <2>2 DEF TypeOK, LocalInv, Frame, At, FreeQueue, SetOwn, Goto, AfterDrop, DropVar, callVars,
         Subs, Tops, Locations, CtxVars, MqVars
    <2> QED BY <2>1, <2>2
  <1>4. Local'
    BY <1>2, <1>3, LocalOthers
  <1>5. RefCount'
    BY RefSame DEF FreeQueue, SetOwn, Goto, ctxVars, mqVars, callVars
  <1>6. HeldIsUsable'
    <2>1. \A u \in Services : Holders(u)' = Holders(u) BY DEF Holders, FreeQueue
    <2> QED BY <1>a, <1>b, <2>1 DEF HeldIsUsable, FreeQueue, ctxVars, TypeOK
  <1>7. Dying'
    <2> PICK s \in Services : s = own[<<t, DropVar(t)>>] BY <1>a
    <2>1. \A u \in Threads : u # t => pc'[u] = pc[u] BY <1>2 DEF Frozen
    <2>2. /\ dying' = dying /\ ref' = ref /\ release' = release /\ mem' = mem
          /\ release[s] = 1
          /\ \A d \in Services : d # s => qmem'[d] = qmem[d]
      BY <1>a DEF FreeQueue, ctxVars, callVars, TypeOK
    <2>3. \A u \in Threads : dying[u] # None => dying[u] \in Services /\ u # t
      BY <1>a DEF TypeOK
    <2> QED BY <2>1, <2>2, <2>3 DEF Dying
  <1>8. QueueInOnePlace'
    <2> PICK s \in Services : s = own[<<t, DropVar(t)>>] BY <1>a
    <2>1. ~Flagged(s)' BY DEF FreeQueue, Flagged, TypeOK
    <2>2. \A u \in Services \ {s} : Flagged(u)' <=> Flagged(u)
      BY DEF FreeQueue, Flagged, TypeOK
    <2> QED BY <1>a, <2>1, <2>2, GiveUp DEF FreeQueue, SetOwn, OwnVars
  <1>9. DropOK(t)'
    <2>1. AfterDrop(t) \in {"fetch", "callback"} BY DEF AfterDrop
    <2> QED BY <2>1 DEF TypeOK, DropOK, At, FreeQueue, Goto, Subs
  <1>10. DropsReleased'
    BY <1>2, <1>9, DropOthers DEF FreeQueue, SetOwn, Goto, ctxVars, mqVars, callVars
  <1>11. SlotInit'
    <2>1. own[<<t, "new">>] # None => DropVar(t) = "new" BY DEF DropVar
    <2>2. own[<<t, "new">>] \notin slot BY <1>b, <2>1 DEF TypeOK
    <2>3. \A u \in Threads : u # t => /\ own'[<<u, "new">>] = own[<<u, "new">>]
                                     /\ hold'[<<u, "ctx">>] = hold[<<u, "ctx">>]
      BY <1>2 DEF Frozen, MqVars, CtxVars
    <2> QED BY <2>2, <2>3 DEF SlotInit, FreeQueue, ctxVars
  <1>12. Unborn'
    BY <1>a, <1>c DEF Unborn, FreeQueue, ctxVars, TypeOK
  <1> QED BY <1>1, <1>4, <1>5, <1>6, <1>7, <1>8, <1>10, <1>11, <1>12 DEF ServerInv

(* Send preserves ServerInv.                                               *)
LEMMA Send_Inv ==
  ASSUME ServerInv, NEW t \in Threads, NEW d \in Services, Send(t, d)
  PROVE  ServerInv'
  <1> USE ServerAssumption, Facts
  <1>a. /\ pc[t] \in {"callback", "init", "idle"}
        /\ hold[<<t, "tgt">>] = None /\ dying[t] = None /\ Frame(t, pc[t])
        /\ t \in Externals => pc[t] = "idle"
        /\ calls \in Nat /\ calls + 1 \in 0..MaxCalls
    <2>1. pc[t] \in {"callback", "init", "idle"} BY DEF Send, CanCall
    <2>2. pc[t] \in Tops BY <2>1 DEF Tops, Subs, Locations
    <2>3. calls \in Nat /\ calls + 1 \in 0..MaxCalls BY DEF Send, CountCall, TypeOK
    <2> QED BY <2>1, <2>2, <2>3, AtTop
  <1>b. PICK m \in Message : msg' = [msg EXCEPT ![t] = m]
    <2>1. pc[t] # "idle" => Running(t) \in Services
      BY <1>a DEF Running, Frame, TypeOK, MqVars
    <2>2. [src |-> IF pc[t] = "idle" THEN None ELSE Running(t),
           id |-> calls + 1, kind |-> "msg"] \in Message
      BY <1>a, <2>1 DEF Message, Kinds
    <2> QED BY <2>2 DEF Send, CallSend
  <1>1. TypeOK'
    <2>1. pc' \in [Threads -> Locations] /\ ret' \in [Threads -> Locations]
      BY <1>a DEF TypeOK, Send, CallSend, Goto, Locations
    <2>2. calls' \in 0..MaxCalls BY <1>a DEF Send, CountCall
    <2>3. dst' \in [Threads -> Services \cup {None}] BY DEF TypeOK, Send, CallSend
    <2>4. msg' \in [Threads -> Message] BY <1>b DEF TypeOK
    <2> QED BY <2>1, <2>2, <2>3, <2>4 DEF TypeOK, Send, ctxVars, mqVars
  <1>2. Frozen(t)
    BY <1>a DEF TypeOK, Frozen, Send, CallSend, CountCall, Goto, ctxVars, mqVars, callVars
  <1>3. LocalInv(t)'
    BY <1>a DEF TypeOK, LocalInv, Frame, At, Send, CallSend, Goto,
       Subs, Tops, SendReturns, CtxVars, MqVars
  <1>4. Local'
    BY <1>2, <1>3, LocalOthers
  <1>5. RefCount'
    BY RefSame DEF Send, CallSend, CountCall, Goto, ctxVars, mqVars, callVars
  <1>6. HeldIsUsable'
    BY HeldSame DEF Send, CallSend, CountCall, Goto, ctxVars, mqVars, callVars
  <1>7. Dying'
    BY <1>a, <1>2, DyingSame DEF Send, CallSend, CountCall, Goto, ctxVars, mqVars, callVars
  <1>8. QueueInOnePlace'
    BY PlaceSame DEF Flagged, Send, CallSend, CountCall, Goto, ctxVars, mqVars, callVars
  <1>9. DropOK(t)'
    BY <1>a DEF TypeOK, DropOK, At, Send, CallSend, Goto, Subs
  <1>10. DropsReleased'
    BY <1>2, <1>9, DropOthers DEF Send, CallSend, CountCall, Goto, ctxVars, mqVars, callVars
  <1>11. SlotInit'
    BY <1>a, SlotSame DEF TypeOK, Send, CallSend, CountCall, Goto, ctxVars, mqVars, callVars, CtxVars, MqVars
  <1>12. Unborn'
    BY DEF Unborn, Send, CallSend, CountCall, Goto, ctxVars, mqVars, callVars
  <1> QED BY <1>1, <1>4, <1>5, <1>6, <1>7, <1>8, <1>10, <1>11, <1>12 DEF ServerInv

(* Borrow preserves ServerInv.                                             *)
LEMMA Borrow_Inv ==
  ASSUME ServerInv, NEW t \in Threads, NEW s \in Services, Borrow(t, s)
  PROVE  ServerInv'
  <1> USE ServerAssumption, Facts
  <1>a. /\ pc[t] \in {"callback", "init"}
        /\ hold[<<t, "tgt">>] = None /\ dying[t] = None /\ Frame(t, pc[t])
        /\ t \in Externals => pc[t] = "idle"
        /\ calls \in Nat /\ calls + 1 \in 0..MaxCalls
    <2>1. pc[t] \in {"callback", "init"} BY DEF Borrow, CanCall
    <2>2. pc[t] \in Tops BY <2>1 DEF Tops, Subs, Locations
    <2>3. calls \in Nat /\ calls + 1 \in 0..MaxCalls BY DEF Borrow, CountCall, TypeOK
    <2> QED BY <2>1, <2>2, <2>3, AtTop
  <1>1. TypeOK'
    <2>1. pc' \in [Threads -> Locations] /\ ret' \in [Threads -> Locations]
      BY <1>a DEF TypeOK, Borrow, CallRelease, Goto, Locations
    <2>2. calls' \in 0..MaxCalls BY <1>a DEF Borrow, CountCall
    <2> QED BY <2>1, <2>2 DEF TypeOK, Borrow, SetHold, CallRelease, mqVars, CtxVars
  <1>2. Frozen(t)
    BY <1>a DEF TypeOK, Frozen, Borrow, SetHold, CallRelease, CountCall, Goto, ctxVars, mqVars, callVars
  <1>3. LocalInv(t)'
    BY <1>a DEF TypeOK, LocalInv, Frame, At, Borrow, SetHold, CallRelease, Goto, mqVars,
       Subs, Tops, SendReturns, CtxVars, MqVars
  <1>4. Local'
    BY <1>2, <1>3, LocalOthers
  <1>5. RefCount'
    BY <1>a, RefGrab DEF Borrow, SetHold, CtxVars
  <1>6. HeldIsUsable'
    BY <1>a, HeldGrab DEF Borrow, SetHold, CtxVars, HoldVars, mqVars
  <1>7. Dying'
    BY <1>a, <1>2, DyingSame, DyingUnreachable DEF TypeOK, Borrow, mqVars
  <1>8. QueueInOnePlace'
    BY PlaceSame DEF Flagged, Borrow, SetHold, CallRelease, CountCall, Goto, ctxVars, mqVars, callVars
  <1>9. DropOK(t)'
    BY <1>a DEF TypeOK, DropOK, At, Borrow, CallRelease, Goto, Subs
  <1>10. DropsReleased'
    BY <1>2, <1>9, DropOthers DEF Borrow, SetHold, CallRelease, CountCall, Goto, ctxVars, mqVars, callVars
  <1>11. SlotInit'
    BY <1>a, SlotSame DEF TypeOK, Borrow, SetHold, CallRelease, CountCall, Goto, ctxVars, mqVars, callVars, CtxVars, MqVars
  <1>12. Unborn'
    BY DEF Unborn, Borrow, SetHold, CallRelease, CountCall, Goto, ctxVars, mqVars, callVars
  <1> QED BY <1>1, <1>4, <1>5, <1>6, <1>7, <1>8, <1>10, <1>11, <1>12 DEF ServerInv

(* handle_exit preserves ServerInv.                                        *)
LEMMA handle_exit_Inv ==
  ASSUME ServerInv, NEW t \in Threads, NEW s \in Services, handle_exit(t, s)
  PROVE  ServerInv'
  <1> USE ServerAssumption, Facts
  <1>a. /\ pc[t] \in {"callback", "init"}
        /\ hold[<<t, "tgt">>] = None /\ dying[t] = None /\ Frame(t, pc[t])
        /\ t \in Externals => pc[t] = "idle"
        /\ calls \in Nat /\ calls + 1 \in 0..MaxCalls
    <2>1. pc[t] \in {"callback", "init"} BY DEF handle_exit, CanCall
    <2>2. pc[t] \in Tops BY <2>1 DEF Tops, Subs, Locations
    <2>3. calls \in Nat /\ calls + 1 \in 0..MaxCalls BY DEF handle_exit, CountCall, TypeOK
    <2> QED BY <2>1, <2>2, <2>3, AtTop
  <1>1. TypeOK'
    <2>1. pc' \in [Threads -> Locations] /\ ret' \in [Threads -> Locations]
      BY <1>a DEF TypeOK, handle_exit, CallSend, Goto, Locations
    <2>2. calls' \in 0..MaxCalls BY <1>a DEF handle_exit, CountCall
    <2>3. [src |-> s, id |-> calls + 1, kind |-> "exit"] \in Message
      BY <1>a DEF Message, Kinds
    <2>4. dst' \in [Threads -> Services \cup {None}] /\ msg' \in [Threads -> Message]
      <3>1. CASE MonitorExit = None BY <3>1 DEF TypeOK, handle_exit
      <3>2. CASE MonitorExit # None
        <4>1. PICK e \in Message :
                dst' = [dst EXCEPT ![t] = MonitorExit] /\ msg' = [msg EXCEPT ![t] = e]
          BY <2>3, <3>2 DEF handle_exit, CallSend
        <4> QED BY <4>1 DEF TypeOK
      <3> QED BY <3>1, <3>2
    <2> QED BY <2>1, <2>2, <2>4 DEF TypeOK, handle_exit, ctxVars, mqVars
  <1>2. Frozen(t)
    BY <1>a DEF TypeOK, Frozen, handle_exit, CallSend, CountCall, Goto, ctxVars, mqVars, callVars
  <1>3. LocalInv(t)'
    BY <1>a DEF TypeOK, LocalInv, Frame, At, handle_exit, CallSend, Goto,
       Subs, Tops, Locations, SendReturns, CtxVars, MqVars
  <1>4. Local'
    BY <1>2, <1>3, LocalOthers
  <1>5. RefCount'
    BY RefSame DEF handle_exit, CallSend, CountCall, Goto, ctxVars, mqVars, callVars
  <1>6. HeldIsUsable'
    BY HeldSame DEF handle_exit, CallSend, CountCall, Goto, ctxVars, mqVars, callVars
  <1>7. Dying'
    BY <1>a, <1>2, DyingSame DEF handle_exit, CallSend, CountCall, Goto, ctxVars, mqVars, callVars
  <1>8. QueueInOnePlace'
    BY PlaceSame DEF Flagged, handle_exit, CallSend, CountCall, Goto, ctxVars, mqVars, callVars
  <1>9. DropOK(t)'
    BY <1>a DEF TypeOK, DropOK, At, handle_exit, CallSend, Goto, Subs
  <1>10. DropsReleased'
    BY <1>2, <1>9, DropOthers DEF handle_exit, CallSend, CountCall, Goto, ctxVars, mqVars, callVars
  <1>11. SlotInit'
    BY <1>a, SlotSame DEF TypeOK, handle_exit, CallSend, CountCall, Goto, ctxVars, mqVars, callVars, CtxVars, MqVars
  <1>12. Unborn'
    BY DEF Unborn, handle_exit, CallSend, CountCall, Goto, ctxVars, mqVars, callVars
  <1> QED BY <1>1, <1>4, <1>5, <1>6, <1>7, <1>8, <1>10, <1>11, <1>12 DEF ServerInv

(* RetireVictim preserves ServerInv when the handle is in the table.       *)
LEMMA RetireVictim_Retire_Inv ==
  ASSUME ServerInv, NEW t \in Threads, pc[t] = "retire",
         Retire(t, victim[t], Home(t)), victim' = [victim EXCEPT ![t] = None]
  PROVE  ServerInv'
  <1> USE ServerAssumption, Facts
  <1>a. /\ pc[t] = "retire" /\ victim[t] \in Services
        /\ hold[<<t, "tgt">>] = None /\ dying[t] = None /\ Frame(t, "retire")
        /\ t \notin Externals
    <2>1. pc[t] = "retire" /\ pc[t] \in Tops BY DEF Tops, Subs, Locations
    <2>2. victim[t] \in Services
      <3>1. LocalInv(t) BY DEF Local
      <3> QED BY <2>1, <3>1 DEF LocalInv, At, Frame, TypeOK, MqVars
    <2> QED BY <2>1, <2>2, AtTop
  <1>b. Home(t) \in {"init", "callback"} BY DEF Home
  <1>1. TypeOK'
    <2>1. pc' \in [Threads -> Locations] /\ ret' \in [Threads -> Locations]
      BY <1>a, <1>b DEF TypeOK, Retire, CallRelease, Goto, Locations
    <2> QED BY <1>a, <2>1 DEF TypeOK, Retire, SetHold, CallRelease, Goto, ctxVars, mqVars, CtxVars
  <1>2. Frozen(t)
    BY <1>a DEF TypeOK, Frozen, Retire, SetHold, CallRelease, Goto
  <1>3. LocalInv(t)'
    BY <1>a DEF TypeOK, LocalInv, Frame, At, Retire, SetHold, CallRelease, Goto, Home,
       Subs, Tops, Locations, SendReturns, CtxVars, MqVars
  <1>4. Local'
    BY <1>2, <1>3, LocalOthers
  <1>5. RefCount'
    BY <1>a, RefRetire DEF Retire, SetHold, ctxVars, CtxVars
  <1>6. HeldIsUsable'
    BY <1>a, HeldGrab DEF Retire, SetHold, CtxVars, HoldVars, ctxVars, mqVars
  <1>7. Dying'
    BY <1>a, <1>2, DyingSame DEF Retire, SetHold, CallRelease, Goto, ctxVars, mqVars, callVars
  <1>8. QueueInOnePlace'
    BY PlaceSame DEF Flagged, Retire, SetHold, CallRelease, Goto, ctxVars, mqVars, callVars
  <1>9. DropOK(t)'
    BY <1>a, <1>b DEF TypeOK, DropOK, At, Retire, CallRelease, Goto, Subs
  <1>10. DropsReleased'
    BY <1>2, <1>9, DropOthers DEF Retire, ctxVars, mqVars
  <1>11. SlotInit'
    BY <1>a, SlotSame DEF TypeOK, Retire, SetHold, CallRelease, Goto, ctxVars, CtxVars, MqVars
  <1>12. Unborn'
    BY DEF Unborn, Retire, SetHold, CallRelease, Goto, ctxVars, mqVars, callVars
  <1> QED BY <1>1, <1>4, <1>5, <1>6, <1>7, <1>8, <1>10, <1>11, <1>12 DEF ServerInv

(* RetireVictim preserves ServerInv when the handle is not in the table.   *)
LEMMA RetireVictim_NothingToRetire_Inv ==
  ASSUME ServerInv, NEW t \in Threads, pc[t] = "retire",
         NothingToRetire(t, victim[t], Home(t)), victim' = [victim EXCEPT ![t] = None]
  PROVE  ServerInv'
  <1> USE ServerAssumption, Facts
  <1>a. /\ pc[t] = "retire" /\ victim[t] \in Services
        /\ hold[<<t, "tgt">>] = None /\ dying[t] = None /\ Frame(t, "retire")
        /\ t \notin Externals
    <2>1. pc[t] = "retire" /\ pc[t] \in Tops BY DEF Tops, Subs, Locations
    <2>2. victim[t] \in Services
      <3>1. LocalInv(t) BY DEF Local
      <3> QED BY <2>1, <3>1 DEF LocalInv, At, Frame, TypeOK, MqVars
    <2> QED BY <2>1, <2>2, AtTop
  <1>b. Home(t) \in {"init", "callback"} BY DEF Home
  <1>1. TypeOK'
    <2>1. pc' \in [Threads -> Locations] /\ ret' \in [Threads -> Locations]
      BY <1>a, <1>b DEF TypeOK, NothingToRetire, Goto, Locations
    <2> QED BY <1>a, <2>1 DEF TypeOK, NothingToRetire, Goto, ctxVars, mqVars, CtxVars
  <1>2. Frozen(t)
    BY <1>a DEF TypeOK, Frozen, NothingToRetire, Goto
  <1>3. LocalInv(t)'
    BY <1>a DEF TypeOK, LocalInv, Frame, At, NothingToRetire, Goto, Home,
       Subs, Tops, Locations, SendReturns, CtxVars, MqVars
  <1>4. Local'
    BY <1>2, <1>3, LocalOthers
  <1>5. RefCount'
    BY RefSame DEF NothingToRetire, Goto, ctxVars, mqVars, callVars
  <1>6. HeldIsUsable'
    BY HeldSame DEF NothingToRetire, Goto, ctxVars, mqVars, callVars
  <1>7. Dying'
    BY <1>a, <1>2, DyingSame DEF NothingToRetire, Goto, ctxVars, mqVars, callVars
  <1>8. QueueInOnePlace'
    BY PlaceSame DEF Flagged, NothingToRetire, Goto, ctxVars, mqVars, callVars
  <1>9. DropOK(t)'
    BY <1>a, <1>b DEF TypeOK, DropOK, At, NothingToRetire, Goto, Subs
  <1>10. DropsReleased'
    BY <1>2, <1>9, DropOthers DEF NothingToRetire, ctxVars, mqVars
  <1>11. SlotInit'
    BY <1>a, SlotSame DEF TypeOK, NothingToRetire, Goto, ctxVars, CtxVars, MqVars
  <1>12. Unborn'
    BY DEF Unborn, NothingToRetire, Goto, ctxVars, mqVars, callVars
  <1> QED BY <1>1, <1>4, <1>5, <1>6, <1>7, <1>8, <1>10, <1>11, <1>12 DEF ServerInv

(* RetireFailed preserves ServerInv when the handle is in the table.       *)
LEMMA RetireFailed_Retire_Inv ==
  ASSUME ServerInv, NEW t \in Threads, pc[t] = "l_retire",
         Retire(t, own[<<t, "new">>], "mqrel"), victim' = victim
  PROVE  ServerInv'
  <1> USE ServerAssumption, Facts
  <1>a. /\ pc[t] = "l_retire" /\ own[<<t, "new">>] \in Services
        /\ hold[<<t, "tgt">>] = None /\ dying[t] = None /\ Frame(t, "l_retire")
        /\ t \notin Externals
    <2>1. pc[t] = "l_retire" /\ pc[t] \in Tops BY DEF Tops, Subs, Locations
    <2>2. own[<<t, "new">>] \in Services
      <3>1. LocalInv(t) BY DEF Local
      <3> QED BY <2>1, <3>1 DEF LocalInv, At, Frame, TypeOK, MqVars
    <2> QED BY <2>1, <2>2, AtTop
  <1>1. TypeOK'
    <2>1. pc' \in [Threads -> Locations] /\ ret' \in [Threads -> Locations]
      BY <1>a DEF TypeOK, Retire, CallRelease, Goto, Locations
    <2> QED BY <1>a, <2>1 DEF TypeOK, Retire, SetHold, CallRelease, Goto, ctxVars, mqVars, CtxVars
  <1>2. Frozen(t)
    BY <1>a DEF TypeOK, Frozen, Retire, SetHold, CallRelease, Goto
  <1>3. LocalInv(t)'
    BY <1>a DEF TypeOK, LocalInv, Frame, At, Retire, SetHold, CallRelease, Goto,
       Subs, Tops, Locations, SendReturns, CtxVars, MqVars
  <1>4. Local'
    BY <1>2, <1>3, LocalOthers
  <1>5. RefCount'
    BY <1>a, RefRetire DEF Retire, SetHold, ctxVars, CtxVars
  <1>6. HeldIsUsable'
    BY <1>a, HeldGrab DEF Retire, SetHold, CtxVars, HoldVars, ctxVars, mqVars
  <1>7. Dying'
    BY <1>a, <1>2, DyingSame DEF Retire, SetHold, CallRelease, Goto, ctxVars, mqVars, callVars
  <1>8. QueueInOnePlace'
    BY PlaceSame DEF Flagged, Retire, SetHold, CallRelease, Goto, ctxVars, mqVars, callVars
  <1>9. DropOK(t)'
    BY <1>a DEF TypeOK, DropOK, At, Retire, CallRelease, Goto, Subs
  <1>10. DropsReleased'
    BY <1>2, <1>9, DropOthers DEF Retire, ctxVars, mqVars
  <1>11. SlotInit'
    BY <1>a, SlotSame DEF TypeOK, Retire, SetHold, CallRelease, Goto, ctxVars, CtxVars, MqVars
  <1>12. Unborn'
    BY DEF Unborn, Retire, SetHold, CallRelease, Goto, ctxVars, mqVars, callVars
  <1> QED BY <1>1, <1>4, <1>5, <1>6, <1>7, <1>8, <1>10, <1>11, <1>12 DEF ServerInv

(* RetireFailed preserves ServerInv when the handle is not in the table.   *)
LEMMA RetireFailed_NothingToRetire_Inv ==
  ASSUME ServerInv, NEW t \in Threads, pc[t] = "l_retire",
         NothingToRetire(t, own[<<t, "new">>], "mqrel"), victim' = victim
  PROVE  ServerInv'
  <1> USE ServerAssumption, Facts
  <1>a. /\ pc[t] = "l_retire" /\ own[<<t, "new">>] \in Services
        /\ hold[<<t, "tgt">>] = None /\ dying[t] = None /\ Frame(t, "l_retire")
        /\ t \notin Externals
    <2>1. pc[t] = "l_retire" /\ pc[t] \in Tops BY DEF Tops, Subs, Locations
    <2>2. own[<<t, "new">>] \in Services
      <3>1. LocalInv(t) BY DEF Local
      <3> QED BY <2>1, <3>1 DEF LocalInv, At, Frame, TypeOK, MqVars
    <2> QED BY <2>1, <2>2, AtTop
  <1>1. TypeOK'
    <2>1. pc' \in [Threads -> Locations] /\ ret' \in [Threads -> Locations]
      BY <1>a DEF TypeOK, NothingToRetire, Goto, Locations
    <2> QED BY <1>a, <2>1 DEF TypeOK, NothingToRetire, Goto, ctxVars, mqVars, CtxVars
  <1>2. Frozen(t)
    BY <1>a DEF TypeOK, Frozen, NothingToRetire, Goto
  <1>3. LocalInv(t)'
    BY <1>a DEF TypeOK, LocalInv, Frame, At, NothingToRetire, Goto,
       Subs, Tops, Locations, SendReturns, CtxVars, MqVars
  <1>4. Local'
    BY <1>2, <1>3, LocalOthers
  <1>5. RefCount'
    BY RefSame DEF NothingToRetire, Goto, ctxVars, mqVars, callVars
  <1>6. HeldIsUsable'
    BY HeldSame DEF NothingToRetire, Goto, ctxVars, mqVars, callVars
  <1>7. Dying'
    BY <1>a, <1>2, DyingSame DEF NothingToRetire, Goto, ctxVars, mqVars, callVars
  <1>8. QueueInOnePlace'
    BY PlaceSame DEF Flagged, NothingToRetire, Goto, ctxVars, mqVars, callVars
  <1>9. DropOK(t)'
    BY <1>a DEF TypeOK, DropOK, At, NothingToRetire, Goto, Subs
  <1>10. DropsReleased'
    BY <1>2, <1>9, DropOthers DEF NothingToRetire, ctxVars, mqVars
  <1>11. SlotInit'
    BY <1>a, SlotSame DEF TypeOK, NothingToRetire, Goto, ctxVars, CtxVars, MqVars
  <1>12. Unborn'
    BY DEF Unborn, NothingToRetire, Goto, ctxVars, mqVars, callVars
  <1> QED BY <1>1, <1>4, <1>5, <1>6, <1>7, <1>8, <1>10, <1>11, <1>12 DEF ServerInv

(* skynet_context_new preserves ServerInv.                                 *)
LEMMA skynet_context_new_Inv ==
  ASSUME ServerInv, NEW t \in Threads, NEW s \in Services, skynet_context_new(t, s)
  PROVE  ServerInv'
  <1> USE ServerAssumption, Facts
  <1>a. /\ pc[t] = "callback" /\ mem[s] = "none"
        /\ own[<<t, "q">>] \in Services /\ hold[<<t, "ctx">>] = own[<<t, "q">>]
        /\ hold[<<t, "new">>] = None /\ hold[<<t, "tgt">>] = None
        /\ own[<<t, "nq">>] = None /\ own[<<t, "new">>] = None /\ dying[t] = None
        /\ t \notin Externals
    <2>1. pc[t] = "callback" BY DEF skynet_context_new, SetHold, SetOwn, Goto
    <2>2. Frame(t, "callback") /\ hold[<<t, "tgt">>] = None /\ dying[t] = None
          /\ (t \in Externals => "callback" = "idle")
      BY <2>1, AtTop DEF Tops, Subs, Locations
    <2> QED BY <2>1, <2>2 DEF skynet_context_new, SetHold, SetOwn, Goto, Frame, TypeOK, CtxVars, MqVars
  <1>b. /\ s \notin slot /\ Holders(s) = {}
        /\ qmem[s] = "none" /\ in_global[s] = 0 /\ release[s] = 0
    BY <1>a DEF HeldIsUsable, Unborn
  <1>c. ~Placed(s) BY <1>b DEF QueueInOnePlace, PlacedIffFlagged, Flagged
  <1>d. \A x \in OwnVars : own[x] # s BY <1>c DEF Placed, OwnVars
  <1>1. TypeOK'
    <2>1. hold' \in [Threads \X CtxVars -> Services \cup {None}]
      BY DEF TypeOK, skynet_context_new, SetHold
    <2>2. own' \in [Threads \X MqVars -> Services \cup {None}]
      BY DEF TypeOK, skynet_context_new, SetOwn
    <2>3. pc' \in [Threads -> Locations] BY DEF TypeOK, skynet_context_new, Goto, Locations
    <2>4. /\ slot' \in SUBSET Services /\ ref' \in [Services -> Int] /\ total' \in Int
          /\ mem' \in [Services -> {"none", "alive", "freed"}]
          /\ qmem' \in [Services -> {"none", "alive", "freed"}]
          /\ in_global' \in [Services -> {0, 1}]
      BY DEF TypeOK, skynet_context_new
    <2> QED BY <2>1, <2>2, <2>3, <2>4 DEF TypeOK, skynet_context_new, callVars
  <1>2. Frozen(t)
    BY <1>a DEF TypeOK, Frozen, skynet_context_new, SetHold, SetOwn, Goto, ctxVars, mqVars, callVars
  <1>3. LocalInv(t)'
    BY <1>a DEF TypeOK, LocalInv, Frame, At, skynet_context_new, SetHold, SetOwn, Goto, ctxVars, mqVars, callVars,
       Subs, Tops, Locations, SendReturns, CtxVars, MqVars
  <1>4. Local'
    BY <1>2, <1>3, LocalOthers
  <1>5. RefCount'
    BY <1>a, <1>b, RefNew DEF skynet_context_new, SetHold, CtxVars
  <1>6. HeldIsUsable'
    <2>1. \A u \in Services : u # s => Holders(u)' \in SUBSET Holders(u)
      BY DEF TypeOK, Holders, skynet_context_new, SetHold
    <2> QED BY <1>b, <2>1 DEF HeldIsUsable, skynet_context_new, TypeOK
  <1>7. Dying'
    <2>1. \A u \in Threads : dying[u] # None => dying[u] # s BY <1>a DEF Dying
    <2> QED BY <1>a, <1>2, <2>1, DyingSame DEF TypeOK, skynet_context_new, callVars
  <1>8. QueueInOnePlace'
    <2>1. Flagged(s)' BY DEF Flagged, skynet_context_new, TypeOK
    <2>2. \A u \in Services \ {s} : Flagged(u)' <=> Flagged(u)
      BY DEF Flagged, skynet_context_new, TypeOK
    <2> QED BY <1>a, <1>c, <2>1, <2>2, TakeNew DEF skynet_context_new, SetOwn, OwnVars, MqVars
  <1>9. DropOK(t)'
    BY <1>a DEF TypeOK, DropOK, At, skynet_context_new, Goto, Subs
  <1>10. DropsReleased'
    BY <1>2, <1>9, <1>d, DropOthers DEF skynet_context_new
  <1>11. SlotInit'
    <2>1. \A u \in Threads : u # t => own'[<<u, "new">>] = own[<<u, "new">>]
      BY <1>2 DEF Frozen, MqVars
    <2>2. own'[<<t, "new">>] = s BY DEF skynet_context_new, SetOwn, TypeOK, MqVars
    <2>3. \A u \in Threads : hold'[<<u, "ctx">>] = hold[<<u, "ctx">>]
      BY DEF skynet_context_new, SetHold, TypeOK, CtxVars
    <2>4. slot' = slot \cup {s} /\ init' = init BY DEF skynet_context_new
    <2>5. \A r \in slot : r # s /\ (init[r] \/ \E u \in Threads : own[<<u, "new">>] = r)
      BY <1>b DEF SlotInit
    <2>7. ASSUME NEW r \in slot', ~init'[r]
          PROVE  \E u \in Threads : own'[<<u, "new">>] = r
      <3>1. CASE r = s BY <2>2, <3>1
      <3>2. CASE r # s
        <4>1. r \in slot /\ r # None BY <2>4, <3>2 DEF TypeOK
        <4>2. PICK u \in Threads : own[<<u, "new">>] = r BY <2>4, <2>5, <2>7, <4>1
        <4> QED BY <1>a, <2>1, <4>1, <4>2
      <3> QED BY <3>1, <3>2
    <2> QED BY <2>3, <2>4, <2>7 DEF SlotInit
  <1>12. Unborn'
    BY DEF Unborn, skynet_context_new, TypeOK
  <1> QED BY <1>1, <1>4, <1>5, <1>6, <1>7, <1>8, <1>10, <1>11, <1>12 DEF ServerInv

-----------------------------------------------------------------------------
(* The initial states satisfy ServerInv.                                   *)

(* The state after skynet_start has launched the services of Boot.         *)
LEMMA InitInv ==
  ASSUME Init PROVE ServerInv
  <1> USE ServerAssumption
  <1>1. TypeOK
    <2>1. Cardinality(Boot) \in Nat
      BY FS_Subset, FS_CardinalityType
    <2>2. gq \in Seq(Services)
      <3>1. gq \in [1..Cardinality(Boot) -> Boot] BY DEF Init, Orders
      <3>2. gq \in [1..Cardinality(Boot) -> Services] BY <3>1
      <3>3. PICK n \in Nat : n = Cardinality(Boot) BY <2>1
      <3> QED BY <3>2, <3>3
    <2>3. mq \in [Services -> Seq(Message)]
      <3>1. \A s \in Services : [NoMsg EXCEPT !.src = s] \in Message
        BY DEF NoMsg, Message, Kinds
      <3>2. \A s \in Services : <<[NoMsg EXCEPT !.src = s]>> \in Seq(Message)
        BY <3>1
      <3> QED BY <3>2 DEF Init, FirstMq
    <2>4. msg \in [Threads -> Message]
      BY DEF Init, NoMsg, Message, Kinds
    <2>5. pc \in [Threads -> Locations] /\ ret \in [Threads -> Locations]
      BY DEF Init, Locations
    <2>6. hold \in [Threads \X CtxVars -> Services \cup {None}]
          /\ own \in [Threads \X MqVars -> Services \cup {None}]
      BY DEF Init
    <2>7. total \in Int BY <2>1 DEF Init
    <2> QED BY <2>2, <2>3, <2>4, <2>5, <2>6, <2>7 DEF Init, TypeOK, CtxVars
  <1>2. /\ \A t \in Threads, v \in CtxVars : hold[<<t, v>>] = None
        /\ \A t \in Threads, v \in MqVars : own[<<t, v>>] = None
    BY DEF Init
  <1>3. Local
    <2> SUFFICES ASSUME NEW t \in Threads PROVE LocalInv(t) BY DEF Local
    <2>1. /\ hold[<<t, "ctx">>] = None /\ hold[<<t, "tgt">>] = None
          /\ hold[<<t, "new">>] = None /\ own[<<t, "q">>] = None
          /\ own[<<t, "nq">>] = None /\ own[<<t, "new">>] = None
      BY <1>2 DEF CtxVars, MqVars
    <2>2. pc[t] \in {"fetch", "idle"} /\ dying[t] = None
          /\ (t \in Externals => pc[t] = "idle")
      BY DEF Init, Threads
    <2> QED BY <2>1, <2>2 DEF LocalInv, Frame, At, Subs, Tops, Locations
  <1>4. \A s \in Services : Holders(s) = {} BY DEF Holders, Init
  <1>5. RefCount
    <2>1. \A s \in Services : Cardinality(Holders(s)) = 0
      BY <1>4, FS_EmptySet
    <2> QED BY <2>1 DEF RefCount, Init
  <1>6. HeldIsUsable BY <1>4 DEF HeldIsUsable, Init
  <1>7. Dying BY DEF Dying, Init
  <1>8. QueueInOnePlace
    <2>1. /\ gq \in [1..Cardinality(Boot) -> Boot]
          /\ \A i, j \in 1..Cardinality(Boot) : gq[i] = gq[j] => i = j
          /\ \A s \in Boot : \E i \in 1..Cardinality(Boot) : gq[i] = s
      BY DEF Init, Orders
    <2>2. DOMAIN gq = 1..Cardinality(Boot) BY <2>1
    <2>3. \A x \in Threads \X MqVars : own[x] = None BY DEF Init
    <2>4. InOnePlace BY <2>1, <2>2, <2>3 DEF InOnePlace
    <2>5. \A s \in Services : Placed(s) <=> s \in Boot
      BY <2>1, <2>2, <2>3 DEF Placed
    <2>6. \A s \in Services : Flagged(s) <=> s \in Boot
      BY DEF Flagged, Init
    <2> QED BY <2>4, <2>5, <2>6 DEF QueueInOnePlace, PlacedIffFlagged
  <1>9. DropsReleased
    BY DEF DropsReleased, DropOK, At, Init, Subs, Threads
  <1>10. SlotInit
    BY <1>2 DEF SlotInit, Init, CtxVars
  <1>11. Unborn BY DEF Unborn, Init
  <1> QED BY <1>1, <1>3, <1>5, <1>6, <1>7, <1>8, <1>9, <1>10, <1>11 DEF ServerInv

(* A step that changes nothing preserves it.                               *)
LEMMA StutterInv ==
  ASSUME ServerInv, UNCHANGED vars PROVE ServerInv'
  <1> USE Facts DEF vars, ctxVars, mqVars, callVars
  <1>1. TypeOK' BY DEF TypeOK
  <1>2. Local'
    <2> SUFFICES ASSUME NEW t \in Threads PROVE LocalInv(t)' BY DEF Local
    <2>1. LocalInv(t) BY DEF Local
    <2> QED BY <2>1 DEF LocalInv, Frame, At
  <1>3. RefCount' BY RefSame
  <1>4. HeldIsUsable' BY HeldSame
  <1>5. Dying' BY DEF Dying
  <1>6. QueueInOnePlace' BY PlaceSame DEF Flagged
  <1>7. DropsReleased' BY DEF DropsReleased, DropOK, DropVar, At
  <1>8. SlotInit' BY DEF SlotInit
  <1>9. Unborn' BY DEF Unborn
  <1> QED BY <1>1, <1>2, <1>3, <1>4, <1>5, <1>6, <1>7, <1>8, <1>9 DEF ServerInv

(* Every step preserves it: one case per action.                           *)
LEMMA NextInv ==
  ASSUME ServerInv, Next PROVE ServerInv'
  <1> PICK t \in Threads : Run(t) \/ Call(t) BY DEF Next
  <1>1. CASE Call(t)
    <2> PICK s \in Services :
          Send(t, s) \/ Borrow(t, s) \/ handle_exit(t, s) \/ skynet_context_new(t, s)
      BY <1>1 DEF Call
    <2> QED BY Send_Inv, Borrow_Inv, handle_exit_Inv, skynet_context_new_Inv
  <1>2. CASE RetireVictim(t)
    BY <1>2, RetireVictim_Retire_Inv, RetireVictim_NothingToRetire_Inv DEF RetireVictim
  <1>3. CASE RetireFailed(t)
    BY <1>3, RetireFailed_Retire_Inv, RetireFailed_NothingToRetire_Inv DEF RetireFailed
  <1>4. CASE \/ skynet_globalmq_pop(t) \/ DispatchGrab(t) \/ DispatchGone(t)
             \/ PopMessage(t) \/ PopEmpty(t) \/ CallbackReturns(t)
             \/ KeepQueue(t) \/ PopNext(t) \/ PutBack(t)
    BY <1>4, skynet_globalmq_pop_Inv, DispatchGrab_Inv, DispatchGone_Inv, PopMessage_Inv,
       PopEmpty_Inv, CallbackReturns_Inv, KeepQueue_Inv, PopNext_Inv, PutBack_Inv
  <1>5. CASE \/ KeepContext(t) \/ LastReference(t)
             \/ skynet_mq_mark_release(t) \/ FreeContext(t)
             \/ PushGrab(t) \/ PushGone(t) \/ skynet_mq_push(t)
    BY <1>5, KeepContext_Inv, LastReference_Inv, skynet_mq_mark_release_Inv,
       FreeContext_Inv, PushGrab_Inv, PushGone_Inv, skynet_mq_push_Inv
  <1>6. CASE \/ HandBack(t) \/ StartDrop(t) \/ DropMessage(t) \/ FreeQueue(t)
             \/ InitSucceeds(t) \/ InitFails(t) \/ SetInit(t) \/ PublishQueue(t)
    BY <1>6, HandBack_Inv, StartDrop_Inv, DropMessage_Inv, FreeQueue_Inv,
       InitSucceeds_Inv, InitFails_Inv, SetInit_Inv, PublishQueue_Inv
  <1> QED BY <1>1, <1>2, <1>3, <1>4, <1>5, <1>6 DEF Run

(* Every reachable state of the scheduler satisfies ServerInv.             *)
THEOREM ServerInvariant == Spec => []ServerInv
  <1>1. Init => ServerInv BY InitInv
  <1>2. ServerInv /\ [Next]_vars => ServerInv' BY NextInv, StutterInv
  <1> QED BY <1>1, <1>2, PTL DEF Spec

(* Types.                                                                  *)
THEOREM TypesOK == Spec => []TypeOK
  <1>1. ServerInv => TypeOK BY DEF ServerInv
  <1> QED BY <1>1, ServerInvariant, PTL

(* ctx->ref counts the references that exist, at every step of every path. *)
THEOREM ReferencesCounted == Spec => []RefCount
  <1>1. ServerInv => RefCount BY DEF ServerInv
  <1> QED BY <1>1, ServerInvariant, PTL

(* No thread reaches freed memory, or a queue that is being dropped,       *)
(* through a reference it was given.                                       *)
THEOREM NoUseAfterFree == Spec => []HeldIsUsable
  <1>1. ServerInv => HeldIsUsable BY DEF ServerInv
  <1> QED BY <1>1, ServerInvariant, PTL

(* delete_context runs once for a context, and its assertion holds.        *)
THEOREM ContextDeletedOnce == Spec => []DeletedOnce
  <1>1. ServerInv => DeletedOnce BY DEF ServerInv, Dying, DeletedOnce
  <1> QED BY <1>1, ServerInvariant, PTL

(* A message queue is linked into the global queue at most once and is     *)
(* never there while a thread works on it; and no flagged queue is lost.   *)
THEOREM OnePlacePerQueue == Spec => []QueueInOnePlace
  <1>1. ServerInv => QueueInOnePlace BY DEF ServerInv
  <1> QED BY <1>1, ServerInvariant, PTL

(* What a thread executes is a service whose queue it owns.                *)
LEMMA ExecutingOwned ==
  ASSUME ServerInv, NEW t \in Threads, NEW s \in Executing(t)
  PROVE  /\ s # None
         /\ (InCallback(t) /\ s = own[<<t, "q">>]) \/ s = own[<<t, "new">>]
  <1>1. LocalInv(t) BY DEF ServerInv, Local
  <1>2. pc[t] \in Locations /\ rel[t] \in CtxVars BY DEF ServerInv, TypeOK
  <1>3. hold[<<t, "new">>] # None => hold[<<t, "new">>] = own[<<t, "new">>]
    BY <1>1, <1>2 DEF LocalInv, Frame, Tops, Subs, Locations, CtxVars
  <1>4. InCallback(t) => hold[<<t, "ctx">>] = own[<<t, "q">>]
    BY <1>1, <1>2 DEF InCallback, LocalInv, Frame, Tops, Subs, Locations, CtxVars
  <1> QED BY <1>3, <1>4 DEF Executing, InCallback

(* The invariant excludes two threads in one service.                      *)
LEMMA ExclusiveByInv ==
  ASSUME ServerInv PROVE ExclusiveDispatch
  <1> USE Facts
  <1>1. ASSUME NEW t \in Threads, NEW u \in Threads, t # u
        PROVE  Executing(t) \cap Executing(u) = {}
    <2> SUFFICES ASSUME NEW s \in Executing(t), s \in Executing(u) PROVE FALSE
      OBVIOUS
    <2>1. /\ s # None /\ s \in {own[<<t, "q">>], own[<<t, "new">>]}
          /\ s \in {own[<<u, "q">>], own[<<u, "new">>]}
      BY ExecutingOwned
    <2>2. PICK v \in MqVars, w \in MqVars : s = own[<<t, v>>] /\ s = own[<<u, w>>]
      BY <2>1 DEF MqVars
    <2>3. own[<<t, v>>] # None /\ own[<<t, v>>] = own[<<u, w>>] BY <2>1, <2>2
    <2>4. QueueInOnePlace OBVIOUS
    <2>5. t = u BY ONLY <2>3, <2>4, OwnDistinct
    <2> QED BY <1>1, <2>5
  <1>2. ASSUME NEW t \in Threads, InCallback(t)
        PROVE  /\ init[hold[<<t, "ctx">>]]
               /\ hold[<<t, "ctx">>] # hold[<<t, "new">>]
               /\ own[<<t, "q">>] = hold[<<t, "ctx">>]
    <2>1. LocalInv(t) BY DEF Local
    <2>2. pc[t] \in Locations /\ rel[t] \in CtxVars BY DEF TypeOK
    <2>3. own[<<t, "q">>] = hold[<<t, "ctx">>] /\ hold[<<t, "ctx">>] # None
      BY <1>2, <2>1, <2>2 DEF InCallback, LocalInv, Frame, Tops, Subs, Locations, CtxVars
    <2>4. hold[<<t, "new">>] # None => hold[<<t, "new">>] = own[<<t, "new">>]
      BY <2>1, <2>2 DEF LocalInv, Frame, Tops, Subs, Locations, CtxVars
    <2>5. hold[<<t, "ctx">>] # hold[<<t, "new">>]
      BY <2>3, <2>4, OwnDistinct DEF MqVars
    <2> QED BY <2>3, <2>5 DEF SlotInit
  <1> QED BY <1>1, <1>2 DEF ExclusiveDispatch

(* CHECKCALLING never fires, nor does assert(ctx->init): a service is run  *)
(* by one thread at a time.                                                *)
THEOREM DispatchExclusive == Spec => []ExclusiveDispatch
  <1>1. ServerInv => ExclusiveDispatch BY ExclusiveByInv
  <1> QED BY <1>1, ServerInvariant, PTL

-----------------------------------------------------------------------------
(* What the services see of the scheduler: the messages of a sender stay   *)
(* in order, and SkynetServer implements ActorSystem.                      *)

(* A step of t leaves what other threads hold alone.                       *)
LEMMA StepFrozen ==
  ASSUME TypeOK, NEW t \in Threads, Run(t) \/ Call(t)
  PROVE  Frozen(t)
  <1> USE DEF TypeOK, Frozen, Goto, SetHold, SetOwn, CallRelease, ctxVars, mqVars, callVars
  <1>1. CASE skynet_globalmq_pop(t) \/ PopNext(t) \/ PublishQueue(t)
    BY <1>1 DEF skynet_globalmq_pop, PopNext, PublishQueue
  <1>2. CASE DispatchGrab(t) \/ DispatchGone(t) \/ CallbackReturns(t)
    BY <1>2 DEF DispatchGrab, DispatchGone, CallbackReturns
  <1>3. CASE PopMessage(t) \/ PopEmpty(t)
    BY <1>3 DEF PopMessage, PopEmpty
  <1>4. CASE KeepQueue(t) \/ PutBack(t)
    BY <1>4 DEF KeepQueue, PutBack
  <1>5. CASE KeepContext(t) \/ LastReference(t)
    BY <1>5 DEF KeepContext, LastReference, ReleaseRef, Return
  <1>6. CASE skynet_mq_mark_release(t) \/ FreeContext(t)
    BY <1>6 DEF skynet_mq_mark_release, FreeContext, Return
  <1>7. CASE PushGrab(t) \/ PushGone(t) \/ skynet_mq_push(t)
    BY <1>7 DEF PushGrab, PushGone, skynet_mq_push, Return
  <1>8. CASE HandBack(t) \/ StartDrop(t) \/ FreeQueue(t)
    BY <1>8 DEF HandBack, StartDrop, FreeQueue
  <1>9. CASE DropMessage(t)
    BY <1>9 DEF DropMessage, CallSend
  <1>10. CASE RetireVictim(t) \/ RetireFailed(t)
    BY <1>10 DEF RetireVictim, RetireFailed, Retire, NothingToRetire
  <1>11. CASE InitSucceeds(t) \/ InitFails(t) \/ SetInit(t)
    BY <1>11 DEF InitSucceeds, InitFails, SetInit
  <1>12. CASE Call(t)
    <2> PICK s \in Services :
          Send(t, s) \/ Borrow(t, s) \/ handle_exit(t, s) \/ skynet_context_new(t, s)
      BY <1>12 DEF Call
    <2>1. CASE Send(t, s) BY <2>1 DEF Send, CallSend
    <2>2. CASE Borrow(t, s) BY <2>2 DEF Borrow
    <2>3. CASE handle_exit(t, s) BY <2>3 DEF handle_exit, CallSend
    <2>4. CASE skynet_context_new(t, s) BY <2>4 DEF skynet_context_new
    <2> QED BY <2>1, <2>2, <2>3, <2>4
  <1> QED BY <1>1, <1>2, <1>3, <1>4, <1>5, <1>6, <1>7, <1>8, <1>9, <1>10, <1>11, <1>12
          DEF Run
-----------------------------------------------------------------------------
(* The order of messages.  A message that waits in msg[t] to be pushed is  *)
(* newer than all messages of its sender in the queues, because ids count  *)
(* the calls; and it is the only one of its sender on the way, because a   *)
(* service is run by one thread.                                           *)

Pending(t) == msg[t].kind = "msg" /\ msg[t].src # None

CallsCount ==
  /\ \A s \in Services : \A i \in DOMAIN mq[s] : mq[s][i].id <= calls
  /\ \A t \in Threads : msg[t].id <= calls

NewestPending(t) ==
  /\ pc[t] \in {"send", "push"}
  /\ msg[t].src = Running(t)
  /\ \A s \in Services : \A i \in DOMAIN mq[s] :
       mq[s][i].kind = "msg" /\ mq[s][i].src = msg[t].src => mq[s][i].id < msg[t].id

OrderInv ==
  /\ CallsCount
  /\ \A t \in Threads : Pending(t) => NewestPending(t)
  /\ PerSenderOrder

(* Other threads go on running the service they run.                       *)
LEMMA RunningOthers ==
  ASSUME NEW t \in Threads, Frozen(t)
  PROVE  \A u \in Threads : u # t => pc'[u] = pc[u] /\ Running(u)' = Running(u)
  BY DEF Frozen, Running, MqVars

(* Types of the messages.                                                  *)
LEMMA MessageTypes ==
  ASSUME TypeOK
  PROVE  /\ \A s \in Services : /\ mq[s] \in Seq(Message)
                                /\ Len(mq[s]) \in Nat /\ DOMAIN mq[s] = 1..Len(mq[s])
                                /\ \A i \in DOMAIN mq[s] : mq[s][i] \in Message /\ mq[s][i].id \in Int
         /\ \A t \in Threads : msg[t] \in Message /\ msg[t].id \in Int
         /\ calls \in Int
  <1>1. \A m \in Message : m.id \in Int BY DEF Message
  <1>2. /\ mq \in [Services -> Seq(Message)] /\ msg \in [Threads -> Message]
        /\ calls \in 0..MaxCalls
    BY DEF TypeOK
  <1>3. calls \in Int BY <1>2, ServerAssumption
  <1>4. ASSUME NEW s \in Services
        PROVE  /\ mq[s] \in Seq(Message)
               /\ Len(mq[s]) \in Nat /\ DOMAIN mq[s] = 1..Len(mq[s])
               /\ \A i \in DOMAIN mq[s] : mq[s][i] \in Message
    BY <1>2
  <1> QED BY <1>1, <1>2, <1>3, <1>4

(* Nothing is sent or taken, and a message on the way stays on its way.    *)
LEMMA OrderSame ==
  ASSUME TypeOK, OrderInv, NEW t \in Threads, Frozen(t),
         mq' = mq, msg' = msg, calls' \in {calls, calls + 1},
         pc[t] \in {"send", "push"} => pc'[t] \in {"send", "push"} /\ Running(t)' = Running(t)
  PROVE  OrderInv'
  <1>1. \A u \in Threads : u # t => pc'[u] = pc[u] /\ Running(u)' = Running(u)
    BY RunningOthers
  <1>2. CallsCount'
    BY MessageTypes DEF OrderInv, CallsCount
  <1>3. ASSUME NEW u \in Threads, Pending(u)' PROVE NewestPending(u)'
    <2>1. NewestPending(u) BY <1>3 DEF OrderInv, Pending
    <2> QED BY <1>1, <2>1 DEF NewestPending
  <1>4. PerSenderOrder' BY DEF OrderInv, PerSenderOrder
  <1> QED BY <1>2, <1>3, <1>4 DEF OrderInv

(* Two messages on the way have different senders.                         *)
LEMMA OnePendingEach ==
  ASSUME ServerInv, OrderInv, NEW t \in Threads, NEW u \in Threads,
         Pending(t), Pending(u), msg[t].src = msg[u].src
  PROVE  t = u
  <1>1. Running(t) # None /\ Running(t) = Running(u)
    BY DEF OrderInv, NewestPending, Pending
  <1>2. PICK v \in MqVars, w \in MqVars : Running(t) = own[<<t, v>>] /\ Running(u) = own[<<u, w>>]
    BY DEF Running, MqVars
  <1>3. own[<<t, v>>] # None /\ own[<<t, v>>] = own[<<u, w>>] /\ QueueInOnePlace
    BY <1>1, <1>2 DEF ServerInv
  <1> QED BY ONLY <1>3, OwnDistinct

(* The oldest message of a queue is taken; t has none on the way after it. *)
LEMMA OrderTake ==
  ASSUME TypeOK, TypeOK', OrderInv, NEW t \in Threads, Frozen(t), NEW s \in Services,
         mq[s] # << >>, mq' = [mq EXCEPT ![s] = Tail(@)], calls' = calls,
         \A u \in Threads : u # t => msg'[u] = msg[u],
         ~Pending(t)', msg'[t].id <= calls
  PROVE  OrderInv'
  <1>1. \A u \in Threads : u # t => pc'[u] = pc[u] /\ Running(u)' = Running(u)
    BY RunningOthers
  <1>2. ASSUME NEW x \in Services
        PROVE  \A i \in DOMAIN mq'[x] :
                 \/ i \in DOMAIN mq[x] /\ mq'[x][i] = mq[x][i] /\ x # s
                 \/ i + 1 \in DOMAIN mq[x] /\ mq'[x][i] = mq[x][i + 1] /\ x = s
    <2>1. mq[s] \in Seq(Message) /\ mq \in [Services -> Seq(Message)] BY DEF TypeOK
    <2>2. CASE x # s BY <2>1, <2>2
    <2>3. CASE x = s
      <3>1. mq'[x] = Tail(mq[s]) BY <2>1, <2>3
      <3>2. DOMAIN mq[s] = 1..Len(mq[s]) /\ Len(mq[s]) \in Nat /\ Len(mq[s]) > 0 BY <2>1
      <3>3. DOMAIN Tail(mq[s]) = 1..(Len(mq[s]) - 1)
            /\ \A i \in 1..(Len(mq[s]) - 1) : Tail(mq[s])[i] = mq[s][i + 1]
        BY <2>1, <3>2
      <3> SUFFICES ASSUME NEW i \in 1..(Len(mq[s]) - 1)
                   PROVE  i + 1 \in DOMAIN mq[x] /\ mq'[x][i] = mq[x][i + 1]
        BY <2>3, <3>1, <3>3
      <3>4. i + 1 \in 1..Len(mq[s]) BY <3>2
      <3> QED BY <2>3, <3>1, <3>2, <3>3, <3>4
    <2> QED BY <2>2, <2>3
  <1>3. CallsCount'
    BY <1>2, MessageTypes DEF OrderInv, CallsCount
  <1>4. ASSUME NEW u \in Threads, Pending(u)' PROVE NewestPending(u)'
    <2>1. u # t /\ NewestPending(u) BY <1>4 DEF OrderInv, Pending
    <2> QED BY <1>1, <1>2, <2>1 DEF NewestPending
  <1>5. PerSenderOrder'
    <2> SUFFICES ASSUME NEW x \in Services, NEW i \in DOMAIN mq'[x], NEW j \in DOMAIN mq'[x],
                        i < j, mq'[x][i].kind = "msg", mq'[x][j].kind = "msg",
                        mq'[x][i].src # None, mq'[x][i].src = mq'[x][j].src
                 PROVE  mq'[x][i].id < mq'[x][j].id
      BY DEF PerSenderOrder
    <2>1. i \in Int /\ j \in Int
      <3>1. mq'[x] \in Seq(Message) BY DEF TypeOK
      <3> QED BY <3>1
    <2>2. CASE x # s BY <1>2, <2>2 DEF OrderInv, PerSenderOrder
    <2>3. CASE x = s
      <3>1. i + 1 \in DOMAIN mq[x] /\ mq'[x][i] = mq[x][i + 1] BY <1>2, <2>3
      <3>2. j + 1 \in DOMAIN mq[x] /\ mq'[x][j] = mq[x][j + 1] BY <1>2, <2>3
      <3>3. i + 1 < j + 1 BY <2>1
      <3> QED BY <3>1, <3>2, <3>3 DEF OrderInv, PerSenderOrder
    <2> QED BY <2>2, <2>3
  <1> QED BY <1>3, <1>4, <1>5 DEF OrderInv

(* The message on the way from t is appended to a queue.                   *)
LEMMA OrderPush ==
  ASSUME ServerInv, OrderInv, NEW t \in Threads, Frozen(t), NEW s \in Services,
         mq' = [mq EXCEPT ![s] = Append(@, msg[t])],
         msg' = [msg EXCEPT ![t] = NoMsg], calls' = calls
  PROVE  OrderInv'
  <1> DEFINE n == Len(mq[s]) + 1
  <1>0. TypeOK BY DEF ServerInv
  <1>1. \A u \in Threads : u # t => pc'[u] = pc[u] /\ Running(u)' = Running(u)
    BY RunningOthers
  <1>2. /\ mq \in [Services -> Seq(Message)] /\ mq[s] \in Seq(Message)
        /\ msg[t] \in Message /\ msg \in [Threads -> Message]
        /\ DOMAIN mq[s] = 1..Len(mq[s]) /\ Len(mq[s]) \in Nat /\ n \in Nat
    BY <1>0, MessageTypes DEF TypeOK
  <1>3. /\ \A x \in Services : x # s => mq'[x] = mq[x]
        /\ mq'[s] = Append(mq[s], msg[t]) /\ DOMAIN mq'[s] = 1..n /\ mq'[s][n] = msg[t]
        /\ \A i \in DOMAIN mq[s] : mq'[s][i] = mq[s][i]
    BY <1>2
  <1> HIDE DEF n
  <1>4. \A i \in DOMAIN mq'[s] : i # n => i \in DOMAIN mq[s] /\ mq'[s][i] = mq[s][i]
    BY <1>2, <1>3 DEF n
  <1>5. /\ \A u \in Threads : u # t => msg'[u] = msg[u]
        /\ msg'[t] = NoMsg /\ ~Pending(t)' /\ msg'[t].id = 0 /\ calls \in Nat
    <2>1. msg'[t] = NoMsg /\ \A u \in Threads : u # t => msg'[u] = msg[u] BY <1>2
    <2>2. calls \in Nat BY <1>0, ServerAssumption DEF TypeOK
    <2> QED BY <2>1, <2>2 DEF Pending, NoMsg
  <1>6. CallsCount'
    <2>1. \A x \in Services : \A i \in DOMAIN mq'[x] : mq'[x][i].id <= calls
      BY <1>3, <1>4 DEF OrderInv, CallsCount
    <2>2. \A u \in Threads : msg'[u].id <= calls
      BY <1>5 DEF OrderInv, CallsCount
    <2> QED BY <2>1, <2>2 DEF CallsCount
  <1>7. ASSUME NEW u \in Threads, Pending(u)' PROVE NewestPending(u)'
    <2>1. u # t /\ Pending(u) /\ NewestPending(u) /\ msg'[u] = msg[u]
      BY <1>5, <1>7 DEF OrderInv, Pending
    <2>2. ASSUME NEW x \in Services, NEW i \in DOMAIN mq'[x],
                 mq'[x][i].kind = "msg", mq'[x][i].src = msg'[u].src
          PROVE  mq'[x][i].id < msg'[u].id
      <3>1. CASE x = s /\ i = n
        <4>1. Pending(t) /\ msg[t].src = msg[u].src BY <1>3, <2>1, <2>2, <3>1 DEF Pending
        <4> QED BY <2>1, <4>1, OnePendingEach
      <3>2. CASE ~(x = s /\ i = n)
        <4>1. i \in DOMAIN mq[x] /\ mq'[x][i] = mq[x][i] BY <1>3, <1>4, <3>2
        <4> QED BY <2>1, <2>2, <4>1 DEF NewestPending
      <3> QED BY <3>1, <3>2
    <2>3. pc'[u] \in {"send", "push"} /\ msg'[u].src = Running(u)'
      BY <1>1, <2>1 DEF NewestPending
    <2> QED BY <2>2, <2>3 DEF NewestPending
  <1>8. PerSenderOrder'
    <2> SUFFICES ASSUME NEW x \in Services, NEW i \in DOMAIN mq'[x], NEW j \in DOMAIN mq'[x],
                        i < j, mq'[x][i].kind = "msg", mq'[x][j].kind = "msg",
                        mq'[x][i].src # None, mq'[x][i].src = mq'[x][j].src
                 PROVE  mq'[x][i].id < mq'[x][j].id
      BY DEF PerSenderOrder
    <2>1. CASE x # s BY <1>3, <2>1 DEF OrderInv, PerSenderOrder
    <2>2. CASE x = s /\ j # n
      <3>1. i # n BY <1>2, <1>3, <2>2 DEF n
      <3> QED BY <1>4, <2>2, <3>1 DEF OrderInv, PerSenderOrder
    <2>3. CASE x = s /\ j = n
      <3>1. i # n BY <1>2, <2>3
      <3>2. i \in DOMAIN mq[s] /\ mq'[s][i] = mq[s][i] /\ mq'[x][j] = msg[t]
        BY <1>3, <1>4, <2>3, <3>1
      <3>3. Pending(t) BY <2>3, <3>2 DEF Pending
      <3> QED BY <2>3, <3>2, <3>3 DEF OrderInv, NewestPending
    <2> QED BY <2>1, <2>2, <2>3
  <1> QED BY <1>6, <1>7, <1>8 DEF OrderInv

(* A message enters its way: no message so far has its id.                 *)
LEMMA OrderSend ==
  ASSUME TypeOK, OrderInv, NEW t \in Threads, Frozen(t), mq' = mq,
         NEW m \in Message, msg' = [msg EXCEPT ![t] = m], calls' = calls + 1,
         m.id = calls + 1, pc'[t] = "send",
         m.kind = "msg" => m.src \in {None, Running(t)'}
  PROVE  OrderInv'
  <1>1. \A u \in Threads : u # t => pc'[u] = pc[u] /\ Running(u)' = Running(u)
    BY RunningOthers
  <1>2. msg'[t] = m /\ \A u \in Threads : u # t => msg'[u] = msg[u]
    BY DEF TypeOK
  <1>3. CallsCount'
    BY <1>2, MessageTypes DEF OrderInv, CallsCount
  <1>4. ASSUME NEW u \in Threads, Pending(u)' PROVE NewestPending(u)'
    <2>1. CASE u # t
      <3>1. NewestPending(u) BY <1>2, <1>4, <2>1 DEF OrderInv, Pending
      <3> QED BY <1>1, <1>2, <2>1, <3>1 DEF NewestPending
    <2>2. CASE u = t
      <3>1. msg'[u].src = Running(u)' BY <1>2, <1>4, <2>2 DEF Pending
      <3>2. \A s \in Services : \A i \in DOMAIN mq[s] : mq[s][i].id < msg'[u].id
        BY <1>2, <2>2, MessageTypes DEF OrderInv, CallsCount
      <3> QED BY <2>2, <3>1, <3>2 DEF NewestPending
    <2> QED BY <2>1, <2>2
  <1>5. PerSenderOrder' BY DEF OrderInv, PerSenderOrder
  <1> QED BY <1>3, <1>4, <1>5 DEF OrderInv

(* A message on the way is given up.                                       *)
LEMMA OrderForget ==
  ASSUME TypeOK, OrderInv, NEW t \in Threads, Frozen(t), mq' = mq,
         msg' = [msg EXCEPT ![t] = NoMsg], calls' = calls
  PROVE  OrderInv'
  <1>1. \A u \in Threads : u # t => pc'[u] = pc[u] /\ Running(u)' = Running(u)
    BY RunningOthers
  <1>2. msg'[t] = NoMsg /\ \A u \in Threads : u # t => msg'[u] = msg[u]
    BY DEF TypeOK
  <1>3. msg'[t].id <= calls /\ ~Pending(t)'
    <2>1. NoMsg.id = 0 /\ NoMsg.src = None BY DEF NoMsg
    <2>2. calls \in Nat BY ServerAssumption DEF TypeOK
    <2> QED BY <1>2, <2>1, <2>2 DEF Pending
  <1>4. CallsCount' BY <1>2, <1>3 DEF OrderInv, CallsCount
  <1>5. ASSUME NEW u \in Threads, Pending(u)' PROVE NewestPending(u)'
    <2>1. u # t /\ NewestPending(u) BY <1>2, <1>3, <1>5 DEF OrderInv, Pending
    <2> QED BY <1>1, <1>2, <2>1 DEF NewestPending
  <1>6. PerSenderOrder' BY DEF OrderInv, PerSenderOrder
  <1> QED BY <1>4, <1>5, <1>6 DEF OrderInv

(* The queue a thread drops is the queue of a service.                     *)
LEMMA DropOwned ==
  ASSUME ServerInv, NEW t \in Threads, pc[t] = "drop"
  PROVE  /\ own[<<t, DropVar(t)>>] \in Services
         /\ release[own[<<t, DropVar(t)>>]] = 1
  <1>1. Frame(t, "drop") BY AtTop DEF Tops, Locations, Subs
  <1>2. own[<<t, "q">>] # None BY <1>1 DEF Frame
  <1>3. own[<<t, DropVar(t)>>] # None BY <1>2 DEF DropVar
  <1>4. <<t, DropVar(t)>> \in Threads \X MqVars BY DEF DropVar, MqVars
  <1>5. own[<<t, DropVar(t)>>] \in Services \cup {None} BY <1>4 DEF ServerInv, TypeOK
  <1> QED BY <1>3, <1>5 DEF ServerInv, DropsReleased, DropOK, At

(* Every step preserves the order.                                         *)
LEMMA NextOrder ==
  ASSUME ServerInv, ServerInv', OrderInv, NEW t \in Threads, Run(t) \/ Call(t)
  PROVE  OrderInv'
  <1>1. TypeOK /\ TypeOK' BY DEF ServerInv
  <1>2. Frozen(t) BY <1>1, StepFrozen
  <1>3. pc[t] \notin {"send", "push"} => ~Pending(t) BY DEF OrderInv, NewestPending
  <1>4. calls \in Nat BY <1>1, ServerAssumption DEF TypeOK
  <1> USE DEF ctxVars, mqVars, callVars
  <1>5. CASE \/ skynet_globalmq_pop(t) \/ DispatchGrab(t) \/ DispatchGone(t)
             \/ PopEmpty(t) \/ CallbackReturns(t) \/ KeepQueue(t) \/ PopNext(t) \/ PutBack(t)
    <2>1. UNCHANGED <<mq, msg, calls>> /\ pc[t] \notin {"send", "push"}
      BY <1>5 DEF skynet_globalmq_pop, DispatchGrab, DispatchGone, PopEmpty,
                  CallbackReturns, KeepQueue, PopNext, PutBack
    <2> QED BY <1>1, <1>2, <2>1, OrderSame
  <1>6. CASE \/ KeepContext(t) \/ LastReference(t) \/ skynet_mq_mark_release(t)
             \/ FreeContext(t) \/ HandBack(t) \/ StartDrop(t) \/ FreeQueue(t)
    <2>1. UNCHANGED <<mq, msg, calls>> /\ pc[t] \notin {"send", "push"}
      BY <1>6 DEF KeepContext, LastReference, ReleaseRef, skynet_mq_mark_release,
                  FreeContext, HandBack, StartDrop, FreeQueue
    <2> QED BY <1>1, <1>2, <2>1, OrderSame
  <1>7. CASE \/ RetireVictim(t) \/ InitSucceeds(t) \/ InitFails(t) \/ SetInit(t)
             \/ PublishQueue(t) \/ RetireFailed(t)
    <2>1. UNCHANGED <<mq, msg, calls>> /\ pc[t] \notin {"send", "push"}
      BY <1>7 DEF RetireVictim, InitSucceeds, InitFails, SetInit, PublishQueue,
                  RetireFailed, Retire, NothingToRetire
    <2> QED BY <1>1, <1>2, <2>1, OrderSame
  <1>8. CASE PushGrab(t)
    <2>1. UNCHANGED <<mq, msg, calls, own>> /\ pc' = [pc EXCEPT ![t] = "push"]
      BY <1>8 DEF PushGrab, Goto
    <2>2. pc'[t] = "push" BY <1>1, <2>1 DEF TypeOK
    <2>3. Running(t)' = Running(t) BY <2>1 DEF Running
    <2> QED BY <1>1, <1>2, <2>1, <2>2, <2>3, OrderSame
  <1>9. CASE PushGone(t)
    <2>1. /\ UNCHANGED <<mq, calls>> /\ msg' = [msg EXCEPT ![t] = NoMsg]
      BY <1>9 DEF PushGone
    <2> QED BY <1>1, <1>2, <2>1, OrderForget
  <1>10. CASE skynet_mq_push(t)
    <2> DEFINE s == hold[<<t, "tgt">>]
    <2>1. s \in Services
      <3>1. LocalInv(t) /\ pc[t] = "push" BY <1>10 DEF ServerInv, Local, skynet_mq_push
      <3>2. s # None BY <3>1 DEF LocalInv
      <3>3. <<t, "tgt">> \in Threads \X CtxVars BY DEF CtxVars
      <3> QED BY <1>1, <3>2, <3>3 DEF TypeOK
    <2>2. /\ mq' = [mq EXCEPT ![s] = Append(@, msg[t])] /\ calls' = calls
          /\ msg' = [msg EXCEPT ![t] = NoMsg]
      BY <1>10 DEF skynet_mq_push
    <2> HIDE DEF s
    <2> QED BY <1>2, <2>1, <2>2, OrderPush
  <1>11. CASE PopMessage(t)
    <2> DEFINE s == own[<<t, "q">>]
    <2>1. pc[t] = "pop" /\ mq[s] # << >> /\ mq' = [mq EXCEPT ![s] = Tail(@)]
          /\ msg' = msg /\ calls' = calls
      BY <1>11 DEF PopMessage
    <2>2. s \in Services
      <3>1. Frame(t, "pop") BY <2>1, AtTop DEF Tops, Locations, Subs
      <3>2. s # None BY <3>1 DEF Frame
      <3>3. <<t, "q">> \in Threads \X MqVars BY DEF MqVars
      <3> QED BY <1>1, <3>2, <3>3 DEF TypeOK
    <2>3. ~Pending(t)' /\ msg'[t].id <= calls
      BY <1>3, <2>1 DEF Pending, OrderInv, CallsCount
    <2> HIDE DEF s
    <2> QED BY <1>1, <1>2, <2>1, <2>2, <2>3, OrderTake
  <1>12. CASE DropMessage(t)
    <2> DEFINE s == own[<<t, DropVar(t)>>]
               m == Head(mq[s])
               e == [src |-> s, id |-> m.id, kind |-> "error"]
    <2>1. /\ pc[t] = "drop" /\ mq[s] # << >> /\ mq' = [mq EXCEPT ![s] = Tail(@)]
          /\ calls' = calls /\ (msg' = msg \/ msg' = [msg EXCEPT ![t] = e])
      BY <1>12 DEF DropMessage, CallSend
    <2>2. s \in Services BY <2>1, DropOwned
    <2>3. m.id <= calls
      <3>1. mq[s] \in Seq(Message) BY <1>1, <2>2 DEF TypeOK
      <3>2. 1 \in DOMAIN mq[s] /\ m = mq[s][1] BY <2>1, <3>1
      <3> QED BY <2>2, <3>2 DEF OrderInv, CallsCount
    <2>4. ~Pending(t)' /\ msg'[t].id <= calls
      <3>1. CASE msg' = msg BY <1>3, <2>1, <3>1 DEF Pending, OrderInv, CallsCount
      <3>2. CASE msg' = [msg EXCEPT ![t] = e]
        <4>1. msg'[t] = e BY <1>1, <3>2 DEF TypeOK
        <4>2. e.kind = "error" /\ e.id = m.id OBVIOUS
        <4> QED BY <2>3, <4>1, <4>2 DEF Pending
      <3> QED BY <2>1, <3>1, <3>2
    <2>5. \A u \in Threads : u # t => msg'[u] = msg[u] BY <1>1, <2>1 DEF TypeOK
    <2> HIDE DEF s, e
    <2> QED BY <1>1, <1>2, <2>1, <2>2, <2>4, <2>5, OrderTake
  <1>13. ASSUME NEW s \in Services, Borrow(t, s) \/ skynet_context_new(t, s)
         PROVE  OrderInv'
    <2>1. UNCHANGED <<mq, msg>> /\ calls' \in {calls, calls + 1} /\ pc[t] \notin {"send", "push"}
      BY <1>13 DEF Borrow, skynet_context_new, CanCall, CountCall
    <2> QED BY <1>1, <1>2, <2>1, OrderSame
  <1>14. ASSUME NEW s \in Services, Send(t, s) PROVE OrderInv'
    <2> DEFINE m == [src |-> IF pc[t] = "idle" THEN None ELSE Running(t),
                     id |-> calls + 1, kind |-> "msg"]
    <2>1. /\ mq' = mq /\ own' = own /\ calls' = calls + 1 /\ pc' = [pc EXCEPT ![t] = "send"]
          /\ msg' = [msg EXCEPT ![t] = m]
      BY <1>14 DEF Send, CountCall, CallSend, Goto
    <2>2. m.id = calls + 1 /\ m.kind = "msg" /\ m.src \in {None, Running(t)} OBVIOUS
    <2>3. Running(t)' = Running(t) BY <2>1 DEF Running
    <2>4. pc'[t] = "send" /\ msg'[t] = m BY <1>1, <2>1 DEF TypeOK
    <2>5. m \in Message
      <3>1. msg' \in [Threads -> Message] BY <1>1 DEF TypeOK
      <3> QED BY <2>4, <3>1
    <2> HIDE DEF m
    <2> QED BY <1>1, <1>2, <2>1, <2>2, <2>3, <2>4, <2>5, OrderSend
  <1>15. ASSUME NEW s \in Services, handle_exit(t, s) PROVE OrderInv'
    <2> DEFINE m == [src |-> s, id |-> calls + 1, kind |-> "exit"]
    <2>1. mq' = mq /\ calls' = calls + 1 /\ pc[t] \notin {"send", "push"}
      BY <1>15 DEF handle_exit, CountCall, CanCall
    <2>2. CASE msg' = msg BY <1>1, <1>2, <2>1, <2>2, OrderSame
    <2>3. CASE pc' = [pc EXCEPT ![t] = "send"] /\ msg' = [msg EXCEPT ![t] = m]
      <3>1. pc'[t] = "send" /\ msg'[t] = m BY <1>1, <2>3 DEF TypeOK
      <3>2. m.id = calls + 1 /\ m.kind = "exit" OBVIOUS
      <3>3. m \in Message
        <4>1. msg' \in [Threads -> Message] BY <1>1 DEF TypeOK
        <4> QED BY <3>1, <4>1
      <3> HIDE DEF m
      <3> QED BY <1>1, <1>2, <2>1, <2>3, <3>1, <3>2, <3>3, OrderSend
    <2> QED BY <1>15, <2>2, <2>3 DEF handle_exit, CallSend, Goto
  <1> QED BY <1>5, <1>6, <1>7, <1>8, <1>9, <1>10, <1>11, <1>12, <1>13, <1>14, <1>15
          DEF Run, Call

(* At first only the services' own first messages wait.                    *)
LEMMA InitOrder ==
  ASSUME Init PROVE OrderInv
  <1> USE ServerAssumption
  <1>1. /\ \A t \in Threads : msg[t] = NoMsg
        /\ NoMsg.id = 0 /\ NoMsg.src = None /\ calls = 0
    BY DEF Init, NoMsg
  <1>2. ASSUME NEW s \in Services
        PROVE  \A i \in DOMAIN mq[s] : i = 1 /\ mq[s][i].id = 0
    <2> DEFINE m == [NoMsg EXCEPT !.src = s]
    <2>1. m.id = 0 BY DEF NoMsg
    <2> HIDE DEF m
    <2>2. mq[s] = IF s \in SelfStart THEN <<m>> ELSE << >>
      BY DEF Init, FirstMq, m
    <2> QED BY <2>1, <2>2
  <1>3. CallsCount BY <1>1, <1>2 DEF CallsCount
  <1>4. \A t \in Threads : ~Pending(t) BY <1>1 DEF Pending
  <1>5. PerSenderOrder BY <1>2 DEF PerSenderOrder
  <1> QED BY <1>3, <1>4, <1>5 DEF OrderInv

(* A step that changes nothing preserves it.                               *)
LEMMA StutterOrder ==
  ASSUME OrderInv, UNCHANGED vars PROVE OrderInv'
  BY DEF vars, mqVars, callVars, OrderInv, CallsCount, NewestPending, Pending, Running,
         PerSenderOrder

(* Messages from one service to another are taken in the order they were   *)
(* sent, whatever threads run the two services.                            *)
THEOREM SenderOrder == Spec => []PerSenderOrder
  <1>1. Init => OrderInv BY InitOrder
  <1>2. ServerInv /\ ServerInv' /\ OrderInv /\ [Next]_vars => OrderInv'
    BY NextOrder, StutterOrder DEF Next
  <1>3. OrderInv => PerSenderOrder BY DEF OrderInv
  <1> QED BY <1>1, <1>2, <1>3, ServerInvariant, PTL DEF Spec

-----------------------------------------------------------------------------
(* SkynetServer implements ActorSystem.  Two facts about the scheduler are *)
(* needed beside ServerInv: a context is not initialised before it exists, *)
(* and no call returns into the loop of the dispatcher.                    *)

ST  == [s \in Services |-> Status(s)]
RUN == UNION {Executing(t) : t \in Threads}

BornInit == \A s \in Services : mem[s] = "none" => ~init[s]

(* The places of skynet_context_message_dispatch between two callbacks.    *)
Between == {"pop", "requeue", "putback"}

ReturnsInside == \A t \in Threads : pc[t] \in Subs => ret[t] \notin Between

MapInv == BornInit /\ ReturnsInside

(* Thread t is not between two callbacks.                                  *)
Inside(t) == pc[t] \notin Between /\ ~(pc[t] = "release" /\ rel[t] = "ctx")

(* The other threads run what they ran.                                    *)
LEMMA ExecutingOthers ==
  ASSUME NEW t \in Threads, Frozen(t)
  PROVE  \A u \in Threads : u # t => Executing(u)' = Executing(u)
  <1> SUFFICES ASSUME NEW u \in Threads, u # t PROVE Executing(u)' = Executing(u)
    OBVIOUS
  <1>1. /\ pc'[u] = pc[u] /\ rel'[u] = rel[u]
        /\ hold'[<<u, "ctx">>] = hold[<<u, "ctx">>]
        /\ hold'[<<u, "new">>] = hold[<<u, "new">>]
    BY DEF Frozen, CtxVars
  <1> QED BY <1>1 DEF Executing, InCallback

(* What t runs, from its two references.                                   *)
LEMMA ExecutingIs ==
  ASSUME NEW t \in Threads
  PROVE  /\ Executing(t) = (IF hold[<<t, "ctx">>] # None /\ Inside(t) THEN {hold[<<t, "ctx">>]} ELSE {})
                             \cup ({hold[<<t, "new">>]} \ {None})
         /\ Executing(t)' = (IF hold'[<<t, "ctx">>] # None /\ Inside(t)' THEN {hold'[<<t, "ctx">>]} ELSE {})
                             \cup ({hold'[<<t, "new">>]} \ {None})
         /\ InCallback(t) <=> hold[<<t, "ctx">>] # None /\ Inside(t)
  BY DEF Executing, InCallback, Inside, Between

(* A step after which the same code is run, the statuses and mailboxes are *)
(* the same, is no step of ActorSystem.                                    *)
LEMMA MapStutter ==
  ASSUME NEW t \in Threads, Frozen(t), Executing(t)' = Executing(t), mq' = mq,
         \A s \in Services : Status(s)' = Status(s)
  PROVE  UNCHANGED Actors!vars
  <1>1. \A u \in Threads : Executing(u)' = Executing(u) BY ExecutingOthers
  <1>2. (UNION {Executing(u) : u \in Threads})' = UNION {Executing(u) : u \in Threads}
    BY <1>1
  <1>3. [s \in Services |-> Status(s)]' = [s \in Services |-> Status(s)]
    OBVIOUS
  <1> QED BY <1>2, <1>3 DEF Actors!vars

(* One more service is run.                                                *)
LEMMA RunMore ==
  ASSUME NEW t \in Threads, Frozen(t), NEW s, Executing(t)' = Executing(t) \cup {s}
  PROVE  RUN' = RUN \cup {s}
  BY ExecutingOthers DEF RUN

(* One service less is run.                                                *)
LEMMA RunLess ==
  ASSUME ServerInv, NEW t \in Threads, Frozen(t), NEW s \in Executing(t),
         Executing(t)' = Executing(t) \ {s}
  PROVE  RUN' = RUN \ {s} /\ s \in RUN
  <1>1. \A u \in Threads : u # t => s \notin Executing(u)
    BY ExclusiveByInv DEF ExclusiveDispatch
  <1> QED BY <1>1, ExecutingOthers DEF RUN

(* The same services are run.                                              *)
LEMMA RunSame ==
  ASSUME NEW t \in Threads, Frozen(t), Executing(t)' = Executing(t)
  PROVE  RUN' = RUN
  BY ExecutingOthers DEF RUN

(* Status depends on three variables.                                      *)
LEMMA StatusSame ==
  ASSUME UNCHANGED <<mem, release, init>>
  PROVE  (\A s \in Services : Status(s)' = Status(s)) /\ ST' = ST
  BY DEF Status, ST

(* The four statuses.                                                      *)
LEMMA StatusIs ==
  ASSUME NEW s
  PROVE  /\ mem[s] = "none" /\ release[s] = 0 => Status(s) = "none"
         /\ mem[s] # "none" /\ release[s] = 1 => Status(s) = "closed"
         /\ mem[s] # "none" /\ release[s] = 0 /\ init[s] => Status(s) = "up"
         /\ mem[s] # "none" /\ release[s] = 0 /\ ~init[s] => Status(s) = "starting"
  BY DEF Status

(* And after a step.                                                       *)
LEMMA StatusWillBe ==
  ASSUME NEW s
  PROVE  /\ mem'[s] # "none" /\ release'[s] = 1 => Status(s)' = "closed"
         /\ mem'[s] # "none" /\ release'[s] = 0 /\ init'[s] => Status(s)' = "up"
         /\ mem'[s] # "none" /\ release'[s] = 0 /\ ~init'[s] => Status(s)' = "starting"
  BY DEF Status

(* The actions of ActorSystem, on the mapped state.                        *)
LEMMA MappedActions ==
  ASSUME NEW s \in Services, NEW m \in Message
  PROVE  /\ Actors!Start(s) <=> /\ ST[s] = "none" /\ ST' = [ST EXCEPT ![s] = "starting"]
                                /\ RUN' = RUN \cup {s} /\ mq' = mq
         /\ Actors!Up(s) <=> /\ ST[s] = "starting" /\ s \notin RUN
                             /\ ST' = [ST EXCEPT ![s] = "up"] /\ mq' = mq /\ RUN' = RUN
         /\ Actors!Deliver(s, m) <=> /\ ST[s] \in {"starting", "up"}
                                     /\ mq' = [mq EXCEPT ![s] = Append(@, m)]
                                     /\ ST' = ST /\ RUN' = RUN
         /\ Actors!Begin(s) <=> /\ ST[s] = "up" /\ s \notin RUN /\ mq[s] # << >>
                                /\ mq' = [mq EXCEPT ![s] = Tail(@)]
                                /\ RUN' = RUN \cup {s} /\ ST' = ST
         /\ Actors!End(s) <=> s \in RUN /\ RUN' = RUN \ {s} /\ ST' = ST /\ mq' = mq
         /\ Actors!Close(s) <=> /\ ST[s] \in {"starting", "up"} /\ s \notin RUN
                                /\ ST' = [ST EXCEPT ![s] = "closed"]
                                /\ mq' = mq /\ RUN' = RUN
         /\ Actors!Discard(s) <=> /\ ST[s] = "closed" /\ mq[s] # << >>
                                  /\ mq' = [mq EXCEPT ![s] = Tail(@)]
                                  /\ ST' = ST /\ RUN' = RUN
  BY DEF Actors!Start, Actors!Up, Actors!Deliver, Actors!Begin, Actors!End, Actors!Close,
         Actors!Discard, ST, RUN

(* Every step preserves MapInv.                                            *)
LEMMA NextMap ==
  ASSUME TypeOK, MapInv, NEW t \in Threads, Run(t) \/ Call(t)
  PROVE  MapInv'
  <1>1. Frozen(t) BY StepFrozen
  <1>2. /\ pc \in [Threads -> Locations] /\ ret \in [Threads -> Locations]
        /\ mem \in [Services -> {"none", "alive", "freed"}] /\ init \in [Services -> BOOLEAN]
        /\ \A u \in Threads : pc[u] \in Subs => ret[u] \notin Between
        /\ \A u \in Services : mem[u] = "none" => ~init[u]
    BY DEF TypeOK, MapInv, BornInit, ReturnsInside
  <1>3. ASSUME UNCHANGED <<mem, init>>, pc'[t] \in Subs => ret'[t] \notin Between
        PROVE  MapInv'
    <2>1. \A u \in Threads : u # t => pc'[u] = pc[u] /\ ret'[u] = ret[u] BY <1>1 DEF Frozen
    <2> QED BY <1>2, <1>3, <2>1 DEF MapInv, BornInit, ReturnsInside
  <1> USE <1>2 DEF Goto, CallRelease, CallSend, Return, Subs, Between, ctxVars, callVars
  <1>4. CASE \/ skynet_globalmq_pop(t) \/ DispatchGrab(t) \/ DispatchGone(t) \/ PopMessage(t)
             \/ CallbackReturns(t) \/ PopNext(t) \/ HandBack(t) \/ StartDrop(t) \/ FreeQueue(t)
             \/ PublishQueue(t)
    <2>1. UNCHANGED <<mem, init>> /\ pc'[t] \notin Subs
      BY <1>4 DEF skynet_globalmq_pop, DispatchGrab, DispatchGone, PopMessage, CallbackReturns,
                  PopNext, HandBack, StartDrop, FreeQueue, PublishQueue, AfterDrop
    <2> QED BY <1>3, <2>1
  <1>5. CASE PopEmpty(t) \/ KeepQueue(t) \/ PutBack(t) \/ InitSucceeds(t) \/ InitFails(t)
    <2>1. UNCHANGED <<mem, init>> /\ ret'[t] \notin Between
      BY <1>5 DEF PopEmpty, KeepQueue, PutBack, InitSucceeds, InitFails
    <2> QED BY <1>3, <2>1
  <1>6. CASE KeepContext(t) \/ LastReference(t) \/ skynet_mq_mark_release(t)
    <2>1. UNCHANGED <<mem, init>> /\ ret'[t] \notin Between
      BY <1>6 DEF KeepContext, LastReference, ReleaseRef, skynet_mq_mark_release
    <2> QED BY <1>3, <2>1
  <1>7. CASE PushGrab(t) \/ PushGone(t) \/ skynet_mq_push(t)
    <2>1. UNCHANGED <<mem, init>> /\ ret'[t] \notin Between
      BY <1>7 DEF PushGrab, PushGone, skynet_mq_push
    <2> QED BY <1>3, <2>1
  <1>8. CASE DropMessage(t)
    <2>1. UNCHANGED <<mem, init>> /\ (pc'[t] \in Subs => ret'[t] \notin Between)
      BY <1>8 DEF DropMessage
    <2> QED BY <1>3, <2>1
  <1>9. CASE RetireVictim(t) \/ RetireFailed(t)
    <2>1. UNCHANGED <<mem, init>> /\ (pc'[t] \in Subs => ret'[t] \notin Between)
      BY <1>9 DEF RetireVictim, RetireFailed, Retire, NothingToRetire, Home
    <2> QED BY <1>3, <2>1
  <1>10. CASE FreeContext(t) \/ SetInit(t)
    <2>1. pc'[t] \in Subs => ret'[t] \notin Between
      BY <1>10 DEF FreeContext, SetInit
    <2>2. BornInit'
      BY <1>10 DEF FreeContext, SetInit, BornInit
    <2>3. \A u \in Threads : u # t => pc'[u] = pc[u] /\ ret'[u] = ret[u] BY <1>1 DEF Frozen
    <2> QED BY <2>1, <2>2, <2>3 DEF MapInv, ReturnsInside
  <1>11. ASSUME NEW s \in Services, Send(t, s) \/ Borrow(t, s) \/ handle_exit(t, s)
         PROVE  MapInv'
    <2>1. UNCHANGED <<mem, init>> /\ (pc'[t] \in Subs => ret'[t] \notin Between)
      BY <1>11 DEF Send, Borrow, handle_exit, CanCall
    <2> QED BY <1>3, <2>1
  <1>12. ASSUME NEW s \in Services, skynet_context_new(t, s) PROVE MapInv'
    <2>1. pc'[t] \notin Subs
      BY <1>12 DEF skynet_context_new
    <2>2. BornInit'
      BY <1>12 DEF skynet_context_new, BornInit
    <2>3. \A u \in Threads : u # t => pc'[u] = pc[u] /\ ret'[u] = ret[u] BY <1>1 DEF Frozen
    <2> QED BY <2>1, <2>2, <2>3 DEF MapInv, ReturnsInside
  <1> QED BY <1>4, <1>5, <1>6, <1>7, <1>8, <1>9, <1>10, <1>11, <1>12 DEF Run, Call

(* MapInv holds at first.                                                  *)
LEMMA InitMap ==
  ASSUME Init PROVE MapInv
  BY DEF Init, MapInv, BornInit, ReturnsInside, Subs, Threads

(* A step that changes nothing preserves it.                               *)
LEMMA StutterMap ==
  ASSUME MapInv, UNCHANGED vars PROVE MapInv'
  BY DEF vars, ctxVars, callVars, MapInv, BornInit, ReturnsInside

(* Steps inside one callback, or between two: nothing a service can see.   *)
LEMMA QuietSteps ==
  ASSUME ServerInv, NEW t \in Threads,
         \/ skynet_globalmq_pop(t) \/ DispatchGrab(t) \/ DispatchGone(t) \/ PopEmpty(t)
         \/ KeepQueue(t) \/ PopNext(t) \/ PutBack(t)
         \/ PushGrab(t) \/ PushGone(t) \/ HandBack(t) \/ StartDrop(t) \/ FreeQueue(t)
         \/ RetireVictim(t) \/ InitSucceeds(t) \/ InitFails(t) \/ PublishQueue(t)
         \/ RetireFailed(t)
         \/ \E s \in Services : Send(t, s) \/ Borrow(t, s) \/ handle_exit(t, s)
  PROVE  UNCHANGED Actors!vars
  <1>1. TypeOK BY DEF ServerInv
  <1>2. Frozen(t) BY <1>1, StepFrozen DEF Run, Call
  <1>3. /\ pc \in [Threads -> Locations] /\ ret \in [Threads -> Locations]
        /\ rel \in [Threads -> CtxVars]
        /\ hold \in [Threads \X CtxVars -> Services \cup {None}]
        /\ \A v \in CtxVars : <<t, v>> \in Threads \X CtxVars
    BY <1>1 DEF TypeOK
  <1>4. ASSUME UNCHANGED <<mem, release, init, mq>>,
               hold'[<<t, "new">>] = hold[<<t, "new">>],
               hold'[<<t, "ctx">>] = hold[<<t, "ctx">>],
               hold[<<t, "ctx">>] = None \/ (Inside(t)' <=> Inside(t))
        PROVE  UNCHANGED Actors!vars
    <2>1. Executing(t)' = Executing(t) BY <1>4, ExecutingIs
    <2> QED BY <1>2, <1>4, <2>1, StatusSame, MapStutter
  <1> USE <1>3 DEF Goto, SetHold, CallRelease, CallSend, Inside, Between, ctxVars, mqVars,
                   callVars, CtxVars
  <1>5. CASE \/ PopEmpty(t) \/ KeepQueue(t) \/ PopNext(t) \/ PutBack(t)
    <2>1. UNCHANGED <<mem, release, init, mq, hold>> /\ ~Inside(t) /\ ~Inside(t)'
      BY <1>5 DEF PopEmpty, KeepQueue, PopNext, PutBack
    <2> QED BY <1>4, <2>1
  <1>6. CASE \/ skynet_globalmq_pop(t) \/ DispatchGone(t)
    <2>1. UNCHANGED <<mem, release, init, mq, hold>> /\ pc[t] \in {"fetch", "grab"}
      BY <1>6 DEF skynet_globalmq_pop, DispatchGone
    <2>2. hold[<<t, "ctx">>] = None BY <2>1, AtTop DEF Frame, Tops, Subs, Locations
    <2> QED BY <1>4, <2>1, <2>2
  <1>7. CASE DispatchGrab(t)
    <2>1. /\ UNCHANGED <<mem, release, init, mq>> /\ pc[t] = "grab" /\ pc'[t] = "pop"
          /\ hold'[<<t, "new">>] = hold[<<t, "new">>]
      BY <1>7 DEF DispatchGrab
    <2>2. hold[<<t, "ctx">>] = None BY <2>1, AtTop DEF Frame, Tops, Subs, Locations
    <2>3. Executing(t)' = Executing(t)
      <3>1. ~Inside(t)' BY <2>1
      <3> HIDE DEF Inside
      <3> QED BY <2>1, <2>2, <3>1, ExecutingIs
    <2> QED BY <1>2, <2>1, <2>3, StatusSame, MapStutter
  <1>8. CASE HandBack(t) \/ StartDrop(t) \/ FreeQueue(t) \/ PublishQueue(t)
             \/ InitSucceeds(t) \/ InitFails(t)
    <2>1. UNCHANGED <<mem, release, init, mq, hold>> /\ Inside(t) /\ Inside(t)'
      BY <1>8 DEF HandBack, StartDrop, FreeQueue, PublishQueue, InitSucceeds, InitFails, AfterDrop
    <2> QED BY <1>4, <2>1
  <1>9. CASE PushGrab(t)
    <2>1. /\ UNCHANGED <<mem, release, init, mq>> /\ Inside(t) /\ Inside(t)'
          /\ hold'[<<t, "new">>] = hold[<<t, "new">>]
          /\ hold'[<<t, "ctx">>] = hold[<<t, "ctx">>]
      BY <1>9 DEF PushGrab
    <2> QED BY <1>4, <2>1
  <1>10. CASE PushGone(t)
    <2>1. ret[t] \in SendReturns
      BY <1>10 DEF PushGone, ServerInv, Local, LocalInv
    <2>2. UNCHANGED <<mem, release, init, mq, hold>> /\ Inside(t) /\ Inside(t)'
      BY <1>10, <2>1 DEF PushGone, Return, SendReturns
    <2> QED BY <1>4, <2>2
  <1>11. CASE RetireVictim(t) \/ RetireFailed(t)
    <2>1. /\ UNCHANGED <<mem, release, init, mq>> /\ Inside(t) /\ Inside(t)'
          /\ hold'[<<t, "new">>] = hold[<<t, "new">>]
          /\ hold'[<<t, "ctx">>] = hold[<<t, "ctx">>]
      BY <1>11 DEF RetireVictim, RetireFailed, Retire, NothingToRetire, Home
    <2> QED BY <1>4, <2>1
  <1>12. ASSUME NEW s \in Services, Send(t, s) \/ Borrow(t, s) \/ handle_exit(t, s)
         PROVE  UNCHANGED Actors!vars
    <2>1. /\ UNCHANGED <<mem, release, init, mq>> /\ Inside(t) /\ Inside(t)'
          /\ hold'[<<t, "new">>] = hold[<<t, "new">>]
          /\ hold'[<<t, "ctx">>] = hold[<<t, "ctx">>]
      BY <1>12 DEF Send, Borrow, handle_exit, CanCall
    <2> QED BY <1>4, <2>1
  <1> QED BY <1>5, <1>6, <1>7, <1>8, <1>9, <1>10, <1>11, <1>12

(* A service is run by nobody while nobody has a reference to it, or while *)
(* the thread that owns its queue does not run it.                         *)
LEMMA NotRun ==
  ASSUME ServerInv, NEW s \in Services, NEW t \in Threads, s \notin Executing(t),
         \/ Holders(s) = {}
         \/ \E v \in MqVars : own[<<t, v>>] = s
  PROVE  s \notin RUN
  <1> SUFFICES ASSUME NEW u \in Threads, s \in Executing(u) PROVE FALSE
    BY DEF RUN
  <1>1. CASE Holders(s) = {}
    <2>1. \E v \in CtxVars : hold[<<u, v>>] = s BY ExecutingIs DEF CtxVars
    <2> QED BY <1>1, <2>1 DEF Holders
  <1>2. ASSUME NEW v \in MqVars, own[<<t, v>>] = s PROVE FALSE
    <2>1. s # None /\ \E w \in MqVars : own[<<u, w>>] = s BY ExecutingOwned DEF MqVars
    <2>2. PICK w \in MqVars : own[<<u, w>>] = s BY <2>1
    <2>3. QueueInOnePlace BY DEF ServerInv
    <2>4. t = u BY <1>2, <2>1, <2>2, <2>3, OwnDistinct
    <2> QED BY <2>4
  <1> QED BY <1>1, <1>2

(* PopMessage begins the callback of a service that is up.                 *)
LEMMA PopMessage_Begin ==
  ASSUME ServerInv, NEW t \in Threads, PopMessage(t)
  PROVE  \E s \in Services : Actors!Begin(s)
  <1> USE ServerAssumption, Facts
  <1> DEFINE s == own[<<t, "q">>]
  <1>1. /\ pc[t] = "pop" /\ mq[s] # << >> /\ mq' = [mq EXCEPT ![s] = Tail(@)]
        /\ UNCHANGED <<mem, release, init, hold>> /\ pc' = [pc EXCEPT ![t] = "callback"]
    BY DEF PopMessage, Goto, ctxVars
  <1>2. Frozen(t) BY StepFrozen DEF Run
  <1>3. Frame(t, "pop") BY <1>1, AtTop DEF Tops, Locations, Subs
  <1>4. /\ s # None /\ hold[<<t, "ctx">>] = s /\ hold[<<t, "new">>] = None
    BY <1>3 DEF Frame
  <1>5. s \in Services
    <2>1. <<t, "q">> \in Threads \X MqVars BY DEF MqVars
    <2> QED BY <1>4, <2>1 DEF TypeOK
  <1>6. Status(s) = "up"
    <2>1. <<t, "ctx">> \in Holders(s) BY <1>4 DEF Holders, CtxVars
    <2>2. mem[s] = "alive" /\ release[s] = 0 BY <1>5, <2>1 DEF HeldIsUsable
    <2>3. init[s] BY <1>4 DEF SlotInit
    <2> QED BY <2>2, <2>3 DEF Status
  <1>7. pc'[t] = "callback" BY <1>1 DEF TypeOK
  <1>8. ~Inside(t) /\ Inside(t)' BY <1>1, <1>7 DEF Inside, Between
  <1>9. Executing(t) = {} /\ Executing(t)' = {s} BY <1>1, <1>4, <1>8, ExecutingIs
  <1> HIDE DEF s
  <1>10. RUN' = RUN \cup {s} BY <1>2, <1>9, RunMore
  <1>11. s \notin RUN BY <1>5, <1>9, NotRun DEF s, MqVars
  <1>12. ST' = ST BY <1>1, StatusSame
  <1>13. ST[s] = "up" BY <1>5, <1>6 DEF ST
  <1>14. Actors!Begin(s)
    <2> PICK m \in Message : TRUE BY MessageTypes
    <2> QED BY <1>1, <1>5, <1>10, <1>11, <1>12, <1>13, MappedActions
  <1> QED BY <1>5, <1>14

(* CallbackReturns ends it.                                                *)
LEMMA CallbackReturns_End ==
  ASSUME ServerInv, NEW t \in Threads, CallbackReturns(t)
  PROVE  \E s \in Services : Actors!End(s)
  <1> USE ServerAssumption, Facts
  <1> DEFINE s == hold[<<t, "ctx">>]
  <1>1. /\ pc[t] = "callback" /\ UNCHANGED <<mem, release, init, hold, mq>>
        /\ pc' = [pc EXCEPT ![t] = IF left[t] > 0 THEN "pop" ELSE "requeue"]
    BY DEF CallbackReturns, Goto, ctxVars, mqVars
  <1>2. Frozen(t) BY StepFrozen DEF Run
  <1>3. Frame(t, "callback") BY <1>1, AtTop DEF Tops, Locations, Subs
  <1>4. s # None /\ hold[<<t, "new">>] = None BY <1>3 DEF Frame
  <1>5. s \in Services
    <2>1. <<t, "ctx">> \in Threads \X CtxVars BY DEF CtxVars
    <2> QED BY <1>4, <2>1 DEF TypeOK
  <1>7. pc'[t] \in {"pop", "requeue"} BY <1>1 DEF TypeOK
  <1>8. Inside(t) /\ ~Inside(t)' BY <1>1, <1>7 DEF Inside, Between
  <1>9. Executing(t) = {s} /\ Executing(t)' = {} BY <1>1, <1>4, <1>8, ExecutingIs
  <1> HIDE DEF s
  <1>10. RUN' = RUN \ {s} /\ s \in RUN BY <1>2, <1>9, RunLess
  <1>12. ST' = ST BY <1>1, StatusSame
  <1>14. Actors!End(s)
    <2> PICK m \in Message : TRUE BY MessageTypes
    <2> QED BY <1>1, <1>5, <1>10, <1>12, MappedActions
  <1> QED BY <1>5, <1>14

(* skynet_mq_push delivers a message to a service that is not closed.      *)
LEMMA push_Deliver ==
  ASSUME ServerInv, NEW t \in Threads, skynet_mq_push(t)
  PROVE  \E s \in Services : \E m \in Message : Actors!Deliver(s, m)
  <1> USE ServerAssumption, Facts
  <1> DEFINE s == hold[<<t, "tgt">>]
  <1>1. /\ pc[t] = "push" /\ mq' = [mq EXCEPT ![s] = Append(@, msg[t])]
        /\ UNCHANGED <<mem, release, init, hold>> /\ pc' = [pc EXCEPT ![t] = "release"]
        /\ rel' = [rel EXCEPT ![t] = "tgt"]
    BY DEF skynet_mq_push, CallRelease, Goto, ctxVars
  <1>2. Frozen(t) BY StepFrozen DEF Run
  <1>3. LocalInv(t) BY DEF Local
  <1>4. s # None BY <1>1, <1>3 DEF LocalInv
  <1>5. s \in Services
    <2>1. <<t, "tgt">> \in Threads \X CtxVars BY DEF CtxVars
    <2> QED BY <1>4, <2>1 DEF TypeOK
  <1>6. Status(s) \in {"starting", "up"}
    <2>1. <<t, "tgt">> \in Holders(s) BY <1>4 DEF Holders, CtxVars
    <2>2. mem[s] = "alive" /\ release[s] = 0 BY <1>5, <2>1 DEF HeldIsUsable
    <2> QED BY <2>2 DEF Status
  <1>7. pc'[t] = "release" /\ rel'[t] = "tgt" BY <1>1 DEF TypeOK
  <1>8. Inside(t) /\ Inside(t)' BY <1>1, <1>7 DEF Inside, Between
  <1>9. Executing(t)' = Executing(t) BY <1>1, <1>8, ExecutingIs
  <1> HIDE DEF s
  <1>10. RUN' = RUN BY <1>2, <1>9, RunSame
  <1>12. ST' = ST BY <1>1, StatusSame
  <1>13. ST[s] \in {"starting", "up"} BY <1>5, <1>6 DEF ST
  <1>14. msg[t] \in Message BY MessageTypes
  <1>15. Actors!Deliver(s, msg[t])
    BY <1>1, <1>5, <1>10, <1>12, <1>13, <1>14, MappedActions
  <1> QED BY <1>5, <1>14, <1>15

(* DropMessage discards a message of a closed service.                     *)
LEMMA DropMessage_Discard ==
  ASSUME ServerInv, NEW t \in Threads, DropMessage(t)
  PROVE  \E s \in Services : Actors!Discard(s)
  <1> USE ServerAssumption, Facts
  <1> DEFINE s == own[<<t, DropVar(t)>>]
  <1>1. /\ pc[t] = "drop" /\ mq[s] # << >> /\ mq' = [mq EXCEPT ![s] = Tail(@)]
        /\ UNCHANGED <<mem, release, init, hold, rel>>
        /\ pc' = pc \/ pc' = [pc EXCEPT ![t] = "send"]
    BY DEF DropMessage, CallSend, Goto, ctxVars
  <1>2. Frozen(t) BY StepFrozen DEF Run
  <1>5. s \in Services /\ release[s] = 1 BY <1>1, DropOwned
  <1>6. Status(s) = "closed"
    <2>1. mem[s] # "none" BY <1>5 DEF Unborn
    <2> QED BY <1>5, <2>1 DEF Status
  <1>7. pc'[t] \in {"drop", "send"} BY <1>1 DEF TypeOK
  <1>8. Inside(t) /\ Inside(t)' BY <1>1, <1>7 DEF Inside, Between
  <1>9. Executing(t)' = Executing(t) BY <1>1, <1>8, ExecutingIs
  <1> HIDE DEF s
  <1>10. RUN' = RUN BY <1>2, <1>9, RunSame
  <1>12. ST' = ST BY <1>1, StatusSame
  <1>13. ST[s] = "closed" BY <1>5, <1>6 DEF ST
  <1>14. Actors!Discard(s)
    <2> PICK m \in Message : TRUE BY MessageTypes
    <2> QED BY <1>1, <1>5, <1>10, <1>12, <1>13, MappedActions
  <1> QED BY <1>5, <1>14

(* skynet_context_new starts a service.                                    *)
LEMMA new_Start ==
  ASSUME ServerInv, MapInv, NEW t \in Threads, NEW s \in Services, skynet_context_new(t, s)
  PROVE  Actors!Start(s)
  <1> USE ServerAssumption, Facts
  <1>1. /\ pc[t] = "callback" /\ mem[s] = "none" /\ mem' = [mem EXCEPT ![s] = "alive"]
        /\ UNCHANGED <<init, release, mq>>
        /\ hold' = [hold EXCEPT ![<<t, "new">>] = s] /\ pc' = [pc EXCEPT ![t] = "init"]
    BY DEF skynet_context_new, SetHold, Goto
  <1>2. Frozen(t) BY StepFrozen DEF Call
  <1>3. Frame(t, "callback") BY <1>1, AtTop DEF Tops, Locations, Subs
  <1>4. hold[<<t, "new">>] = None BY <1>3 DEF Frame
  <1>5. hold'[<<t, "ctx">>] = hold[<<t, "ctx">>] /\ hold'[<<t, "new">>] = s
    <2>1. <<t, "ctx">> \in Threads \X CtxVars /\ <<t, "new">> \in Threads \X CtxVars
      BY DEF CtxVars
    <2> QED BY <1>1, <2>1 DEF TypeOK
  <1>6. pc'[t] = "init" BY <1>1 DEF TypeOK
  <1>7. Inside(t) /\ Inside(t)' BY <1>1, <1>6 DEF Inside, Between
  <1>8. Executing(t)' = Executing(t) \cup {s} BY <1>4, <1>5, <1>7, ExecutingIs
  <1>9. RUN' = RUN \cup {s} BY <1>2, <1>8, RunMore
  <1>10. ST[s] = "none"
    <2>1. release[s] = 0 BY <1>1 DEF Unborn
    <2>2. Status(s) = "none" BY <1>1, <2>1, StatusIs
    <2> QED BY <2>2 DEF ST
  <1>11. ~init[s] /\ release[s] = 0 BY <1>1 DEF MapInv, BornInit, Unborn
  <1>12. mem'[s] = "alive" /\ \A u \in Services : u # s => mem'[u] = mem[u]
    BY <1>1 DEF TypeOK
  <1>13. Status(s)' = "starting" BY <1>1, <1>11, <1>12 DEF Status
  <1>14. \A u \in Services : u # s => Status(u)' = Status(u) BY <1>1, <1>12 DEF Status
  <1>15. ST' = [ST EXCEPT ![s] = "starting"] BY <1>13, <1>14 DEF ST
  <1> PICK m \in Message : TRUE BY MessageTypes
  <1> QED BY <1>1, <1>9, <1>10, <1>15, MappedActions

(* SetInit makes a service ready, or does nothing anybody can see.         *)
LEMMA SetInit_Up ==
  ASSUME ServerInv, NEW t \in Threads, SetInit(t)
  PROVE  (\E s \in Services : Actors!Up(s)) \/ UNCHANGED Actors!vars
  <1> USE ServerAssumption, Facts
  <1>3. pc[t] = "l_init" /\ Frame(t, "l_init")
    BY AtTop DEF SetInit, Tops, Locations, Subs
  <1>4. own[<<t, "new">>] # None /\ hold[<<t, "new">>] = None BY <1>3 DEF Frame
  <1>5. own[<<t, "new">>] \in Services
    <2>1. <<t, "new">> \in Threads \X MqVars BY DEF MqVars
    <2> QED BY <1>4, <2>1 DEF TypeOK
  <1> PICK s \in Services : s = own[<<t, "new">>] BY <1>5
  <1>1. /\ pc[t] = "l_init" /\ UNCHANGED <<mem, release, mq, hold>>
        /\ init' = IF mem[s] = "alive" THEN [init EXCEPT ![s] = TRUE] ELSE init
        /\ pc' = [pc EXCEPT ![t] = "l_push"]
    BY DEF SetInit, Goto, mqVars
  <1>2. Frozen(t) BY StepFrozen DEF Run
  <1>6. pc'[t] = "l_push" BY <1>1 DEF TypeOK
  <1>7. Inside(t) /\ Inside(t)' BY <1>1, <1>6 DEF Inside, Between
  <1>8. Executing(t)' = Executing(t) BY <1>1, <1>7, ExecutingIs
  <1>9. \A u \in Services : u # s => init'[u] = init[u] BY <1>1 DEF TypeOK
  <1>10. \A u \in Services : u # s => Status(u)' = Status(u) BY <1>1, <1>9 DEF Status
  <1>11. CASE mem[s] = "alive" /\ release[s] = 0 /\ ~init[s]
    <2>1. Status(s) = "starting" BY <1>11, StatusIs
    <2>2. init'[s] BY <1>1, <1>5, <1>11 DEF TypeOK
    <2>3. mem'[s] # "none" /\ release'[s] = 0 BY <1>1, <1>11
    <2>10. Status(s)' = "up" BY <2>2, <2>3, StatusWillBe
    <2>4. s \notin Executing(t)
      <3>1. hold[<<t, "ctx">>] # s BY <1>4, <1>11 DEF SlotInit
      <3> QED BY <1>4, <3>1, ExecutingIs
    <2>5. \E v \in MqVars : own[<<t, v>>] = s BY DEF MqVars
    <2>6. s \notin RUN BY <1>5, <2>4, <2>5, NotRun
    <2>7. RUN' = RUN BY <1>2, <1>8, RunSame
    <2>8. ST[s] = "starting" /\ ST' = [ST EXCEPT ![s] = "up"]
      BY <1>5, <1>10, <2>1, <2>10 DEF ST
    <2>9. Actors!Up(s)
      <3> PICK m \in Message : TRUE BY MessageTypes
      <3> QED BY <1>1, <1>5, <2>6, <2>7, <2>8, MappedActions
    <2> QED BY <1>5, <2>9
  <1>12. CASE mem[s] # "alive"
    <2>1. init' = init BY <1>1, <1>12
    <2> QED BY <1>1, <1>2, <1>8, <2>1, StatusSame, MapStutter
  <1>13. CASE release[s] # 0
    <2>1. release[s] = 1 BY <1>5, <1>13 DEF TypeOK
    <2>2. mem[s] # "none" BY <1>5, <2>1 DEF Unborn
    <2>3. Status(s) = "closed" BY <2>1, <2>2, StatusIs
    <2>4. mem'[s] # "none" /\ release'[s] = 1 BY <1>1, <2>1, <2>2
    <2>5. Status(s)' = Status(s) BY <2>3, <2>4, StatusWillBe
    <2> QED BY <1>1, <1>2, <1>8, <1>10, <2>5, MapStutter
  <1>14. CASE mem[s] = "alive" /\ release[s] = 0 /\ init[s]
    <2>1. init'[s] BY <1>1, <1>5, <1>14 DEF TypeOK
    <2>2. Status(s) = "up" BY <1>14, StatusIs
    <2>3. mem'[s] # "none" /\ release'[s] = 0 BY <1>1, <1>14
    <2>4. Status(s)' = Status(s) BY <2>1, <2>2, <2>3, StatusWillBe
    <2> QED BY <1>1, <1>2, <1>8, <1>10, <2>4, MapStutter
  <1> QED BY <1>11, <1>12, <1>13, <1>14

(* skynet_mq_mark_release closes a service nobody runs.                    *)
LEMMA mark_Close ==
  ASSUME ServerInv, NEW t \in Threads, skynet_mq_mark_release(t)
  PROVE  \E s \in Services : Actors!Close(s)
  <1> USE ServerAssumption, Facts
  <1>3. pc[t] = "mark" /\ LocalInv(t) BY DEF skynet_mq_mark_release, Local
  <1>4. dying[t] # None BY <1>3 DEF LocalInv
  <1>5. dying[t] \in Services /\ Holders(dying[t]) = {} BY <1>4, DyingUnreachable
  <1> PICK s \in Services : s = dying[t] BY <1>5
  <1>1. /\ pc[t] = "mark" /\ UNCHANGED <<mem, init, mq, hold>>
        /\ release' = [release EXCEPT ![s] = 1]
        /\ pc' = [pc EXCEPT ![t] = "free"]
    BY DEF skynet_mq_mark_release, Goto, ctxVars
  <1>2. Frozen(t) BY StepFrozen DEF Run
  <1>6. mem[s] = "alive" /\ release[s] = 0 BY <1>1, <1>4 DEF Dying
  <1>7. pc'[t] = "free" BY <1>1 DEF TypeOK
  <1>8. Inside(t) /\ Inside(t)' BY <1>1, <1>7 DEF Inside, Between
  <1>9. Executing(t)' = Executing(t) BY <1>1, <1>8, ExecutingIs
  <1>10. s \notin Executing(t)
    <2>1. hold[<<t, "ctx">>] # s /\ hold[<<t, "new">>] # s BY <1>5 DEF Holders, CtxVars
    <2> QED BY <1>4, <2>1, ExecutingIs
  <1>11. release'[s] = 1 /\ \A u \in Services : u # s => release'[u] = release[u]
    BY <1>1, <1>5 DEF TypeOK
  <1>12. Status(s) \in {"starting", "up"} /\ Status(s)' = "closed"
    <2>1. Status(s) \in {"starting", "up"} BY <1>6, StatusIs
    <2>2. mem'[s] # "none" BY <1>1, <1>6
    <2> QED BY <1>11, <2>1, <2>2, StatusWillBe
  <1>13. \A u \in Services : u # s => Status(u)' = Status(u) BY <1>1, <1>11 DEF Status
  <1>14. s \notin RUN BY <1>5, <1>10, NotRun
  <1>15. RUN' = RUN BY <1>2, <1>9, RunSame
  <1>16. ST[s] \in {"starting", "up"} /\ ST' = [ST EXCEPT ![s] = "closed"]
    BY <1>5, <1>12, <1>13 DEF ST
  <1>17. Actors!Close(s)
    <2> PICK m \in Message : TRUE BY MessageTypes
    <2> QED BY <1>1, <1>5, <1>14, <1>15, <1>16, MappedActions
  <1> QED BY <1>5, <1>17

(* The memory of a closed service is freed: nothing to see.                *)
LEMMA FreeContext_Quiet ==
  ASSUME ServerInv, MapInv, NEW t \in Threads, FreeContext(t)
  PROVE  UNCHANGED Actors!vars
  <1> USE ServerAssumption, Facts
  <1>3. pc[t] = "free" /\ LocalInv(t) BY DEF FreeContext, Local
  <1>4. dying[t] # None /\ ret[t] \in Tops BY <1>3 DEF LocalInv, Frame
  <1>5. dying[t] \in Services BY <1>4, DyingUnreachable
  <1> PICK s \in Services : s = dying[t] BY <1>5
  <1>1. /\ pc[t] = "free" /\ UNCHANGED <<init, release, mq, hold, rel>>
        /\ mem' = [mem EXCEPT ![s] = "freed"]
        /\ pc' = [pc EXCEPT ![t] = ret[t]]
    BY DEF FreeContext, Return, Goto, mqVars
  <1>2. Frozen(t) BY StepFrozen DEF Run
  <1>6. mem[s] = "alive" /\ release[s] = 1 BY <1>1, <1>4 DEF Dying
  <1>7. pc'[t] = ret[t] /\ ret[t] \notin Between /\ ret[t] # "release"
    BY <1>1, <1>4 DEF TypeOK, MapInv, ReturnsInside, Subs, Tops
  <1>8. Inside(t) /\ Inside(t)' BY <1>1, <1>7 DEF Inside, Between
  <1>9. Executing(t)' = Executing(t) BY <1>1, <1>8, ExecutingIs
  <1>10. mem'[s] = "freed" /\ \A u \in Services : u # s => mem'[u] = mem[u]
    BY <1>1, <1>5 DEF TypeOK
  <1>11. Status(s)' = Status(s)
    <2>1. Status(s) = "closed" BY <1>6, StatusIs
    <2>2. mem'[s] # "none" /\ release'[s] = 1 BY <1>1, <1>6, <1>10
    <2> QED BY <2>1, <2>2, StatusWillBe
  <1>12. \A u \in Services : u # s => Status(u)' = Status(u) BY <1>1, <1>10 DEF Status
  <1> QED BY <1>1, <1>2, <1>9, <1>11, <1>12, MapStutter

(* Giving up the reference of skynet_context_new ends the init function,   *)
(* giving up another one is nothing a service can see.                     *)
LEMMA Release_End ==
  ASSUME ServerInv, MapInv, NEW t \in Threads, KeepContext(t) \/ LastReference(t)
  PROVE  (\E s \in Services : Actors!End(s)) \/ UNCHANGED Actors!vars
  <1> USE ServerAssumption, Facts
  <1> DEFINE x == <<t, rel[t]>>
  <1>1. /\ pc[t] = "release" /\ UNCHANGED <<mem, init, release, mq>>
        /\ hold' = [hold EXCEPT ![x] = None] /\ rel' = [rel EXCEPT ![t] = "tgt"]
        /\ pc' = [pc EXCEPT ![t] = ret[t]] \/ pc' = [pc EXCEPT ![t] = "mark"]
    BY DEF KeepContext, LastReference, ReleaseRef, Return, Goto, mqVars
  <1>2. Frozen(t) BY StepFrozen DEF Run
  <1>3. LocalInv(t) BY DEF Local
  <1>4. rel[t] \in {"ctx", "tgt", "new"} /\ x \in Threads \X CtxVars
    BY DEF TypeOK, CtxVars
  <1>5. pc'[t] \in {ret[t], "mark"} /\ rel'[t] = "tgt" BY <1>1 DEF TypeOK
  <1>6. ret[t] \notin Between /\ "mark" \notin Between
    BY <1>1 DEF MapInv, ReturnsInside, Subs, Between
  <1>7. Inside(t)' BY <1>5, <1>6 DEF Inside
  <1>8. \A v \in CtxVars : hold'[<<t, v>>] = IF v = rel[t] THEN None ELSE hold[<<t, v>>]
    BY <1>1, <1>4 DEF TypeOK
  <1>9. CASE rel[t] = "tgt"
    <2>1. Inside(t) BY <1>1, <1>9 DEF Inside, Between
    <2>2. hold'[<<t, "ctx">>] = hold[<<t, "ctx">>] /\ hold'[<<t, "new">>] = hold[<<t, "new">>]
      BY <1>8, <1>9 DEF CtxVars
    <2>3. Executing(t)' = Executing(t) BY <1>7, <2>1, <2>2, ExecutingIs
    <2> QED BY <1>1, <1>2, <2>3, StatusSame, MapStutter
  <1>10. CASE rel[t] = "ctx"
    <2>1. ~Inside(t) BY <1>1, <1>10 DEF Inside
    <2>2. hold'[<<t, "ctx">>] = None /\ hold'[<<t, "new">>] = hold[<<t, "new">>]
      BY <1>8, <1>10 DEF CtxVars
    <2>3. Executing(t)' = Executing(t) BY <2>1, <2>2, ExecutingIs
    <2> QED BY <1>1, <1>2, <2>3, StatusSame, MapStutter
  <1>11. CASE rel[t] = "new"
    <2> DEFINE s == hold[<<t, "new">>]
    <2>1. s # None /\ s = own[<<t, "new">>] /\ hold[<<t, "ctx">>] = own[<<t, "q">>]
          /\ hold[<<t, "ctx">>] # None
      BY <1>1, <1>3, <1>11 DEF LocalInv
    <2>2. Inside(t) BY <1>1, <1>11 DEF Inside, Between
    <2>3. hold'[<<t, "ctx">>] = hold[<<t, "ctx">>] /\ hold'[<<t, "new">>] = None
      BY <1>8, <1>11 DEF CtxVars
    <2>4. hold[<<t, "ctx">>] # s BY <2>1, OwnDistinct DEF MqVars
    <2>5. s \in Executing(t) /\ Executing(t)' = Executing(t) \ {s}
      BY <1>7, <2>1, <2>2, <2>3, <2>4, ExecutingIs
    <2>6. s \in Services
      <3>1. <<t, "new">> \in Threads \X CtxVars BY DEF CtxVars
      <3> QED BY <2>1, <3>1 DEF TypeOK
    <2> HIDE DEF s
    <2>7. RUN' = RUN \ {s} /\ s \in RUN BY <1>2, <2>5, RunLess
    <2>8. ST' = ST BY <1>1, StatusSame
    <2>9. Actors!End(s)
      <3> PICK m \in Message : TRUE BY MessageTypes
      <3> QED BY <1>1, <2>6, <2>7, <2>8, MappedActions
    <2> QED BY <2>6, <2>9
  <1> QED BY <1>4, <1>9, <1>10, <1>11

(* Every step of the scheduler is a step of ActorSystem, or none.          *)
LEMMA NextActors ==
  ASSUME ServerInv, MapInv, NEW t \in Threads, Run(t) \/ Call(t)
  PROVE  Actors!Next \/ UNCHANGED Actors!vars
  <1>1. CASE PopMessage(t) BY <1>1, PopMessage_Begin DEF Actors!Next
  <1>2. CASE CallbackReturns(t) BY <1>2, CallbackReturns_End DEF Actors!Next
  <1>3. CASE skynet_mq_push(t) BY <1>3, push_Deliver DEF Actors!Next
  <1>4. CASE DropMessage(t) BY <1>4, DropMessage_Discard DEF Actors!Next
  <1>5. CASE SetInit(t) BY <1>5, SetInit_Up DEF Actors!Next
  <1>6. CASE skynet_mq_mark_release(t) BY <1>6, mark_Close DEF Actors!Next
  <1>7. CASE FreeContext(t) BY <1>7, FreeContext_Quiet
  <1>8. CASE KeepContext(t) \/ LastReference(t) BY <1>8, Release_End DEF Actors!Next
  <1>9. CASE \E s \in Services : skynet_context_new(t, s) BY <1>9, new_Start DEF Actors!Next
  <1>10. CASE \/ skynet_globalmq_pop(t) \/ DispatchGrab(t) \/ DispatchGone(t) \/ PopEmpty(t)
              \/ KeepQueue(t) \/ PopNext(t) \/ PutBack(t)
              \/ PushGrab(t) \/ PushGone(t) \/ HandBack(t) \/ StartDrop(t) \/ FreeQueue(t)
              \/ RetireVictim(t) \/ InitSucceeds(t) \/ InitFails(t) \/ PublishQueue(t)
              \/ RetireFailed(t)
              \/ \E s \in Services : Send(t, s) \/ Borrow(t, s) \/ handle_exit(t, s)
    BY <1>10, QuietSteps
  <1> QED BY <1>1, <1>2, <1>3, <1>4, <1>5, <1>6, <1>7, <1>8, <1>9, <1>10 DEF Run, Call

(* Its initial states are initial states of ActorSystem.                   *)
LEMMA InitActors ==
  ASSUME Init PROVE Actors!Init
  <1>1. \A s \in Services : Status(s) = IF s \in Boot THEN "up" ELSE "none"
    <2> SUFFICES ASSUME NEW s \in Services
                 PROVE  Status(s) = IF s \in Boot THEN "up" ELSE "none"
      OBVIOUS
    <2>1. /\ release[s] = 0
          /\ mem[s] = IF s \in Boot THEN "alive" ELSE "none"
          /\ s \in Boot => init[s]
      BY DEF Init
    <2> QED BY <2>1, StatusIs
  <1>2. \A t \in Threads : Executing(t) = {}
    <2> SUFFICES ASSUME NEW t \in Threads PROVE Executing(t) = {} OBVIOUS
    <2>1. hold[<<t, "ctx">>] = None /\ hold[<<t, "new">>] = None BY DEF Init, CtxVars
    <2> QED BY <2>1, ExecutingIs
  <1>3. UNION {Executing(t) : t \in Threads} = {} BY <1>2
  <1> QED BY <1>1, <1>3 DEF Init, Actors!Init

(* A step that changes nothing is no step of ActorSystem.                  *)
LEMMA StutterActors ==
  ASSUME UNCHANGED vars PROVE UNCHANGED Actors!vars
  <1>1. UNCHANGED <<mem, release, init, mq, pc, rel, hold>>
    BY DEF vars, ctxVars, mqVars, callVars
  <1>2. [s \in Services |-> Status(s)]' = [s \in Services |-> Status(s)]
    BY <1>1 DEF Status
  <1>3. (UNION {Executing(t) : t \in Threads})' = UNION {Executing(t) : t \in Threads}
    BY <1>1 DEF Executing, InCallback
  <1> QED BY <1>1, <1>2, <1>3 DEF Actors!vars

(* The scheduler keeps the promise of ActorSystem: a service sees its      *)
(* messages one at a time and in order, runs on one thread at a time, is   *)
(* not run before its init has begun or after it was closed, and messages  *)
(* are thrown away only once it is closed.                                 *)
THEOREM SchedulerImplementsActors == Spec => ImplementsActors
  <1>1. Init => Actors!Init BY InitActors
  <1>2. ServerInv /\ MapInv /\ [Next]_vars => [Actors!Next]_(Actors!vars)
    BY NextActors, StutterActors DEF Next
  <1>3. Init => MapInv BY InitMap
  <1>4. ServerInv /\ MapInv /\ [Next]_vars => MapInv'
    BY NextMap, StutterMap DEF Next, ServerInv
  <1>5. ImplementsActors <=> Actors!Init /\ [][Actors!Next]_(Actors!vars)
    BY DEF ImplementsActors, Actors!Spec
  <1> QED BY <1>1, <1>2, <1>3, <1>4, <1>5, ServerInvariant, PTL DEF Spec
=============================================================================
