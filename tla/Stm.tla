-------------------------------- MODULE Stm ---------------------------------
(***************************************************************************)
(* lualib-src/lua-stm.c: an object that one service writes and others      *)
(* read, each in its own thread.  A reader keeps the copy it read last.    *)
(* Both the object and the copies count their references.                  *)
(***************************************************************************)
EXTENDS Integers, FiniteSets, FiniteSetTheorems, TLAPS

CONSTANTS Readers,
          Writer,
          MaxUpdate     \* bound: updates of the writer

VARIABLES obj,          \* [reference, copy, freed]; copy 0 is NULL
          lock,         \* [write, read] of rwlock.h
          copies,       \* the copies so far: [reference, freed]
          box,          \* reader -> [held, last]: boxreader, when it has one
          pc, arg,      \* of each thread, and the copy it deals with
          touched       \* what was touched after it was freed

stmVars == <<obj, lock, copies, box, pc, arg, touched>>

Threads == Readers \cup {Writer}
Last == CHOOSE n \in DOMAIN copies : \A m \in DOMAIN copies : m <= n

Init ==
    /\ obj = [reference |-> 1, copy |-> 1, freed |-> FALSE]
    /\ lock = [write |-> FALSE, read |-> {}]
    /\ copies = [n \in {1} |-> [reference |-> 1, freed |-> 0]]
    /\ box = [r \in Readers |-> [held |-> FALSE, last |-> 0]]
    /\ pc = [t \in Threads |-> "idle"] /\ arg = [t \in Threads |-> 0]
    /\ touched = {}

Goto(t, l) == pc' = [pc EXCEPT ![t] = l]
\* what thread t reaches through the object
Touch(what) == touched' = IF obj.freed THEN touched \cup {what} ELSE touched
\* what it reaches through copy n, besides
TouchBoth(what, n) == touched' = touched \cup (IF obj.freed THEN {what} ELSE {}) \cup (IF copies[n].freed > 0 THEN {"copy"} ELSE {})

\* stm_releasecopy
Released(n) ==
    IF n = 0 THEN copies
    ELSE [copies EXCEPT ![n].reference = @ - 1, ![n].freed = IF copies[n].reference <= 1 THEN @ + 1 ELSE @]
TouchCopy(n) == touched' = IF n # 0 /\ copies[n].freed > 0 THEN touched \cup {"copy"} ELSE touched

-----------------------------------------------------------------------------
(* The writer.                                                             *)

\* lcopy: stm_grab, and the pointer is sent to a reader that makes a box of it
stm_grab(r) ==
    /\ pc[Writer] = "idle" /\ ~box[r].held /\ pc[r] = "idle"
    /\ obj' = [obj EXCEPT !.reference = @ + 1]
    /\ box' = [box EXCEPT ![r] = [held |-> TRUE, last |-> 0]]
    /\ Touch("object")
    /\ UNCHANGED <<lock, copies, pc, arg>>

\* rwlock_wlock: the flag, then the readers must leave
WLock(from, to) ==
    /\ pc[Writer] = from
    /\ lock' = [lock EXCEPT !.write = TRUE] /\ Goto(Writer, to) /\ Touch("lock")
    /\ UNCHANGED <<obj, copies, box, arg>>

stm_update ==
    /\ pc[Writer] = "idle" /\ Cardinality(DOMAIN copies) <= MaxUpdate
    /\ copies' = [n \in DOMAIN copies \cup {Last + 1} |-> IF n = Last + 1 THEN [reference |-> 1, freed |-> 0] ELSE copies[n]]
    /\ Goto(Writer, "update")
    /\ UNCHANGED <<obj, lock, box, arg, touched>>

UpdateSwap ==
    /\ pc[Writer] = "swap" /\ lock.read = {}
    /\ arg' = [arg EXCEPT ![Writer] = obj.copy]
    /\ obj' = [obj EXCEPT !.copy = Last]
    /\ Goto(Writer, "unlock") /\ Touch("object")
    /\ UNCHANGED <<lock, copies, box>>

UpdateUnlock ==
    /\ pc[Writer] = "unlock"
    /\ lock' = [lock EXCEPT !.write = FALSE] /\ Goto(Writer, "old") /\ Touch("lock")
    /\ UNCHANGED <<obj, copies, box, arg>>

UpdateOld ==
    /\ pc[Writer] = "old"
    /\ copies' = Released(arg[Writer]) /\ TouchCopy(arg[Writer]) /\ Goto(Writer, "idle")
    /\ UNCHANGED <<obj, lock, box, arg>>

\* stm_release: the last copy, then the reference
ReleaseCopy ==
    /\ pc[Writer] = "release" /\ lock.read = {}
    /\ copies' = Released(obj.copy) /\ obj' = [obj EXCEPT !.copy = 0]
    /\ TouchBoth("object", obj.copy) /\ Goto(Writer, "count")
    /\ UNCHANGED <<lock, box, arg>>

ReleaseObject ==
    /\ pc[Writer] = "count"
    /\ obj' = [obj EXCEPT !.reference = @ - 1, !.freed = obj.reference <= 1]
    /\ Goto(Writer, IF obj.reference > 1 THEN "leave" ELSE "gone") /\ Touch("object")
    /\ UNCHANGED <<lock, copies, box, arg>>

ReleaseUnlock ==
    /\ pc[Writer] = "leave"
    /\ lock' = [lock EXCEPT !.write = FALSE] /\ Goto(Writer, "gone") /\ Touch("lock")
    /\ UNCHANGED <<obj, copies, box, arg>>

-----------------------------------------------------------------------------
(* The readers.                                                            *)

\* rwlock_rlock, which waits for the writer
RLock(r, to) ==
    /\ pc[r] = "idle" /\ box[r].held /\ ~lock.write
    /\ lock' = [lock EXCEPT !.read = @ \cup {r}] /\ Goto(r, to) /\ Touch("lock")
    /\ UNCHANGED <<obj, copies, box, arg>>

RUnlock(r, from, to) ==
    /\ pc[r] = from
    /\ lock' = [lock EXCEPT !.read = @ \ {r}] /\ Goto(r, to) /\ Touch("lock")
    /\ UNCHANGED <<obj, copies, box, arg>>

\* mutant: nobody counts the copy
stm_copy_Late(r) ==
    /\ pc[r] = "copy"
    /\ arg' = [arg EXCEPT ![r] = obj.copy] /\ Touch("object") /\ Goto(r, "copied")
    /\ UNCHANGED <<obj, lock, box, copies>>

\* the copy is counted while the lock is held
stm_copy(r) ==
    /\ pc[r] = "copy"
    /\ arg' = [arg EXCEPT ![r] = obj.copy]
    /\ copies' = IF obj.copy = 0 THEN copies ELSE [copies EXCEPT ![obj.copy].reference = @ + 1]
    /\ IF obj.copy = 0 THEN Touch("object") ELSE TouchBoth("object", obj.copy)
    /\ Goto(r, "copied")
    /\ UNCHANGED <<obj, lock, box>>

\* lread: the same copy again, or a new one that replaces the last
lread(r) ==
    LET old == IF arg[r] = box[r].last THEN arg[r] ELSE box[r].last
    IN  /\ pc[r] = "read"
        /\ copies' = Released(old) /\ TouchCopy(old)
        /\ box' = [box EXCEPT ![r].last = arg[r]]
        /\ Goto(r, IF arg[r] = box[r].last \/ arg[r] = 0 THEN "idle" ELSE "use")
        /\ UNCHANGED <<obj, lock, arg>>

\* the function that lread calls looks at the message
Use(r) ==
    /\ pc[r] = "use"
    /\ TouchCopy(box[r].last) /\ Goto(r, "idle")
    /\ UNCHANGED <<obj, lock, copies, box, arg>>

\* stm_releasereader
ReleaseReader(r) ==
    /\ pc[r] = "rcount"
    /\ obj' = [obj EXCEPT !.reference = @ - 1, !.freed = @ \/ obj.reference = 1]
    /\ Goto(r, IF obj.reference = 1 THEN "rlast" ELSE "rleave") /\ Touch("object")
    /\ UNCHANGED <<lock, copies, box, arg>>

\* ldeletereader: the last copy
ldeletereader(r) ==
    /\ pc[r] = "rlast"
    /\ copies' = Released(box[r].last) /\ TouchCopy(box[r].last)
    /\ box' = [box EXCEPT ![r] = [held |-> FALSE, last |-> 0]]
    /\ Goto(r, "gone")
    /\ UNCHANGED <<obj, lock, arg>>

ReaderStep(r) ==
    \/ RLock(r, "copy") \/ stm_copy(r) \/ RUnlock(r, "copied", "read") \/ lread(r) \/ Use(r)
    \/ RLock(r, "rcount") \/ ReleaseReader(r) \/ RUnlock(r, "rleave", "rlast") \/ ldeletereader(r)

WriterStep ==
    \/ stm_update \/ WLock("update", "swap") \/ UpdateSwap \/ UpdateUnlock \/ UpdateOld
    \/ WLock("idle", "release") \/ ReleaseCopy \/ ReleaseObject \/ ReleaseUnlock

Next == WriterStep \/ \E r \in Readers : ReaderStep(r) \/ stm_grab(r)

Spec == Init /\ [][Next]_stmVars

-----------------------------------------------------------------------------
(* Properties.                                                             *)

Gone == \A t \in Threads : pc[t] = "gone" \/ (t # Writer /\ pc[t] = "idle" /\ ~box[t].held)

\* A copy is freed once, when the object has another one and no reader keeps it, and
\* nobody looks at a copy or at the fields of the object after they were freed; the
\* last reader finds no copy left (the assert of stm_releasereader), and when all are
\* gone everything is freed.
StmFreedOnce ==
    /\ "copy" \notin touched /\ "object" \notin touched
    /\ \A n \in DOMAIN copies : copies[n].freed <= 1
    /\ obj.freed => obj.copy = 0
    /\ Gone => obj.freed /\ \A n \in DOMAIN copies : copies[n].freed = 1

\* "last reader, no writer. so no need to unlock": the object is freed when nobody is
\* about to unlock it.
LastReaderAlone == "lock" \notin touched
-----------------------------------------------------------------------------
(* Proofs.                                                                 *)

StmAssumption == IsFiniteSet(Readers) /\ Writer \notin Readers /\ MaxUpdate \in Nat

WriterPlaces == {"idle", "update", "swap", "unlock", "old", "release", "count", "leave", "gone"}
ReaderPlaces == {"idle", "copy", "copied", "read", "use", "rcount", "rleave", "rlast", "gone"}

StmTypes ==
  /\ obj \in [reference : Nat, copy : Nat, freed : BOOLEAN]
  /\ \E n \in Nat \ {0} : copies \in [1 .. n -> [reference : Nat, freed : Nat]]
  /\ box \in [Readers -> [held : BOOLEAN, last : Nat]]
  /\ pc \in [Threads -> WriterPlaces \cup ReaderPlaces]
  /\ pc[Writer] \in WriterPlaces /\ \A r \in Readers : pc[r] \in ReaderPlaces
  /\ arg \in [Threads -> Nat]

(* The places a copy can be kept at, and the copy that is there: the       *)
(* object's, and the one the writer brings or takes away; a reader's last  *)
(* one, and the one it has just counted.                                   *)
Places == {"last", "on its way"} \X Threads
OnItsWay(t) ==
  CASE t = Writer /\ pc[t] \in {"update", "swap"} -> Last
    [] t = Writer /\ pc[t] \in {"unlock", "old"} -> arg[t]
    [] t # Writer /\ pc[t] \in {"copied", "read"} -> arg[t]
    [] OTHER -> 0
LastOf(t) == IF t = Writer THEN obj.copy ELSE box[t].last
Kept == [k \in Places |-> IF k[1] = "last" THEN LastOf(k[2]) ELSE OnItsWay(k[2])]
Keepers(kept, n) == {k \in Places : kept[k] = n}

(* A copy is counted once for each place, and freed with the last of them. *)
Counted(cs, kept) ==
  /\ \A k \in Places : kept[k] # 0 => kept[k] \in DOMAIN cs
  /\ \A n \in DOMAIN cs :
       /\ cs[n].reference = Cardinality(Keepers(kept, n))
       /\ cs[n].freed = IF cs[n].reference = 0 THEN 1 ELSE 0
CopyInv == Counted(copies, Kept)

(* The object is counted for the writer and for each reader.               *)
Owners ==
  {t \in Threads : IF t = Writer THEN pc[t] \notin {"leave", "gone"}
                   ELSE box[t].held /\ pc[t] \notin {"rleave", "rlast"}}
ObjectInv ==
  /\ obj.reference = Cardinality(Owners)
  /\ obj.freed <=> obj.reference = 0
  /\ obj.copy = 0 <=> pc[Writer] \in {"count", "leave", "gone"}

(* A thread is at a step of a reader while it has its box.                 *)
BoxInv ==
  \A r \in Readers :
    /\ pc[r] \notin {"idle", "gone"} => box[r].held
    /\ pc[r] = "gone" => ~box[r].held
    /\ ~box[r].held => box[r].last = 0

StmInv == StmTypes /\ CopyInv /\ ObjectInv /\ BoxInv /\ "copy" \notin touched /\ "object" \notin touched

-----------------------------------------------------------------------------
(* Counting the keepers of copies.                                         *)

LEMMA PlacesFinite ==
  ASSUME StmAssumption
  PROVE  IsFiniteSet(Places) /\ IsFiniteSet(Threads)
<1>1. IsFiniteSet(Threads)
  BY FS_Singleton, FS_Union DEF StmAssumption, Threads
<1>2. IsFiniteSet({"last", "on its way"})
  <2>1. IsFiniteSet({"last"}) /\ {"last", "on its way"} = {"last"} \cup {"on its way"}
    BY FS_Singleton
  <2> QED
    BY <2>1, FS_AddElement
<1> QED
  BY <1>1, <1>2, FS_Product DEF Places

LEMMA KeepersFinite ==
  ASSUME StmAssumption, NEW kept, NEW n
  PROVE  /\ IsFiniteSet(Keepers(kept, n)) /\ Cardinality(Keepers(kept, n)) \in Nat
         /\ Cardinality(Keepers(kept, n)) = 0 <=> \A k \in Places : kept[k] # n
<1>1. Keepers(kept, n) \subseteq Places
  BY DEF Keepers
<1>2. IsFiniteSet(Keepers(kept, n))
  BY <1>1, PlacesFinite, FS_Subset
<1>3. Keepers(kept, n) = {} <=> \A k \in Places : kept[k] # n
  BY DEF Keepers
<1> QED
  BY <1>2, <1>3, FS_CardinalityType, FS_EmptySet

(* One place gets another copy.                                            *)
LEMMA KeepersMove ==
  ASSUME StmAssumption, NEW kept \in [Places -> Nat], NEW moved \in [Places -> Nat], NEW k \in Places,
         \A i \in Places : i # k => moved[i] = kept[i], NEW n \in Nat
  PROVE  Cardinality(Keepers(moved, n)) =
           IF n = moved[k] /\ n # kept[k] THEN Cardinality(Keepers(kept, n)) + 1
           ELSE IF n # moved[k] /\ n = kept[k] THEN Cardinality(Keepers(kept, n)) - 1
           ELSE Cardinality(Keepers(kept, n))
<1>0. IsFiniteSet(Keepers(kept, n))
  BY KeepersFinite
<1>1. CASE n = moved[k] /\ n # kept[k]
  <2>1. Keepers(moved, n) = Keepers(kept, n) \cup {k} /\ k \notin Keepers(kept, n)
    BY <1>1 DEF Keepers
  <2> QED
    BY <1>0, <1>1, <2>1, FS_AddElement
<1>2. CASE n # moved[k] /\ n = kept[k]
  <2>1. Keepers(moved, n) = Keepers(kept, n) \ {k} /\ k \in Keepers(kept, n)
    BY <1>2 DEF Keepers
  <2> QED
    BY <1>0, <1>2, <2>1, FS_RemoveElement
<1>3. CASE (n = moved[k]) <=> (n = kept[k])
  <2>1. Keepers(moved, n) = Keepers(kept, n)
    BY <1>3 DEF Keepers
  <2> QED
    BY <1>3, <2>1
<1> QED
  BY <1>1, <1>2, <1>3

(* stm_releasecopy, for what one place kept.                               *)
LEMMA CountedReleased ==
  ASSUME StmAssumption, StmTypes, NEW kept \in [Places -> Nat], Counted(copies, kept), NEW k \in Places
  PROVE  Counted(Released(kept[k]), [kept EXCEPT ![k] = 0])
<1> DEFINE a == kept[k]
           left == [kept EXCEPT ![k] = 0]
<1>1. PICK m \in Nat \ {0} : copies \in [1 .. m -> [reference : Nat, freed : Nat]]
  BY DEF StmTypes
<1>2. CASE a = 0
  BY <1>2, left = kept DEF Released
<1>3. CASE a # 0
  <2>1. a \in 1 .. m
    BY <1>1, <1>3 DEF Counted
  <2>2. DOMAIN Released(a) = 1 .. m
    BY <1>1, <1>3 DEF Released
  <2>5. left \in [Places -> Nat] /\ left[k] = 0 /\ \A i \in Places : i # k => left[i] = kept[i]
    OBVIOUS
  <2>3. ASSUME NEW n \in 1 .. m
        PROVE  /\ Released(a)[n].reference = Cardinality(Keepers(left, n))
               /\ Released(a)[n].freed = IF Released(a)[n].reference = 0 THEN 1 ELSE 0
    <3>1. copies[n].reference = Cardinality(Keepers(kept, n)) /\ copies[n] \in [reference : Nat, freed : Nat]
          /\ copies[n].freed = IF copies[n].reference = 0 THEN 1 ELSE 0
      BY <1>1 DEF Counted
    <3>2. CASE n = a
      <4>1. Cardinality(Keepers(kept, n)) # 0 /\ Cardinality(Keepers(kept, n)) \in Nat
        BY <3>2, KeepersFinite
      <4>2. Cardinality(Keepers(left, n)) = Cardinality(Keepers(kept, n)) - 1
        <5> HIDE DEF left
        <5> QED
          BY <3>2, <1>3, <2>5, KeepersMove
      <4>3. /\ Released(a)[n].reference = copies[n].reference - 1
            /\ Released(a)[n].freed = IF copies[n].reference <= 1 THEN copies[n].freed + 1 ELSE copies[n].freed
        BY <3>2, <1>1, <1>3 DEF Released
      <4> QED
        BY <3>1, <4>1, <4>2, <4>3
    <3>3. CASE n # a
      <4>1. Cardinality(Keepers(left, n)) = Cardinality(Keepers(kept, n))
        <5> HIDE DEF left
        <5> QED
          BY <3>3, <2>5, KeepersMove
      <4>2. Released(a)[n] = copies[n]
        BY <3>3, <1>1, <1>3 DEF Released
      <4> QED
        BY <3>1, <4>1, <4>2
    <3> QED
      BY <3>2, <3>3
  <2>4. \A j \in Places : left[j] # 0 => left[j] \in 1 .. m
    BY <1>1 DEF Counted
  <2> QED
    BY <2>2, <2>3, <2>4 DEF Counted
<1> QED
  BY <1>2, <1>3

(* A release leaves as many copies as there were.                          *)
LEMMA ReleasedTypes ==
  ASSUME StmAssumption, StmTypes, NEW kept \in [Places -> Nat], Counted(copies, kept), NEW k \in Places,
         NEW m \in Nat, copies \in [1 .. m -> [reference : Nat, freed : Nat]]
  PROVE  Released(kept[k]) \in [1 .. m -> [reference : Nat, freed : Nat]]
<1>1. CASE kept[k] = 0
  BY <1>1 DEF Released
<1>2. CASE kept[k] # 0
  <2>1. kept[k] \in 1 .. m /\ copies[kept[k]].reference = Cardinality(Keepers(kept, kept[k]))
    BY <1>2 DEF Counted
  <2>2. copies[kept[k]].reference # 0
    BY <2>1, KeepersFinite
  <2>3. copies[kept[k]].reference - 1 \in Nat /\ copies[kept[k]].freed \in Nat
    BY <2>1, <2>2
  <2>4. DOMAIN Released(kept[k]) = 1 .. m
    BY <1>2 DEF Released
  <2>5. ASSUME NEW n \in 1 .. m PROVE Released(kept[k])[n] \in [reference : Nat, freed : Nat]
    <3>1. CASE n # kept[k]
      BY <1>2, <3>1 DEF Released
    <3>2. CASE n = kept[k]
      <4>1. Released(kept[k])[n] =
              [[copies[n] EXCEPT !.reference = @ - 1] EXCEPT
                 !.freed = IF copies[n].reference <= 1 THEN @ + 1 ELSE @]
        BY <1>2, <3>2 DEF Released
      <4>2. /\ Released(kept[k])[n] = [reference |-> copies[n].reference - 1,
                                        freed |-> IF copies[n].reference <= 1 THEN copies[n].freed + 1 ELSE copies[n].freed]
        BY <4>1
      <4> QED
        BY <4>2, <3>2, <2>3
    <3> QED
      BY <3>1, <3>2
  <2>6. Released(kept[k]) = [n \in 1 .. m |-> Released(kept[k])[n]]
    BY <1>2, <2>4 DEF Released
  <2> QED
    BY <2>5, <2>6
<1> QED
  BY <1>1, <1>2

(* stm_copy: one place more for a copy that is kept.                       *)
LEMMA CountedCopied ==
  ASSUME StmAssumption, NEW m \in Nat, copies \in [1 .. m -> [reference : Nat, freed : Nat]],
         NEW kept \in [Places -> Nat], Counted(copies, kept),
         NEW k \in Places, NEW j \in Places, kept[k] = 0, kept[j] # 0
  PROVE  Counted([copies EXCEPT ![kept[j]].reference = @ + 1], [kept EXCEPT ![k] = kept[j]])
<1> DEFINE c == kept[j]
           more == [kept EXCEPT ![k] = c]
           cs == [copies EXCEPT ![c].reference = @ + 1]
<1>1. c \in 1 .. m
  BY DEF Counted
<1>2. cs \in [1 .. m -> [reference : Nat, freed : Nat]]
  BY <1>1
<1>5. more \in [Places -> Nat] /\ more[k] = c /\ (\A i \in Places : i # k => more[i] = kept[i]) /\ c \in Nat
  OBVIOUS
<1>3. ASSUME NEW n \in 1 .. m
      PROVE  /\ cs[n].reference = Cardinality(Keepers(more, n))
             /\ cs[n].freed = IF cs[n].reference = 0 THEN 1 ELSE 0
  <2>1. copies[n].reference = Cardinality(Keepers(kept, n)) /\ copies[n] \in [reference : Nat, freed : Nat]
        /\ copies[n].freed = IF copies[n].reference = 0 THEN 1 ELSE 0
    BY DEF Counted
  <2>2. CASE n = c
    <3>1. Cardinality(Keepers(kept, n)) # 0
      BY <2>2, KeepersFinite
    <3>2. Cardinality(Keepers(more, n)) = Cardinality(Keepers(kept, n)) + 1
      <4> HIDE DEF more
      <4> QED
        BY <2>2, <1>5, KeepersMove
    <3>3. cs[n].reference = copies[n].reference + 1 /\ cs[n].freed = copies[n].freed
      BY <2>2
    <3> QED
      BY <2>1, <3>1, <3>2, <3>3
  <2>3. CASE n # c
    <3>1. Cardinality(Keepers(more, n)) = Cardinality(Keepers(kept, n))
      <4>1. n \in Nat /\ n # kept[k] /\ n # more[k]
        BY <2>3, <1>5
      <4> HIDE DEF more
      <4> QED
        BY <4>1, <1>5, KeepersMove
    <3>2. cs[n] = copies[n]
      BY <2>3
    <3> QED
      BY <2>1, <3>1, <3>2
  <2> QED
    BY <2>2, <2>3
<1>4. \A i \in Places : more[i] # 0 => more[i] \in 1 .. m
  BY <1>1 DEF Counted
<1> QED
  BY <1>2, <1>3, <1>4 DEF Counted

(* stm_newcopy: a copy that one place keeps.                               *)
LEMMA CountedNew ==
  ASSUME StmAssumption, NEW m \in Nat, copies \in [1 .. m -> [reference : Nat, freed : Nat]],
         NEW kept \in [Places -> Nat], Counted(copies, kept), NEW k \in Places, kept[k] = 0
  PROVE  Counted([n \in 1 .. m + 1 |-> IF n = m + 1 THEN [reference |-> 1, freed |-> 0] ELSE copies[n]],
                 [kept EXCEPT ![k] = m + 1])
<1> DEFINE more == [kept EXCEPT ![k] = m + 1]
           cs == [n \in 1 .. m + 1 |-> IF n = m + 1 THEN [reference |-> 1, freed |-> 0] ELSE copies[n]]
<1>1. \A i \in Places : kept[i] \in 0 .. m
  BY DEF Counted
<1>4. more \in [Places -> Nat] /\ more[k] = m + 1 /\ \A i \in Places : i # k => more[i] = kept[i]
  OBVIOUS
<1>2. ASSUME NEW n \in 1 .. m + 1
      PROVE  /\ cs[n].reference = Cardinality(Keepers(more, n))
             /\ cs[n].freed = IF cs[n].reference = 0 THEN 1 ELSE 0
  <2>1. CASE n = m + 1
    <3>1. Cardinality(Keepers(kept, n)) = 0
      BY <2>1, <1>1, KeepersFinite
    <3>2. Cardinality(Keepers(more, n)) = Cardinality(Keepers(kept, n)) + 1
      <4>1. kept[k] # n
        BY <2>1
      <4> HIDE DEF more
      <4> QED
        BY <2>1, <1>4, <4>1, KeepersMove
    <3> QED
      BY <2>1, <3>1, <3>2
  <2>2. CASE n # m + 1
    <3>1. Cardinality(Keepers(more, n)) = Cardinality(Keepers(kept, n))
      <4>1. n \in Nat /\ n # kept[k] /\ n # more[k]
        BY <2>2, <1>4
      <4> HIDE DEF more
      <4> QED
        BY <4>1, <1>4, KeepersMove
    <3>2. n \in 1 .. m /\ cs[n] = copies[n]
      BY <2>2
    <3> QED
      BY <3>1, <3>2 DEF Counted
  <2> QED
    BY <2>1, <2>2
<1>3. \A i \in Places : more[i] # 0 => more[i] \in 1 .. m + 1
  BY <1>1
<1> QED
  BY <1>2, <1>3 DEF Counted

(* Two places that exchange their copies.                                  *)
LEMMA KeepersSwap ==
  ASSUME StmAssumption, NEW n \in Nat, NEW k \in Places, NEW j \in Places,
         NEW kept \in [Places -> Nat], NEW half \in [Places -> Nat], NEW swapped \in [Places -> Nat],
         half[k] = kept[j], half[j] = kept[j], \A i \in Places : i # k => half[i] = kept[i],
         swapped[j] = kept[k], \A i \in Places : i # j => swapped[i] = half[i]
  PROVE  Cardinality(Keepers(swapped, n)) = Cardinality(Keepers(kept, n))
<1>1. Cardinality(Keepers(half, n)) =
        IF n = half[k] /\ n # kept[k] THEN Cardinality(Keepers(kept, n)) + 1
        ELSE IF n # half[k] /\ n = kept[k] THEN Cardinality(Keepers(kept, n)) - 1
        ELSE Cardinality(Keepers(kept, n))
  BY KeepersMove
<1>2. Cardinality(Keepers(swapped, n)) =
        IF n = swapped[j] /\ n # half[j] THEN Cardinality(Keepers(half, n)) + 1
        ELSE IF n # swapped[j] /\ n = half[j] THEN Cardinality(Keepers(half, n)) - 1
        ELSE Cardinality(Keepers(half, n))
  BY KeepersMove
<1> QED
  BY <1>1, <1>2, KeepersFinite

LEMMA CountedSwapped ==
  ASSUME StmAssumption, NEW m \in Nat, NEW cs, DOMAIN cs = 1 .. m, NEW kept \in [Places -> Nat],
         Counted(cs, kept), NEW k \in Places, NEW j \in Places
  PROVE  Counted(cs, [[kept EXCEPT ![k] = kept[j]] EXCEPT ![j] = kept[k]])
<1> DEFINE half == [kept EXCEPT ![k] = kept[j]]
           swapped == [half EXCEPT ![j] = kept[k]]
<1>1. /\ half \in [Places -> Nat] /\ half[j] = kept[j] /\ half[k] = kept[j]
      /\ \A i \in Places : i # k => half[i] = kept[i]
  OBVIOUS
<1>2. swapped \in [Places -> Nat] /\ swapped[j] = kept[k] /\ \A i \in Places : i # j => swapped[i] = half[i]
  BY <1>1
<1>3. \A i \in Places : swapped[i] # 0 => swapped[i] \in 1 .. m
  BY DEF Counted
<1>4. ASSUME NEW n \in 1 .. m PROVE Cardinality(Keepers(swapped, n)) = Cardinality(Keepers(kept, n))
  <2>1. n \in Nat /\ half \in [Places -> Nat]
    BY <1>1
  <2> HIDE DEF half
  <2>2. swapped \in [Places -> Nat]
    BY <1>2
  <2> HIDE DEF swapped
  <2> QED
    BY ONLY StmAssumption, k \in Places, j \in Places, kept \in [Places -> Nat], <1>1, <1>2, <2>1, <2>2, KeepersSwap
<1> QED
  BY <1>3, <1>4 DEF Counted

-----------------------------------------------------------------------------
(* The places of a state, and of the next one.                             *)

LEMMA LastIs ==
  ASSUME NEW m \in Nat \ {0}, NEW cs, DOMAIN cs = 1 .. m
  PROVE  (CHOOSE n \in DOMAIN cs : \A i \in DOMAIN cs : i <= n) = m
<1>1. m \in DOMAIN cs /\ \A n \in DOMAIN cs : n <= m
  OBVIOUS
<1>2. \A n \in DOMAIN cs : (\A i \in DOMAIN cs : i <= n) => n = m
  OBVIOUS
<1> QED
  BY <1>1, <1>2

LEMMA KeptAt ==
  ASSUME NEW t \in Threads
  PROVE  /\ <<"last", t>> \in Places /\ <<"on its way", t>> \in Places /\ <<"last", t>> # <<"on its way", t>>
         /\ Kept[<<"last", t>>] = LastOf(t) /\ Kept[<<"on its way", t>>] = OnItsWay(t)
  BY DEF Places, Kept

LEMMA KeptTypes ==
  ASSUME StmAssumption, StmTypes
  PROVE  Kept \in [Places -> Nat] /\ \A t \in Threads : LastOf(t) \in Nat /\ OnItsWay(t) \in Nat
<1>1. Last \in Nat
  <2>1. PICK m \in Nat \ {0} : copies \in [1 .. m -> [reference : Nat, freed : Nat]]
    BY DEF StmTypes
  <2> QED
    BY <2>1, LastIs DEF Last
<1>2. \A t \in Threads : LastOf(t) \in Nat
  BY DEF StmTypes, LastOf, Threads
<1>3. \A t \in Threads : OnItsWay(t) \in Nat
  BY <1>1 DEF StmTypes, OnItsWay
<1>4. \A k \in Places : Kept[k] \in Nat
  BY <1>2, <1>3 DEF Kept, Places
<1> QED
  BY <1>2, <1>3, <1>4 DEF Kept

LEMMA PairIs ==
  ASSUME NEW S, NEW T, NEW k \in S \X T
  PROVE  \E a \in S, b \in T : k = <<a, b>>
  OBVIOUS

LEMMA PlaceIs ==
  ASSUME NEW k \in Places
  PROVE  \E what \in {"last", "on its way"}, t \in Threads : k = <<what, t>>
<1> DEFINE S == {"last", "on its way"}
<1>1. k \in S \X Threads
  BY DEF Places
<1> HIDE DEF S
<1>2. \E what \in S, t \in Threads : k = <<what, t>>
  BY <1>1, PairIs
<1> QED
  BY <1>2 DEF S

LEMMA KeptIs ==
  ASSUME NEW g \in [Places -> Nat],
         \A t \in Threads : g[<<"last", t>>] = LastOf(t)' /\ g[<<"on its way", t>>] = OnItsWay(t)'
  PROVE  Kept' = g
<1>2. ASSUME NEW k \in Places PROVE Kept'[k] = g[k]
  <2>1. PICK what \in {"last", "on its way"}, t \in Threads : k = <<what, t>>
    BY PlaceIs
  <2>2. CASE what = "last"
    BY <2>1, <2>2 DEF Kept
  <2>3. CASE what = "on its way"
    BY <2>1, <2>3 DEF Kept
  <2> QED
    BY <2>1, <2>2, <2>3
<1>3. Kept' = [k \in Places |-> Kept'[k]]
  BY DEF Kept
<1> QED
  BY <1>2, <1>3

(* A step that moves no copy.                                              *)
LEMMA NothingMoves ==
  ASSUME StmAssumption, StmTypes, CopyInv, copies' = copies,
         \A t \in Threads : LastOf(t)' = LastOf(t) /\ OnItsWay(t)' = OnItsWay(t)
  PROVE  CopyInv'
<1>1. Kept' = Kept
  BY KeptTypes, KeptAt, KeptIs
<1> QED
  BY <1>1 DEF CopyInv

LEMMA OwnersFinite ==
  ASSUME StmAssumption
  PROVE  /\ IsFiniteSet(Owners) /\ Cardinality(Owners) \in Nat
         /\ Cardinality(Owners) = 0 <=> Owners = {}
<1>1. Owners \subseteq Threads
  BY DEF Owners
<1> QED
  BY <1>1, PlacesFinite, FS_Subset, FS_CardinalityType, FS_EmptySet

(* A copy that is kept is counted, and not freed; nor is the object, while *)
(* a thread owns it.                                                       *)
LEMMA KeptIsUsable ==
  ASSUME StmAssumption, StmTypes, CopyInv, NEW k \in Places, Kept[k] # 0
  PROVE  Kept[k] \in DOMAIN copies /\ copies[Kept[k]].freed = 0
<1>1. Kept[k] \in DOMAIN copies /\ copies[Kept[k]].reference = Cardinality(Keepers(Kept, Kept[k]))
      /\ copies[Kept[k]].freed = IF copies[Kept[k]].reference = 0 THEN 1 ELSE 0
  BY DEF CopyInv, Counted
<1>2. copies[Kept[k]].reference # 0
  BY <1>1, KeepersFinite
<1> QED
  BY <1>1, <1>2

LEMMA OwnedIsUsable ==
  ASSUME StmAssumption, ObjectInv, NEW t \in Owners
  PROVE  ~obj.freed /\ obj.reference \in Nat \ {0}
  BY OwnersFinite DEF ObjectInv

-----------------------------------------------------------------------------
(* The steps.                                                              *)

(* A thread goes on, and moves nothing.                                    *)
LEMMA GoesOn ==
  ASSUME StmAssumption, StmInv, NEW t \in Threads, NEW from, NEW to,
         pc[t] = from, Goto(t, to), UNCHANGED <<obj, copies, box, arg>>,
         \/ t = Writer /\ <<from, to>> \in {<<"update", "swap">>, <<"unlock", "old">>, <<"idle", "release">>, <<"leave", "gone">>}
         \/ /\ t # Writer /\ box[t].held
            /\ <<from, to>> \in {<<"idle", "copy">>, <<"copied", "read">>, <<"use", "idle">>,
                                 <<"idle", "rcount">>, <<"rleave", "rlast">>}
  PROVE  StmTypes' /\ CopyInv' /\ ObjectInv' /\ BoxInv'
<1>0. pc \in [Threads -> WriterPlaces \cup ReaderPlaces] /\ pc' = [pc EXCEPT ![t] = to] /\ Writer \in Threads /\ Writer \notin Readers
  BY DEF StmInv, StmTypes, Goto, Threads, StmAssumption
<1>1. StmTypes'
  BY <1>0 DEF StmInv, StmTypes, WriterPlaces, ReaderPlaces, Threads
<1>2. CopyInv'
  <2>1. ASSUME NEW u \in Threads PROVE LastOf(u)' = LastOf(u) /\ OnItsWay(u)' = OnItsWay(u)
    <3>1. LastOf(u)' = LastOf(u) /\ Last' = Last
      BY DEF LastOf, Last
    <3>2. CASE u = t
      BY <3>1, <3>2, <1>0 DEF OnItsWay
    <3>3. CASE u # t
      BY <3>1, <3>3, <1>0 DEF OnItsWay
    <3> QED
      BY <3>1, <3>2, <3>3
  <2> QED
    BY <2>1, NothingMoves DEF StmInv
<1>3. ObjectInv'
  <2>1. \A u \in Threads : u \in Owners' <=> u \in Owners
    BY <1>0 DEF Owners
  <2>2. Owners' = Owners
    BY <2>1 DEF Owners
  <2> QED
    BY <2>2, <1>0 DEF ObjectInv, StmInv
<1>4. BoxInv'
  BY <1>0 DEF BoxInv, StmInv
<1> QED
  BY <1>1, <1>2, <1>3, <1>4

LEMMA LocksAndUses ==
  ASSUME StmAssumption, StmInv,
         \/ WLock("update", "swap") \/ WLock("idle", "release") \/ UpdateUnlock \/ ReleaseUnlock
         \/ \E r \in Readers : \/ RLock(r, "copy") \/ RUnlock(r, "copied", "read") \/ Use(r)
                               \/ RLock(r, "rcount") \/ RUnlock(r, "rleave", "rlast")
  PROVE  StmInv'
<1>0. Writer \in Threads /\ Readers \subseteq Threads /\ Writer \notin Readers /\ StmTypes /\ BoxInv
  BY DEF Threads, StmAssumption, StmInv
<1>1. CASE WLock("update", "swap") \/ WLock("idle", "release") \/ UpdateUnlock \/ ReleaseUnlock
  <2>1. touched' \subseteq touched \cup {"lock"}
    BY <1>1 DEF WLock, UpdateUnlock, ReleaseUnlock, Touch
  <2>2. StmTypes' /\ CopyInv' /\ ObjectInv' /\ BoxInv'
    BY <1>0, <1>1, GoesOn DEF WLock, UpdateUnlock, ReleaseUnlock
  <2> QED
    BY <2>1, <2>2 DEF StmInv
<1>2. ASSUME NEW r \in Readers,
             RLock(r, "copy") \/ RUnlock(r, "copied", "read") \/ RLock(r, "rcount") \/ RUnlock(r, "rleave", "rlast")
      PROVE  StmInv'
  <2>1. touched' \subseteq touched \cup {"lock"}
    BY <1>2 DEF RLock, RUnlock, Touch
  <2>2. box[r].held
    BY <1>0, <1>2 DEF RLock, RUnlock, BoxInv
  <2>3. StmTypes' /\ CopyInv' /\ ObjectInv' /\ BoxInv'
    BY <1>0, <1>2, <2>2, GoesOn DEF RLock, RUnlock
  <2> QED
    BY <2>1, <2>3 DEF StmInv
<1>3. ASSUME NEW r \in Readers, Use(r) PROVE StmInv'
  <2>1. box[r].last # 0 => copies[box[r].last].freed = 0
    <3>1. Kept[<<"last", r>>] = box[r].last /\ <<"last", r>> \in Places
      BY <1>0, KeptAt DEF LastOf
    <3> QED
      BY <3>1, KeptIsUsable DEF StmInv
  <2>2. touched' = touched
    BY <1>3, <2>1 DEF Use, TouchCopy
  <2>3. StmTypes' /\ CopyInv' /\ ObjectInv' /\ BoxInv'
    BY <1>0, <1>3, GoesOn DEF Use, BoxInv
  <2> QED
    BY <2>2, <2>3 DEF StmInv
<1> QED
  BY <1>1, <1>2, <1>3

(* The writer gives the object to a reader.                                *)
LEMMA GrabStep ==
  ASSUME StmAssumption, StmInv, NEW r \in Readers, stm_grab(r)
  PROVE  StmInv'
<1>0. Writer \in Threads /\ r \in Threads /\ Writer # r /\ StmTypes /\ pc[r] = "idle" /\ pc[Writer] = "idle" /\ ~box[r].held
  BY DEF Threads, StmAssumption, StmInv, stm_grab
<1>1. ~obj.freed /\ obj.reference \in Nat \ {0}
  BY <1>0, OwnedIsUsable DEF Owners, StmInv
<1>2. touched' = touched
  BY <1>1 DEF stm_grab, Touch
<1>3. StmTypes'
  <2>1. obj' \in [reference : Nat, copy : Nat, freed : BOOLEAN]
    <3>1. obj' = [reference |-> obj.reference + 1, copy |-> obj.copy, freed |-> obj.freed]
      BY <1>0 DEF StmTypes, stm_grab
    <3> QED
      BY <1>0, <1>1, <3>1 DEF StmTypes
  <2>2. box' \in [Readers -> [held : BOOLEAN, last : Nat]]
    BY <1>0 DEF StmTypes, stm_grab
  <2> QED
    BY <1>0, <2>1, <2>2 DEF StmTypes, stm_grab
<1>4. CopyInv'
  <2>1. ASSUME NEW t \in Threads PROVE LastOf(t)' = LastOf(t) /\ OnItsWay(t)' = OnItsWay(t)
    <3>1. Last' = Last
      BY DEF stm_grab, Last
    <3>2. box[r].last = 0
      BY <1>0 DEF StmInv, BoxInv
    <3> QED
      BY <1>0, <3>1, <3>2 DEF LastOf, OnItsWay, stm_grab, StmTypes, Threads
  <2>2. copies' = copies
    BY DEF stm_grab
  <2> QED
    BY <2>1, <2>2, NothingMoves DEF StmInv
<1>5. ObjectInv'
  <2>1. r \notin Owners
    BY <1>0 DEF Owners
  <2>2. Owners' = Owners \cup {r}
    <3>1. \A t \in Threads : t \in Owners' <=> t \in Owners \/ t = r
      BY <1>0 DEF Owners, stm_grab, StmTypes, Threads
    <3> QED
      BY <3>1, <1>0 DEF Owners
  <2>3. Cardinality(Owners') = Cardinality(Owners) + 1
    BY <2>1, <2>2, OwnersFinite, FS_AddElement
  <2>4. obj'.reference = obj.reference + 1 /\ obj'.freed = obj.freed /\ obj'.copy = obj.copy /\ pc' = pc
    BY <1>0 DEF stm_grab, StmTypes
  <2> QED
    BY <1>1, <2>3, <2>4 DEF ObjectInv, StmInv
<1>6. BoxInv'
  BY <1>0 DEF BoxInv, StmInv, StmTypes, stm_grab
<1> QED
  BY <1>2, <1>3, <1>4, <1>5, <1>6 DEF StmInv

(* The writer makes a copy.                                                *)
LEMMA UpdateStep ==
  ASSUME StmAssumption, StmInv, stm_update
  PROVE  StmInv'
<1>0. Writer \in Threads /\ Writer \notin Readers /\ StmTypes /\ pc[Writer] = "idle" /\ pc' = [pc EXCEPT ![Writer] = "update"]
      /\ UNCHANGED <<obj, lock, box, arg, touched>>
  BY DEF Threads, StmAssumption, StmInv, stm_update, Goto
<1>1. PICK m \in Nat \ {0} : copies \in [1 .. m -> [reference : Nat, freed : Nat]]
  BY <1>0 DEF StmTypes
<1>2. Last = m
  BY <1>1, LastIs DEF Last
<1>3. copies' = [n \in 1 .. m + 1 |-> IF n = m + 1 THEN [reference |-> 1, freed |-> 0] ELSE copies[n]]
  <2>1. DOMAIN copies \cup {Last + 1} = 1 .. m + 1
    BY <1>1, <1>2
  <2> QED
    BY <1>2, <2>1 DEF stm_update
<1>4. copies' \in [1 .. m + 1 -> [reference : Nat, freed : Nat]] /\ m + 1 \in Nat \ {0}
  BY <1>1, <1>3
<1>5. StmTypes'
  <2>1. \E n \in Nat \ {0} : copies' \in [1 .. n -> [reference : Nat, freed : Nat]]
    BY <1>4
  <2> QED
    BY <1>0, <2>1 DEF StmTypes, WriterPlaces, ReaderPlaces, Threads
<1>6. CopyInv'
  <2> DEFINE k == <<"on its way", Writer>>
             kept == [Kept EXCEPT ![k] = m + 1]
  <2>1. Kept \in [Places -> Nat] /\ k \in Places /\ Kept[k] = 0
    BY <1>0, KeptTypes, KeptAt DEF OnItsWay
  <2>2. Last' = m + 1
    BY <1>4, LastIs DEF Last
  <2>3. ASSUME NEW t \in Threads
        PROVE  kept[<<"last", t>>] = LastOf(t)' /\ kept[<<"on its way", t>>] = OnItsWay(t)'
    <3>1. CASE t = Writer
      BY <1>0, <2>1, <2>2, <3>1, KeptAt DEF LastOf, OnItsWay, StmTypes
    <3>2. CASE t # Writer
      BY <1>0, <2>1, <3>2, KeptAt DEF LastOf, OnItsWay, StmTypes
    <3> QED
      BY <3>1, <3>2
  <2>4. kept \in [Places -> Nat]
    BY <1>4, <2>1
  <2>5. Kept' = kept
    <3> HIDE DEF kept
    <3> QED
      BY <2>3, <2>4, KeptIs
  <2>6. Counted(copies', kept)
    <3> HIDE DEF k
    <3> QED
      BY <1>1, <1>3, <2>1, CountedNew DEF StmInv, CopyInv
  <2> QED
    BY <2>5, <2>6 DEF CopyInv
<1>7. ObjectInv'
  <2>1. \A u \in Threads : u \in Owners' <=> u \in Owners
    BY <1>0 DEF Owners, StmTypes
  <2>2. Owners' = Owners
    BY <2>1 DEF Owners
  <2> QED
    BY <2>2, <1>0 DEF ObjectInv, StmInv, StmTypes
<1>8. BoxInv'
  BY <1>0 DEF BoxInv, StmInv, StmTypes
<1> QED
  BY <1>0, <1>5, <1>6, <1>7, <1>8 DEF StmInv

(* The object gets the new copy, the writer keeps the old one.             *)
LEMMA SwapStep ==
  ASSUME StmAssumption, StmInv, UpdateSwap
  PROVE  StmInv'
<1>0. /\ Writer \in Threads /\ Writer \notin Readers /\ StmTypes /\ pc[Writer] = "swap"
      /\ pc' = [pc EXCEPT ![Writer] = "unlock"] /\ arg' = [arg EXCEPT ![Writer] = obj.copy]
      /\ obj' = [obj EXCEPT !.copy = Last] /\ UNCHANGED <<copies, box>>
  BY DEF Threads, StmAssumption, StmInv, UpdateSwap, Goto
<1>1. PICK m \in Nat \ {0} : copies \in [1 .. m -> [reference : Nat, freed : Nat]]
  BY <1>0 DEF StmTypes
<1>2. Last = m /\ Last' = m
  BY <1>0, <1>1, LastIs DEF Last
<1>3. touched' = touched
  BY <1>0, OwnedIsUsable DEF Owners, StmInv, UpdateSwap, Touch
<1>5. StmTypes'
  BY <1>0, <1>2 DEF StmTypes, WriterPlaces, ReaderPlaces, Threads
<1>6. CopyInv'
  <2> DEFINE k == <<"last", Writer>>
             j == <<"on its way", Writer>>
             kept == [[Kept EXCEPT ![k] = Kept[j]] EXCEPT ![j] = Kept[k]]
  <2>1. Kept \in [Places -> Nat] /\ k \in Places /\ j \in Places /\ Kept[k] = obj.copy /\ Kept[j] = m
    BY <1>0, <1>2, KeptTypes, KeptAt DEF OnItsWay, LastOf
  <2>3. ASSUME NEW t \in Threads
        PROVE  kept[<<"last", t>>] = LastOf(t)' /\ kept[<<"on its way", t>>] = OnItsWay(t)'
    <3>1. CASE t = Writer
      BY <1>0, <2>1, <1>2, <3>1, KeptAt DEF LastOf, OnItsWay, StmTypes
    <3>2. CASE t # Writer
      BY <1>0, <2>1, <3>2, KeptAt DEF LastOf, OnItsWay, StmTypes
    <3> QED
      BY <3>1, <3>2
  <2>4. kept \in [Places -> Nat]
    BY <2>1
  <2>5. Kept' = kept
    <3> HIDE DEF kept
    <3> QED
      BY <2>3, <2>4, KeptIs
  <2>6. Counted(copies, kept)
    <3> HIDE DEF k, j
    <3> QED
      BY <1>1, <2>1, CountedSwapped DEF StmInv, CopyInv
  <2> QED
    BY <1>0, <2>5, <2>6 DEF CopyInv
<1>7. ObjectInv'
  <2>1. \A u \in Threads : u \in Owners' <=> u \in Owners
    BY <1>0 DEF Owners, StmTypes
  <2>2. Owners' = Owners
    BY <2>1 DEF Owners
  <2> QED
    BY <2>2, <1>0, <1>2 DEF ObjectInv, StmInv, StmTypes
<1>8. BoxInv'
  BY <1>0 DEF BoxInv, StmInv, StmTypes
<1> QED
  BY <1>3, <1>5, <1>6, <1>7, <1>8 DEF StmInv

(* What one place kept is released, and the places of a state without it   *)
(* are those of the next one.                                              *)
LEMMA ReleaseMoves ==
  ASSUME StmAssumption, StmTypes, CopyInv, NEW k \in Places, copies' = Released(Kept[k]),
         NEW g \in [Places -> Nat], g = [Kept EXCEPT ![k] = 0],
         \A t \in Threads : g[<<"last", t>>] = LastOf(t)' /\ g[<<"on its way", t>>] = OnItsWay(t)'
  PROVE  CopyInv'
<1>1. Kept' = g
  BY KeptIs
<1>2. Counted(copies', g)
  BY KeptTypes, CountedReleased DEF CopyInv
<1> QED
  BY <1>1, <1>2 DEF CopyInv

(* A release touches a copy that is not freed, and leaves as many copies.  *)
LEMMA ReleaseTouches ==
  ASSUME StmAssumption, StmTypes, CopyInv, NEW k \in Places
  PROVE  /\ \E m \in Nat \ {0} : /\ copies \in [1 .. m -> [reference : Nat, freed : Nat]]
                                 /\ Released(Kept[k]) \in [1 .. m -> [reference : Nat, freed : Nat]]
         /\ Kept[k] # 0 => copies[Kept[k]].freed = 0
<1>1. PICK m \in Nat \ {0} : copies \in [1 .. m -> [reference : Nat, freed : Nat]]
  BY DEF StmTypes
<1>2. Released(Kept[k]) \in [1 .. m -> [reference : Nat, freed : Nat]]
  BY <1>1, KeptTypes, ReleasedTypes DEF CopyInv
<1> QED
  BY <1>1, <1>2, KeptIsUsable

LEMMA LastStays ==
  ASSUME NEW m \in Nat \ {0}, DOMAIN copies = 1 .. m, DOMAIN copies' = 1 .. m
  PROVE  Last' = Last
  BY LastIs DEF Last

(* The writer lets the old copy go.                                        *)
LEMMA OldStep ==
  ASSUME StmAssumption, StmInv, UpdateOld
  PROVE  StmInv'
<1>0. /\ Writer \in Threads /\ Writer \notin Readers /\ StmTypes /\ CopyInv /\ pc[Writer] = "old"
      /\ pc' = [pc EXCEPT ![Writer] = "idle"] /\ UNCHANGED <<obj, box, arg>>
  BY DEF Threads, StmAssumption, StmInv, UpdateOld, Goto
<1> DEFINE k == <<"on its way", Writer>>
           g == [Kept EXCEPT ![k] = 0]
<1>1. Kept \in [Places -> Nat] /\ k \in Places /\ Kept[k] = arg[Writer] /\ g \in [Places -> Nat]
  BY <1>0, KeptTypes, KeptAt DEF OnItsWay
<1>2. copies' = Released(Kept[k])
  BY <1>1 DEF UpdateOld
<1>3. PICK m \in Nat \ {0} : /\ copies \in [1 .. m -> [reference : Nat, freed : Nat]]
                             /\ copies' \in [1 .. m -> [reference : Nat, freed : Nat]]
  BY <1>0, <1>1, <1>2, ReleaseTouches
<1>4. Last' = Last
  BY <1>3, LastStays
<1>5. touched' = touched
  <2>1. arg[Writer] # 0 => copies[arg[Writer]].freed = 0
    BY <1>0, <1>1, KeptIsUsable
  <2> QED
    BY <2>1 DEF UpdateOld, TouchCopy
<1>6. StmTypes'
  <2>1. \E n \in Nat \ {0} : copies' \in [1 .. n -> [reference : Nat, freed : Nat]]
    BY <1>3
  <2> QED
    BY <1>0, <2>1 DEF StmTypes, WriterPlaces, ReaderPlaces, Threads
<1>7. CopyInv'
  <2>1. ASSUME NEW t \in Threads
        PROVE  g[<<"last", t>>] = LastOf(t)' /\ g[<<"on its way", t>>] = OnItsWay(t)'
    <3>1. CASE t = Writer
      BY <1>0, <1>1, <3>1, KeptAt DEF LastOf, OnItsWay, StmTypes
    <3>2. CASE t # Writer
      BY <1>0, <1>1, <3>2, KeptAt DEF LastOf, OnItsWay, StmTypes
    <3> QED
      BY <3>1, <3>2
  <2> HIDE DEF k
  <2> QED
    BY <1>0, <1>1, <1>2, <2>1, ReleaseMoves
<1>8. ObjectInv'
  <2>1. \A u \in Threads : u \in Owners' <=> u \in Owners
    BY <1>0 DEF Owners, StmTypes
  <2>2. Owners' = Owners
    BY <2>1 DEF Owners
  <2> QED
    BY <2>2, <1>0 DEF ObjectInv, StmInv, StmTypes
<1>9. BoxInv'
  BY <1>0 DEF BoxInv, StmInv, StmTypes
<1> QED
  BY <1>5, <1>6, <1>7, <1>8, <1>9 DEF StmInv

(* The writer lets the last copy go.                                       *)
LEMMA ReleaseCopyStep ==
  ASSUME StmAssumption, StmInv, ReleaseCopy
  PROVE  StmInv'
<1>0. /\ Writer \in Threads /\ Writer \notin Readers /\ StmTypes /\ CopyInv /\ pc[Writer] = "release"
      /\ pc' = [pc EXCEPT ![Writer] = "count"] /\ obj' = [obj EXCEPT !.copy = 0] /\ UNCHANGED <<box, arg>>
  BY DEF Threads, StmAssumption, StmInv, ReleaseCopy, Goto
<1> DEFINE k == <<"last", Writer>>
           g == [Kept EXCEPT ![k] = 0]
<1>1. Kept \in [Places -> Nat] /\ k \in Places /\ Kept[k] = obj.copy /\ g \in [Places -> Nat]
  BY <1>0, KeptTypes, KeptAt DEF LastOf
<1>2. copies' = Released(Kept[k])
  BY <1>1 DEF ReleaseCopy
<1>3. PICK m \in Nat \ {0} : /\ copies \in [1 .. m -> [reference : Nat, freed : Nat]]
                             /\ copies' \in [1 .. m -> [reference : Nat, freed : Nat]]
  BY <1>0, <1>1, <1>2, ReleaseTouches
<1>4. Last' = Last
  BY <1>3, LastStays
<1>5. touched' = touched
  <2>1. ~obj.freed
    BY <1>0, OwnedIsUsable DEF Owners, StmInv
  <2>2. obj.copy # 0
    BY <1>0 DEF ObjectInv, StmInv
  <2>3. copies[obj.copy].freed = 0
    BY <1>0, <1>1, <2>2, ReleaseTouches
  <2>4. touched' = touched \cup ({} \cup {})
    BY <2>1, <2>3 DEF ReleaseCopy, TouchBoth
  <2> QED
    BY <2>4
<1>6. StmTypes'
  <2>1. \E n \in Nat \ {0} : copies' \in [1 .. n -> [reference : Nat, freed : Nat]]
    BY <1>3
  <2> QED
    BY <1>0, <2>1 DEF StmTypes, WriterPlaces, ReaderPlaces, Threads
<1>7. CopyInv'
  <2>1. ASSUME NEW t \in Threads
        PROVE  g[<<"last", t>>] = LastOf(t)' /\ g[<<"on its way", t>>] = OnItsWay(t)'
    <3>1. CASE t = Writer
      BY <1>0, <1>1, <3>1, KeptAt DEF LastOf, OnItsWay, StmTypes
    <3>2. CASE t # Writer
      BY <1>0, <1>1, <3>2, KeptAt DEF LastOf, OnItsWay, StmTypes
    <3> QED
      BY <3>1, <3>2
  <2> HIDE DEF k
  <2> QED
    BY <1>0, <1>1, <1>2, <2>1, ReleaseMoves
<1>8. ObjectInv'
  <2>1. \A u \in Threads : u \in Owners' <=> u \in Owners
    BY <1>0 DEF Owners, StmTypes
  <2>2. Owners' = Owners
    BY <2>1 DEF Owners
  <2> QED
    BY <2>2, <1>0 DEF ObjectInv, StmInv, StmTypes
<1>9. BoxInv'
  BY <1>0 DEF BoxInv, StmInv, StmTypes
<1> QED
  BY <1>5, <1>6, <1>7, <1>8, <1>9 DEF StmInv

(* A thread gives its reference to the object back.                        *)
LEMMA ObjectLessOne ==
  ASSUME StmTypes, obj.reference # 0, NEW b \in BOOLEAN, b <=> obj.reference = 1,
         obj' = [obj EXCEPT !.reference = @ - 1, !.freed = b]
  PROVE  /\ obj' \in [reference : Nat, copy : Nat, freed : BOOLEAN]
         /\ obj'.reference = obj.reference - 1 /\ obj'.copy = obj.copy
         /\ obj'.freed <=> obj'.reference = 0
<1>1. obj.reference - 1 \in Nat
  BY DEF StmTypes
<1>2. obj' = [reference |-> obj.reference - 1, copy |-> obj.copy, freed |-> b]
  BY DEF StmTypes
<1> QED
  BY <1>1, <1>2 DEF StmTypes

LEMMA Disowned ==
  ASSUME StmAssumption, StmInv, NEW t \in Owners, NEW to \in {"leave", "gone", "rleave", "rlast"}, NEW b \in BOOLEAN,
         pc' = [pc EXCEPT ![t] = to], UNCHANGED <<copies, box, arg>>, Touch("object"),
         obj' = [obj EXCEPT !.reference = @ - 1, !.freed = b], b <=> obj.reference = 1,
         \/ t = Writer /\ pc[t] = "count" /\ to \in {"leave", "gone"}
         \/ t \in Readers /\ pc[t] = "rcount" /\ to \in {"rleave", "rlast"}
  PROVE  StmInv'
<1>1. Writer \in Threads /\ Writer \notin Readers /\ StmTypes /\ BoxInv /\ t \in Threads
  BY DEF Threads, StmAssumption, StmInv, Owners
<1>3. ~obj.freed /\ obj.reference \in Nat \ {0}
  BY OwnedIsUsable DEF StmInv
<1>4. touched' = touched
  BY <1>3 DEF Touch
<1>5. /\ obj' \in [reference : Nat, copy : Nat, freed : BOOLEAN]
      /\ obj'.reference = obj.reference - 1 /\ obj'.copy = obj.copy
      /\ obj'.freed <=> obj'.reference = 0
  BY <1>1, <1>3, ObjectLessOne
<1>6. StmTypes'
  BY <1>1, <1>5 DEF StmTypes, WriterPlaces, ReaderPlaces, Threads
<1>7. CopyInv'
  <2>1. ASSUME NEW u \in Threads PROVE LastOf(u)' = LastOf(u) /\ OnItsWay(u)' = OnItsWay(u)
    <3>1. LastOf(u)' = LastOf(u) /\ Last' = Last
      BY <1>5 DEF LastOf, Last
    <3>2. CASE u = t
      BY <3>1, <3>2, <1>1 DEF OnItsWay, StmTypes
    <3>3. CASE u # t
      BY <3>1, <3>3, <1>1 DEF OnItsWay, StmTypes
    <3> QED
      BY <3>1, <3>2, <3>3
  <2> QED
    BY <1>1, <2>1, NothingMoves DEF StmInv
<1>8. ObjectInv'
  <2>1. \A u \in Threads : u \in Owners' <=> u \in Owners /\ u # t
    BY <1>1 DEF Owners, StmTypes
  <2>2. Owners' = Owners \ {t}
    BY <2>1 DEF Owners
  <2>3. Cardinality(Owners') = Cardinality(Owners) - 1
    BY <2>2, OwnersFinite, FS_RemoveElement
  <2>4. pc'[Writer] \in {"count", "leave", "gone"} <=> pc[Writer] \in {"count", "leave", "gone"}
    BY <1>1 DEF StmTypes
  <2> QED
    BY <2>3, <2>4, <1>5 DEF ObjectInv, StmInv
<1>9. BoxInv'
  BY <1>1 DEF BoxInv, StmTypes
<1> QED
  BY <1>4, <1>6, <1>7, <1>8, <1>9 DEF StmInv

LEMMA DisownStep ==
  ASSUME StmAssumption, StmInv,
         ReleaseObject \/ \E r \in Readers : ReleaseReader(r)
  PROVE  StmInv'
<1>1. Writer \in Threads /\ Writer \notin Readers /\ Readers \subseteq Threads /\ StmTypes /\ BoxInv
  BY DEF Threads, StmAssumption, StmInv
<1>2. ASSUME NEW t \in Owners PROVE ~obj.freed /\ obj.reference \in Nat \ {0}
  BY OwnedIsUsable DEF StmInv
<1>3. CASE ReleaseObject
  <2>1. Writer \in Owners /\ pc[Writer] = "count" /\ UNCHANGED <<copies, box, arg>> /\ Touch("object")
    BY <1>1, <1>3 DEF Owners, ReleaseObject
  <2>2. \E to \in {"leave", "gone"} : pc' = [pc EXCEPT ![Writer] = to]
    BY <1>3 DEF ReleaseObject, Goto
  <2> DEFINE b == obj.reference <= 1
  <2>3. obj' = [obj EXCEPT !.reference = @ - 1, !.freed = b]
    BY <1>3 DEF ReleaseObject
  <2>4. b \in BOOLEAN /\ (b <=> obj.reference = 1)
    BY <1>2, <2>1
  <2> HIDE DEF b
  <2> QED
    BY <2>1, <2>2, <2>3, <2>4, Disowned
<1>4. ASSUME NEW r \in Readers, ReleaseReader(r) PROVE StmInv'
  <2>1. r \in Owners /\ pc[r] = "rcount" /\ UNCHANGED <<copies, box, arg>> /\ Touch("object")
    BY <1>1, <1>4 DEF Owners, ReleaseReader, BoxInv
  <2>2. \E to \in {"rleave", "rlast"} : pc' = [pc EXCEPT ![r] = to]
    BY <1>4 DEF ReleaseReader, Goto
  <2> DEFINE b == obj.freed \/ obj.reference = 1
  <2>3. obj' = [obj EXCEPT !.reference = @ - 1, !.freed = b]
    BY <1>4 DEF ReleaseReader
  <2>4. b \in BOOLEAN /\ (b <=> obj.reference = 1)
    BY <1>2, <2>1
  <2> HIDE DEF b
  <2> QED
    BY <2>1, <2>2, <2>3, <2>4, Disowned
<1> QED
  BY <1>3, <1>4

(* A reader counts the copy it finds.                                      *)
LEMMA CopyStep ==
  ASSUME StmAssumption, StmInv, NEW r \in Readers, stm_copy(r)
  PROVE  StmInv'
<1>0. /\ Writer \in Threads /\ r \in Threads /\ Writer # r /\ Writer \notin Readers /\ StmTypes /\ CopyInv /\ BoxInv
      /\ pc[r] = "copy" /\ pc' = [pc EXCEPT ![r] = "copied"] /\ arg' = [arg EXCEPT ![r] = obj.copy] /\ UNCHANGED <<obj, box>>
  BY DEF Threads, StmAssumption, StmInv, stm_copy, Goto
<1>1. PICK m \in Nat \ {0} : copies \in [1 .. m -> [reference : Nat, freed : Nat]]
  BY <1>0 DEF StmTypes
<1>2. ~obj.freed
  BY <1>0, OwnedIsUsable DEF Owners, StmInv, BoxInv
<1> DEFINE k == <<"on its way", r>>
           j == <<"last", Writer>>
           g == [Kept EXCEPT ![k] = Kept[j]]
<1>3. Kept \in [Places -> Nat] /\ k \in Places /\ j \in Places /\ Kept[k] = 0 /\ Kept[j] = obj.copy /\ g \in [Places -> Nat]
  BY <1>0, KeptTypes, KeptAt DEF OnItsWay, LastOf
<1>4. obj.copy # 0 => obj.copy \in 1 .. m /\ copies[obj.copy].freed = 0
  BY <1>0, <1>1, <1>3, KeptIsUsable
<1>5. touched' = touched
  <2>1. CASE obj.copy = 0
    BY <1>2, <2>1 DEF stm_copy, Touch
  <2>2. CASE obj.copy # 0
    <3>1. TouchBoth("object", obj.copy)
      BY <2>2 DEF stm_copy
    <3>2. ~(copies[obj.copy].freed > 0)
      BY <1>4, <2>2
    <3> QED
      BY <1>2, <3>1, <3>2 DEF TouchBoth
  <2> QED
    BY <2>1, <2>2
<1>6. copies' \in [1 .. m -> [reference : Nat, freed : Nat]]
  BY <1>1, <1>4 DEF stm_copy
<1>7. Last' = Last
  BY <1>1, <1>6, LastStays
<1>8. StmTypes'
  <2>1. \E n \in Nat \ {0} : copies' \in [1 .. n -> [reference : Nat, freed : Nat]]
    BY <1>6
  <2> QED
    BY <1>0, <2>1 DEF StmTypes, WriterPlaces, ReaderPlaces, Threads
<1>9. CopyInv'
  <2>1. ASSUME NEW t \in Threads
        PROVE  g[<<"last", t>>] = LastOf(t)' /\ g[<<"on its way", t>>] = OnItsWay(t)'
    <3>1. CASE t = r
      BY <1>0, <1>3, <3>1, KeptAt DEF LastOf, OnItsWay, StmTypes
    <3>2. CASE t # r
      BY <1>0, <1>3, <1>7, <3>2, KeptAt DEF LastOf, OnItsWay, StmTypes
    <3> QED
      BY <3>1, <3>2
  <2>2. Kept' = g
    <3> HIDE DEF g
    <3> QED
      BY <1>3, <2>1, KeptIs
  <2>3. Counted(copies', g)
    <3>1. CASE obj.copy = 0
      <4>1. g = Kept /\ copies' = copies
        BY <1>3, <3>1 DEF stm_copy
      <4> QED
        BY <1>0, <4>1 DEF CopyInv
    <3>2. CASE obj.copy # 0
      <4>1. copies' = [copies EXCEPT ![Kept[j]].reference = @ + 1]
        BY <1>3, <3>2 DEF stm_copy
      <4>2. Counted(copies, Kept)
        BY <1>0 DEF CopyInv
      <4> HIDE DEF k, j
      <4> QED
        BY <1>1, <1>3, <3>2, <4>1, <4>2, CountedCopied
    <3> QED
      BY <3>1, <3>2
  <2> QED
    BY <2>2, <2>3 DEF CopyInv
<1>10. ObjectInv'
  <2>1. \A u \in Threads : u \in Owners' <=> u \in Owners
    BY <1>0 DEF Owners, StmTypes
  <2>2. Owners' = Owners
    BY <2>1 DEF Owners
  <2> QED
    BY <2>2, <1>0 DEF ObjectInv, StmInv, StmTypes
<1>11. BoxInv'
  BY <1>0 DEF BoxInv, StmTypes
<1> QED
  BY <1>5, <1>8, <1>9, <1>10, <1>11 DEF StmInv

(* A reader keeps the copy it counted, or has it already; either way what  *)
(* it kept last is released.                                               *)
LEMMA ReadStep ==
  ASSUME StmAssumption, StmInv, NEW r \in Readers, lread(r)
  PROVE  StmInv'
<1>0. /\ Writer \in Threads /\ r \in Threads /\ Writer # r /\ Writer \notin Readers /\ StmTypes /\ CopyInv /\ BoxInv
      /\ pc[r] = "read" /\ box' = [box EXCEPT ![r].last = arg[r]] /\ UNCHANGED <<obj, arg>>
  BY DEF Threads, StmAssumption, StmInv, lread
<1>a. PICK to \in {"idle", "use"} : pc' = [pc EXCEPT ![r] = to]
  BY DEF lread, Goto
<1> DEFINE k == <<"last", r>>
           j == <<"on its way", r>>
           f == [Kept EXCEPT ![k] = 0]
           g == [[f EXCEPT ![k] = f[j]] EXCEPT ![j] = f[k]]
<1>1. Kept \in [Places -> Nat] /\ k \in Places /\ j \in Places /\ k # j /\ Kept[k] = box[r].last /\ Kept[j] = arg[r]
  BY <1>0, KeptTypes, KeptAt DEF OnItsWay, LastOf
<1>2. copies' = Released(Kept[k])
  BY <1>1 DEF lread
<1>3. PICK m \in Nat \ {0} : /\ copies \in [1 .. m -> [reference : Nat, freed : Nat]]
                             /\ copies' \in [1 .. m -> [reference : Nat, freed : Nat]]
  BY <1>0, <1>1, <1>2, ReleaseTouches
<1>4. Last' = Last
  BY <1>3, LastStays
<1>5. touched' = touched
  <2>1. box[r].last # 0 => copies[box[r].last].freed = 0
    BY <1>0, <1>1, ReleaseTouches
  <2> QED
    BY <2>1 DEF lread, TouchCopy
<1>6. StmTypes'
  <2>1. \E n \in Nat \ {0} : copies' \in [1 .. n -> [reference : Nat, freed : Nat]]
    BY <1>3
  <2>2. box' \in [Readers -> [held : BOOLEAN, last : Nat]]
    BY <1>0 DEF StmTypes
  <2>3. pc' \in [Threads -> WriterPlaces \cup ReaderPlaces] /\ pc'[Writer] \in WriterPlaces /\ \A u \in Readers : pc'[u] \in ReaderPlaces
    BY <1>0, <1>a DEF StmTypes, WriterPlaces, ReaderPlaces, Threads
  <2> QED
    BY <1>0, <2>1, <2>2, <2>3 DEF StmTypes
<1>7. CopyInv'
  <2>1. /\ f \in [Places -> Nat] /\ f[k] = 0 /\ f[j] = arg[r] /\ \A i \in Places : i # k => f[i] = Kept[i]
    BY <1>1
  <2>2. /\ g \in [Places -> Nat] /\ g[k] = arg[r] /\ g[j] = 0 /\ \A i \in Places : i # k /\ i # j => g[i] = Kept[i]
    BY <1>1, <2>1
  <2>3. ASSUME NEW t \in Threads
        PROVE  g[<<"last", t>>] = LastOf(t)' /\ g[<<"on its way", t>>] = OnItsWay(t)'
    <3> HIDE DEF g
    <3>1. CASE t = r
      <4>1. LastOf(r)' = arg[r] /\ OnItsWay(r)' = 0
        BY <1>0, <1>a DEF LastOf, OnItsWay, StmTypes
      <4>2. g[<<"last", r>>] = arg[r] /\ g[<<"on its way", r>>] = 0
        BY <2>2
      <4> QED
        BY <3>1, <4>1, <4>2
    <3>2. CASE t # r
      <4>1. g[<<"last", t>>] = LastOf(t) /\ g[<<"on its way", t>>] = OnItsWay(t)
        BY <2>2, <3>2, KeptAt
      <4>2. LastOf(t)' = LastOf(t) /\ OnItsWay(t)' = OnItsWay(t)
        BY <1>0, <1>a, <1>4, <3>2 DEF LastOf, OnItsWay, StmTypes, Threads
      <4> QED
        BY <4>1, <4>2
    <3> QED
      BY <3>1, <3>2
  <2>4. Kept' = g
    <3> HIDE DEF g
    <3> QED
      BY <2>2, <2>3, KeptIs
  <2>5. Counted(copies', f)
    <3>1. Counted(copies, Kept)
      BY <1>0 DEF CopyInv
    <3> HIDE DEF k
    <3> QED
      BY <1>0, <1>1, <1>2, <3>1, CountedReleased
  <2>6. Counted(copies', g)
    <3> HIDE DEF k, j, f
    <3> QED
      BY <1>1, <1>3, <2>1, <2>5, CountedSwapped
  <2> QED
    BY <2>4, <2>6 DEF CopyInv
<1>8. ObjectInv'
  <2>1. \A u \in Threads : u \in Owners' <=> u \in Owners
    BY <1>0, <1>a DEF Owners, StmTypes, Threads
  <2>2. Owners' = Owners
    BY <2>1 DEF Owners
  <2> QED
    BY <2>2, <1>0, <1>a DEF ObjectInv, StmInv, StmTypes
<1>9. BoxInv'
  BY <1>0, <1>a DEF BoxInv, StmTypes
<1> QED
  BY <1>5, <1>6, <1>7, <1>8, <1>9 DEF StmInv

(* A reader ends.                                                          *)
LEMMA DeleteStep ==
  ASSUME StmAssumption, StmInv, NEW r \in Readers, ldeletereader(r)
  PROVE  StmInv'
<1>0. /\ Writer \in Threads /\ r \in Threads /\ Writer # r /\ Writer \notin Readers /\ StmTypes /\ CopyInv /\ BoxInv
      /\ pc[r] = "rlast" /\ pc' = [pc EXCEPT ![r] = "gone"]
      /\ box' = [box EXCEPT ![r] = [held |-> FALSE, last |-> 0]] /\ UNCHANGED <<obj, arg>>
  BY DEF Threads, StmAssumption, StmInv, ldeletereader, Goto
<1> DEFINE k == <<"last", r>>
           g == [Kept EXCEPT ![k] = 0]
<1>1. Kept \in [Places -> Nat] /\ k \in Places /\ Kept[k] = box[r].last /\ g \in [Places -> Nat]
  BY <1>0, KeptTypes, KeptAt DEF LastOf
<1>2. copies' = Released(Kept[k])
  BY <1>1 DEF ldeletereader
<1>3. PICK m \in Nat \ {0} : /\ copies \in [1 .. m -> [reference : Nat, freed : Nat]]
                             /\ copies' \in [1 .. m -> [reference : Nat, freed : Nat]]
  BY <1>0, <1>1, <1>2, ReleaseTouches
<1>4. Last' = Last
  BY <1>3, LastStays
<1>5. touched' = touched
  <2>1. box[r].last # 0 => copies[box[r].last].freed = 0
    BY <1>0, <1>1, ReleaseTouches
  <2> QED
    BY <2>1 DEF ldeletereader, TouchCopy
<1>6. StmTypes'
  <2>1. \E n \in Nat \ {0} : copies' \in [1 .. n -> [reference : Nat, freed : Nat]]
    BY <1>3
  <2>2. box' \in [Readers -> [held : BOOLEAN, last : Nat]]
    BY <1>0 DEF StmTypes
  <2> QED
    BY <1>0, <2>1, <2>2 DEF StmTypes, WriterPlaces, ReaderPlaces, Threads
<1>7. CopyInv'
  <2>1. ASSUME NEW t \in Threads
        PROVE  g[<<"last", t>>] = LastOf(t)' /\ g[<<"on its way", t>>] = OnItsWay(t)'
    <3>1. CASE t = r
      BY <1>0, <1>1, <3>1, KeptAt DEF LastOf, OnItsWay, StmTypes
    <3>2. CASE t # r
      <4>1. g[<<"last", t>>] = LastOf(t) /\ g[<<"on its way", t>>] = OnItsWay(t)
        BY <1>1, <3>2, KeptAt
      <4>2. LastOf(t)' = LastOf(t) /\ OnItsWay(t)' = OnItsWay(t)
        BY <1>0, <1>4, <3>2 DEF LastOf, OnItsWay, StmTypes, Threads
      <4> QED
        BY <4>1, <4>2
    <3> QED
      BY <3>1, <3>2
  <2> HIDE DEF k
  <2> QED
    BY <1>0, <1>1, <1>2, <2>1, ReleaseMoves
<1>8. ObjectInv'
  <2>1. \A u \in Threads : u \in Owners' <=> u \in Owners
    BY <1>0 DEF Owners, StmTypes, Threads
  <2>2. Owners' = Owners
    BY <2>1 DEF Owners
  <2> QED
    BY <2>2, <1>0 DEF ObjectInv, StmInv, StmTypes
<1>9. BoxInv'
  BY <1>0 DEF BoxInv, StmTypes
<1> QED
  BY <1>5, <1>6, <1>7, <1>8, <1>9 DEF StmInv

-----------------------------------------------------------------------------
(* The object and its copies.                                              *)

LEMMA StmInit ==
  ASSUME StmAssumption, Init
  PROVE  StmInv
<1>0. /\ Writer \in Threads /\ Writer \notin Readers /\ Readers \subseteq Threads
      /\ copies = [n \in {1} |-> [reference |-> 1, freed |-> 0]]
      /\ pc = [t \in Threads |-> "idle"] /\ box = [r \in Readers |-> [held |-> FALSE, last |-> 0]]
      /\ obj = [reference |-> 1, copy |-> 1, freed |-> FALSE] /\ arg = [t \in Threads |-> 0] /\ touched = {}
  BY DEF Threads, StmAssumption, Init
<1>1. StmTypes
  <2>1. {1} = 1 .. 1
    OBVIOUS
  <2>2. copies \in [1 .. 1 -> [reference : Nat, freed : Nat]]
    BY <1>0, <2>1
  <2>3. \E n \in Nat \ {0} : copies \in [1 .. n -> [reference : Nat, freed : Nat]]
    BY <2>2
  <2> QED
    BY <1>0, <2>3 DEF StmTypes, WriterPlaces, ReaderPlaces
<1>2. CopyInv
  <2> DEFINE k == <<"last", Writer>>
  <2>1. k \in Places /\ Kept[k] = 1
    BY <1>0, KeptAt DEF LastOf
  <2>2. ASSUME NEW i \in Places, i # k PROVE Kept[i] = 0
    <3>1. PICK what \in {"last", "on its way"}, t \in Threads : i = <<what, t>>
      BY PlaceIs
    <3>2. CASE what = "last"
      BY <1>0, <2>2, <3>1, <3>2, KeptAt DEF LastOf, Threads
    <3>3. CASE what = "on its way"
      BY <1>0, <3>1, <3>3, KeptAt DEF OnItsWay
    <3> QED
      BY <3>1, <3>2, <3>3
  <2>3. Keepers(Kept, 1) = {k}
    BY <2>1, <2>2 DEF Keepers
  <2>4. Cardinality(Keepers(Kept, 1)) = 1
    BY <2>3, FS_Singleton
  <2>5. \A i \in Places : Kept[i] # 0 => Kept[i] = 1
    BY <2>1, <2>2
  <2>6. DOMAIN copies = {1} /\ copies[1].reference = 1 /\ copies[1].freed = 0
    BY <1>0
  <2> QED
    BY <2>4, <2>5, <2>6 DEF CopyInv, Counted
<1>3. ObjectInv
  <2>1. Owners = {Writer}
    BY <1>0 DEF Owners, Threads
  <2>2. Cardinality(Owners) = 1
    BY <2>1, FS_Singleton
  <2> QED
    BY <1>0, <2>2 DEF ObjectInv
<1>4. BoxInv
  BY <1>0 DEF BoxInv
<1> QED
  BY <1>0, <1>1, <1>2, <1>3, <1>4 DEF StmInv

LEMMA StmStep ==
  ASSUME StmAssumption, StmInv, [Next]_stmVars
  PROVE  StmInv'
<1>1. CASE UNCHANGED stmVars
  <2>1. StmTypes' /\ BoxInv' /\ touched' = touched
    BY <1>1 DEF stmVars, StmInv, StmTypes, BoxInv
  <2>2. CopyInv'
    BY <1>1, NothingMoves DEF stmVars, StmInv, LastOf, OnItsWay, Last
  <2>3. ObjectInv'
    BY <1>1 DEF stmVars, StmInv, ObjectInv, Owners
  <2> QED
    BY <2>1, <2>2, <2>3 DEF StmInv
<1>2. CASE WriterStep
  BY <1>2, LocksAndUses, UpdateStep, SwapStep, OldStep, ReleaseCopyStep, DisownStep DEF WriterStep
<1>3. ASSUME NEW r \in Readers, ReaderStep(r) PROVE StmInv'
  BY <1>3, LocksAndUses, CopyStep, ReadStep, DisownStep, DeleteStep DEF ReaderStep
<1>4. ASSUME NEW r \in Readers, stm_grab(r) PROVE StmInv'
  BY <1>4, GrabStep
<1> QED
  BY <1>1, <1>2, <1>3, <1>4 DEF Next

LEMMA StmInvSuffices ==
  ASSUME StmAssumption, StmInv
  PROVE  StmFreedOnce
<1>0. Writer \in Threads /\ Writer \notin Readers /\ Readers \subseteq Threads /\ StmTypes /\ CopyInv /\ ObjectInv /\ BoxInv
  BY DEF Threads, StmAssumption, StmInv
<1>1. \A n \in DOMAIN copies : copies[n].freed = IF copies[n].reference = 0 THEN 1 ELSE 0
  BY <1>0 DEF CopyInv, Counted
<1>2. obj.freed => obj.copy = 0
  <2>1. ASSUME obj.freed PROVE obj.copy = 0
    <3>1. Writer \notin Owners
      BY <1>0, <2>1, OwnedIsUsable
    <3> QED
      BY <1>0, <3>1 DEF Owners, ObjectInv
  <2> QED
    BY <2>1
<1>3. ASSUME Gone PROVE obj.freed /\ \A n \in DOMAIN copies : copies[n].freed = 1
  <2>1. pc[Writer] = "gone" /\ \A r \in Readers : ~box[r].held /\ pc[r] \in {"idle", "gone"}
    BY <1>0, <1>3 DEF Gone, BoxInv
  <2>2. Owners = {}
    BY <1>0, <2>1 DEF Owners, Threads
  <2>3. obj.freed
    BY <1>0, <2>2, OwnersFinite DEF ObjectInv
  <2>4. ASSUME NEW k \in Places PROVE Kept[k] = 0
    <3>1. PICK what \in {"last", "on its way"}, t \in Threads : k = <<what, t>>
      BY PlaceIs
    <3>2. CASE what = "last"
      BY <1>0, <2>1, <3>1, <3>2, KeptAt DEF LastOf, Threads, ObjectInv, BoxInv
    <3>3. CASE what = "on its way"
      BY <1>0, <2>1, <3>1, <3>3, KeptAt DEF OnItsWay, Threads
    <3> QED
      BY <3>1, <3>2, <3>3
  <2>5. ASSUME NEW n \in DOMAIN copies PROVE copies[n].freed = 1
    <3>1. n # 0
      BY <1>0 DEF StmTypes
    <3>2. Cardinality(Keepers(Kept, n)) = 0
      BY <2>4, <3>1, KeepersFinite
    <3> QED
      BY <1>0, <1>1, <3>2 DEF CopyInv, Counted
  <2> QED
    BY <2>3, <2>5
<1> QED
  BY <1>1, <1>2, <1>3 DEF StmFreedOnce, StmInv

(* A copy is freed once, by whoever lets it go last, and nobody looks at   *)
(* it, or at the fields of the object, after that; for any number of       *)
(* readers and updates.                                                    *)
THEOREM StmCopiesFreedOnce == StmAssumption => (Spec => []StmFreedOnce)
<1> SUFFICES ASSUME StmAssumption PROVE Spec => []StmFreedOnce
  OBVIOUS
<1>1. Init => StmInv
  BY StmInit
<1>2. StmInv /\ [Next]_stmVars => StmInv'
  BY StmStep
<1>3. StmInv => StmFreedOnce
  BY StmInvSuffices
<1> QED
  BY <1>1, <1>2, <1>3, PTL DEF Spec
=============================================================================
