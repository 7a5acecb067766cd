---------------------------- MODULE SkynetHandle ----------------------------
(***************************************************************************)
(* The handle table of skynet_handle.c: an open hash of contexts by their  *)
(* handle, doubled when it is full, and the sorted array of local names.   *)
(*                                                                         *)
(* Every function of the table runs under its lock, so it is one step;     *)
(* skynet_handle_retireall takes the lock for each slot anew.  The handle  *)
(* skynet_handle_register returns is stored in ctx->handle by its caller,  *)
(* without the lock (skynet_context_new): until then ctx->handle is 0.     *)
(*                                                                         *)
(* Names are numbers, ordered as strcmp orders the strings.  The harbor    *)
(* bits of a handle are left out: they are the same for all handles of a   *)
(* node and are not used in the hash.                                      *)
(***************************************************************************)
EXTENDS Integers, Sequences, SequencesExt, FiniteSets

CONSTANTS Ctxs,        \* contexts (addresses of memory, used again)
          Names,       \* local names
          Nameable,    \* handles that are given names
          Launching,   \* how many threads may be in skynet_context_new
          SlotSize,    \* DEFAULT_SLOT_SIZE
          NameCap,     \* the initial name_cap
          HandleMask,  \* HANDLE_MASK
          None

HandleAssumption ==
  /\ Names \subseteq Nat
  /\ Launching \in Nat /\ SlotSize \in Nat \ {0} /\ NameCap \in Nat \ {0}
  /\ HandleMask \in Nat \ {0}
  /\ Nameable \subseteq 1..HandleMask
  /\ None \notin Ctxs

VARIABLES slot,          \* s->slot, its size included
          handle_index,  \* s->handle_index
          handle,        \* ctx->handle
          issued,        \* what skynet_handle_register returned for ctx
          name,          \* s->name, the first name_count elements
          name_cap,      \* s->name_cap
          all,           \* the thread in skynet_handle_retireall
          asserted       \* an assertion has failed: the process is gone

vars == <<slot, handle_index, handle, issued, name, name_cap, all, asserted>>

Size(sl) == Cardinality(DOMAIN sl)
slot_size == Size(slot)
Hash(h, sl) == h % Size(sl)

InTable == {c \in Ctxs : \E i \in DOMAIN slot : slot[i] = c}
Pending == {c \in InTable : handle[c] = 0}

Handles == 1..HandleMask

(* An assertion that fails ends the process.                               *)
Alive == ~asserted

Idle == [pc |-> "idle", i |-> 0, n |-> 0, h |-> 0, fresh |-> {}]

Init ==
  /\ slot = [i \in 0..(SlotSize - 1) |-> None]
  /\ handle_index = 1
  /\ handle = [c \in Ctxs |-> 0]
  /\ issued = [c \in Ctxs |-> 0]
  /\ name = << >>
  /\ name_cap = NameCap
  /\ all = Idle
  /\ asserted = FALSE

-----------------------------------------------------------------------------
(* skynet_handle_register.                                                 *)

(* Variant: the index grows past HANDLE_MASK.                              *)
Try_NoWrap(k) == handle_index + k

(* The handle tried in the k-th round of the loop: 0 is skipped.           *)
Try(k) == IF handle_index + k > HandleMask THEN handle_index + k - HandleMask
          ELSE handle_index + k

(* The first of the next handles whose slot is free.                       *)
FreeTries(sl) == {k \in 0..(Size(sl) - 1) : sl[Hash(Try(k), sl)] = None}

FirstFree(sl) ==
  CHOOSE k \in FreeTries(sl) : \A j \in FreeTries(sl) : k <= j

(* The slots of the doubled table: where the contexts of the old one go.   *)
Rehashed(sl) ==
  [i \in 0..(2 * Size(sl) - 1) |->
     {c \in Ctxs : /\ \E j \in DOMAIN sl : sl[j] = c
                   /\ handle[c] % (2 * Size(sl)) = i}]

(* Variant: the contexts stay where they were.                             *)
Expand_NoRehash(sl) ==
  [i \in 0..(2 * Size(sl) - 1) |-> IF i < Size(sl) THEN sl[i] ELSE None]

(* assert((s->slot_size*2 - 1) <= HANDLE_MASK), and                        *)
(* assert(new_slot[hash] == NULL) for every context moved.                 *)
ExpandAsserts(sl) ==
  /\ 2 * Size(sl) - 1 <= HandleMask
  /\ \A i \in DOMAIN Rehashed(sl) : Cardinality(Rehashed(sl)[i]) <= 1

Expand(sl) ==
  [i \in 0..(2 * Size(sl) - 1) |->
     IF Rehashed(sl)[i] = {} THEN None ELSE CHOOSE c \in Rehashed(sl)[i] : TRUE]

Put(c, sl) ==
  LET h == Try(FirstFree(sl)) IN
  /\ slot' = [sl EXCEPT ![Hash(h, sl)] = c]
  /\ handle_index' = h + 1
  /\ issued' = [issued EXCEPT ![c] = h]
  /\ handle' = [handle EXCEPT ![c] = 0]
  /\ UNCHANGED <<name, name_cap, all>>

(* Variant: the table is doubled when the first slot looked at is taken.   *)
skynet_handle_register_NoProbe(c) ==
  LET free == slot[Hash(Try(0), slot)] = None IN
  /\ Alive
  /\ issued[c] = 0
  /\ Cardinality(Pending) < Launching
  /\ \/ free /\ Put(c, slot) /\ UNCHANGED asserted
     \/ ~free /\ Put(c, Expand(slot)) /\ asserted' = ~ExpandAsserts(slot)

skynet_handle_register(c) ==
  /\ Alive
  /\ issued[c] = 0
  /\ Cardinality(Pending) < Launching
  /\ \/ FreeTries(slot) # {} /\ Put(c, slot) /\ UNCHANGED asserted
     \/ FreeTries(slot) = {} /\ Put(c, Expand(slot)) /\ asserted' = ~ExpandAsserts(slot)

(* ctx->handle = skynet_handle_register(ctx), in skynet_context_new.       *)
StoreHandle(c) ==
  /\ Alive
  /\ c \in Pending
  /\ handle' = [handle EXCEPT ![c] = issued[c]]
  /\ all' = IF all.pc = "idle" THEN all ELSE [all EXCEPT !.fresh = @ \cup {c}]
  /\ UNCHANGED <<slot, handle_index, issued, name, name_cap, asserted>>

-----------------------------------------------------------------------------
(* skynet_handle_grab: the context with handle h, or None.                 *)
skynet_handle_grab(h) ==
  LET c == slot[Hash(h, slot)] IN
  IF c # None /\ handle[c] = h THEN c ELSE None

(* Variant: the context is retired and its names are kept.                 *)
Unlink_KeepNames(h) ==
  /\ slot' = [slot EXCEPT ![Hash(h, slot)] = None]
  /\ issued' = [issued EXCEPT ![skynet_handle_grab(h)] = 0]
  /\ UNCHANGED name

Unlink(h) ==
  /\ slot' = [slot EXCEPT ![Hash(h, slot)] = None]
  /\ issued' = [issued EXCEPT ![skynet_handle_grab(h)] = 0]
  /\ name' = SelectSeq(name, LAMBDA e : e.handle # h)

(* skynet_handle_retire for KILL, EXIT and a failed launch.  A handle that *)
(* is not in the table changes nothing.                                    *)
skynet_handle_retire(h) ==
  /\ Alive
  /\ skynet_handle_grab(h) # None
  /\ Unlink(h)
  /\ UNCHANGED <<handle_index, handle, name_cap, all, asserted>>

(* skynet_handle_retireall: for every slot, read the handle, then retire   *)
(* it, until a pass retired nothing.                                       *)
skynet_handle_retireall ==
  /\ Alive
  /\ all.pc = "idle"
  /\ all' = [Idle EXCEPT !.pc = "read"]
  /\ UNCHANGED <<slot, handle_index, handle, issued, name, name_cap, asserted>>

ReadSlot ==
  /\ Alive
  /\ all.pc = "read"
  /\ all.i < slot_size
  /\ LET c == slot[all.i]
         h == IF c = None THEN 0 ELSE handle[c]
     IN  all' = IF h = 0 THEN [all EXCEPT !.i = @ + 1]
                ELSE [all EXCEPT !.pc = "retire", !.h = h]
  /\ UNCHANGED <<slot, handle_index, handle, issued, name, name_cap, asserted>>

RetireSlot ==
  /\ Alive
  /\ all.pc = "retire"
  /\ \/ /\ skynet_handle_grab(all.h) # None
        /\ Unlink(all.h)
        /\ all' = [all EXCEPT !.pc = "read", !.i = @ + 1, !.n = 1, !.h = 0]
     \/ /\ skynet_handle_grab(all.h) = None
        /\ all' = [all EXCEPT !.pc = "read", !.i = @ + 1, !.h = 0]
        /\ UNCHANGED <<slot, issued, name>>
  /\ UNCHANGED <<handle_index, handle, name_cap, asserted>>

(* Variant: a pass ends at the size the table had at first.                *)
EndOfPass_StaleSize ==
  /\ Alive
  /\ all.pc = "read"
  /\ all.i >= SlotSize
  /\ all' = IF all.n = 0 THEN [all EXCEPT !.pc = "done", !.i = 0]
            ELSE [Idle EXCEPT !.pc = "read"]
  /\ UNCHANGED <<slot, handle_index, handle, issued, name, name_cap, asserted>>

EndOfPass ==
  /\ Alive
  /\ all.pc = "read"
  /\ all.i >= slot_size
  /\ all' = IF all.n = 0 THEN [all EXCEPT !.pc = "done", !.i = 0]
            ELSE [Idle EXCEPT !.pc = "read"]
  /\ UNCHANGED <<slot, handle_index, handle, issued, name, name_cap, asserted>>

RetireallReturns ==
  /\ Alive
  /\ all.pc = "done"
  /\ all' = Idle
  /\ UNCHANGED <<slot, handle_index, handle, issued, name, name_cap, asserted>>

-----------------------------------------------------------------------------
(* Names.  The binary search over name[begin..end] (from 0, as in C): the  *)
(* index of the name, or the place where it would have to be inserted.     *)

Search(x) ==
  LET n == Len(name)
      f[b \in 0..n, e \in -1..(n - 1)] ==
        IF b > e THEN [found |-> FALSE, at |-> b]
        ELSE LET mid == (b + e) \div 2
                 y   == name[mid + 1].name
             IN  IF y = x THEN [found |-> TRUE, at |-> mid]
                 ELSE IF y < x THEN f[mid + 1, e] ELSE f[b, mid - 1]
  IN  f[0, n - 1]

skynet_handle_findname(x) ==
  IF Search(x).found THEN name[Search(x).at + 1].handle ELSE 0

(* Variant: a new name goes one place too far.                             *)
_insert_name_before_Off(x, h, before) ==
  InsertAt(name, IF before < Len(name) THEN before + 2 ELSE before + 1,
           [name |-> x, handle |-> h])

_insert_name_before(x, h, before) ==
  InsertAt(name, before + 1, [name |-> x, handle |-> h])

(* A name that is taken is refused.  The handle is not looked up.          *)
skynet_handle_namehandle(h, x) ==
  /\ Alive
  /\ ~Search(x).found
  /\ name' = _insert_name_before(x, h, Search(x).at)
  /\ name_cap' = IF Len(name) >= name_cap THEN 2 * name_cap ELSE name_cap
  /\ UNCHANGED <<slot, handle_index, handle, issued, all, asserted>>

-----------------------------------------------------------------------------
Next ==
  \/ \E c \in Ctxs : skynet_handle_register(c) \/ StoreHandle(c)
  \/ \E h \in Handles : skynet_handle_retire(h)
  \/ \E h \in Nameable, x \in Names : skynet_handle_namehandle(h, x)
  \/ skynet_handle_retireall \/ ReadSlot \/ RetireSlot \/ EndOfPass
  \/ RetireallReturns

Spec == Init /\ [][Next]_vars

-----------------------------------------------------------------------------
(* The types of the table: handles stay in 1..HANDLE_MASK across the wrap  *)
(* of handle_index, and the names fit in the array allocated for them.     *)
TypeOK ==
  /\ slot \in [0..(slot_size - 1) -> Ctxs \cup {None}]
  /\ handle_index \in 1..(HandleMask + 1)
  /\ handle \in [Ctxs -> 0..HandleMask]
  /\ issued \in [Ctxs -> 0..HandleMask]
  /\ name \in Seq([name : Names, handle : Handles])
  /\ Len(name) <= name_cap
  /\ asserted \in BOOLEAN

(* A service is found by its handle as soon as the handle is stored, and   *)
(* until it is retired: growing the table loses nobody, and no handle that *)
(* still belongs to somebody is issued again when the index wraps.         *)
FoundByHandle ==
  /\ \A c \in InTable : handle[c] # 0 => skynet_handle_grab(handle[c]) = c
  /\ \A c, d \in InTable : issued[c] = issued[d] => c = d

(* assert((s->slot_size*2 - 1) <= HANDLE_MASK) and                         *)
(* assert(new_slot[hash] == NULL) never fail.                              *)
NoAssertFails == ~asserted

(* The array is sorted without duplicates, so that the binary search finds *)
(* exactly the names that are registered.                                  *)
NamesFound ==
  \A x \in Names :
    LET hits == {i \in DOMAIN name : name[i].name = x} IN
    IF hits = {} THEN skynet_handle_findname(x) = 0
    ELSE \A i \in hits : skynet_handle_findname(x) = name[i].handle

(* A service that leaves the table takes its names with it: a name given   *)
(* to it while it was there never leads to the next service that gets the  *)
(* handle.                                                                 *)
NamesTaken ==
  \A c \in InTable \ Pending : c \notin InTable' =>
    \A i \in DOMAIN name' : name'[i].handle # handle[c]

NamesGo == [][NamesTaken]_vars

(* When skynet_handle_retireall returns, only services are left that were  *)
(* being launched while its last pass was under way.                       *)
RetireallComplete == all.pc = "done" => InTable \subseteq all.fresh \cup Pending
=============================================================================
