------------------------------- MODULE LuaGC --------------------------------
(***************************************************************************)
(* 3rd/lua/lgc.c: the garbage collector of a Lua service, incremental and  *)
(* generational, with weak tables, finalizers and the shared objects of    *)
(* this repository's Lua, under a program that keeps changing the heap.    *)
(*                                                                         *)
(* An object has one entry, key -> val (a closure, a userdata or a thread  *)
(* only the val).  A val is an object, Plain (not collectable) or 0        *)
(* (empty); a key is an object or 0 (not collectable, or dead).  A list is *)
(* a sequence of objects, a pointer into it an object, 0 for NULL.         *)
(***************************************************************************)
EXTENDS Integers, Sequences, FiniteSets, SequencesExt, FiniteSetsExt

CONSTANTS Objs,      \* what the program may allocate
          Shared,    \* objects of another state, marked G_SHARED
          Main,      \* the main thread
          Type,      \* Objs \cup Shared \cup {Main} -> the type of an object
          MaxFin,    \* bound: setmetatable with __gc, per object
          Scripts    \* bound: what programs do, as sequences of operations, New by its type

VARIABLES g,     \* global_State, the stack of the main thread and the objects
          op     \* what has just happened

gcVars == <<g, op>>

All == Objs \cup Shared \cup {Main}
Plain == -1
IsObj(o) == o > 0

TypeTables == {"table", "ephemeron", "weakv", "allweak"}
GrayLists == {"gray", "grayagain", "weak", "allweak", "ephemeron"}

isshared(h, o) == h.age[o] = "shared"
iswhite(h, o) == h.col[o] \in {"w0", "w1"}
isblack(h, o) == h.col[o] = "black"
isold(h, o) == h.age[o] \notin {"new", "survival"}
otherwhite(w) == IF w = "w0" THEN "w1" ELSE "w0"
isdead(h, o) == h.col[o] = otherwhite(h.white)
issweepphase(h) == h.state \in {"swpallgc", "swpfinobj", "swptobefnz", "swpend"}
keepinvariant(h) == h.state \in {"propagate", "enteratomic", "atomic"}
isdecGCmodegen(h) == h.kind = "gen" \/ h.bad

Reset(h, S) == [h EXCEPT !.col = [o \in All |-> IF o \in S THEN "free" ELSE @[o]],
                         !.age = [o \in All |-> IF o \in S THEN "new" ELSE @[o]],
                         !.key = [o \in All |-> IF o \in S THEN 0 ELSE @[o]],
                         !.val = [o \in All |-> IF o \in S THEN 0 ELSE @[o]],
                         !.fin = @ \ S]
freeobj(h, S) == Reset(h, S)

First(s) == IF s = <<>> THEN 0 ELSE Head(s)
At(s, o) == IF o = 0 THEN Len(s) + 1 ELSE CHOOSE i \in DOMAIN s : s[i] = o
Segment(s, from, to) == SubSeq(s, At(s, from), At(s, to) - 1)
After(s, o) == SubSeq(s, At(s, o) + 1, Len(s))
NextOf(s, o) == First(After(s, o))

-----------------------------------------------------------------------------
(* Mark functions.                                                         *)

linkgclist_(h, o, list) == [h EXCEPT ![list] = <<o>> \o @, !.col[o] = "gray"]

reallymarkobject(h, o) ==
    IF isshared(h, o) THEN h
    ELSE IF Type[o] = "string" THEN [h EXCEPT !.col[o] = "black"]
    ELSE linkgclist_(h, o, "gray")

markobject(h, o) == IF IsObj(o) /\ iswhite(h, o) THEN reallymarkobject(h, o) ELSE h

markbeingfnz(h) == FoldLeft(markobject, h, h.tobefnz)

cleargraylists(h) == [h EXCEPT !.gray = <<>>, !.grayagain = <<>>, !.weak = <<>>, !.allweak = <<>>, !.ephemeron = <<>>]

\* the metatables of the basic types
markmt(h) == markobject(h, h.mt)

restartcollection(h) == markbeingfnz(markmt(markobject(cleargraylists(h), Main)))

-----------------------------------------------------------------------------
(* Traverse functions.                                                     *)

genlink(h, o) ==
    IF h.age[o] = "touched1" THEN linkgclist_(h, o, "grayagain")
    ELSE IF h.age[o] = "touched2" THEN [h EXCEPT !.age[o] = "old"] ELSE h

clearkey(h, o) == [h EXCEPT !.key[o] = 0]

\* strings are values: they are never weak
iscleared(h, o) == IsObj(o) /\ Type[o] # "string" /\ iswhite(h, o)
KeepString(h, o) == IF IsObj(o) /\ Type[o] = "string" THEN markobject(h, o) ELSE h

WeakLink(m, o, h) ==
    linkgclist_(m, o, IF h.state = "atomic" /\ h.val[o] # 0 /\ iscleared(m, h.val[o]) THEN "weak" ELSE "grayagain")
traverseweakvalue(h, o) ==
    WeakLink(IF h.val[o] = 0 THEN clearkey(h, o) ELSE KeepString(markobject(h, h.key[o]), h.val[o]), o, h)

\* the entry of an ephemeron table: white key, white value
hasclears(h, o) == h.val[o] # 0 /\ iscleared(h, h.key[o])
hasww(h, o) == hasclears(h, o) /\ IsObj(h.val[o]) /\ iswhite(h, h.val[o])
Marks(h, o) == ~iscleared(h, h.key[o]) /\ IsObj(h.val[o]) /\ iswhite(h, h.val[o])

EphemeronLink(h, o) ==
    IF h.state = "propagate" THEN linkgclist_(h, o, "grayagain")
    ELSE IF hasww(h, o) THEN linkgclist_(h, o, "ephemeron")
    ELSE IF hasclears(h, o) THEN linkgclist_(h, o, "allweak")
    ELSE genlink(h, o)
EphemeronEntry(h, o) ==
    [marked |-> Marks(h, o), h |-> EphemeronLink(IF Marks(h, o) THEN markobject(h, h.val[o]) ELSE h, o)]
traverseephemeron(h, o) ==
    IF h.val[o] = 0 THEN [marked |-> FALSE, h |-> EphemeronLink(clearkey(h, o), o)]
    ELSE EphemeronEntry(KeepString(h, h.key[o]), o)

traversestrongtable(h, o) ==
    genlink(IF h.val[o] = 0 THEN clearkey(h, o) ELSE markobject(markobject(h, h.key[o]), h.val[o]), o)

traversetable(h, o) ==
    CASE Type[o] = "weakv" -> traverseweakvalue(h, o)
      [] Type[o] = "ephemeron" -> traverseephemeron(h, o).h
      [] Type[o] = "allweak" -> linkgclist_(h, o, "allweak")
      [] OTHER -> traversestrongtable(h, o)

traverseudata(h, o) == genlink(markobject(h, h.val[o]), o)

traverseCclosure(h, o) == markobject(h, h.val[o])

\* a thread has no barrier: it goes back to a gray list
traversethread(h, o) ==
    LET l == IF isold(h, o) \/ h.state = "propagate" THEN linkgclist_(h, o, "grayagain") ELSE h
    IN  FoldSet(LAMBDA v, x : markobject(x, v), l, IF o = Main THEN h.stack ELSE {h.val[o]})

Traverse(h, o) ==
    CASE Type[o] \in TypeTables -> traversetable(h, o)
      [] Type[o] = "udata" -> traverseudata(h, o)
      [] Type[o] = "closure" -> traverseCclosure(h, o)
      [] OTHER -> traversethread(h, o)
propagatemark(h) == Traverse([h EXCEPT !.gray = Tail(@), !.col[Head(h.gray)] = "black"], Head(h.gray))

RECURSIVE propagateall(_)
propagateall(h) == IF h.gray = <<>> THEN h ELSE propagateall(propagatemark(h))

\* from keys to values, until nothing new is marked
AfterEphemeron(acc, t) == [h |-> IF t.marked THEN propagateall(t.h) ELSE t.h, changed |-> acc.changed \/ t.marked]
ConvergeOne(acc, o) == AfterEphemeron(acc, traverseephemeron([acc.h EXCEPT !.col[o] = "black"], o))
ConvergeList(h, l) == FoldLeft(ConvergeOne, [h |-> [h EXCEPT !.ephemeron = <<>>], changed |-> FALSE], l)
RECURSIVE Converge(_)
Converge(r) == IF r.changed THEN Converge(ConvergeList(r.h, r.h.ephemeron)) ELSE r.h
convergeephemerons(h) == Converge([h |-> h, changed |-> TRUE])

-----------------------------------------------------------------------------
(* Clearing weak tables, separating what is to be finalized.               *)

SetEmpty(h, o) == [h EXCEPT !.val[o] = 0, !.key[o] = 0]

ClearEntry(h, o, weak) == IF iscleared(h, weak) \/ h.val[o] = 0 THEN SetEmpty(h, o) ELSE h
clearbykeys(h0, l) == FoldLeft(LAMBDA h, o : ClearEntry(KeepString(h, h.key[o]), o, h.key[o]), h0, l)
clearbyvalues(h0, l) == FoldLeft(LAMBDA h, o : ClearEntry(KeepString(h, h.val[o]), o, h.val[o]), h0, l)

\* from finobj, up to finobjold1, to the end of tobefnz
separatetobefnz(h, all) ==
    LET seen == Segment(h.finobj, First(h.finobj), h.finobjold1)
        goes(o) == iswhite(h, o) \/ all
        stays == SelectSeq(seen, LAMBDA o : ~goes(o))
        rest == After(h.finobj, Last(<<0>> \o seen))
        sur == h.finobjsur
    IN  IF seen = <<>> THEN h
        ELSE [h EXCEPT !.finobj = stays \o rest,
                       !.tobefnz = @ \o SelectSeq(seen, goes),
                       !.finobjsur = IF sur # 0 /\ Contains(seen, sur)
                                     THEN First(SelectSeq(Segment(seen, sur, 0), LAMBDA o : ~goes(o)) \o rest) ELSE sur]

\* everything strongly accessible is marked
MarkRoots(h) == propagateall(markmt(markobject([h EXCEPT !.state = "atomic", !.grayagain = <<>>], Main)))
MarkAll_Weak(h) ==
    convergeephemerons(propagateall([clearbyvalues(MarkRoots(h), SelectSeq(h.grayagain, LAMBDA o : Type[o] = "weakv"))
                                        EXCEPT !.gray = h.grayagain]))
MarkAll(h) == convergeephemerons(propagateall([MarkRoots(h) EXCEPT !.gray = h.grayagain]))

MarkFinalized(h) == convergeephemerons(propagateall(markbeingfnz(separatetobefnz(h, FALSE))))
ClearWeakValues(h) == clearbyvalues(clearbyvalues(h, h.weak), h.allweak)
ClearWeakKeys(h) == clearbykeys(clearbykeys(h, h.ephemeron), h.allweak)
\* the tables that were linked since the lists were weak and allweak
ClearResurrected(h, weak, allweak) ==
    LET new(l, old) == SubSeq(l, 1, Len(l) - Len(old))
    IN  clearbyvalues(clearbyvalues(h, new(h.weak, weak)), new(h.allweak, allweak))
FinishAtomic(h) == [ClearResurrected(ClearWeakKeys(MarkFinalized(h)), h.weak, h.allweak) EXCEPT !.white = otherwhite(@)]
atomic(h) == FinishAtomic(ClearWeakValues(MarkAll(h)))

-----------------------------------------------------------------------------
(* Sweep functions.  sweepgc is the object whose next field is to be swept,*)
(* 0 for the head of the list, None for NULL.                              *)

None == -1
SweptList(h) == CASE h.state = "swpallgc" -> "allgc" [] h.state = "swpfinobj" -> "finobj" [] OTHER -> "tobefnz"

\* the list that sweepgc points into
HomeOf(h) == IF h.sweepgc = 0 THEN SweptList(h)
             ELSE CHOOSE l \in {"allgc", "finobj", "tobefnz"} : Contains(h[l], h.sweepgc)

\* one object: what happens to it, and where the sweep goes on
SweepOne(h, l, curr) ==
    IF isshared(h, curr) THEN [h EXCEPT !.sweepgc = curr]
    ELSE IF isdead(h, curr) THEN [freeobj(h, {curr}) EXCEPT ![l] = SelectSeq(@, LAMBDA o : o # curr)]
    ELSE [h EXCEPT !.sweepgc = curr, !.col[curr] = h.white, !.age[curr] = "new"]
SweepRest(h, l, rest) ==
    IF Len(rest) > 1 THEN SweepOne(h, l, Head(rest))
    ELSE [IF rest = <<>> THEN h ELSE SweepOne(h, l, Head(rest)) EXCEPT !.sweepgc = None]
SweepIn(h, l) == SweepRest(h, l, IF h.sweepgc = 0 THEN h[l] ELSE After(h[l], h.sweepgc))
sweeplist(h) == SweepIn(h, HomeOf(h))

RECURSIVE sweeptolive(_)
sweeptolive(h) ==
    LET on(s) == IF s.sweepgc = h.sweepgc THEN sweeptolive(s) ELSE s IN on(sweeplist(h))

entersweep(h) == sweeptolive([h EXCEPT !.state = "swpallgc", !.sweepgc = 0])

\* a list that the sweep has not entered starts at its head
sweepstep(h, nextstate) ==
    IF h.sweepgc # None THEN sweeplist(h)
    ELSE [h EXCEPT !.state = nextstate, !.sweepgc = IF nextstate = "swpend" THEN None ELSE 0]

udata2finalize(h) ==
    LET o == Head(h.tobefnz)
        h1 == [h EXCEPT !.tobefnz = Tail(@), !.allgc = <<o>> \o @, !.fin = @ \ {o}]
    IN  IF issweepphase(h) THEN [h1 EXCEPT !.col[o] = h.white]
        ELSE IF h.age[o] = "old1" THEN [h1 EXCEPT !.firstold1 = o] ELSE h1

\* the finalizer is called with the object on the stack
GCTM(h) == LET o == Head(h.tobefnz) IN [udata2finalize(h) EXCEPT !.calls[o] = @ + 1]

singlestep(h, emergency) ==
    CASE h.state = "pause" -> [restartcollection(h) EXCEPT !.state = "propagate"]
      [] h.state = "propagate" -> IF h.gray = <<>> THEN [h EXCEPT !.state = "enteratomic"] ELSE propagatemark(h)
      [] h.state = "enteratomic" -> entersweep(atomic(h))
      [] h.state = "swpallgc" -> sweepstep(h, "swpfinobj")
      [] h.state = "swpfinobj" -> sweepstep(h, "swptobefnz")
      [] h.state = "swptobefnz" -> sweepstep(h, "swpend")
      [] h.state = "swpend" -> [h EXCEPT !.state = "callfin"]
      [] OTHER -> IF h.tobefnz # <<>> /\ ~emergency THEN GCTM(h) ELSE [h EXCEPT !.state = "pause"]

RECURSIVE luaC_runtilstate(_, _, _)
luaC_runtilstate(h, s, emergency) == IF h.state = s THEN h ELSE luaC_runtilstate(singlestep(h, emergency), s, emergency)

-----------------------------------------------------------------------------
(* Generational collector.                                                 *)

\* the dead of a list are freed; the others are old, and threads watched
sweep2old(h, list) ==
    LET alive(o) == isshared(h, o) \/ ~iswhite(h, o)
        dead == {o \in ToSet(h[list]) : ~alive(o)}
        l == SelectSeq(h[list], alive)
        old == {o \in ToSet(l) : ~isshared(h, o)}
        threads == SelectSeq(l, LAMBDA o : o \in old /\ Type[o] = "thread")
    IN  [freeobj(h, dead) EXCEPT ![list] = l, !.grayagain = Reverse(threads) \o @,
            !.age = [o \in All |-> IF o \in old THEN "old" ELSE @[o]],
            !.col = [o \in All |-> IF o \in ToSet(threads) THEN "gray" ELSE IF o \in old THEN "black" ELSE @[o]]]

nextage == [new |-> "survival", survival |-> "old1", old0 |-> "old1", old1 |-> "old", old |-> "old",
            touched1 |-> "touched1", touched2 |-> "touched2", shared |-> "shared"]

\* a sublist: what is left of it, in the heap with the dead freed
sweepgen(h, sub, first) ==
    LET alive(o) == isshared(h, o) \/ ~iswhite(h, o)
        l == SelectSeq(sub, alive)
        moves == {o \in ToSet(l) : ~isshared(h, o)}
        fresh == {o \in moves : h.age[o] = "new"}
        age == [o \in All |-> IF o \in moves THEN nextage[h.age[o]] ELSE h.age[o]]
        dead == ToSet(sub) \ ToSet(l)
        olds == SelectSeq(l, LAMBDA o : o \in moves /\ age[o] = "old1")
        h1 == freeobj([h EXCEPT !.age = age, !.col = [o \in All |-> IF o \in fresh THEN h.white ELSE @[o]]], dead)
    IN  [l |-> l, h |-> IF first /\ h.firstold1 = 0 THEN [h1 EXCEPT !.firstold1 = First(olds)] ELSE h1]

\* a gray list: what stays on it
correctgraylist(h, l) ==
    LET all == ToSet(l)
        touched == {o \in all : ~iswhite(h, o) /\ h.age[o] = "touched1"}
        stays(o) == o \in touched \/ (~iswhite(h, o) /\ Type[o] = "thread")
        leaves == {o \in all : ~iswhite(h, o) /\ ~stays(o)}
    IN  [h EXCEPT !.grayagain = @ \o SelectSeq(l, stays),
            !.age = [o \in All |-> IF o \in touched THEN "touched2"
                                   ELSE IF o \in leaves /\ @[o] = "touched2" THEN "old" ELSE @[o]],
            !.col = [o \in All |-> IF o \in touched \cup leaves THEN "black" ELSE @[o]]]

correctgraylists(h) ==
    FoldLeft(correctgraylist, cleargraylists(h), <<h.grayagain, h.weak, h.allweak, h.ephemeron>>)

markold(h0, l) ==
    FoldLeft(LAMBDA h, o : IF h.age[o] # "old1" THEN h
                           ELSE LET x == [h EXCEPT !.age[o] = "old"]
                                IN  IF isblack(x, o) THEN reallymarkobject(x, o) ELSE x, h0, l)

\* the finalizers are called by Finalize
finishgencycle(h) == [correctgraylists(h) EXCEPT !.state = "propagate"]

\* what sweepgen left of three sublists becomes the list again
SetAllgc(h, x, y, z) == [h EXCEPT !.allgc = x \o y \o z, !.survival = First(x \o y \o z),
                                  !.old1 = First(y \o z), !.reallyold = First(z)]
SetFinobj(h, x, y, z) == [h EXCEPT !.finobj = x \o y \o z, !.finobjsur = First(x \o y \o z),
                                   !.finobjold1 = First(y \o z), !.finobjrold = First(z)]

SweepFinobj2(h, d) ==
    LET e == sweepgen(d.h, Segment(h.finobj, h.finobjsur, h.finobjold1), FALSE)
    IN  SetFinobj(e.h, d.l, e.l, Segment(h.finobj, h.finobjold1, 0))
SweepFinobj(h) == SweepFinobj2(h, sweepgen(h, Segment(h.finobj, First(h.finobj), h.finobjsur), FALSE))
SweepAllgc2(h, a) ==
    LET b == sweepgen(a.h, Segment(h.allgc, h.survival, h.old1), TRUE)
    IN  SetAllgc(b.h, a.l, b.l, Segment(h.allgc, h.old1, 0))
SweepAllgc(h) == SweepAllgc2(h, sweepgen(h, Segment(h.allgc, First(h.allgc), h.survival), TRUE))
SweepTobefnz(r) == finishgencycle([r.h EXCEPT !.tobefnz = r.l])
SweepYoung(h) == SweepTobefnz(sweepgen(SweepFinobj(SweepAllgc(h)), h.tobefnz, FALSE))

MarkOld(h) == markold(markold(h, Segment(h.finobj, First(h.finobj), h.finobjrold)), h.tobefnz)
youngcollection(h) ==
    SweepYoung([atomic(MarkOld(IF h.firstold1 = 0 THEN h
                               ELSE [markold(h, Segment(h.allgc, h.firstold1, h.reallyold)) EXCEPT !.firstold1 = 0]))
                  EXCEPT !.state = "swpallgc"])

\* all objects are old
SetOld(h) == [h EXCEPT !.survival = First(h.allgc), !.old1 = First(h.allgc), !.reallyold = First(h.allgc),
                       !.finobjsur = First(h.finobj), !.finobjold1 = First(h.finobj), !.finobjrold = First(h.finobj),
                       !.firstold1 = 0, !.kind = "gen", !.bad = FALSE]
atomic2gen(h) == finishgencycle(SetOld(FoldLeft(sweep2old, cleargraylists(h), <<"allgc", "finobj", "tobefnz">>)))

RunThrough(h, states, emergency) == FoldLeft(LAMBDA x, s : luaC_runtilstate(x, s, emergency), h, states)

entergen(h, emergency) == atomic2gen(atomic(RunThrough(h, <<"pause", "propagate">>, emergency)))

\* every age goes, that of a shared object of the list too
whitelist(h, l) == [h EXCEPT !.col = [o \in All |-> IF o \in ToSet(l) THEN h.white ELSE @[o]],
                             !.age = [o \in All |-> IF o \in ToSet(l) THEN "new" ELSE @[o]]]

enterinc(h) ==
    [FoldLeft(whitelist, h, <<h.allgc, h.finobj, h.tobefnz>>) EXCEPT
        !.survival = 0, !.old1 = 0, !.reallyold = 0, !.finobjsur = 0, !.finobjold1 = 0, !.finobjrold = 0,
        !.state = "pause", !.kind = "inc", !.bad = FALSE]

fullgen(h, emergency) == entergen(enterinc(h), emergency)

\* after a bad collection: good says whether this one marked much less
AfterBad(h, good) ==
    IF good THEN atomic2gen(h) ELSE [luaC_runtilstate(entersweep(h), "pause", FALSE) EXCEPT !.bad = TRUE]
stepgenfull(h, good) ==
    AfterBad(atomic(luaC_runtilstate(IF h.kind = "gen" THEN enterinc(h) ELSE h, "propagate", FALSE)), good)

\* major: memory has grown enough; good: it freed enough
genstep(h, major, good) ==
    IF h.bad THEN stepgenfull(h, good)
    ELSE IF major THEN [fullgen(h, FALSE) EXCEPT !.bad = ~good]
    ELSE youngcollection(h)

fullinc(h, emergency) ==
    RunThrough(IF keepinvariant(h) THEN entersweep(h) ELSE h,
               IF emergency THEN <<"pause", "callfin", "pause">> ELSE <<"pause", "callfin">>, emergency)

-----------------------------------------------------------------------------
(* The barriers and the program.                                           *)

luaC_barrier_(h, o, v) ==
    IF keepinvariant(h)
    THEN LET m == reallymarkobject(h, v) IN IF isold(h, o) THEN [m EXCEPT !.age[v] = "old0"] ELSE m
    ELSE IF h.kind = "inc" THEN [h EXCEPT !.col[o] = h.white] ELSE h

luaC_barrierback__Linked(h, o) ==
    LET l == IF h.age[o] = "touched2" THEN [h EXCEPT !.col[o] = "gray"] ELSE linkgclist_(h, o, "grayagain")
    IN  l
luaC_barrierback_(h, o) ==
    LET l == IF h.age[o] = "touched2" THEN [h EXCEPT !.col[o] = "gray"] ELSE linkgclist_(h, o, "grayagain")
    IN  IF isold(h, o) THEN [l EXCEPT !.age[o] = "touched1"] ELSE l

NeedsBarrier(h, o, v) == IsObj(v) /\ isblack(h, o) /\ iswhite(h, v) /\ ~isshared(h, v)
barrierback(h, o, v) == IF NeedsBarrier(h, o, v) THEN luaC_barrierback_(h, o) ELSE h

luaC_newobj(h, o) == [h EXCEPT !.col[o] = h.white, !.age[o] = "new", !.allgc = <<o>> \o @]

\* a new key and a value of a table; a value of a userdata, a closure, a thread
Assign(h, o, k, v) ==
    IF Type[o] \in TypeTables
    THEN LET h1 == IF k = h.key[o] THEN h ELSE barrierback([h EXCEPT !.key[o] = k, !.val[o] = Plain], o, k)
         IN  barrierback([h1 EXCEPT !.val[o] = v], o, v)
    ELSE LET h1 == [h EXCEPT !.val[o] = v]
         IN  CASE Type[o] = "udata" -> barrierback(h1, o, v)
               [] Type[o] = "closure" -> IF NeedsBarrier(h1, o, v) THEN luaC_barrier_(h1, o, v) ELSE h1
               [] OTHER -> h1

checkpointer(l, p, o) == IF p = o THEN NextOf(l, o) ELSE p
correctpointers(h, o) ==
    [h EXCEPT !.survival = checkpointer(h.allgc, @, o), !.old1 = checkpointer(h.allgc, @, o),
              !.reallyold = checkpointer(h.allgc, @, o), !.firstold1 = checkpointer(h.allgc, @, o)]

MoveToFinobj(h, o) == [h EXCEPT !.allgc = SelectSeq(@, LAMBDA x : x # o), !.finobj = <<o>> \o @,
                                !.fin = @ \cup {o}, !.marks[o] = @ + 1]

luaC_checkfinalizer_SweepOn(h, o) ==
    MoveToFinobj(IF issweepphase(h) THEN [h EXCEPT !.col[o] = h.white] ELSE correctpointers(h, o), o)
luaC_checkfinalizer(h, o) ==
    LET off(w) == IF w.sweepgc = o /\ Contains(w.allgc, o) THEN sweeptolive(w) ELSE w
    IN  MoveToFinobj(IF issweepphase(h) THEN off([h EXCEPT !.col[o] = h.white]) ELSE correctpointers(h, o), o)

DeleteAll(h) == [freeobj(cleargraylists(h), Objs) EXCEPT !.allgc = <<Main>>, !.finobj = <<>>, !.tobefnz = <<>>,
                    !.sweepgc = None, !.stack = {}, !.mt = 0, !.state = "closed"]
CallAll(h) == [h EXCEPT !.calls = [o \in All |-> @[o] + (IF Contains(h.tobefnz, o) THEN 1 ELSE 0)]]

luaC_freeallobjects_Gen(h0) == DeleteAll(CallAll(separatetobefnz(h0, TRUE)))
luaC_freeallobjects(h0) ==
    DeleteAll(CallAll(separatetobefnz(IF h0.kind = "gen" THEN enterinc(h0) ELSE h0, TRUE)))

\* what the program can name
Held == g.stack \cup ({g.mt} \ {0})
Running == g.state # "closed"
Does(name) == Running /\ g.todo # <<>> /\ Head(g.todo) = name
Done(h) == g' = [h EXCEPT !.todo = Tail(@)]
User(h) == Done(h) /\ op' = "user"
Push(h, v) == [h EXCEPT !.stack = @ \cup {v}]

New(o) ==
    /\ Does(Type[o]) /\ g.col[o] = "free"
    /\ User(Push(luaC_newobj(g, o), o))

\* the objects of another state come from the sharetable service
Share(o) == Does("shared") /\ User(Push(g, o))

Set(o, k, v) ==
    /\ Does("set") /\ Type[o] # "string" /\ o \notin Shared
    /\ Type[o] \notin TypeTables => k = 0
    /\ User(Assign(g, o, k, v))

Clear(o) == Does("clear") /\ g.val[o] # 0 /\ User([g EXCEPT !.val[o] = 0])

Get(o) == Does("get") /\ IsObj(g.val[o]) /\ User(Push(g, g.val[o]))

Pop(o) == Does("pop") /\ User([g EXCEPT !.stack = @ \ {o}])

\* lua_setmetatable of a basic type: no barrier
SetMt(o) == Does("setmt") /\ g.mt # o /\ Type[o] = "table" /\ User([g EXCEPT !.mt = o])

SetGC(o) ==
    /\ Does("setgc") /\ o \in Objs /\ Type[o] \in TypeTables \cup {"udata"}
    /\ o \notin g.fin /\ g.marks[o] < MaxFin
    /\ User(luaC_checkfinalizer(g, o))

\* a step of the incremental collector; a finalizer finds its object on the stack
SingleStep ==
    /\ Running /\ ~isdecGCmodegen(g)
    /\ g' = IF g.state = "callfin" /\ g.tobefnz # <<>> THEN Push(GCTM(g), Head(g.tobefnz)) ELSE singlestep(g, FALSE)
    /\ op' = "collector"

GenStep ==
    /\ Running /\ isdecGCmodegen(g)
    /\ \E major \in BOOLEAN, good \in BOOLEAN : g' = genstep(g, major, good)
    /\ op' = "collector"

\* callallpendingfinalizers
Finalize ==
    /\ Running /\ isdecGCmodegen(g) /\ g.tobefnz # <<>>
    /\ g' = Push(GCTM(g), Head(g.tobefnz)) /\ op' = "collector"

luaC_fullgc(emergency) ==
    /\ Does("full")
    /\ Done(IF g.kind = "inc" THEN fullinc(g, emergency) ELSE fullgen(g, emergency))
    /\ op' = "full"

luaC_changemode(mode) ==
    /\ Does("mode") /\ (mode # g.kind \/ g.bad)
    /\ Done(IF mode = g.kind THEN [g EXCEPT !.bad = FALSE]
            ELSE IF mode = "gen" THEN entergen(g, FALSE) ELSE enterinc(g))
    /\ op' = "mode"

Close == Running /\ g' = luaC_freeallobjects(g) /\ op' = "closed"

GcInit ==
    /\ \E script \in Scripts : g = [kind |-> "inc", state |-> "pause", white |-> "w0", bad |-> FALSE,
            allgc |-> <<Main>>, finobj |-> <<>>, tobefnz |-> <<>>, sweepgc |-> None,
            gray |-> <<>>, grayagain |-> <<>>, weak |-> <<>>, allweak |-> <<>>, ephemeron |-> <<>>,
            survival |-> 0, old1 |-> 0, reallyold |-> 0, firstold1 |-> 0,
            finobjsur |-> 0, finobjold1 |-> 0, finobjrold |-> 0,
            col |-> [o \in All |-> IF o \in Objs THEN "free" ELSE "w0"],
            age |-> [o \in All |-> IF o \in Shared THEN "shared" ELSE "new"],
            key |-> [o \in All |-> 0], val |-> [o \in All |-> 0], fin |-> {},
            marks |-> [o \in All |-> 0], calls |-> [o \in All |-> 0],
            stack |-> {}, mt |-> 0, todo |-> script]
    /\ op = "user"

GcNext ==
    \/ \E o \in Objs : New(o)
    \/ \E o \in Shared : Share(o)
    \/ \E o \in Held, k \in Held \cup {0}, v \in Held \cup {Plain} : Set(o, k, v)
    \/ \E o \in Held : Clear(o) \/ Get(o) \/ SetMt(o) \/ SetGC(o)
    \/ \E o \in g.stack : Pop(o)
    \/ SingleStep \/ GenStep \/ Finalize
    \/ \E e \in BOOLEAN : luaC_fullgc(e)
    \/ \E m \in {"inc", "gen"} : luaC_changemode(m)
    \/ Close

GcSpec == GcInit /\ [][GcNext]_gcVars

-----------------------------------------------------------------------------
\* what an object of S refers to strongly; a string is never weak, a shared key
\* of an ephemeron table always dead for iscleared
StrongFrom(h, S) ==
    LET live(o) == h.val[o] # 0
        strings == {o \in All : Type[o] = "string"}
        vals(o) == {h.val[o]} \cap All
        keys(o) == {h.key[o]} \cap All
        from(o) == CASE Type[o] = "weakv" -> IF live(o) THEN keys(o) \cup (vals(o) \cap strings) ELSE {}
                     [] Type[o] = "allweak" -> (keys(o) \cup vals(o)) \cap strings
                     [] Type[o] = "ephemeron" -> (keys(o) \cap strings)
                            \cup (IF live(o) /\ keys(o) \subseteq ((S \ Shared) \cup strings) THEN vals(o) ELSE {})
                     [] Type[o] = "table" -> IF live(o) THEN keys(o) \cup vals(o) ELSE {}
                     [] OTHER -> vals(o)
    IN  UNION {from(o) : o \in S}

RECURSIVE Closure(_, _)
Closure(h, S) == LET T == S \cup StrongFrom(h, S) IN IF T = S THEN S ELSE Closure(h, T)

Strong(h) == Closure(h, (h.stack \cup {h.mt, Main}) \ {0})
Kept(h) == Closure(h, (h.stack \cup {h.mt, Main} \cup ToSet(h.tobefnz)) \ {0})

(* What the program or a pending finalizer can reach is never freed, no    *)
(* entry it can read names a freed object, and no gray list of the         *)
(* collector holds one: whatever barriers, sweeps, changes of mode and     *)
(* finalizers come between.                                                *)
GcSafe ==
    LET free == {o \in All : g.col[o] = "free"}
        kept == Kept(g)
    IN  /\ kept \cap free = {}
        /\ \A o \in kept : g.val[o] # 0 => {g.key[o], g.val[o]} \cap free = {}
        /\ \A l \in GrayLists : ToSet(g[l]) \cap free = {}

(* A collection leaves alone what is in use: it empties an entry only when *)
(* the weak side of it is not strongly reachable, and queues for           *)
(* finalization only what is not.  (Shared objects are excepted, iscleared *)
(* takes them for dead; and a change of mode, which may run two cycles.)   *)
OnlyGarbageTaken ==
    op' \in {"collector", "full"} =>
      LET inuse == Strong(g)
      IN  /\ \A o \in inuse : g.val[o] # 0 /\ g'.val[o] = 0 =>
                 (({g.key[o], g.val[o]} \cap All) \ inuse) \cup ({g.key[o], g.val[o]} \cap Shared) # {}
          /\ (ToSet(g'.tobefnz) \ ToSet(g.tobefnz)) \cap inuse = {}

(* A full collection, emergency or not, in either mode and from any phase, *)
(* frees everything that neither the program nor the finalizers left to be *)
(* called could reach when it began.                                       *)
FullGcComplete ==
    op' = "full" =>
      LET kept == Closure(g, (g.stack \cup {g.mt, Main} \cup ToSet(g'.tobefnz)) \ {0})
      IN  \A o \in Objs : g'.col[o] # "free" => o \in kept

(* A finalizer is called once for each time its object was marked for it,  *)
(* and by the time the state is closed it has been called.                 *)
FinalizedOnce ==
    \A o \in Objs : /\ g.calls[o] <= g.marks[o]
                     /\ g.state = "closed" => g.calls[o] = g.marks[o]
=============================================================================
