----------------------------- MODULE LuaTable -------------------------------
(***************************************************************************)
(* 3rd/lua/ltable.c: a Lua table, an array part and a hash part of chained *)
(* nodes, under any sequence of assignments, lengths, traversals that      *)
(* assign to present fields, and garbage collections that kill keys.       *)
(*                                                                         *)
(* A key is [i |-> integer] or [p |-> n], a collectable object with hash n.*)
(* A value is a number, 0 is empty.  next is the index of the next node    *)
(* of the chain, -1 at its end.                                            *)
(***************************************************************************)
EXTENDS Integers, Sequences, FiniteSets, SequencesExt, FiniteSetsExt

CONSTANTS Keys, Values,  \* what is assigned; Values without 0
          ListSizes,     \* lengths of the lists of OP_SETLIST
          MaxInteger,    \* LUA_MAXINTEGER
          MaxASize       \* MAXASIZE

VARIABLES t,      \* [array, alimit, real, node, dummy, lastfree]: struct Table
          m,      \* what the program has assigned: key -> value
          trav,   \* a traversal: [on, key, seen]
          len     \* what luaH_getn has just returned, else -1

tblVars == <<t, m, trav, len>>

NilKey == [nil |-> 0]
IsInt(k) == "i" \in DOMAIN k
EmptyNode == [key |-> NilKey, val |-> 0, next |-> -1, dead |-> FALSE]
DummyNode == [n \in {0} |-> EmptyNode]

Absent == [none |-> 0]     \* absentkey
sizenode(x) == Cardinality(DOMAIN x.node)
ispow2(n) == \E b \in 0 .. 8 : n = 2 ^ b \/ n = 0
PowerFrom(n) == CHOOSE p \in {2 ^ b : b \in 0 .. 8} : p >= n /\ (p = 1 \/ p \div 2 < n)
ceillog2(n) == CHOOSE b \in 0 .. 8 : 2 ^ b = PowerFrom(n)

-----------------------------------------------------------------------------
(* Looking up.                                                             *)

mainposition(x, k) ==
    IF IsInt(k) THEN k.i % sizenode(x)
    ELSE k.p % (IF sizenode(x) <= 2 THEN 1 ELSE sizenode(x) - 1)

\* a dead key is only itself for a traversal
equalkey_Live(k, node, deadok) == node.key = k /\ ~node.dead
equalkey(k, node, deadok) == node.key = k /\ (deadok \/ ~node.dead)

limitequalsasize(x) == x.real \/ ispow2(x.alimit)

luaH_realasize(x) == IF limitequalsasize(x) THEN x.alimit ELSE PowerFrom(x.alimit)

ispow2realasize_Any(x) == TRUE
ispow2realasize(x) == ~x.real \/ ispow2(x.alimit)

setlimittosize(x) == [x EXCEPT !.alimit = luaH_realasize(x), !.real = TRUE]

RECURSIVE Follow(_, _, _, _)
Follow(x, n, k, deadok) ==
    IF equalkey(k, x.node[n], deadok) THEN [n |-> n]
    ELSE IF x.node[n].next < 0 THEN Absent ELSE Follow(x, x.node[n].next, k, deadok)

\* where k is: [a |-> index in the array], [n |-> node] or Absent
getgeneric(x, k, deadok) == Follow(x, mainposition(x, k), k, deadok)

ValueAt(x, slot) ==
    IF slot = Absent THEN 0 ELSE IF "a" \in DOMAIN slot THEN x.array[slot.a] ELSE x.node[slot.n].val

\* an integer: it may move the hint alimit, so the table is part of the result
luaH_getint(x, i) ==
    IF i \in 1 .. x.alimit THEN [t |-> x, slot |-> [a |-> i]]
    ELSE IF ~limitequalsasize(x) /\ (i = x.alimit + 1 \/ i \in 1 .. luaH_realasize(x))
    THEN [t |-> [x EXCEPT !.alimit = i], slot |-> [a |-> i]]
    ELSE [t |-> x, slot |-> getgeneric(x, [i |-> i], FALSE)]

luaH_get(x, k) == IF IsInt(k) THEN luaH_getint(x, k.i) ELSE [t |-> x, slot |-> getgeneric(x, k, FALSE)]

IsEmptyInt(x, i) == LET g == luaH_getint(x, i) IN ValueAt(g.t, g.slot) = 0

-----------------------------------------------------------------------------
(* Rehash.                                                                 *)

\* the integer keys that could go to the array, of the table and the new key
arrayindex(k) == IF IsInt(k) /\ k.i \in 1 .. MaxASize THEN k.i ELSE 0
numusearray(x) == {i \in 1 .. x.alimit : x.array[i] # 0}
numusehash(x) == {n \in DOMAIN x.node : x.node[n].val # 0}

\* the largest n such that more than half of the slots 1 .. n are in use
computesizes(ints) ==
    LET half(n) == Cardinality({i \in ints : i <= n}) > n \div 2
        sizes == {2 ^ b : b \in 0 .. ceillog2(MaxASize)}
    IN  Max({0} \cup {n \in sizes : half(n) /\ Cardinality(ints) > n \div 2})

setnodevector(x, size) ==
    IF size = 0 THEN [x EXCEPT !.node = DummyNode, !.dummy = TRUE, !.lastfree = 0]
    ELSE [x EXCEPT !.node = [n \in 0 .. PowerFrom(size) - 1 |-> EmptyNode], !.dummy = FALSE, !.lastfree = PowerFrom(size)]

exchangehashpart(x, y) == [x EXCEPT !.node = y.node, !.dummy = y.dummy, !.lastfree = y.lastfree]

RECURSIVE luaH_set(_, _, _)

reinsert(old, x) ==
    FoldLeft(LAMBDA y, n : IF old.node[n].val = 0 THEN y ELSE luaH_set(y, old.node[n].key, old.node[n].val),
             x, [j \in 1 .. sizenode(old) |-> j - 1])

\* the elements of the vanishing slice, in the new hash part
Vanishing(x, newt, newasize, oldasize) ==
    FoldLeft(LAMBDA y, i : IF x.array[i] = 0 THEN y ELSE luaH_set(y, [i |-> i], x.array[i]),
             [exchangehashpart(x, newt) EXCEPT !.alimit = newasize], [j \in 1 .. oldasize - newasize |-> newasize + j])

luaH_resize(x0, newasize, nhsize) ==
    LET x == setlimittosize(x0)
        oldasize == x.alimit
        newt == setnodevector(x, nhsize)
        hash == IF newasize < oldasize THEN Vanishing(x, newt, newasize, oldasize) ELSE newt
        y == [exchangehashpart(x, hash) EXCEPT !.alimit = newasize,
                 !.array = [i \in 1 .. newasize |-> IF i <= oldasize THEN x.array[i] ELSE 0]]
    IN  reinsert(x, y)

rehash(x0, ek) ==
    LET x == setlimittosize(x0)
        ints == numusearray(x) \cup ({arrayindex(x.node[n].key) : n \in numusehash(x)} \ {0}) \cup ({arrayindex(ek)} \ {0})
        total == Cardinality(numusearray(x)) + Cardinality(numusehash(x)) + 1
        asize == computesizes(ints)
    IN  luaH_resize(x, asize, total - Cardinality({i \in ints : i <= asize}))

-----------------------------------------------------------------------------
(* Insertion.                                                              *)

\* the next free node below lastfree, -1 when there is none, and where lastfree goes
getfreepos(x) ==
    LET free == {n \in 0 .. x.lastfree - 1 : x.node[n].key = NilKey}
    IN  IF x.dummy \/ free = {} THEN -1 ELSE Max(free)
Lastfree(x) == IF x.dummy THEN x ELSE [x EXCEPT !.lastfree = IF getfreepos(x) < 0 THEN 0 ELSE getfreepos(x)]

RECURSIVE Previous(_, _, _)
Previous(x, n, mp) == IF x.node[n].next = mp THEN n ELSE Previous(x, x.node[n].next, mp)

\* the node in the way is moved to f; mutant: its predecessor still points to mp
MoveOut_NoRechain(x, other, mp, f) == [x EXCEPT !.node[f] = x.node[mp], !.node[mp] = EmptyNode]
MoveOut(x, other, mp, f) ==
    [x EXCEPT !.node[Previous(x, other, mp)].next = f, !.node[f] = x.node[mp], !.node[mp] = EmptyNode]

\* the new node goes to f, behind mp
ChainIn(x, mp, f) == [x EXCEPT !.node[f].next = x.node[mp].next, !.node[mp].next = f]

\* the node in the way is not in its own main position
Displaced_Never(x, mp) == FALSE
Displaced(x, mp) == mainposition(x, x.node[mp].key) # mp

setnodekey(x, n, k, v) == [x EXCEPT !.node[n].key = k, !.node[n].val = v, !.node[n].dead = FALSE]

luaH_newkey(x, k, v) ==
    LET mp == mainposition(x, k)
        f == getfreepos(x)
        y == Lastfree(x)
        other == mainposition(x, x.node[mp].key)
    IN  IF v = 0 THEN x
        ELSE IF x.node[mp].val = 0 /\ ~x.dummy THEN setnodekey(x, mp, k, v)
        ELSE IF f < 0 THEN luaH_set(rehash(y, k), k, v)
        ELSE IF Displaced(x, mp) THEN setnodekey(MoveOut(y, other, mp, f), mp, k, v)
        ELSE setnodekey(ChainIn(y, mp, f), f, k, v)

luaH_finishset(x, k, slot, v) ==
    IF slot = Absent THEN luaH_newkey(x, k, v)
    ELSE IF "a" \in DOMAIN slot THEN [x EXCEPT !.array[slot.a] = v] ELSE [x EXCEPT !.node[slot.n].val = v]

luaH_set(x, k, v) == LET g == luaH_get(x, k) IN luaH_finishset(g.t, k, g.slot, v)

-----------------------------------------------------------------------------
(* Length and traversal.                                                   *)

RECURSIVE binsearch(_, _, _)
binsearch(array, i, j) ==
    IF j - i <= 1 THEN i
    ELSE LET c == (i + j) \div 2 IN IF array[c] = 0 THEN binsearch(array, i, c) ELSE binsearch(array, c, j)

RECURSIVE HashBisect(_, _, _)
HashBisect(x, i, j) ==
    IF j - i <= 1 THEN i
    ELSE LET c == (i + j) \div 2 IN IF IsEmptyInt(x, c) THEN HashBisect(x, i, c) ELSE HashBisect(x, c, j)

\* mutant: the search stops where it starts
hash_search_Start(x, j0) == IF j0 = 0 THEN 1 ELSE j0
RECURSIVE hash_search(_, _)
\* j + 1 is present: double j until it is absent, then bisect
hash_search(x, j0) ==
    LET i == IF j0 = 0 THEN 1 ELSE j0
    IN  IF i > MaxInteger \div 2
        THEN IF IsEmptyInt(x, MaxInteger) THEN HashBisect(x, i, MaxInteger) ELSE MaxInteger
        ELSE IF IsEmptyInt(x, 2 * i) THEN HashBisect(x, i, 2 * i) ELSE hash_search(x, 2 * i)

\* a boundary, and the hint it leaves behind
luaH_getn(x) ==
    LET limit == x.alimit
        real == luaH_realasize(x)
        Hint(b) == [x EXCEPT !.alimit = b, !.real = FALSE]
        Beyond == IF x.dummy \/ IsEmptyInt(x, real + 1) THEN real ELSE hash_search(x, real)
    IN  IF limit > 0 /\ x.array[limit] = 0
        THEN IF limit >= 2 /\ x.array[limit - 1] # 0
             THEN [t |-> IF ispow2realasize(x) /\ ~ispow2(limit - 1) THEN Hint(limit - 1) ELSE x, n |-> limit - 1]
             ELSE LET b == binsearch(x.array, 0, limit)
                  IN  [t |-> IF ispow2realasize(x) /\ b > real \div 2 THEN Hint(b) ELSE x, n |-> b]
        ELSE IF limitequalsasize(x) THEN [t |-> x, n |-> Beyond]
        ELSE IF x.array[limit + 1] = 0 THEN [t |-> x, n |-> limit]
        ELSE IF x.array[real] = 0
        THEN LET b == binsearch(x.array, limit, real) IN [t |-> [x EXCEPT !.alimit = b], n |-> b]
        ELSE [t |-> x, n |-> Beyond]

\* the index of a key in a traversal, -1 for "invalid key to 'next'"
findindex(x, k) ==
    LET asize == luaH_realasize(x)
        slot == getgeneric(x, k, TRUE)
    IN  IF k = NilKey THEN 0
        ELSE IF arrayindex(k) \in 1 .. asize THEN k.i
        ELSE IF slot = Absent THEN -1 ELSE slot.n + 1 + asize

\* the key after index i, NilKey at the end
luaH_next(x, i) ==
    LET asize == luaH_realasize(x)
        later == {j \in i + 1 .. asize + sizenode(x) : IF j <= asize THEN x.array[j] # 0 ELSE x.node[j - asize - 1].val # 0}
        j == Min(later)
    IN  IF later = {} THEN NilKey ELSE IF j <= asize THEN [i |-> j] ELSE x.node[j - asize - 1].key

-----------------------------------------------------------------------------
(* What a program does.                                                    *)

NoTraversal == [on |-> FALSE, key |-> NilKey, seen |-> <<>>]

\* luaH_new
Init ==
    /\ t = [array |-> <<>>, alimit |-> 0, real |-> TRUE, node |-> DummyNode, dummy |-> TRUE, lastfree |-> 0]
    /\ m = [k \in Keys |-> 0]
    /\ trav = NoTraversal /\ len = -1

\* during a traversal only present fields are assigned to
Assign(k, v) ==
    /\ trav.on => m[k] # 0
    /\ t' = luaH_set(t, k, v) /\ m' = [m EXCEPT ![k] = v]
    /\ len' = -1 /\ UNCHANGED trav

\* the allocation in luaH_resize fails: the element is not there and nothing is lost
AssignFails(k) ==
    /\ ~trav.on /\ m[k] = 0 /\ luaH_get(t, k).slot = Absent
    /\ t.dummy \/ t.node[mainposition(t, k)].val # 0
    /\ getfreepos(t) < 0
    /\ t' = setlimittosize(Lastfree(luaH_get(t, k).t))
    /\ len' = -1 /\ UNCHANGED <<m, trav>>

Read(k) ==
    /\ t' = luaH_get(t, k).t /\ t' # t
    /\ len' = -1 /\ UNCHANGED <<m, trav>>

Length ==
    /\ len = -1
    /\ LET r == luaH_getn(t) IN t' = r.t /\ len' = r.n
    /\ UNCHANGED <<m, trav>>

\* OP_SETLIST asks for a longer array (and only then)
luaH_resizearray(n) ==
    /\ ~trav.on /\ n > luaH_realasize(t)
    /\ t' = luaH_resize(t, n, IF t.dummy THEN 0 ELSE sizenode(t))
    /\ len' = -1 /\ UNCHANGED <<m, trav>>

\* clearkey of lgc.c: the collector kills the keys of empty entries
clearkey ==
    /\ t' = [t EXCEPT !.node = [n \in DOMAIN t.node |->
                IF t.node[n].val = 0 /\ "p" \in DOMAIN t.node[n].key THEN [t.node[n] EXCEPT !.dead = TRUE] ELSE t.node[n]]]
    /\ t' # t
    /\ len' = -1 /\ UNCHANGED <<m, trav>>

Traverse ==
    /\ LET i == findindex(t, trav.key)
           k == luaH_next(t, i)
       IN  trav' = IF i < 0 THEN [trav EXCEPT !.seen = Append(@, NilKey)]
                   ELSE IF k = NilKey THEN NoTraversal
                   ELSE [on |-> TRUE, key |-> k, seen |-> Append(trav.seen, k)]
    /\ len' = -1 /\ UNCHANGED <<t, m>>

Next ==
    \/ \E k \in Keys : (\E v \in Values \cup {0} : Assign(k, v)) \/ AssignFails(k) \/ Read(k)
    \/ Length \/ (\E n \in ListSizes : luaH_resizearray(n)) \/ clearkey \/ Traverse

Spec == Init /\ [][Next]_tblVars

-----------------------------------------------------------------------------
(* Properties.                                                             *)

\* if an element is not in its main position, then the colliding element is in its own
Brent ==
    \A n \in DOMAIN t.node : t.node[n].val # 0 =>
        LET c == mainposition(t, t.node[n].key)
        IN  c # n /\ t.node[c].val # 0 => mainposition(t, t.node[c].key) = c

\* Every key finds what was assigned to it last, whatever was inserted, moved to another
\* node, moved between the parts by a rehash or killed by the collector since; the hint
\* that luaH_getn leaves in alimit never hides the real size of the array, and "a main
\* invariant of these tables", as ltable.c says, holds: the one of Brent's variation.
TableIsMap ==
    /\ \A k \in Keys : LET g == luaH_get(t, k) IN ValueAt(g.t, g.slot) = m[k]
    /\ luaH_realasize(t) = Len(t.array)
    /\ Brent

\* The length is a boundary: it is present (or zero) and the integer after it is absent.
LengthIsBoundary ==
    LET At(i) == IF [i |-> i] \in Keys THEN m[[i |-> i]] ELSE 0
    IN  len >= 0 => (len = 0 \/ At(len) # 0) /\ (len = MaxInteger \/ At(len + 1) = 0)

\* A traversal meets no key twice, and when it ends it has met every key that is still
\* there, although fields were cleared and their keys killed meanwhile.
TraversalComplete ==
    /\ trav'.on => IsInjective(trav'.seen) /\ ~Contains(trav'.seen, NilKey)
    /\ trav.on /\ ~trav'.on => \A k \in Keys : m[k] # 0 => Contains(trav.seen, k)
=============================================================================
