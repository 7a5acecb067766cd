-------------------------- MODULE SharedataTable ----------------------------
(***************************************************************************)
(* lualib-src/lua-sharedata.c, the tables: a Lua table is converted once   *)
(* into arrays and hash nodes outside of any Lua state, and every service  *)
(* indexes and walks it.  Its strings live in a Lua state of their own,    *)
(* and are known by their index there.                                     *)
(*                                                                         *)
(* A key is [i |-> integer] or [s |-> string], a string a sequence of      *)
(* bytes, a value [d |-> integer], [s |-> string], [b |-> boolean] or      *)
(* [t |-> table].  A table is its pairs, in the order of lua_next, and     *)
(* the border lua_rawlen finds.                                            *)
(***************************************************************************)
EXTENDS Integers, Sequences, FiniteSets, SequencesExt, Bitwise

CONSTANTS Word,       \* 2^32: the hashes are below it
          Inputs,     \* the tables
          Keys        \* the keys that are looked up

VARIABLES stage, input, conf, seen
sdtVars == <<stage, input, conf, seen>>

NIL == [nil |-> 0]
IsInt(k) == "i" \in DOMAIN k

\* the first string has index 2: 1 is the state with the dirty flag
StringAt(strings, x) == strings[x - 1]

RECURSIVE HashFrom(_, _, _)
HashFrom(h, str, l) ==
    IF l = 0 THEN h
    ELSE HashFrom((h ^^ (((h * 32) + (h \div 4) + str[l]) % Word)) % Word, str, l - 1)
\* for strings of less than 32 bytes, where step is 1
calchash(str) == HashFrom(Len(str), str, Len(str))

KeyHash(k) == IF IsInt(k) THEN k.i % Word ELSE calchash(k.s)

\* the index of str, new or not
stringindex(strings, str) ==
    IF Contains(strings, str)
    THEN [index |-> 1 + (CHOOSE n \in DOMAIN strings : strings[n] = str), strings |-> strings]
    ELSE [index |-> Len(strings) + 2, strings |-> Append(strings, str)]

\* the hash nodes a table needs
countsize(pairs, sizearray) ==
    Cardinality({n \in DOMAIN pairs : ~(IsInt(pairs[n][1]) /\ pairs[n][1].i \in 1 .. sizearray)})

RECURSIVE convtable(_, _)

\* a value as it is kept, and the strings after it
setvalue(strings, v) ==
    IF "s" \in DOMAIN v
    THEN LET x == stringindex(strings, v.s) IN [v |-> [x |-> x.index], strings |-> x.strings]
    ELSE IF "t" \in DOMAIN v
    THEN LET c == convtable(v.t, strings) IN [v |-> [t |-> c.tbl], strings |-> c.strings]
    ELSE [v |-> v, strings |-> strings]

\* acc is [tbl, strings]
setarray(acc, key, v) ==
    LET x == setvalue(acc.strings, v)
    IN  [tbl |-> [acc.tbl EXCEPT !.array[key] = x.v], strings |-> x.strings]

\* whether k goes to the hash part, and as what
ishashkey(acc, k) ==
    IF IsInt(k) THEN [hashed |-> k.i \notin 1 .. acc.tbl.sizearray, key |-> k, strings |-> acc.strings]
    ELSE LET x == stringindex(acc.strings, k.s)
         IN  [hashed |-> TRUE, key |-> [x |-> x.index], strings |-> x.strings]

MainPosition(tbl, k) == KeyHash(k) % tbl.sizehash

SetNode(acc, slot, v, node) ==
    LET x == setvalue(acc.strings, v)
    IN  [tbl |-> [acc.tbl EXCEPT !.hash[slot] = [node EXCEPT !.v = x.v]], strings |-> x.strings]

\* first the array and the keys whose main position is free
fillnocolliding(pairs, tbl, strings) ==
    FoldLeft(LAMBDA acc, pair :
        LET h == ishashkey(acc, pair[1])
            slot == MainPosition(acc.tbl, pair[1])
            a == [acc EXCEPT !.strings = h.strings]
        IN  IF ~h.hashed THEN setarray(a, pair[1].i, pair[2])
            ELSE IF a.tbl.hash[slot].v # NIL THEN a
            ELSE SetNode(a, slot, pair[2], [v |-> NIL, key |-> h.key, next |-> -1, keyhash |-> KeyHash(pair[1]), nocolliding |-> TRUE]),
        [tbl |-> tbl, strings |-> strings], pairs)

\* mutant: the colliding mark is left out
Linked_NoMark(tbl, main, slot) == [tbl EXCEPT !.hash[main].next = slot]
\* slot after main
Linked(tbl, main, slot) == [tbl EXCEPT !.hash[main].next = slot, !.hash[main].nocolliding = FALSE]

\* then the others, each in the next empty slot, behind its main position
fillcolliding(pairs, tbl, strings) ==
    FoldLeft(LAMBDA acc, pair :
        LET h == ishashkey(acc, pair[1])
            a == [acc EXCEPT !.strings = h.strings]
            main == MainPosition(a.tbl, pair[1])
            empty == {s \in DOMAIN a.tbl.hash : a.tbl.hash[s].v = NIL}
            slot == CHOOSE s \in empty : \A t \in empty : s <= t
        IN  IF ~h.hashed \/ a.tbl.hash[main].key = h.key THEN a
            ELSE SetNode([a EXCEPT !.tbl = Linked(@, main, slot)], slot, pair[2],
                         [v |-> NIL, key |-> h.key, next |-> a.tbl.hash[main].next, keyhash |-> KeyHash(pair[1]), nocolliding |-> FALSE]),
        [tbl |-> tbl, strings |-> strings], pairs)

convtable(src, strings) ==
    LET size == countsize(src.pairs, src.border)
        tbl == [sizearray |-> src.border, sizehash |-> size,
                array |-> [n \in 1 .. src.border |-> NIL],
                hash |-> [n \in 0 .. size - 1 |-> [v |-> NIL, key |-> NIL, next |-> -1, keyhash |-> 0, nocolliding |-> FALSE]]]
        first == fillnocolliding(src.pairs, tbl, strings)
    IN  IF size > 0 THEN fillcolliding(src.pairs, first.tbl, first.strings)
        ELSE FoldLeft(LAMBDA acc, pair : setarray(acc, pair[1].i, pair[2]), [tbl |-> tbl, strings |-> strings], src.pairs)

-----------------------------------------------------------------------------
(* Reading.                                                                *)

SameKey(strings, node, k) ==
    /\ node.keyhash = KeyHash(k)
    /\ IF IsInt(k) THEN node.key = k ELSE "x" \in DOMAIN node.key /\ StringAt(strings, node.key.x) = k.s

RECURSIVE Walk(_, _, _, _)
Walk(strings, tbl, k, slot) ==
    IF SameKey(strings, tbl.hash[slot], k) THEN slot
    ELSE IF tbl.hash[slot].next < 0 THEN -1 ELSE Walk(strings, tbl, k, tbl.hash[slot].next)

\* the slot of k, -1 when it is not there
lookup_key(strings, tbl, k) ==
    IF tbl.sizehash = 0 THEN -1
    ELSE LET n == MainPosition(tbl, k)
         IN  IF KeyHash(k) # tbl.hash[n].keyhash /\ tbl.hash[n].nocolliding THEN -1
             ELSE Walk(strings, tbl, k, n)

RECURSIVE pushvalue(_, _)
\* the Lua value; a nested table as the set of its pairs
pushvalue(strings, v) ==
    IF "x" \in DOMAIN v THEN [s |-> StringAt(strings, v.x)]
    ELSE IF "t" \in DOMAIN v
    THEN [t |-> {<<[i |-> n], pushvalue(strings, v.t.array[n])>> : n \in {m \in DOMAIN v.t.array : v.t.array[m] # NIL}}
                \cup {<<IF "x" \in DOMAIN v.t.hash[n].key THEN [s |-> StringAt(strings, v.t.hash[n].key.x)] ELSE v.t.hash[n].key,
                        pushvalue(strings, v.t.hash[n].v)>> : n \in DOMAIN v.t.hash}]
    ELSE v

lindexconf(c, k) ==
    IF IsInt(k) /\ k.i \in 1 .. c.tbl.sizearray THEN pushvalue(c.strings, c.tbl.array[k.i])
    ELSE LET n == lookup_key(c.strings, c.tbl, k)
         IN  IF n < 0 THEN NIL ELSE pushvalue(c.strings, c.tbl.hash[n].v)

pushkey(strings, node) == IF "x" \in DOMAIN node.key THEN [s |-> StringAt(strings, node.key.x)] ELSE node.key

pushfirsthash(c) == IF c.tbl.sizehash > 0 THEN pushkey(c.strings, c.tbl.hash[0]) ELSE NIL

\* the first key of the array after n
NextInArray(c, n) ==
    LET rest == {m \in n + 1 .. c.tbl.sizearray : c.tbl.array[m] # NIL}
    IN  IF rest = {} THEN pushfirsthash(c) ELSE [i |-> CHOOSE m \in rest : \A o \in rest : m <= o]

lnextkey(c, k) ==
    IF k = NIL THEN NextInArray(c, 0)
    ELSE IF IsInt(k) /\ k.i \in 1 .. c.tbl.sizearray THEN NextInArray(c, k.i)
    ELSE LET n == lookup_key(c.strings, c.tbl, k)
         IN  IF n < 0 \/ n + 1 = c.tbl.sizehash THEN NIL ELSE pushkey(c.strings, c.tbl.hash[n + 1])

-----------------------------------------------------------------------------

Init == stage = "new" /\ input \in Inputs /\ conf = <<>> /\ seen = <<>>

lnewconf ==
    /\ stage = "new"
    /\ conf' = convtable(input, <<>>) /\ stage' = "conf"
    /\ UNCHANGED <<input, seen>>

\* pairs(obj): one key after the other
Pairs ==
    /\ stage = "conf"
    /\ LET k == lnextkey(conf, IF seen = <<>> THEN NIL ELSE Last(seen))
       IN  IF k = NIL \/ Len(seen) > Len(input.pairs) THEN stage' = "done" /\ UNCHANGED seen
           ELSE seen' = Append(seen, k) /\ UNCHANGED stage
    /\ UNCHANGED <<input, conf>>

Next == lnewconf \/ Pairs \/ (stage = "done" /\ UNCHANGED sdtVars)

Spec == Init /\ [][Next]_sdtVars

-----------------------------------------------------------------------------
(* Properties.                                                             *)

RECURSIVE Plain(_)
\* the value as a Lua program sees it
Plain(v) == IF "t" \in DOMAIN v THEN [t |-> {<<v.t.pairs[n][1], Plain(v.t.pairs[n][2])>> : n \in DOMAIN v.t.pairs}] ELSE v

\* The converted table holds what the Lua table held: every key finds its value and no
\* other key finds one, whatever the order of the pairs and the collisions, and walking
\* it with nextkey meets every key once.
SharedTableSame ==
    /\ stage # "new" =>
         \A k \in Keys : lindexconf(conf, k) =
             IF \E n \in DOMAIN input.pairs : input.pairs[n][1] = k
             THEN Plain(input.pairs[CHOOSE n \in DOMAIN input.pairs : input.pairs[n][1] = k][2]) ELSE NIL
    /\ stage = "done" =>
         /\ Len(seen) = Len(input.pairs)
         /\ ToSet(seen) = {input.pairs[n][1] : n \in DOMAIN input.pairs}
=============================================================================
