----------------------------- MODULE Datasheet ------------------------------
(***************************************************************************)
(* Read-only Lua tables shared between services as documents:              *)
(* lualib/skynet/datasheet/dump.lua lays a table out as a document and     *)
(* numbers the tables of a new version after those of the last (diff);     *)
(* lualib-src/lua-datasheet.c reads a document through proxies that are    *)
(* filled when first used and emptied when a new version comes.            *)
(*                                                                         *)
(* A Lua value is [i |-> n], [b |-> TRUE], [s |-> str] or                  *)
(* [arr |-> values, dict |-> strings to values].  A document is            *)
(* [n, index, table, strings]: index gives a table's place in table, or    *)
(* Invalid; a string is its number in strings.                             *)
(***************************************************************************)
EXTENDS Integers, Sequences, SequencesExt, FiniteSets, Functions

CONSTANTS Sheets,   \* the versions a sheet goes through: a set of sequences
          MaxProxy  \* bound: proxies created

Invalid == -1
IsTable(v) == "arr" \in DOMAIN v
Pairs(t) == SetToSeq(DOMAIN t.dict)

VARIABLES sheet,   \* the sequence of versions
          version, \* the one that is current
          docs,    \* the documents of the versions so far
          proxies, \* [data, index, filled, content, path, live]
          nodes    \* NODECACHE: a table of a document -> its proxy

sheetVars == <<sheet, version, docs, proxies, nodes>>

-----------------------------------------------------------------------------
(* ctd.dump.                                                               *)

\* the number of a string, entered if it is new
Intern(doc, str) ==
    IF \E i \in DOMAIN doc.strings : doc.strings[i] = str
    THEN [doc |-> doc, at |-> CHOOSE i \in DOMAIN doc.strings : doc.strings[i] = str]
    ELSE [doc |-> [doc EXCEPT !.strings = Append(@, str)], at |-> Len(doc.strings) + 1]

RECURSIVE dump_table(_, _), EncodeAll(_, _, _)

\* a value as [type, v] and the document it leaves
encode(doc, v) ==
    CASE IsTable(v) -> LET d == dump_table(doc, v) IN [doc |-> d, type |-> "table", v |-> doc.n]
      [] "i" \in DOMAIN v -> [doc |-> doc, type |-> "integer", v |-> v.i]
      [] "b" \in DOMAIN v -> [doc |-> doc, type |-> "boolean", v |-> IF v.b THEN 1 ELSE 0]
      [] OTHER -> LET s == Intern(doc, v.s) IN [doc |-> s.doc, type |-> "string", v |-> s.at]

EncodeAll(doc, vs, out) ==
    IF vs = <<>> THEN [doc |-> doc, out |-> out]
    ELSE LET e == encode(doc, Head(vs)) IN EncodeAll(e.doc, Tail(vs), Append(out, [type |-> e.type, v |-> e.v]))

\* a table takes its number first, then its values are encoded: the array,
\* then of each pair the key and the value
dump_table(doc, t) ==
    LET taken == [doc EXCEPT !.n = @ + 1, !.table = Append(@, <<>>), !.index = Append(@, doc.n + 1)]
        array == EncodeAll(taken, t.arr, <<>>)
        keys == Pairs(t)
        kvs == EncodeAll(array.doc, FlattenSeq([i \in DOMAIN keys |-> <<[s |-> keys[i]], t.dict[keys[i]]>>]), <<>>)
    IN [kvs.doc EXCEPT !.table[doc.n + 1] = [array |-> array.out, dict |-> kvs.out]]

dump(t) == dump_table([n |-> 0, index |-> <<>>, table |-> <<>>, strings |-> <<>>], t)

-----------------------------------------------------------------------------
(* lua-datasheet.c on a document.                                          *)

gettable(doc, index) == IF doc.index[index + 1] = Invalid THEN <<>> ELSE doc.table[doc.index[index + 1]]

\* the sub-tables of a table, as pairs <<key, number>>
Subs(t) ==
    {<<[i |-> i], t.array[i].v>> : i \in {j \in DOMAIN t.array : t.array[j].type = "table"}}
    \cup {<<[k |-> t.dict[i - 1].v], t.dict[i].v>> : i \in {j \in DOMAIN t.dict : j % 2 = 0 /\ t.dict[j].type = "table"}}
\* the same with the strings as they are
SubsOf(doc, index) ==
    {<<IF "i" \in DOMAIN x[1] THEN x[1] ELSE [k |-> doc.strings[x[1].k]], x[2]>> : x \in Subs(gettable(doc, index))}

-----------------------------------------------------------------------------
(* ctd.diff: a table found under the same keys keeps its old number.       *)

RECURSIVE comp(_, _, _, _)
comp(last, current, old, new) ==
    {<<new, old>>} \cup UNION {comp(last, current, x[2], y[2]) : <<x, y>> \in
        {z \in SubsOf(last, old) \X SubsOf(current, new) : z[1][1] = z[2][1]}}
diffmap(last, current) == comp(last, current, 0, 0)

diff(last, current) ==
    LET kept == diffmap(last, current)
        fresh == SetToSortSeq((0 .. current.n - 1) \ {x[1] : x \in kept}, <)
        map == [i \in 0 .. current.n - 1 |->
                  IF \E x \in kept : x[1] = i THEN (CHOOSE x \in kept : x[1] = i)[2]
                  ELSE last.n + (CHOOSE j \in DOMAIN fresh : fresh[j] = i) - 1]
        newn == last.n + Len(fresh)
        remap(v) == IF v.type = "table" THEN [v EXCEPT !.v = map[@]] ELSE v
    IN [n |-> newn, strings |-> current.strings,
        index |-> [j \in 1 .. newn |->
                     IF \E i \in DOMAIN map : map[i] = j - 1
                     THEN current.index[(CHOOSE i \in DOMAIN map : map[i] = j - 1) + 1] ELSE Invalid],
        table |-> [i \in DOMAIN current.table |->
                     [array |-> [j \in DOMAIN current.table[i].array |-> remap(current.table[i].array[j])],
                      dict |-> [j \in DOMAIN current.table[i].dict |-> remap(current.table[i].dict[j])]]]]

-----------------------------------------------------------------------------
(* Proxies.                                                                *)

Proxy(data, index, path) == [data |-> data, index |-> index, filled |-> FALSE, content |-> {}, path |-> path, live |-> TRUE]

\* the proxy of a table: the cached one, or a new one; [p, nodes, at]
create_proxy(p, ns, data, index, path) ==
    IF \E x \in ns : x.data = data /\ x.index = index
    THEN [p |-> p, nodes |-> ns, at |-> (CHOOSE x \in ns : x.data = data /\ x.index = index).at]
    ELSE [p |-> Append(p, Proxy(data, index, path)),
          nodes |-> ns \cup {[data |-> data, index |-> index, at |-> Len(p) + 1]}, at |-> Len(p) + 1]

Scalar(doc, v) ==
    CASE v.type = "integer" -> [i |-> v.v]
      [] v.type = "boolean" -> [b |-> v.v # 0]
      [] v.type = "string"  -> [s |-> doc.strings[v.v]]

\* fills a proxy: [p, nodes, content]; a sub-table becomes a proxy of its own
RECURSIVE FillAll(_, _, _, _, _)
pushvalue(st, doc, data, path, key, v) ==
    IF v.type # "table" THEN [st EXCEPT !.content = @ \cup {<<key, Scalar(doc, v)>>}]
    ELSE LET c == create_proxy(st.p, st.nodes, data, v.v, Append(path, key))
         IN [p |-> c.p, nodes |-> c.nodes, content |-> st.content \cup {<<key, [proxy |-> c.at]>>}]
FillAll(st, doc, data, path, kvs) ==
    IF kvs = <<>> THEN st
    ELSE FillAll(pushvalue(st, doc, data, path, Head(kvs)[1], Head(kvs)[2]), doc, data, path, Tail(kvs))
copytable(x) ==
    LET doc == docs[proxies[x].data]
        t == gettable(doc, proxies[x].index)
        kvs == [i \in DOMAIN t.array |-> <<[i |-> i], t.array[i]>>]
               \o [i \in 1 .. Len(t.dict) \div 2 |-> <<[k |-> doc.strings[t.dict[2 * i - 1].v]], t.dict[2 * i]>>]
    IN FillAll([p |-> proxies, nodes |-> nodes, content |-> {}], doc, proxies[x].data, proxies[x].path, kvs)

SheetInit ==
    /\ sheet \in Sheets /\ version = 1
    /\ docs = <<dump(sheet[1])>>
    /\ proxies = <<>> /\ nodes = {}

\* datasheet.new
lnew ==
    /\ proxies = <<>>
    /\ LET c == create_proxy(<<>>, {}, 1, 0, <<>>) IN proxies' = c.p /\ nodes' = c.nodes
    /\ UNCHANGED <<sheet, version, docs>>

\* __index, __pairs or __len of an empty proxy; a proxy whose table is gone refuses
copyfromdata(x) ==
    /\ proxies[x].live /\ ~proxies[x].filled
    /\ gettable(docs[proxies[x].data], proxies[x].index) # <<>>
    /\ LET f == copytable(x) IN
       /\ Len(f.p) <= MaxProxy
       /\ proxies' = [f.p EXCEPT ![x].filled = TRUE, ![x].content = f.content]
       /\ nodes' = f.nodes
    /\ UNCHANGED <<sheet, version, docs>>

clear_table_Keep(p) == p
clear_table(p) == [p EXCEPT !.filled = FALSE, !.content = {}]

\* every proxy of the old document is moved to the new one and emptied
update_cache(data, newdata, doc) ==
    LET moved == {x \in nodes : x.data = data}
        kept == {x \in moved : gettable(doc, x.index) # <<>>}
    IN /\ proxies' = [x \in DOMAIN proxies |->
                        IF \E y \in moved : y.at = x THEN clear_table([proxies[x] EXCEPT !.data = newdata]) ELSE proxies[x]]
       /\ nodes' = (nodes \ moved) \cup {[x EXCEPT !.data = newdata] : x \in kept}

lupdate ==
    /\ proxies # <<>> /\ version < Len(sheet)
    /\ LET doc == diff(docs[version], dump(sheet[version + 1])) IN
       /\ docs' = Append(docs, doc)
       /\ update_cache(version, version + 1, doc)
    /\ version' = version + 1
    /\ UNCHANGED sheet

\* the service drops a proxy other than the root that no filled one refers to:
\* the weak caches lose it
Collect(x) ==
    /\ x # 1 /\ proxies[x].live
    /\ \A y \in DOMAIN proxies : \A c \in proxies[y].content : c[2] # [proxy |-> x]
    /\ proxies' = [proxies EXCEPT ![x] = [Proxy(0, 0, <<>>) EXCEPT !.live = FALSE]]
    /\ nodes' = {n \in nodes : n.at # x}
    /\ UNCHANGED <<sheet, version, docs>>

SheetNext ==
    \/ lnew \/ lupdate
    \/ \E x \in DOMAIN proxies : copyfromdata(x) \/ Collect(x)

SheetSpec == SheetInit /\ [][SheetNext]_sheetVars

-----------------------------------------------------------------------------
(* The value a version has under a path: a set, empty if there is none.    *)
RECURSIVE Under(_, _)
Under(v, path) ==
    IF path = <<>> THEN {v}
    ELSE IF ~IsTable(v) THEN {}
    ELSE LET k == Head(path) IN
         IF "i" \in DOMAIN k THEN (IF k.i \in DOMAIN v.arr THEN Under(v.arr[k.i], Tail(path)) ELSE {})
         ELSE (IF k.k \in DOMAIN v.dict THEN Under(v.dict[k.k], Tail(path)) ELSE {})

(* However many versions came since a service got hold of a table of the   *)
(* sheet, and whether it had looked inside before, what it reads is the    *)
(* table the newest version has in the same place: its scalars, and its    *)
(* sub-tables as the proxies of those places (ctd.diff keeps the numbers,  *)
(* update_cache moves and empties the proxies, create_proxy finds them).   *)
SheetCurrent ==
    \A x \in DOMAIN proxies : proxies[x].filled =>
        \E t \in Under(sheet[version], proxies[x].path) :
           /\ IsTable(t)
           /\ {c[1] : c \in proxies[x].content} = {[i |-> i] : i \in DOMAIN t.arr} \cup {[k |-> k] : k \in DOMAIN t.dict}
           /\ \A c \in proxies[x].content :
                 LET v == IF "i" \in DOMAIN c[1] THEN t.arr[c[1].i] ELSE t.dict[c[1].k]
                 IN IF IsTable(v) THEN "proxy" \in DOMAIN c[2] /\ proxies[c[2].proxy].path = Append(proxies[x].path, c[1])
                    ELSE c[2] = v
=============================================================================
