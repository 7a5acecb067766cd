---------------------------- MODULE SprotoSchema ----------------------------
(***************************************************************************)
(* How a schema gets from the parser (lualib/sprotoparser.lua, encodeall)  *)
(* into lualib-src/sproto/sproto.c (sproto_create), and how types and      *)
(* protocols are found in it afterwards.                                   *)
(*                                                                         *)
(* A name is one digit.  A field has a builtin type (0 integer, 1 boolean, *)
(* 2 string, 3 double) or the index of a type in ref; -1 is "no".          *)
(***************************************************************************)
EXTENDS Integers, Sequences, SequencesExt, FiniteSets

CONSTANTS Base,         \* values of a byte: 256
          ChunkSize,    \* CHUNK_SIZE
          FieldSize,    \* sizeof(struct field), and of the other records
          Schemas       \* [types, protos] to load

VARIABLES stage, schema, bundle, sp

schemaVars == <<stage, schema, bundle, sp>>

Word(v) == <<v % Base, v \div Base>>
Dword(v) == [k \in 1 .. 4 |-> (v \div Base ^ (k - 1)) % Base]
toword(s) == s[1] + s[2] * Base
todword(s) == FoldLeft(LAMBDA acc, k : acc + s[k] * Base ^ (k - 1), 0, <<1, 2, 3, 4>>)
From(s, i) == SubSeq(s, i + 1, Len(s))
Body(s) == SubSeq(s, 5, 4 + todword(s))         \* the data of an object with its length
After(s) == From(s, 4 + todword(s))

-----------------------------------------------------------------------------
(* sprotoparser.lua.                                                       *)

packbytes(s) == Dword(Len(s)) \o s
packvalue(v) == Word((v + 1) * 2)
Skip == Word(1)
Ref == Word(0)

packfield(f) ==
    LET more == IF ~f.array THEN <<>>
                ELSE <<packvalue(1)>> \o (IF f.key < 0 THEN <<>>
                                          ELSE <<packvalue(f.key)>> \o IF f.map THEN <<packvalue(1)>> ELSE <<>>)
        what == IF f.buildin >= 0 THEN <<packvalue(f.buildin), IF f.extra > 0 THEN packvalue(f.extra) ELSE Skip>>
                ELSE <<Skip, packvalue(f.ref)>>
        words == <<Ref>> \o what \o <<packvalue(f.tag)>> \o more
    IN  packbytes(Word(Len(words)) \o FlattenSeq(words) \o packbytes(<<f.name>>))

packtype(t) ==
    IF t.f = <<>> THEN packbytes(Word(1) \o Ref \o packbytes(<<t.name>>))
    ELSE packbytes(Word(2) \o Ref \o Ref \o packbytes(<<t.name>>)
                   \o packbytes(FlattenSeq([k \in DOMAIN t.f |-> packfield(t.f[k])])))

packproto(p) ==
    LET request == IF p.request >= 0 THEN packvalue(p.request) ELSE Skip
        words == IF p.request < 0 /\ p.response < 0 /\ ~p.confirm THEN <<>>
                 ELSE IF p.response >= 0 THEN <<request, packvalue(p.response)>>
                 ELSE IF p.confirm THEN <<request, Skip, packvalue(1)>> ELSE <<request>>
        all == <<Ref, packvalue(p.tag)>> \o words
    IN  packbytes(Word(Len(all)) \o FlattenSeq(all) \o packbytes(<<p.name>>))

packgroup(g) ==
    LET tt == packbytes(FlattenSeq([k \in DOMAIN g.types |-> packtype(g.types[k])]))
        tp == packbytes(FlattenSeq([k \in DOMAIN g.protos |-> packproto(g.protos[k])]))
    IN  IF g.types = <<>> THEN Word(0)
        ELSE IF g.protos = <<>> THEN Word(1) \o Ref \o tt ELSE Word(2) \o Ref \o Ref \o tt \o tp

-----------------------------------------------------------------------------
(* sproto.c: the pool, the checks and the import.  x carries the pool and   *)
(* whether the bundle is still valid.                                       *)

Align(sz) == ((sz + 1) \div 2) * 2      \* to 8 in the code

pool_newchunk(x, sz) == [x EXCEPT !.chunks = Append(@, sz), !.regions = Append(@, <<Len(x.chunks) + 1, 0, sz>>)]

pool_alloc_Used(x, size) ==
    LET sz == Align(size)
        y == IF x.current = 0 THEN [x EXCEPT !.chunks = Append(@, ChunkSize), !.current = Len(x.chunks) + 1] ELSE x
    IN  IF sz >= ChunkSize THEN pool_newchunk(x, sz)
        ELSE IF sz + y.used <= ChunkSize
        THEN [y EXCEPT !.regions = Append(@, <<y.current, y.used, sz>>), !.used = @ + sz]
        ELSE IF sz >= y.used THEN pool_newchunk(y, sz)
        ELSE [y EXCEPT !.chunks = Append(@, ChunkSize), !.regions = Append(@, <<Len(y.chunks) + 1, 0, sz>>),
                       !.current = Len(y.chunks) + 1, !.used = 0]

pool_alloc(x, size) ==
    LET sz == Align(size)
        y == IF x.current = 0 THEN [x EXCEPT !.chunks = Append(@, ChunkSize), !.current = Len(x.chunks) + 1] ELSE x
    IN  IF sz >= ChunkSize THEN pool_newchunk(x, sz)
        ELSE IF sz + y.used <= ChunkSize
        THEN [y EXCEPT !.regions = Append(@, <<y.current, y.used, sz>>), !.used = @ + sz]
        ELSE IF sz >= y.used THEN pool_newchunk(y, sz)
        ELSE [y EXCEPT !.chunks = Append(@, ChunkSize), !.regions = Append(@, <<Len(y.chunks) + 1, 0, sz>>),
                       !.current = Len(y.chunks) + 1, !.used = sz]

RECURSIVE Elements(_)
\* count_array: the objects of an array, <<>> followed by "bad" when it is cut short
Elements(s) ==
    IF s = <<>> THEN <<>>
    ELSE IF Len(s) < 4 \/ Len(s) - 4 < todword(s) THEN <<"bad">> ELSE <<Body(s)>> \o Elements(After(s))

count_array(s) == Elements(Body(s))

\* struct_field: the words of the header, and the objects behind it
struct_field(s) ==
    LET fn == toword(s)
        words == [i \in 1 .. fn |-> toword(From(s, 2 * i))]
        objs == Elements(From(s, 2 + 2 * fn))
    IN  IF Len(s) < 4 \/ Len(s) < 2 + 2 * fn \/ "bad" \in ToSet(objs) THEN [ok |-> FALSE]
        ELSE [ok |-> Len(objs) >= Cardinality({i \in 1 .. fn : words[i] = 0}), words |-> words, objs |-> objs]

import_string(x, s) == [pool_alloc(x, Len(s) + 1) EXCEPT !.name = s[1]]

RECURSIVE calc_pow(_, _)
calc_pow(base, n) == IF n = 0 THEN 1 ELSE calc_pow(base * base, n \div 2) * IF n % 2 = 1 THEN base ELSE 1

NoField == [name |-> -1, buildin |-> -1, ref |-> -1, tag |-> -1, array |-> FALSE, key |-> -1, map |-> FALSE, extra |-> 0]

\* one word of a field: tag says which member it is
FieldWord(a, word, type_n) ==
    LET tag == a.tag + 1
        v == word \div 2 - 1
        Set(f) == [a EXCEPT !.tag = tag, !.f = f]
        Bad == [a EXCEPT !.ok = FALSE]
    IN  IF ~a.ok THEN a
        ELSE IF word % 2 = 1 THEN [a EXCEPT !.tag = tag + word \div 2]
        ELSE IF tag = 0 THEN IF word = 0 THEN Set([a.f EXCEPT !.name = 0]) ELSE Bad
        ELSE IF word = 0 THEN Bad
        ELSE CASE tag = 1 -> IF v >= 4 THEN Bad ELSE Set([a.f EXCEPT !.buildin = v])
               [] tag = 2 -> IF a.f.buildin = 0 THEN Set([a.f EXCEPT !.extra = calc_pow(10, v)])
                             ELSE IF a.f.buildin = 2 THEN Set([a.f EXCEPT !.extra = v])
                             ELSE IF v >= type_n \/ a.f.buildin >= 0 THEN Bad ELSE Set([a.f EXCEPT !.ref = v])
               [] tag = 3 -> Set([a.f EXCEPT !.tag = v])
               [] tag = 4 -> Set([a.f EXCEPT !.array = v # 0])
               [] tag = 5 -> Set([a.f EXCEPT !.key = v])
               [] tag = 6 -> Set([a.f EXCEPT !.map = v # 0])
               [] OTHER -> Bad

Invalid(x) == [x EXCEPT !.ok = FALSE]

AddField(y, f) == [y EXCEPT !.f = Append(@, [f EXCEPT !.name = y.name])]
NamedField(x, h, a) ==
    IF ~a.ok \/ a.f.tag < 0 \/ (a.f.buildin < 0 /\ a.f.ref < 0) \/ a.f.name < 0 THEN Invalid(x)
    ELSE AddField(import_string(x, h.objs[1]), a.f)
FieldOf(x, h, type_n) ==
    IF ~x.ok \/ ~h.ok THEN Invalid(x)
    ELSE NamedField(x, h, FoldLeft(LAMBDA acc, w : FieldWord(acc, w, type_n),
                                   [ok |-> TRUE, tag |-> -1, f |-> NoField], h.words))
import_field(x, s, type_n) == FieldOf(x, struct_field(s), type_n)

\* the tags must ascend; base when they have no gaps; maxn counts a skip for each gap
AddType(z, name) ==
    LET n == Len(z.f)
        last(k) == IF k = 1 THEN -1 ELSE z.f[k - 1].tag
    IN  IF ~z.ok \/ (\E k \in 1 .. n : z.f[k].tag <= last(k)) THEN Invalid(z)
        ELSE [z EXCEPT !.types = Append(@, [name |-> name, f |-> z.f,
                base |-> IF z.f[n].tag - z.f[1].tag + 1 = n THEN z.f[1].tag ELSE -1,
                maxn |-> n + Cardinality({k \in 1 .. n : z.f[k].tag > last(k) + 1})])]
FieldsOf(y, els, type_n) ==
    AddType(FoldLeft(LAMBDA acc, e : import_field(acc, e, type_n),
                     [pool_alloc(y, FieldSize * Len(els)) EXCEPT !.f = <<>>], els), y.name)
NamedType(y, h, type_n) ==
    IF Len(h.words) = 1 THEN [y EXCEPT !.types = Append(@, [name |-> y.name, f |-> <<>>, base |-> 0, maxn |-> 0])]
    ELSE FieldsOf(y, Elements(h.objs[2]), type_n)
TypeOf(x, h, type_n) ==
    IF ~x.ok \/ ~h.ok \/ Len(h.words) \notin {1, 2} \/ (\E w \in ToSet(h.words) : w # 0) THEN Invalid(x)
    ELSE NamedType(import_string(x, h.objs[1]), h, type_n)
import_type(x, s, type_n) == TypeOf(x, struct_field(s), type_n)

\* the place of a word, not the tag it stands for, says which member it is
ProtocolWord(p, i, word, type_n) ==
    LET v == word \div 2 - 1
    IN  IF word % 2 = 1 \/ ~p.ok THEN p
        ELSE CASE i = 1 -> [p EXCEPT !.ok = v = -1, !.named = TRUE]
               [] i = 2 -> [p EXCEPT !.ok = v >= 0, !.tag = v]
               [] i = 3 -> [p EXCEPT !.ok = v \in 0 .. type_n - 1, !.request = v]
               [] i = 4 -> [p EXCEPT !.ok = v \in 0 .. type_n - 1, !.response = v]
               [] i = 5 -> [p EXCEPT !.confirm = v # 0]
               [] OTHER -> [p EXCEPT !.ok = FALSE]
AddProtocol(y, p) == [y EXCEPT !.protos = Append(@, [name |-> y.name, tag |-> p.tag, request |-> p.request,
                                                     response |-> p.response, confirm |-> p.confirm])]
NamedProtocol(x, h, p) ==
    IF ~p.ok \/ ~p.named \/ p.tag < 0 THEN Invalid(x) ELSE AddProtocol(import_string(x, h.objs[1]), p)
ProtocolOf(x, h, type_n) ==
    IF ~x.ok \/ ~h.ok THEN Invalid(x)
    ELSE NamedProtocol(x, h, FoldLeft(LAMBDA p, i : ProtocolWord(p, i, h.words[i], type_n),
                [ok |-> TRUE, named |-> FALSE, tag |-> -1, request |-> -1, response |-> -1, confirm |-> FALSE],
                [i \in DOMAIN h.words |-> i]))
import_protocol(x, s, type_n) == ProtocolOf(x, struct_field(s), type_n)

Import(x, ts, ps) ==
    FoldLeft(LAMBDA acc, p : import_protocol(acc, p, Len(ts)),
             FoldLeft(LAMBDA acc, t : import_type(acc, t, Len(ts)),
                      pool_alloc(pool_alloc(x, FieldSize * Len(ts)), FieldSize * Len(ps)), ts), ps)
BundleOf(x, h) ==
    IF ~h.ok THEN Invalid(x)
    ELSE IF Len(h.words) > 2 \/ (\E w \in ToSet(h.words) : w # 0) THEN Invalid(x)
    ELSE Import(x, IF Len(h.words) >= 1 THEN Elements(h.objs[1]) ELSE <<>>,
                IF Len(h.words) = 2 THEN Elements(h.objs[2]) ELSE <<>>)
create_from_bundle(x, s) == BundleOf(x, struct_field(s))

sproto_create(s) ==
    create_from_bundle(pool_alloc([ok |-> TRUE, chunks |-> <<>>, current |-> 0, used |-> 0, regions |-> <<>>,
                                   name |-> 0, f |-> <<>>, types |-> <<>>, protos |-> <<>>], FieldSize), s)

\* query_proto: by binary search
RECURSIVE Search(_, _, _, _)
Search(ps, tag, begin, end) ==
    LET mid == (begin + end) \div 2
        t == ps[mid + 1].tag
    IN  IF begin >= end THEN 0
        ELSE IF t = tag THEN mid + 1
        ELSE IF tag > t THEN Search(ps, tag, mid + 1, end) ELSE Search(ps, tag, begin, mid)

query_proto(x, tag) == Search(x.protos, tag, 0, Len(x.protos))
sproto_prototag(x, name) == (CHOOSE p \in ToSet(x.protos) : p.name = name).tag

-----------------------------------------------------------------------------

Init == stage = "schema" /\ schema \in Schemas /\ bundle = <<>> /\ sp = [ok |-> FALSE]

encodeall == stage = "schema" /\ stage' = "bundle" /\ bundle' = packgroup(schema) /\ UNCHANGED <<schema, sp>>
lnewproto == stage = "bundle" /\ stage' = "loaded" /\ sp' = sproto_create(bundle) /\ UNCHANGED <<schema, bundle>>

Next == encodeall \/ lnewproto
Spec == Init /\ [][Next]_schemaVars

-----------------------------------------------------------------------------
(* Properties.                                                             *)

Loaded(f) == IF f.buildin = 0 /\ f.extra > 0 THEN [f EXCEPT !.extra = 10 ^ @] ELSE f
Overlap(r, s) == r[1] = s[1] /\ r[2] < s[2] + s[3] /\ s[2] < r[2] + r[3]

\* What sproto_create finds in a bundle is the schema the parser wrote: every field
\* of every type with its skipped members, every protocol with its request, response
\* and confirm, each found again by tag; no two objects share memory of the pool and
\* none leaves its chunk.  An empty schema, two bytes, is not accepted.
SchemaLoaded ==
    stage = "loaded" =>
      IF schema.types = <<>> THEN ~sp.ok
      ELSE /\ sp.ok /\ sp.protos = schema.protos
           /\ Len(sp.types) = Len(schema.types)
           /\ \A k \in DOMAIN sp.types : /\ sp.types[k].name = schema.types[k].name
                                         /\ sp.types[k].f = [i \in DOMAIN schema.types[k].f |-> Loaded(schema.types[k].f[i])]
           /\ \A k \in DOMAIN sp.protos : query_proto(sp, sproto_prototag(sp, sp.protos[k].name)) = k
           /\ \A i, j \in DOMAIN sp.regions : i # j /\ sp.regions[i][3] > 0 /\ sp.regions[j][3] > 0
                                              => ~Overlap(sp.regions[i], sp.regions[j])
           /\ \A r \in ToSet(sp.regions) : r[2] + r[3] <= sp.chunks[r[1]]
=============================================================================
