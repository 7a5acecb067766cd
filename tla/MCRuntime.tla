----------------------------- MODULE MCRuntime -----------------------------
(***************************************************************************)
(* The encoders, matchers and tables services are written with, each by    *)
(* itself: a behaviour is one of one part, the parts share r1 to r5, and   *)
(* what a part does not use stays empty.  Most parts are functions that    *)
(* are tried on the inputs below, chosen at the limits of every branch     *)
(* (lengths, digits and nesting are scaled down with their constants); the *)
(* table and the collector of the interpreter are explored.                *)
(***************************************************************************)
EXTENDS Integers, Sequences, FiniteSets, SequencesExt, TLC

VARIABLES part, r1, r2, r3, r4, r5

runtimeVars == <<part, r1, r2, r3, r4, r5>>

None == -1
Nothing == [k \in {} |-> 0]

-----------------------------------------------------------------------------
(* skynet.pack: scalars at the limits of their sizes, arrays and strings   *)
(* at the limit of a cookie, tables with holes, with __pairs and nested to *)
(* the limit of the depth.                                                 *)
SeriInt(n) == [t |-> "int", v |-> n]
SeriStr(n) == [t |-> "str", s |-> [k \in 1 .. n |-> 1]]
SeriTab(m, l) == [t |-> "table", m |-> m, len |-> l, meta |-> FALSE]
SeriHoles ==
  {SeriTab({<<SeriInt(1), SeriStr(1)>>, <<SeriInt(3), SeriStr(2)>>}, l) : l \in {1, 3}}
SeriScalars ==
  {[t |-> "nil"], [t |-> "real", r |-> 5], [t |-> "ptr", p |-> 77], [t |-> "function"]}
    \cup {[t |-> "bool", b |-> b] : b \in BOOLEAN}
    \cup {SeriInt(n) : n \in {-129, -128, -1, 0, 1, 3, 4, 15, 16, 127, 128, 255, 256}}
    \cup {SeriStr(n) : n \in {0, 1, 3, 4, 15, 16}}
SeriMeta ==
  {[t |-> "table", m |-> {<<SeriInt(1), SeriStr(1)>>, <<SeriStr(2), SeriInt(4)>>},
    len |-> 1, meta |-> TRUE]}
SeriTables ==
  {SeriTab({<<SeriInt(k), SeriStr(1)>> : k \in 1 .. n}, n) : n \in 0 .. 4}
    \cup SeriHoles \cup SeriMeta
    \cup {SeriTab({<<SeriInt(5), x>>, <<SeriStr(1), [t |-> "real", r |-> 3]>>}, 0) :
            x \in SeriScalars \ {[t |-> "nil"]}}
SeriInputs ==
  {<<>>} \cup {<<x>> : x \in SeriScalars \cup SeriTables}
    \cup {<<SeriTab({<<SeriInt(1), x>>}, 1)>> : x \in SeriTables}
    \cup {<<SeriTab({<<SeriInt(1), SeriTab({<<SeriStr(0), x>>}, 0)>>}, 1)>> : x \in SeriTables}
    \cup {<<x, y>> : x \in SeriScalars \cup SeriMeta, y \in SeriScalars \cup SeriHoles}

SE == INSTANCE Seri WITH
        Base <- 4, BlockSize <- 3, MaxCookie <- 4, MaxDepth <- 2, Inputs <- SeriInputs,
        stage <- r1, input <- r2, wire <- r3, output <- r4

(* sproto: types with and without gaps between their tags, read by the     *)
(* same type and by one that lacks fields; byte strings with zeros in and  *)
(* across segments.                                                        *)
Fld(tag, type) ==
  [tag |-> tag, type |-> type, array |-> FALSE, st |-> 0, key |-> -1, map |-> FALSE]
Arr(f) == [f EXCEPT !.array = TRUE]
Ref(tag, st) == [Fld(tag, "struct") EXCEPT !.st = st]
ByKey(f, key, map) == [Arr(f) EXCEPT !.key = key, !.map = map]
SprotoType(fs) ==
  [f |-> fs, base |-> IF Last(fs).tag - fs[1].tag + 1 = Len(fs) THEN fs[1].tag ELSE -1,
   maxn |-> Len(fs) + Cardinality({k \in DOMAIN fs :
                        fs[k].tag > (IF k = 1 THEN -1 ELSE fs[k - 1].tag) + 1})]
SprotoTypes ==
  <<SprotoType(<<Fld(0, "integer"), Fld(1, "boolean"), Fld(2, "string")>>),
    SprotoType(<<Fld(1, "integer"), Fld(4, "boolean")>>),
    SprotoType(<<Arr(Fld(0, "integer")), Arr(Fld(2, "boolean")), Arr(Fld(3, "string")),
                 Fld(5, "double")>>),
    SprotoType(<<Ref(0, 1), Arr(Ref(1, 2)), ByKey(Ref(2, 1), 0, FALSE),
                 ByKey(Ref(4, 2), 1, TRUE)>>),
    SprotoType(<<Fld(1, "boolean"), Fld(2, "string"), Fld(3, "integer")>>),
    SprotoType(<<Ref(0, 5), Arr(Ref(1, 2))>>),
    SprotoType(<<Arr(Fld(2, "boolean")), Fld(7, "integer")>>)>>
Opt(t, S) == {Nothing} \cup {t :> x : x \in S}
Both(A, B) == {a @@ b : a \in A, b \in B}
Of1(S) == Both(Both(Opt(0, S), Opt(1, {TRUE})), Opt(2, {<<>>, <<1>>}))
Of2 == Both(Opt(1, {3, -2}), Opt(4, {TRUE}))
Of3 ==
  Both(Opt(0, {<<>>, <<1>>, <<-1, 2>>, <<-1, 300>>, <<300, -1>>, <<1, -300, 2>>,
               <<-128, 1, 2, 200>>}),
       Opt(2, {<<>>, <<TRUE, FALSE>>}))
    \cup Both(Opt(3, {<<>>, <<<<1>>, <<>>>>, <<<<>>>>}), Opt(5, {9}))
Of4 ==
  Both(Opt(0, Of1({200})),
       Opt(1, {<<>>, <<4 :> TRUE>>} \cup {<<x, y>> : x \in Of2, y \in {1 :> 3, 4 :> TRUE}}))
    \cup Both(Opt(2, {Nothing, 3 :> (0 :> 3),
                      (1 :> ((0 :> 1) @@ (2 :> <<3>>))) @@ (200 :> ((0 :> 200) @@ (1 :> FALSE)))}),
              Opt(4, {Nothing, 5 :> TRUE, (1 :> TRUE) @@ (2 :> FALSE)}))
SprotoMessages ==
  {<<1, to, v>> : to \in {1, 5}, v \in Of1({0, 1, 6, 7, 127, 128, -128, -129, -1})}
    \cup {<<2, 2, v>> : v \in Of2}
    \cup {<<3, to, v>> : to \in {3, 7}, v \in Of3} \cup {<<4, to, v>> : to \in {4, 6}, v \in Of4}
SprotoSources ==
  UNION {[1 .. n -> {0, 1}] : n \in 0 .. 9}
    \cup {[k \in 1 .. n |-> IF k \in z THEN 0 ELSE 1] :
            n \in {12, 15, 17}, z \in SUBSET {1, 6, 7, 11, 12, 13}}

SP == INSTANCE Sproto WITH
        Base <- 4, BufferSize <- 4, Seg <- 4, MaxRun <- 2, OutSize <- 6,
        Types <- SprotoTypes, Messages <- SprotoMessages, Sources <- SprotoSources,
        stage <- r1, msg <- r2, wire <- r3, output <- r4

(* A schema: two types with every kind of field, and up to two protocols.  *)
SchField(tag) ==
  [name |-> 1, buildin |-> -1, ref |-> -1, tag |-> tag, array |-> FALSE, key |-> -1,
   map |-> FALSE, extra |-> 0]
SchFields(tag) ==
  {[SchField(tag) EXCEPT !.buildin = b, !.extra = e] : b \in {0, 2}, e \in 0 .. 2}
    \cup {[SchField(tag) EXCEPT !.buildin = 1]}
    \cup {[SchField(tag) EXCEPT !.ref = 0, !.array = a] : a \in BOOLEAN}
    \cup {[SchField(tag) EXCEPT !.ref = 0, !.array = TRUE, !.key = 1, !.map = m] : m \in BOOLEAN}
SchTypes ==
  {[name |-> 2, f |-> <<>>]} \cup {[name |-> 3, f |-> <<f>>] : f \in SchFields(0)}
    \cup {[name |-> 3, f |-> <<f, e>>] : f \in SchFields(1),
            e \in {[SchField(2) EXCEPT !.buildin = 3, !.array = TRUE], [SchField(5) EXCEPT !.ref = 1]}}
SchProtos(n, tag) ==
  {p \in [name : {n}, tag : {tag}, request : {-1, 0}, response : {-1, 1}, confirm : BOOLEAN] :
     ~(p.confirm /\ p.response >= 0)}
SchOther == [name |-> 2, tag |-> 3, request |-> 1, response |-> -1, confirm |-> FALSE]
SchSchemas ==
  {[types |-> <<>>, protos |-> <<>>]}
    \cup {[types |-> <<a, b>>, protos |-> p] : a \in SchTypes,
            b \in {[name |-> 2, f |-> <<>>],
                   [name |-> 3, f |-> <<[SchField(0) EXCEPT !.buildin = 1],
                                        [SchField(2) EXCEPT !.buildin = 0]>>]},
            p \in {<<>>} \cup {<<q>> : q \in SchProtos(1, 1)}
                    \cup {<<q, SchOther>> : q \in SchProtos(1, 0)}}

SC == INSTANCE SprotoSchema WITH
        Base <- 8, ChunkSize <- 12, FieldSize <- 3, Schemas <- SchSchemas,
        stage <- r1, schema <- r2, bundle <- r3, sp <- r4

-----------------------------------------------------------------------------
(* bson: numbers at the limits of 32 and 64 bits, every special type,      *)
(* strings at the limits of UTF-8, tables that are almost arrays.  B gives *)
(* the inputs their constructors.                                          *)
B == INSTANCE Bson WITH
       Base <- 6, DefaultCap <- 8, MaxDepth <- 2, Milli <- 100, Inputs <- {},
       stage <- r1, input <- r2, wire <- r3, output <- r4
H4 == 6 ^ 4 \div 2
H8 == 6 ^ 8 \div 2
BsonStr(n) == B!Str([k \in 1 .. n |-> 65])
BsonTab(items, len, meta) == [t |-> "table", items |-> items, len |-> len, meta |-> meta]
BsonArr(n) == BsonTab([k \in 1 .. n |-> <<B!Int64(k), BsonStr(k % 3)>>], n, "none")
BsonDoc(x, y) == BsonTab(<<<<BsonStr(1), x>>, <<BsonStr(2), y>>>>, 0, "none")
BsonHex == [k \in 1 .. 24 |-> IF k % 2 = 1 THEN 97 + (k % 6) ELSE 48 + (k % 10)]
BsonScalars ==
  {B!Int64(n) : n \in {-H8, -H4 - 1, -H4, -1, 0, 5, H4 - 1, H4, H8 - 1}}
    \cup {[t |-> "real", r |-> 77], [t |-> "bool", b |-> TRUE], [t |-> "bool", b |-> FALSE]}
    \cup {B!ldate(d) : d \in {-H4, -1, 0, H4 - 1}}
    \cup {B!lint64(3), B!lint64(-9999), B!ltimestamp(2 * H4 - 1, H4 + 3),
          B!lregex(<<65, 66>>, <<67>>), B!lregex(<<>>, <<>>), B!lbinary(<<>>),
          B!lbinary(<<0, 7, 0>>), B!lobjectid(BsonHex), B!make_object(B!NULL, <<>>),
          B!make_object(B!MINKEY, <<>>), B!make_object(B!MAXKEY, <<>>),
          B!make_object(B!JSCODE, <<2, 0, 0, 0, 9, 0>>),
          B!make_object(B!CODEWS, B!Digits(7, 4) \o <<9, 0, 0>>),
          B!make_object(B!DBPOINTER, <<1, 0, 0, 0, 5>> \o [k \in 1 .. 12 |-> k]),
          B!make_object(99, <<>>), B!make_object(B!DATE, <<1>>), [t |-> "function"]}
    \cup {BsonStr(n) : n \in 0 .. 2} \cup {B!Str(<<0>>)}
(* What the code does not keep: a binary without subtype, regular           *)
(* expressions without an end and with a zero byte, code of other lengths. *)
BsonOdd ==
  {B!make_object(B!BINARY, <<>>), B!make_object(B!REGEX, <<>>),
   B!make_object(B!REGEX, <<65, 0>>), B!lregex(<<1, 0, 2>>, <<3>>),
   B!make_object(B!JSCODE, <<>>), B!make_object(B!SYMBOL, <<5, 0, 0, 0, 1, 0>>)}
BsonUtf8 ==
  {B!Str(s) : s \in
     {<<194, 128>>, <<193, 191>>, <<223, 191, 65>>, <<224, 160, 128>>, <<224, 159, 191>>,
      <<239, 191, 191>>, <<240, 144, 128, 128>>, <<240, 143, 191, 191>>, <<244, 143, 191, 191>>,
      <<244, 144, 128, 128>>, <<248, 136, 128, 128, 128>>, <<128>>, <<194>>, <<194, 65>>,
      <<255, 191>>}}
BsonPair(a, b) == <<<<a, BsonStr(1)>>, <<b, BsonStr(2)>>>>
BsonHoles ==
  {BsonTab(BsonPair(B!Int64(1), B!Int64(3)), l, m) : l \in {1, 3}, m \in {"none", "len"}}
    \cup {BsonTab(BsonPair(B!Int64(3), B!Int64(1)), l, "none") : l \in {1, 3}}
    \cup {BsonTab(BsonPair(B!Int64(2), B!Int64(1)), 2, "none")}
    \cup {BsonTab(BsonPair(B!Int64(1), BsonStr(1)), 1, m) : m \in {"none", "pairs", "len"}}
BsonTables ==
  BsonHoles \cup {BsonArr(n) : n \in {0, 1, 11}}
    \cup {BsonTab(<<<<BsonStr(1), x>>, <<BsonStr(2), BsonStr(3)>>>>, 0, "pairs") : x \in BsonScalars}
    \cup {[t |-> "raw", bytes |-> B!lencode(BsonDoc(BsonStr(2), B!Int64(1))).s]}
BsonAll ==
  BsonScalars \cup BsonOdd \cup BsonUtf8 \cup BsonTables
    \cup {BsonTab(<<<<B!Int64(1), x>>>>, 1, "none") : x \in BsonTables}
    \cup {BsonDoc(x, x) : x \in BsonHoles}
BsonNew ==
  {B!Int64(5), B!Int64(2 * H4 + 9), [t |-> "real", r |-> 3], B!Nil, [t |-> "bool", b |-> TRUE],
   B!ldate(9), B!ltimestamp(1, 2), B!lobjectid([BsonHex EXCEPT ![1] = 49]), BsonStr(2),
   B!Str(<<50, 49>>)}
BsonJob(doc, order, key, val) == [doc |-> doc, order |-> order, key |-> key, val |-> val]
BsonInputs ==
  {BsonJob(BsonDoc(x, y), o, B!Nil, B!Nil) :
     x \in BsonAll, y \in {B!Int64(7), BsonStr(1)}, o \in BOOLEAN}
    \cup {BsonJob(BsonTab(<<<<B!Str(<<1, 0, 2>>), x>>, <<BsonStr(2), y>>>>, 0, "none"), o,
                  B!Nil, B!Nil) :
            x \in BsonScalars, y \in {B!Int64(7), BsonStr(1)}, o \in BOOLEAN}
    \cup {BsonJob(BsonDoc(x, y), FALSE, BsonStr(2), v) : y \in BsonScalars, v \in BsonNew,
            x \in {BsonStr(2), B!lbinary(<<7>>), B!lregex(<<65>>, <<66>>), B!ltimestamp(1, 2),
                   BsonArr(1), B!make_object(B!BINARY, <<>>)}}
    \cup {BsonJob(BsonDoc(x, B!Int64(1)), FALSE, BsonStr(1), v) : x \in BsonScalars, v \in BsonNew}

BS == INSTANCE Bson WITH
        Base <- 6, DefaultCap <- 8, MaxDepth <- 2, Milli <- 100, Inputs <- BsonInputs,
        stage <- r1, input <- r2, wire <- r3, output <- r4

(* The messages of the mongo driver: names longer than the first buffer.   *)
MO == INSTANCE Mongo WITH
        DefaultCap <- 8, NameLens <- {0, 3, 70}, DocLens <- {5, 9}, MaxDocs <- 2,
        ReplySizes <- {0, 3, 4, 5, 8, 9, 10, 11}, ReadLens <- {-1, 0, 3, 5, 9},
        req <- r1, out <- r2

(* Texts about one block and two, that end in each padding byte; exchanges *)
(* of numbers around the prime.                                            *)
CryptTexts ==
  {[k \in 1 .. n |-> IF k = n THEN e ELSE (37 * k) % 256] :
     n \in {0, 1, 2, 3, 7, 8, 9, 15, 16}, e \in {0, 1, 8, 128, 255}}
CryptCalls ==
  {[op |-> "des", key |-> <<1, 35, 69, 103, 137, 171, 205, 239>>, text |-> t, mode |-> m] :
     t \in CryptTexts, m \in {"iso7816_4", "pkcs7"}}
    \cup {[op |-> o, key |-> <<9, 200>>, text |-> t] : o \in {"hex", "base64", "xor"}, t \in CryptTexts}
    \cup {[op |-> "dh", a |-> a, b |-> b] : a \in {1, 2, 3, 100, 249, 250, 251, 252, 255},
                                            b \in {1, 2, 77, 128, 250, 251, 255}}
    \cup {[op |-> "random", text |-> [k \in 1 .. 8 |-> x * k + y]] :
            <<x, y>> \in {<<0, 0>>, <<0, 3>>, <<1, 0>>}}

CR == INSTANCE Crypt WITH
        W <- 8, P <- 251, CryptCalls <- CryptCalls,
        stage <- r1, input <- r2, wire <- r3, output <- r4

(* string.pack: integers that fit and that do not, alignments, strings.    *)
PkO(o) == [o |-> o, n |-> None]
PkN(o, n) == [o |-> o, n |-> n]
PkOrder == {PkO("<"), PkO(">")}
PkInts ==
  {PkO(o) : o \in {"b", "B", "h", "H", "j", "J", "I"}}
    \cup {PkN("i", n) : n \in 3 .. 5} \cup {PkN("I", n) : n \in 3 .. 4}
PkJobs ==
  {[fmt |-> <<e, f>>, args |-> <<n>>] : e \in PkOrder, f \in PkInts,
                                        n \in {-9, -32, -1, 0, 3, 4, 31}}
    \cup {[fmt |-> <<e, PkN("!", a), f, h>>, args |-> <<n, s>>] :
            e \in PkOrder, a \in {2, 4}, f \in {PkO("b"), PkO("H"), PkO("j")}, n \in {-1, 2},
            h \in {PkN("s", 1), PkO("s"), PkO("z"), PkN("c", 3)},
            s \in {<<>>, <<1, 2, 3>>, <<1, 0>>, <<1, 1, 1, 1>>}}
    \cup {[fmt |-> <<PkN("!", a), PkO("x"), p, f, PkO("x"), e, f>>, args |-> <<v, v>>] :
            e \in PkOrder, a \in {2, 4}, p \in {PkO(" "), PkO("x"), PkN("!", 4)},
            f \in {PkO("f"), PkO("d")}, v \in {<<0, 0, 1>>, <<1, 2, 3>>}}
    \cup {[fmt |-> <<PkN("!", 2), f, PkO("X"), e, h>>, args |-> <<1, 2>>] :
            f \in PkInts, e \in {PkO("h"), PkO("j"), PkO("z"), PkN("c", 2)},
            h \in {PkO("B"), PkO("c"), PkO("x")}}

PK == INSTANCE LuaPack WITH
        Jobs <- PkJobs, Byte <- 4, SZINT <- 3, MAXINTSIZE <- 4, MAXALIGN <- 2,
        SizeofInt <- 2, SizeofShort <- 2, SizeofFloat <- 2,
        call <- r1, data <- r2, got <- r3

-----------------------------------------------------------------------------
(* Tables of sharedata: up to four keys, in every order a table may give.  *)
SdtKeys ==
  {[i |-> n] : n \in {-1, 1, 2, 3}} \cup {[s |-> s] : s \in {<<>>, <<97>>, <<98>>, <<97, 98>>}}
SdtValue(n) ==
  CASE n = 1 -> [s |-> <<97>>]
    [] n = 2 -> [d |-> 7]
    [] n = 3 -> [t |-> [pairs |-> <<<<[s |-> <<97>>], [b |-> TRUE]>>, <<[i |-> 1], [s |-> <<98>>]>>>>,
                        border |-> 1]]
    [] OTHER -> [b |-> FALSE]
SdtBorders(q) ==
  LET I == {q[n].i : n \in {m \in DOMAIN q : "i" \in DOMAIN q[m]}}
  IN  {b \in 0 .. 3 : (b = 0 \/ b \in I) /\ b + 1 \notin I}
SdtInputs ==
  UNION {{[pairs |-> [n \in DOMAIN q |-> <<q[n], SdtValue(n)>>], border |-> b] : b \in SdtBorders(q)} :
           q \in {p \in UNION {[1 .. n -> SdtKeys] : n \in 0 .. 4} : IsInjective(p)}}

SD == INSTANCE SharedataTable WITH
        Word <- 256, Inputs <- SdtInputs, Keys <- SdtKeys,
        stage <- r1, input <- r2, conf <- r3, seen <- r4

(* A datasheet that goes through three versions: tables that stay, become  *)
(* scalars, go and come back.                                              *)
Tb(a, d) == [arr |-> a, dict |-> d]
In(n) == [i |-> n]
St(s) == [s |-> s]
Sheet1 ==
  Tb(<<In(1), Tb(<<St("x")>>, <<>>)>>,
     [a |-> Tb(<<>>, [c |-> In(5), d |-> St("x")]), b |-> [b |-> TRUE]])
Sheet2 ==
  Tb(<<Tb(<<In(7)>>, <<>>), Tb(<<St("y"), In(2)>>, <<>>)>>,
     [a |-> In(3), e |-> Tb(<<>>, [c |-> In(6)])])
Sheet3 ==
  Tb(<<In(1), In(4), Tb(<<>>, <<>>)>>, [a |-> Tb(<<>>, [c |-> Tb(<<St("z")>>, <<>>)])])

DS == INSTANCE Datasheet WITH
        Sheets <- {<<x, y, z>> : x, y, z \in {Sheet1, Sheet2, Sheet3}}, MaxProxy <- 6,
        sheet <- r1, version <- r2, docs <- r3, proxies <- r4, nodes <- r5

(* A Lua table of five keys, two of which share a main position.           *)
TB == INSTANCE LuaTable WITH
        Keys <- {[i |-> 1], [i |-> 2], [i |-> 3], [p |-> 1], [p |-> 4]}, Values <- {1},
        ListSizes <- {2, 5}, MaxInteger <- 3, MaxASize <- 8,
        t <- r1, m <- r2, trav <- r3, len <- r4

(* The collector: one object of each type and what programs do with them,  *)
(* with a step of the collector, a full collection or a change of mode     *)
(* between any two.                                                        *)
GcType ==
  <<"table", "table", "ephemeron", "weakv", "allweak", "closure", "udata", "string", "thread",
    "thread", "table">>
GcScripts ==
  {<<"table", "mode", "table", "set", "pop", "get", "pop">>,
   <<"ephemeron", "table", "setgc", "set", "pop", "full">>,
   <<"ephemeron", "string", "set", "pop", "mode", "clear", "full">>,
   <<"weakv", "table", "set", "setgc", "pop", "get">>,
   <<"allweak", "shared", "set", "pop", "full">>,
   <<"closure", "mode", "table", "set", "pop", "get">>,
   <<"udata", "mode", "setgc", "mode", "full">>,
   <<"thread", "table", "set", "pop", "get", "set">>,
   <<"table", "setmt", "pop", "table", "setmt", "pop">>}

GC == INSTANCE LuaGC WITH
        Objs <- (1 .. 10) \ {9}, Shared <- {11}, Main <- 9, Type <- GcType, MaxFin <- 1,
        Scripts <- GcScripts, g <- r1, op <- r2

-----------------------------------------------------------------------------
(* lpeg: two leaves, an operator on them, another on the result and a      *)
(* combination with the first; grammars with tail calls, left recursion,   *)
(* loops that may be empty and a rule that is missing; every capture.  A   *)
(* statement names the patterns it combines by their place.                *)
Pt1(op, a) == [op |-> op, a |-> a]
Pt2(op, a, b) == [op |-> op, a |-> a, b |-> b]
PtStr(s) == [op |-> "str", s |-> s]
PtNum(n) == [op |-> "num", n |-> n]
PtStar(a, n) == [op |-> "star", a |-> a, n |-> n]
Lab(v) == [v |-> v]
PtV(v) == [op |-> "V", v |-> Lab(v)]
PtLab(op, a, v) == [op |-> op, a |-> a, v |-> Lab(v)]
PtDiv(a, kind, v) == [op |-> "div", a |-> a, kind |-> kind, v |-> v]
PtConst(vs) == [op |-> "const", vs |-> vs]
PtPos == [op |-> "position"]
PtBack(v) == [op |-> "backref", v |-> Lab(v)]
PtGram(rs) == [op |-> "grammar", rules |-> rs]
Rule(n, a) == [key |-> Lab(n), a |-> a]
LpegSmall ==
  {<<l, m, o, u, Pt2(op, 4, 1)>> :
     l \in {PtStr(<<1>>), PtStr(<<1, 2>>), PtNum(1), PtNum(-1), PtNum(0),
            [op |-> "set", cs |-> {1, 2}], [op |-> "bool", bool |-> FALSE]},
     m \in {PtStr(<<2>>), PtNum(1)},
     o \in {Pt2(b, 1, 2) : b \in {"seq", "choice", "sub"}},
     u \in {PtStar(3, n) : n \in {0, 1, -2}}
             \cup {Pt1(b, 3) : b \in {"and", "not", "simple", "behind"}},
     op \in {"seq", "choice"}}
LpegGrammars ==
  {<<PtV("S"), PtStr(<<1>>), PtStr(<<2>>), Pt2("seq", 2, 1), Pt2("seq", 4, 3), PtNum(0),
     Pt2("choice", 5, 6), PtGram(<<Rule("S", 7)>>)>>,
   <<PtStr(<<1>>), Pt1("simple", 1), PtV("S"), Pt2("seq", 2, 3), PtStr(<<2>>), PtV("T"),
     Pt2("seq", 5, 6), Pt2("choice", 4, 7), PtPos, Pt2("seq", 9, 3), Pt2("choice", 10, 9),
     PtGram(<<Rule("S", 8), Rule("T", 11)>>), Pt2("seq", 12, 12)>>,
   <<PtV("S"), PtStr(<<1>>), Pt2("seq", 1, 2), PtGram(<<Rule("S", 3)>>)>>,
   <<PtV("T"), PtStar(1, 0), PtStr(<<1>>), PtStar(3, 0), PtGram(<<Rule("S", 2), Rule("T", 4)>>)>>,
   <<PtV("U"), PtGram(<<Rule("S", 1)>>)>>,
   <<PtStr(<<1>>), PtV("S"), Pt2("seq", 1, 2), PtStr(<<2>>), Pt2("choice", 3, 4),
     PtGram(<<Rule("S", 5)>>), Pt1("and", 6), Pt2("seq", 7, 6), PtV("S"), Pt2("choice", 8, 9)>>}
LpegCaptures ==
  {\* Ct(Cg(C 1, "x") * C 1 * Cb "x")
   <<PtNum(1), Pt1("simple", 1), PtLab("group", 2, "x"), Pt2("seq", 3, 2), PtBack("x"),
     Pt2("seq", 4, 5), Pt1("table", 6)>>,
   \* Cs((a / "%0c" + b / f + 1)^0)
   <<PtStr(<<1>>), PtDiv(1, "string", [fmt |-> <<0, 13>>]), PtStr(<<2>>),
     PtDiv(3, "function", Lab("none")), Pt2("choice", 2, 4), PtNum(1), Pt2("choice", 5, 6),
     PtStar(7, 0), Pt1("subst", 8)>>,
   \* (C 1 * Cp) / "%2c%1%0"
   <<PtNum(1), Pt1("simple", 1), PtPos, Pt2("seq", 2, 3),
     PtDiv(4, "string", [fmt |-> <<2, 11, 1, 0>>])>>,
   \* Cf(Cc(x, nil, y) * C(1)^0, f)
   <<PtConst(<<Lab("x"), Lab("nil"), Lab("y")>>), PtNum(1), Pt1("simple", 2), PtStar(3, 0),
     Pt2("seq", 1, 4), PtLab("fold", 5, "f")>>,
   \* (C 1 * Cc x) by number, by query and by function, and Carg
   <<PtNum(1), Pt1("simple", 1), PtConst(<<Lab("x")>>), Pt2("seq", 2, 3),
     PtDiv(4, "num", [n |-> 2]), PtDiv(4, "num", [n |-> 0]), PtDiv(4, "query", Lab("q")),
     PtDiv(4, "function", Lab("both")), Pt2("seq", 5, 6), Pt2("seq", 9, 7), Pt2("seq", 10, 8),
     [op |-> "arg", n |-> 1], Pt2("seq", 11, 12), PtDiv(3, "query", Lab("r")), Pt2("seq", 13, 14)>>,
   \* match-time captures
   <<PtNum(1), Pt1("simple", 1), PtLab("matchtime", 2, "first"), PtLab("matchtime", 3, "vals"),
     PtStr(<<2>>), Pt2("seq", 4, 5), Pt2("choice", 6, 3), Pt1("subst", 7)>>,
   <<PtNum(1), PtLab("matchtime", 1, "skip"), PtStr(<<2>>), Pt2("seq", 2, 3),
     PtLab("matchtime", 1, "keep"), Pt2("choice", 4, 5), PtLab("matchtime", 6, "back"),
     [op |-> "fun", v |-> Lab("fail")], Pt2("choice", 8, 6), Pt1("not", 7), Pt2("choice", 10, 9)>>,
   <<PtNum(1), PtLab("matchtime", 1, "first"), Pt1("subst", 2)>>,
   \* an and-predicate over a match-time capture, before and after others, and a failure
   <<PtNum(1), PtLab("matchtime", 1, "first"), Pt1("and", 2), Pt2("seq", 3, 2), Pt2("seq", 2, 4),
     PtStr(<<3>>), Pt2("seq", 5, 6), Pt2("choice", 7, 5), Pt2("choice", 8, 4), Pt1("subst", 9)>>,
   \* nested groups and references to them
   <<PtNum(1), Pt1("simple", 1), PtLab("group", 2, "x"), Pt1("simple", 3), PtLab("group", 4, "y"),
     PtBack("x"), PtBack("y"), Pt2("seq", 3, 5), Pt2("seq", 8, 6), Pt2("seq", 9, 7),
     Pt1("table", 10), PtLab("group", 10, "nil"), Pt2("seq", 5, 6)>>,
   \* captures in choices and repetitions that backtrack
   <<PtStr(<<1>>), Pt1("simple", 1), PtStr(<<2>>), Pt2("seq", 2, 3), Pt2("choice", 4, 2),
     PtStar(5, 0), PtStar(5, -1), Pt1("simple", 6), Pt2("sub", 8, 4), Pt2("seq", 7, 6),
     [op |-> "range", lo |-> 2, hi |-> 3], Pt2("choice", 10, 11)>>}

LP == INSTANCE LpegMatch WITH
        Chars <- 1 .. 3, MaxOff <- 2, MaxBehind <- 2, MaxRules <- 3, MaxKeys <- 6, ShrtMax <- 3,
        UCharMax <- 2, MaxStack <- 9, InitCap <- 3, MaxStrCaps <- 3, MaxSteps <- 120,
        Args <- <<Lab("extra")>>, Programs <- LpegSmall \cup LpegGrammars \cup LpegCaptures,
        Subjects <- {<<>>, <<1>>, <<1, 2>>, <<1, 1, 2, 2>>, <<2, 1, 3>>},
        Positions <- {1, -2}, Probes <- {7, 10}, prog <- r1, pats <- r2, vm <- r3

(* Patterns of the string library, and what they refuse.                   *)
It(k, c, q) == [k |-> k, c |-> c, q |-> q]
PatA == It("char", <<"a">>, "")
PatB == It("char", <<"b">>, "")
Open == It("(", <<>>, "")
Close == It(")", <<>>, "")
Back1 == It("back", <<"1">>, "")
PatEnd == It("$", <<>>, "")
PatPatterns ==
  {<<>>, <<PatA>>, <<PatA, PatB>>,
   <<Open, It("char", <<"a">>, "*"), Close, It("any", <<>>, "-"), Back1>>,
   <<Open, It("any", <<>>, "*"), Close, Open, It("class", <<"a">>, "+"), Close, PatEnd>>,
   <<Open, Open, It("char", <<"a">>, "?"), Close, It("set", <<"^", "a">>, "+"), Close, PatA>>,
   <<It("balance", <<"a", "b">>, ""), Open, Close, It("set", <<"a", "-", "b">>, "-")>>,
   <<It("frontier", <<"a", "b">>, ""), Open, It("set", <<"%", "a">>, "*"), Close>>,
   <<Open, It("class", <<"d">>, "?"), Close, It("set", <<"%", "d", "b">>, "*"), PatA>>,
   <<Open, Open, It("any", <<>>, "-"), Close, PatB, Close, PatA>>,
   <<Open, It("char", <<"a">>, "?"), Close, It("any", <<>>, "?"), Back1, PatEnd>>}
PatRepls ==
  {[t |-> "string", v |-> s] : s \in {<<"%", "0">>, <<"c", "%", "%", "%", "1">>, <<"%", "2">>}}
    \cup {[t |-> "table", v |-> <<"a">> :> <<"c">>], [t |-> "function", v |-> <<>>]}

PA == INSTANCE LuaPattern WITH
        Subjects <- {<<>>, <<"a">>, <<"a", "b", "a">>, <<"a", "a", "b", "b", "1">>,
                     <<"b", "a", "1", "a", "1", "a">>},
        Patterns <- PatPatterns,
        Malformed <- {<<"(", "a">>, <<"a", ")">>, <<"%">>, <<"[", "a">>, <<"[", "%">>,
                      <<"%", "b", "a">>, <<"%", "f", "a">>, <<"%", "1">>,
                      <<"(", "(", "(", "a", ")", ")", ")">>},
        Repls <- PatRepls,
        Code <- [c \in {"^", "[", "]", "%", "-"} |-> 2]
                  @@ "" :> 0 @@ "1" :> 1 @@ "a" :> 3 @@ "b" :> 4 @@ "c" :> 5,
        Alpha <- {"a", "b", "c"}, Digit <- {"1"}, LUA_MAXCAPTURES <- 2, MAXCCALLS <- 6,
        job <- r1, gm <- r2, got <- r3, out <- r4

-----------------------------------------------------------------------------
Empty5 == r5 = <<>>
Empty4 == r4 = <<>> /\ Empty5
Empty3 == r3 = <<>> /\ Empty4

RuntimeInit ==
  \/ part = "seri"      /\ SE!Init /\ Empty5
  \/ part = "sproto"    /\ SP!Init /\ Empty5
  \/ part = "schema"    /\ SC!Init /\ Empty5
  \/ part = "bson"      /\ BS!Init /\ Empty5
  \/ part = "mongo"     /\ MO!MongoInit /\ Empty3
  \/ part = "crypt"     /\ CR!Init /\ Empty5
  \/ part = "pack"      /\ PK!PackInit /\ Empty4
  \/ part = "sharedata" /\ SD!Init /\ Empty5
  \/ part = "sheet"     /\ DS!SheetInit
  \/ part = "table"     /\ TB!Init /\ Empty5
  \/ part = "gc"        /\ GC!GcInit /\ Empty3
  \/ part = "lpeg"      /\ LP!LpegInit /\ Empty4
  \/ part = "pattern"   /\ PA!PatInit /\ Empty5

(* A step of a part that does not use rest.                                *)
Alone(p, rest) == part = p /\ UNCHANGED <<part, rest>>

RuntimeNext ==
  \/ Alone("seri", r5)              /\ SE!Next
  \/ Alone("sproto", r5)            /\ SP!Next
  \/ Alone("schema", r5)            /\ SC!Next
  \/ Alone("bson", r5)              /\ BS!Next
  \/ Alone("mongo", <<r3, r4, r5>>) /\ MO!MongoNext
  \/ Alone("crypt", r5)             /\ CR!Next
  \/ Alone("pack", <<r4, r5>>)      /\ PK!PackNext
  \/ Alone("sharedata", r5)         /\ SD!Next
  \/ Alone("sheet", <<>>)           /\ DS!SheetNext
  \/ Alone("table", r5)             /\ TB!Next
  \/ Alone("gc", <<r3, r4, r5>>)    /\ GC!GcNext
  \/ Alone("lpeg", <<r4, r5>>)      /\ LP!LpegNext
  \/ Alone("pattern", r5)           /\ PA!PatNext

RuntimeSpec == RuntimeInit /\ [][RuntimeNext]_runtimeVars

-----------------------------------------------------------------------------
(* What is written is read back: lua_seri, sproto with its packing and     *)
(* with a buffer that had to grow, bson, the ciphers and encodings of      *)
(* lcrypt, string.pack and the messages of the mongo driver; the two sides *)
(* of a key exchange get the same secret.  The bson values that are not    *)
(* read back are named in Bson (Kept), and are tried too.                  *)
RoundTrips ==
  /\ part = "seri" => SE!SeriRoundTrip
  /\ part = "sproto" => SP!SprotoRoundTrip /\ SP!SprotoBuffer /\ SP!PackRoundTrip
  /\ part = "bson" => BS!BsonRoundTrip
  /\ part = "mongo" => MO!MongoMessages
  /\ part = "crypt" => CR!DecodesBack /\ CR!SecretsAgree
  /\ part = "pack" => PK!PackedIsRead

(* A table that was rehashed, copied, compiled or changed in place is the  *)
(* one the program means: sproto schemas, sharedata's copy, the proxies of *)
(* a datasheet after an update, a bson document with a value replaced, and *)
(* the interpreter's own tables, length included.                          *)
TablesKept ==
  /\ part = "schema" => SC!SchemaLoaded
  /\ part = "sharedata" => SD!SharedTableSame
  /\ part = "sheet" => DS!SheetCurrent
  /\ part = "bson" => BS!ReplacesOne
  /\ part = "table" => TB!TableIsMap /\ TB!LengthIsBoundary

(* The collector frees nothing a program can reach and keeps its lists     *)
(* whole, whatever the program does between its steps, and a finalizer     *)
(* runs once for each time it was set.                                     *)
HeapSafe == part = "gc" => GC!GcSafe /\ GC!FinalizedOnce

(* The machines that match patterns, optimizations, backtracking and       *)
(* limits included, agree with what the patterns mean; the two exceptions  *)
(* of lpeg are named with its properties.                                  *)
MatchersAgree ==
  /\ part = "lpeg" => LP!MatchIsReference /\ LP!MachineAsserts
  /\ part = "pattern" => PA!MatchesPreferred

(* A traversal that clears fields meets every key once; a collection takes *)
(* only garbage, and a full one takes it all.                              *)
RuntimeSteps ==
  [][/\ part = "table" => TB!TraversalComplete
     /\ part = "gc" => GC!OnlyGarbageTaken /\ GC!FullGcComplete]_runtimeVars
=============================================================================
