-------------------------------- MODULE Seri --------------------------------
(***************************************************************************)
(* lualib-src/lua-seri.c: the serialisation of the arguments of Lua        *)
(* messages, skynet.pack and skynet.unpack.                                *)
(*                                                                         *)
(* A stream is a sequence of type bytes <<type, cookie>> and digits: the   *)
(* widths of the numbers are those of the code, in digits to base Base     *)
(* instead of 256.  A table is its pairs and the border lua_rawlen found,  *)
(* any border when the table has holes.                                    *)
(***************************************************************************)
EXTENDS Integers, Sequences, SequencesExt, FiniteSets

CONSTANTS Base,         \* values of a byte: 256
          BlockSize,    \* BLOCK_SIZE
          MaxCookie,    \* MAX_COOKIE
          MaxDepth,     \* MAX_DEPTH
          Inputs        \* sequences of values to pack

VARIABLES stage, input, wire, output

seriVars == <<stage, input, wire, output>>

Nil == [t |-> "nil"]
Keys(v) == {p[1] : p \in v.m}
Num(n) == [t |-> "int", v |-> n]

\* the borders lua_rawlen may return
Borders(m) ==
    LET has(n) == \E p \in m : p[1] = Num(n)
    IN  {n \in 0 .. Cardinality(m) + 1 : (n = 0 \/ has(n)) /\ ~has(n + 1)}

-----------------------------------------------------------------------------
(* Writing: a list of blocks, the last one current.                        *)

wb_init == [blocks |-> <<<<>>>>, len |-> 0, err |-> "no"]

RECURSIVE wb_push(_, _)
wb_push(b, s) ==
    LET n == Len(b.blocks)
        room == BlockSize - Len(b.blocks[n])
    IN  IF Len(s) <= room THEN [b EXCEPT !.blocks[n] = @ \o s, !.len = @ + Len(s)]
        ELSE wb_push([b EXCEPT !.blocks = Append([@ EXCEPT ![n] = @ \o SubSeq(s, 1, room)], <<>>), !.len = @ + room],
                     SubSeq(s, room + 1, Len(s)))

\* on an error the blocks are freed, all but the first, which is on the stack
wb_free(b, err) == [blocks |-> <<<<>>>>, len |-> 0, err |-> err]

\* a number of n bytes, low byte first, two's complement
Digits(v, n) == [k \in 1 .. n |-> (v \div Base ^ (k - 1)) % Base]
Unsigned(s) == FoldLeft(LAMBDA acc, k : acc + s[k] * Base ^ (k - 1), 0, [k \in DOMAIN s |-> k])
Signed(s) == IF Unsigned(s) * 2 < Base ^ Len(s) THEN Unsigned(s) ELSE Unsigned(s) - Base ^ Len(s)

Item(b, type, cookie, s) == wb_push(wb_push(b, <<<<type, cookie>>>>), s)

wb_nil(b) == Item(b, "NIL", 0, <<>>)
wb_boolean(b, x) == Item(b, "BOOLEAN", IF x THEN 1 ELSE 0, <<>>)

wb_integer_Word(b, v) ==
    IF v = 0 THEN Item(b, "NUMBER", 0, <<>>)
    ELSE IF v # Signed(Digits(v, 4)) THEN Item(b, "NUMBER", 6, Digits(v, 8))
    ELSE IF v < 0 THEN Item(b, "NUMBER", 4, Digits(v, 4))
    ELSE IF v <= Base THEN Item(b, "NUMBER", 1, Digits(v, 1))
    ELSE IF v < Base ^ 2 THEN Item(b, "NUMBER", 2, Digits(v, 2))
    ELSE Item(b, "NUMBER", 4, Digits(v, 4))

wb_integer(b, v) ==
    IF v = 0 THEN Item(b, "NUMBER", 0, <<>>)
    ELSE IF v # Signed(Digits(v, 4)) THEN Item(b, "NUMBER", 6, Digits(v, 8))
    ELSE IF v < 0 THEN Item(b, "NUMBER", 4, Digits(v, 4))
    ELSE IF v < Base THEN Item(b, "NUMBER", 1, Digits(v, 1))
    ELSE IF v < Base ^ 2 THEN Item(b, "NUMBER", 2, Digits(v, 2))
    ELSE Item(b, "NUMBER", 4, Digits(v, 4))

wb_real(b, r) == Item(b, "NUMBER", 8, Digits(r, 8))
wb_pointer(b, p) == Item(b, "USERDATA", 0, Digits(p, 8))

wb_string(b, s) ==
    LET n == Len(s)
    IN  IF n < MaxCookie THEN Item(b, "SHORT_STRING", n, s)
        ELSE IF n < Base ^ 2 THEN wb_push(Item(b, "LONG_STRING", 2, Digits(n, 2)), s)
        ELSE wb_push(Item(b, "LONG_STRING", 4, Digits(n, 4)), s)

RECURSIVE pack_one(_, _, _)

wb_table_array(b, v, depth) ==
    LET head == IF v.len >= MaxCookie - 1 THEN wb_integer(Item(b, "TABLE", MaxCookie - 1, <<>>), v.len)
                ELSE Item(b, "TABLE", v.len, <<>>)
        At(i) == IF Num(i) \in Keys(v) THEN (CHOOSE p \in v.m : p[1] = Num(i))[2] ELSE Nil
    IN  FoldLeft(LAMBDA wb, i : pack_one(wb, At(i), depth), head, [i \in 1 .. v.len |-> i])

\* the pairs in the order of lua_next that are not in the array, and a nil
wb_table_hash(b, v, depth, array_size) ==
    LET rest == {p \in v.m : ~(p[1].t = "int" /\ p[1].v \in 1 .. array_size)}
    IN  wb_nil(FoldLeft(LAMBDA wb, p : pack_one(pack_one(wb, p[1], depth), p[2], depth), b, SetToSeq(rest)))

wb_table_metapairs(b, v, depth) == wb_table_hash(Item(b, "TABLE", 0, <<>>), v, depth, 0)

wb_table(b, v, depth) ==
    IF v.meta THEN wb_table_metapairs(b, v, depth) ELSE wb_table_hash(wb_table_array(b, v, depth), v, depth, v.len)

pack_one(b, v, depth) ==
    IF b.err # "no" THEN b
    ELSE IF depth > MaxDepth THEN wb_free(b, "depth")
    ELSE CASE v.t = "nil" -> wb_nil(b)
           [] v.t = "int" -> wb_integer(b, v.v)
           [] v.t = "real" -> wb_real(b, v.r)
           [] v.t = "bool" -> wb_boolean(b, v.b)
           [] v.t = "str" -> wb_string(b, v.s)
           [] v.t = "ptr" -> wb_pointer(b, v.p)
           [] v.t = "table" -> wb_table(b, v, depth + 1)
           [] OTHER -> wb_free(b, "type")

pack_from(vs) == FoldLeft(LAMBDA b, v : pack_one(b, v, 0), wb_init, vs)

\* seri: the blocks in one buffer
seri(b) == SubSeq(FlattenSeq(b.blocks), 1, b.len)

-----------------------------------------------------------------------------
(* Reading: s is what is left of the stream, v the value read.              *)

rb_read(rb, n) ==
    IF rb.err \/ Len(rb.s) < n THEN [rb EXCEPT !.err = TRUE, !.v = <<>>]
    ELSE [rb EXCEPT !.s = SubSeq(@, n + 1, Len(@)), !.v = SubSeq(rb.s, 1, n)]

Value(rb, v) == IF rb.err THEN rb ELSE [rb EXCEPT !.v = v]
invalid_stream(rb) == [rb EXCEPT !.err = TRUE]

get_integer(rb, cookie) ==
    LET r == rb_read(rb, cookie)
    IN  CASE cookie = 0 -> Value(rb, Num(0))
          [] cookie \in {1, 2} -> Value(r, Num(Unsigned(r.v)))
          [] cookie = 4 -> Value(r, Num(Signed(r.v)))
          [] cookie = 6 -> LET q == rb_read(rb, 8) IN Value(q, Num(Signed(q.v)))
          [] OTHER -> invalid_stream(rb)

get_real(rb) == LET r == rb_read(rb, 8) IN Value(r, [t |-> "real", r |-> Signed(r.v)])
get_pointer(rb) == LET r == rb_read(rb, 8) IN Value(r, [t |-> "ptr", p |-> Signed(r.v)])
get_buffer(rb, len) == LET r == rb_read(rb, len) IN Value(r, [t |-> "str", s |-> r.v])

RawSet(m, k, v) == {p \in m : p[1] # k} \cup IF v = Nil THEN {} ELSE {<<k, v>>}

RECURSIVE unpack_one(_), unpack_pairs(_, _)

\* the pairs after the array, up to a nil
AddPair(k, v, m) == IF v.err THEN v ELSE unpack_pairs(v, RawSet(m, k.v, v.v))
PairOf(k, m) == IF k.err \/ k.v = Nil THEN Value(k, m) ELSE AddPair(k, unpack_one(k), m)
unpack_pairs(rb, m) == PairOf(unpack_one(rb), m)

AddElement(v, m, i) == Value(v, RawSet(m, Num(i), v.v))
Elements(size) ==
    IF size.err THEN size
    ELSE FoldLeft(LAMBDA acc, i : IF acc.err THEN acc ELSE AddElement(unpack_one(acc), acc.v, i), Value(size, {}),
                  [i \in 1 .. size.v.v |-> i])
HashOf(array) == IF array.err THEN array ELSE unpack_pairs(array, array.v)
SizeOf(type) == IF type.err \/ type.v[1][1] # "NUMBER" \/ type.v[1][2] = 8 THEN invalid_stream(type)
                ELSE get_integer(type, type.v[1][2])
Table(all) == Value(all, [t |-> "table", m |-> all.v])

unpack_table(rb, cookie) ==
    Table(HashOf(Elements(IF cookie = MaxCookie - 1 THEN SizeOf(rb_read(rb, 1)) ELSE Value(rb, Num(cookie)))))

push_value(rb, type, cookie) ==
    LET len == rb_read(rb, cookie)
    IN  CASE type = "NIL" -> Value(rb, Nil)
          [] type = "BOOLEAN" -> Value(rb, [t |-> "bool", b |-> cookie # 0])
          [] type = "NUMBER" -> IF cookie = 8 THEN get_real(rb) ELSE get_integer(rb, cookie)
          [] type = "USERDATA" -> get_pointer(rb)
          [] type = "SHORT_STRING" -> get_buffer(rb, cookie)
          [] type = "LONG_STRING" ->
               IF cookie \notin {2, 4} \/ len.err THEN invalid_stream(rb) ELSE get_buffer(len, Unsigned(len.v))
          [] type = "TABLE" -> unpack_table(rb, cookie)
          [] OTHER -> invalid_stream(rb)

unpack_one(rb) ==
    LET type == rb_read(rb, 1)
    IN  IF type.err THEN type ELSE push_value(type, type.v[1][1], type.v[1][2])

RECURSIVE UnpackAll(_, _)
UnpackNext(v, vs) == IF v.err THEN <<"invalid">> ELSE UnpackAll(v, Append(vs, v.v))
UnpackAll(rb, vs) == IF rb.s = <<>> THEN vs ELSE UnpackNext(unpack_one(rb), vs)

luaseri_unpack(s) == UnpackAll([s |-> s, err |-> FALSE, v |-> Nil], <<>>)

-----------------------------------------------------------------------------

Init == stage = "value" /\ input \in Inputs /\ wire = wb_init /\ output = <<>>

luaseri_pack ==
    /\ stage = "value"
    /\ stage' = "packed" /\ wire' = pack_from(input)
    /\ UNCHANGED <<input, output>>

Unpack ==
    /\ stage = "packed" /\ wire.err = "no"
    /\ stage' = "done" /\ output' = luaseri_unpack(seri(wire))
    /\ UNCHANGED <<input, wire>>

Next == luaseri_pack \/ Unpack
Spec == Init /\ [][Next]_seriVars

-----------------------------------------------------------------------------
(* Properties.                                                             *)

RECURSIVE Meaning(_), Depth(_), Packable(_)
\* a value without what the stream does not carry: borders and metamethods
Meaning(v) == IF v.t # "table" THEN v ELSE [t |-> "table", m |-> {<<Meaning(p[1]), Meaning(p[2])>> : p \in v.m}]
\* how deep its deepest value lies; an empty table costs nothing
Depth(v) == IF v.t # "table" \/ v.m = {} THEN 0 ELSE 1 + Max({0} \cup UNION {{Depth(p[1]), Depth(p[2])} : p \in v.m})
Packable(v) == v.t # "function" /\ (v.t = "table" => \A p \in v.m : Packable(p[1]) /\ Packable(p[2]))

\* What is packed and not refused is unpacked as the same values: numbers at the
\* limits of each width, strings and arrays at the limits of the cookie, tables with
\* holes whichever border their length was, blocks that end anywhere.  Only values
\* that nest too deep or have no encoding are refused.
SeriRoundTrip ==
    /\ stage = "done" => output = [k \in DOMAIN input |-> Meaning(input[k])]
    /\ stage # "value" =>
         ((wire.err = "no") <=> (\A k \in DOMAIN input : Packable(input[k]) /\ Depth(input[k]) <= MaxDepth))
=============================================================================
