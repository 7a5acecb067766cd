-------------------------------- MODULE Bson --------------------------------
(***************************************************************************)
(* lualib-src/lua-bson.c: the documents of the mongo driver.                *)
(*                                                                         *)
(* Lua values are records; what Lua has no type for (dates, object ids,    *)
(* regular expressions ...) is a string that starts with a zero byte and   *)
(* its type, as in the code.  A table is its pairs in the order of         *)
(* lua_next and the border lua_rawlen found.  Numbers have the widths of   *)
(* the code in digits to base Base instead of 256; the other bytes are     *)
(* themselves.                                                             *)
(***************************************************************************)
EXTENDS Integers, Sequences, SequencesExt, FiniteSets

CONSTANTS Base,         \* values of a byte of a number: 256
          DefaultCap,   \* DEFAULT_CAP
          MaxDepth,     \* MAX_DEPTH
          Milli,        \* milliseconds of a second: 1000, Base ^ 4 * Milli * 2 <= Base ^ 8
          Inputs        \* [doc, order, key, val]: the calls that are tried

VARIABLES stage, input, wire, output

bsonVars == <<stage, input, wire, output>>

REAL == 1
STRING_T == 2
DOCUMENT == 3
ARRAY == 4
BINARY == 5
OBJECTID == 7
BOOLEAN_T == 8
DATE == 9
NULL == 10
REGEX == 11
DBPOINTER == 12
JSCODE == 13
SYMBOL == 14
CODEWS == 15
INT32 == 16
TIMESTAMP == 17
INT64 == 18
MINKEY == 255
MAXKEY == 127

Digits(v, n) == [k \in 1 .. n |-> (v \div Base ^ (k - 1)) % Base]
get_length(s) == FoldLeft(LAMBDA acc, k : acc + s[k] * Base ^ (k - 1), 0, [k \in DOMAIN s |-> k])
Signed(s) == IF get_length(s) * 2 < Base ^ Len(s) THEN get_length(s) ELSE get_length(s) - Base ^ Len(s)

Int64(n) == [t |-> "int", v |-> n]
Str(s) == [t |-> "str", s |-> s]
Nil == [t |-> "nil"]

-----------------------------------------------------------------------------
(* Writing: the bytes, the capacity and an error.                          *)

bson_create == [s |-> <<>>, cap |-> DefaultCap, err |-> "no"]
Throw(b, e) == [b EXCEPT !.err = e]

RECURSIVE Doubled(_, _)
Doubled(cap, need) == IF 2 * cap <= need THEN Doubled(2 * cap, need) ELSE 2 * cap

bson_reserve(b, sz) == IF Len(b.s) + sz <= b.cap THEN b ELSE [b EXCEPT !.cap = Doubled(@, Len(b.s) + sz)]

\* bytes put where room was made, an overrun where it was not
Put(b, s) ==
    IF b.err # "no" THEN b
    ELSE IF Len(b.s) + Len(s) > b.cap THEN Throw(b, "overrun") ELSE [b EXCEPT !.s = @ \o s]

write_byte(b, v) == Put(bson_reserve(b, 1), <<v>>)
write_int32(b, v) == Put(bson_reserve(b, 4), Digits(v, 4))
write_int64(b, v) == Put(bson_reserve(b, 8), Digits(v, 8))
write_double(b, d) == Put(bson_reserve(b, 8), Digits(d, 8))
reserve_length(b) == Put(bson_reserve(b, 4), Digits(0, 4))
write_length(b, v, off) ==
    [b EXCEPT !.s = [k \in DOMAIN @ |-> IF k \in off + 1 .. off + 4 THEN Digits(v, 4)[k - off] ELSE @[k]]]

Bit(c, n) == (c \div 2 ^ n) % 2

\* how many bytes the code point at the start of s takes, 0 when it is none
utf8_copy(s) ==
    LET c == s[1]
        count == CHOOSE n \in 0 .. 7 : (\A k \in 0 .. n - 1 : Bit(c, 6 - k) = 1) /\ (n = 7 \/ Bit(c, 6 - n) = 0)
        tail == [k \in 1 .. count |-> s[k + 1]]
        low == FoldLeft(LAMBDA acc, cc : acc * 64 + (cc % 64), 0, tail)
        res == low + (((c * 2 ^ count) % 128) * 2 ^ (count * 5))
        limits == <<255, 127, 2047, 65535>>
    IN  IF c < 128 THEN 1
        ELSE IF Len(s) <= count \/ count > 3 \/ \E k \in 1 .. count : tail[k] \div 64 # 2 THEN 0
        ELSE IF res > 1114111 \/ res <= limits[count + 1] THEN 0
        ELSE count + 1

RECURSIVE Utf8(_)
Utf8(s) == s = <<>> \/ (utf8_copy(s) # 0 /\ Utf8(SubSeq(s, utf8_copy(s) + 1, Len(s))))

write_string_Room(b, s) ==
    IF ~Utf8(s) THEN Throw(b, "utf8") ELSE Put(bson_reserve(b, Len(s)), s \o <<0>>)

write_string(b, s) ==
    IF ~Utf8(s) THEN Throw(b, "utf8") ELSE Put(bson_reserve(b, Len(s) + 1), s \o <<0>>)

append_key(b, type, key) == write_string(write_byte(b, type), key)

is_32bit(v) == v = Signed(Digits(v, 4))

append_number(b, v, key) ==
    IF v.t = "real" THEN write_double(append_key(b, REAL, key), v.r)
    ELSE IF is_32bit(v.v) THEN write_int32(append_key(b, INT32, key), v.v)
    ELSE write_int64(append_key(b, INT64, key), v.v)

write_binary(b, s) == write_length(Put(bson_reserve(reserve_length(b), Len(s)), s), Len(s) - 1, Len(b.s))

\* a regular expression and its options, each ended by a zero byte; <<>> when no zero
\* but the last is found (the last byte itself is not looked at)
SplitLast(s) ==
    LET len == Len(s) - 1
        i == CHOOSE n \in 0 .. len : (n = len \/ s[len - n] = 0) /\ \A k \in 0 .. n - 1 : s[len - k] # 0
    IN  IF s = <<>> \/ i = len THEN <<>> ELSE <<SubSeq(s, 1, len - i - 1), SubSeq(s, len - i + 1, len)>>

\* the expression that has no end is written with length (size_t)-1: the copy leaves
\* both the string and the buffer
RegexValue(h, p) == IF p = <<>> THEN Throw(h, "runaway") ELSE write_string(write_string(h, p[1]), p[2])

\* a string that stands for another type; sized are the types of a fixed size.  An
\* empty binary, without even its subtype, gets the length -1
SubtypeValue(h, subt, s) ==
    LET sized == CASE subt = OBJECTID -> 12 [] subt = DATE -> 4 [] subt \in {TIMESTAMP, INT64} -> 8 [] OTHER -> Len(s)
    IN  IF Len(s) # sized THEN Throw(h, "size")
        ELSE CASE subt = BINARY -> write_binary(h, s)
               [] subt \in {OBJECTID, JSCODE, DBPOINTER, SYMBOL, CODEWS} -> Put(bson_reserve(h, Len(s)), s)
               [] subt = DATE -> write_int64(h, get_length(s) * Milli)
               [] subt = TIMESTAMP -> write_int32(write_int32(h, get_length(SubSeq(s, 1, 4))), get_length(SubSeq(s, 5, 8)))
               [] subt = REGEX -> RegexValue(h, SplitLast(s))
               [] subt \in {MINKEY, MAXKEY, NULL} -> h
               [] subt = INT64 -> write_int64(h, Signed(s))
               [] OTHER -> Throw(h, "subtype")

append_subtype(b, subt, s, key) == SubtypeValue(append_key(b, subt, key), subt, s)

Text(h, s) == write_length(write_string(reserve_length(h), s), Len(s) + 1, Len(h.s))
append_text(b, s, key) == Text(append_key(b, STRING_T, key), s)

RECURSIVE append_one(_, _, _, _)

RECURSIVE bson_numstr(_)
bson_numstr(i) == IF i < 10 THEN <<48 + i>> ELSE bson_numstr(i \div 10) \o <<48 + (i % 10)>>

\* a document is its length, the values (body has them) and a zero byte
Close(e, start) == IF e.err # "no" THEN e ELSE write_length(e, Len(e.s) - start, start)
Enclosed(b, body) == Close(write_byte(body, 0), Len(b.s))

Get(v, k) == IF \E n \in DOMAIN v.items : v.items[n][1] = k
             THEN v.items[CHOOSE n \in DOMAIN v.items : v.items[n][1] = k][2] ELSE Nil

pack_array(b, v, depth, len) ==
    Enclosed(b, FoldLeft(LAMBDA acc, i : append_one(acc, Get(v, Int64(i)), bson_numstr(i - 1), depth),
                         reserve_length(b), [i \in 1 .. len |-> i]))

pack_dict_data(b, k, v, depth) ==
    CASE k.t = "int" -> Throw(b, "number key")
      [] k.t = "str" -> append_one(b, v, k.s, depth)
      [] OTHER -> Throw(b, "key")

pack_simple_dict(b, v, depth) ==
    Enclosed(b, FoldLeft(LAMBDA acc, p : pack_dict_data(acc, p[1], p[2], depth), reserve_length(b), v.items))

\* the pairs that __pairs yields
pack_meta_dict(b, v, depth) == pack_simple_dict(b, v, depth)

\* the border is the last key that lua_next comes to
is_rawarray(v) == v.len > 0 /\ v.items[Len(v.items)][1] = Int64(v.len)

append_table(b, v, key, depth) ==
    IF depth > MaxDepth THEN Throw(b, "depth")
    ELSE CASE v.meta = "len" -> pack_array(append_key(b, ARRAY, key), v, depth, v.len)
           [] v.meta = "pairs" -> pack_meta_dict(append_key(b, DOCUMENT, key), v, depth)
           [] v.meta = "none" /\ is_rawarray(v) -> pack_array(append_key(b, ARRAY, key), v, depth, v.len)
           [] OTHER -> pack_simple_dict(append_key(b, DOCUMENT, key), v, depth)

PutRaw(h, bytes) == Put(bson_reserve(h, Len(bytes)), bytes)

append_one(b, v, key, depth) ==
    IF b.err # "no" THEN b
    ELSE CASE v.t \in {"int", "real"} -> append_number(b, v, key)
           [] v.t = "raw" -> PutRaw(append_key(b, DOCUMENT, key), v.bytes)
           [] v.t = "str" /\ Len(v.s) > 1 /\ v.s[1] = 0 -> append_subtype(b, v.s[2], SubSeq(v.s, 3, Len(v.s)), key)
           [] v.t = "str" /\ ~(Len(v.s) > 1 /\ v.s[1] = 0) -> append_text(b, v.s, key)
           [] v.t = "table" -> append_table(b, v, key, depth + 1)
           [] v.t = "bool" -> write_byte(append_key(b, BOOLEAN_T, key), IF v.b THEN 1 ELSE 0)
           [] v.t = "nil" -> Throw(b, "hole")
           [] OTHER -> Throw(b, "type")

pack_ordered_dict(b, items, depth) ==
    Enclosed(b, FoldLeft(LAMBDA acc, p : append_one(acc, p[2], p[1].s, depth), reserve_length(b), items))

lencode(v) == pack_simple_dict(bson_create, v, 0)
lencode_order(items) == pack_ordered_dict(bson_create, items, 0)

-----------------------------------------------------------------------------
(* Reading: s is what is left, v what was read.                             *)

Reader(s) == [s |-> s, err |-> FALSE, v |-> Nil]
Value(br, v) == IF br.err THEN br ELSE [br EXCEPT !.v = v]

read_bytes(br, sz) ==
    IF br.err \/ Len(br.s) < sz THEN [br EXCEPT !.err = TRUE, !.v = <<>>]
    ELSE [br EXCEPT !.s = SubSeq(@, sz + 1, Len(@)), !.v = SubSeq(br.s, 1, sz)]

Byte(r) == IF r.err THEN r ELSE Value(r, r.v[1])
Number(r) == Value(r, Signed(r.v))
read_byte(br) == Byte(read_bytes(br, 1))
read_int32(br) == Number(read_bytes(br, 4))
read_int64(br) == Number(read_bytes(br, 8))
read_double(br) == read_int64(br)

read_cstring(br) ==
    LET ends == {i \in DOMAIN br.s : br.s[i] = 0}
    IN  IF br.err \/ ends = {} THEN [br EXCEPT !.err = TRUE]
        ELSE LET i == CHOOSE n \in ends : \A m \in ends : n <= m
             IN  [br EXCEPT !.s = SubSeq(@, i + 1, Len(@)), !.v = SubSeq(br.s, 1, i - 1)]

make_object(type, s) == Str(<<0, type>> \o s)

strtol(key) == FoldLeft(LAMBDA acc, c : acc * 10 + c - 48, 0, key)

RECURSIVE unpack_dict(_, _)

\* an int32 and as many bytes and `more', the int32 included
CountedBytes(n, s, size) ==
    IF n.err \/ size < 0 THEN [n EXCEPT !.err = TRUE] ELSE Value(read_bytes(n, size), SubSeq(s, 1, 4 + size))
CountedOf(n, s, more) == CountedBytes(n, s, n.v + more)
Counted(br, more) == CountedOf(read_int32(br), br.s, more)

\* what was read as an object of the type
Object(bt, r) == Value(r, make_object(bt, r.v))
Unterminated(r) == Value(r, Str(SubSeq(r.v, 1, Len(r.v) - 1)))
StringOf(t, n) == IF n.err \/ n.v <= 0 THEN [t EXCEPT !.err = TRUE] ELSE Unterminated(read_bytes(n, n.v))
\* with a length of -1 read_bytes steps back, and luaL_addlstring refuses it
BinaryData(sub, len) ==
    LET Data(r) == Value(r, make_object(BINARY, <<sub.v>> \o r.v))
    IN  IF len < 0 THEN [sub EXCEPT !.err = TRUE] ELSE Data(read_bytes(sub, len))
BinaryOf(n) == BinaryData(read_byte(n), n.v)
Options(re, opt) == Value(opt, make_object(REGEX, re \o <<0>> \o opt.v \o <<0>>))
RegexOf(re) == Options(re.v, read_cstring(re))
Stamp(inc, ts) == Value(ts, make_object(TIMESTAMP, Digits(inc, 4) \o Digits(ts.v, 4)))
TimestampOf(inc) == Stamp(inc.v, read_int32(inc))
Boolean(r) == Value(r, [t |-> "bool", b |-> r.v # 0])
Real(r) == Value(r, [t |-> "real", r |-> r.v])
Date(r) == Value(r, make_object(DATE, Digits(r.v \div Milli, 4)))
Integer(r) == Value(r, Int64(r.v))

unpack_value(t, bt) ==
    CASE bt = REAL -> Real(read_double(t))
      [] bt = BOOLEAN_T -> Boolean(read_byte(t))
      [] bt = STRING_T -> StringOf(t, read_int32(t))
      [] bt = DOCUMENT -> unpack_dict(t, FALSE)
      [] bt = ARRAY -> unpack_dict(t, TRUE)
      [] bt = BINARY -> BinaryOf(read_int32(t))
      [] bt = OBJECTID -> Object(bt, read_bytes(t, 12))
      [] bt = DATE -> Date(read_int64(t))
      [] bt \in {MINKEY, MAXKEY, NULL} -> Value(t, make_object(bt, <<>>))
      [] bt = REGEX -> RegexOf(read_cstring(t))
      [] bt = INT32 -> Integer(read_int32(t))
      [] bt = TIMESTAMP -> TimestampOf(read_int32(t))
      [] bt = INT64 -> Integer(read_int64(t))
      [] bt = DBPOINTER -> Object(bt, Counted(t, 12))
      [] bt \in {JSCODE, SYMBOL} -> Object(bt, Counted(t, 0))
      [] bt = CODEWS -> Object(bt, Counted(t, -4))
      [] OTHER -> [t EXCEPT !.err = TRUE]

RawSet(m, k, v) == {p \in m : p[1] # k} \cup {<<k, v>>}

RECURSIVE UnpackItems(_, _, _)
AddItem(v, k, array, m) == IF v.err THEN v ELSE UnpackItems(v, array, RawSet(m, k, v.v))
ItemValue(key, bt, array, m) ==
    IF key.err THEN key
    ELSE AddItem(unpack_value(key, bt), IF array THEN Int64(strtol(key.v) + 1) ELSE Str(key.v), array, m)
ItemKey(bt, array, m) == ItemValue(read_cstring(bt), bt.v, array, m)
UnpackItems(t, array, m) == IF t.s = <<>> THEN Value(t, m) ELSE ItemKey(read_byte(t), array, m)

\* body ends where the document does, before its zero byte; m are the values in it
DictOf(br, end, m) ==
    IF end.err \/ end.v # 0 \/ m.err THEN [br EXCEPT !.err = TRUE] ELSE Value(end, [t |-> "table", m |-> m.v])
DictBody(br, body, array) ==
    IF body.err THEN [br EXCEPT !.err = TRUE] ELSE DictOf(br, read_byte(body), UnpackItems(Reader(body.v), array, {}))
DictSize(br, sz, array) ==
    IF sz.err \/ sz.v < 5 THEN [br EXCEPT !.err = TRUE] ELSE DictBody(br, read_bytes(sz, sz.v - 5), array)
unpack_dict(br, array) == DictSize(br, read_int32(br), array)

ldecode(s) == unpack_dict(Reader(SubSeq(s, 1, get_length(SubSeq(s, 1, 4)))), FALSE)

-----------------------------------------------------------------------------
(* Changing a value in place.                                              *)

\* the values of a fixed size, with their types and where they start (from 0)
RECURSIVE IndexItems(_, _, _)
field_size(bt) ==
    CASE bt \in {INT64, TIMESTAMP, DATE, REAL} -> 8 [] bt = BOOLEAN_T -> 1
      [] bt = OBJECTID -> 12 [] bt = INT32 -> 4 [] OTHER -> 0

Skipped(key, bt) ==
    CASE bt \in {JSCODE, SYMBOL, STRING_T} -> Counted(key, 0)
      [] bt \in {CODEWS, ARRAY, DOCUMENT} -> Counted(key, -4)
      [] bt = BINARY -> Counted(key, 1)
      [] bt = REGEX -> read_cstring(read_cstring(key))
      [] bt = DBPOINTER -> Counted(key, 12)
      [] OTHER -> read_bytes(key, field_size(bt))

AddIndex(index, key, bt, len) ==
    IF field_size(bt) = 0 THEN index ELSE RawSet(index, Str(key.v), <<bt, len - 1 - Len(key.s)>>)
IndexNext(skipped, index, len) == IF skipped.err THEN {} ELSE IndexItems(skipped, len, index)
IndexOf(key, bt, len, index) == IndexNext(Skipped(key, bt), AddIndex(index, key, bt, len), len)
IndexKey(bt, len, index) == IndexOf(read_cstring(bt), bt.v, len, index)
IndexItems(br, len, index) == IF br.s = <<>> THEN index ELSE IndexKey(read_byte(br), len, index)

lmakeindex_End(s) == IndexItems(Reader(SubSeq(s, 5, Len(s) - 1)), Len(s) - 1, {})
lmakeindex(s) == IndexItems(Reader(SubSeq(s, 5, Len(s) - 1)), Len(s), {})

Over(s, off, bytes) ==
    [k \in DOMAIN s |-> IF k \in off + 1 .. off + Len(bytes) THEN bytes[k - off] ELSE s[k]]

\* the bytes of a date, a time stamp or an object id, <<>> when they are refused
replace_object(type, v) ==
    LET s == SubSeq(v.s, 3, Len(v.s))
    IN  IF v.t # "str" \/ Len(v.s) < 6 \/ v.s[1] # 0 \/ v.s[2] # type THEN <<>>
        ELSE CASE type = OBJECTID /\ Len(s) = 12 -> s
               [] type = DATE /\ Len(s) = 4 -> Digits(get_length(s) * Milli, 8)
               [] type = TIMESTAMP /\ Len(s) = 8 -> s
               [] OTHER -> <<>>

\* luaL_checknumber: any number, and a string that is one (of those only the digits
\* are modelled); the double of an integer is the one whose bits are that number
IsNumeral(v) == v.t = "str" /\ v.s # <<>> /\ \A i \in DOMAIN v.s : v.s[i] \in 48 .. 57
IsNumber(v) == v.t \in {"real", "int"} \/ IsNumeral(v)
luaL_checknumber(v) == CASE v.t = "real" -> v.r [] v.t = "int" -> v.v [] OTHER -> strtol(v.s)

\* an integer that does not fit loses its high bytes
NewBytes(type, v) ==
    CASE type = REAL /\ IsNumber(v) -> Digits(luaL_checknumber(v), 8)
      [] type = BOOLEAN_T -> <<IF v = Nil \/ v = [t |-> "bool", b |-> FALSE] THEN 0 ELSE 1>>
      [] type \in {OBJECTID, DATE, TIMESTAMP} -> replace_object(type, v)
      [] type = INT32 /\ v.t = "int" -> Digits(v.v, 4)
      [] type = INT64 /\ v.t = "int" -> Digits(v.v, 8)
      [] OTHER -> <<>>
Written(s, off, bytes) == IF bytes = <<>> THEN <<>> ELSE Over(s, off, bytes)
ReplaceValue(s, id, v) == Written(s, id[2], NewBytes(id[1], v))
ReplaceIn(s, index, key, v) ==
    IF \E p \in index : p[1] = key THEN ReplaceValue(s, (CHOOSE p \in index : p[1] = key)[2], v) ELSE <<>>
lreplace(s, key, v) == ReplaceIn(s, lmakeindex(s), key, v)

-----------------------------------------------------------------------------
(* The constructors, and bson.type, which takes a value apart.              *)

ldate(d) == make_object(DATE, Digits(d, 4))
lint64(n) == make_object(INT64, Digits(n, 8))
ltimestamp(ts, inc) == make_object(TIMESTAMP, Digits(inc, 4) \o Digits(ts, 4))
lregex(re, opt) == make_object(REGEX, re \o <<0>> \o opt \o <<0>>)
lbinary(s) == make_object(BINARY, <<0>> \o s)
hextoint(c) == IF c \in 48 .. 57 THEN c - 48 ELSE IF c \in 97 .. 122 THEN c - 97 + 10 ELSE IF c \in 65 .. 90 THEN c - 65 + 10 ELSE 0
lobjectid(hex) == make_object(OBJECTID, [k \in 1 .. 12 |-> hextoint(hex[2 * k - 1]) * 16 + hextoint(hex[2 * k])])

Hex(n) == IF n < 10 THEN 48 + n ELSE 97 + n - 10

lsubtype(subtype, buf) ==
    CASE subtype = BINARY /\ buf # <<>> -> [t |-> "binary", data |-> Tail(buf), sub |-> buf[1]]
      [] subtype = OBJECTID /\ Len(buf) = 12 ->
           [t |-> "objectid", hex |-> [k \in 1 .. 24 |-> IF k % 2 = 1 THEN Hex(buf[(k + 1) \div 2] \div 16) ELSE Hex(buf[k \div 2] % 16)]]
      [] subtype = DATE /\ Len(buf) = 4 -> [t |-> "date", d |-> Signed(buf)]
      [] subtype = TIMESTAMP /\ Len(buf) = 8 ->
           [t |-> "timestamp", ts |-> get_length(SubSeq(buf, 5, 8)), inc |-> get_length(SubSeq(buf, 1, 4))]
      [] subtype = REGEX /\ SplitLast(buf) # <<>> -> [t |-> "regex", re |-> SplitLast(buf)[1], opt |-> SplitLast(buf)[2]]
      [] subtype = MINKEY -> [t |-> "minkey"]
      [] subtype = MAXKEY -> [t |-> "maxkey"]
      [] subtype = NULL -> [t |-> "null"]
      [] subtype \in {JSCODE, DBPOINTER, SYMBOL, CODEWS} -> [t |-> "unsupported", raw |-> buf]
      [] subtype = INT64 /\ Len(buf) = 8 -> Int64(Signed(buf))
      [] OTHER -> [t |-> "error"]

ltype(v) ==
    IF v.t # "str" \/ Len(v.s) < 2 THEN v
    ELSE IF v.s[1] = 0 THEN lsubtype(v.s[2], SubSeq(v.s, 3, Len(v.s))) ELSE v

-----------------------------------------------------------------------------
\* input.order: bson.encode_order with these pairs instead of bson.encode

Init == stage = "value" /\ input \in Inputs /\ wire = bson_create /\ output = Nil

Encode ==
    /\ stage = "value"
    /\ stage' = "encoded"
    /\ wire' = IF input.order THEN lencode_order(input.doc.items) ELSE lencode(input.doc)
    /\ UNCHANGED <<input, output>>

\* t:makeindex() and t[key] = val
Replace ==
    /\ stage = "encoded" /\ wire.err = "no" /\ input.key # Nil
    /\ \E s \in {lreplace(wire.s, input.key, input.val)} :
         /\ stage' = IF s = <<>> THEN "refused" ELSE "replaced"
         /\ wire' = IF s = <<>> THEN wire ELSE [wire EXCEPT !.s = s]
    /\ UNCHANGED <<input, output>>

Outcome(r) == IF r.err THEN [t |-> "error"] ELSE r.v

Decode ==
    /\ stage \in {"encoded", "replaced"} /\ wire.err = "no"
    /\ stage' = IF stage = "encoded" THEN "done" ELSE "done replaced"
    /\ output' = Outcome(ldecode(wire.s))
    /\ UNCHANGED <<input, wire>>

Next == Encode \/ Replace \/ Decode
Spec == Init /\ [][Next]_bsonVars

-----------------------------------------------------------------------------
(* Properties.                                                             *)

\* what a table says: with __len, an array; otherwise its pairs
Pairs(v) == IF "m" \in DOMAIN v THEN v.m
            ELSE {p \in Range(v.items) : v.meta = "len" => p[1] \in {Int64(k) : k \in 1 .. v.len}}

RECURSIVE Meaning(_)
\* what a value says, without the layout of its tables
Meaning(v) ==
    IF v.t = "raw" THEN Meaning(ldecode(v.bytes).v)
    ELSE IF v.t # "table" THEN ltype(v)
    ELSE [t |-> "table", m |-> {<<p[1], Meaning(p[2])>> : p \in Pairs(v)}]

\* What the code does not keep: a key or a regular expression with a zero byte in it
\* (it is written whole and read up to the zero); a binary without its subtype, a regular
\* expression without its end, bytes of a type that is copied as it is with a length that
\* is not theirs; and a table with other keys before its border, the last that lua_next
\* comes to: it is taken for an array, and the other pairs are left out without an error.
HasItsLength(subt, s) ==
    LET r == Counted(Reader(s), CASE subt = DBPOINTER -> 12 [] subt = CODEWS -> -4 [] OTHER -> 0)
    IN  ~r.err /\ r.s = <<>>
KeptSubtype(subt, s) ==
    CASE subt = BINARY -> s # <<>>
      [] subt = REGEX -> SplitLast(s) # <<>> /\ 0 \notin Range(SplitLast(s)[1])
      [] subt \in {JSCODE, DBPOINTER, SYMBOL, CODEWS} -> HasItsLength(subt, s)
      [] OTHER -> TRUE
Mixed(v) == v.meta = "none" /\ is_rawarray(v) /\ \E p \in Pairs(v) : p[1] \notin {Int64(k) : k \in 1 .. v.len}

RECURSIVE Kept(_)
Kept(v) ==
    CASE v.t = "table" ->
           ~Mixed(v) /\ \A p \in Pairs(v) : (p[1].t = "str" => 0 \notin Range(p[1].s)) /\ Kept(p[2])
      [] v.t = "str" /\ Len(v.s) > 1 /\ v.s[1] = 0 -> KeptSubtype(v.s[2], SubSeq(v.s, 3, Len(v.s)))
      [] OTHER -> TRUE

\* What is encoded is decoded as the same values, whatever the border of a table with
\* holes and the growth of the buffer: a document of values that are Kept is complete or
\* refused.  No byte is put beyond the capacity of the buffer, but by a regular
\* expression without its end.
BsonRoundTrip ==
    /\ (stage = "done" /\ Kept(input.doc)) => Meaning(output) = Meaning(input.doc)
    /\ wire.err # "overrun"
    /\ wire.err = "runaway" => ~Kept(input.doc)

\* t[key] = val after t:makeindex() changes what it names and nothing else; an
\* integer is cut to the width of the one it replaces, and becomes a double in the place
\* of one, as a string of digits does.
ReplacesOne ==
    (stage = "done replaced" /\ Kept(input.doc)) =>
        LET Cut(old, new) ==
                IF old.t = "real" THEN [t |-> "real", r |-> luaL_checknumber(new)]
                ELSE IF old.t = "bool" THEN [t |-> "bool", b |-> input.val \notin {Nil, [t |-> "bool", b |-> FALSE]}]
                ELSE IF old.t = "int" /\ is_32bit(old.v) THEN Int64(Signed(Digits(new.v, 4))) ELSE new
        IN  Meaning(output) = [t |-> "table", m |-> RawSet(Meaning(input.doc).m, input.key,
                                                           Cut(Get(input.doc, input.key), Meaning(input.val)))]
=============================================================================
