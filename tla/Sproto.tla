------------------------------- MODULE Sproto -------------------------------
(***************************************************************************)
(* lualib-src/sproto: messages of a schema to bytes and back (sproto.c)    *)
(* with the callbacks that take them from Lua tables (lsproto.c), and the  *)
(* packing of the bytes.                                                   *)
(*                                                                         *)
(* A struct is a function from the tags of the fields it has to their      *)
(* values; a list with a main index is a function from keys to structs, a  *)
(* map one from keys to values.  Bytes are digits to base Base.            *)
(***************************************************************************)
EXTENDS Integers, Sequences, SequencesExt, FiniteSets

CONSTANTS Base,         \* values of a byte: 256
          Types,        \* the types of the schema, as import_type leaves them
          Messages,     \* <<type to encode, type to decode, struct>>
          BufferSize,   \* ENCODE_BUFFERSIZE, the first buffer of lencode
          Sources,      \* byte strings that are packed
          Seg,          \* bytes of a segment: 8
          MaxRun,       \* segments of a run: 256
          OutSize       \* ENCODE_BUFFERSIZE, the first buffer of lunpack

VARIABLES stage, msg, wire, output

sprotoVars == <<stage, msg, wire, output>>

Digits(v, n) == [k \in 1 .. n |-> (v \div Base ^ (k - 1)) % Base]
From(s, i) == SubSeq(s, i + 1, Len(s))
Unsigned(s) == FoldLeft(LAMBDA acc, k : acc + s[k] * Base ^ (k - 1), 0, [k \in DOMAIN s |-> k])
toword(s) == Unsigned(SubSeq(s, 1, 2))
todword(s) == Unsigned(SubSeq(s, 1, 4))
Ok(s) == [ok |-> TRUE, s |-> s]
Failed == [ok |-> FALSE, s |-> <<>>]
Nothing == Ok(<<>>)     \* SPROTO_CB_NIL, SPROTO_CB_NOARRAY: the field is left out

-----------------------------------------------------------------------------
(* Encoding.  size is the room left in the buffer: too little is a failure. *)

fill_size(s) == Ok(Digits(Len(s), 4) \o s)

encode_integer_Room(v, size) == IF size < 4 THEN Failed ELSE fill_size(Digits(v, 4))

encode_integer(v, size) == IF size < 8 THEN Failed ELSE fill_size(Digits(v, 4))
encode_uint64(v, size) == IF size < 12 THEN Failed ELSE fill_size(Digits(v, 8))

\* encode_one of a number: four bytes when v >> 31 is 0 or -1
FitsInt32(v) == v >= -(Base ^ 4 \div 2) /\ v < Base ^ 4 \div 2

uint32_to_uint64_Zero(s) == s \o <<0, 0, 0, 0>>

uint32_to_uint64(s) == s \o [k \in 1 .. 4 |-> IF s[4] * 2 >= Base THEN Base - 1 ELSE 0]

\* numbers of four bytes each, until one needs eight: then those before are rearranged
encode_integer_array(vs, size, wide) ==
    LET One(x, v) ==
            IF x.size < 8 THEN [x EXCEPT !.ok = FALSE]
            ELSE IF FitsInt32(v) /\ ~wide
                 THEN LET d == Digits(v, 4)
                      IN  [x EXCEPT !.ds = Append(@, IF x.intlen = 8 THEN uint32_to_uint64(d) ELSE d),
                                    !.size = @ - x.intlen]
                 ELSE LET again == x.intlen = 4
                          left == x.size - IF again THEN 4 * Len(x.ds) ELSE 0
                      IN  [ok |-> x.ok /\ left >= 8, intlen |-> 8, size |-> left - 8,
                           ds |-> Append([k \in DOMAIN x.ds |-> IF again THEN uint32_to_uint64(x.ds[k]) ELSE x.ds[k]],
                                         Digits(v, 8))]
        x == FoldLeft(One, [ok |-> TRUE, intlen |-> 4, size |-> size - 1, ds |-> <<>>], vs)
    IN  IF size < 1 \/ ~x.ok THEN Failed
        ELSE IF vs = <<>> THEN Ok(<<>>) ELSE Ok(<<x.intlen>> \o FlattenSeq(x.ds))

RECURSIVE sproto_encode(_, _, _)

\* the callback for a string or a struct
EncodeOne(f, v, size) ==
    IF f.type = "string" THEN IF Len(v) > size THEN Failed ELSE Ok(v) ELSE sproto_encode(Types[f.st], v, size)

Sized(r, size) == IF size < 4 \/ ~r.ok THEN Failed ELSE fill_size(r.s)
encode_object(f, v, size) == Sized(EncodeOne(f, v, size - 4), size)

AddObject(x, r) ==
    IF ~x.ok \/ x.size < 4 \/ ~r.ok THEN [x EXCEPT !.ok = FALSE]
    ELSE [x EXCEPT !.s = @ \o Digits(Len(r.s), 4) \o r.s, !.size = @ - 4 - Len(r.s)]
EndObjects(x) == IF ~x.ok \/ x.size < 4 THEN Failed ELSE Ok(x.s)
encode_array_object(f, vs, size) ==
    EndObjects(FoldLeft(LAMBDA x, v : AddObject(x, EncodeOne(f, v, x.size - 4)),
                        [ok |-> TRUE, s |-> <<>>, size |-> size], vs))

\* get_encodefield: the elements of a list, or of a table in the order of next_list
get_encodefield(f, v) ==
    LET st == Types[f.st]
        Entry(k) == (st.f[1].tag :> k) @@ (st.f[2].tag :> v[k])
        keys == SetToSeq(DOMAIN v)
    IN  IF f.map THEN [k \in DOMAIN keys |-> Entry(keys[k])]
        ELSE IF f.key >= 0 THEN [k \in DOMAIN keys |-> v[keys[k]]] ELSE v

EncodeElements(f, vs, size) ==
    CASE f.type \in {"integer", "double"} -> encode_integer_array(vs, size, f.type = "double")
      [] f.type = "boolean" -> IF size < Len(vs) THEN Failed ELSE Ok([k \in DOMAIN vs |-> IF vs[k] THEN 1 ELSE 0])
      [] OTHER -> encode_array_object(f, vs, size)
encode_array(f, v, size) == Sized(EncodeElements(f, get_encodefield(f, v), size - 4), size)

Inline == Base ^ 2 \div 2 - 1       \* 0x7fff

\* a field the struct has: its value in the header, or 0 and its data
EncodeData(f, v, size) ==
    CASE f.array -> encode_array(f, v, size)
      [] ~f.array /\ f.type \in {"string", "struct"} -> encode_object(f, v, size)
      [] ~f.array /\ f.type = "integer" /\ FitsInt32(v) -> encode_integer(v, size)
      [] OTHER -> encode_uint64(v, size)
EncodeField(f, v, size) ==
    LET n == IF f.type = "boolean" THEN IF v THEN 1 ELSE 0 ELSE v
        small == ~f.array /\ f.type \in {"integer", "boolean"} /\ n >= 0 /\ n < Inline
    IN  [r |-> IF small THEN Nothing ELSE EncodeData(f, v, size), value |-> IF small THEN (n + 1) * 2 ELSE 0]

\* Fields left out become a skip tag before the next one.  The header was given
\* maxn entries before anything was known; recs may not outgrow them.
AddRecord(x, f, r, value) ==
    LET skip == f.tag - x.last - 1
        tag == (skip - 1) * 2 + 1
    IN  IF ~r.ok \/ (skip > 0 /\ tag >= Base ^ 2) THEN [x EXCEPT !.ok = FALSE]
        ELSE [ok |-> TRUE, last |-> f.tag, data |-> x.data \o r.s, size |-> x.size - Len(r.s),
              recs |-> x.recs \o (IF skip > 0 THEN <<tag>> ELSE <<>>) \o <<value>>]
AddField(x, f, e) == AddRecord(x, f, e.r, e.value)
\* a field left out: the callback that says so is asked only where there is room
NilRoom(f) ==
    CASE f.array /\ f.type \in {"integer", "double"} -> 5
      [] f.array /\ f.type \in {"string", "struct"} -> 8
      [] (f.array /\ f.type = "boolean") \/ (~f.array /\ f.type \in {"string", "struct"}) -> 4
      [] OTHER -> 0
SkipField(x, f) == [x EXCEPT !.ok = x.size >= NilRoom(f)]
EndRecords(x, st) ==
    IF ~x.ok THEN Failed
    ELSE Ok(Digits(Len(x.recs), 2)
            \o (IF Len(x.recs) > st.maxn THEN <<"overrun">>
                ELSE FlattenSeq([k \in DOMAIN x.recs |-> Digits(x.recs[k], 2)])) \o x.data)
sproto_encode(st, v, size) ==
    IF size < 2 + 2 * st.maxn THEN Failed
    ELSE EndRecords(FoldLeft(LAMBDA x, f : IF ~x.ok THEN x ELSE IF f.tag \notin DOMAIN v THEN SkipField(x, f)
                                           ELSE AddField(x, f, EncodeField(f, v[f.tag], x.size)),
                             [ok |-> TRUE, last |-> -1, recs |-> <<>>, data |-> <<>>, size |-> size - 2 - 2 * st.maxn],
                             st.f), st)

RECURSIVE lencode(_, _, _)
\* expand_buffer and try again
lencode(st, v, sz) ==
    LET again(r) == IF r.ok THEN r ELSE lencode(st, v, 2 * sz) IN again(sproto_encode(st, v, sz))

-----------------------------------------------------------------------------
(* Decoding.                                                               *)

\* by index when the tags are contiguous, else by binary search
RECURSIVE Search(_, _, _, _)
Search(fs, tag, begin, end) ==
    LET mid == (begin + end) \div 2
        t == fs[mid + 1].tag
    IN  IF begin >= end THEN 0
        ELSE IF t = tag THEN mid + 1
        ELSE IF tag > t THEN Search(fs, tag, mid + 1, end) ELSE Search(fs, tag, begin, mid)

findtag(st, tag) ==
    IF st.base >= 0 THEN IF tag - st.base \in 0 .. Len(st.f) - 1 THEN tag - st.base + 1 ELSE 0
    ELSE Search(st.f, tag, 0, Len(st.f))

expand64(n) == IF n * 2 >= Base ^ 4 THEN n - Base ^ 4 ELSE n
Int64(s) == LET n == Unsigned(SubSeq(s, 1, 8)) IN IF n * 2 >= Base ^ 8 THEN n - Base ^ 8 ELSE n

RECURSIVE sproto_decode(_, _), decode_array_object(_, _, _)

\* the callback for a string or a struct; a struct must use all its bytes
WholeStruct(r, s) == IF r.ok /\ r.used = Len(s) THEN Ok(r.s) ELSE Failed
DecodeOne(f, s) == IF f.type = "string" THEN Ok(s) ELSE WholeStruct(sproto_decode(Types[f.st], s), s)

decode_array_object(f, s, acc) ==
    LET hsz == todword(s)
        on(one) == IF one.ok THEN decode_array_object(f, From(s, 4 + hsz), Append(acc, one.s)) ELSE Failed
    IN  IF s = <<>> THEN Ok(acc)
        ELSE IF Len(s) < 4 \/ Len(s) - 4 < hsz THEN Failed
        ELSE on(DecodeOne(f, SubSeq(s, 5, 4 + hsz)))

\* decode: the table a list with keys, or a map, becomes
Keyed(f, vs) ==
    LET st == Types[f.st]
        KeyTag == IF f.map THEN st.f[1].tag ELSE f.key
        Of(k) == Max({i \in DOMAIN vs : vs[i][KeyTag] = k})
    IN  [k \in {vs[i][KeyTag] : i \in DOMAIN vs} |-> IF f.map THEN vs[Of(k)][st.f[2].tag] ELSE vs[Of(k)]]

\* s: the data after its length
Objects(f, r) == IF r.ok /\ f.key >= 0 THEN Ok(Keyed(f, r.s)) ELSE r
decode_array(f, s) ==
    LET len == s[1]
        ints == From(s, 1)
        n == (Len(s) - 1) \div len
    IN  IF s = <<>> THEN IF f.key >= 0 THEN Ok([k \in {} |-> 0]) ELSE Ok(<<>>)
        ELSE CASE f.type \in {"integer", "double"} ->
                    IF len \notin {4, 8} \/ Len(ints) % len # 0 THEN Failed
                    ELSE Ok([k \in 1 .. n |-> IF len = 4 THEN expand64(todword(From(ints, 4 * (k - 1))))
                                              ELSE Int64(From(ints, 8 * (k - 1)))])
               [] f.type = "boolean" -> Ok([k \in DOMAIN s |-> s[k] # 0])
               [] OTHER -> Objects(f, decode_array_object(f, s, <<>>))

\* a field with data
DecodeField(f, s) ==
    CASE f.array -> decode_array(f, s)
      [] f.type \in {"integer", "double"} /\ ~f.array ->
           IF Len(s) = 4 THEN Ok(expand64(todword(s))) ELSE IF Len(s) = 8 THEN Ok(Int64(s)) ELSE Failed
      [] f.type \in {"string", "struct"} /\ ~f.array -> DecodeOne(f, s)
      [] OTHER -> Failed

Got(x, tag, v) == [x EXCEPT !.tag = tag, !.s = (tag :> v) @@ @]
GotData(x, tag, r, rest) == IF r.ok THEN [Got(x, tag, r.s) EXCEPT !.data = rest] ELSE [x EXCEPT !.ok = FALSE]
\* a record whose value follows, sz bytes in x.data
DecodeData(x, st, tag, sz) ==
    LET n == findtag(st, tag)
        rest == From(x.data, 4 + sz)
    IN  IF Len(x.data) < 4 \/ Len(x.data) < 4 + sz THEN [x EXCEPT !.ok = FALSE]
        ELSE IF n = 0 THEN [x EXCEPT !.tag = tag, !.data = rest]
        ELSE GotData(x, tag, DecodeField(st.f[n], SubSeq(x.data, 5, 4 + sz)), rest)
\* one with its value in the header
DecodeInline(x, st, tag, value) ==
    LET n == findtag(st, tag)
        f == st.f[n]
    IN  IF n = 0 THEN [x EXCEPT !.tag = tag]
        ELSE IF f.array \/ f.type \notin {"integer", "boolean"} THEN [x EXCEPT !.ok = FALSE]
        ELSE Got(x, tag, IF f.type = "boolean" THEN value # 0 ELSE value)
DecodeRecord(x, st, word) ==
    IF ~x.ok THEN x
    ELSE IF word % 2 = 1 THEN [x EXCEPT !.tag = @ + 1 + word \div 2]
    ELSE IF word = 0 THEN DecodeData(x, st, x.tag + 1, todword(x.data))
    ELSE DecodeInline(x, st, x.tag + 1, word \div 2 - 1)
EndDecode(x, stream) == [ok |-> x.ok, s |-> x.s, used |-> Len(stream) - Len(x.data)]
sproto_decode(st, stream) ==
    LET fn == toword(stream)
    IN  IF Len(stream) < 2 \/ Len(stream) < 2 + 2 * fn THEN [ok |-> FALSE, s |-> <<>>, used |-> 0]
        ELSE EndDecode(FoldLeft(LAMBDA x, i : DecodeRecord(x, st, toword(From(stream, 2 * i))),
                                [ok |-> TRUE, s |-> [t \in {} |-> 0], tag |-> -1, data |-> From(stream, 2 + 2 * fn)],
                                [i \in 1 .. fn |-> i]), stream)

-----------------------------------------------------------------------------
(* The 0-packing.  A segment of eight bytes becomes a byte of flags and    *)
(* its bytes that are not zero, a run of segments with hardly a zero 0xff, *)
(* its length and the bytes as they are.  Every store is made, or left     *)
(* out, as the code does, into a buffer that may be too short.  msg is the *)
(* source.                                                                 *)

FF == 2 ^ Seg - 1
Part(s, m, n) == SubSeq(s, m, IF n > Len(s) THEN Len(s) ELSE n)

\* stores at the offset at of a buffer of cap bytes; bad: one was outside
Store(x, at, s) ==
    [x EXCEPT !.buf = [i \in DOMAIN @ |-> IF i - at \in DOMAIN s THEN s[i - at] ELSE @[i]],
              !.bad = @ \/ (s # <<>> /\ at + Len(s) > Len(x.buf))]

\* pack_seg: what a segment needs; the flags are stored unless it joins a run
pack_seg(x, seg) ==
    LET nz == SelectSeq(seg, LAMBDA b : b # 0)
        header == FoldLeft(LAMBDA acc, i : acc + IF seg[i] # 0 THEN 2 ^ (i - 1) ELSE 0, 0, [i \in DOMAIN seg |-> i])
        stored == Part(nz, 1, IF x.left - 1 < 0 THEN 0 ELSE x.left - 1)
        notzero == IF Len(nz) \in {Seg - 1, Seg - 2} /\ x.run > 0 THEN Seg ELSE Len(nz)
        y == Store(x, x.at + 1, stored)
    IN  IF notzero = Seg THEN [y EXCEPT !.n = IF x.run > 0 THEN Seg ELSE Seg + 2]
        ELSE [(IF x.left - 1 >= 0 THEN Store(y, x.at, <<header>>) ELSE y) EXCEPT !.n = notzero + 1]

write_ff_Last(x) ==
    LET got == Part(msg, x.from + 1, x.from + x.run * Seg)
    IN  Store(x, x.des, <<FF, x.run>> \o got \o [k \in 1 .. x.run * Seg - Len(got) |-> 0])

\* the run of x.run segments from x.from on, padded past the end of the source
write_ff(x) ==
    LET got == Part(msg, x.from + 1, x.from + x.run * Seg)
    IN  Store(x, x.des, <<FF, x.run - 1>> \o got \o [k \in 1 .. x.run * Seg - Len(got) |-> 0])

EndRun(w) == [(IF w.left >= 0 THEN write_ff(w) ELSE w) EXCEPT !.run = 0]
\* y: x after pack_seg of the segment at i
AddSeg(x, y, i) ==
    IF y.n = Seg + 2 THEN [y EXCEPT !.from = i, !.des = x.at, !.run = 1]
    ELSE IF x.run = 0 THEN y
    ELSE IF y.n = Seg /\ x.run + 1 < MaxRun THEN [y EXCEPT !.run = @ + 1]
    ELSE EndRun(IF y.n = Seg THEN [y EXCEPT !.run = MaxRun] ELSE y)
Advance(x, y, i) == [AddSeg(x, [y EXCEPT !.left = @ - y.n], i) EXCEPT !.at = @ + y.n]
PackOne(x, i) ==
    LET got == Part(msg, i + 1, i + Seg)
    IN  Advance(x, pack_seg(x, got \o [k \in 1 .. Seg - Len(got) |-> 0]), i)
LastRun(x) == IF x.left >= 0 /\ x.run > 0 THEN write_ff(x) ELSE x
Packed(y) == [size |-> y.at, bad |-> y.bad, s |-> Part(y.buf, 1, y.at)]
sproto_pack(bufsz) ==
    Packed(LastRun(FoldLeft(PackOne, [buf |-> [i \in 1 .. bufsz |-> 0], bad |-> FALSE, at |-> 0, left |-> bufsz,
                                      n |-> 0, run |-> 0, from |-> 0, des |-> 0],
                            [k \in 1 .. ((Len(msg) + Seg - 1) \div Seg) |-> Seg * (k - 1)])))

\* lpack: "the worst-case space overhead of packing is 2 bytes per 2 KiB of input"
MaxSize(sz) == ((sz + MaxRun * Seg - 1) \div (MaxRun * Seg)) * 2 + sz + 2
lpack == sproto_pack(MaxSize(Len(msg)))

RECURSIVE UnpackSeg(_, _)
\* x: the packed bytes left, the output, its room, and the size it needs
UnpackSeg(x, bufsz) ==
    LET header == x.s[1]
        n == (x.s[2] + 1) * Seg
        flags == [i \in 1 .. Seg |-> (header \div 2 ^ (i - 1)) % 2]
        used(i) == Cardinality({j \in 1 .. i : flags[j] = 1})
        seg == [i \in 1 .. Seg |-> IF flags[i] = 1 THEN x.s[1 + used(i)] ELSE 0]
        room == IF x.left > Seg THEN Seg ELSE IF x.left < 0 THEN 0 ELSE x.left
    IN  IF x.s = <<>> \/ x.size < 0 THEN x
        ELSE IF header = FF
             THEN IF Len(x.s) < 2 \/ Len(x.s) - 2 < n THEN [x EXCEPT !.size = -1]
                  ELSE UnpackSeg([s |-> SubSeq(x.s, 3 + n, Len(x.s)), size |-> x.size + n, left |-> x.left - n,
                                  out |-> IF x.left >= n THEN x.out \o SubSeq(x.s, 3, 2 + n) ELSE x.out], bufsz)
        ELSE IF Len(x.s) - 1 < used(Seg) THEN [x EXCEPT !.size = -1]
        ELSE UnpackSeg([s |-> SubSeq(x.s, 2 + used(Seg), Len(x.s)), size |-> x.size + Seg, left |-> x.left - room,
                        out |-> x.out \o SubSeq(seg, 1, room)], bufsz)

sproto_unpack(s, bufsz) == UnpackSeg([s |-> s, out |-> <<>>, left |-> bufsz, size |-> 0], bufsz)

\* again with a buffer of the size the first try asked for
lunpack(s) ==
    LET again(r) == IF r.size > OutSize THEN sproto_unpack(s, r.size).out ELSE r.out
    IN  again(sproto_unpack(s, OutSize))

-----------------------------------------------------------------------------
(* A message is encoded and decoded, a string packed and unpacked.         *)

Init ==
    /\ \/ stage = "value" /\ msg \in Messages
       \/ stage = "source" /\ msg \in Sources
    /\ wire = <<>> /\ output = Failed

Encode ==
    /\ stage = "value"
    /\ stage' = "wire" /\ wire' = lencode(Types[msg[1]], msg[3], BufferSize).s
    /\ UNCHANGED <<msg, output>>

ldecode ==
    /\ stage = "wire"
    /\ stage' = "done" /\ output' = sproto_decode(Types[msg[2]], wire)
    /\ UNCHANGED <<msg, wire>>

Pack == stage = "source" /\ stage' = "packed" /\ wire' = lpack /\ UNCHANGED <<msg, output>>
Unpack == stage = "packed" /\ stage' = "unpacked" /\ output' = lunpack(wire.s) /\ UNCHANGED <<msg, wire>>

Next == Encode \/ ldecode \/ Pack \/ Unpack
Spec == Init /\ [][Next]_sprotoVars

-----------------------------------------------------------------------------
(* Properties.                                                             *)

RECURSIVE View(_, _, _)
\* what a reader who knows the type new sees of a struct of the type old: the
\* fields of new, in structs as deep as they go
View(new, old, v) ==
    LET Field(t) == new.f[CHOOSE k \in DOMAIN new.f : new.f[k].tag = t]
        Of(t) == old.f[CHOOSE k \in DOMAIN old.f : old.f[k].tag = t]
        Sub(t, x) == View(Types[Field(t).st], Types[Of(t).st], x)
        plain(t) == Field(t).type # "struct" \/ Field(t).map
    IN  [t \in {t \in DOMAIN v : \E k \in DOMAIN new.f : new.f[k].tag = t} |->
           IF plain(t) THEN v[t] ELSE IF Field(t).array THEN [k \in DOMAIN v[t] |-> Sub(t, v[t][k])] ELSE Sub(t, v[t])]

\* A decoded message is the encoded one, all its bytes are used, and a reader with
\* another version of the type sees the fields it knows: numbers at the limits of
\* the widths and of the header, lists whose numbers change width on the way,
\* fields left out, skipped tags, empty lists, keys and maps.
SprotoRoundTrip ==
    stage = "done" => /\ output.ok /\ output.used = Len(wire)
                      /\ output.s = View(Types[msg[2]], Types[msg[1]], msg[3])

\* A buffer that is too small makes the encoder fail, never write past its end and
\* never write something else: the retry with a larger one loses nothing.
SprotoBuffer ==
    stage = "wire" =>
      LET fits(r, size) == r.ok => r.s = wire /\ Len(wire) <= size
      IN  \A size \in 0 .. Len(wire) + 12 : fits(sproto_encode(Types[msg[1]], msg[3], size), size)

Padded == msg \o [k \in 1 .. (Seg - (Len(msg) % Seg)) % Seg |-> 0]

\* lpack's bound on the packed size holds for every source, so it never raises
\* "packing error"; with a buffer of any size sproto_pack asks for the same size and
\* stores nothing past its end; and unpacking gives the source back, padded to whole
\* segments, also when the first buffer was too small.
PackRoundTrip ==
    /\ stage \in {"packed", "unpacked"} => wire.size <= MaxSize(Len(msg)) /\ ~wire.bad
    /\ stage = "packed" => LET same(r) == ~r.bad /\ r.size = wire.size
                           IN  \A n \in 0 .. wire.size : same(sproto_pack(n))
    /\ stage = "unpacked" => output = Padded
=============================================================================
