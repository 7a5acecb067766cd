------------------------------- MODULE LuaPack -------------------------------
(***************************************************************************)
(* string.pack, string.packsize and string.unpack of 3rd/lua/lstrlib.c,    *)
(* with which the gates, the websocket and the login code write and read   *)
(* the headers of their messages.  A format is a sequence of options       *)
(* [o, n]: the letter and the number behind it, None when there is none.   *)
(* A byte is a member of 0..Byte-1; a Lua integer has SZINT bytes, a float *)
(* is the sequence of its native bytes.                                    *)
(***************************************************************************)
EXTENDS Integers, Sequences, SequencesExt

CONSTANTS Jobs,        \* the formats with their arguments: [fmt, args]
          Byte,        \* 2^NB
          SZINT,       \* sizeof(lua_Integer)
          MAXINTSIZE, MAXALIGN, SizeofInt, SizeofShort, SizeofFloat

VARIABLES call,  \* the format and the arguments
          data,  \* what pack gave
          got    \* what unpack gave: [v, pos, cut], pos = 0 when it raised an error

packVars == <<call, data, got>>

None == -1
Raised == <<-1>>  \* no bytes: the call raised an error
NotYetPacked == <<-2>>
Pow(n) == Byte^n
Pad == 0  \* LUAL_PACKPADBYTE

\* lua_Unsigned and back
Unsigned(n) == n % Pow(SZINT)
Signed(u) == IF u >= Pow(SZINT) \div 2 THEN u - Pow(SZINT) ELSE u

-----------------------------------------------------------------------------
(* Options.  h is the Header [islittle, maxalign]; the machine is little   *)
(* endian.  An option is [k, size, h], k = "error" when it is refused.     *)

initheader == [islittle |-> TRUE, maxalign |-> 1]
getnum(n, df) == IF n = None THEN df ELSE n
getnumlimit(n, df) == LET sz == getnum(n, df) IN IF sz > MAXINTSIZE \/ sz <= 0 THEN None ELSE sz

Option(k, size, h) == [k |-> IF size = None THEN "error" ELSE k, size |-> size, h |-> h]

getoption(h, opt) ==
    CASE opt.o = "b" -> Option("Kint", 1, h)
      [] opt.o = "B" -> Option("Kuint", 1, h)
      [] opt.o = "h" -> Option("Kint", SizeofShort, h)
      [] opt.o = "H" -> Option("Kuint", SizeofShort, h)
      [] opt.o = "j" -> Option("Kint", SZINT, h)
      [] opt.o = "J" -> Option("Kuint", SZINT, h)
      [] opt.o = "f" -> Option("Kfloat", SizeofFloat, h)
      [] opt.o = "d" -> Option("Kdouble", SZINT, h)
      [] opt.o = "i" -> Option("Kint", getnumlimit(opt.n, SizeofInt), h)
      [] opt.o = "I" -> Option("Kuint", getnumlimit(opt.n, SizeofInt), h)
      [] opt.o = "s" -> Option("Kstring", getnumlimit(opt.n, SZINT), h)
      [] opt.o = "c" -> Option("Kchar", getnum(opt.n, None), h)
      [] opt.o = "z" -> Option("Kzstr", 0, h)
      [] opt.o = "x" -> Option("Kpadding", 1, h)
      [] opt.o = "X" -> Option("Kpaddalign", 0, h)
      [] opt.o = "<" -> Option("Knop", 0, [h EXCEPT !.islittle = TRUE])
      [] opt.o = ">" -> Option("Knop", 0, [h EXCEPT !.islittle = FALSE])
      [] opt.o = "!" -> LET a == getnumlimit(opt.n, MAXALIGN) IN
                        [Option("Knop", a, [h EXCEPT !.maxalign = a]) EXCEPT !.size = 0]
      [] OTHER -> Option("error", None, h)

PowerOf2(n) == \E i \in 0..n : 2^i = n

\* the first option of fmt with its alignment, and how many it took
Aligned(opt, h, align, totalsize, rest) ==
    LET D(pad) == [k |-> opt.k, size |-> opt.size, h |-> h, pad |-> pad, rest |-> rest]
        a == IF align > opt.h.maxalign THEN opt.h.maxalign ELSE align
    IN IF align <= 1 \/ opt.k = "Kchar" THEN D(0)
       ELSE IF PowerOf2(a) THEN D((a - (totalsize % a)) % a)
       ELSE [k |-> "error"]

\* Kpaddalign aligns to the option behind it, which it takes too
Paddalign(opt, next, totalsize, rest) ==
    IF next.k \in {"Kchar", "error"} \/ next.size = 0 THEN [k |-> "error"]
    ELSE Aligned(opt, next.h, next.size, totalsize, rest)

DetailsOf(opt, totalsize, fmt) ==
    IF opt.k = "error" \/ (opt.k = "Kpaddalign" /\ Len(fmt) = 1) THEN [k |-> "error"]
    ELSE IF opt.k = "Kpaddalign" THEN Paddalign(opt, getoption(opt.h, fmt[2]), totalsize, Tail(Tail(fmt)))
    ELSE Aligned(opt, opt.h, opt.size, totalsize, Tail(fmt))

getdetails(h, totalsize, fmt) == DetailsOf(getoption(h, fmt[1]), totalsize, fmt)

-----------------------------------------------------------------------------
(* Bytes of an integer, least significant first, then in the order asked.  *)

Ordered(bytes, islittle) == IF islittle THEN bytes ELSE Reverse(bytes)

\* mutant: the bytes past a Lua integer stay zero for a negative number
packint_Zero(n, islittle, size, neg) ==
    Ordered([i \in 1..size |-> (n \div Pow(i - 1)) % Byte], islittle)

packint(n, islittle, size, neg) ==
    Ordered([i \in 1..size |-> IF neg /\ i > SZINT THEN Byte - 1 ELSE (n \div Pow(i - 1)) % Byte], islittle)

\* <<n>>, or nothing when the bytes past a Lua integer say it does not fit
unpackint(bytes, islittle, issigned) ==
    LET size == Len(bytes)
        b == Ordered(bytes, islittle)
        limit == IF size <= SZINT THEN size ELSE SZINT
        res == FoldLeft(LAMBDA acc, x : acc * Byte + x, 0, Reverse(SubSeq(b, 1, limit)))
        mask == Pow(size) \div 2
        over == IF ~issigned \/ Signed(res) >= 0 THEN 0 ELSE Byte - 1
    IN IF size < SZINT /\ issigned THEN <<IF res >= mask THEN res - Pow(size) ELSE res>>
       ELSE IF \E i \in (limit + 1)..size : b[i] # over THEN <<>>
       ELSE <<Signed(res)>>

copywithendian(bytes, islittle) == Ordered(bytes, islittle)

\* a float keeps the high bytes of a double, which comes last in memory
ToFloat(f) == SubSeq(f, SZINT - SizeofFloat + 1, SZINT)
FromFloat(f) == [i \in 1..(SZINT - SizeofFloat) |-> 0] \o f

-----------------------------------------------------------------------------

Zeros(n) == [i \in 1..n |-> Pad]

\* the bytes of one argument, Raised when it does not fit
PackOne(d, v) ==
    CASE d.k = "Kint" ->
         IF d.size < SZINT /\ ~(-(Pow(d.size) \div 2) <= v /\ v < Pow(d.size) \div 2) THEN Raised
         ELSE packint(Unsigned(v), d.h.islittle, d.size, v < 0)
      [] d.k = "Kuint" ->
         IF d.size < SZINT /\ Unsigned(v) >= Pow(d.size) THEN Raised
         ELSE packint(Unsigned(v), d.h.islittle, d.size, FALSE)
      [] d.k = "Kfloat" -> copywithendian(ToFloat(v), d.h.islittle)
      [] d.k = "Kdouble" -> copywithendian(v, d.h.islittle)
      [] d.k = "Kchar" -> IF Len(v) > d.size THEN Raised ELSE v \o Zeros(d.size - Len(v))
      [] d.k = "Kstring" ->
         IF d.size < SZINT /\ Len(v) >= Pow(d.size) THEN Raised
         ELSE packint(Len(v), d.h.islittle, d.size, FALSE) \o v
      [] d.k = "Kzstr" -> IF 0 \in ToSet(v) THEN Raised ELSE Append(v, 0)
      [] d.k = "Kpadding" -> <<Pad>>
      [] OTHER -> <<>>

TakesValue(k) == k \notin {"Kpadding", "Kpaddalign", "Knop"}
\* what an option adds to totalsize
Grows(d, v) == d.pad + d.size + (CASE d.k = "Kstring" -> Len(v) [] d.k = "Kzstr" -> Len(v) + 1 [] OTHER -> 0)

RECURSIVE PackLoop(_, _, _, _, _)
PackNextOne(d, v, x, args, totalsize, b) ==
    IF x = Raised THEN Raised
    ELSE PackLoop(d.h, d.rest, args, totalsize + Grows(d, v), b \o Zeros(d.pad) \o x)

PackOption(d, args, totalsize, b) ==
    IF d.k = "error" \/ (TakesValue(d.k) /\ args = <<>>) THEN Raised
    ELSE IF TakesValue(d.k) THEN PackNextOne(d, Head(args), PackOne(d, Head(args)), Tail(args), totalsize, b)
    ELSE PackNextOne(d, <<>>, PackOne(d, <<>>), args, totalsize, b)

PackLoop(h, fmt, args, totalsize, b) ==
    IF fmt = <<>> THEN b ELSE PackOption(getdetails(h, totalsize, fmt), args, totalsize, b)
str_pack(fmt, args) == PackLoop(initheader, fmt, args, 0, <<>>)

RECURSIVE SizeLoop(_, _, _)
SizeOption(d, totalsize) ==
    IF d.k \in {"error", "Kstring", "Kzstr"} THEN None ELSE SizeLoop(d.h, d.rest, totalsize + d.pad + d.size)

SizeLoop(h, fmt, totalsize) == IF fmt = <<>> THEN totalsize ELSE SizeOption(getdetails(h, totalsize, fmt), totalsize)
str_packsize(fmt) == SizeLoop(initheader, fmt, 0)

\* the value of one option at pos (from 0), with the bytes it takes after size
UnpackOne(d, ld, str, pos) ==
    LET field == SubSeq(str, pos + 1, pos + d.size)
        zero == SelectInSeq(SubSeq(str, pos + 1, ld), LAMBDA x : x = 0)
        Ok(v, more) == [ok |-> TRUE, v |-> <<v>>, more |-> more]
        fail == [ok |-> FALSE]
    IN CASE d.k \in {"Kint", "Kuint"} ->
            LET n == unpackint(field, d.h.islittle, d.k = "Kint") IN
            IF n = <<>> THEN fail ELSE Ok(n[1], 0)
         [] d.k = "Kfloat" -> Ok(FromFloat(copywithendian(field, d.h.islittle)), 0)
         [] d.k = "Kdouble" -> Ok(copywithendian(field, d.h.islittle), 0)
         [] d.k = "Kchar" -> Ok(field, 0)
         [] d.k = "Kstring" ->
            LET n == unpackint(field, d.h.islittle, FALSE)
                len == IF n = <<>> THEN 0 ELSE Unsigned(n[1])
                at == pos + d.size IN
            IF n = <<>> \/ len > ld - at THEN fail ELSE Ok(SubSeq(str, at + 1, at + len), len)
         [] d.k = "Kzstr" -> IF zero = 0 THEN fail ELSE Ok(SubSeq(str, pos + 1, pos + zero - 1), zero)
         [] OTHER -> [ok |-> TRUE, v |-> <<>>, more |-> 0]

RECURSIVE UnpackLoop(_, _, _, _, _)
UnpackNextOne(d, x, str, pos, res) ==
    IF x.ok THEN UnpackLoop(d.h, d.rest, str, pos + d.pad + d.size + x.more, res \o x.v) ELSE [v |-> <<>>, pos |-> 0]

UnpackOption(d, str, pos, res) ==
    IF d.k = "error" THEN [v |-> <<>>, pos |-> 0]
    ELSE IF d.pad + d.size > Len(str) - pos THEN [v |-> <<>>, pos |-> 0]
    ELSE UnpackNextOne(d, UnpackOne(d, Len(str), str, pos + d.pad), str, pos, res)

UnpackLoop(h, fmt, str, pos, res) ==
    IF fmt = <<>> THEN [v |-> res, pos |-> pos + 1] ELSE UnpackOption(getdetails(h, pos, fmt), str, pos, res)
str_unpack(fmt, str) == UnpackLoop(initheader, fmt, str, 0, <<>>)

-----------------------------------------------------------------------------

NotYet == [v |-> <<>>, pos |-> 0, cut |-> -1]

PackInit == call \in Jobs /\ data = NotYetPacked /\ got = NotYet

Pack ==
    /\ data = NotYetPacked
    /\ data' = str_pack(call.fmt, call.args)
    /\ UNCHANGED <<call, got>>

\* the reader may have only the first n bytes yet
Unpack(n) ==
    /\ data \notin {NotYetPacked, Raised} /\ got = NotYet
    /\ n <= Len(data)
    /\ got' = [cut |-> n] @@ str_unpack(call.fmt, SubSeq(data, 1, n))
    /\ UNCHANGED <<call, data>>

PackNext == Pack \/ \E n \in 0..Len(data) : Unpack(n)

PackSpec == PackInit /\ [][PackNext]_packVars

-----------------------------------------------------------------------------

\* an argument as unpack gives it back: a fixed string is filled up, and an
\* unsigned number of a whole Lua integer may come back negative
RECURSIVE Expected(_, _, _)
Expected(h, fmt, args) ==
    LET Given(d, v) == CASE d.k = "Kchar" -> v \o Zeros(d.size - Len(v))
                         [] d.k = "Kfloat" -> FromFloat(ToFloat(v))
                         [] OTHER -> v
        From(d) == IF TakesValue(d.k) THEN <<Given(d, Head(args))>> \o Expected(d.h, d.rest, Tail(args))
                   ELSE Expected(d.h, d.rest, args)
    IN  IF fmt = <<>> THEN <<>> ELSE From(getdetails(h, 0, fmt))

(* What string.pack wrote string.unpack reads back, whatever the order of  *)
(* the bytes, the alignment and the width of the numbers, and it ends      *)
(* after the last byte; string.packsize announces the length of a format   *)
(* of fixed size; a message of which a part is missing is refused, never   *)
(* read past its end.                                                      *)
PackedIsRead ==
    (data \notin {NotYetPacked, Raised}) =>
        /\ str_packsize(call.fmt) \in {None, Len(data)}
        /\ (got.pos # 0) => /\ got.cut = Len(data) /\ got.pos = Len(data) + 1
                            /\ got.v = Expected(initheader, call.fmt, call.args)
        /\ (got # NotYet /\ got.cut = Len(data)) => got.pos # 0
=============================================================================
