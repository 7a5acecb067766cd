------------------------------- MODULE Crypt --------------------------------
(***************************************************************************)
(* lualib-src/lua-crypt.c: DES with its two paddings, the exchange of a    *)
(* secret, base64, hex and xor, as the login and gate services use them.    *)
(*                                                                         *)
(* A 32-bit word is the set of its bits.  The S-boxes and the choice of    *)
(* the bits of a subkey are stood for by other functions of the same       *)
(* arguments: that decoding undoes encoding does not depend on them.  The  *)
(* secrets are computed with words of W bits and a prime of that size.     *)
(***************************************************************************)
EXTENDS Integers, Sequences, SequencesExt, FiniteSets

CONSTANTS W,            \* bits of a word of the exchange: 64
          P,            \* the biggest prime of W bits
          CryptCalls    \* the calls that are tried

VARIABLES stage, input, wire, output

cryptVars == <<stage, input, wire, output>>

G == 5
Invalid == <<-1>>        \* luaL_error

-----------------------------------------------------------------------------
(* DES.                                                                    *)

Word == 0 .. 31
Xor(x, y) == (x \cup y) \ (x \cap y)
Shl(x, n) == {b + n : b \in x} \cap Word
Shr(x, n) == {b - n : b \in x} \cap Word
Rotl(x, n) == Shl(x, n) \cup Shr(x, 32 - n)
Every(n) == {b \in Word : (b \div n) % 2 = 0}      \* 0x0F0F0F0F is Every(4)

\* T = ((hi >> n) ^ lo) & mask; lo ^= T; hi ^= T << n, for the pair <<hi, lo>>
Swapped(w, n, mask) ==
    LET T == Xor(Shr(w[1], n), w[2]) \cap mask IN <<Xor(w[1], Shl(T, n)), Xor(w[2], T)>>
Flip(w) == <<w[2], w[1]>>
RotlFirst(w, n) == <<Rotl(w[1], n), w[2]>>

DES_IP(w) ==
    RotlFirst(Flip(Swapped(RotlFirst(
        Swapped(Swapped(Flip(Swapped(Swapped(w, 4, Every(4)), 16, Every(16))), 2, Every(2)), 8, Every(8)),
        1), 0, Word \ Every(1))), 1)

DES_FP(w) ==
    Swapped(Swapped(Flip(Swapped(Swapped(RotlFirst(Flip(
        Swapped(RotlFirst(w, 31), 0, Word \ Every(1))), 31), 8, Every(8)), 2, Every(2))), 16, Every(16)), 4, Every(4))

\* stands for the tables SB1 .. SB8
SB(n, six) == {(7 * n + 5 * b + 3 * Cardinality(six)) % 32 : b \in six} \cup {n}

Six(T, n) == {b - n : b \in T \cap n .. n + 5}
XorAll(ws) == FoldLeft(Xor, {}, ws)

\* what a round adds to Y
DES_ROUND(k, X) ==
    LET T1 == Xor(k[1], X)
        T2 == Xor(k[2], Rotl(X, 28))
    IN  XorAll(<<SB(8, Six(T1, 0)), SB(6, Six(T1, 8)), SB(4, Six(T1, 16)), SB(2, Six(T1, 24)),
                 SB(7, Six(T2, 0)), SB(5, Six(T2, 8)), SB(3, Six(T2, 16)), SB(1, Six(T2, 24))>>)

Bit(c, n) == (c \div 2 ^ n) % 2
GET_UINT32(s) == {b \in Word : Bit(s[4 - (b \div 8)], b % 8) = 1}
PUT_UINT32(x) == [k \in 1 .. 4 |-> FoldLeft(LAMBDA acc, n : acc + (IF 8 * (4 - k) + n \in x THEN 2 ^ n ELSE 0), 0,
                                            <<0, 1, 2, 3, 4, 5, 6, 7>>)]

Rot28(x, n) == {(b + n) % 28 : b \in x}

\* the subkeys: two halves of 28 bits that turn by one or two, and a choice of their
\* bits that stands for the two permuted choices
des_main_ks(key) ==
    LET C == {b \in 0 .. 27 : Bit(key[1 + (b \div 7)], b % 7) = 1}
        D == {b \in 0 .. 27 : Bit(key[5 + (b \div 7)], b % 7) = 1}
        turns == [i \in 1 .. 16 |-> 2 * i - Cardinality({1, 2, 9, 16} \cap 1 .. i)]
    IN  [i \in 1 .. 16 |-> LET X == Rot28(C, turns[i])
                               Y == Rot28(D, turns[i])
                           IN  <<{b \in X : b % 2 = 0} \cup {b \in Y : b % 2 = 1}, {b + 2 : b \in X \cup Y}>>]

PutBlock(w) == PUT_UINT32(w[1]) \o PUT_UINT32(w[2])

des_crypt(SK, s) ==
    PutBlock(DES_FP(Flip(
        FoldLeft(LAMBDA w, i : IF i % 2 = 1 THEN <<Xor(w[1], DES_ROUND(SK[i], w[2])), w[2]>>
                               ELSE <<w[1], Xor(w[2], DES_ROUND(SK[i], w[1]))>>,
                 DES_IP(<<GET_UINT32(SubSeq(s, 1, 4)), GET_UINT32(SubSeq(s, 5, 8))>>), [i \in 1 .. 16 |-> i]))))

padding_add_iso7816_4_Zero(n) == [k \in 1 .. 8 - n |-> 0]
padding_add_iso7816_4(n) == <<128>> \o [k \in 1 .. 7 - n |-> 0]
padding_remove_iso7816_4(s) ==
    LET n == Len(s)
        zeros == CHOOSE z \in 0 .. 8 : (\A k \in 0 .. z - 1 : s[n - k] = 0) /\ (z = 8 \/ s[n - z] # 0)
    IN  IF zeros < 8 /\ s[n - zeros] = 128 THEN zeros + 1 ELSE 0

padding_add_pkcs7(n) == [k \in 1 .. 8 - n |-> 8 - n]
padding_remove_pkcs7(s) ==
    LET n == Len(s)
    IN  IF \A k \in 1 .. s[n] - 1 : k < n /\ s[n - k] = s[n] THEN s[n] ELSE 0

add_padding(s, mode) ==
    s \o (IF mode = "iso7816_4" THEN padding_add_iso7816_4(Len(s)) ELSE padding_add_pkcs7(Len(s)))
remove_padding(s, mode) ==
    IF mode = "iso7816_4" THEN padding_remove_iso7816_4(s) ELSE padding_remove_pkcs7(s)

Blocks(SK, s) == FlattenSeq([k \in 1 .. Len(s) \div 8 |-> des_crypt(SK, SubSeq(s, 8 * k - 7, 8 * k))])

ldesencode(key, text, mode) ==
    LET whole == (Len(text) \div 8) * 8
        SK == des_main_ks(key)
        tail == SubSeq(text, whole + 1, Len(text))
    IN  Blocks(SK, SubSeq(text, 1, whole) \o add_padding(tail, mode))

Unpadded(plain, padding) ==
    IF padding \notin 1 .. 8 THEN Invalid ELSE SubSeq(plain, 1, Len(plain) - padding)
RemovePadding(plain, mode) == Unpadded(plain, remove_padding(plain, mode))

ldesdecode(key, text, mode) ==
    IF Len(text) % 8 # 0 \/ text = <<>> THEN Invalid
    ELSE RemovePadding(Blocks(Reverse(des_main_ks(key)), text), mode)

-----------------------------------------------------------------------------
(* Text.                                                                   *)

Hex(n) == IF n < 10 THEN 48 + n ELSE 87 + n
ltohex(s) == FlattenSeq([k \in DOMAIN s |-> <<Hex(s[k] \div 16), Hex(s[k] % 16)>>])

\* a digit of HEX is a byte that may have wrapped; 16 passes the test
HEX(c) == (IF c \in 48 .. 57 THEN c - 48 ELSE c - 87) % 256
lfromhex(s) ==
    IF Len(s) % 2 = 1 \/ \E k \in DOMAIN s : HEX(s[k]) > 16 THEN Invalid
    ELSE [k \in 1 .. Len(s) \div 2 |-> (HEX(s[2 * k - 1]) * 16 + HEX(s[2 * k])) % 256]

encoding(n) == CASE n < 26 -> 65 + n [] n \in 26 .. 51 -> 71 + n [] n \in 52 .. 61 -> n - 4 [] n = 62 -> 43 [] n = 63 -> 47

Four(v) == <<encoding(v \div 2 ^ 18), encoding((v \div 2 ^ 12) % 64), encoding((v \div 64) % 64), encoding(v % 64)>>

lb64encode(s) ==
    LET n == Len(s) \div 3
        rest == SubSeq(s, 3 * n + 1, Len(s))
        v == IF Len(rest) = 1 THEN rest[1] ELSE rest[1] * 256 + rest[2]
        groups == FlattenSeq([k \in 1 .. n |-> Four(s[3 * k - 2] * 2 ^ 16 + s[3 * k - 1] * 256 + s[3 * k])])
    IN  CASE Len(rest) = 0 -> groups
          [] Len(rest) = 1 -> groups \o <<encoding(v \div 4), encoding((v % 4) * 16), 61, 61>>
          [] Len(rest) = 2 -> groups \o <<encoding(v \div 1024), encoding((v \div 16) % 64), encoding((v % 16) * 4), 61>>

b64index(c) ==
    CASE c = 43 -> 62 [] c = 47 -> 63 [] c \in 48 .. 57 -> c + 4 [] c = 61 -> -2
      [] c \in 65 .. 90 -> c - 65 [] c \in 97 .. 122 -> c - 71 [] OTHER -> -1

\* four indexes, what is not in the alphabet left out
b64group(c) ==
    LET padding == Cardinality({k \in 1 .. 4 : c[k] = -2})
        v0 == c[1] * 2 ^ 18 + c[2] * 2 ^ 12 + c[3] * 64 + c[4]
        v1 == c[1] * 1024 + c[2] * 16 + (c[3] \div 4)
    IN  CASE padding = 0 -> <<v0 \div 2 ^ 16, (v0 \div 256) % 256, v0 % 256>>
          [] padding = 1 -> IF c[4] # -2 \/ c[3] % 4 # 0 THEN Invalid ELSE <<v1 \div 256, v1 % 256>>
          [] padding = 2 -> IF c[4] # -2 \/ c[3] # -2 \/ c[2] % 16 # 0 THEN Invalid ELSE <<c[1] * 4 + (c[2] \div 16)>>
          [] OTHER -> Invalid

\* noise after the last group starts another one
lb64decode(s) ==
    LET cs == SelectSeq([k \in DOMAIN s |-> b64index(s[k])], LAMBDA c : c # -1)
        groups == [k \in 1 .. Len(cs) \div 4 |-> b64group(SubSeq(cs, 4 * k - 3, 4 * k))]
        open == Len(cs) % 4 # 0 \/ (s # <<>> /\ b64index(s[Len(s)]) = -1)
    IN  IF open \/ \E k \in DOMAIN groups : groups[k] = Invalid THEN Invalid ELSE FlattenSeq(groups)

XorByte(x, y) == FoldLeft(LAMBDA acc, n : acc + (IF Bit(x, n) # Bit(y, n) THEN 2 ^ n ELSE 0), 0, <<0, 1, 2, 3, 4, 5, 6, 7>>)
lxor_str(s, t) == [k \in DOMAIN s |-> XorByte(s[k], t[((k - 1) % Len(t)) + 1])]

-----------------------------------------------------------------------------
(* The exchange of a secret.                                               *)

Wrap(n) == n % 2 ^ W

mul_mod_p_Twice(a, b) == Wrap(a * b) % P

RECURSIVE MulStep(_, _, _)
MulStep(m, a, b) ==
    LET t == P - a
        sum == IF m >= t THEN m - t ELSE m + a
        twice == IF a >= P - a THEN Wrap(Wrap(2 * a) - P) ELSE Wrap(2 * a)
    IN  IF b = 0 THEN m ELSE MulStep(IF b % 2 = 1 THEN sum ELSE m, twice, b \div 2)

mul_mod_p(a, b) == MulStep(0, a, b)

RECURSIVE pow_mod_p(_, _)
pow_mod_p(a, b) ==
    LET t == pow_mod_p(a, b \div 2)
        sq == mul_mod_p(t, t)
    IN  IF b = 1 THEN a ELSE IF b % 2 = 1 THEN mul_mod_p(sq, a) ELSE sq

powmodp(a, b) == pow_mod_p(IF a > P THEN a % P ELSE a, b)

\* 0 stands for the error "Can't be 0"
ldhexchange(x) == IF x = 0 THEN 0 ELSE powmodp(G, x)
ldhsecret(x, y) == IF x = 0 \/ y = 0 THEN 0 ELSE powmodp(x, y)

\* eight random bytes; when their xor is zero the first gets a bit
lrandomkey(s) == IF FoldLeft(XorByte, 0, s) = 0 THEN [s EXCEPT ![1] = IF @ % 2 = 0 THEN @ + 1 ELSE @] ELSE s

-----------------------------------------------------------------------------

Init == stage = "value" /\ input \in CryptCalls /\ wire = <<>> /\ output = <<>>

\* one side: encrypts, encodes, or sends what it computed from its random key
Encode ==
    /\ stage = "value" /\ stage' = "coded"
    /\ wire' = CASE input.op = "des" -> ldesencode(input.key, input.text, input.mode)
                 [] input.op = "hex" -> ltohex(input.text)
                 [] input.op = "base64" -> lb64encode(input.text)
                 [] input.op = "xor" -> lxor_str(input.text, input.key)
                 [] input.op = "dh" -> <<ldhexchange(input.a), ldhexchange(input.b)>>
                 [] input.op = "random" -> lrandomkey(input.text)
    /\ UNCHANGED <<input, output>>

\* base64 text may be broken into lines on the way
Decode ==
    /\ stage = "coded" /\ stage' = "done"
    /\ output' = CASE input.op = "des" -> ldesdecode(input.key, wire, input.mode)
                   [] input.op = "hex" -> lfromhex(wire)
                   [] input.op = "base64" ->
                        lb64decode(IF wire = <<>> THEN wire ELSE <<10>> \o SubSeq(wire, 1, 2) \o <<13, 10>> \o SubSeq(wire, 3, Len(wire)))
                   [] input.op = "xor" -> lxor_str(wire, input.key)
                   [] input.op = "dh" -> <<ldhsecret(wire[2], input.a), ldhsecret(wire[1], input.b)>>
                   [] input.op = "random" -> wire
    /\ UNCHANGED <<input, wire>>

Next == Encode \/ Decode
Spec == Init /\ [][Next]_cryptVars

-----------------------------------------------------------------------------
(* Properties.                                                             *)

\* Decoding gives back what was encoded: every length of the text around the blocks of
\* DES and the groups of base64, texts that end like a padding, lines in base64.
DecodesBack ==
    (stage = "done" /\ input.op \in {"des", "hex", "base64", "xor"}) => output = input.text

\* Both sides of the exchange arrive at the same secret, the power of G that neither
\* sent, although the products do not fit a word; no random key is the zero that the
\* exchange refuses.
SecretsAgree ==
    stage = "done" =>
        /\ input.op = "dh" =>
             /\ output[1] = output[2] /\ output[1] # 0
             /\ output[1] = FoldLeft(LAMBDA acc, k : (acc * wire[1]) % P, 1, [k \in 1 .. input.b |-> k])
        /\ input.op = "random" => \E k \in DOMAIN output : output[k] # 0
=============================================================================
