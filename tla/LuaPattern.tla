----------------------------- MODULE LuaPattern -----------------------------
(***************************************************************************)
(* The pattern matching of 3rd/lua/lstrlib.c, which the HTTP, redis and    *)
(* configuration code of the server parses with: string.find, match,      *)
(* gmatch and gsub.  A string is a sequence of one-letter strings; a       *)
(* position is an index of it, Len + 1 the terminating zero, NULL is 0 and *)
(* Raised is a Lua error, which no caller of match handles.                *)
(*                                                                         *)
(* The inputs are sequences of the items of a pattern; Render gives the    *)
(* pattern the code sees, and the reference Ways works on the items.       *)
(***************************************************************************)
EXTENDS Integers, Sequences, SequencesExt, FiniteSets

CONSTANTS Subjects,        \* the strings searched
          Patterns,        \* the patterns, as sequences of items
          Malformed,       \* patterns that are refused, as strings
          Repls,           \* the replacements of gsub
          Code,            \* the order of the letters
          Alpha, Digit,    \* the letters isalpha, isdigit accept
          LUA_MAXCAPTURES, MAXCCALLS

VARIABLES job,  \* the call: subject, items, pattern, anchored
          gm,   \* the state of a gmatch iteration
          got,  \* the captures gmatch has given
          out   \* what the other calls returned

patVars == <<job, gm, got, out>>

NULL == 0
Raised == -1
ErrorText == <<"error">>  \* what a call that raised gives
CAP_UNFINISHED == -1
CAP_POSITION == -2

Letter(s, i) == IF i \in 1..Len(s) THEN s[i] ELSE ""

-----------------------------------------------------------------------------
(* Items and the reference.  An item is [k, c, q]: its kind, its           *)
(* characters and its suffix.                                              *)

SetText(c) == <<"[">> \o c \o <<"]">>
Suffix(q) == IF q = "" THEN <<>> ELSE <<q>>

RenderItem(it) ==
    CASE it.k = "char" -> it.c \o Suffix(it.q)
      [] it.k = "any" -> <<".">> \o Suffix(it.q)
      [] it.k = "class" -> <<"%">> \o it.c \o Suffix(it.q)
      [] it.k = "set" -> SetText(it.c) \o Suffix(it.q)
      [] it.k = "frontier" -> <<"%", "f">> \o SetText(it.c)
      [] it.k = "balance" -> <<"%", "b">> \o it.c
      [] it.k = "back" -> <<"%">> \o it.c
      [] OTHER -> <<it.k>>  \* ( ) and $
Render(items) == FlattenSeq([i \in 1..Len(items) |-> RenderItem(items[i])])

ClassOf(c) == CASE c = "a" -> Alpha [] c = "d" -> Digit [] OTHER -> {c}

\* the characters a set accepts: [^...], [x-y], [%d...] and plain ones
SetAccepts(c, x) ==
    LET not == Head(c) = "^"
        b == IF not THEN Tail(c) ELSE c
        in == CASE Len(b) = 3 /\ b[2] = "-" -> Code[b[1]] <= Code[x] /\ Code[x] <= Code[b[3]]
                [] b[1] = "%" -> x \in ClassOf(b[2]) \/ \E i \in 3..Len(b) : b[i] = x
                [] OTHER -> x \in ToSet(b)
    IN in # not
Accepts(it, x) ==
    CASE it.k = "any" -> TRUE
      [] it.k = "class" -> x \in ClassOf(it.c[1])
      [] it.k = "set" -> SetAccepts(it.c, x)
      [] OTHER -> x = it.c[1]

\* where the balanced text opened at s ends, or 0
Nesting(sub, it, s, e) ==
    Cardinality({i \in s..e : sub[i] = it.c[1]}) - Cardinality({i \in s..e : sub[i] = it.c[2]})
BalancedEnd(sub, it, s) ==
    IF Letter(sub, s) # it.c[1] THEN 0
    ELSE LET E == {e \in s..Len(sub) : Nesting(sub, it, s, e) = 0} IN
         IF E = {} THEN 0 ELSE 1 + (CHOOSE e \in E : \A x \in E : e <= x)

LastOpen(caps) ==
    LET O == {i \in 1..Len(caps) : caps[i].len = CAP_UNFINISHED} IN
    IF O = {} THEN 0 ELSE CHOOSE i \in O : \A j \in O : j <= i

\* every way to match the items at s, the preferred ones first
RECURSIVE Ways(_, _, _, _)
Ways(sub, items, s, caps) ==
    IF items = <<>> THEN <<[e |-> s, caps |-> caps]>>
    ELSE LET it == Head(items)
             More(e, cs) == Ways(sub, Tail(items), e, cs)
             Run(n) == \A i \in s..(s + n - 1) : i <= Len(sub) /\ Accepts(it, sub[i])
             runs == Cardinality({n \in 1..Len(sub) : Run(n)})
             lo == IF it.q \in {"", "+"} THEN 1 ELSE 0
             hi == IF it.q \in {"", "?"} THEN (IF runs = 0 THEN 0 ELSE 1) ELSE runs
             n == IF hi < lo THEN 0 ELSE hi - lo + 1
         IN CASE it.k = "(" ->
                 IF Len(items) > 1 /\ items[2].k = ")"
                 THEN Ways(sub, SubSeq(items, 3, Len(items)), s, Append(caps, [init |-> s, len |-> CAP_POSITION]))
                 ELSE More(s, Append(caps, [init |-> s, len |-> CAP_UNFINISHED]))
              [] it.k = ")" -> More(s, [caps EXCEPT ![LastOpen(caps)].len = s - caps[LastOpen(caps)].init])
              [] it.k = "$" -> IF s = Len(sub) + 1 THEN More(s, caps) ELSE <<>>
              [] it.k = "frontier" ->
                 LET In(c) == IF c = "" THEN Head(it.c) = "^" ELSE SetAccepts(it.c, c) IN
                 IF ~In(Letter(sub, s - 1)) /\ In(Letter(sub, s)) THEN More(s, caps) ELSE <<>>
              [] it.k = "balance" ->
                 IF BalancedEnd(sub, it, s) = 0 THEN <<>> ELSE More(BalancedEnd(sub, it, s), caps)
              [] it.k = "back" ->
                 LET c == caps[1] IN
                 IF s + c.len <= Len(sub) + 1 /\ \A i \in 0..(c.len - 1) : sub[s + i] = sub[c.init + i]
                 THEN More(s + c.len, caps) ELSE <<>>
              [] OTHER ->
                 FlattenSeq([i \in 1..n |-> More(s + (IF it.q = "-" THEN lo + i - 1 ELSE hi - i + 1), caps)])

-----------------------------------------------------------------------------
(* The code.  ms is the MatchState [src, pat, depth, level, capture]; an   *)
(* operation gives [r, ms].                                                *)

Result(r, ms) == [r |-> r, ms |-> ms]

check_capture(ms, l) ==
    IF l \notin 1..ms.level THEN Raised
    ELSE IF ms.capture[l].len = CAP_UNFINISHED THEN Raised ELSE l

RECURSIVE OpenBelow(_, _)
OpenBelow(ms, level) ==
    IF level = 0 THEN Raised
    ELSE IF ms.capture[level].len = CAP_UNFINISHED THEN level ELSE OpenBelow(ms, level - 1)
capture_to_close(ms) == OpenBelow(ms, ms.level)

\* the loop of classend that looks for the ]
RECURSIVE SetEnd(_, _)
SetEnd(pat, p) ==
    IF p > Len(pat) THEN Raised
    ELSE LET q == IF pat[p] = "%" /\ p + 1 <= Len(pat) THEN p + 2 ELSE p + 1 IN
         IF Letter(pat, q) = "]" THEN q + 1 ELSE SetEnd(pat, q)

classend(ms, p) ==
    CASE ms.pat[p] = "%" -> IF p + 1 > Len(ms.pat) THEN Raised ELSE p + 2
      [] ms.pat[p] = "[" -> SetEnd(ms.pat, IF Letter(ms.pat, p + 1) = "^" THEN p + 2 ELSE p + 1)
      [] OTHER -> p + 1

match_class(c, cl) ==
    CASE cl = "a" -> c \in Alpha
      [] cl = "A" -> c \notin Alpha
      [] cl = "d" -> c \in Digit
      [] cl = "D" -> c \notin Digit
      [] OTHER -> cl = c

RECURSIVE InBracket(_, _, _, _)
InBracket(pat, c, p, ec) ==
    IF p >= ec THEN FALSE
    ELSE IF pat[p] = "%" THEN match_class(c, pat[p + 1]) \/ InBracket(pat, c, p + 2, ec)
    ELSE IF pat[p + 1] = "-" /\ p + 2 < ec
         THEN (Code[pat[p]] <= Code[c] /\ Code[c] <= Code[pat[p + 2]]) \/ InBracket(pat, c, p + 3, ec)
    ELSE pat[p] = c \/ InBracket(pat, c, p + 1, ec)

\* p is at the [, ec at the ]
matchbracketclass(pat, c, p, ec) ==
    LET not == pat[p + 1] = "^" IN
    InBracket(pat, c, IF not THEN p + 2 ELSE p + 1, ec) # not

singlematch(ms, s, p, ep) ==
    /\ s <= Len(ms.src)
    /\ LET c == ms.src[s] IN
       CASE ms.pat[p] = "." -> TRUE
         [] ms.pat[p] = "%" -> match_class(c, ms.pat[p + 1])
         [] ms.pat[p] = "[" -> matchbracketclass(ms.pat, c, p, ep - 1)
         [] OTHER -> ms.pat[p] = c

RECURSIVE BalanceEnd(_, _, _, _)
BalanceEnd(ms, s, p, cont) ==
    IF s > Len(ms.src) THEN NULL
    ELSE IF ms.src[s] = ms.pat[p + 1]
         THEN IF cont = 1 THEN s + 1 ELSE BalanceEnd(ms, s + 1, p, cont - 1)
    ELSE BalanceEnd(ms, s + 1, p, IF ms.src[s] = ms.pat[p] THEN cont + 1 ELSE cont)

matchbalance(ms, s, p) ==
    IF p >= Len(ms.pat) THEN Raised
    ELSE IF Letter(ms.src, s) # ms.pat[p] THEN NULL ELSE BalanceEnd(ms, s + 1, p, 1)

match_capture(ms, s, l) ==
    IF check_capture(ms, l) = Raised THEN Raised
    ELSE LET c == ms.capture[l] IN
         IF c.len >= 0 /\ Len(ms.src) + 1 - s >= c.len
            /\ SubSeq(ms.src, c.init, c.init + c.len - 1) = SubSeq(ms.src, s, s + c.len - 1)
         THEN s + c.len ELSE NULL

RECURSIVE match(_, _, _)
RECURSIVE Items(_, _, _)

RECURSIVE MaxTry(_, _, _, _)
MaxTry(ms, s, i, p) ==
    LET Else(res) == IF res.r # NULL THEN res ELSE MaxTry(res.ms, s, i - 1, p)
    IN  IF i < 0 THEN Result(NULL, ms) ELSE Else(match(ms, s + i, p))

RECURSIVE Count(_, _, _, _)
Count(ms, s, p, ep) == IF singlematch(ms, s, p, ep) THEN 1 + Count(ms, s + 1, p, ep) ELSE 0

max_expand(ms, s, p, ep) == MaxTry(ms, s, Count(ms, s, p, ep), ep + 1)

RECURSIVE min_expand(_, _, _, _)
min_expand(ms, s, p, ep) ==
    LET Else(res) == IF res.r # NULL THEN res
                     ELSE IF singlematch(res.ms, s, p, ep) THEN min_expand(res.ms, s + 1, p, ep)
                     ELSE Result(NULL, res.ms)
    IN  Else(match(ms, s, ep + 1))

start_capture(ms, s, p, what) ==
    LET ms1 == [ms EXCEPT !.level = @ + 1, !.capture[ms.level + 1] = [init |-> s, len |-> what]]
        Undo(res) == IF res.r = NULL THEN Result(NULL, [res.ms EXCEPT !.level = @ - 1]) ELSE res
    IN  IF ms.level >= LUA_MAXCAPTURES THEN Result(Raised, ms) ELSE Undo(match(ms1, s, p))

\* mutant: the capture stays closed when the rest does not match
end_capture_Closed(ms, s, p) ==
    LET l == capture_to_close(ms) IN
    IF l = Raised THEN Result(Raised, ms)
    ELSE match([ms EXCEPT !.capture[l].len = s - ms.capture[l].init], s, p)

end_capture(ms, s, p) ==
    LET l == capture_to_close(ms)
        Undo(res) == IF res.r = NULL THEN Result(NULL, [res.ms EXCEPT !.capture[l].len = CAP_UNFINISHED]) ELSE res
    IN  IF l = Raised THEN Result(Raised, ms)
        ELSE Undo(match([ms EXCEPT !.capture[l].len = s - ms.capture[l].init], s, p))

\* a pattern class with an optional suffix
Suffixed(ms, s, p, ep) ==
    LET q == Letter(ms.pat, ep)
        Else(res) == IF res.r # NULL THEN res ELSE Items(res.ms, s, ep + 1)
    IN  IF ~singlematch(ms, s, p, ep)
        THEN IF q \in {"*", "?", "-"} THEN Items(ms, s, ep + 1) ELSE Result(NULL, ms)
        ELSE CASE q = "?" -> Else(match(ms, s + 1, ep + 1))
               [] q = "+" -> max_expand(ms, s + 1, p, ep)
               [] q = "*" -> max_expand(ms, s, p, ep)
               [] q = "-" -> min_expand(ms, s, p, ep)
               [] OTHER -> Items(ms, s + 1, ep)

Single(ms, s, p) == IF classend(ms, p) = Raised THEN Result(Raised, ms) ELSE Suffixed(ms, s, p, classend(ms, p))

\* %f
Frontier(ms, s, p) ==
    IF Letter(ms.pat, p) # "[" THEN Result(Raised, ms)
    ELSE LET ep == classend(ms, p)
             In(c) == matchbracketclass(ms.pat, c, p, ep - 1) IN
         IF ep = Raised THEN Result(Raised, ms)
         ELSE IF ~In(Letter(ms.src, s - 1)) /\ In(Letter(ms.src, s)) THEN Items(ms, s, ep)
         ELSE Result(NULL, ms)

\* the body of match from its label init on
Items(ms, s, p) ==
    LET Then(r, q) == IF r \in {NULL, Raised} THEN Result(r, ms) ELSE Items(ms, r, q)
        next == Letter(ms.pat, p + 1) IN
    IF p > Len(ms.pat) THEN Result(s, ms)
    ELSE CASE ms.pat[p] = "(" -> IF next = ")" THEN start_capture(ms, s, p + 2, CAP_POSITION)
                                 ELSE start_capture(ms, s, p + 1, CAP_UNFINISHED)
           [] ms.pat[p] = ")" -> end_capture(ms, s, p + 1)
           [] ms.pat[p] = "$" /\ p = Len(ms.pat) -> Result(IF s = Len(ms.src) + 1 THEN s ELSE NULL, ms)
           [] ms.pat[p] = "%" /\ next = "b" -> Then(matchbalance(ms, s, p + 2), p + 4)
           [] ms.pat[p] = "%" /\ next = "f" -> Frontier(ms, s, p + 2)
           [] ms.pat[p] = "%" /\ next = "1" -> Then(match_capture(ms, s, 1), p + 2)
           [] OTHER -> Single(ms, s, p)

match(ms, s, p) ==
    LET Return(res) == Result(res.r, [res.ms EXCEPT !.depth = @ + 1])
    IN  IF ms.depth = 0 THEN Result(Raised, ms) ELSE Return(Items([ms EXCEPT !.depth = @ - 1], s, p))

-----------------------------------------------------------------------------
(* The library functions.                                                  *)

RECURSIVE lmemfind(_, _, _, _)
lmemfind(s, s1, l1, s2) ==
    IF s2 = <<>> THEN s1
    ELSE IF Len(s2) > l1 THEN NULL
    ELSE LET I == {i \in s1..(s1 + l1 - Len(s2)) : s[i] = s2[1]} IN
         IF I = {} THEN NULL
         ELSE LET init == CHOOSE i \in I : \A j \in I : i <= j IN
              IF SubSeq(s, init, init + Len(s2) - 1) = s2 THEN init
              ELSE lmemfind(s, init + 1, l1 - (init + 1 - s1), s2)

\* the text or the position of the i-th capture
get_onecapture(ms, i, s, e) ==
    IF i > ms.level THEN IF i = 1 THEN SubSeq(ms.src, s, e - 1) ELSE ErrorText
    ELSE LET c == ms.capture[i] IN
         CASE c.len = CAP_UNFINISHED -> ErrorText
           [] c.len = CAP_POSITION -> <<"pos", c.init>>
           [] OTHER -> SubSeq(ms.src, c.init, c.init + c.len - 1)
push_captures(ms, whole, s, e) ==
    [i \in 1..(IF ms.level = 0 /\ whole THEN 1 ELSE ms.level) |-> get_onecapture(ms, i, s, e)]

nospecials(p) == ToSet(p) \cap {"^", "$", "*", "+", "?", ".", "(", "[", "%", "-"} = {}

prepstate(src, pat) ==
    [src |-> src, pat |-> pat, depth |-> MAXCCALLS, level |-> 0,
     capture |-> [i \in 1..LUA_MAXCAPTURES |-> [init |-> 0, len |-> 0]]]
reprepstate(ms) == [ms EXCEPT !.level = 0]

\* the first start from s1 on where the pattern matches
RECURSIVE Search(_, _, _)
Search(ms, s1, anchor) ==
    LET From(res) == IF res.r # NULL THEN [start |-> s1, r |-> res.r, ms |-> res.ms]
                     ELSE IF s1 <= Len(ms.src) /\ ~anchor THEN Search(res.ms, s1 + 1, anchor)
                     ELSE [start |-> 0, r |-> NULL, ms |-> res.ms]
    IN  From(match(reprepstate(ms), s1, 1))

Anchored(p) == Letter(p, 1) = "^"
Unanchored(p) == IF Anchored(p) THEN Tail(p) ELSE p

str_find_aux(find, s, p, init, plain) ==
    LET Found(s2) == IF s2 = NULL THEN <<>> ELSE <<s2, s2 + Len(p) - 1>>
        Matched(m) == CASE m.r = NULL -> <<>>
                        [] m.r = Raised -> <<ErrorText>>
                        [] OTHER -> (IF find THEN <<m.start, m.r - 1>> ELSE <<>>) \o push_captures(m.ms, ~find, m.start, m.r)
    IN  IF find /\ (plain \/ nospecials(p)) THEN Found(lmemfind(s, init, Len(s) + 1 - init, p))
        ELSE Matched(Search(prepstate(s, Unanchored(p)), init, Anchored(p)))

\* the replacement string of gsub, its % escapes expanded
RECURSIVE add_s(_, _, _, _)
add_s(ms, news, s, e) ==
    IF "%" \notin ToSet(news) THEN news
    ELSE LET p == CHOOSE i \in 1..Len(news) : news[i] = "%" /\ \A j \in 1..(i - 1) : news[j] # "%"
             x == Letter(news, p + 1)
             add == CASE x = "%" -> <<"%">>
                      [] x = "0" -> SubSeq(ms.src, s, e - 1)
                      [] x = "1" -> get_onecapture(ms, 1, s, e)
                      [] x = "2" -> get_onecapture(ms, 2, s, e)
                      [] OTHER -> ErrorText
         IN SubSeq(news, 1, p - 1) \o add \o add_s(ms, SubSeq(news, p + 2, Len(news)), s, e)

\* repl.t says what the third argument is.  The function stands for one that
\* answers with its last argument, false when that is empty.
add_value(ms, repl, s, e) ==
    LET caps == push_captures(ms, TRUE, s, e)
        key == get_onecapture(ms, 1, s, e)
        v == CASE repl.t = "function" -> Last(caps)
               [] repl.t = "table" -> IF key \in DOMAIN repl.v THEN repl.v[key] ELSE <<>>
               [] OTHER -> <<>>
    IN IF repl.t = "string" THEN [add |-> add_s(ms, repl.v, s, e), changed |-> TRUE]
       ELSE IF v = <<>> THEN [add |-> SubSeq(ms.src, s, e - 1), changed |-> FALSE]
       ELSE [add |-> v, changed |-> TRUE]

\* the loop of gsub: g is [ms, src, last, n, b, changed, r]
RECURSIVE GsubLoop(_, _, _, _)
GsubStep(g, res, repl, max_s, anchor) ==
    LET Again(h) == IF anchor THEN h ELSE GsubLoop(h, repl, max_s, anchor)
        Hit(v) == [g EXCEPT !.n = @ + 1, !.b = @ \o v.add, !.changed = @ \/ v.changed, !.src = res.r, !.last = res.r]
        Miss == [g EXCEPT !.b = Append(@, g.ms.src[g.src]), !.src = @ + 1]
    IN  CASE res.r = Raised -> [g EXCEPT !.r = Raised]
          [] res.r \notin {NULL, Raised, g.last} -> Again(Hit(add_value(res.ms, repl, g.src, res.r)))
          [] OTHER -> IF g.src > Len(g.ms.src) THEN g ELSE Again(Miss)

GsubLoop(g, repl, max_s, anchor) ==
    IF g.n >= max_s THEN g ELSE GsubStep(g, match(reprepstate(g.ms), g.src, 1), repl, max_s, anchor)

str_gsub(s, p, repl, max_s) ==
    LET Subject(g) == IF g.r = Raised THEN [s |-> ErrorText, n |-> 0]
                      ELSE [s |-> IF g.changed THEN g.b \o SubSeq(s, g.src, Len(s)) ELSE s, n |-> g.n]
    IN  Subject(GsubLoop([ms |-> prepstate(s, Unanchored(p)), src |-> 1, last |-> NULL,
                          n |-> 0, b |-> <<>>, changed |-> FALSE, r |-> 0], repl, max_s, Anchored(p)))

-----------------------------------------------------------------------------

Pattern == IF job.anchor THEN <<"^">> \o job.pat ELSE job.pat
Idle == [op |-> "none"]

PatInit ==
    /\ \E s \in Subjects, a \in BOOLEAN :
          \/ \E items \in Patterns : job = [s |-> s, items |-> items, pat |-> Render(items), anchor |-> a, ok |-> TRUE]
          \/ \E p \in Malformed : job = [s |-> s, items |-> <<>>, pat |-> p, anchor |-> a, ok |-> FALSE]
    /\ gm = Idle
    /\ got = <<>>
    /\ out = Idle

str_find(init) ==
    /\ out = Idle /\ gm = Idle
    /\ out' = [op |-> "find", init |-> init, v |-> str_find_aux(TRUE, job.s, Pattern, init, FALSE)]
    /\ UNCHANGED <<job, gm, got>>

\* find with the fourth argument: the pattern is plain text
FindPlain(init) ==
    /\ out = Idle /\ gm = Idle
    /\ out' = [op |-> "plain", init |-> init, v |-> str_find_aux(TRUE, job.s, Pattern, init, TRUE)]
    /\ UNCHANGED <<job, gm, got>>

str_match(init) ==
    /\ out = Idle /\ gm = Idle
    /\ out' = [op |-> "match", init |-> init, v |-> str_find_aux(FALSE, job.s, Pattern, init, FALSE)]
    /\ UNCHANGED <<job, gm, got>>

Gsub(repl, max_s) ==
    /\ out = Idle /\ gm = Idle
    /\ out' = [op |-> "gsub", init |-> 1, repl |-> repl, max |-> max_s, v |-> str_gsub(job.s, Pattern, repl, max_s)]
    /\ UNCHANGED <<job, gm, got>>

\* in gmatch a ^ is no anchor
gmatch ==
    /\ out = Idle /\ gm = Idle /\ ~job.anchor
    /\ gm' = [op |-> "gmatch", src |-> 1, lastmatch |-> NULL, ms |-> prepstate(job.s, job.pat), done |-> FALSE]
    /\ UNCHANGED <<job, got, out>>

\* the first src from the state's on with a match that is not the last one's end
RECURSIVE NextMatch(_, _)
NextMatch(ms, src) ==
    LET Else(res) == IF res.r \notin {NULL, gm.lastmatch} THEN [start |-> src, r |-> res.r, ms |-> res.ms]
                     ELSE NextMatch(res.ms, src + 1)
    IN  IF src > Len(ms.src) + 1 THEN [start |-> 0, r |-> NULL, ms |-> ms]
        ELSE Else(match(reprepstate(ms), src, 1))

gmatch_aux ==
    /\ gm # Idle /\ ~gm.done
    /\ \E m \in {NextMatch(gm.ms, gm.src)} :
         IF m.r \in {NULL, Raised}
         THEN /\ gm' = [gm EXCEPT !.done = TRUE, !.ms = m.ms]
              /\ got' = IF m.r = Raised THEN Append(got, <<ErrorText>>) ELSE got
         ELSE /\ gm' = [gm EXCEPT !.src = m.r, !.lastmatch = m.r, !.ms = m.ms]
              /\ got' = Append(got, push_captures(m.ms, TRUE, m.start, m.r))
    /\ UNCHANGED <<job, out>>

PatNext ==
    \/ \E init \in 1..(Len(job.s) + 1) : str_find(init) \/ FindPlain(init) \/ str_match(init)
    \/ \E repl \in Repls, m \in {1, Len(job.s) + 1} : Gsub(repl, m)
    \/ gmatch
    \/ gmatch_aux

PatSpec == PatInit /\ [][PatNext]_patVars

-----------------------------------------------------------------------------
(* The reference: the leftmost start, there the preferred way.             *)

Preferred(i) == LET At(w) == IF w = <<>> THEN <<>> ELSE <<[start |-> i, e |-> w[1].e, caps |-> w[1].caps]>>
                IN  At(Ways(job.s, job.items, i, <<>>))
RefMatch(init) ==
    LET First(found) == IF found = <<>> THEN [start |-> 0] ELSE found[1]
    IN  First(FlattenSeq([n \in 1..(IF job.anchor THEN 1 ELSE Len(job.s) + 2 - init) |-> Preferred(init + n - 1)]))

CapText(c) == IF c.len = CAP_POSITION THEN <<"pos", c.init>> ELSE SubSeq(job.s, c.init, c.init + c.len - 1)
RefCaptures(m, whole) ==
    IF m.caps = <<>> /\ whole THEN <<SubSeq(job.s, m.start, m.e - 1)>>
    ELSE [i \in 1..Len(m.caps) |-> CapText(m.caps[i])]

\* the starts and ends of the matches one after the other, none ending where
\* the one before ended
RECURSIVE RefAll(_, _)
RefAll(src, last) ==
    LET And(m) == IF m # <<>> /\ m[1].e # last THEN m \o RefAll(m[1].e, m[1].e) ELSE RefAll(src + 1, last)
    IN  IF src > Len(job.s) + 1 THEN <<>> ELSE And(Preferred(src))

\* match may run out of its C stack, with as many items as it may nest calls
TooComplex == Len(job.items) >= MAXCCALLS

\* the text of the pattern stands at i
PlainAt(i) == i + Len(Pattern) - 1 <= Len(job.s) /\ SubSeq(job.s, i, i + Len(Pattern) - 1) = Pattern

(* The backtracking matcher finds the leftmost start, there the preferred  *)
(* way to match, with the captures of that way and no trace of the ways it *)
(* gave up; gmatch gives each match once and ends; gsub counts the same    *)
(* matches and copies what lies between them; a pattern is refused only    *)
(* when it is malformed or has as many items as match may nest calls.      *)
MatchesPreferred ==
    LET Found(m) == IF m.start = 0 THEN <<>>
                    ELSE IF out.op = "find" THEN <<m.start, m.e - 1>> \o RefCaptures(m, FALSE)
                    ELSE RefCaptures(m, TRUE)
        Given(all) == /\ Len(got) <= Len(all)
                      /\ \A i \in 1..Len(got) : got[i] = RefCaptures(all[i], TRUE)
                      /\ gm.done => Len(got) = Len(all) /\ gm.ms.depth = MAXCCALLS
        Counted(n) == out.v.n = IF out.max < n THEN out.max ELSE n
    IN /\ (out.op \in {"find", "match"} /\ job.ok /\ ~nospecials(job.pat)) =>
            \/ TooComplex /\ Len(out.v) = 1 /\ out.v[1] = ErrorText
            \/ out.v = Found(RefMatch(out.init))
       /\ (out.op = "plain" \/ (out.op = "find" /\ nospecials(Pattern))) =>
            LET S == {i \in out.init..(Len(job.s) + 1) : PlainAt(i)} IN
            IF S = {} THEN out.v = <<>>
            ELSE out.v[1] \in S /\ (\A i \in S : out.v[1] <= i) /\ out.v[2] = out.v[1] + Len(Pattern) - 1
       /\ (out.op = "match" /\ ~job.ok) => out.v \in {<<>>, <<ErrorText>>}
       /\ (gm # Idle /\ job.ok) =>
            \/ TooComplex /\ got # <<>> /\ Last(got) = <<ErrorText>>
            \/ Given(RefAll(1, 0))
       /\ (out.op = "gsub" /\ job.ok /\ ~job.anchor) =>
            \/ TooComplex /\ out.v.s = ErrorText
            \/ Counted(Len(RefAll(1, 0))) /\ (out.repl.v = <<"%", "0">> => out.v.s = job.s)
=============================================================================
