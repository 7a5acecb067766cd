----------------------------- MODULE LpegMatch ------------------------------
(***************************************************************************)
(* 3rd/lpeg/lpvm.c and lpcap.c: the machine that runs the code of a        *)
(* pattern over a subject, and the evaluation of the captures it records.  *)
(*                                                                         *)
(* Positions of the subject are offsets from 0.  The stack of the machine  *)
(* holds [p, s, lvl], with s = NULL for a return address; a capture is     *)
(* [s, idx, kind, siz]; dyn is the part of the Lua stack that holds the    *)
(* values of match-time captures.  A value is a string [s], a position     *)
(* [n], a constant [v], a table [t, h] or a function's result [f, args].   *)
(***************************************************************************)
EXTENDS LpegCode

CONSTANTS UCharMax,   \* longest capture that is closed in its own entry
          MaxStack,   \* MAXBACK, the limit of the backtrack stack
          InitCap,    \* INITCAPSIZE
          MaxStrCaps, \* MAXSTRCAPS
          MaxSteps,   \* bound: instructions of one match
          Args,       \* the extra arguments of match
          Programs,   \* the sequences of statements programs execute
          Subjects,   \* the strings they match
          Positions,  \* where they ask it to begin
          Probes      \* the statements whose patterns they match before they go on

NULL == -1
Garbage == -2
GIVEUP == 0

VARIABLES prog,   \* the program
          pats,   \* the patterns its statements made
          vm      \* the machine; its field left is history: an and-predicate left a value

lpegVars == <<prog, pats, vm>>

-----------------------------------------------------------------------------
(* What the functions of the Lua program answer (external).                *)

Call(f, args) == CASE f = "none" -> <<>>
                   [] f = "both" -> args \o args
                   [] OTHER -> <<[f |-> f, args |-> args]>>
Lookup(f, v) == IF v \in {[s |-> <<1>>], [v |-> "x"]} THEN <<[v |-> f]>> ELSE <<>>
\* a match-time function: whether it fails, where it moves to, its values
CallRuntime(f, pos, args) == [ok |-> f # "fail", to |-> IF f = "skip" THEN pos + 1 ELSE IF f = "back" THEN pos - 1 ELSE pos,
                              vs |-> IF f \in {"keep", "fail"} THEN <<>> ELSE IF f = "vals" THEN args \o args ELSE <<args[1]>>]
\* a position is converted to its digit
tolstring(v) == IF DOMAIN v = {"s"} THEN v.s ELSE <<100 + v.n>>
IsString(v) == DOMAIN v = {"s"} \/ DOMAIN v = {"n"}

-----------------------------------------------------------------------------
(* Captures.  X is the capture state: the entries, the ktable, the subject *)
(* and the dynamic values; each evaluation from entry c gives the values,  *)
(* the entry after it and an error.                                        *)

isclosecap(c) == c.kind = "close"
isfullcap(c) == c.siz # 0
closeaddr(c) == c.s + c.siz - 1
Text(X, from, to) == SubSeq(X.subj, from + 1, to)
Str(X, from, to) == [s |-> Text(X, from, to)]
Val(vs, i) == [v |-> vs, i |-> i, err |-> ""]
Error(msg) == [v |-> <<>>, i |-> 0, err |-> msg]

RECURSIVE findopenaux(_, _, _)
findopenaux(cap, c, n) ==
    CASE isclosecap(cap[c]) -> findopenaux(cap, c - 1, n + 1)
      [] isfullcap(cap[c]) -> findopenaux(cap, c - 1, n)
      [] OTHER -> IF n = 0 THEN c ELSE findopenaux(cap, c - 1, n - 1)
findopen(cap, c) == findopenaux(cap, c - 1, 0)

RECURSIVE findclose(_, _, _)
findclose(cap, c, n) ==
    CASE isclosecap(cap[c]) -> IF n = 0 THEN c ELSE findclose(cap, c + 1, n - 1)
      [] isfullcap(cap[c]) -> findclose(cap, c + 1, n)
      [] OTHER -> findclose(cap, c + 1, n + 1)
nextcap(X, c) == IF isfullcap(X.cap[c]) THEN c + 1 ELSE findclose(X.cap, c + 1, 0) + 1

pushluaval(X, c) == getfromktable(X.kt, X.cap[c].idx)

RECURSIVE pushcapture(_, _)
RECURSIVE substcap(_, _)
RECURSIVE stringcap(_, _)

\* the values of all the captures up to the close
RECURSIVE PushAll(_, _, _)
PushAll(X, c, vs) ==
    LET And(r) == IF r.err # "" THEN r ELSE PushAll(X, r.i, vs \o r.v)
    IN  IF isclosecap(X.cap[c]) THEN Val(vs, c) ELSE And(pushcapture(X, c))

pushnestedvalues(X, c, addextra) ==
    LET co == X.cap[c]
        Whole(r) == IF r.err # "" THEN r
                    ELSE Val(IF addextra \/ r.v = <<>> THEN Append(r.v, Str(X, co.s, X.cap[r.i].s)) ELSE r.v, r.i + 1)
    IN  IF isfullcap(co) THEN Val(<<Str(X, co.s, co.s + co.siz - 1)>>, c + 1) ELSE Whole(PushAll(X, c + 1, <<>>))

OnlyFirst(r) == IF r.err # "" THEN r ELSE [r EXCEPT !.v = <<r.v[1]>>]
pushonenestedvalue(X, c) == OnlyFirst(pushnestedvalues(X, c, FALSE))

\* the last complete group of that name before c, outside what is complete
RECURSIVE findback(_, _, _)
findback(X, c, name) ==
    IF c = 1 THEN 0
    ELSE LET k == c - 1
             m == IF isclosecap(X.cap[k]) THEN findopen(X.cap, k) ELSE k
         IN  IF ~isclosecap(X.cap[k]) /\ ~isfullcap(X.cap[k]) THEN findback(X, k, name)
             ELSE IF X.cap[m].kind = "group" /\ pushluaval(X, m) = name THEN m
             ELSE findback(X, m, name)

backrefcap(X, c) ==
    LET g == findback(X, c, pushluaval(X, c))
    IN  IF g = 0 THEN Error("back reference not found") ELSE [pushnestedvalues(X, g, FALSE) EXCEPT !.i = c + 1]

RECURSIVE TableFill(_, _, _)
TableFill(X, c, T) ==
    LET key == pushluaval(X, c).v
        Named(r) == IF r.err # "" THEN r
                    ELSE TableFill(X, r.i, [T EXCEPT !.h = {p \in @ : p[1] # key} \cup {<<key, r.v[1]>>}])
        Added(r) == IF r.err # "" THEN r ELSE TableFill(X, r.i, [T EXCEPT !.t = @ \o r.v])
    IN  CASE isclosecap(X.cap[c]) -> Val(<<T>>, c + 1)
          [] X.cap[c].kind = "group" /\ X.cap[c].idx # 0 -> Named(pushonenestedvalue(X, c))
          [] OTHER -> Added(pushcapture(X, c))
tablecap(X, c) == LET T == [t |-> <<>>, h |-> {}] IN IF isfullcap(X.cap[c]) THEN Val(<<T>>, c + 1) ELSE TableFill(X, c + 1, T)

querycap(X, c) ==
    LET Found(r) == IF r.err # "" THEN r ELSE [r EXCEPT !.v = Lookup(pushluaval(X, c).v, r.v[1])]
    IN  Found(pushonenestedvalue(X, c))

RECURSIVE FoldOn(_, _, _, _)
FoldOn(X, c, f, acc) ==
    LET And(r) == IF r.err # "" THEN r ELSE FoldOn(X, r.i, f, [f |-> f, args |-> <<acc>> \o r.v])
    IN  IF isclosecap(X.cap[c]) THEN Val(<<acc>>, c + 1) ELSE And(pushcapture(X, c))
foldcap(X, c) ==
    LET From(r) == CASE r.err # "" -> r
                     [] r.err = "" /\ r.v = <<>> -> Error("no initial value for fold capture")
                     [] OTHER -> FoldOn(X, r.i, pushluaval(X, c).v, r.v[1])
    IN  IF isfullcap(X.cap[c]) \/ isclosecap(X.cap[c + 1]) THEN Error("no initial value for fold capture")
        ELSE From(pushcapture(X, c + 1))

functioncap(X, c) ==
    LET Called(r) == IF r.err # "" THEN r ELSE [r EXCEPT !.v = Call(pushluaval(X, c).v, r.v)]
    IN  Called(pushnestedvalues(X, c, FALSE))

numcap(X, c) ==
    LET idx == X.cap[c].idx
        Numbered(r) == CASE r.err # "" -> r
                         [] r.err = "" /\ Len(r.v) < idx -> Error("no capture")
                         [] OTHER -> [r EXCEPT !.v = <<r.v[idx]>>]
    IN  IF idx = 0 THEN Val(<<>>, nextcap(X, c)) ELSE Numbered(pushnestedvalues(X, c, FALSE))

\* [cps, i]: the pieces that %0, %1, ... of a string capture stand for: a
\* string [from, to] or another capture [cp]
RECURSIVE getstrcaps(_, _, _)
RECURSIVE StrCapsOn(_, _, _)
StrCapsOn(X, c, cps) ==
    CASE isclosecap(X.cap[c]) -> [cps |-> cps, i |-> c + 1]
      [] Len(cps) >= MaxStrCaps -> StrCapsOn(X, nextcap(X, c), cps)
      [] X.cap[c].kind = "simple" -> LET r == getstrcaps(X, c, cps) IN StrCapsOn(X, r.i, r.cps)
      [] OTHER -> StrCapsOn(X, nextcap(X, c), Append(cps, [from |-> 0, to |-> 0, cp |-> c]))
getstrcaps(X, c, cps) ==
    LET k == Len(cps) + 1
        cps1 == Append(cps, [from |-> X.cap[c].s, to |-> 0, cp |-> 0])
        r == IF isfullcap(X.cap[c]) THEN [cps |-> cps1, i |-> c + 1] ELSE StrCapsOn(X, c + 1, cps1)
    IN  [r EXCEPT !.cps[k].to = closeaddr(X.cap[r.i - 1])]

\* [v, i, n, err]: the first value of a capture as a string; n says if there is one
addonestring(X, c) ==
    LET kind == X.cap[c].kind
        AsString(r) == CASE r.err # "" \/ r.v = <<>> -> r
                         [] r.v # <<>> /\ ~IsString(r.v[1]) -> Error("invalid value")
                         [] OTHER -> [r EXCEPT !.v = <<[s |-> tolstring(r.v[1])]>>]
    IN  AsString(IF kind = "string" THEN stringcap(X, c) ELSE IF kind = "subst" THEN substcap(X, c) ELSE pushcapture(X, c))

\* what %l stands for
PieceOf(X, q) ==
    LET Some(r) == IF r.err = "" /\ r.v = <<>> THEN Error("no values in capture index") ELSE r
    IN  IF q.cp = 0 THEN Val(<<Str(X, q.from, q.to)>>, 0) ELSE Some(addonestring(X, q.cp))

\* an item of the format is a character or, below 10, the number of a piece
Formatted(X, fmt, sc) ==
    LET Add(b, r) == IF r.err # "" THEN r ELSE [b EXCEPT !.v[1].s = @ \o r.v[1].s]
    IN  FoldLeft(LAMBDA b, item :
                    CASE b.err # "" -> b
                      [] item >= 10 -> [b EXCEPT !.v[1].s = Append(@, item)]
                      [] item < 10 /\ item >= Len(sc.cps) -> Error("invalid capture index")
                      [] OTHER -> Add(b, PieceOf(X, sc.cps[item + 1])),
                 Val(<<[s |-> <<>>]>>, sc.i), fmt)

stringcap(X, c) == Formatted(X, pushluaval(X, c).fmt, getstrcaps(X, c, <<>>))

RECURSIVE SubstOn(_, _, _, _)
SubstOn(X, c, curr, b) ==
    LET next == X.cap[c].s
        And(r) == CASE r.err # "" -> r
                    [] r.err = "" /\ r.v = <<>> -> SubstOn(X, r.i, next, b \o Text(X, curr, next))
                    [] OTHER -> SubstOn(X, r.i, closeaddr(X.cap[r.i - 1]), b \o Text(X, curr, next) \o r.v[1].s)
    IN  CASE isclosecap(X.cap[c]) -> Val(<<[s |-> b \o Text(X, curr, next)]>>, c + 1)
          [] ~isclosecap(X.cap[c]) /\ next = Garbage -> Error("garbage")
          [] OTHER -> And(addonestring(X, c))
substcap(X, c) ==
    LET co == X.cap[c]
    IN  IF isfullcap(co) THEN Val(<<Str(X, co.s, co.s + co.siz - 1)>>, c + 1) ELSE SubstOn(X, c + 1, co.s, <<>>)

WholeFirst(r) == IF r.err # "" THEN r ELSE [r EXCEPT !.v = <<Last(r.v)>> \o Front(r.v)]

pushcapture(X, c) ==
    LET kind == X.cap[c].kind
    IN  CASE kind = "position" -> Val(<<[n |-> X.cap[c].s + 1]>>, c + 1)
          [] kind = "const" -> Val(<<pushluaval(X, c)>>, c + 1)
          [] kind = "arg" -> IF X.cap[c].idx > Len(Args) THEN Error("reference to absent extra argument")
                             ELSE Val(<<Args[X.cap[c].idx]>>, c + 1)
          [] kind = "simple" -> WholeFirst(pushnestedvalues(X, c, TRUE))
          [] kind = "runtime" -> Val(<<X.dyn[X.cap[c].idx]>>, c + 1)
          [] kind = "string" -> stringcap(X, c)
          [] kind = "subst" -> substcap(X, c)
          [] kind = "group" -> IF X.cap[c].idx = 0 THEN pushnestedvalues(X, c, FALSE) ELSE Val(<<>>, nextcap(X, c))
          [] kind = "backref" -> backrefcap(X, c)
          [] kind = "table" -> tablecap(X, c)
          [] kind = "function" -> functioncap(X, c)
          [] kind = "num" -> numcap(X, c)
          [] kind = "query" -> querycap(X, c)
          [] OTHER -> foldcap(X, c)

getcaptures(X, r) ==
    LET Some(all) == IF all.err # "" \/ all.v # <<>> THEN all ELSE [all EXCEPT !.v = <<[n |-> r + 1]>>]
    IN  Some(PushAll(X, 1, <<>>))

-----------------------------------------------------------------------------
(* The machine.                                                            *)

Capt(s, idx, kind, siz) == [s |-> s, idx |-> idx, kind |-> kind, siz |-> siz]

\* index of the first dynamic value among entries from .. to, or 0
finddyncap(cap, from, to) ==
    LET dynamic == {c \in from .. to : cap[c].kind = "runtime"} IN IF dynamic = {} THEN 0 ELSE cap[Min(dynamic)].idx

\* the dynamic values that remain when the captures above a level go
removedyncap_Keep(dyn, cap, level) == dyn
removedyncap(dyn, cap, level) ==
    LET id == finddyncap(cap, level + 1, Len(cap)) IN IF id = 0 THEN dyn ELSE SubSeq(dyn, 1, id - 1)

Fail(m) ==
    LET top == Max({i \in DOMAIN m.st : m.st[i].s # NULL})
        e == m.st[top]
    IN  [m EXCEPT !.st = SubSeq(@, 1, top - 1), !.s = e.s, !.p = e.p,
                  !.dyn = removedyncap(@, m.cap, e.lvl), !.cap = SubSeq(@, 1, e.lvl)]

Push(m, e) == IF Len(m.st) >= MaxStack THEN [m EXCEPT !.fin = "overflow"] ELSE [m EXCEPT !.st = Append(@, e), !.p = @ + 1]

\* the array of captures doubles when it is full
doublecap(m) == IF Len(m.cap) >= m.capsize THEN [m EXCEPT !.capsize = 2 * Len(m.cap)] ELSE m
PushCap(m, c) == doublecap([m EXCEPT !.cap = Append(@, c), !.p = @ + 1])

XOf(m) == [cap |-> m.cap, kt |-> m.kt, subj |-> m.subj, dyn |-> m.dyn]

\* the values of a match-time capture, in a group in place of its entries
adddyncaptures(s, start, n, first) ==
    <<Capt(start, 0, "group", 0)>> \o [i \in 1 .. n |-> Capt(s, first + i - 1, "runtime", 1)] \o <<Capt(s, 0, "close", 1)>>

\* out is what the function answered; its captures are those from entry open on
RuntimeDone(m, open, dyn, out) ==
    LET kept == SubSeq(m.cap, 1, open - 1)
        n == Len(out.vs)
        full == open - 1 + n + 2 >= m.capsize
    IN  CASE ~out.ok -> Fail([m EXCEPT !.cap = kept, !.dyn = dyn])
          [] out.ok /\ (out.to < m.s \/ out.to > Len(m.subj)) -> [m EXCEPT !.fin = "error"]
          [] OTHER -> [m EXCEPT !.s = out.to, !.p = @ + 1, !.dyn = dyn \o out.vs,
                                !.cap = IF n = 0 THEN kept
                                        ELSE kept \o adddyncaptures(out.to, IF full THEN Garbage ELSE m.cap[open].s, n, Len(dyn) + 1),
                                !.capsize = IF full THEN 2 * (open - 1 + n + 2) ELSE @]

RuntimeFrom(m, X, open) ==
    LET id == finddyncap(X.cap, open, Len(X.cap) - 1)
        Called(r) == IF r.err # "" THEN [m EXCEPT !.fin = "error"]
                     ELSE RuntimeDone(m, open, IF id > 0 THEN SubSeq(m.dyn, 1, id - 1) ELSE m.dyn,
                                      CallRuntime(pushluaval(X, open).v, m.s, r.v))
    IN  Called(pushnestedvalues(X, open, FALSE))

runtimecap(m) ==
    LET Closed(X) == RuntimeFrom(m, X, findopen(X.cap, Len(X.cap)))
    IN  Closed([XOf(m) EXCEPT !.cap = Append(@, Capt(m.s, 0, "close", 1))])

\* the entry a pattern's closing instruction makes
CloseCapture(m) ==
    LET last == m.cap[Len(m.cap)]
    IN  IF last.siz = 0 /\ m.s - last.s < UCharMax
        THEN [m EXCEPT !.cap[Len(m.cap)].siz = m.s - last.s + 1, !.p = @ + 1]
        ELSE PushCap(m, Capt(m.s, 0, "close", 1))

\* the assertions at the instructions
AssertsHold(m) ==
    LET op == IF m.p = GIVEUP THEN "giveup" ELSE m.code[m.p].op
    IN  CASE op = "end" -> Len(m.st) = 1
          [] op = "giveup" -> m.st = <<>>
          [] op = "ret" -> m.st # <<>> /\ Last(m.st).s = NULL
          [] op \in {"commit", "partialcommit", "backcommit"} -> m.st # <<>> /\ Last(m.st).s # NULL
          [] op = "closecapture" -> m.cap # <<>>
          [] OTHER -> TRUE

\* the end of an and-predicate: its captures go, the dynamic values of them stay (left)
BackCommit(m, e, to) ==
    [m EXCEPT !.s = e.s, !.p = to, !.st = Front(@), !.cap = SubSeq(@, 1, e.lvl),
              !.left = @ \/ finddyncap(m.cap, e.lvl + 1, Len(m.cap)) # 0]

\* one instruction
match(m) ==
    LET i == m.code[m.p]
        inside == m.s < Len(m.subj)
        c == m.subj[m.s + 1]
        advance == [m EXCEPT !.s = @ + 1, !.p = @ + 1]
        jump == [m EXCEPT !.p = i.lbl]
        on == [m EXCEPT !.p = @ + 1]
        top == Last(m.st)
    IN  CASE m.p = GIVEUP -> [m EXCEPT !.fin = "nomatch"]
          [] m.p # GIVEUP /\ i.op = "end" -> [m EXCEPT !.fin = "match"]
          [] i.op = "ret" -> [m EXCEPT !.p = top.p, !.st = Front(@)]
          [] i.op = "any" -> IF inside THEN advance ELSE Fail(m)
          [] i.op = "testany" -> IF inside THEN on ELSE jump
          [] i.op = "char" -> IF inside /\ c = i.c THEN advance ELSE Fail(m)
          [] i.op = "testchar" -> IF inside /\ c = i.c THEN on ELSE jump
          [] i.op = "set" -> IF inside /\ c \in i.cs THEN advance ELSE Fail(m)
          [] i.op = "testset" -> IF inside /\ c \in i.cs THEN on ELSE jump
          [] i.op = "behind" -> IF i.n > m.s THEN Fail(m) ELSE [on EXCEPT !.s = @ - i.n]
          [] i.op = "span" -> [on EXCEPT !.s = Min({k \in m.s .. Len(m.subj) : k = Len(m.subj) \/ m.subj[k + 1] \notin i.cs})]
          [] i.op = "jmp" -> jump
          [] i.op = "choice" -> Push(m, [p |-> i.lbl, s |-> m.s, lvl |-> Len(m.cap)])
          [] i.op = "call" -> LET called == Push(m, [p |-> m.p + 1, s |-> NULL, lvl |-> 0])
                              IN  IF called.fin = "overflow" THEN called ELSE [called EXCEPT !.p = i.lbl]
          [] i.op = "commit" -> [jump EXCEPT !.st = Front(@)]
          [] i.op = "partialcommit" -> [jump EXCEPT !.st = Append(Front(@), [top EXCEPT !.s = m.s, !.lvl = Len(m.cap)])]
          [] i.op = "backcommit" -> BackCommit(m, top, i.lbl)
          [] i.op = "failtwice" -> Fail([m EXCEPT !.st = Front(@)])
          [] i.op = "fail" -> Fail(m)
          [] i.op = "closeruntime" -> runtimecap(m)
          [] i.op = "closecapture" -> CloseCapture(m)
          [] i.op = "opencapture" -> PushCap(m, Capt(m.s, i.key, i.kind, 0))
          [] OTHER -> PushCap(m, Capt(m.s - i.n, i.key, i.kind, i.n + 1))

Idle == [fin |-> "idle"]
Machine(p, subj, i) ==
    [fin |-> "run", p |-> 1, s |-> i, st |-> <<[p |-> GIVEUP, s |-> i, lvl |-> 0]>>, cap |-> <<>>, dyn |-> <<>>,
     capsize |-> InitCap, code |-> p.code, kt |-> p.kt, subj |-> subj, init |-> i, of |-> 0, n |-> 0, left |-> FALSE, out |-> Val(<<>>, 0)]

\* where the match begins: a position from the start or, if negative, from the end
initposition(ii, len) == IF ii > 0 THEN IF ii <= len THEN ii - 1 ELSE len
                         ELSE IF -ii <= len THEN len + ii ELSE 0

-----------------------------------------------------------------------------
(* Programs.                                                               *)

LpegInit == prog \in Programs /\ pats = <<>> /\ vm = Idle

\* a statement applies an operator; an error ends the program
Build ==
    /\ vm.fin # "run" /\ Len(pats) < Len(prog)
    /\ \A k \in DOMAIN pats : pats[k].err = ""
    /\ pats' = Append(pats, Operator(prog[Len(pats) + 1], Len(pats) + 1, pats))
    /\ vm' = Idle
    /\ UNCHANGED prog

\* lpeg.match with the pattern of the last statement, or of one of Probes
lp_match ==
    \E k \in DOMAIN pats, subj \in Subjects, ii \in Positions :
        /\ vm.fin = "idle" /\ pats[k].err = ""
        /\ k = Len(pats) /\ k \in Probes \cup {Len(prog)}
        /\ \E p \in {IF pats[k].code # <<>> THEN pats[k] ELSE prepcompile(pats[k])} :
             IF p.err # "" THEN pats' = [pats EXCEPT ![k].err = p.err] /\ vm' = vm
             ELSE /\ pats' = [pats EXCEPT ![k] = p]
                  /\ vm' = [Machine(p, subj, initposition(ii, Len(subj))) EXCEPT !.of = k]
        /\ UNCHANGED prog

\* after an instruction; at the end of the match the captures are evaluated
Ended(m, out) == [m EXCEPT !.out = out, !.fin = IF out.err # "" THEN "error" ELSE "match"]
Stepped(m) ==
    IF m.fin = "match" THEN Ended(m, getcaptures([XOf(m) EXCEPT !.cap = Append(@, Capt(NULL, 0, "close", 0))], m.s))
    ELSE IF m.n >= MaxSteps THEN [m EXCEPT !.fin = "endless"] ELSE [m EXCEPT !.n = @ + 1]

Run ==
    /\ vm.fin = "run"
    /\ vm' = Stepped(IF ~AssertsHold(vm) THEN [vm EXCEPT !.fin = "assert"] ELSE match(vm))
    /\ UNCHANGED <<prog, pats>>

LpegNext == Build \/ lp_match \/ Run
LpegSpec == LpegInit /\ [][LpegNext]_lpegVars

-----------------------------------------------------------------------------
(* The meaning of a pattern: parsing expressions over the statements.      *)
(* Ref(k, i, env, prior): the match of statement k at offset i within the  *)
(* grammar of statement env, after the complete captures prior.            *)

Fails == [ok |-> FALSE, i |-> 0, caps |-> <<>>, err |-> ""]
At(i, caps) == [ok |-> TRUE, i |-> i, caps |-> caps, err |-> ""]
Cap(kind, v, from, to, sub) == [kind |-> kind, arg |-> v, from |-> from, to |-> to, sub |-> sub]

RECURSIVE Values(_, _, _)

Good(vs) == [v |-> vs, err |-> FALSE]
Bad == [v |-> <<>>, err |-> TRUE]

\* the values of the nested captures one by one; a named group's as if it had no name
Nameless(c) == [c EXCEPT !.arg = Nil]
Each(subj, sub, prior) ==
    [j \in DOMAIN sub |-> Values(subj, <<IF sub[j].kind = "group" THEN Nameless(sub[j]) ELSE sub[j]>>, prior \o SubSeq(sub, 1, j - 1))]
IsNamed(c) == c.kind = "group" /\ c.arg # Nil

\* what %0, %1, ... stand for: a string and no value, or the value of a capture
RECURSIVE Parts(_, _, _)
Parts(subj, x, before) ==
    <<[str |-> SubSeq(subj, x.from + 1, x.to), c |-> <<>>]>> \o
    FlattenSeq([j \in DOMAIN x.sub |->
        IF x.sub[j].kind = "simple" THEN Parts(subj, x.sub[j], before \o SubSeq(x.sub, 1, j - 1))
        ELSE <<[str |-> <<>>, c |-> <<Values(subj, <<x.sub[j]>>, before \o SubSeq(x.sub, 1, j - 1))>>]>>])

RefString(fmt, ps) ==
    LET bad(d) == d >= Len(ps) \/ d >= MaxStrCaps \/
                  \E r \in ToSet(ps[d + 1].c) : r.err \/ r.v = <<>> \/ ~IsString(r.v[1])
        text(p) == IF p.c = <<>> THEN p.str ELSE tolstring(p.c[1].v[1])
    IN  IF \E d \in ToSet(fmt) : d < 10 /\ bad(d) THEN Bad
        ELSE Good(<<[s |-> FlattenSeq([i \in DOMAIN fmt |-> IF fmt[i] >= 10 THEN <<fmt[i]>> ELSE text(ps[fmt[i] + 1])])]>>)

\* the text of c with each capture that has a value replaced by it
RefSubst(subj, c, each) ==
    LET has(j) == each[j].v # <<>> /\ ~IsNamed(c.sub[j])
        replaced == {j \in DOMAIN c.sub : has(j)}
        from(j) == IF j = Len(c.sub) + 1 THEN c.to ELSE c.sub[j].from
        upto(j) == Max({c.from} \cup {c.sub[l].to : l \in {x \in replaced : x < j}})
    IN  IF \E j \in DOMAIN c.sub : ~IsNamed(c.sub[j]) /\ (each[j].err \/ (has(j) /\ ~IsString(each[j].v[1]))) THEN Bad
        ELSE Good(<<[s |-> FlattenSeq([j \in 1 .. Len(c.sub) + 1 |->
                        IF j \in replaced \cup {Len(c.sub) + 1}
                        THEN SubSeq(subj, upto(j) + 1, from(j)) \o (IF j \in replaced THEN tolstring(each[j].v[1]) ELSE <<>>)
                        ELSE <<>>])]>>)

RefTable(c, each) ==
    LET last(x) == \A y \in DOMAIN c.sub : (y > x /\ IsNamed(c.sub[y])) => c.sub[y].arg # c.sub[x].arg
    IN  IF \E j \in DOMAIN c.sub : each[j].err THEN Bad
        ELSE Good(<<[t |-> FlattenSeq([j \in DOMAIN c.sub |-> IF IsNamed(c.sub[j]) THEN <<>> ELSE each[j].v]),
                     h |-> {<<c.sub[j].arg.v, each[j].v[1]>> : j \in {x \in DOMAIN c.sub : IsNamed(c.sub[x]) /\ last(x)}}]>>)

\* named groups have no values
RefFold(c, vs) ==
    IF vs = <<>> THEN Bad
    ELSE IF vs[1].v = <<>> \/ \E j \in DOMAIN vs : vs[j].err THEN Bad
    ELSE Good(<<FoldLeft(LAMBDA acc, r : [f |-> c.arg.v, args |-> <<acc>> \o r.v], vs[1].v[1], Tail(vs))>>)

RefBackref(subj, c, prior, found) ==
    IF found = {} THEN Bad ELSE Values(subj, <<Nameless(prior[Max(found)])>>, SubSeq(prior, 1, Max(found) - 1))

\* some: the values of the nested captures, or the whole text
RefNested(c, whole, vs, some) ==
    CASE c.kind = "simple" -> Good(<<whole>> \o vs)
      [] c.kind = "group" -> Good(some)
      [] c.kind = "function" -> Good(Call(c.arg.v, some))
      [] c.kind = "query" -> Good(Lookup(c.arg.v, some[1]))
      [] OTHER -> IF c.arg.n > Len(some) THEN Bad ELSE Good(<<some[c.arg.n]>>)

\* [v, err]: the values of one capture
ValuesOf(subj, c, prior) ==
    LET Nested(whole, nested) ==
            IF nested.err THEN Bad
            ELSE RefNested(c, whole, nested.v, IF nested.v = <<>> THEN <<whole>> ELSE nested.v)
    IN  CASE c.kind = "vals" -> Good(c.arg)
          [] c.kind = "position" -> Good(<<[n |-> c.from + 1]>>)
          [] c.kind = "const" -> Good(<<c.arg>>)
          [] c.kind = "arg" -> IF c.arg.n > Len(Args) THEN Bad ELSE Good(<<Args[c.arg.n]>>)
          [] c.kind = "backref" ->
                RefBackref(subj, c, prior, {j \in DOMAIN prior : prior[j].kind = "group" /\ prior[j].arg = c.arg})
          [] c.kind = "num" /\ c.arg.n = 0 -> Good(<<>>)
          [] IsNamed(c) -> Good(<<>>)
          [] c.kind = "string" -> RefString(c.arg.fmt, Parts(subj, c, prior))
          [] c.kind = "subst" -> RefSubst(subj, c, Each(subj, c.sub, prior))
          [] c.kind = "table" -> RefTable(c, Each(subj, c.sub, prior))
          [] c.kind = "fold" ->
                RefFold(c, [j \in DOMAIN c.sub |-> IF IsNamed(c.sub[j]) THEN Good(<<>>)
                                                   ELSE Values(subj, <<c.sub[j]>>, prior \o SubSeq(c.sub, 1, j - 1))])
          [] OTHER -> Nested([s |-> SubSeq(subj, c.from + 1, c.to)], Values(subj, c.sub, prior))

Values(subj, caps, prior) ==
    LET Joined(acc, r) == [v |-> acc.v \o r.v, err |-> acc.err \/ r.err]
    IN  FoldLeft(LAMBDA acc, j : Joined(acc, ValuesOf(subj, caps[j], prior \o SubSeq(caps, 1, j - 1))),
                 Good(<<>>), [j \in DOMAIN caps |-> j])

RECURSIVE Ref(_, _, _, _, _)
\* matches one after the other, at least and at most so many
RECURSIVE Greedy(_, _, _, _, _, _, _)
Greedy(subj, k, i, env, prior, least, most) ==
    LET And(q, r) == [q EXCEPT !.caps = r.caps \o @]
        First(r) == CASE r.ok -> And(Greedy(subj, k, r.i, env, prior \o r.caps, IF least = 0 THEN 0 ELSE least - 1, most - 1), r)
                      [] ~r.ok /\ (r.err # "" \/ least > 0) -> r
                      [] OTHER -> At(i, <<>>)
    IN  IF most = 0 THEN At(i, <<>>) ELSE First(Ref(subj, k, i, env, prior))

\* a match-time function, after body
RefRuntime(subj, f, i, body, prior) ==
    LET Done(out) == IF ~out.ok THEN Fails
                     ELSE IF out.to < body.i \/ out.to > Len(subj) THEN [Fails EXCEPT !.err = "error"]
                     ELSE At(out.to, IF out.vs = <<>> THEN <<>>
                                     ELSE <<Cap("group", Nil, i, out.to, <<Cap("vals", out.vs, i, out.to, <<>>)>>)>>)
        Called(vals) == IF vals.err THEN [Fails EXCEPT !.err = "error"]
                        ELSE Done(CallRuntime(f, body.i, IF vals.v = <<>> THEN <<[s |-> SubSeq(subj, i + 1, body.i)]>> ELSE vals.v))
    IN  IF ~body.ok THEN body ELSE Called(Values(subj, body.caps, prior))

\* statement st, r the match of its first operand at i
RefOf(subj, st, k, i, env, prior, r) ==
    LET inside == i < Len(subj)
        within(kind, v) == IF ~r.ok THEN r ELSE At(r.i, <<Cap(kind, v, i, r.i, r.caps)>>)
        And(q) == [q EXCEPT !.caps = r.caps \o @]
        Minus(q) == IF q.err # "" THEN q ELSE IF q.ok THEN Fails ELSE r
        EndsHere(q) == q.ok /\ q.i = i
        Consts(each) == At(i, IF Len(each) < 2 THEN each ELSE <<Cap("group", Nil, i, i, each)>>)
    IN  CASE st.op = "str" -> IF i + Len(st.s) <= Len(subj) /\ SubSeq(subj, i + 1, i + Len(st.s)) = st.s
                              THEN At(i + Len(st.s), <<>>) ELSE Fails
          [] st.op = "num" -> IF st.n >= 0 THEN (IF i + st.n <= Len(subj) THEN At(i + st.n, <<>>) ELSE Fails)
                              ELSE (IF i - st.n <= Len(subj) THEN Fails ELSE At(i, <<>>))
          [] st.op = "bool" -> IF st.bool THEN At(i, <<>>) ELSE Fails
          [] st.op = "set" -> IF inside /\ subj[i + 1] \in st.cs THEN At(i + 1, <<>>) ELSE Fails
          [] st.op = "range" -> IF inside /\ st.lo <= subj[i + 1] /\ subj[i + 1] <= st.hi THEN At(i + 1, <<>>) ELSE Fails
          [] st.op = "grammar" -> Ref(subj, st.rules[1].a, i, k, prior)
          [] st.op = "V" -> Ref(subj, (CHOOSE x \in ToSet(prog[env].rules) : x.key = st.v).a, i, env, prior)
          [] st.op = "seq" -> IF ~r.ok THEN r ELSE And(Ref(subj, st.b, r.i, env, prior \o r.caps))
          [] st.op = "choice" -> IF r.ok \/ r.err # "" THEN r ELSE Ref(subj, st.b, i, env, prior)
          [] st.op = "sub" -> Minus(Ref(subj, st.b, i, env, prior))
          [] st.op = "star" -> IF st.n >= 0 THEN Greedy(subj, st.a, i, env, prior, st.n, st.n + Len(subj) + 1)
                               ELSE Greedy(subj, st.a, i, env, prior, 0, -st.n)
          [] st.op = "and" -> IF ~r.ok THEN r ELSE At(i, <<>>)
          [] st.op = "not" -> IF r.err # "" THEN r ELSE IF r.ok THEN Fails ELSE At(i, <<>>)
          [] st.op = "behind" ->
                IF \E j \in 0 .. i : i - j = fixedlen(pats[st.a].tree, <<>>, {}) /\ EndsHere(Ref(subj, st.a, j, env, prior))
                THEN At(i, <<>>) ELSE Fails
          [] st.op = "position" -> At(i, <<Cap("position", Nil, i, i, <<>>)>>)
          [] st.op = "arg" -> At(i, <<Cap("arg", [n |-> st.n], i, i, <<>>)>>)
          [] st.op = "backref" -> At(i, <<Cap("backref", st.v, i, i, <<>>)>>)
          [] st.op = "const" -> Consts([j \in DOMAIN st.vs |-> Cap("const", st.vs[j], i, i, <<>>)])
          [] st.op \in {"simple", "subst", "table"} -> within(st.op, Nil)
          [] st.op \in {"group", "fold"} -> within(st.op, st.v)
          [] st.op = "div" -> within(st.kind, st.v)
          [] OTHER -> RefRuntime(subj, st.v.v, i, IF st.op = "fun" THEN At(i, <<>>) ELSE r, prior)

Ref(subj, k, i, env, prior) == RefOf(subj, prog[k], k, i, env, prior, Ref(subj, prog[k].a, i, env, prior))

-----------------------------------------------------------------------------
(* Properties.                                                             *)

\* Whatever the analyses of lpcode.c conclude and the optimizations of the code
\* generator leave out, a pattern the library accepts (lptree.c) matches, ends
\* and produces the values its parsing expression means: lp_match answers what
\* the reference does, or that the backtrack stack overflowed.  (Not when a
\* substitution meets the group of a match-time capture whose start was lost
\* while the array of captures grew: doublecap does not copy it.)
MatchIsReference ==
    (vm.fin \in {"match", "nomatch", "error", "endless"} /\ vm.out.err # "garbage") =>
        LET Means(i, vals) == IF vals.err THEN vm.fin = "error"
                              ELSE vm.fin = "match" /\ vm.out.v = IF vals.v = <<>> THEN <<[n |-> i + 1]>> ELSE vals.v
            Answers(r) == CASE r.err # "" -> vm.fin = "error"
                            [] r.ok -> Means(r.i, Values(vm.subj, r.caps, <<>>))
                            [] OTHER -> vm.fin = "nomatch"
        IN  Answers(Ref(vm.subj, vm.of, vm.init, 0, <<>>))

\* The assertions of match hold: at every instruction the stack holds the entry it
\* expects, and the Lua stack as many values as match-time captures are still recorded,
\* so never more than captures (lpvm.c:168).  Not the latter once an and-predicate
\* ended over a match-time capture with a value: IBackCommit (lpvm.c:269-275) drops
\* the captures and, unlike a failure, leaves their values.
MachineAsserts ==
    /\ vm.fin # "assert"
    /\ (vm.fin = "run" /\ ~vm.left) =>
         Len(vm.dyn) = Cardinality({c \in DOMAIN vm.cap : vm.cap[c].kind = "runtime"})
=============================================================================
