------------------------------ MODULE LpegCode ------------------------------
(***************************************************************************)
(* 3rd/lpeg/lptree.c and lpcode.c: from the operators a Lua program calls  *)
(* to a pattern tree with its table of Lua values (ktable), and from the   *)
(* tree, through the analyses that choose the optimizations, to the code   *)
(* of the matching machine.                                                *)
(*                                                                         *)
(* A tree is a record [tag, ...] with its siblings a and b; an instruction *)
(* is one element of the code and its label the index it jumps to.  An     *)
(* operator application of the program is a record [op, ...].              *)
(***************************************************************************)
EXTENDS Integers, Sequences, FiniteSets, SequencesExt, FiniteSetsExt

CONSTANTS Chars,      \* the characters
          MaxOff,     \* MAXOFF: longest capture of one instruction
          MaxBehind,  \* MAXBEHIND
          MaxRules,   \* MAXRULES
          MaxKeys,    \* USHRT_MAX: longest ktable
          ShrtMax     \* SHRT_MAX: largest number of a capture

NOINST == 0

Leaf(tag) == [tag |-> tag]
Node1(tag, a) == [tag |-> tag, a |-> a]
Node2(tag, a, b) == [tag |-> tag, a |-> a, b |-> b]
CharTree(c) == [tag |-> "char", c |-> c]
SetTree(cs) == [tag |-> "set", cs |-> cs]

numsiblings(t) == CASE t.tag \in {"rep", "not", "and", "behind", "capture", "runtime"} -> 1
                    [] t.tag \in {"seq", "choice"} -> 2
                    [] OTHER -> 0

-----------------------------------------------------------------------------
(* Analyses.  R is the rules of the grammar around the tree.               *)

\* a tree that is a set of characters, as that set; Not otherwise
NotSet == {0}
tocharset(t) == CASE t.tag = "set" -> t.cs
                  [] t.tag = "char" -> {t.c}
                  [] t.tag = "any" -> Chars
                  [] OTHER -> NotSet

charsettype(cs) == IF cs = {} THEN "fail"
                   ELSE IF cs = Chars THEN "any"
                   ELSE IF Cardinality(cs) = 1 THEN "char" ELSE "set"

\* a rule on the way is not entered again
RECURSIVE hascaptures(_, _, _)
hascaptures(t, R, seen) ==
    CASE t.tag \in {"capture", "runtime"} -> TRUE
      [] t.tag = "call" -> t.rule \notin seen /\ hascaptures(R[t.rule].a, R, seen \cup {t.rule})
      [] t.tag = "grammar" -> hascaptures(t.rules[1].a, t.rules, {})
      [] OTHER -> (numsiblings(t) > 0 /\ hascaptures(t.a, R, seen)) \/ (numsiblings(t) = 2 /\ hascaptures(t.b, R, seen))

RECURSIVE checkaux(_, _, _)
checkaux(t, pred, R) ==
    CASE t.tag \in {"char", "set", "any", "false", "opencall"} -> FALSE
      [] t.tag \in {"rep", "true"} -> TRUE
      [] t.tag \in {"not", "behind"} -> pred = "nullable"
      [] t.tag = "and" -> pred = "nullable" \/ checkaux(t.a, pred, R)
      [] t.tag = "runtime" -> pred = "nullable" /\ checkaux(t.a, pred, R)
      [] t.tag = "seq" -> checkaux(t.a, pred, R) /\ checkaux(t.b, pred, R)
      [] t.tag = "choice" -> checkaux(t.b, pred, R) \/ checkaux(t.a, pred, R)
      [] t.tag = "capture" -> checkaux(t.a, pred, R)
      [] t.tag = "grammar" -> checkaux(t.rules[1].a, pred, t.rules)
      [] OTHER -> checkaux(R[t.rule].a, pred, R)
nullable(t, R) == checkaux(t, "nullable", R)
nofail(t, R) == checkaux(t, "nofail", R)

RECURSIVE fixedlen(_, _, _)
fixedlen(t, R, seen) ==
    CASE t.tag \in {"char", "set", "any"} -> 1
      [] t.tag \in {"false", "true", "not", "and", "behind"} -> 0
      [] t.tag \in {"rep", "runtime", "opencall"} -> -1
      [] t.tag = "capture" -> fixedlen(t.a, R, seen)
      [] t.tag = "grammar" -> fixedlen(t.rules[1].a, t.rules, {})
      [] t.tag = "call" -> IF t.rule \in seen THEN -1 ELSE fixedlen(R[t.rule].a, R, seen \cup {t.rule})
      [] OTHER -> LET n1 == fixedlen(t.a, R, seen)
                      n2 == fixedlen(t.b, R, seen)
                  IN  IF n1 < 0 \/ n2 < 0 THEN -1
                      ELSE IF t.tag = "seq" THEN n1 + n2 ELSE IF n1 = n2 THEN n1 ELSE -1

\* [cs, e]: the characters it may begin with, given those that may follow;
\* e says why a test of them cannot stand for the tree
RECURSIVE getfirst(_, _, _)
getfirst(t, follow, R) ==
    CASE t.tag \in {"char", "set", "any"} -> [cs |-> tocharset(t), e |-> {}]
      [] t.tag = "true" -> [cs |-> follow, e |-> {"empty"}]
      [] t.tag = "false" -> [cs |-> {}, e |-> {}]
      [] t.tag = "choice" ->
            LET f1 == getfirst(t.a, follow, R)
                f2 == getfirst(t.b, follow, R)
            IN  [cs |-> f1.cs \cup f2.cs, e |-> f1.e \cup f2.e]
      [] t.tag = "seq" ->
            IF ~nullable(t.a, R) THEN getfirst(t.a, Chars, R)
            ELSE LET f2 == getfirst(t.b, follow, R)
                     f1 == getfirst(t.a, f2.cs, R)
                 IN  [cs |-> f1.cs, e |-> IF f1.e = {} THEN {}
                                          ELSE IF "matchtime" \in f1.e \cup f2.e THEN {"matchtime"} ELSE f2.e]
      [] t.tag = "rep" -> [cs |-> getfirst(t.a, follow, R).cs \cup follow, e |-> {"empty"}]
      [] t.tag = "capture" -> getfirst(t.a, follow, R)
      [] t.tag = "grammar" -> getfirst(t.rules[1].a, follow, t.rules)
      [] t.tag = "call" -> getfirst(R[t.rule].a, follow, R)
      [] t.tag = "runtime" ->
            LET f == getfirst(t.a, Chars, R) IN [cs |-> f.cs, e |-> IF f.e = {} THEN {} ELSE {"matchtime"}]
      [] t.tag = "and" -> LET f == getfirst(t.a, follow, R) IN [cs |-> f.cs \cap follow, e |-> f.e]
      [] t.tag = "not" /\ tocharset(t.a) # NotSet -> [cs |-> Chars \ tocharset(t.a), e |-> {"empty"}]
      [] OTHER -> [cs |-> follow, e |-> getfirst(t.a, follow, R).e \cup {"empty"}]

RECURSIVE headfail_Any(_, _)
headfail_Any(t, R) ==
    CASE t.tag \in {"char", "set", "any", "false"} -> TRUE
      [] t.tag \in {"true", "rep", "runtime", "not", "behind"} -> FALSE
      [] t.tag \in {"capture", "and"} -> headfail_Any(t.a, R)
      [] t.tag = "grammar" -> headfail_Any(t.rules[1].a, t.rules)
      [] t.tag = "call" -> headfail_Any(R[t.rule].a, R)
      [] t.tag = "seq" -> headfail_Any(t.a, R)
      [] OTHER -> headfail_Any(t.a, R) /\ headfail_Any(t.b, R)
RECURSIVE headfail(_, _)
headfail(t, R) ==
    CASE t.tag \in {"char", "set", "any", "false"} -> TRUE
      [] t.tag \in {"true", "rep", "runtime", "not", "behind"} -> FALSE
      [] t.tag \in {"capture", "and"} -> headfail(t.a, R)
      [] t.tag = "grammar" -> headfail(t.rules[1].a, t.rules)
      [] t.tag = "call" -> headfail(R[t.rule].a, R)
      [] t.tag = "seq" -> nofail(t.b, R) /\ headfail(t.a, R)
      [] OTHER -> headfail(t.a, R) /\ headfail(t.b, R)

RECURSIVE needfollow(_)
needfollow(t) == CASE t.tag \in {"choice", "rep"} -> TRUE
                   [] t.tag = "capture" -> needfollow(t.a)
                   [] t.tag = "seq" -> needfollow(t.b)
                   [] OTHER -> FALSE

-----------------------------------------------------------------------------
(* Code generation.  tt is a test that protects the code, or NOINST; fl    *)
(* what may follow; opt, whether it ends an optional pattern.              *)

Inst(op) == [op |-> op, c |-> 0, cs |-> {}, n |-> 0, key |-> 0, kind |-> "close", lbl |-> 0]
addinstruction(code, i) == Append(code, i)
addoffsetinst(code, op) == Append(code, Inst(op))
addinstcap(code, op, cap, key, n) == Append(code, [Inst(op) EXCEPT !.kind = cap, !.key = key, !.n = n])
gethere(code) == Len(code) + 1
jumptothere(code, i, target) == IF i = NOINST THEN code ELSE [code EXCEPT ![i].lbl = target]
jumptohere(code, i) == jumptothere(code, i, gethere(code))

codechar(code, c, tt) ==
    addinstruction(code, IF tt # NOINST /\ code[tt].op = "testchar" /\ code[tt].c = c
                         THEN Inst("any") ELSE [Inst("char") EXCEPT !.c = c])

codecharset(code, cs, tt) ==
    CASE charsettype(cs) = "char" -> codechar(code, CHOOSE c \in cs : TRUE, tt)
      [] charsettype(cs) = "set" ->
            addinstruction(code, IF tt # NOINST /\ code[tt].op = "testset" /\ code[tt].cs = cs
                                 THEN Inst("any") ELSE [Inst("set") EXCEPT !.cs = cs])
      [] OTHER -> addinstruction(code, Inst(charsettype(cs)))

\* the code with a test of cs, at its end if there is one
codetestset(code, cs, e) ==
    IF e # {} THEN code
    ELSE CASE charsettype(cs) = "fail" -> addoffsetinst(code, "jmp")
           [] charsettype(cs) = "any" -> addoffsetinst(code, "testany")
           [] charsettype(cs) = "char" -> Append(code, [Inst("testchar") EXCEPT !.c = CHOOSE c \in cs : TRUE])
           [] OTHER -> Append(code, [Inst("testset") EXCEPT !.cs = cs])
TestAt(code, e) == IF e # {} THEN NOINST ELSE gethere(code)

RECURSIVE finaltarget(_, _)
finaltarget(code, i) == IF code[i].op = "jmp" THEN finaltarget(code, code[i].lbl) ELSE i
finallabel(code, i) == finaltarget(code, code[i].lbl)

RECURSIVE codegen(_, _, _, _, _, _)

codebehind(code, t, R) ==
    codegen(IF t.n > 0 THEN addinstruction(code, [Inst("behind") EXCEPT !.n = t.n]) ELSE code, t.a, FALSE, NOINST, Chars, R)

\* the first alternative is tested for and needs no choice: c1 has its code
TestedChoice(c1, test, p2, opt, fl, R) ==
    IF p2.tag = "true" THEN codegen(jumptohere(c1, test), p2, opt, NOINST, fl, R)
    ELSE jumptohere(codegen(jumptohere(addoffsetinst(c1, "jmp"), test), p2, opt, NOINST, fl, R), gethere(c1))

\* c2 has the choice and the code of the first alternative
SecondChoice(c2, pchoice, test, p2, opt, fl, R) ==
    jumptohere(codegen(jumptohere(jumptohere(addoffsetinst(c2, "commit"), pchoice), test), p2, opt, NOINST, fl, R), gethere(c2))
FullChoice(c1, test, p1, p2, opt, fl, R) ==
    SecondChoice(codegen(addoffsetinst(c1, "choice"), p1, p2.tag = "true", test, Chars, R), gethere(c1), test, p2, opt, fl, R)

ChoiceOf(code, p1, p2, opt, fl, R, f1) ==
    IF headfail(p1, R) \/ (f1.e = {} /\ f1.cs \cap getfirst(p2, fl, R).cs = {})
    THEN TestedChoice(codegen(codetestset(code, f1.cs, {}), p1, FALSE, TestAt(code, {}), fl, R), TestAt(code, {}), p2, opt, fl, R)
    ELSE IF opt /\ p2.tag = "true"
    THEN codegen(jumptohere(addoffsetinst(code, "partialcommit"), gethere(code)), p1, TRUE, NOINST, Chars, R)
    ELSE FullChoice(codetestset(code, f1.cs, f1.e), TestAt(code, f1.e), p1, p2, opt, fl, R)

codechoice(code, p1, p2, opt, fl, R) == ChoiceOf(code, p1, p2, opt, fl, R, getfirst(p1, Chars, R))

AndEnd(c1, pchoice) ==
    jumptohere(addinstruction(jumptohere(addoffsetinst(c1, "backcommit"), pchoice), Inst("fail")), gethere(c1))

codeand(code, t, tt, R) ==
    LET n == fixedlen(t, R, {})
    IN  IF n \in 0 .. MaxBehind /\ ~hascaptures(t, R, {})
        THEN LET c == codegen(code, t, FALSE, tt, Chars, R)
             IN  IF n > 0 THEN addinstruction(c, [Inst("behind") EXCEPT !.n = n]) ELSE c
        ELSE AndEnd(codegen(addoffsetinst(code, "choice"), t, FALSE, tt, Chars, R), gethere(code))

codecapture(code, t, tt, fl, R) ==
    LET len == fixedlen(t.a, R, {})
    IN  IF len \in 0 .. MaxOff /\ ~hascaptures(t.a, R, {})
        THEN addinstcap(codegen(code, t.a, FALSE, tt, fl, R), "fullcapture", t.cap, t.key, len)
        ELSE addinstcap(codegen(addinstcap(code, "opencapture", t.cap, t.key, 0), t.a, FALSE, tt, fl, R),
                        "closecapture", "close", 0, 0)

coderuntime(code, t, tt, R) ==
    addinstcap(codegen(addinstcap(code, "opencapture", "group", t.key, 0), t.a, FALSE, tt, Chars, R),
               "closeruntime", "close", 0, 0)

\* back to the test, which leaves the loop
TestedRep(c1, test) == jumptothere(jumptohere(addoffsetinst(c1, "jmp"), test), gethere(c1), test)

RepEnd(c3, start, pchoice, test) ==
    jumptohere(jumptohere(jumptothere(addoffsetinst(c3, "partialcommit"), gethere(c3), start), pchoice), test)
RepLoop(c2, t, pchoice, test, R) == RepEnd(codegen(c2, t, FALSE, NOINST, Chars, R), gethere(c2), pchoice, test)
FullRep(c1, t, opt, test, R) ==
    IF opt THEN RepLoop(jumptohere(addoffsetinst(c1, "partialcommit"), gethere(c1)), t, NOINST, test, R)
    ELSE RepLoop(addoffsetinst(c1, "choice"), t, gethere(c1), test, R)

RepOf(code, t, opt, fl, R, f) ==
    IF headfail(t, R) \/ (f.e = {} /\ f.cs \cap fl = {})
    THEN TestedRep(codegen(codetestset(code, f.cs, {}), t, FALSE, TestAt(code, {}), Chars, R), TestAt(code, {}))
    ELSE FullRep(codetestset(code, f.cs, f.e), t, opt, TestAt(code, f.e), R)

coderep(code, t, opt, fl, R) ==
    IF tocharset(t) # NotSet THEN addinstruction(code, [Inst("span") EXCEPT !.cs = tocharset(t)])
    ELSE RepOf(code, t, opt, fl, R, getfirst(t, Chars, R))

FullNot(c1, t, test, R) ==
    jumptohere(jumptohere(addinstruction(codegen(addoffsetinst(c1, "choice"), t, FALSE, NOINST, Chars, R), Inst("failtwice")),
                          gethere(c1)), test)
NotOf(c1, t, test, R) ==
    IF headfail(t, R) THEN jumptohere(addinstruction(c1, Inst("fail")), test) ELSE FullNot(c1, t, test, R)
NotTested(code, t, R, f) == NotOf(codetestset(code, f.cs, f.e), t, TestAt(code, f.e), R)
codenot(code, t, R) == NotTested(code, t, R, getfirst(t, Chars, R))

\* open calls of code from .. to become calls, or jumps when they are tail calls
correctcalls(code0, positions, from, to) ==
    FoldLeft(LAMBDA code, i :
                IF code[i].op # "opencall" THEN code
                ELSE [code EXCEPT ![i].op = IF code[finaltarget(code, i + 1)].op = "ret" THEN "jmp" ELSE "call",
                                  ![i].lbl = positions[code[i].n]],
             code0, [j \in 1 .. to - from |-> from + j - 1])

RuleCode(acc, rule, R) ==
    [pos |-> Append(acc.pos, gethere(acc.c)),
     c |-> addinstruction(codegen(acc.c, rule.a, FALSE, NOINST, Chars, R), Inst("ret"))]

\* the end is not yet coded: a call before it is not a tail call
Corrected(c2, pos, start) == SubSeq(correctcalls(Append(c2, Inst("end")), pos, start, gethere(c2)), 1, Len(c2))
GrammarEnd(all, start) == Corrected(jumptohere(all.c, start - 1), all.pos, start)

codegrammar(code, t) ==
    LET start == gethere(code) + 2
        c1 == [addoffsetinst(addoffsetinst(code, "call"), "jmp") EXCEPT ![start - 2].lbl = start]
    IN  GrammarEnd(FoldLeft(LAMBDA acc, rule : RuleCode(acc, rule, t.rules), [pos |-> <<>>, c |-> c1], t.rules), start)

codecall(code, t) == Append(code, [Inst("opencall") EXCEPT !.n = t.rule])

\* the first of a sequence, and the test that still protects the second
codeseq1(code, p1, p2, tt, fl, R) ==
    [c |-> codegen(code, p1, FALSE, tt, IF needfollow(p1) THEN getfirst(p2, fl, R).cs ELSE Chars, R),
     tt |-> IF fixedlen(p1, R, {}) # 0 THEN NOINST ELSE tt]

SeqRest(s, t, opt, fl, R) == codegen(s.c, t.b, opt, s.tt, fl, R)

codegen(code, t, opt, tt, fl, R) ==
    CASE t.tag = "char" -> codechar(code, t.c, tt)
      [] t.tag = "any" -> addinstruction(code, Inst("any"))
      [] t.tag = "set" -> codecharset(code, t.cs, tt)
      [] t.tag = "true" -> code
      [] t.tag = "false" -> addinstruction(code, Inst("fail"))
      [] t.tag = "choice" -> codechoice(code, t.a, t.b, opt, fl, R)
      [] t.tag = "rep" -> coderep(code, t.a, opt, fl, R)
      [] t.tag = "behind" -> codebehind(code, t, R)
      [] t.tag = "not" -> codenot(code, t.a, R)
      [] t.tag = "and" -> codeand(code, t.a, tt, R)
      [] t.tag = "capture" -> codecapture(code, t, tt, fl, R)
      [] t.tag = "runtime" -> coderuntime(code, t, tt, R)
      [] t.tag = "grammar" -> codegrammar(code, t)
      [] t.tag = "call" -> codecall(code, t)
      [] OTHER -> SeqRest(codeseq1(code, t.a, t.b, tt, fl, R), t, opt, fl, R)

Labelled == {"choice", "call", "commit", "partialcommit", "backcommit", "testchar", "testset", "testany"}

RECURSIVE peephole(_, _)
peephole(code, i) ==
    IF i > Len(code) THEN code
    ELSE IF code[i].op \in Labelled THEN peephole(jumptothere(code, i, finallabel(code, i)), i + 1)
    ELSE IF code[i].op # "jmp" THEN peephole(code, i + 1)
    ELSE LET ft == finaltarget(code, i)
         IN  CASE code[ft].op \in {"ret", "fail", "failtwice", "end"} -> peephole([code EXCEPT ![i] = code[ft]], i + 1)
               [] code[ft].op \in {"commit", "partialcommit", "backcommit"} ->
                     peephole([code EXCEPT ![i] = [code[ft] EXCEPT !.lbl = finallabel(code, ft)]], i)
               [] OTHER -> peephole(jumptothere(code, i, ft), i + 1)

compile(t) == peephole(addinstruction(codegen(<<>>, t, FALSE, NOINST, Chars, <<>>), Inst("end")), 1)

-----------------------------------------------------------------------------
(* The operators of the library.  A Lua program builds its patterns by     *)
(* statements, each a record [op, ...] whose operands a and b are the      *)
(* numbers of earlier statements; the value is a pattern: its tree, the    *)
(* table kt of the Lua values its keys index (created by statement by:     *)
(* patterns may share it), its code once it is compiled, and the error the *)
(* operator raised, if any.                                                *)

Nil == [v |-> "nil"]
Patt(tree, kt, by) == [tree |-> tree, kt |-> kt, by |-> by, code |-> <<>>, err |-> ""]
newtree(tree) == Patt(tree, <<>>, 0)
newleaf(tag) == newtree(Leaf(tag))
Raise(msg) == [newleaf("true") EXCEPT !.err = msg]

-----------------------------------------------------------------------------
(* ktables.                                                                *)

\* what the key of a tree designates
getfromktable(kt, key) == IF key = 0 THEN Nil ELSE kt[key]

\* shift the keys of a tree by n
RECURSIVE correctkeys(_, _)
correctkeys(t, n) ==
    IF n = 0 THEN t
    ELSE CASE t.tag \in {"opencall", "call"} -> IF t.key > 0 THEN [t EXCEPT !.key = @ + n] ELSE t
           [] t.tag = "runtime" -> [t EXCEPT !.key = IF @ > 0 THEN @ + n ELSE @, !.a = correctkeys(@, n)]
           [] t.tag = "capture" -> [t EXCEPT !.key = IF @ > 0 /\ t.cap \notin {"arg", "num"} THEN @ + n ELSE @,
                                             !.a = correctkeys(@, n)]
           [] t.tag = "grammar" ->
                 [t EXCEPT !.rules = [r \in DOMAIN @ |-> [key |-> IF @[r].key > 0 THEN @[r].key + n ELSE @[r].key,
                                                          a |-> correctkeys(@[r].a, n)]]]
           [] numsiblings(t) = 1 -> [t EXCEPT !.a = correctkeys(@, n)]
           [] numsiblings(t) = 2 -> [t EXCEPT !.a = correctkeys(@, n), !.b = correctkeys(@, n)]
           [] OTHER -> t

\* [kt, by, n]: the ktable of statement k, made from those of p1 and p2, and
\* how far the keys of p2 move
joinktables(p1, p2, k) ==
    CASE p1.kt = <<>> /\ p2.kt = <<>> -> [kt |-> <<>>, by |-> 0, n |-> 0]
      [] p2.kt = <<>> \/ p1.by = p2.by -> [kt |-> p1.kt, by |-> p1.by, n |-> 0]
      [] p1.kt = <<>> -> [kt |-> p2.kt, by |-> p2.by, n |-> 0]
      [] OTHER -> [kt |-> p1.kt \o p2.kt, by |-> k, n |-> Len(p1.kt)]

TooManyKeys(kt) == Len(kt) > MaxKeys

\* a ktable with v added; nil is not added, its key is 0
addtoktable(kt, v) == IF v = Nil THEN kt ELSE Append(kt, v)
KeyOf(kt, v) == IF v = Nil THEN 0 ELSE Len(kt) + 1

\* tree with the key of v and a fresh ktable: that of p and v
addtonewktable(p, v, k, tree) ==
    IF v # Nil /\ Len(p.kt) >= MaxKeys THEN Raise("too many Lua values in pattern")
    ELSE Patt([tree EXCEPT !.key = KeyOf(p.kt, v)], addtoktable(p.kt, v), k)

-----------------------------------------------------------------------------
(* Tree generation.                                                        *)

fillseq(ts) == FoldRight(LAMBDA t, rest : Node2("seq", t, rest), Front(ts), Last(ts))

numtree(n) ==
    CASE n = 0 -> newleaf("true")
      [] n > 0 -> newtree(fillseq([i \in 1 .. n |-> Leaf("any")]))
      [] OTHER -> newtree(Node1("not", fillseq([i \in 1 .. -n |-> Leaf("any")])))

newroot1sib(tag, p) == Patt(Node1(tag, p.tree), p.kt, p.by)

newroot2sib(tag, p1, p2, k) ==
    LET j == joinktables(p1, p2, k)
    IN  IF TooManyKeys(j.kt) THEN Raise("too many Lua values in pattern")
        ELSE Patt(Node2(tag, p1.tree, correctkeys(p2.tree, j.n)), j.kt, j.by)

lp_seq(p1, p2, k) ==
    CASE p1.tree.tag = "false" \/ p2.tree.tag = "true" -> p1
      [] p1.tree.tag = "true" -> p2
      [] OTHER -> newroot2sib("seq", p1, p2, k)

BothSets(p1, p2) == tocharset(p1.tree) # NotSet /\ tocharset(p2.tree) # NotSet

lp_choice(p1, p2, k) ==
    CASE BothSets(p1, p2) -> newtree(SetTree(tocharset(p1.tree) \cup tocharset(p2.tree)))
      [] nofail(p1.tree, <<>>) \/ p2.tree.tag = "false" -> p1
      [] p1.tree.tag = "false" -> p2
      [] OTHER -> newroot2sib("choice", p1, p2, k)

\* n copies of a tree before another one
RECURSIVE seqaux(_, _, _)
seqaux(t, n, last) == IF n = 0 THEN last ELSE Node2("seq", t, seqaux(t, n - 1, last))

RECURSIVE AtMost(_, _)
AtMost(t, n) == Node2("choice", IF n = 1 THEN t ELSE Node2("seq", t, AtMost(t, n - 1)), Leaf("true"))

lp_star(p, n) ==
    IF n < 0 THEN Patt(AtMost(p.tree, -n), p.kt, p.by)
    ELSE IF nullable(p.tree, <<>>) THEN Raise("loop body may accept empty string")
    ELSE Patt(seqaux(p.tree, n, Node1("rep", p.tree)), p.kt, p.by)

lp_and(p) == newroot1sib("and", p)
lp_not(p) == newroot1sib("not", p)

lp_sub(p1, p2, k) ==
    IF BothSets(p1, p2) THEN newtree(SetTree(tocharset(p1.tree) \ tocharset(p2.tree)))
    ELSE LET j == joinktables(p1, p2, k)
         IN  IF TooManyKeys(j.kt) THEN Raise("too many Lua values in pattern")
             ELSE Patt(Node2("seq", Node1("not", correctkeys(p2.tree, j.n)), p1.tree), j.kt, j.by)

lp_set(cs) == newtree(SetTree(cs))
lp_range(lo, hi) == newtree(SetTree({c \in Chars : lo <= c /\ c <= hi}))

lp_behind(p) ==
    LET n == fixedlen(p.tree, <<>>, {})
    IN  CASE n < 0 -> Raise("pattern may not have fixed length")
          [] hascaptures(p.tree, <<>>, {}) -> Raise("pattern have captures")
          [] n > MaxBehind -> Raise("pattern too long to look behind")
          [] OTHER -> Patt([tag |-> "behind", n |-> n, a |-> p.tree], p.kt, p.by)

lp_V(v, k) == addtonewktable(newleaf("true"), v, k, [tag |-> "opencall", key |-> 0])

Capture(cap, key, a) == [tag |-> "capture", cap |-> cap, key |-> key, a |-> a]
auxemptycap(cap, key) == Capture(cap, key, Leaf("true"))
newemptycap(cap, key) == newtree(auxemptycap(cap, key))
newemptycapkey(cap, v, k) == addtonewktable(newleaf("true"), v, k, auxemptycap(cap, 0))

\* a capture with a body, and with a Lua value if labelled
capture_aux(cap, p) == Patt(Capture(cap, 0, p.tree), p.kt, p.by)
LabelledCapture(cap, p, v, k) == addtonewktable(p, v, k, Capture(cap, 0, p.tree))

lp_divcapture(p, kind, v, k) ==
    IF kind # "num" THEN LabelledCapture(kind, p, v, k)
    ELSE IF v.n \notin 0 .. ShrtMax THEN Raise("invalid number") ELSE Patt(Capture("num", v.n, p.tree), p.kt, p.by)
lp_substcapture(p) == capture_aux("subst", p)
lp_tablecapture(p) == capture_aux("table", p)
lp_groupcapture(p, v, k) == IF v = Nil THEN capture_aux("group", p) ELSE LabelledCapture("group", p, v, k)
lp_foldcapture(p, f, k) == LabelledCapture("fold", p, f, k)
lp_simplecapture(p) == capture_aux("simple", p)
lp_poscapture == newemptycap("position", 0)
lp_argcapture(n) == IF n \notin 1 .. ShrtMax THEN Raise("invalid argument index") ELSE newemptycap("arg", n)
lp_backref(v, k) == newemptycapkey("backref", v, k)

lp_constcapture(vs, k) ==
    CASE vs = <<>> -> newleaf("true")
      [] Len(vs) = 1 -> newemptycapkey("const", vs[1], k)
      [] OTHER -> LET kt == FoldLeft(addtoktable, <<>>, vs)
                      key(i) == KeyOf(FoldLeft(addtoktable, <<>>, SubSeq(vs, 1, i - 1)), vs[i])
                  IN  IF TooManyKeys(kt) THEN Raise("too many Lua values in pattern")
                      ELSE Patt(Capture("group", 0, fillseq([i \in DOMAIN vs |-> auxemptycap("const", key(i))])), kt, k)

RunTime(key, a) == [tag |-> "runtime", key |-> key, a |-> a]
lp_matchtime(p, f, k) == addtonewktable(p, f, k, RunTime(0, p.tree))

-----------------------------------------------------------------------------
(* Grammars.                                                               *)

\* left associative sequences and choices become right associative
RECURSIVE correctassociativity(_)
correctassociativity(t) ==
    IF t.a.tag # t.tag THEN t
    ELSE correctassociativity(Node2(t.tag, t.a.a, Node2(t.tag, t.a.b, t.b)))

\* the open calls of a tree, by key; subgrammars have none
RECURSIVE OpenCalls(_)
OpenCalls(t) == CASE t.tag = "opencall" -> {t.key}
                  [] numsiblings(t) = 0 -> {}
                  [] numsiblings(t) = 1 -> OpenCalls(t.a)
                  [] OTHER -> OpenCalls(t.a) \cup OpenCalls(t.b)

fixonecall(t, ruleOf) == [tag |-> "call", key |-> t.key, rule |-> ruleOf[t.key]]

\* ruleOf maps the key of each open call to the rule it names
RECURSIVE finalfix(_, _)
finalfix(t, ruleOf) ==
    CASE t.tag = "grammar" -> t
      [] t.tag = "opencall" -> fixonecall(t, ruleOf)
      [] t.tag \in {"seq", "choice"} ->
            LET u == correctassociativity(t) IN [u EXCEPT !.a = finalfix(@, ruleOf), !.b = finalfix(@, ruleOf)]
      [] numsiblings(t) = 1 -> [t EXCEPT !.a = finalfix(@, ruleOf)]
      [] OTHER -> t

RECURSIVE checkloops(_, _)
checkloops(t, R) ==
    CASE t.tag = "rep" /\ nullable(t.a, R) -> TRUE
      [] t.tag = "grammar" -> FALSE
      [] OTHER -> (numsiblings(t) > 0 /\ checkloops(t.a, R)) \/ (numsiblings(t) = 2 /\ checkloops(t.b, R))

\* may the tree match nothing (nb: something before it did), or "error" when a
\* rule may call itself without advancing; passed rules lie on the way
RECURSIVE verifyrule(_, _, _, _)
verifyrule(t, passed, nb, R) ==
    CASE t.tag \in {"char", "set", "any", "false"} -> nb
      [] t.tag \in {"true", "behind"} -> "yes"
      [] t.tag \in {"not", "and", "rep"} -> verifyrule(t.a, passed, "yes", R)
      [] t.tag \in {"capture", "runtime"} -> verifyrule(t.a, passed, nb, R)
      [] t.tag = "call" -> IF passed >= MaxRules THEN "error" ELSE verifyrule(R[t.rule].a, passed + 1, nb, R)
      [] t.tag = "seq" -> LET first == verifyrule(t.a, passed, "no", R)
                          IN  CASE first = "error" -> "error"
                                [] first = "no" -> nb
                                [] OTHER -> verifyrule(t.b, passed, nb, R)
      [] t.tag = "choice" -> LET first == verifyrule(t.a, passed, nb, R)
                             IN  IF first = "error" THEN "error" ELSE verifyrule(t.b, passed, first, R)
      [] OTHER -> IF nullable(t, R) THEN "yes" ELSE "no"

\* unused rules are not verified
verifygrammar(R) ==
    LET used == {r \in DOMAIN R : R[r].key # 0}
    IN  CASE \E r \in used : verifyrule(R[r].a, 0, "no", R) = "error" -> "left recursive"
          [] \E r \in used : checkloops(R[r].a, R) -> "empty loop in rule"
          [] OTHER -> ""

\* rules: [key, p] in the order of the table's traversal, the initial one first
buildgrammar(rules) ==
    FoldLeft(LAMBDA g, r : [kt |-> g.kt \o r.p.kt,
                            R |-> Append(g.R, [key |-> 0, a |-> correctkeys(r.p.tree, IF r.p.kt = <<>> THEN 0 ELSE Len(g.kt))])],
             [kt |-> <<>>, R |-> <<>>], rules)

\* the initial rule, when nothing calls it, still has its name in the ktable
initialrulename(kt, R, name) ==
    IF R[1].key # 0 THEN [kt |-> kt, R |-> R]
    ELSE [kt |-> Append(kt, name), R |-> [R EXCEPT ![1].key = Len(kt) + 1]]

\* the rules with their calls; a rule has the last key that names it
FixedRules(R, calls, ruleOf) ==
    [r \in DOMAIN R |-> [key |-> Max({key \in calls : ruleOf[key] = r} \cup {0}), a |-> finalfix(R[r].a, ruleOf)]]

Verified(G, k) ==
    LET Sound(bad) == IF bad # "" THEN Raise(bad) ELSE Patt([tag |-> "grammar", rules |-> G.R], G.kt, k)
    IN  Sound(verifygrammar(G.R))

GrammarOf(g, calls, rules, k) ==
    LET named(key) == {r \in DOMAIN rules : rules[r].key = g.kt[key]}
    IN  IF \E key \in calls : named(key) = {} THEN Raise("rule undefined in given grammar")
        ELSE Verified(initialrulename(g.kt, FixedRules(g.R, calls, [key \in calls |-> CHOOSE r \in named(key) : TRUE]),
                                      rules[1].key), k)

Built(g, rules, k) ==
    IF TooManyKeys(g.kt) THEN Raise("too many Lua values in pattern")
    ELSE GrammarOf(g, UNION {OpenCalls(g.R[r].a) : r \in DOMAIN g.R}, rules, k)

newgrammar(rules, k) ==
    CASE rules = <<>> -> Raise("grammar has no initial rule")
      [] Len(rules) > MaxRules -> Raise("grammar has too many rules")
      [] OTHER -> Built(buildgrammar(rules), rules, k)

\* the pattern of the Lua value of a statement
getpatt(st, k, pats) ==
    CASE st.op = "str" -> IF st.s = <<>> THEN newleaf("true") ELSE newtree(fillseq([i \in DOMAIN st.s |-> CharTree(st.s[i])]))
      [] st.op = "num" -> numtree(st.n)
      [] st.op = "bool" -> IF st.bool THEN newleaf("true") ELSE newleaf("false")
      [] st.op = "fun" -> addtonewktable(newleaf("true"), st.v, k, RunTime(0, Leaf("true")))
      [] OTHER -> newgrammar([r \in DOMAIN st.rules |-> [key |-> st.rules[r].key, p |-> pats[st.rules[r].a]]], k)

\* statement st, the k-th, after pats
Operator(st, k, pats) ==
    LET p == pats[st.a]
        q == pats[st.b]
    IN  CASE st.op \in {"str", "num", "bool", "fun", "grammar"} -> getpatt(st, k, pats)
          [] st.op = "seq" -> lp_seq(p, q, k)
          [] st.op = "choice" -> lp_choice(p, q, k)
          [] st.op = "sub" -> lp_sub(p, q, k)
          [] st.op = "star" -> lp_star(p, st.n)
          [] st.op = "and" -> lp_and(p)
          [] st.op = "not" -> lp_not(p)
          [] st.op = "set" -> lp_set(st.cs)
          [] st.op = "range" -> lp_range(st.lo, st.hi)
          [] st.op = "behind" -> lp_behind(p)
          [] st.op = "V" -> lp_V(st.v, k)
          [] st.op = "div" -> lp_divcapture(p, st.kind, st.v, k)
          [] st.op = "subst" -> lp_substcapture(p)
          [] st.op = "table" -> lp_tablecapture(p)
          [] st.op = "group" -> lp_groupcapture(p, st.v, k)
          [] st.op = "fold" -> lp_foldcapture(p, st.v, k)
          [] st.op = "simple" -> lp_simplecapture(p)
          [] st.op = "position" -> lp_poscapture
          [] st.op = "arg" -> lp_argcapture(st.n)
          [] st.op = "backref" -> lp_backref(st.v, k)
          [] st.op = "const" -> lp_constcapture(st.vs, k)
          [] OTHER -> lp_matchtime(p, st.v, k)

\* the pattern compiled; its tree is fixed in place
Compiled(p, t) == [p EXCEPT !.tree = t, !.code = compile(t)]
prepcompile(p) ==
    IF OpenCalls(p.tree) # {} THEN Raise("rule used outside a grammar")
    ELSE Compiled(p, finalfix(p.tree, <<>>))

=============================================================================
