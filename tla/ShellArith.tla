----------------------------- MODULE ShellArith -----------------------------
(***************************************************************************)
(* Shell arithmetic (epsh/src/arith.rs): the tokenizer, the precedence-    *)
(* climbing evaluator that computes while it parses (skipping the effects  *)
(* of the branches that are not taken with the noeval flag), and the       *)
(* reference it is compared with: a tree evaluated lazily.  i64 has Width  *)
(* bits.                                                                   *)
(***************************************************************************)
EXTENDS ShellVars, Bitwise

AssignOps == { <<"+", "=">>, <<"-", "=">>, <<"*", "=">>, <<"/", "=">>, <<"%", "=">>,
               <<"<", "<", "=">>, <<">", ">", "=">>, <<"&", "=">>, <<"|", "=">>,
               <<"^", "=">> }

Precedences ==
    << {<<"|">>}, {<<"^">>}, {<<"&">>}, {<<"=", "=">>, <<"!", "=">>},
       {<<"<">>, <<"<", "=">>, <<">">>, <<">", "=">>},
       {<<"<", "<">>, <<">", ">">>}, {<<"+">>, <<"-">>},
       {<<"*">>, <<"/">>, <<"%">>} >>

Operators == AssignOps \cup UNION Range(Precedences)
             \cup { <<"(">>, <<")">>, <<"&", "&">>, <<"|", "|">>, <<"!">>, <<"~">>,
                    <<"=">>, <<"?">>, <<":">> }

-----------------------------------------------------------------------------
(* The tokenizer                                                           *)

BadTokens == [ok |-> FALSE, toks |-> <<>>]
Op(text) == [t |-> "op", op |-> text]
Num(n) == [t |-> "num", n |-> n]
Var(name) == [t |-> "var", name |-> name]

\* The end of the number at i and its value: 0x or 0X makes it hexadecimal, a
\* leading 0 before an octal digit makes it octal.  0x alone is an error.
NumberAt(s, i) ==
    LET after == IF s[i] = "0" /\ i < Len(s) THEN s[i + 1] ELSE " "
        base == CASE after \in {"x", "X"} -> 16
                  [] IsDigit(after) /\ DigitOf(after) < 8 -> 8
                  [] OTHER -> 10
        start == IF base = 16 THEN i + 2 ELSE i
        end == SpanEnd(s, start, LAMBDA c : IsHexDigit(c) /\ DigitOf(c) < base)
    IN  [end |-> end, ok |-> end > start,
         n |-> NumberIn(SubSeq(s, start, end - 1), base)]

LongestOperator(s, i) ==
    LET here == { op \in Operators : /\ i + Len(op) - 1 <= Len(s)
                                     /\ SubSeq(s, i, i + Len(op) - 1) = op }
    IN  IF here = {} THEN <<>>
        ELSE CHOOSE op \in here : \A other \in here : Len(other) <= Len(op)

RECURSIVE Tokenize(_, _, _)
Tokenize(s, i, toks) ==
    IF i > Len(s) THEN [ok |-> TRUE, toks |-> toks]
    ELSE IF IsBlank(s[i]) THEN Tokenize(s, i + 1, toks)
    ELSE IF IsDigit(s[i])
    THEN LET number == NumberAt(s, i)
         IN  IF ~number.ok \/ number.n > MaxInt THEN BadTokens
             ELSE Tokenize(s, number.end, Append(toks, Num(number.n)))
    ELSE IF IsNameStart(s[i])
    THEN LET end == SpanEnd(s, i, IsNameChar)
         IN  Tokenize(s, end, Append(toks, Var(SubSeq(s, i, end - 1))))
    ELSE LET op == LongestOperator(s, i)
         IN  IF op = <<>> THEN BadTokens
             ELSE Tokenize(s, i + Len(op), Append(toks, Op(op)))

-----------------------------------------------------------------------------
(* The evaluator.  Its state: the tokens left, the shell, the noeval       *)
(* flag, the value of what has been parsed, and whether an error stopped it.*)

Peek(p) == IF p.toks = <<>> THEN <<>>
           ELSE IF Head(p.toks).t = "op" THEN Head(p.toks).op ELSE <<>>
Advance(p) == [p EXCEPT !.toks = Tail(@)]
Fail(p) == [p EXCEPT !.ok = FALSE]
Value(p, n) == [p EXCEPT !.val = n]

GetVar(p, name) == IntOrZero(OrEmpty(ValueOf(p.sh, name)))

\* Variables::set_int; that the name is read-only is not reported.
SetVar(p, name, n) ==
    IF p.noeval THEN p ELSE [p EXCEPT !.sh = SetText(@, name, IntText(n))]

Truth(b) == IF b THEN 1 ELSE 0
Bits(n) == n % (2 ^ Width)
Abs(n) == IF n < 0 THEN -n ELSE n
Quotient(l, r) == LET q == Abs(l) \div Abs(r)
                  IN  IF (l < 0) = (r < 0) THEN q ELSE -q

\* shift::count refuses a negative or too large count.
ShiftCount(n) == n \in 0 .. Width - 1

BinopFailsAtZero(op, l, r) ==
    \/ op \in {<<"/">>, <<"%">>} /\ r = 0
    \/ op \in {<<"<", "<">>, <<">", ">">>} /\ ~ShiftCount(r)
BinopFails(op, l, r) ==
    \/ op \in {<<"/">>, <<"%">>} /\ (r = 0 \/ (l = MinInt /\ r = -1))
    \/ op \in {<<"<", "<">>, <<">", ">">>} /\ ~ShiftCount(r)

Binop(op, l, r) ==
    CASE op = <<"|">> -> Wrap(Bits(l) | Bits(r))
      [] op = <<"^">> -> Wrap(Bits(l) ^^ Bits(r))
      [] op = <<"&">> -> Wrap(Bits(l) & Bits(r))
      [] op = <<"=", "=">> -> Truth(l = r)
      [] op = <<"!", "=">> -> Truth(l # r)
      [] op = <<"<">> -> Truth(l < r)
      [] op = <<"<", "=">> -> Truth(l <= r)
      [] op = <<">">> -> Truth(l > r)
      [] op = <<">", "=">> -> Truth(l >= r)
      [] op = <<"<", "<">> -> Wrap(l * 2 ^ r)
      [] op = <<">", ">">> -> l \div 2 ^ r
      [] op = <<"+">> -> Wrap(l + r)
      [] op = <<"-">> -> Wrap(l - r)
      [] op = <<"*">> -> Wrap(l * r)
      [] op = <<"/">> -> Quotient(l, r)
      [] op = <<"%">> -> l - r * Quotient(l, r)

ApplyBinop(p, op, l, r) ==
    IF p.noeval THEN Value(p, 0)
    ELSE IF BinopFails(op, l, r) THEN Fail(p)
    ELSE Value(p, Binop(op, l, r))

AssignmentBinaryOp(op) == Front(op)

Precedence(op) ==
    IF \E i \in DOMAIN Precedences : op \in Precedences[i]
    THEN CHOOSE i \in DOMAIN Precedences : op \in Precedences[i]
    ELSE 0

\* What the grammar parses at a level: 1 to 8 are those of Precedences.
ASSIGNMENT == -3
TERNARY == -2
OR == -1
AND == 0
UNARY == 9
PRIMARY == 10
RECURSIVE Parse(_, _), OrTail(_), AndTail(_), BinopTail(_, _)

Expect(p, op) == IF ~p.ok THEN p ELSE IF Peek(p) = op THEN Advance(p) ELSE Fail(p)

ParseAssignment(p) ==
    LET named == Len(p.toks) > 1 /\ Head(p.toks).t = "var"
        name == Head(p.toks).name
        op == Peek(Advance(p))
        right == Parse(ASSIGNMENT, Advance(Advance(p)))
        combined == ApplyBinop(right, AssignmentBinaryOp(op),
                               GetVar(right, name), right.val)
    IN  CASE named /\ op = <<"=">> ->
               IF right.ok THEN SetVar(right, name, right.val) ELSE right
          [] named /\ op \in AssignOps ->
               IF right.ok /\ combined.ok
               THEN SetVar(combined, name, combined.val)
               ELSE IF right.ok THEN combined ELSE right
          [] OTHER -> Parse(TERNARY, p)

ParseTernary(p) ==
    LET cond == Parse(OR, p)
        then == Parse(ASSIGNMENT, [Advance(cond) EXCEPT
                                   !.noeval = @ \/ cond.val = 0])
        colon == Expect(then, <<":">>)
        else == Parse(ASSIGNMENT, [colon EXCEPT
                                   !.noeval = cond.noeval \/ cond.val # 0])
    IN  IF ~cond.ok \/ Peek(cond) # <<"?">> THEN cond
        ELSE IF ~colon.ok THEN colon
        ELSE [else EXCEPT !.noeval = cond.noeval,
                          !.val = IF cond.val # 0 THEN then.val ELSE @]

ParseOr(p) == OrTail(Parse(AND, p))
OrTail(left) ==
    LET right == Parse(AND, [Advance(left) EXCEPT !.noeval = @ \/ left.val # 0])
    IN  IF ~left.ok \/ Peek(left) # <<"|", "|">> THEN left
        ELSE IF ~right.ok THEN right
        ELSE OrTail([right EXCEPT !.noeval = left.noeval,
                                  !.val = Truth(left.val # 0 \/ @ # 0)])

ParseAnd(p) == AndTail(Parse(1, p))
AndTail(left) ==
    LET right == Parse(1, [Advance(left) EXCEPT !.noeval = @ \/ left.val = 0])
    IN  IF ~left.ok \/ Peek(left) # <<"&", "&">> THEN left
        ELSE IF ~right.ok THEN right
        ELSE AndTail([right EXCEPT !.noeval = left.noeval,
                                   !.val = Truth(left.val # 0 /\ @ # 0)])

\* The level above the one whose right operand is being parsed: the operators
\* of one level associate to the left.
NextLevelRight(level) == level
NextLevel(level) == level + 1

ParseBinop(p, min) == BinopTail(Parse(UNARY, p), min)
BinopTail(left, min) ==
    LET op == Peek(left)
        level == Precedence(op)
        right == Parse(NextLevel(level), Advance(left))
    IN  IF ~left.ok \/ op = <<>> \/ level = 0 \/ level < min THEN left
        ELSE IF ~right.ok THEN right
        ELSE BinopTail(ApplyBinop(right, op, left.val, right.val), min)

Unary(op, n) ==
    CASE op = <<"+">> -> n
      [] op = <<"-">> -> Wrap(-n)
      [] op = <<"!">> -> Truth(n = 0)
      [] op = <<"~">> -> -n - 1

UnaryOps == {<<"+">>, <<"-">>, <<"!">>, <<"~">>}

ParseUnary(p) ==
    LET operand == Parse(UNARY, Advance(p))
    IN  IF Peek(p) \notin UnaryOps THEN Parse(PRIMARY, p)
        ELSE IF operand.ok THEN Value(operand, Unary(Peek(p), operand.val))
        ELSE operand

ParsePrimary(p) ==
    CASE p.toks = <<>> -> Fail(p)
      [] p.toks # <<>> /\ Head(p.toks).t = "num" ->
           Value(Advance(p), Head(p.toks).n)
      [] p.toks # <<>> /\ Head(p.toks).t = "var" ->
           Value(Advance(p), GetVar(p, Head(p.toks).name))
      [] Peek(p) = <<"(">> -> Expect(Parse(ASSIGNMENT, Advance(p)), <<")">>)
      [] OTHER -> Fail(p)

Parse(level, p) ==
    CASE level = ASSIGNMENT -> ParseAssignment(p)
      [] level = TERNARY -> ParseTernary(p)
      [] level = OR -> ParseOr(p)
      [] level = AND -> ParseAnd(p)
      [] level = UNARY -> ParseUnary(p)
      [] level = PRIMARY -> ParsePrimary(p)
      [] OTHER -> ParseBinop(p, level)

\* The outcome of $((text)): the value, or an error, and the shell after it.
EvalArith(text, sh) ==
    LET tokens == Tokenize(text, 1, <<>>)
        start == [toks |-> tokens.toks, sh |-> sh, noeval |-> FALSE,
                  val |-> 0, ok |-> TRUE]
        end == Parse(ASSIGNMENT, start)
    IN  IF ~tokens.ok THEN [ok |-> FALSE, val |-> 0, sh |-> sh]
        ELSE IF end.ok /\ end.toks = <<>>
        THEN [ok |-> TRUE, val |-> end.val, sh |-> end.sh]
        ELSE [ok |-> FALSE, val |-> 0, sh |-> end.sh]

-----------------------------------------------------------------------------
(* Reference: trees [e |-> "num", n], [e |-> "var", name],                 *)
(* [e |-> "un", op, a], [e |-> "bin", op, a, b], [e |-> "set", op, name,   *)
(* a], [e |-> "if", a, b, c], evaluated by C's rules.                      *)

RECURSIVE TreeValue(_, _)
TreeValue(e, sh) ==
    LET Answer(n, vs) == [ok |-> TRUE, val |-> n, sh |-> vs]
        Error(vs) == [ok |-> FALSE, val |-> 0, sh |-> vs]
        Of(name, vs) == IntOrZero(OrEmpty(ValueOf(vs, name)))
        a == TreeValue(e.a, sh)
        b == TreeValue(e.b, a.sh)
        c == TreeValue(e.c, a.sh)
        stored == IF e.op = <<"=">> THEN a.val
                  ELSE Binop(Front(e.op), Of(e.name, a.sh), a.val)
    IN  CASE e.e = "num" -> Answer(e.n, sh)
          [] e.e = "var" -> Answer(Of(e.name, sh), sh)
          [] e.e = "un" -> IF a.ok THEN Answer(Unary(e.op, a.val), a.sh) ELSE a
          [] e.e = "if" -> IF ~a.ok THEN a ELSE IF a.val # 0 THEN b ELSE c
          [] e.e = "set" ->
               IF ~a.ok THEN a
               ELSE IF e.op # <<"=">>
                       /\ BinopFails(Front(e.op), Of(e.name, a.sh), a.val)
               THEN Error(a.sh)
               ELSE Answer(stored, SetText(a.sh, e.name, IntText(stored)))
          [] e.e = "bin" /\ e.op = <<"&", "&">> ->
               IF ~a.ok \/ a.val = 0 THEN a
               ELSE IF b.ok THEN Answer(Truth(b.val # 0), b.sh) ELSE b
          [] e.e = "bin" /\ e.op = <<"|", "|">> ->
               IF ~a.ok THEN a
               ELSE IF a.val # 0 THEN Answer(1, a.sh)
               ELSE IF b.ok THEN Answer(Truth(b.val # 0), b.sh) ELSE b
          [] OTHER ->
               IF ~a.ok THEN a ELSE IF ~b.ok THEN b
               ELSE IF BinopFails(e.op, a.val, b.val) THEN Error(b.sh)
               ELSE Answer(Binop(e.op, a.val, b.val), b.sh)

\* How tightly a tree binds, by C's table.
Tightness(e) ==
    CASE e.e = "set" -> -3
      [] e.e = "if" -> -2
      [] e.e = "bin" /\ e.op = <<"|", "|">> -> -1
      [] e.e = "bin" /\ e.op = <<"&", "&">> -> 0
      [] e.e = "bin" -> Precedence(e.op)
      [] OTHER -> 9

\* The tree as text, with the fewest parentheses that C's grammar allows.
RECURSIVE TreeText(_)
TreeText(e) ==
    LET At(x, level) == IF Tightness(x) < level
                        THEN <<"(">> \o TreeText(x) \o <<")">> ELSE TreeText(x)
    IN  CASE e.e = "num" -> NatText(e.n)
          [] e.e = "var" -> e.name
          [] e.e = "un" -> e.op \o <<" ">> \o At(e.a, 9)
          [] e.e = "set" -> e.name \o e.op \o At(e.a, -3)
          [] e.e = "if" -> At(e.a, -1) \o <<"?">> \o At(e.b, -3)
                           \o <<":">> \o At(e.c, -2)
          [] e.e = "bin" -> At(e.a, Tightness(e)) \o <<" ">> \o e.op
                            \o <<" ">> \o At(e.b, Tightness(e) + 1)

\* The evaluator computes a tree's value from its text, and the same shell.
SameOutcome(answer, expected) == answer.ok = expected.ok /\ (expected.ok => answer = expected)
Computes(e, sh) == SameOutcome(EvalArith(TreeText(e), sh), TreeValue(e, sh))

=============================================================================
