----------------------------- MODULE EpshAnswers -----------------------------
(***************************************************************************)
(* The pure parts of epsh against definitions of what they should answer:  *)
(* pattern matching, pathname expansion, arithmetic, test, field splitting *)
(* and the parser.  A question stands for many inputs; a session may carry *)
(* one.                                                                    *)
(***************************************************************************)
EXTENDS Epsh

P == INSTANCE ShellParser WITH MaxNesting <- 8

NoQuestion == [q |-> "none"]
Texts(chars, n) == UNION { [1 .. k -> chars] : k \in 0 .. n }

-----------------------------------------------------------------------------
(* Patterns                                                                *)

UnitLit(c) == [u |-> "lit", c |-> c]
UnitSet(negate) == [u |-> "set", negate |-> negate, lo |-> "b", hi |-> "c", extra |-> "."]
Units == {[u |-> "any"], [u |-> "star"], UnitLit("a"), UnitLit("*"), UnitSet(TRUE), UnitSet(FALSE)}
MatchQuestions == { [q |-> "match", units |-> us] : us \in Texts(Units, 3) }
MatchRight(units) ==
    \A s \in Texts({"a", "b", "*"}, 3) : Fnmatch(UnitsText(units), s) = MatchesUnits(units, s)

\* A file, a hidden file, a directory with both and a link to nothing.
GlobTree ==
    LET a == <<"a">> h == <<".", "a">> d == <<"d">> l == <<"l">>
    IN  [p \in {<<a>>, <<h>>, <<d>>, <<l>>, <<d, a>>, <<d, h>>} |->
           IF p = <<d>> THEN "dir" ELSE IF p = <<l>> THEN "dangling" ELSE "file"]
PathUnits == {<<[u |-> "star"]>>, <<[u |-> "any"]>>, <<UnitLit("."), [u |-> "star"]>>,
              <<UnitLit("a")>>, <<UnitLit("d")>>, <<UnitSet(TRUE)>>, <<UnitSet(FALSE), UnitLit("a")>>}
GlobQuestions == { [q |-> "glob", path |-> us] : us \in Texts(PathUnits, 2) \ {<<>>} }
GlobRight(path) ==
    LET found == GlobShell(GlobTree, <<>>, PathText([i \in DOMAIN path |-> UnitsText(path[i])]))
        expected == GlobReference(GlobTree, path)
    IN  /\ ToSet(found) = expected /\ Len(found) = Cardinality(expected)
        /\ \A i \in 1 .. Len(found) - 1 : TextLess(found[i], found[i + 1])

-----------------------------------------------------------------------------
(* Arithmetic                                                              *)

A == INSTANCE ShellArith
EVar(name) == [e |-> "var", name |-> name]
ENum(n) == [e |-> "num", n |-> n]
EBin(op, a, b) == [e |-> "bin", op |-> op, a |-> a, b |-> b]
ESet(op, a) == [e |-> "set", op |-> op, name |-> <<"x">>, a |-> a]
EIf(a, b, c) == [e |-> "if", a |-> a, b |-> b, c |-> c]
EUn(op, a) == [e |-> "un", op |-> op, a |-> a]
\* x is -3 at the start.
ArithShell == SetText(BlankShell, <<"x">>, <<"-", "3">>)
ArithLeaves == {ENum(0), ENum(2), ENum(MaxInt), EVar(<<"x">>)}
BinaryOps == {<<"&", "&">>, <<"|", "|">>}
             \cup (UNION Range(A!Precedences) \ {<<"!", "=">>, <<">">>, <<">", "=">>, <<"<", "=">>, <<">", ">">>})
ArithQuestions == { [q |-> "arith", op1 |-> f, op2 |-> g] : f, g \in BinaryOps }
ArithTrees(op1, op2) ==
    LET leaves == ArithLeaves
        pairs == { EBin(op2, a, b) : a, b \in leaves }
        stores == { ESet(op, b) : op \in {<<"=">>, <<"+", "=">>, <<"/", "=">>}, b \in pairs }
    IN  { EBin(op1, a, b) : a \in pairs, b \in leaves } \cup { EBin(op1, b, a) : a \in pairs, b \in leaves }
        \cup { EBin(op1, b, a) : a \in stores, b \in {ENum(0), EVar(<<"x">>)} }
        \cup { EIf(a, b, EBin(op1, EVar(<<"x">>), ENum(2))) : a \in pairs, b \in {ESet(<<"=">>, ENum(7)), ENum(2)} }
        \cup { EUn(op, a) : op \in A!UnaryOps, a \in pairs }
ArithRight(op1, op2) ==
    \A e \in ArithTrees(op1, op2) : A!Computes(e, ArithShell)

-----------------------------------------------------------------------------
(* One operation on the values at the edges of the type, from what the     *)
(* operation is: the quotient rounds towards zero and must fit, a shift by *)
(* the width or more is refused, the rest is taken bit by bit or modulo    *)
(* 2^Width.  An operation that is not evaluated never fails.               *)

Edges == {MinInt, MinInt + 1, -1, 0, 1, 3, Width - 1, Width, MaxInt}
Bit(n, k) == (n \div 2 ^ k) % 2
EqualBits(n, Of(_)) == \A k \in 0 .. Width - 1 : Bit(n, k) = Of(k)
SameModulo(m, n) == (m - n) % 2 ^ Width = 0
IsQuotient(q, l, r) ==
    LET rest == l - q * r
    IN  A!Abs(rest) < A!Abs(r) /\ (rest = 0 \/ ((rest < 0) = (l < 0)))
Quotients(l, r) == { q \in MinInt .. MaxInt : IsQuotient(q, l, r) }

OperationDefined(op, l, r) ==
    /\ op \in {<<"/">>, <<"%">>} => Quotients(l, r) # {}
    /\ op \in {<<"<", "<">>, <<">", ">">>} => 0 <= r /\ r < Width
OperationMeans(op, l, r, n) ==
    CASE op = <<"+">> -> SameModulo(n, l + r)
      [] op = <<"-">> -> SameModulo(n, l - r)
      [] op = <<"*">> -> SameModulo(n, l * r)
      [] op = <<"/">> -> n \in Quotients(l, r)
      [] op = <<"%">> -> \E q \in Quotients(l, r) : n = l - q * r
      [] op = <<"<", "<">> -> EqualBits(n, LAMBDA k : IF k < r THEN 0 ELSE Bit(l, k - r))
      [] op = <<">", ">">> -> EqualBits(n, LAMBDA k : Bit(l, Min({k + r, Width - 1})))
      [] op = <<"&">> -> EqualBits(n, LAMBDA k : Bit(l, k) * Bit(r, k))
      [] op = <<"|">> -> EqualBits(n, LAMBDA k : Max({Bit(l, k), Bit(r, k)}))
      [] op = <<"^">> -> EqualBits(n, LAMBDA k : (Bit(l, k) + Bit(r, k)) % 2)
      [] OTHER -> n = IF \/ op \in {<<"<">>, <<"<", "=">>, <<"!", "=">>} /\ l < r
                         \/ op \in {<<">">>, <<">", "=">>, <<"!", "=">>} /\ l > r
                         \/ op \in {<<"=", "=">>, <<"<", "=">>, <<">", "=">>} /\ l = r
                      THEN 1 ELSE 0

\* An operation alone, storing its result, and where it is not evaluated.
Alone(op) == <<"x", " ">> \o op \o <<" ", "y">>
Storing(op) == Alone(Append(op, "="))
Skipped(op) == Chars("0 && (") \o Alone(op) \o <<")">>
Holding(v) == SetText(SetText(BlankShell, <<"x">>, IntText(v[1])), <<"y">>, IntText(v[2]))

EdgeQuestions == { [q |-> "edge", op |-> op] : op \in UNION Range(A!Precedences) }
EdgeRight(op, answers) ==
    \A l, r \in Edges :
        LET v == <<l, r>>
            answer == answers[Alone(op), v]
        IN  /\ answer.ok = OperationDefined(op, l, r)
            /\ answer.ok => answer.val \in MinInt .. MaxInt /\ OperationMeans(op, l, r, answer.val)
            /\ answers[Skipped(op), v] = [ok |-> TRUE, val |-> 0, sh |-> Holding(v)]
            /\ Append(op, "=") \in A!AssignOps =>
                   answers[Storing(op), v] =
                       IF answer.ok
                       THEN [answer EXCEPT !.sh = SetText(Holding(v), <<"x">>, IntText(answer.val))]
                       ELSE answer

\* A number written in each base, with each prefix, up to one past the type,
\* and texts that are no number at all or one after all.
InCapitals(s) ==
    [i \in DOMAIN s |-> IF IsDigit(s[i]) THEN s[i] ELSE Capitals[DigitOf(s[i]) - 9]]
Numerals(n) ==
    {BaseText(n, 10), <<"0">> \o BaseText(n, 8)}
    \cup { <<"0", x>> \o digits : x \in {"x", "X"},
                                  digits \in {BaseText(n, 16), InCapitals(BaseText(n, 16))} }
Numbers == 0 .. 20 \cup {MaxInt - 1, MaxInt, MaxInt + 1, 2 ^ Width}
NoNumerals == { Chars(s) : s \in {"0x", "0X", "0xg", "018", "1a"} }
OddNumerals == { Chars(s) : s \in {"08", "09"} }
NumeralRight(answers) ==
    LET v == <<0, 0>>
    IN  /\ \A n \in Numbers : \A s \in Numerals(n) :
               answers[s, v] = [ok |-> n <= MaxInt, val |-> IF n <= MaxInt THEN n ELSE 0, sh |-> Holding(v)]
        /\ \A s \in NoNumerals : ~answers[s, v].ok
        /\ \A s \in OddNumerals : answers[s, v].ok

SumRight(q) ==
    LET edge == q.q = "edge"
        texts == IF edge THEN {Alone(q.op), Storing(q.op), Skipped(q.op)}
                 ELSE UNION { Numerals(n) : n \in Numbers } \cup NoNumerals \cup OddNumerals
        values == IF edge THEN Edges \X Edges ELSE {<<0, 0>>}
        answers == [s \in texts, v \in values |-> A!EvalArith(s, Holding(v))]
    IN  IF edge THEN EdgeRight(q.op, answers) ELSE NumeralRight(answers)

-----------------------------------------------------------------------------
(* Conditions                                                              *)

CBin(l, op, r) == [e |-> "bin", l |-> Chars(l), op |-> Chars(op), r |-> Chars(r)]
CLeaves == {CBin("a", "=", "b"), CBin("3", "-lt", "10"), CBin("b", "<", "a"),
            [e |-> "un", op |-> "z", l |-> <<>>], [e |-> "un", op |-> "d", l |-> <<"d">>],
            [e |-> "word", l |-> <<>>]}
CNot(S) == { [e |-> "not", a |-> a] : a \in S }
CPairs(S, U) == { [e |-> op, a |-> a, b |-> b] : op \in {"and", "or"}, a \in S, b \in U }
ConditionQuestions ==
    { [q |-> "test", cond |-> c] : c \in CPairs(CLeaves \cup CNot(CLeaves), CLeaves) }
ConditionRight(c) ==
    LET leaf == CBin("a", "=", "b")
    IN  \A e \in {c} \cup CNot({c}) \cup CPairs({c}, {leaf}) \cup CPairs({leaf}, {c} \cup CNot({c})) :
            Condition(<<>>)!Decides(e)

-----------------------------------------------------------------------------
(* Field splitting.  Between two pieces of content k delimiters that are   *)
(* not blanks leave k - 1 empty fields, at the start k, and at the end     *)
(* k - 1: the last one ends a field.                                       *)

SplitIfs == <<" ", ":">>
Cells(fragments) ==
    FlattenSeq([i \in DOMAIN fragments |->
        LET f == fragments[i]
            Kind(c) == IF ~f.split THEN "text" ELSE IF c = " " THEN "blank"
                       ELSE IF c = ":" THEN "delimiter" ELSE "text"
        IN  (IF f.brk THEN <<[kind |-> "blank", s |-> <<>>]>> ELSE <<>>)
            \o (IF ~f.split THEN <<[kind |-> "text", s |-> <<>>]>> ELSE <<>>)
            \o [j \in DOMAIN f.value |-> [kind |-> Kind(f.value[j]), s |-> <<f.value[j]>>]]])
RECURSIVE FieldsOf(_)
FieldsOf(cells) ==
    LET text == SpanEnd(cells, 1, LAMBDA c : c.kind = "text")
        gap == SpanEnd(cells, text, LAMBDA c : c.kind # "text")
        between == SubSeq(cells, text, gap - 1)
        delimiters == Len(SelectSeq(between, LAMBDA c : c.kind = "delimiter"))
        empty == IF text = 1 THEN delimiters ELSE Max({delimiters - 1, 0})
        field == IF text = 1 THEN <<>>
                 ELSE <<FlattenSeq([i \in 1 .. text - 1 |-> cells[i].s])>>
    IN  IF cells = <<>> THEN <<>>
        ELSE field \o [i \in 1 .. empty |-> <<>>] \o FieldsOf(SubSeq(cells, gap, Len(cells)))
\* Where field_split differs: blanks at the edge of a fragment next to a
\* delimiter count as a delimiter of their own, or take the next one along.
EdgeBlanks(fragments) ==
    \E i \in DOMAIN fragments :
        LET f == fragments[i]
            blanks == SpanEnd(f.value, 1, LAMBDA c : c = " ")
            starts == blanks <= Len(f.value) /\ f.value[blanks] = ":"
        IN  /\ f.split /\ starts
            /\ blanks > 1 \/ i > 1
FragmentTexts == Texts({"a", " ", ":"}, 3)
SplitQuestions == { [q |-> "split", first |-> s] : s \in FragmentTexts }
SplitRight(s) ==
    \A t \in FragmentTexts, quoted, brk \in BOOLEAN :
        LET fragments == <<Fragment(s, TRUE, FALSE), Fragment(t, ~quoted, brk)>>
        IN  EdgeBlanks(fragments) \/ FieldSplit(fragments, SplitIfs) = FieldsOf(Cells(fragments))

-----------------------------------------------------------------------------
(* Programs: a text and the command it stands for, built together.         *)

Code3(level, text, tree) == [level |-> level, text |-> text, tree |-> tree, ends |-> FALSE]
Word(s) == <<P!Lit(Chars(s))>>
PlainCommand == Code3(3, "a", [P!EmptyCommand EXCEPT !.words = <<Word("a")>>])
FullCommand ==
    Code3(3, "x=1 a 'b c' \"$x\" ${x:-y} 2>f",
          [P!EmptyCommand EXCEPT
             !.assigns = <<[name |-> <<"x">>, value |-> Word("1")]>>,
             !.words = <<Word("a"), <<P!SingleQuoted(Chars("b c"))>>,
                         <<P!DoubleQuoted(<<P!Plain(<<"x">>)>>)>>,
                         <<P!Param(<<"x">>, "Default", TRUE, Word("y"))>>>>,
             !.redirs = <<P!Redir(2, "Output", Word("f"))>>])

\* A list with the separator after it, if it needs one.
Ended(x, sep) == IF x.ends THEN x.text \o " " ELSE x.text \o sep
Grouped(x, sep) == Code3(3, "{ " \o Ended(x, sep) \o "}", P!Node("BraceGroup", <<x.tree>>))
AtLeast(x, level, sep) == IF x.level < level THEN Grouped(x, sep) ELSE x

Built(x, y, sep) ==
    LET c == AtLeast(x, 3, sep) d == AtLeast(y, 3, sep)
        pl == AtLeast(y, 2, sep)
        Two(level, op, l, r, node) == Code3(level, l.text \o op \o r.text, P!Node(node, <<l.tree, r.tree>>))
        X == Ended(x, sep) Y == Ended(y, sep)
        Both == <<x.tree, y.tree>>
        job == AtLeast(x, 1, sep)
    IN  { Grouped(x, sep),
          Code3(3, "(" \o x.text \o ")", P!Node("Subshell", <<x.tree>>)),
          Code3(3, "f()\n" \o c.text, [P!Node("FuncDef", <<c.tree>>) EXCEPT !.name = <<"f">>]),
          Code3(2, "! " \o c.text, [P!Node("Pipeline", <<c.tree>>) EXCEPT !.flag = TRUE]),
          Two(2, " | ", c, d, "Pipeline"),
          Two(1, " && ", AtLeast(x, 1, sep), pl, "And"),
          Two(1, " ||\n", AtLeast(x, 1, sep), pl, "Or"),
          Code3(0, X \o AtLeast(y, 1, sep).text, P!Node("Sequence", <<x.tree, AtLeast(y, 1, sep).tree>>)),
          [Code3(0, job.text \o "&", P!Node("Background", <<job.tree>>)) EXCEPT !.ends = TRUE],
          Code3(3, "if " \o X \o "then " \o Y \o "fi", P!Node("If", Both)),
          Code3(3, "if " \o X \o "then " \o Y \o "elif " \o Y \o "then " \o X \o "else " \o Y \o "fi",
                P!Node("If", Append(Both, P!Node("If", <<y.tree, x.tree, y.tree>>)))),
          Code3(3, "while " \o X \o "do " \o Y \o "done", P!Node("While", Both)),
          Code3(3, "until " \o X \o "do " \o Y \o "done <g",
                [P!Node("BraceGroup", <<P!Node("Until", Both)>>) EXCEPT
                   !.redirs = <<P!Redir(0, "Input", Word("g"))>>]),
          Code3(3, "for i in b c" \o sep \o "do " \o X \o "done",
                [P!Node("For", <<x.tree>>) EXCEPT !.name = <<"i">>, !.flag = TRUE,
                                                 !.words = <<Word("b"), Word("c")>>]),
          Code3(3, "for i do " \o Y \o "done", [P!Node("For", <<y.tree>>) EXCEPT !.name = <<"i">>]),
          Code3(3, "case $x in (a|if) " \o x.text \o ";; b) ;; *) " \o Y \o "esac",
                [P!Node("Case", Both) EXCEPT
                   !.words = <<<<P!Plain(<<"x">>)>>>>,
                   !.arms = <<[patterns |-> <<Word("a"), Word("if")>>, empty |-> FALSE],
                              [patterns |-> <<Word("b")>>, empty |-> TRUE],
                              [patterns |-> <<Word("*")>>, empty |-> FALSE]>>]) }

\* At the top a newline ends a command, so lists are grouped there.
ParsedCodes ==
    UNION { LET inner == Built(PlainCommand, FullCommand, sep)
                all == inner \cup UNION { Built(x, PlainCommand, sep) \cup Built(PlainCommand, x, sep) : x \in inner }
            IN  { AtLeast(x, 1, sep) : x \in all } : sep \in {"; ", "\n"} }
ParseQuestions == { [q |-> "parse", text |-> x.text, tree |-> x.tree] : x \in ParsedCodes }

-----------------------------------------------------------------------------
Questions == MatchQuestions \cup GlobQuestions \cup ArithQuestions \cup ConditionQuestions
             \cup EdgeQuestions \cup {[q |-> "numeral"]} \cup SplitQuestions \cup ParseQuestions

\* What epsh answers is what the definition says: fnmatch and the glob walk
\* find what the units of the pattern accept, $(( )) computes what C's
\* grammar and a lazy evaluation give with the same assignments done, each of
\* its operations what the operation is, also on the smallest number, -1 and
\* the width, and each numeral its number; test decides its tree, field_split
\* cuts at the delimiters, and the parser recovers the command a text was
\* written from.
AnswersExact ==
    LET q == session.question
    IN  AtRoot("dropped") =>
        CASE q.q = "none" -> TRUE
          [] q.q = "match" -> MatchRight(q.units)
          [] q.q = "glob" -> GlobRight(q.path)
          [] q.q = "arith" -> ArithRight(q.op1, q.op2)
          [] q.q \in {"edge", "numeral"} -> SumRight(q)
          [] q.q = "test" -> ConditionRight(q.cond)
          [] q.q = "split" -> SplitRight(q.first)
          [] q.q = "parse" -> session.parsed[Chars(q.text)] = [err |-> FALSE, v |-> <<q.tree>>]

=============================================================================
