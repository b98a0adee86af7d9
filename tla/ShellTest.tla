------------------------------ MODULE ShellTest ------------------------------
(***************************************************************************)
(* The test command (epsh/src/test_cmd.rs): a recursive-descent evaluator  *)
(* over the arguments, which reads every operand even when the result is   *)
(* already known.  Files are known by the facts a path is tested for.      *)
(***************************************************************************)
EXTENDS ShellText

CONSTANT
    Files  \* path text -> [facts, age, id]: the one-letter tests it passes,
           \* its modification time and its identity; others do not exist

Equalities == {<<"=">>, Chars("==")}
IntegerOps == { <<"-">> \o op : op \in
    { Chars("eq"), Chars("ne"), Chars("lt"), Chars("le"), Chars("gt"), Chars("ge") } }
FileOps == { Chars("-nt"), Chars("-ot"), Chars("-ef") }
BinaryOps == Equalities \cup {Chars("!="), <<"<">>, <<">">>} \cup IntegerOps \cup FileOps
UnaryLetters == {"n", "z", "e", "f", "d", "L", "h", "r", "w", "x", "s", "t", "p",
                 "b", "c", "S", "u", "g", "k"}

Before(s, t) == \* str's order
    \E i \in 1 .. Len(t) :
        /\ i <= Len(s) + 1
        /\ SubSeq(s, 1, i - 1) = SubSeq(t, 1, i - 1)
        /\ i <= Len(s) => Code(s[i]) < Code(t[i])

IntegerTest(op, l, r) ==
    CASE op = Chars("-eq") -> l = r
      [] op = Chars("-ne") -> l # r
      [] op = Chars("-lt") -> l < r
      [] op = Chars("-le") -> l <= r
      [] op = Chars("-gt") -> l > r
      [] op = Chars("-ge") -> l >= r

\* A file that exists is newer than one that does not.
FileTest(op, l, r) ==
    LET both == l \in DOMAIN Files /\ r \in DOMAIN Files
    IN  CASE op = Chars("-nt") ->
               IF both THEN Files[l].age > Files[r].age ELSE l \in DOMAIN Files
          [] op = Chars("-ot") ->
               IF both THEN Files[l].age < Files[r].age ELSE r \in DOMAIN Files
          [] op = Chars("-ef") -> both /\ Files[l].id = Files[r].id

BinaryTest(op, l, r) ==
    CASE op \in Equalities -> l = r
      [] op = Chars("!=") -> l # r
      [] op = <<"<">> -> Before(l, r)
      [] op = <<">">> -> Before(r, l)
      [] op \in IntegerOps -> IntegerTest(op, IntOrZero(l), IntOrZero(r))
      [] op \in FileOps -> FileTest(op, l, r)

UnaryTest(letter, operand) ==
    CASE letter = "n" -> operand # <<>>
      [] letter = "z" -> operand = <<>>
      [] OTHER -> operand \in DOMAIN Files /\ letter \in Files[operand].facts

\* A unary operator is one only when an operand follows it.
HasOperand(args, pos) ==
    /\ pos < Len(args)
    /\ args[pos + 1] \notin ({<<")">>, Chars("-a"), Chars("-o"), <<"=">>, Chars("!=")}
                             \cup IntegerOps)

IsUnary(args, pos) ==
    /\ Len(args[pos]) = 2 /\ args[pos][1] = "-" /\ args[pos][2] \in UnaryLetters
    /\ HasOperand(args, pos)

IsBinary(args, pos) == pos < Len(args) /\ args[pos + 1] \in BinaryOps

ArgAt(args, pos) == IF pos <= Len(args) THEN args[pos] ELSE <<>>

RECURSIVE TestOr(_, _), OrRest(_, _), TestAnd(_, _), AndRest(_, _),
          TestNot(_, _), TestPrimary(_, _)

\* Each returns the result and the position after what it read.
TestPrimary(args, pos) ==
    LET inner == TestOr(args, pos + 1)
    IN  CASE pos > Len(args) -> [r |-> FALSE, pos |-> pos]
          [] pos <= Len(args) /\ args[pos] = <<"(">> ->
               IF ArgAt(args, inner.pos) = <<")">> /\ inner.pos <= Len(args)
               THEN [inner EXCEPT !.pos = @ + 1] ELSE inner
          [] OTHER ->
               IF IsBinary(args, pos)
               THEN [r |-> BinaryTest(args[pos + 1], args[pos], ArgAt(args, pos + 2)),
                     pos |-> pos + 3]
               ELSE IF IsUnary(args, pos)
               THEN [r |-> UnaryTest(args[pos][2], args[pos + 1]), pos |-> pos + 2]
               ELSE [r |-> args[pos] # <<>>, pos |-> pos + 1]

TestNot(args, pos) ==
    IF pos <= Len(args) /\ args[pos] = <<"!">>
    THEN LET primary == TestPrimary(args, pos + 1)
         IN  [primary EXCEPT !.r = ~@]
    ELSE TestPrimary(args, pos)

TestAnd(args, pos) == AndRest(args, TestNot(args, pos))
AndRest(args, left) ==
    LET right == TestNot(args, left.pos + 1)
    IN  IF left.pos <= Len(args) /\ args[left.pos] = Chars("-a")
        THEN AndRest(args, [right EXCEPT !.r = left.r /\ @]) ELSE left

TestOr(args, pos) == OrRest(args, TestAnd(args, pos))
OrRest(args, left) ==
    LET right == TestAnd(args, left.pos + 1)
    IN  IF left.pos <= Len(args) /\ args[left.pos] = Chars("-o")
        THEN OrRest(args, [right EXCEPT !.r = left.r \/ @]) ELSE left

\* 0 true, 1 false, 2 when arguments are left over.
TestEval(args) ==
    LET result == TestOr(args, 1)
    IN  IF args = <<>> THEN 1
        ELSE IF result.pos <= Len(args) THEN 2
        ELSE IF result.r THEN 0 ELSE 1

-----------------------------------------------------------------------------
(* Reference: a condition tree, its truth, and its arguments.              *)

RECURSIVE Holds(_)
Holds(e) ==
    CASE e.e = "or" -> Holds(e.a) \/ Holds(e.b)
      [] e.e = "and" -> Holds(e.a) /\ Holds(e.b)
      [] e.e = "not" -> ~Holds(e.a)
      [] e.e = "bin" -> BinaryTest(e.op, e.l, e.r)
      [] e.e = "un" -> UnaryTest(e.op, e.l)
      [] e.e = "word" -> e.l # <<>>

RECURSIVE ConditionArgs(_)
ConditionArgs(e) ==
    LET Level(x) == CASE x.e = "or" -> 1 [] x.e = "and" -> 2 [] x.e = "not" -> 3
                      [] OTHER -> 4
        At(x, level) == IF Level(x) < level
                        THEN <<<<"(">>>> \o ConditionArgs(x) \o <<<<")">>>>
                        ELSE ConditionArgs(x)
    IN  CASE e.e = "or" -> At(e.a, 1) \o <<Chars("-o")>> \o At(e.b, 2)
          [] e.e = "and" -> At(e.a, 2) \o <<Chars("-a")>> \o At(e.b, 3)
          [] e.e = "not" -> <<<<"!">>>> \o At(e.a, 4)
          [] e.e = "bin" -> <<e.l, e.op, e.r>>
          [] e.e = "un" -> <<<<"-", e.op>>, e.l>>
          [] e.e = "word" -> <<e.l>>

Decides(e) == TestEval(ConditionArgs(e)) = IF Holds(e) THEN 0 ELSE 1

=============================================================================
