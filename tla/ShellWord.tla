------------------------------ MODULE ShellWord ------------------------------
(***************************************************************************)
(* Word expansion (epsh/src/expand.rs): from the parts of a word to the    *)
(* fields of a command, to one string or to a pattern.  An expansion       *)
(*   x = [sh, outs, need, err, v]                                          *)
(* threads the shell it changes (${x=w}, $((x=1))), the outputs of the     *)
(* command substitutions it has still to consume, the command whose output *)
(* it lacks, and its result.  An evaluator that meets a need runs the      *)
(* command in a child and expands again with one more output: expansion is *)
(* a function of the shell it started from, so it gets to the same place.  *)
(***************************************************************************)
EXTENDS ShellVars

(* Patterns (epsh/src/glob.rs): fnmatch over shell characters, and pathname *)
(* expansion over a directory tree.                                        *)

Escapes == {"\\", CTLESC}
GlobChars == {"*", "?", "["}

-----------------------------------------------------------------------------
(* fnmatch                                                                 *)

\* One character of a bracket expression and the position after it.
ReadBracketChar(pat, pi) ==
    IF pat[pi] \in Escapes /\ pi < Len(pat)
    THEN [c |-> pat[pi + 1], next |-> pi + 2]
    ELSE [c |-> pat[pi], next |-> pi + 1]

\* The members of the bracket expression from pi on; whether one is u.
RECURSIVE BracketScan(_, _, _, _, _)
BracketScan(pat, pi, start, u, matched) ==
    IF pi > Len(pat) \/ (pat[pi] = "]" /\ pi # start)
    THEN [matched |-> matched, next |-> IF pi > Len(pat) THEN pi ELSE pi + 1]
    ELSE LET first == ReadBracketChar(pat, pi)
             ranged == /\ first.next < Len(pat)
                       /\ pat[first.next] = "-"
                       /\ pat[first.next + 1] # "]"
             last == ReadBracketChar(pat, first.next + 1)
         IN  IF ranged
             THEN BracketScan(pat, last.next, start, u,
                      matched \/ Code(u) \in Code(first.c) .. Code(last.c))
             ELSE BracketScan(pat, first.next, start, u, matched \/ u = first.c)

Bracket(pat, pi, u) ==
    LET negate == pi <= Len(pat) /\ pat[pi] = "!"
        start == IF negate THEN pi + 1 ELSE pi
        scan == BracketScan(pat, start, start, u, FALSE)
    IN  [accepts |-> scan.matched # negate, next |-> scan.next]

RECURSIVE FnmatchInner(_, _, _, _)
FnmatchInner(pat, pi, s, si) ==
    IF pi > Len(pat) THEN si > Len(s)
    ELSE LET c == pat[pi]
         IN  CASE c = "?" ->
                    si <= Len(s) /\ FnmatchInner(pat, pi + 1, s, si + 1)
               [] c = "*" ->
                    LET rest == SpanEnd(pat, pi, LAMBDA d : d = "*")
                    IN  \/ rest > Len(pat)
                        \/ \E i \in si .. Len(s) + 1 :
                               FnmatchInner(pat, rest, s, i)
               [] c = "[" ->
                    /\ si <= Len(s)
                    /\ LET bracket == Bracket(pat, pi + 1, s[si])
                       IN  /\ bracket.accepts
                           /\ FnmatchInner(pat, bracket.next, s, si + 1)
               [] c \in Escapes ->
                    /\ pi < Len(pat) /\ si <= Len(s)
                    /\ s[si] = pat[pi + 1]
                    /\ FnmatchInner(pat, pi + 2, s, si + 1)
               [] OTHER ->
                    /\ si <= Len(s) /\ s[si] = c
                    /\ FnmatchInner(pat, pi + 1, s, si + 1)

Fnmatch(pat, s) == FnmatchInner(pat, 1, s, 1)

-----------------------------------------------------------------------------
(* Pathname expansion.  A tree is a function from paths (sequences of      *)
(* names) to "file", "dir" or "dangling", a symbolic link to nothing.      *)

RECURSIVE HasGlobChars(_)
HasGlobChars(s) ==
    /\ s # <<>>
    /\ \/ s[1] \in GlobChars
       \/ s[1] \in Escapes /\ Len(s) > 1 /\ HasGlobChars(SubSeq(s, 3, Len(s)))
       \/ s[1] \notin Escapes \cup GlobChars /\ HasGlobChars(Tail(s))

\* The text without the escapes in Marks; a trailing one stays.
RECURSIVE Unescaped(_, _)
Unescaped(s, marks) ==
    IF Len(s) < 2 THEN s
    ELSE IF s[1] \in marks THEN <<s[2]>> \o Unescaped(SubSeq(s, 3, Len(s)), marks)
    ELSE <<s[1]>> \o Unescaped(Tail(s), marks)

LiteralComponent(pattern) == Unescaped(pattern, Escapes)
RemoveGlobEscapes(s) == Unescaped(s, {CTLESC})

ComponentStartsWithDot(pattern) ==
    \/ pattern[1] = "."
    \/ pattern[1] \in Escapes /\ Len(pattern) > 1 /\ pattern[2] = "."

\* The non-empty pieces between slashes.
RECURSIVE SplitComponents(_)
SplitComponents(pattern) ==
    IF pattern = <<>> THEN <<>>
    ELSE IF pattern[1] = "/" THEN SplitComponents(Tail(pattern))
    ELSE LET end == SpanEnd(pattern, 1, LAMBDA c : c # "/")
         IN  <<SubSeq(pattern, 1, end - 1)>>
             \o SplitComponents(SubSeq(pattern, end, Len(pattern)))

RECURSIVE GlobRecursive(_, _, _)
GlobRecursive(tree, dir, components) ==
    LET pattern == Head(components)
        remaining == Tail(components)
        literal == Append(dir, LiteralComponent(pattern))
        entries == { p \in DOMAIN tree :
                       /\ Len(p) = Len(dir) + 1
                       /\ IsPrefix(dir, p)
                       /\ Last(p)[1] = "." => ComponentStartsWithDot(pattern)
                       /\ Fnmatch(pattern, Last(p)) }
        found == IF ~HasGlobChars(pattern)
                 THEN {literal} \cap DOMAIN tree ELSE entries
    IN  IF remaining = <<>> THEN found
        ELSE UNION { GlobRecursive(tree, p, remaining) :
                       p \in { q \in found : tree[q] = "dir" } }

\* The text of a path relative to the working directory.
PathText(path) == FlattenSeq([i \in 1 .. Len(path) |->
                     IF i = 1 THEN path[i] ELSE <<"/">> \o path[i]])

RECURSIVE TextLess(_, _)
TextLess(s, t) ==
    /\ t # <<>>
    /\ \/ s = <<>>
       \/ Code(s[1]) < Code(t[1])
       \/ Code(s[1]) = Code(t[1]) /\ TextLess(Tail(s), Tail(t))

SortResults(texts) == SetToSortSeq(texts, TextLess)

\* The paths that match, relative to dir (an absolute pattern starts from the
\* root instead).
GlobShell(tree, dir, pattern) ==
    LET components == SplitComponents(pattern)
        Below(p) == SubSeq(p, Len(dir) + 1, Len(p))
    IN  IF components = <<>> THEN <<>>
        ELSE SortResults({ PathText(Below(p)) : p \in GlobRecursive(tree, dir, components) })

-----------------------------------------------------------------------------
(* Reference: a pattern is a sequence of units, each of which accepts a    *)
(* set of texts, and a text matches when it can be cut into such pieces.   *)

\* A unit: [u |-> "any"], [u |-> "star"], [u |-> "lit", c], or
\* [u |-> "set", negate, lo, hi, extra]: the range lo-hi and one more.
UnitAccepts(unit, piece) ==
    \/ unit.u = "star"
    \/ /\ Len(piece) = 1
       /\ CASE unit.u = "any" -> TRUE
            [] unit.u = "lit" -> piece[1] = unit.c
            [] unit.u = "set" ->
                 unit.negate # (\/ Code(piece[1]) \in Code(unit.lo) .. Code(unit.hi)
                                \/ piece[1] = unit.extra)
            [] OTHER -> FALSE

MatchesUnits(units, s) ==
    \E cut \in [0 .. Len(units) -> 0 .. Len(s)] :
        /\ cut[0] = 0 /\ cut[Len(units)] = Len(s)
        /\ \A i \in 1 .. Len(units) :
               /\ cut[i - 1] <= cut[i]
               /\ UnitAccepts(units[i], SubSeq(s, cut[i - 1] + 1, cut[i]))

UnitText(unit) ==
    CASE unit.u = "any" -> <<"?">>
      [] unit.u = "star" -> <<"*">>
      [] unit.u = "lit" -> IF unit.c \in GlobChars \cup Escapes
                           THEN <<"\\", unit.c>> ELSE <<unit.c>>
      [] unit.u = "set" -> <<"[">> \o (IF unit.negate THEN <<"!">> ELSE <<>>)
                           \o <<unit.extra, unit.lo, "-", unit.hi, "]">>

UnitsText(units) == FlattenSeq([i \in 1 .. Len(units) |-> UnitText(units[i])])

\* A path is found when every component accepts its name, a hidden name only
\* where the pattern spells the dot, and everything but the last is a
\* directory.
GlobReference(tree, unitComponents) ==
    { PathText(p) : p \in { q \in DOMAIN tree :
        /\ Len(q) = Len(unitComponents)
        /\ \A i \in 1 .. Len(q) :
               /\ MatchesUnits(unitComponents[i], q[i])
               /\ q[i][1] = "." => /\ unitComponents[i][1].u = "lit"
                                   /\ unitComponents[i][1].c = "."
               /\ i < Len(q) => tree[SubSeq(q, 1, i)] = "dir" } }
-----------------------------------------------------------------------------
(* Expansion.                                                              *)

CONSTANT
    Tree  \* the directory tree of the working directory, as in GlobShell

Arith == INSTANCE ShellArith

Fragment(value, split, brk) == [value |-> value, split |-> split, brk |-> brk]
Values(fragments) == FlattenSeq([i \in DOMAIN fragments |-> fragments[i].value])

Expansion(sh, outs) == [sh |-> sh, outs |-> outs, need |-> <<>>, err |-> FALSE, v |-> <<>>]
Stuck(x) == x.err \/ x.need # <<>>
RuntimeError(x) == [x EXCEPT !.err = TRUE]
Fresh(x) == [x EXCEPT !.v = <<>>]

\* The result of x followed by fragments that the later expansion r produced.
Then(x, r, fragments) == [r EXCEPT !.v = IF Stuck(r) THEN <<>> ELSE x.v \o fragments]

\* protect_globs: quoted characters match only themselves.
ProtectGlobs(text, enabled) ==
    IF ~enabled THEN text
    ELSE FlattenSeq([i \in 1 .. Len(text) |->
           IF text[i] = "/" THEN <<"/">> ELSE <<CTLESC, text[i]>>])

PatternChars == {"*", "?", "[", "]", "\\", "!"}
EscapePattern(text) ==
    FlattenSeq([i \in 1 .. Len(text) |->
        IF text[i] \in PatternChars THEN <<CTLESC, text[i]>> ELSE <<text[i]>>])

HomeName == Chars("HOME")
ExpandTilde(sh, user) ==
    IF user # <<>> THEN <<"~">> \o user
    ELSE IF ValueOf(sh, HomeName) = <<>> THEN <<"~">> ELSE ValueOf(sh, HomeName)[1]

\* is_special_param: of the numbered parameters, those with one digit.
IsSpecialParam(name) ==
    Len(name) = 1 /\ (name[1] \in {"@", "*", "#", "?", "-", "$", "!"} \/ IsDigit(name[1]))

FirstIfs(sh) == SubSeq(Ifs(sh), 1, 1)

\* The value a parameter expansion starts from.
RawValue(sh, name) ==
    IF name \in {<<"@">>, <<"*">>} THEN <<PositionalJoin(sh, FirstIfs(sh))>>
    ELSE IF IsSpecialParam(name) THEN GetSpecial(sh, name)
    ELSE ValueOf(sh, name)

TrimOps == {"TrimSuffixSmall", "TrimSuffixLarge", "TrimPrefixSmall", "TrimPrefixLarge"}

\* set -u
Nounset(x, param, raw) ==
    /\ raw = <<>> /\ ~IsSpecialParam(param.name)
    /\ "u" \in x.sh.opts
    /\ param.op \in TrimOps \cup {"Normal", "Length"}

\* Whether an operator's word applies: unset or, with a colon, empty.
IsUnset(param, raw) == IF param.colon THEN OrEmpty(raw) = <<>> ELSE raw = <<>>

-----------------------------------------------------------------------------
(* Trimming                                                                *)

\* The suffix or prefix removed is the shortest or the longest that matches;
\* an empty one is never tried.
CutBefore(text, from, greedy) ==
    IF from = {} THEN text ELSE SubSeq(text, 1, (IF greedy THEN Min(from) ELSE Max(from)) - 1)
TrimSuffix(text, pattern, greedy) ==
    CutBefore(text, { i \in 1 .. Len(text) : Fnmatch(pattern, SubSeq(text, i, Len(text))) }, greedy)
CutAfter(text, upTo, greedy) ==
    IF upTo = {} THEN text ELSE SubSeq(text, (IF greedy THEN Max(upTo) ELSE Min(upTo)) + 1, Len(text))
TrimPrefix(text, pattern, greedy) ==
    CutAfter(text, { i \in 1 .. Len(text) : Fnmatch(pattern, SubSeq(text, 1, i)) }, greedy)

Trim(op, text, pattern) ==
    IF op \in {"TrimSuffixSmall", "TrimSuffixLarge"}
    THEN TrimSuffix(text, pattern, op = "TrimSuffixLarge")
    ELSE TrimPrefix(text, pattern, op = "TrimPrefixLarge")

-----------------------------------------------------------------------------
(* Field splitting                                                         *)

\* One splittable fragment from its i-th character: st = [fields, current,
\* have].
RECURSIVE SplitFrom(_, _, _, _, _)
SplitFrom(text, i, ws, nws, st) ==
    LET c == text[i]
        End(j) == SpanEnd(text, j, LAMBDA d : d \in ws)
        blanks == End(i)
        delimited == blanks <= Len(text) /\ text[blanks] \in nws
        Close == [fields |-> Append(st.fields, st.current), current |-> <<>>, have |-> FALSE]
    IN  IF i > Len(text) THEN st
        ELSE IF c \in ws
        THEN SplitFrom(text, IF delimited THEN End(blanks + 1) ELSE blanks, ws, nws,
                       IF st.have THEN Close ELSE st)
        ELSE IF c \in nws THEN SplitFrom(text, End(i + 1), ws, nws, Close)
        ELSE SplitFrom(text, i + 1, ws, nws,
                       [st EXCEPT !.current = Append(@, c), !.have = TRUE])

SplitFragment(st, fragment, ifs) ==
    LET broken == IF fragment.brk /\ st.have
                  THEN [fields |-> Append(st.fields, st.current), current |-> <<>>, have |-> FALSE]
                  ELSE st
        blank == { c \in ToSet(ifs) : IsBlank(c) }
    IN  IF ~fragment.split \/ ifs = <<>>
        THEN [broken EXCEPT !.current = @ \o fragment.value, !.have = TRUE]
        ELSE SplitFrom(fragment.value, 1, blank, ToSet(ifs) \ blank, broken)

RECURSIVE SplitAll(_, _, _)
SplitAll(fragments, ifs, st) ==
    IF fragments = <<>> THEN IF st.have THEN Append(st.fields, st.current) ELSE st.fields
    ELSE SplitAll(Tail(fragments), ifs, SplitFragment(st, Head(fragments), ifs))
FieldSplit(fragments, ifs) ==
    SplitAll(fragments, ifs, [fields |-> <<>>, current |-> <<>>, have |-> FALSE])

-----------------------------------------------------------------------------
(* Fields                                                                  *)

\* A field that matches nothing stands for itself.
GlobField(sh, field) ==
    LET matches == GlobShell(Tree, sh.cwd, field)
    IN  IF "f" \notin sh.opts /\ HasGlobChars(field) /\ matches # <<>> THEN matches
        ELSE <<RemoveGlobEscapes(field)>>

\* expand_word_to_fields
SplitAndGlobbed(r) ==
    LET split == FieldSplit(r.v, Ifs(r.sh))
    IN  IF Stuck(r) THEN r
        ELSE [r EXCEPT !.v = FlattenSeq([i \in DOMAIN split |-> GlobField(r.sh, split[i])])]

-----------------------------------------------------------------------------
(* Parts.  The operators named ...Text return the expansion with a text as *)
(* its result, the others append fragments to it.                          *)

\* Expand(how, of, x): how.as says what is expanded,
\*   words    expand_word_to_fields of each word
\*   text     expand_word_to_string; literal text stays what it is
\*   case     the number of the arm a case takes, 0 for none
\*   fields   expand_parts, with its flags; quoted between double quotes
\*   pattern  expand_pattern
RECURSIVE Expand(_, _, _)
As(what) == [as |-> what]
Unquoted(quoted, inParam, esc) == [as |-> "fields", quoted |-> quoted, inParam |-> inParam, esc |-> esc]
ExpandParts(parts, x, quoted, inParam, esc) == Expand(Unquoted(quoted, inParam, esc), parts, x)
QuotedParts(parts, x, esc) == Expand([Unquoted(TRUE, FALSE, esc) EXCEPT !.as = "quoted"], parts, x)
PatternText(parts, x) == Expand([Unquoted(FALSE, FALSE, FALSE) EXCEPT !.as = "pattern"], parts, x)

\* expand_word_to_string, expand_param_word
Joining(r) == [r EXCEPT !.v = Values(r.v)]
WordText(parts, x) == Expand(As("text"), parts, x)

\* ${name=word} stores its word; that the name is read-only is not reported.
AssignDefault(x, name, text) == [x EXCEPT !.sh = SetText(@, name, text), !.v = text]

\* The parameter is unset and its word expanded.
Defaulted(param, word) ==
    IF Stuck(word) \/ param.op = "Default" THEN word
    ELSE IF param.op = "Error" THEN RuntimeError(word)
    ELSE AssignDefault(word, param.name, word.v)
Trimmed(op, text, pattern) ==
    IF Stuck(pattern) THEN pattern ELSE [pattern EXCEPT !.v = Trim(op, text, pattern.v)]

\* expand_param
ParamText(param, x) ==
    LET raw == RawValue(x.sh, param.name)
        Plain(text) == [x EXCEPT !.v = text]
    IN  IF Nounset(x, param, raw) \/ param.op = "BadSubst" THEN RuntimeError(x)
        ELSE CASE param.op = "Normal" -> Plain(OrEmpty(raw))
          [] param.op = "Length" -> Plain(NatText(Len(OrEmpty(raw))))
          [] param.op \in {"Default", "Assign", "Error"} ->
               IF IsUnset(param, raw) THEN Defaulted(param, WordText(param.word, x)) ELSE Plain(raw[1])
          [] param.op = "Alternative" ->
               IF IsUnset(param, raw) THEN Plain(<<>>) ELSE WordText(param.word, x)
          [] OTHER -> Trimmed(param.op, OrEmpty(raw), PatternText(param.word, Fresh(x)))

\* expand_param_to_fragments: like ParamText, but the words of the operators
\* keep their quoting, and an assigned word loses its escapes.
WholeFragment(x, r, quoted) == Then(x, r, <<Fragment(r.v, ~quoted, FALSE)>>)
Stored(param, flat) ==
    IF Stuck(flat) THEN flat ELSE AssignDefault(flat, param.name, RemoveGlobEscapes(flat.v))
ParamFragments(param, x, quoted, esc) ==
    LET applies == IsUnset(param, RawValue(x.sh, param.name))
        asWord == IF applies THEN {"Default"} ELSE {"Alternative"}
    IN  IF param.op \in asWord THEN ExpandParts(param.word, x, quoted, TRUE, esc)
        ELSE IF param.op = "Alternative" THEN x
        ELSE IF param.op = "Assign" /\ applies
        THEN WholeFragment(x, Stored(param, ParamText(param, x)), quoted)
        ELSE WholeFragment(x, ParamText(param, x), quoted)

\* The positional parameters, one fragment each.
Positionals(x, split, Value(_), Break(_)) ==
    [x EXCEPT !.v = @ \o [i \in DOMAIN x.sh.positional |->
        Fragment(Value(x.sh.positional[i]), split, Break(i))]]

IsPlainParam(part, name) == part.p = "param" /\ part.name = name /\ part.op = "Normal"

ParamPart(part, x, quoted, esc) ==
    CASE IsPlainParam(part, <<"@">>) /\ ~quoted ->
           Positionals(x, FALSE, LAMBDA t : t, LAMBDA i : i > 1)
      [] IsPlainParam(part, <<"*">>) /\ ~quoted ->
           Positionals(x, TRUE, LAMBDA t : t, LAMBDA i : TRUE)
      [] OTHER -> ParamFragments(part, x, quoted, esc)

\* Shell::command_subst as an expansion sees it: it consumes an output.
CommandSubst(cmd, x, quoted) ==
    LET out == Head(x.outs)
    IN  IF x.outs = <<>> THEN [x EXCEPT !.need = <<cmd>>]
        ELSE [x EXCEPT !.outs = Tail(@), !.v = Append(@, Fragment(out.text, ~quoted, FALSE)),
                       !.sh.status = out.status, !.sh.substs = @ + 1]

ArithAnswer(x, text, answer, quoted) ==
    IF ~answer.ok THEN RuntimeError([text EXCEPT !.sh = answer.sh])
    ELSE [text EXCEPT !.sh = answer.sh,
                      !.v = Append(x.v, Fragment(IntText(answer.val), ~quoted, FALSE))]
ArithPart(x, text, quoted) ==
    IF Stuck(text) THEN text ELSE ArithAnswer(x, text, Arith!EvalArith(text.v, text.sh), quoted)

ExpandPart(part, x, quoted, inParam, esc) ==
    LET Push(text, split) == [x EXCEPT !.v = Append(@, Fragment(text, split, FALSE))]
    IN  CASE part.p = "lit" -> Push(part.s, inParam /\ ~quoted)
          [] part.p = "sq" -> Push(ProtectGlobs(part.s, esc), FALSE)
          [] part.p = "dq" -> IF part.in = <<>> THEN Push(<<>>, FALSE)
                              ELSE QuotedParts(part.in, x, esc)
          [] part.p = "param" -> ParamPart(part, x, quoted, esc)
          [] part.p = "tilde" -> Push(ProtectGlobs(ExpandTilde(x.sh, part.user), esc), FALSE)
          [] part.p = "cmd" -> CommandSubst(part.cmd, x, quoted)
          [] part.p = "arith" -> ArithPart(x, WordText(part.in, x), quoted)

\* Between double quotes: "$@" is one field per parameter, and none for none.
ProtectedText(x, r, esc) == Then(x, r, <<Fragment(ProtectGlobs(r.v, esc), FALSE, FALSE)>>)
QuotedPart(part, x, esc) ==
    IF IsPlainParam(part, <<"@">>)
    THEN Positionals(x, FALSE, LAMBDA t : ProtectGlobs(t, esc), LAMBDA i : i > 1)
    ELSE ProtectedText(x, WordText(<<part>>, x), esc)

\* expand_pattern: only unquoted literal characters are special.
EscapedText(x, r) == Then(x, r, EscapePattern(r.v))
PatternPart(part, x) ==
    IF part.p = "lit" THEN [x EXCEPT !.v = @ \o part.s]
    ELSE EscapedText(x, IF part.p = "param" THEN ParamText(part, x)
                        ELSE WordText(IF part.p = "dq" THEN part.in ELSE <<part>>, x))

\* The fields of several words, in order.
FieldsThen(words, x, r) ==
    IF Stuck(r) THEN r ELSE Expand(As("words"), words, [r EXCEPT !.v = x.v \o @])
WordFields(parts, x) == SplitAndGlobbed(ExpandParts(parts, Fresh(x), FALSE, FALSE, TRUE))

\* The arm of a case: the first that has a pattern which matches the word.
RECURSIVE MatchesOne(_, _, _)
MatchesThen(patterns, text, r) ==
    IF Stuck(r) THEN r
    ELSE IF Fnmatch(r.v, text) THEN [r EXCEPT !.v = TRUE]
    ELSE MatchesOne(patterns, text, r)
MatchesOne(patterns, text, x) ==
    IF patterns = <<>> THEN [x EXCEPT !.v = FALSE]
    ELSE MatchesThen(Tail(patterns), text, PatternText(Head(patterns), Fresh(x)))
RECURSIVE ArmFrom(_, _, _, _)
ArmThen(arms, k, text, r) ==
    IF Stuck(r) THEN r ELSE IF r.v THEN [r EXCEPT !.v = k] ELSE ArmFrom(arms, k + 1, text, r)
ArmFrom(arms, k, text, x) ==
    IF k > Len(arms) THEN [x EXCEPT !.v = 0]
    ELSE ArmThen(arms, k, text, MatchesOne(arms[k].patterns, text, x))
ArmFor(arms, word) ==
    IF Stuck(word) THEN word ELSE ArmFrom(arms, 1, RemoveGlobEscapes(word.v), word)

NextPart(how, part, x) ==
    CASE how.as = "fields" -> ExpandPart(part, x, how.quoted, how.inParam, how.esc)
      [] how.as = "quoted" -> QuotedPart(part, x, how.esc)
      [] how.as = "pattern" -> PatternPart(part, x)
Expand(how, of, x) ==
    CASE how.as = "text" -> Joining(ExpandParts(of, Fresh(x), TRUE, FALSE, FALSE))
      [] how.as = "literal" -> [x EXCEPT !.v = of]
      [] how.as = "case" -> ArmFor(how.arms, WordText(of, x))
      [] how.as = "words" ->
           IF of = <<>> THEN x ELSE FieldsThen(Tail(of), x, WordFields(Head(of), x))
      [] how.as \in {"fields", "quoted", "pattern"} ->
           IF of = <<>> \/ Stuck(x) THEN x ELSE Expand(how, Tail(of), NextPart(how, Head(of), x))
=============================================================================
