----------------------------- MODULE ShellLexer -----------------------------
(***************************************************************************)
(* The lexer (epsh/src/lexer.rs) and the word parsers it shares with       *)
(* here-documents and arithmetic (epsh/src/parser.rs): from characters to  *)
(* tokens whose words are already split into parts.  A part is             *)
(*   [p |-> "lit", s], [p |-> "sq", s], [p |-> "dq", in], [p |-> "tilde",  *)
(*   user], [p |-> "param", name, op, colon, word] or, until the parser    *)
(*   has parsed it in turn, [p |-> "raw", kind, text, depth].              *)
(* A reader returns [pos, parts, err, ...]; depth is the thread-local      *)
(* nesting depth.  Line continuations, spans and raw bytes are left out.   *)
(***************************************************************************)
EXTENDS ShellText

CONSTANT
    MaxNesting  \* MAX_NESTING_DEPTH; 32 in the program

WordEnds == {" ", "\t", "\n", ";", "&", "(", ")", "|", "<", ">"}
SpecialParams == {"@", "*", "#", "?", "-", "$", "!"}
\* The grave accent is written "bq".
Quotable == {"$", "bq", "\"", "\\"}

Lit(s) == [p |-> "lit", s |-> s]
SingleQuoted(s) == [p |-> "sq", s |-> s]
DoubleQuoted(inner) == [p |-> "dq", in |-> inner]
Param(name, op, colon, word) ==
    [p |-> "param", name |-> name, op |-> op, colon |-> colon, word |-> word]
\* A command substitution, an arithmetic expansion or a here-document as the
\* lexer leaves it: its text, parsed later, and the depth it is parsed at.
Raw(kind, text, depth) == [p |-> "raw", kind |-> kind, text |-> text, depth |-> depth]
Plain(name) == Param(name, "Normal", FALSE, <<>>)

\* One more literal character: adjacent literals are one part.
PushChar(parts, c) ==
    IF parts # <<>> /\ Last(parts).p = "lit"
    THEN Append(Front(parts), Lit(Append(Last(parts).s, c)))
    ELSE Append(parts, Lit(<<c>>))

At(src, i) == IF i <= Len(src) THEN src[i] ELSE "end"
Read(i, parts) == [pos |-> i, parts |-> parts, err |-> FALSE, quoted |-> FALSE]
Bad == [pos |-> 1, parts |-> <<>>, err |-> TRUE, quoted |-> FALSE]

\* The position after the next c, or 0.
After(src, i, c) ==
    LET j == SpanEnd(src, i, LAMBDA d : d # c) IN IF j > Len(src) THEN 0 ELSE j + 1

-----------------------------------------------------------------------------
(* Skipping over raw text to its closing delimiter: the position after it, *)
(* or 0 when the text ends first or nests too deeply.                      *)

AfterEscaped(src, i) == IF i < Len(src) THEN i + 2 ELSE i + 1
RawCloser == [cmd |-> ")", dq |-> "\"", brace |-> "}", arith |-> ")", bt |-> "bq"]
RawCloserLength == [cmd |-> 1, arith |-> 2, bt |-> 1]

RECURSIVE RawEnd(_, _, _, _, _)

DollarRawEnd(src, i, depth) ==
    LET c == At(src, i)
        double == c = "(" /\ At(src, i + 1) = "("
        kind == IF c = "{" THEN "brace" ELSE IF double THEN "arith" ELSE "cmd"
    IN  CASE depth >= MaxNesting -> 0
          [] depth < MaxNesting /\ c \in {"{", "("} ->
               RawEnd(kind, src, IF double THEN i + 2 ELSE i + 1, 1, depth + 1)
          [] depth < MaxNesting /\ (c \in SpecialParams \/ IsDigit(c)) -> i + 1
          [] depth < MaxNesting /\ IsNameStart(c) -> SpanEnd(src, i, IsNameChar)
          [] OTHER -> i

\* Inside a command substitution (cmd), double quotes (dq), a parameter's
\* braces (brace), arithmetic (arith) or backquotes (bt): each is blind to what
\* the others are not.  In a substitution # starts a comment wherever it stands.
RawEnd(kind, src, i, level, depth) ==
    LET c == At(src, i)
        Go(j, l) == IF j = 0 THEN 0 ELSE RawEnd(kind, src, j, l, depth)
        Skip(inner) == Go(RawEnd(inner, src, i + 1, 1, depth), level)
        open == kind \in {"cmd", "dq", "brace"}
    IN  CASE c = "end" -> 0
          [] c = RawCloser[kind] /\ kind # "arith" ->
               IF level = 1 THEN i + 1 ELSE Go(i + 1, level - 1)
          [] c = ")" /\ kind = "arith" ->
               IF level = 1 /\ At(src, i + 1) = ")" THEN i + 2
               ELSE IF level = 0 THEN 0 ELSE Go(i + 1, level - 1)
          [] c = "(" /\ kind \in {"cmd", "arith"} -> Go(i + 1, level + 1)
          [] c = "'" /\ kind = "cmd" -> Go(After(src, i + 1, "'"), level)
          [] c = "\"" /\ kind \in {"cmd", "brace"} -> Skip("dq")
          [] c = "bq" /\ open -> Skip("bt")
          [] c = "\\" /\ kind # "arith" -> Go(AfterEscaped(src, i), level)
          [] c = "$" /\ kind # "bt" -> Go(DollarRawEnd(src, i + 1, depth), level)
          [] c = "#" /\ kind = "cmd" -> Go(SpanEnd(src, i, LAMBDA d : d # "\n"), level)
          [] OTHER -> Go(i + 1, level)

-----------------------------------------------------------------------------
(* Words                                                                   *)

\* A reader: what it reads (rule), from where, inside double quotes or not, at
\* which depth, the parts so far and whether a quote was met.  The rules are
\*   Word, Brace   read_word_parts in a word, and after an operator in ${ }
\*   Toggle        brace_dquote_toggle
\*   Plain         word_parts_impl      Text   quoted text up to r.until
\* Lex runs a reader to its end and returns [pos, parts, err, quoted].
RECURSIVE Lex(_)
Reader(rule, src, i, dq, depth) ==
    [rule |-> rule, src |-> src, i |-> i, dq |-> dq, depth |-> depth, parts |-> <<>>,
     quoted |-> FALSE, until |-> "end"]
Here(r) == At(r.src, r.i)
GoOn(r, i, parts) == Lex([r EXCEPT !.i = i, !.parts = parts])
\* After a $ or a grave accent: its part, or the sign itself.
WithPart(r, sub) ==
    IF sub.err THEN Bad
    ELSE GoOn(r, sub.pos, IF sub.parts = <<>> THEN PushChar(r.parts, "$") ELSE r.parts \o sub.parts)

\* The parts of a parameter expansion: the name's end, and the operator after
\* it as [op, colon, next].
ParamNameEnd(src, i) ==
    CASE At(src, i) \in SpecialParams -> i + 1
      [] IsDigit(At(src, i)) -> SpanEnd(src, i, IsDigit)
      [] OTHER -> SpanEnd(src, i, IsNameChar)

WordOps == [c \in {"-", "=", "?", "+"} |->
    CASE c = "-" -> "Default" [] c = "=" -> "Assign" [] c = "?" -> "Error"
      [] c = "+" -> "Alternative"]

ParamOperator(src, i) ==
    LET c == At(src, i)
        twice == At(src, i + 1) = c
    IN  CASE c \in DOMAIN WordOps ->
               [op |-> WordOps[c], colon |-> FALSE, next |-> i + 1]
          [] c = ":" /\ At(src, i + 1) \in DOMAIN WordOps ->
               [op |-> WordOps[src[i + 1]], colon |-> TRUE, next |-> i + 2]
          [] c = "%" -> [op |-> IF twice THEN "TrimSuffixLarge" ELSE "TrimSuffixSmall",
                         colon |-> FALSE, next |-> IF twice THEN i + 2 ELSE i + 1]
          [] c = "#" -> [op |-> IF twice THEN "TrimPrefixLarge" ELSE "TrimPrefixSmall",
                         colon |-> FALSE, next |-> IF twice THEN i + 2 ELSE i + 1]
          [] c = ":" /\ At(src, i + 1) \notin DOMAIN WordOps ->
               [op |-> "Normal", colon |-> FALSE, next |-> i + 1]
          [] OTHER -> [op |-> "BadSubst", colon |-> FALSE, next |-> i + 1]

\* Quotes around a trim pattern are its own, whatever surrounds it.
WordIsQuoted(op, dq) == dq /\ op \in {"Default", "Assign", "Error", "Alternative"}

\* ${#name}: a # that a name or a lone special parameter follows.
IsLength(src, i) ==
    /\ At(src, i) = "#"
    /\ \/ IsNameChar(At(src, i + 1))
       \/ At(src, i + 1) \in SpecialParams /\ At(src, i + 2) = "}"

\* A parameter whose word is read.
WithWord(name, oper, word) ==
    IF word.err THEN Bad ELSE Read(word.pos, <<Param(name, oper.op, oper.colon, word.parts)>>)
Wordless(name, oper, src, end, next) ==
    Read(next, <<Param(IF oper.op = "Normal" THEN name ELSE Append(name, src[end]), oper.op, FALSE, <<>>)>>)

BracedParam(src, name, end, oper, dq, depth) ==
    IF At(src, end) = "}" THEN Read(end + 1, <<Plain(name)>>)
    ELSE IF At(src, end) = "end" THEN Bad
    ELSE IF oper.op \notin {"Normal", "BadSubst"}
    THEN WithWord(name, oper,
                  Lex(Reader("Brace", src, oper.next, WordIsQuoted(oper.op, dq), depth + 1)))
    ELSE IF After(src, oper.next, "}") = 0 THEN Bad
    ELSE Wordless(name, oper, src, end, After(src, oper.next, "}"))
ReadBraceParam(src, i, dq, depth) ==
    LET start == IF IsLength(src, i) THEN i + 1 ELSE i
        end == ParamNameEnd(src, start)
        name == SubSeq(src, start, end - 1)
    IN  IF depth >= MaxNesting THEN Bad
        ELSE IF ~IsLength(src, i) THEN BracedParam(src, name, end, ParamOperator(src, end), dq, depth)
        ELSE IF After(src, end, "}") = 0 THEN Bad
        ELSE Read(After(src, end, "}"), <<Param(name, "Length", FALSE, <<>>)>>)

\* A substitution of the text from i, which ends before its closing delimiter.
RECURSIVE BacktickText(_)
BacktickText(raw) ==
    CASE raw = <<>> -> <<>>
      [] raw # <<>> /\ raw[1] = "\\" /\ Len(raw) > 1 ->
           (IF raw[2] \in Quotable THEN <<raw[2]>> ELSE <<"\\", raw[2]>>)
           \o BacktickText(SubSeq(raw, 3, Len(raw)))
      [] OTHER -> <<raw[1]>> \o BacktickText(Tail(raw))
RawPart(kind, src, i, end, depth) ==
    LET text == SubSeq(src, i, end - RawCloserLength[kind] - 1)
    IN  IF end = 0 THEN Bad
        ELSE Read(end, <<Raw(IF kind = "arith" THEN kind ELSE "cmd",
                             IF kind = "bt" THEN BacktickText(text) ELSE text, depth)>>)

ReadCmdSubst(src, i, depth) == RawPart("cmd", src, i, RawEnd("cmd", src, i, 1, depth), depth)
ReadArithExpansion(src, i, depth) ==
    IF depth >= MaxNesting THEN Bad
    ELSE RawPart("arith", src, i, RawEnd("arith", src, i, 1, depth + 1), depth + 1)
ReadBacktickPart(src, i, depth) == RawPart("bt", src, i, RawEnd("bt", src, i, 1, depth), depth)

SimpleParam(src, i, end) == Read(end, <<Plain(SubSeq(src, i, end - 1))>>)

\* What follows a $; no part when it is only a dollar sign.
ReadDollar(src, i, dq, depth) ==
    LET c == At(src, i)
    IN  CASE c = "{" -> ReadBraceParam(src, i + 1, dq, depth)
          [] c = "(" -> IF At(src, i + 1) = "("
                        THEN ReadArithExpansion(src, i + 2, depth)
                        ELSE ReadCmdSubst(src, i + 1, depth)
          [] c \in SpecialParams \/ IsDigit(c) -> SimpleParam(src, i, i + 1)
          [] IsNameStart(c) -> SimpleParam(src, i, SpanEnd(src, i, IsNameChar))
          [] OTHER -> Read(i, <<>>)
Substitution(r, dq) ==
    IF Here(r) = "$" THEN ReadDollar(r.src, r.i + 1, dq, r.depth)
    ELSE ReadBacktickPart(r.src, r.i + 1, r.depth)

\* A quote inside ${...} inside double quotes ends the quoting for a while.
BraceDquoteToggle(r) ==
    LET c == Here(r)
    IN  CASE c = "end" -> Bad
          [] c = "\"" -> Read(r.i + 1, r.parts)
          [] c = "\\" -> IF r.i < Len(r.src)
                         THEN GoOn(r, r.i + 2, PushChar(r.parts, r.src[r.i + 1]))
                         ELSE GoOn(r, r.i + 1, r.parts)
          [] c \in {"$", "bq"} -> WithPart(r, Substitution(r, FALSE))
          [] OTHER -> GoOn(r, r.i + 1, PushChar(r.parts, c))

\* A backslash: in double quotes it stays unless it quotes something; bare, it
\* makes the next character a quoted part of its own.
EscapedParts(ctx, dq, parts, c) ==
    CASE ctx = "Brace" /\ c = "}" -> PushChar(parts, c)
      [] dq /\ ~(ctx = "Brace" /\ c = "}") ->
           IF c \in Quotable THEN PushChar(parts, c)
           ELSE PushChar(PushChar(parts, "\\"), c)
      [] ~dq /\ ctx = "Word" -> Append(parts, DoubleQuoted(<<Lit(<<c>>)>>))
      [] OTHER -> PushChar(parts, c)

\* Where a word stops, before the character it stops at.
WordStops(r, c) ==
    /\ r.rule = "Word"
    /\ IF r.dq THEN c = "\"" ELSE c \in WordEnds \/ (c = "#" /\ r.parts = <<>>)

\* After the parts of a quoted string, of a toggled one and of a tilde.
Quoting(r) == [r EXCEPT !.quoted = TRUE]
AfterQuoted(r, inner) ==
    IF inner.err \/ At(r.src, inner.pos) # "\"" THEN Bad
    ELSE GoOn(Quoting(r), inner.pos + 1, Append(r.parts, DoubleQuoted(inner.parts)))
AfterToggled(r, inner) == IF inner.err THEN Bad ELSE GoOn(r, inner.pos, r.parts \o inner.parts)
AfterTilde(r, end) ==
    GoOn(r, end, <<[p |-> "tilde", user |-> SubSeq(r.src, r.i + 1, end - 1)]>>)
AfterSingle(r, close) ==
    IF close = 0 THEN Bad
    ELSE GoOn(Quoting(r), close, Append(r.parts, SingleQuoted(SubSeq(r.src, r.i + 1, close - 2))))

ReadWordParts(r) ==
    LET c == Here(r)
        dq == r.dq
        brace == r.rule = "Brace"
        Done(j) == [Read(j, r.parts) EXCEPT !.quoted = r.quoted]
    IN  CASE c = "end" -> IF brace THEN Bad ELSE Done(r.i)
          [] c # "end" /\ WordStops(r, c) -> Done(r.i)
          [] brace /\ c = "}" -> Done(r.i + 1)
          [] c = "\"" /\ ~dq -> AfterQuoted(r, Lex(Reader("Word", r.src, r.i + 1, TRUE, r.depth)))
          [] c = "\"" /\ dq /\ brace ->
               AfterToggled(r, Lex(Reader("Toggle", r.src, r.i + 1, FALSE, r.depth)))
          [] c = "'" /\ ~dq -> AfterSingle(r, After(r.src, r.i + 1, "'"))
          [] c = "\\" ->
               IF r.i = Len(r.src) THEN GoOn(Quoting(r), r.i + 1, r.parts)
               ELSE GoOn(Quoting(r), r.i + 2, EscapedParts(r.rule, dq, r.parts, r.src[r.i + 1]))
          [] c \in {"$", "bq"} -> WithPart(r, Substitution(r, dq))
          [] c = "~" /\ ~brace /\ ~dq /\ r.parts = <<>> ->
               AfterTilde(r, SpanEnd(r.src, r.i + 1, LAMBDA d : d \notin WordEnds \cup {"/", ":"}))
          [] OTHER -> GoOn(r, r.i + 1, PushChar(r.parts, c))

-----------------------------------------------------------------------------
(* The word parsers of here-documents and arithmetic (parser.rs).          *)

\* The raw word of ${name<op>word}: up to the matching brace.
RECURSIVE BraceWordEnd(_, _, _, _)
BraceWordEnd(src, i, level, dq) ==
    LET c == At(src, i)
        quote == After(src, i + 1, "'")
    IN  CASE c = "end" -> i
          [] c = "}" -> IF level = 1 THEN i ELSE BraceWordEnd(src, i + 1, level - 1, dq)
          [] c = "$" /\ At(src, i + 1) = "{" -> BraceWordEnd(src, i + 2, level + 1, dq)
          [] c = "'" /\ ~dq ->
               BraceWordEnd(src, IF quote = 0 THEN Len(src) + 1 ELSE quote, level, dq)
          [] c = "\\" -> BraceWordEnd(src, AfterEscaped(src, i), level, dq)
          [] OTHER -> BraceWordEnd(src, i + 1, level, dq)

ParsedParam(src, name, end, oper, wordEnd, dq, depth) ==
    IF At(src, end) \in {"}", "end"} THEN Read(end + 1, <<Plain(name)>>)
    ELSE IF oper.op \in {"Normal", "BadSubst"}
    THEN Wordless(name, oper, src, end, SpanEnd(src, end, LAMBDA d : d # "}") + 1)
    ELSE WithWord(name, oper,
           [Lex(Reader("Plain", SubSeq(src, oper.next, wordEnd - 1), 1, WordIsQuoted(oper.op, dq), depth))
              EXCEPT !.pos = wordEnd + 1])
ParseBraceParam(src, i, dq, depth) ==
    LET length == At(src, i) = "#" /\ At(src, i + 1) \notin {"}", "end"}
        start == IF length THEN i + 1 ELSE i
        end == ParamNameEnd(src, start)
        name == SubSeq(src, start, end - 1)
        oper == ParamOperator(src, end)
    IN  IF length
        THEN Read(SpanEnd(src, end, LAMBDA d : d # "}") + 1, <<Param(name, "Length", FALSE, <<>>)>>)
        ELSE ParsedParam(src, name, end, oper,
                         BraceWordEnd(src, oper.next, 1, WordIsQuoted(oper.op, dq)), dq, depth)

\* Parentheses are counted, and only single quotes hide them.
RECURSIVE PlainCmdEnd(_, _, _), PlainArithEnd(_, _, _)
PlainCmdEnd(src, i, level) ==
    LET quote == After(src, i + 1, "'")
    IN  CASE At(src, i) = "end" -> i
          [] At(src, i) = ")" -> IF level = 1 THEN i ELSE PlainCmdEnd(src, i + 1, level - 1)
          [] At(src, i) = "(" -> PlainCmdEnd(src, i + 1, level + 1)
          [] At(src, i) = "'" -> PlainCmdEnd(src, IF quote = 0 THEN Len(src) + 1 ELSE quote, level)
          [] OTHER -> PlainCmdEnd(src, i + 1, level)

PlainArithEnd(src, i, level) ==
    CASE At(src, i) = "end" -> i
      [] At(src, i) = ")" -> IF level = 1 /\ At(src, i + 1) = ")" THEN i
                             ELSE IF level = 0 THEN 0
                             ELSE PlainArithEnd(src, i + 1, level - 1)
      [] At(src, i) = "(" -> PlainArithEnd(src, i + 1, level + 1)
      [] OTHER -> PlainArithEnd(src, i + 1, level)

PlainPart(kind, src, i, end, close, depth) ==
    IF end = 0 THEN Bad ELSE Read(end + close, <<Raw(kind, SubSeq(src, i, end - 1), depth)>>)
ParseDollar(src, i, dq, depth) ==
    LET c == At(src, i)
    IN  CASE c = "{" -> ParseBraceParam(src, i + 1, dq, depth)
          [] c = "(" /\ At(src, i + 1) = "(" ->
               PlainPart("arith", src, i + 2, PlainArithEnd(src, i + 2, 1), 2, depth)
          [] c = "(" /\ At(src, i + 1) # "(" ->
               PlainPart("cmd", src, i + 1, PlainCmdEnd(src, i + 1, 1), 1, depth)
          [] c \in SpecialParams \/ IsDigit(c) -> SimpleParam(src, i, i + 1)
          [] IsNameStart(c) -> SimpleParam(src, i, SpanEnd(src, i, IsNameChar))
          [] OTHER -> Read(i, <<>>)
\* A substitution in backquotes is taken as it stands.
ParseSubstitution(r, dq) ==
    IF Here(r) = "$" THEN ParseDollar(r.src, r.i + 1, dq, r.depth)
    ELSE PlainPart("cmd", r.src, r.i + 1, SpanEnd(r.src, r.i + 1, LAMBDA d : d # "bq"), 1, r.depth)

\* Text in which only $, bq and \ are special, up to the character r.until
\* (or to the end): double-quoted text, and a here-document's body, where a
\* double quote needs no backslash.
QuotedText(r) ==
    LET c == Here(r)
        quotable == IF r.until = "end" THEN Quotable \ {"\""} ELSE Quotable
    IN  CASE c \in {r.until, "end"} -> Read(r.i, r.parts)
          [] c \in {"$", "bq"} /\ c # r.until -> WithPart(r, ParseSubstitution(r, TRUE))
          [] c = "\\" /\ r.i < Len(r.src) ->
               GoOn(r, r.i + 2,
                 IF r.src[r.i + 1] \in quotable THEN PushChar(r.parts, r.src[r.i + 1])
                 ELSE PushChar(PushChar(r.parts, "\\"), r.src[r.i + 1]))
          [] OTHER -> GoOn(r, r.i + 1, IF c = "\\" THEN r.parts ELSE PushChar(r.parts, c))

AfterDoubleQuoted(r, inner) ==
    IF inner.err THEN Bad ELSE GoOn(r, inner.pos + 1, Append(r.parts, DoubleQuoted(inner.parts)))
AfterSingleQuoted(r, close) ==
    GoOn(r, close + 1, Append(r.parts, SingleQuoted(SubSeq(r.src, r.i + 1, close - 1))))
WordPartsImpl(r) ==
    LET c == Here(r)
    IN  CASE c = "end" -> Read(r.i, r.parts)
          [] c = "'" /\ ~r.dq ->
               AfterSingleQuoted(r, SpanEnd(r.src, r.i + 1, LAMBDA d : d # "'"))
          [] c = "\"" ->
               AfterDoubleQuoted(r, Lex([Reader("Text", r.src, r.i + 1, TRUE, r.depth) EXCEPT
                                           !.until = "\""]))
          [] c \in {"$", "bq"} -> WithPart(r, ParseSubstitution(r, r.dq))
          [] c = "\\" -> IF r.i = Len(r.src) THEN GoOn(r, r.i + 1, r.parts)
                         ELSE GoOn(r, r.i + 2, EscapedParts("Word", TRUE, r.parts, r.src[r.i + 1]))
          [] c = "~" /\ r.parts = <<>> ->
               AfterTilde(r, SpanEnd(r.src, r.i + 1, LAMBDA d : d \notin {"/", ":", " ", "\t", "\n"}))
          [] OTHER -> GoOn(r, r.i + 1, PushChar(r.parts, c))

Lex(r) ==
    CASE r.rule \in {"Word", "Brace"} -> ReadWordParts(r)
      [] r.rule = "Toggle" -> BraceDquoteToggle(r)
      [] r.rule = "Plain" -> WordPartsImpl(r)
      [] r.rule = "Text" -> QuotedText(r)

\* The word in arithmetic, and a here-document's body.
WordPartsArith(raw, depth) == Lex(Reader("Plain", raw, 1, FALSE, depth))
WordPartsHeredoc(raw, depth) ==
    IF depth >= MaxNesting THEN Bad ELSE Lex(Reader("Text", raw, 1, TRUE, depth + 1))

=============================================================================
