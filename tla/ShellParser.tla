---------------------------- MODULE ShellParser -----------------------------
(***************************************************************************)
(* The parser (epsh/src/parser.rs) over the tokens of the lexer            *)
(* (epsh/src/lexer.rs): recursive descent with one token of push-back and  *)
(* here-document bodies read at the newline that ends their line and       *)
(* patched into the finished command.  Every parser takes and returns the  *)
(* parser's state ps; ps.v is what it parsed and ps.err a syntax error,    *)
(* which every later step leaves alone.                                    *)
(***************************************************************************)
EXTENDS ShellLexer

\* The rules that need each other.
RECURSIVE Rule(_, _)
NextToken(ps) == Rule("Token", ps)
Peek(ps) == Rule("Peek", ps)
SkipNewlines(ps) == Rule("Newlines", ps)
ParseRedirAfterOp(ps) == Rule("Redirection", ps)
ParseRedirections(ps) == Rule("Redirections", ps)
ParsePipeline(ps) == Rule("Pipeline", ps)
ParseCommand(ps) == Rule("Command", ps)
ParseAndOr(ps) == Rule("AndOr", ps)
ParseCompoundList(ps) == Rule("CompoundList", ps)
Resolve(cmd) == Rule("Resolve", cmd)
ResolveParts(parts) == Rule("ResolveParts", parts)

-----------------------------------------------------------------------------
(* Commands: one record shape for every kind.                              *)

\* kids are the commands inside, in the order the source has them; words the
\* arguments, the list of a for or the word of a case; flag a pipeline's !
\* or a for's in; arms a case's [patterns, empty].
Node(c, kids) ==
    [c |-> c, kids |-> kids, redirs |-> <<>>, words |-> <<>>, assigns |-> <<>>,
     name |-> <<>>, flag |-> FALSE, arms |-> <<>>]
EmptyCommand == Node("Simple", <<>>)

-----------------------------------------------------------------------------
(* Tokens                                                                  *)

Tok(t) == [t |-> t, parts |-> <<>>, quoted |-> FALSE, name |-> <<>>]

OperatorTokens ==
    << <<<<"<", "<", "-">>, "DLessDash">>, <<<<";", ";">>, "SemiSemi">>,
       <<<<"&", "&">>, "And">>, <<<<"|", "|">>, "Or">>, <<<<"<", "<">>, "DLess">>,
       <<<<"<", "&">>, "LessAnd">>, <<<<"<", ">">>, "LessGreat">>,
       <<<<">", ">">>, "DGreat">>, <<<<">", "&">>, "GreatAnd">>, <<<<">", "|">>, "Clobber">>,
       <<<<";">>, "Semi">>, <<<<"&">>, "Amp">>, <<<<"|">>, "Pipe">>, <<<<"(">>, "LParen">>,
       <<<<")">>, "RParen">>, <<<<"<">>, "Less">>, <<<<">">>, "Great">> >>
RedirTokens == {"Less", "Great", "DLess", "DGreat", "LessAnd", "GreatAnd", "LessGreat",
                "DLessDash", "Clobber"}

ReservedWords ==
    << <<<<"i", "f">>, "If">>, <<<<"t", "h", "e", "n">>, "Then">>,
       <<<<"e", "l", "s", "e">>, "Else">>, <<<<"e", "l", "i", "f">>, "Elif">>,
       <<<<"f", "i">>, "Fi">>, <<<<"d", "o">>, "Do">>, <<<<"d", "o", "n", "e">>, "Done">>,
       <<<<"c", "a", "s", "e">>, "Case">>, <<<<"e", "s", "a", "c">>, "Esac">>,
       <<<<"w", "h", "i", "l", "e">>, "While">>, <<<<"u", "n", "t", "i", "l">>, "Until">>,
       <<<<"f", "o", "r">>, "For">>, <<<<"i", "n">>, "In">>, <<<<"{">>, "Lbrace">>,
       <<<<"}">>, "Rbrace">>, <<<<"!">>, "Bang">> >>

Named(table, text) == { k \in DOMAIN table : table[k][1] = text }
ReservedNames == { ReservedWords[k][2] : k \in DOMAIN ReservedWords }
ReservedWordText(t) == ReservedWords[CHOOSE k \in DOMAIN ReservedWords : ReservedWords[k][2] = t][1]

IsName(s) == s # <<>> /\ IsNameStart(s[1]) /\ \A k \in DOMAIN s : IsNameChar(s[k])
SingleLiteral(parts) == Len(parts) = 1 /\ parts[1].p = "lit"

\* name=value, when the word starts with a literal name and an equals sign.
EqualsAt(parts) == SpanEnd(parts[1].s, 1, LAMBDA c : c # "=")
IsAssignment(parts) ==
    /\ parts[1].p = "lit"
    /\ EqualsAt(parts) <= Len(parts[1].s)
    /\ IsName(SubSeq(parts[1].s, 1, EqualsAt(parts) - 1))
TrySplitAssignment(parts) ==
    LET at == EqualsAt(parts)
        value == SubSeq(parts[1].s, at + 1, Len(parts[1].s))
    IN  [Tok("Assignment") EXCEPT
           !.name = SubSeq(parts[1].s, 1, at - 1),
           !.parts = (IF value = <<>> THEN <<>> ELSE <<Lit(value)>>) \o Tail(parts)]

ReadWord(parts, quoted, reserved) ==
    IF reserved /\ SingleLiteral(parts) /\ Named(ReservedWords, parts[1].s) # {}
    THEN Tok(ReservedWords[CHOOSE k \in Named(ReservedWords, parts[1].s) : TRUE][2])
    ELSE IF IsAssignment(parts) THEN TrySplitAssignment(parts)
    ELSE [Tok("Word") EXCEPT !.parts = parts, !.quoted = quoted]

\* The longest operator at i, as an index of OperatorTokens, or 0.
TryOperator(src, i) ==
    LET here == { k \in DOMAIN OperatorTokens :
                    /\ i + Len(OperatorTokens[k][1]) - 1 <= Len(src)
                    /\ SubSeq(src, i, i + Len(OperatorTokens[k][1]) - 1) = OperatorTokens[k][1] }
    IN  IF here = {} THEN 0 ELSE Min(here)

RECURSIVE SkipBlanks(_, _)
SkipBlanks(src, i) ==
    CASE At(src, i) \in {" ", "\t"} -> SkipBlanks(src, i + 1)
      [] At(src, i) = "#" -> SpanEnd(src, i, LAMBDA c : c # "\n")
      [] OTHER -> i

Fail(ps) == [ps EXCEPT !.err = TRUE]
Return(ps, v) == [ps EXCEPT !.v = v]
GotToken(ps, pos, tok) == [ps EXCEPT !.pos = pos, !.tok = tok]

GotWord(ps, word) ==
    IF word.err \/ word.parts = <<>> THEN Fail(ps)
    ELSE GotToken(ps, word.pos, ReadWord(word.parts, word.quoted, ps.reserved))
Token(ps) ==
    LET i == SkipBlanks(ps.src, ps.pos)
        oper == TryOperator(ps.src, i)
    IN  IF ps.err THEN ps
        ELSE IF ps.push # <<>> THEN [ps EXCEPT !.tok = ps.push[1], !.push = <<>>]
        ELSE IF At(ps.src, i) = "end" THEN GotToken(ps, i, Tok("Eof"))
        ELSE IF ps.src[i] = "\n" THEN GotToken(ps, i + 1, Tok("Newline"))
        ELSE IF oper # 0
        THEN GotToken(ps, i + Len(OperatorTokens[oper][1]), Tok(OperatorTokens[oper][2]))
        ELSE GotWord(ps, Lex(Reader("Word", ps.src, i, FALSE, ps.depth)))

PushBack(ps) == [ps EXCEPT !.push = <<ps.tok>>]
Peeked(next) == IF next.err THEN next ELSE PushBack(next)
NextAsWord(ps) ==
    [NextToken([ps EXCEPT !.reserved = FALSE]) EXCEPT !.reserved = TRUE]

Expected(next, t) == IF next.err \/ next.tok.t = t THEN next ELSE Fail(next)
Expect(ps, t) == Expected(NextToken(ps), t)

-----------------------------------------------------------------------------
(* Here-documents                                                          *)

\* The text of a word's parts; what expands to something is left out.
RECURSIVE PartsToText(_)
PartsToText(parts) ==
    IF parts = <<>> THEN <<>>
    ELSE LET part == parts[1]
         IN  (CASE part.p \in {"lit", "sq"} -> part.s
                [] part.p = "dq" -> PartsToText(part.in)
                [] part.p = "param" -> <<"$">> \o part.name
                [] part.p = "tilde" -> <<"~">> \o part.user
                [] OTHER -> <<>>) \o PartsToText(Tail(parts))

PartsHaveQuoting(parts) ==
    \E k \in DOMAIN parts : parts[k].p = "lit" => "\\" \in ToSet(parts[k].s)

OddBackslashes(line) ==
    LET start == CHOOSE k \in 1 .. Len(line) + 1 :
                    /\ \A j \in k .. Len(line) : line[j] = "\\"
                    /\ k > 1 => line[k - 1] # "\\"
    IN  (Len(line) + 1 - start) % 2 = 1

LineStart(src, i, strip) == IF strip THEN SpanEnd(src, i, LAMBDA c : c = "\t") ELSE i
LineEnd(src, i) == SpanEnd(src, i, LAMBDA c : c # "\n")

\* The lines up to the delimiter: the position after it and the body.  An odd
\* backslash at the end of an unquoted document's line joins the next one.
RECURSIVE ReadHeredocBody(_, _, _, _)
ReadHeredocBody(src, i, doc, body) ==
    LET start == LineStart(src, i, doc.strip)
        end == LineEnd(src, start)
        line == SubSeq(src, start, end - 1)
        start2 == LineStart(src, end + 1, doc.strip)
        end2 == LineEnd(src, start2)
        joined == Front(line) \o SubSeq(src, start2, end2 - 1)
        Finish(text, next) ==
            IF text = doc.delimiter THEN [pos |-> next, body |-> body]
            ELSE ReadHeredocBody(src, next, doc, body \o text \o <<"\n">>)
    IN  IF end > Len(src)
        THEN [pos |-> end, body |-> IF line = doc.delimiter THEN body ELSE body \o line]
        ELSE IF doc.quoted \/ ~OddBackslashes(line) THEN Finish(line, end + 1)
        ELSE IF OddBackslashes(joined)
        THEN ReadHeredocBody(src, Min({end2 + 1, Len(src) + 1}), doc, body \o Front(joined))
        ELSE Finish(joined, Min({end2 + 1, Len(src) + 1}))

\* A quoted document's body is literal, another's is a word.
MakeHeredocBody(raw, quoted, depth) ==
    [literal |-> quoted, word |-> IF quoted THEN raw ELSE <<Raw("doc", raw, depth)>>]

\* Read the bodies of the pending documents, in order.
RECURSIVE ReadBodies(_, _)
ReadBodies(ps, bodies) ==
    LET doc == ps.pending[1]
        read == ReadHeredocBody(ps.src, ps.pos, doc, <<>>)
    IN  IF ps.err \/ ps.pending = <<>> THEN Return(ps, bodies)
        ELSE ReadBodies([ps EXCEPT !.pending = Tail(@), !.pos = read.pos], 
                        Append(bodies, MakeHeredocBody(read.body, doc.quoted, ps.depth)))

\* At a newline inside a command: the bodies wait for the command's end.
Collected(ps, read) ==
    IF read.err THEN read ELSE [read EXCEPT !.v = ps.v, !.bodies = @ \o read.v]
CollectBodies(ps) == Collected(ps, ReadBodies(ps, <<>>))

Newlines(next) ==
    IF next.err THEN next
    ELSE IF next.tok.t = "Newline" THEN SkipNewlines(CollectBodies(next))
    ELSE PushBack(next)

\* A document whose body is the empty literal takes the next body.
RECURSIVE PatchHeredocRedirs(_, _)
PatchHeredocRedirs(redirs, bodies) ==
    LET redir == redirs[1]
        open == /\ redir.kind \in {"HereDoc", "HereDocStrip"} /\ redir.literal
                /\ redir.word = <<>> /\ bodies # <<>>
        rest == PatchHeredocRedirs(Tail(redirs), IF open THEN Tail(bodies) ELSE bodies)
    IN  IF redirs = <<>> THEN [redirs |-> redirs, bodies |-> bodies]
        ELSE [rest EXCEPT !.redirs =
                <<IF open THEN [redir EXCEPT !.word = bodies[1].word, !.literal = bodies[1].literal]
                  ELSE redir>> \o @]

RECURSIVE PatchHeredocsInner(_, _), PatchKids(_, _)
PatchKids(kids, bodies) ==
    LET first == PatchHeredocsInner(kids[1], bodies)
        rest == PatchKids(Tail(kids), first.bodies)
    IN  IF kids = <<>> THEN [kids |-> kids, bodies |-> bodies]
        ELSE [rest EXCEPT !.kids = <<first.cmd>> \o @]
PatchHeredocsInner(cmd, bodies) ==
    LET kids == PatchKids(cmd.kids, bodies)
        redirs == PatchHeredocRedirs(cmd.redirs, kids.bodies)
    IN  [cmd |-> [cmd EXCEPT !.kids = kids.kids, !.redirs = redirs.redirs],
         bodies |-> redirs.bodies]
PatchHeredocs(cmd, bodies) == PatchHeredocsInner(cmd, bodies).cmd

\* The bodies still pending go in first, those collected on earlier lines then.
Patched(ps, read) ==
    IF read.err THEN read
    ELSE [read EXCEPT !.v = PatchHeredocs(PatchHeredocs(ps.v, read.v), read.bodies),
                      !.bodies = <<>>]
ReadPendingHeredocs(ps) == Patched(ps, ReadBodies(ps, <<>>))

-----------------------------------------------------------------------------
(* The grammar                                                             *)

CommandStarts == {"Word", "Assignment", "If", "While", "Until", "For", "Case", "LParen",
                  "Lbrace", "Bang"}

RECURSIVE ListRest(_, _)

\* What follows a separator: another command, or nothing.
ListAnd(cmd, right, newlines) ==
    IF right.err THEN right ELSE ListRest(Return(right, Node("Sequence", <<cmd, right.v>>)), newlines)
ListNext(peeked, cmd, newlines) ==
    IF peeked.err THEN peeked
    ELSE IF peeked.tok.t \in CommandStarts THEN ListAnd(cmd, ParseAndOr(peeked), newlines)
    ELSE ListRest(Return(peeked, cmd), newlines)

\* An ampersand puts everything before it in the background.
ListRest(ps, newlines) ==
    LET peeked == Peek(ps)
        t == peeked.tok.t
        after == NextToken(peeked)
        collected == IF t = "Newline" THEN CollectBodies(after) ELSE after
        cmd == IF t = "Amp" THEN Node("Background", <<ps.v>>) ELSE ps.v
    IN  IF peeked.err \/ t \notin {"Semi", "Amp"} \cup (IF newlines THEN {"Newline"} ELSE {}) THEN peeked
        ELSE ListNext(Peek(IF t # "Amp" \/ newlines THEN SkipNewlines(collected) ELSE after), cmd, newlines)

ParseCommandList(ps, newlines) == ListRest(ParseAndOr(ps), newlines)

CompoundList(peeked) ==
    IF peeked.err THEN peeked
    ELSE IF peeked.depth >= MaxNesting THEN Fail(peeked)
    ELSE [ParseCommandList([peeked EXCEPT !.depth = @ + 1], TRUE) EXCEPT !.depth = peeked.depth]

\* A list between keywords, newlines around it skipped.
Body(ps) == SkipNewlines(ParseCompoundList(SkipNewlines(ps)))

RECURSIVE PipelineRest(_)
PipelineNext(commands, next) ==
    IF next.err THEN next ELSE PipelineRest(Return(next, Append(commands, next.v)))
PipelineRest(ps) ==
    LET peeked == Peek(ps)
    IN  IF peeked.err \/ peeked.tok.t # "Pipe" THEN peeked
        ELSE PipelineNext(ps.v, ParseCommand(SkipNewlines(NextToken(peeked))))
PipelineOf(all, bang) ==
    IF all.err THEN all
    ELSE IF Len(all.v) = 1 /\ ~bang THEN Return(all, all.v[1])
    ELSE Return(all, [Node("Pipeline", all.v) EXCEPT !.flag = bang])
FirstOf(first) == IF first.err THEN first ELSE PipelineRest(Return(first, <<first.v>>))
Pipeline(peeked) ==
    LET bang == peeked.tok.t = "Bang"
    IN  IF peeked.err THEN peeked
        ELSE PipelineOf(FirstOf(ParseCommand(IF bang THEN NextToken(peeked) ELSE peeked)), bang)

\* && and || bind alike, from the left.
RECURSIVE AndOrRest(_)
AndOrNext(op, left, right) ==
    IF right.err THEN right ELSE AndOrRest(Return(right, Node(op, <<left, right.v>>)))
AndOrRest(ps) ==
    LET peeked == Peek(ps)
    IN  IF peeked.err \/ peeked.tok.t \notin {"And", "Or"} THEN peeked
        ELSE AndOrNext(peeked.tok.t, ps.v, ParsePipeline(SkipNewlines(NextToken(peeked))))
AndOr(ps) == AndOrRest(ParsePipeline(ps))

\* [fd, kind, word, literal]; a here-document's body comes later.
Redir(fd, kind, word) == [fd |-> fd, kind |-> kind, word |-> word, literal |-> FALSE]
RedirKinds ==
    [Less |-> "Input", Great |-> "Output", DGreat |-> "Append", Clobber |-> "Clobber",
     LessGreat |-> "ReadWrite", LessAnd |-> "DupInput", GreatAnd |-> "DupOutput",
     DLess |-> "HereDoc", DLessDash |-> "HereDocStrip"]

Redirection(op, word) ==
    LET fd == IF op \in {"Less", "DLess", "DLessDash", "LessAnd", "LessGreat"} THEN 0 ELSE 1
        quoted == word.tok.quoted \/ PartsHaveQuoting(word.tok.parts)
        redir == Redir(fd, RedirKinds[op], word.tok.parts)
    IN  IF word.err THEN word
        ELSE IF op \in {"DLess", "DLessDash"} /\ word.tok.t = "Word"
        THEN Return([word EXCEPT !.pending = Append(@,
                       [delimiter |-> PartsToText(word.tok.parts), strip |-> op = "DLessDash",
                        quoted |-> quoted])],
                    [redir EXCEPT !.word = <<>>, !.literal = TRUE])
        ELSE IF op \notin {"DLess", "DLessDash"} /\ word.tok.t = "Word" THEN Return(word, redir)
        ELSE IF op \notin {"DLess", "DLessDash"} /\ word.tok.t \in ReservedNames
        THEN Return(word, [redir EXCEPT !.word = <<Lit(ReservedWordText(word.tok.t))>>])
        ELSE Fail(word)

\* A word that may be a descriptor's number: digits, whatever follows them.
IsFdWord(tok) ==
    LET text == PartsToText(tok.parts)
    IN  /\ tok.t = "Word" /\ ~tok.quoted
        /\ Len(text) \in 1 .. 9 /\ \A k \in DOMAIN text : IsDigit(text[k])

NumberedRedir(redir, tok) ==
    IF redir.err THEN redir
    ELSE Return(redir, [redir.v EXCEPT !.fd = NumberIn(PartsToText(tok.parts), 10)])
RECURSIVE RedirectionsRest(_, _)
RedirectionsAnd(redir, redirs) ==
    IF redir.err THEN redir ELSE RedirectionsRest(redir, Append(redirs, redir.v))
RedirectionsRest(ps, redirs) ==
    LET peeked == Peek(ps)
        tok == peeked.tok
        second == Peek(NextToken(peeked))
    IN  IF peeked.err THEN peeked
        ELSE IF tok.t \in RedirTokens
        THEN RedirectionsAnd(ParseRedirAfterOp(NextToken(peeked)), redirs)
        ELSE IF ~IsFdWord(tok) THEN Return(peeked, redirs)
        ELSE IF second.err THEN second
        ELSE IF second.tok.t \in RedirTokens
        THEN RedirectionsAnd(NumberedRedir(ParseRedirAfterOp(NextToken(second)), tok), redirs)
        ELSE Return([second EXCEPT !.push = <<tok>>], redirs)

\* A compound command's redirections, around it.
Redirected(cmd, redirs) ==
    IF redirs.err THEN redirs
    ELSE IF redirs.v = <<>> THEN Return(redirs, cmd)
    ELSE Return(redirs, [Node("BraceGroup", <<cmd>>) EXCEPT !.redirs = redirs.v])
WithRedirections(ps) == IF ps.err THEN ps ELSE Redirected(ps.v, ParseRedirections(ps))

Grouping(c, kid, redirs) ==
    IF redirs.err THEN redirs ELSE Return(redirs, [Node(c, <<kid>>) EXCEPT !.redirs = redirs.v])
GroupOf(c, body) == IF body.err THEN body ELSE Grouping(c, body.v, ParseRedirections(body))
Group(ps, c, open, close) == GroupOf(c, Expect(Body(Expect(ps, open)), close))
ParseSubshell(ps) == Group(ps, "Subshell", "LParen", "RParen")
ParseBraceGroup(ps) == Group(ps, "BraceGroup", "Lbrace", "Rbrace")

RECURSIVE IfClause(_, _)
IfOf(last, kids) == IF last.err THEN last ELSE Return(last, Node("If", Append(kids, last.v)))
AfterThen(cond, then, peeked) ==
    IF peeked.err THEN peeked
    ELSE CASE peeked.tok.t = "Elif" -> IfOf(IfClause(peeked, "Elif"), <<cond, then>>)
           [] peeked.tok.t = "Else" -> IfOf(Expect(Body(NextToken(peeked)), "Fi"), <<cond, then>>)
           [] peeked.tok.t = "Fi" -> IfOf(Return(NextToken(peeked), then), <<cond>>)
           [] OTHER -> Fail(peeked)
AfterIf(cond, then) == IF then.err THEN then ELSE AfterThen(cond, then.v, Peek(then))
AfterCond(cond) == IF cond.err THEN cond ELSE AfterIf(cond.v, Body(Expect(cond, "Then")))
IfClause(ps, keyword) == AfterCond(Body(Expect(ps, keyword)))
ParseIf(ps) == WithRedirections(IfClause(ps, "If"))

LoopOf(keyword, cond, body) ==
    IF body.err THEN body ELSE WithRedirections(Return(body, Node(keyword, <<cond, body.v>>)))
LoopBody(keyword, cond) ==
    IF cond.err THEN cond ELSE LoopOf(keyword, cond.v, Expect(Body(Expect(cond, "Do")), "Done"))
Loop(ps, keyword) == LoopBody(keyword, Body(Expect(ps, keyword)))
ParseWhile(ps) == Loop(ps, "While")
ParseUntil(ps) == Loop(ps, "Until")

RECURSIVE ForWords(_, _)
ForWords(ps, words) ==
    LET peeked == Peek(ps)
    IN  IF peeked.err THEN peeked
        ELSE CASE peeked.tok.t = "Word" ->
                    ForWords(NextToken(peeked), Append(words, peeked.tok.parts))
               [] peeked.tok.t \in {"Semi", "Newline"} -> Return(NextToken(peeked), words)
               [] OTHER -> Return(peeked, words)

ForOf(name, in, words, body) ==
    IF body.err THEN body
    ELSE WithRedirections(Return(body,
           [Node("For", <<body.v>>) EXCEPT !.name = name, !.flag = in, !.words = words]))
ForBody(name, in, words) ==
    IF words.err THEN words
    ELSE ForOf(name, in, words.v, Expect(Body(Expect(SkipNewlines(words), "Do")), "Done"))
ForIn(name, peeked) ==
    LET after == NextToken(peeked)
    IN  IF peeked.err THEN peeked
        ELSE CASE peeked.tok.t = "In" -> ForBody(name, TRUE, ForWords(after, <<>>))
               [] peeked.tok.t = "Semi" -> ForBody(name, FALSE, Return(after, <<>>))
               [] OTHER -> ForBody(name, FALSE, Return(peeked, <<>>))
ForName(name) ==
    IF name.err \/ name.tok.t # "Word" THEN Fail(name)
    ELSE ForIn(PartsToText(name.tok.parts), Peek(SkipNewlines(name)))
ParseFor(ps) == ForName(NextAsWord(Expect(ps, "For")))

RECURSIVE CasePatterns(_, _)
CasePatterns(ps, patterns) ==
    LET next == NextAsWord(ps)
        pattern == IF next.tok.t = "Word" THEN next.tok.parts
                   ELSE <<Lit(ReservedWordText(next.tok.t))>>
        peeked == Peek(next)
        all == Append(patterns, pattern)
    IN  IF next.err THEN next
        ELSE IF next.tok.t \notin ReservedNames \cup {"Word"} THEN Fail(next)
        ELSE IF peeked.err THEN peeked
        ELSE IF peeked.tok.t = "Pipe" THEN CasePatterns(NextToken(peeked), all)
        ELSE Return(peeked, all)

\* An arm: [patterns, body], the body a sequence of at most one command.
ArmEnd(arm, end) ==
    IF end.err THEN end
    ELSE Return(IF end.tok.t = "SemiSemi" THEN SkipNewlines(NextToken(end)) ELSE end, arm)
ArmList(patterns, list) ==
    IF list.err THEN list ELSE ArmEnd([patterns |-> patterns, body |-> <<list.v>>], Peek(list))
ArmBody(patterns, start) ==
    IF start.err THEN start
    ELSE IF start.tok.t \in {"SemiSemi", "Esac"}
    THEN ArmEnd([patterns |-> patterns, body |-> <<>>], Peek(start))
    ELSE ArmList(patterns, ParseCompoundList(start))
ArmPatterns(patterns) ==
    IF patterns.err THEN patterns
    ELSE ArmBody(patterns.v, Peek(SkipNewlines(Expect(patterns, "RParen"))))
ParseCaseArm(peeked) ==
    ArmPatterns(CasePatterns(IF peeked.tok.t = "LParen" THEN NextToken(peeked) ELSE peeked, <<>>))

RECURSIVE CaseArms(_, _)
ArmsAnd(arms, arm) == IF arm.err THEN arm ELSE CaseArms(SkipNewlines(arm), Append(arms, arm.v))
CaseArms(ps, arms) ==
    LET peeked == Peek(ps)
    IN  IF peeked.err THEN peeked
        ELSE IF peeked.tok.t = "Esac" THEN Return(NextToken(peeked), arms)
        ELSE ArmsAnd(arms, ParseCaseArm(peeked))

CaseOf(word, arms) ==
    LET Bodies(k) == arms.v[k].body
    IN  IF arms.err THEN arms
        ELSE WithRedirections(Return(arms,
               [Node("Case", FlattenSeq([k \in DOMAIN arms.v |-> Bodies(k)])) EXCEPT
                  !.words = <<word>>,
                  !.arms = [k \in DOMAIN arms.v |-> [patterns |-> arms.v[k].patterns,
                                                    empty |-> Bodies(k) = <<>>]]]))
CaseWord(word) ==
    IF word.err \/ word.tok.t # "Word" THEN Fail(word)
    ELSE CaseOf(word.tok.parts, CaseArms(SkipNewlines(Expect(SkipNewlines(word), "In")), <<>>))
ParseCase(ps) == CaseWord(NextAsWord(Expect(ps, "Case")))

RECURSIVE Assigns(_), SimpleRest(_)
Assigns(ps) ==
    LET peeked == Peek(ps)
    IN  IF peeked.err \/ peeked.tok.t # "Assignment" THEN peeked
        ELSE Assigns(Return(NextToken(peeked), [ps.v EXCEPT !.assigns =
               Append(@, [name |-> peeked.tok.name, value |-> peeked.tok.parts])]))

AddArg(ps, cmd, parts) == Return(ps, [cmd EXCEPT !.words = Append(@, parts)])
AddRedir(ps, cmd, redir) == Return(ps, [cmd EXCEPT !.redirs = Append(@, redir)])

FunctionOf(name, body) ==
    IF body.err THEN body ELSE Return(body, [Node("FuncDef", <<body.v>>) EXCEPT !.name = name])
ParseFunction(ps, name) ==
    FunctionOf(name, ParseCommand(SkipNewlines(Expect(NextToken(ps), "RParen"))))

\* The words and redirections after the assignments.  A reserved word is an
\* argument like another once the command has a name.
SimpleAnd(cmd, redir) == IF redir.err THEN redir ELSE SimpleRest(AddRedir(redir, cmd, redir.v))
SimpleWord(cmd, tok, second) ==
    IF second.err THEN second
    ELSE IF IsFdWord(tok) /\ second.tok.t \in RedirTokens
    THEN SimpleAnd(cmd, NumberedRedir(ParseRedirAfterOp(NextToken(second)), tok))
    ELSE IF cmd.words = <<>> /\ cmd.assigns = <<>> /\ second.tok.t = "LParen"
    THEN ParseFunction(second, PartsToText(tok.parts))
    ELSE SimpleRest(AddArg(second, cmd, tok.parts))
SimpleRest(ps) ==
    LET cmd == ps.v
        peeked == Peek(ps)
        tok == peeked.tok
    IN  IF peeked.err THEN peeked
        ELSE CASE tok.t = "Word" -> SimpleWord(cmd, tok, Peek(NextToken(peeked)))
               [] tok.t = "Assignment" /\ cmd.words # <<>> ->
                    SimpleRest(AddArg(NextToken(peeked), cmd,
                                      <<Lit(tok.name \o <<"=">>)>> \o tok.parts))
               [] tok.t \in ReservedNames /\ cmd.words # <<>> ->
                    SimpleRest(AddArg(NextToken(peeked), cmd, <<Lit(ReservedWordText(tok.t))>>))
               [] tok.t \in RedirTokens -> SimpleAnd(cmd, ParseRedirAfterOp(NextToken(peeked)))
               [] OTHER -> peeked

NotEmpty(cmd) == IF cmd.err \/ cmd.v # EmptyCommand THEN cmd ELSE Fail(cmd)
ParseSimpleCommandOrFunc(ps) == NotEmpty(SimpleRest(Assigns(Return(ps, EmptyCommand))))

Command(peeked) ==
    IF peeked.err THEN peeked
    ELSE CASE peeked.tok.t = "LParen" -> ParseSubshell(peeked)
           [] peeked.tok.t = "Lbrace" -> ParseBraceGroup(peeked)
           [] peeked.tok.t = "If" -> ParseIf(peeked)
           [] peeked.tok.t = "While" -> ParseWhile(peeked)
           [] peeked.tok.t = "Until" -> ParseUntil(peeked)
           [] peeked.tok.t = "For" -> ParseFor(peeked)
           [] peeked.tok.t = "Case" -> ParseCase(peeked)
           [] OTHER -> ParseSimpleCommandOrFunc(peeked)

RECURSIVE ProgramRest(_, _)
ProgramAnd(commands, cmd) ==
    IF cmd.err THEN cmd ELSE ProgramRest(SkipNewlines(cmd), Append(commands, cmd.v))
ProgramRest(ps, commands) ==
    LET peeked == Peek(ps)
    IN  IF peeked.err THEN peeked
        ELSE IF peeked.tok.t = "Eof" THEN Return(peeked, commands)
        ELSE ProgramAnd(commands, ReadPendingHeredocs(ParseCommandList(peeked, FALSE)))

ParserState(text, depth) ==
    [src |-> text, pos |-> 1, depth |-> depth, push |-> <<>>, reserved |-> TRUE,
     pending |-> <<>>, bodies |-> <<>>, err |-> FALSE, tok |-> Tok("Eof"), v |-> <<>>]
ParseProgram(text, depth) == Rule("Program", ParserState(text, depth))

-----------------------------------------------------------------------------
(* The commands inside words.  The lexer parses a substitution's text as   *)
(* soon as it has read it, and its error is the whole parse's error; here  *)
(* the texts are parsed once the program around them is.                   *)

\* The first of a sequence of [err, v] that failed, or all their values.
All(results) ==
    [err |-> \E k \in DOMAIN results : results[k].err,
     v |-> [k \in DOMAIN results |-> results[k].v]]

\* [err, v]: a substitution's text as one command.
Sequenced(program) ==
    LET cmds == All([k \in DOMAIN program.v |-> Resolve(program.v[k])])
    IN  IF program.err THEN [err |-> TRUE, v |-> EmptyCommand]
        ELSE IF cmds.v = <<>> THEN [err |-> FALSE, v |-> EmptyCommand]
        ELSE [cmds EXCEPT !.v =
                FoldLeft(LAMBDA l, r : Node("Sequence", <<l, r>>), cmds.v[1], Tail(cmds.v))]
ParseCmdsubstContent(text, depth) ==
    IF depth >= MaxNesting THEN [err |-> TRUE, v |-> EmptyCommand]
    ELSE Sequenced(ParseProgram(text, depth + 1))

\* [err, v]: the parts a part of a word becomes.
ResolveWord(read) ==
    LET inner == ResolveParts(read.parts)
    IN  [err |-> read.err \/ inner.err, v |-> inner.v]
AsCommand(r) == [err |-> r.err, v |-> <<[p |-> "cmd", cmd |-> r.v]>>]
AsArith(r) == [err |-> r.err, v |-> <<[p |-> "arith", in |-> r.v]>>]
ResolveText(part) ==
    CASE part.kind = "cmd" -> AsCommand(ParseCmdsubstContent(part.text, part.depth))
      [] part.kind = "arith" -> AsArith(ResolveWord(WordPartsArith(part.text, part.depth)))
      [] part.kind = "doc" -> ResolveWord(WordPartsHeredoc(part.text, part.depth))
InPart(part, field, inner) == [err |-> inner.err, v |-> <<[part EXCEPT ![field] = inner.v]>>]
ResolvePart(part) ==
    CASE part.p = "raw" -> ResolveText(part)
      [] part.p = "param" -> InPart(part, "word", ResolveParts(part.word))
      [] part.p = "dq" -> InPart(part, "in", ResolveParts(part.in))
      [] OTHER -> [err |-> FALSE, v |-> <<part>>]
Parts(all) == [err |-> all.err, v |-> FlattenSeq(all.v)]

EachWord(cmd) ==
    LET Words(seq) == All([k \in DOMAIN seq |-> ResolveParts(seq[k])])
        kids == All([k \in DOMAIN cmd.kids |-> Resolve(cmd.kids[k])])
        words == Words(cmd.words)
        assigns == Words([k \in DOMAIN cmd.assigns |-> cmd.assigns[k].value])
        targets == Words([k \in DOMAIN cmd.redirs |->
                            IF cmd.redirs[k].literal THEN <<>> ELSE cmd.redirs[k].word])
        patterns == All([k \in DOMAIN cmd.arms |-> Words(cmd.arms[k].patterns)])
    IN  [err |-> kids.err \/ words.err \/ assigns.err \/ targets.err \/ patterns.err,
         v |-> [cmd EXCEPT
           !.kids = kids.v, !.words = words.v,
           !.assigns = [k \in DOMAIN @ |-> [@[k] EXCEPT !.value = assigns.v[k]]],
           !.redirs = [k \in DOMAIN @ |->
                         IF @[k].literal THEN @[k] ELSE [@[k] EXCEPT !.word = targets.v[k]]],
           !.arms = [k \in DOMAIN @ |-> [@[k] EXCEPT !.patterns = patterns.v[k]]]]]

\* [err, v]: the commands of a text.
Commands(program) ==
    IF program.err THEN [err |-> TRUE, v |-> <<>>]
    ELSE All([k \in DOMAIN program.v |-> Resolve(program.v[k])])

Rule(rule, x) ==
    CASE rule = "Token" -> Token(x)
      [] rule = "Peek" -> Peeked(NextToken(x))
      [] rule = "Newlines" -> Newlines(NextToken(x))
      [] rule = "Command" -> Command(Peek(x))
      [] rule = "Pipeline" -> Pipeline(Peek(x))
      [] rule = "AndOr" -> AndOr(x)
      [] rule = "CompoundList" -> CompoundList(Peek(x))
      [] rule = "Redirection" -> Redirection(x.tok.t, NextAsWord(x))
      [] rule = "Redirections" -> RedirectionsRest(x, <<>>)
      [] rule = "Resolve" -> EachWord(x)
      [] rule = "ResolveParts" -> Parts(All([k \in DOMAIN x |-> ResolvePart(x[k])]))
      [] rule = "Program" -> ProgramRest(SkipNewlines(x), <<>>)
      [] rule = "Text" -> Commands(ParseProgram(x, 0))

Parse(text) == Rule("Text", text)

=============================================================================
