---------------------------- MODULE Completion ----------------------------
\* What Tab offers (src/src/complete.rs and the completion half of
\* src/src/editor.rs): the word before the cursor, its candidates, the grid they
\* are shown in and the text that stands for the selected one.
EXTENDS Naturals, Sequences, SequencesExt

\* The text under edit (src/src/line.rs): characters, a cursor between 0 and
\* their number, and the text last killed.  The code counts bytes and keeps the
\* cursor on a character boundary; here an offset counts characters, and a
\* character takes one column or, when wide, two.

CONSTANT WideChars

Blanks == {" ", "\t", "\n"}
EmptyLine == [buf |-> <<>>, cursor |-> 0, kill |-> <<>>]
Before(l) == SubSeq(l.buf, 1, l.cursor)
After(l) == SubSeq(l.buf, l.cursor + 1, Len(l.buf))
Width(s) == Len(s) + Cardinality({i \in DOMAIN s : s[i] \in WideChars})
Holds(s, c) == \E i \in DOMAIN s : s[i] = c

Set(l, s) == [l EXCEPT !.buf = s, !.cursor = Len(s)]
SetWithCursor(l, s, c) == [l EXCEPT !.buf = s, !.cursor = Min({c, Len(s)})]
Insert(l, s) == [l EXCEPT !.buf = Before(l) \o s \o After(l), !.cursor = @ + Len(s)]
\* The line without its characters i+1 .. j, the cursor where they were.
Cut(l, i, j) ==
    [l EXCEPT !.buf = SubSeq(@, 1, i) \o SubSeq(@, j + 1, Len(@)), !.cursor = i]
Kill(l, i, j) == IF i = j THEN l ELSE [Cut(l, i, j) EXCEPT !.kill = SubSeq(l.buf, i + 1, j)]

DeleteBack(l) == IF l.cursor = 0 THEN l ELSE Cut(l, l.cursor - 1, l.cursor)
DeleteForward(l) == IF l.cursor = Len(l.buf) THEN l ELSE Cut(l, l.cursor, l.cursor + 1)
MoveLeft(l) == [l EXCEPT !.cursor = IF @ = 0 THEN 0 ELSE @ - 1]
MoveRight(l) == [l EXCEPT !.cursor = IF @ = Len(l.buf) THEN @ ELSE @ + 1]
MoveHome(l) == [l EXCEPT !.cursor = 0]
MoveEnd(l) == [l EXCEPT !.cursor = Len(l.buf)]

\* The end of the run of characters that are (or are not) blank, going back or
\* forward from offset p.
RunBack(s, p, blank) == Min({q \in 0..p : \A k \in (q + 1)..p : (s[k] \in Blanks) = blank})
RunOn(s, p, blank) == Max({q \in p..Len(s) : \A k \in (p + 1)..q : (s[k] \in Blanks) = blank})
WordBack(l) == RunBack(l.buf, RunBack(l.buf, l.cursor, TRUE), FALSE)
MoveWordLeft(l) == [l EXCEPT !.cursor = WordBack(l)]
MoveWordRight(l) == [l EXCEPT !.cursor = RunOn(l.buf, RunOn(l.buf, @, FALSE), TRUE)]

KillToEnd(l) == Kill(l, l.cursor, Len(l.buf))
KillToStart(l) == Kill(l, 0, l.cursor)
KillWordBack(l) == Kill(l, WordBack(l), l.cursor)
KillWordForward(l) == Kill(l, l.cursor, RunOn(l.buf, RunOn(l.buf, l.cursor, TRUE), FALSE))
Yank(l) == Insert(l, l.kill)

\* Movement between the rows of a line that wraps, and the display offset that
\* the cursor takes on the new row.
HasNewlines(l) == Holds(l.buf, "\n")
GridColumn(l, prompt, cols) == (prompt + Width(Before(l))) % cols
OffsetForDisplay(s, target) == Max({k \in 0..Len(s) : Width(SubSeq(s, 1, k)) <= target})
OntoRow(l, prompt, cols, row, column) ==
    LET total == row * cols + Min({column, cols - 1})
    IN  [l EXCEPT !.cursor = OffsetForDisplay(l.buf, IF total > prompt THEN total - prompt ELSE 0)]
GridRow(l, prompt, cols) == (prompt + Width(Before(l))) \div cols
CanGridUp(l, prompt, cols) == l.buf # <<>> /\ GridRow(l, prompt, cols) > prompt \div cols
CanGridDown(l, prompt, cols) ==
    l.buf # <<>> /\ GridRow(l, prompt, cols) < (prompt + Width(l.buf)) \div cols
MoveGridUp(l, prompt, cols, column) ==
    OntoRow(l, prompt, cols, GridRow(l, prompt, cols) - 1, column)
MoveGridDown(l, prompt, cols, column) ==
    OntoRow(l, prompt, cols, GridRow(l, prompt, cols) + 1, column)

\* Movement between the lines of a text with newlines.
OnFirstLine(l) == ~Holds(Before(l), "\n")
OnLastLine(l) == ~Holds(After(l), "\n")
LineStart(s, p) == Min({q \in 0..p : ~Holds(SubSeq(s, q + 1, p), "\n")})
LineEnd(s, p) == Max({q \in p..Len(s) : ~Holds(SubSeq(s, p + 1, q), "\n")})
OffsetAtColumn(s, column) ==
    Min({Len(s)} \cup {k \in 0..Len(s) : Width(SubSeq(s, 1, k)) >= column})
OntoLine(l, p) ==
    LET start == LineStart(l.buf, p)
    IN  [l EXCEPT !.cursor = start + OffsetAtColumn(SubSeq(l.buf, start + 1, LineEnd(l.buf, p)),
                                                   Width(SubSeq(l.buf, LineStart(l.buf, @) + 1, @)))]
MoveLineUp(l) == OntoLine(l, LineStart(l.buf, l.cursor) - 1)
MoveLineDown(l) == OntoLine(l, LineEnd(l.buf, l.cursor) + 1)
-----------------------------------------------------------------------------
\* Words, candidates and the grid.

\* For each working directory, the directories by the text that names them from
\* there (ended by a slash, empty for itself), each with its entries in the order
\* finish_candidates gives them; commands (builtins, aliases and programs), ssh hosts; the home
\* directory's name; the names of the commands that are treated specially; and
\* the alphabetical order of the characters.
CONSTANTS Listing, Commands, Hosts, Home, CdWord, SshWords, SudoWords, CharOrder
VARIABLE cwd

Tilde == <<"~", "/">>
Unselected == 1000        \* usize::MAX
Here == Listing[cwd]

StartsWith(s, p) == Len(p) <= Len(s) /\ SubSeq(s, 1, Len(p)) = p
EndsWith(s, p) == Len(p) <= Len(s) /\ SubSeq(s, Len(s) - Len(p) + 1, Len(s)) = p
From(s, n) == SubSeq(s, n, Len(s))
HasPart(s, p) == \E i \in 1..(Len(s) - Len(p) + 1) : SubSeq(s, i, i + Len(p) - 1) = p
TrimEnd(s) == SubSeq(s, 1, RunBack(s, Len(s), TRUE))
FirstWord(s) == LET a == RunOn(s, 0, TRUE) IN SubSeq(s, a + 1, RunOn(s, a, FALSE))

\* One pass over the text: the quotes open at its end, where its last word and
\* its last command start, and the words of that command without their quotes.
ScanStart == [sq |-> FALSE, dq |-> FALSE, esc |-> FALSE, amp |-> FALSE, at |-> 0,
              word |-> 0, cur |-> <<>>, tokens |-> <<>>]
TokenEnd(t) == [t EXCEPT !.cur = <<>>, !.tokens = IF t.cur = <<>> THEN @ ELSE Append(@, t.cur)]
CommandEnd(t) == [t EXCEPT !.cur = <<>>, !.tokens = <<>>]
ScanChar(t, c) ==
    CASE t.esc -> [t EXCEPT !.esc = FALSE, !.cur = Append(@, c)]
      [] ~t.esc /\ c = "\\" /\ ~t.sq -> [t EXCEPT !.esc = TRUE, !.amp = FALSE]
      [] ~t.esc /\ c = "'" /\ ~t.dq -> [t EXCEPT !.sq = ~@, !.amp = FALSE]
      [] ~t.esc /\ c = "\"" /\ ~t.sq -> [t EXCEPT !.dq = ~@, !.amp = FALSE]
      [] ~t.esc /\ c \in {" ", "\t", "\n"} /\ ~t.sq /\ ~t.dq ->
            [(IF c = "\n" THEN [t EXCEPT !.cur = Append(@, c)] ELSE TokenEnd(t))
                EXCEPT !.word = t.at + 1, !.amp = FALSE]
      [] ~t.esc /\ c \in {"|", ";"} /\ ~t.sq /\ ~t.dq -> [CommandEnd(t) EXCEPT !.amp = FALSE]
      [] ~t.esc /\ c = "&" /\ ~t.sq /\ ~t.dq ->
            IF t.amp THEN [CommandEnd(t) EXCEPT !.amp = FALSE]
                     ELSE [t EXCEPT !.amp = TRUE, !.cur = Append(@, c)]
      [] OTHER -> [t EXCEPT !.amp = FALSE, !.cur = Append(@, c)]
RECURSIVE ScanFrom(_, _)
ScanFrom(t, s) ==
    IF s = <<>> THEN t ELSE ScanFrom([ScanChar(t, Head(s)) EXCEPT !.at = @ + 1], Tail(s))
Scan(s) == ScanFrom(ScanStart, s)

FindCompWordStart(s) == Scan(s).word
ExistingCmdArgs(before, wordStart) ==
    LET tokens == TokenEnd(Scan(SubSeq(before, 1, wordStart))).tokens
    IN  IF tokens = <<>> THEN {} ELSE Range(Tail(tokens))
NeedsContinuation(s) ==
    LET trimmed == TrimEnd(s)
        t == Scan(s)
    IN  /\ trimmed # <<>>
        /\ t.sq \/ t.dq \/ t.esc \/ EndsWith(trimmed, <<"|">>) \/ EndsWith(trimmed, <<"&", "&">>)

IsCommandPosition(before, wordStart) ==
    LET ahead == TrimEnd(SubSeq(before, 1, wordStart))
        cut == Max({0} \cup {i \in DOMAIN ahead : ahead[i] \in Blanks \cup {"|", ";"}})
    IN  \/ wordStart = 0
        \/ EndsWith(ahead, <<"|">>) \/ EndsWith(ahead, <<";">>) \/ EndsWith(ahead, <<"&", "&">>)
        \/ From(ahead, cut + 1) \in SudoWords

RECURSIVE Unescape(_)
Unescape(s) ==
    IF s = <<>> THEN <<>>
    ELSE IF Head(s) = "\\" /\ Len(s) > 1 THEN <<s[2]>> \o Unescape(From(s, 3))
    ELSE <<Head(s)>> \o Unescape(Tail(s))
Unquoted(s, q) == IF EndsWith(s, <<q>>) THEN Front(s) ELSE s
Without(s, q) == SelectSeq(s, LAMBDA c : c # q)
\* The word without its quotes, and whether it has any.
ParseCompletionWord(raw, sq, dq) ==
    CASE StartsWith(raw, Tilde \o <<"'">>) -> [partial |-> Tilde \o Unquoted(From(raw, 4), "'"), quoted |-> TRUE]
      [] StartsWith(raw, Tilde \o <<"\"">>) ->
            [partial |-> Tilde \o Unescape(Unquoted(From(raw, 4), "\"")), quoted |-> TRUE]
      [] StartsWith(raw, <<"'">>) -> [partial |-> Unquoted(Tail(raw), "'"), quoted |-> TRUE]
      [] StartsWith(raw, <<"\"">>) -> [partial |-> Unescape(Unquoted(Tail(raw), "\"")), quoted |-> TRUE]
      [] OTHER ->
            [partial |-> CASE sq -> Without(raw, "'")
                           [] dq /\ ~sq -> Unescape(Without(raw, "\""))
                           [] OTHER -> Unescape(raw),
             quoted |-> sq \/ dq]

\* "path/to/pref" is directory "path/to/" and prefix "pref".
LastSlash(s) == Max({0} \cup {i \in DOMAIN s : s[i] = "/"})
DirectoryPart(s) == SubSeq(s, 1, LastSlash(s))
PrefixPart(s) == From(s, LastSlash(s) + 1)

\* The entries of one directory that match: those that start with the prefix,
\* or those that contain it when none does.
CompleteInDirectory(dir, prefix, dirsOnly) ==
    LET Eligible(e) ==
            /\ StartsWith(e.name, <<".">>) => StartsWith(prefix, <<".">>)
            /\ dirsOnly => e.kind = "dir"
            /\ HasPart(e.name, prefix)
        Starts(e) == Eligible(e) /\ StartsWith(e.name, prefix)
    IN  IF dir \notin DOMAIN Here THEN <<>>
        ELSE IF SelectSeq(Here[dir], Starts) # <<>> THEN SelectSeq(Here[dir], Starts)
        ELSE SelectSeq(Here[dir], Eligible)
CompletePathFrom(partial, dirsOnly) ==
    CompleteInDirectory(DirectoryPart(partial), PrefixPart(partial), dirsOnly)

RECURSIVE NameLess(_, _)
NameLess(a, b) ==
    IF a = <<>> \/ b = <<>> THEN Len(a) < Len(b)
    ELSE IF Head(a) = Head(b) THEN NameLess(Tail(a), Tail(b))
    ELSE CharOrder[Head(a)] < CharOrder[Head(b)]
\* sort_entries and dedup_sorted: by name, one entry for each name; the first
\* pushed of two equal ones stays.
SortedByName(entries) ==
    LET names == SetToSortSeq({e.name : e \in Range(entries)}, NameLess)
        First(n) == Min({i \in DOMAIN entries : entries[i].name = n})
    IN  [i \in DOMAIN names |-> entries[First(names[i])]]
FilterExistingArgs(entries, existing, prefix) ==
    SelectSeq(entries, LAMBDA e : /\ prefix \o e.name \notin existing
                                  /\ e.kind = "dir" => prefix \o e.name \o <<"/">> \notin existing)

\* Every directory that a path abbreviates, each component a prefix.
RECURSIVE ResolveDirectory(_)
ResolveDirectory(dir) ==
    IF dir \in DOMAIN Here THEN {dir}
    ELSE LET path == Front(dir)
         IN  UNION {{p \o e.name \o <<"/">> :
                        e \in {x \in Range(Here[p]) : x.kind = "dir" /\ StartsWith(x.name, PrefixPart(path))}} :
                    p \in IF path = <<>> THEN {} ELSE ResolveDirectory(DirectoryPart(path))}
CompletePartialPath(partial, dirsOnly) ==
    LET dir == DirectoryPart(partial)
        dirs == SetToSortSeq(ResolveDirectory(dir), NameLess)
        Found(d) == [i \in DOMAIN CompleteInDirectory(d, PrefixPart(partial), dirsOnly) |->
                        [CompleteInDirectory(d, PrefixPart(partial), dirsOnly)[i] EXCEPT !.name = d \o @]]
    IN  IF dir = <<>> \/ dir \in DOMAIN Here THEN <<>>
        ELSE FlattenSeq([i \in DOMAIN dirs |-> Found(dirs[i])])

\* The grid: as many columns as fit, at most six, filled column by column.
EntryWidth(e) == Width(e.name) + (IF e.kind \in {"dir", "host"} THEN 1 ELSE 0)
CeilDiv(n, k) == (n + k - 1) \div k
GridWidth(entries, cols) ==
    LET n == Len(entries)
        rows == CeilDiv(n, cols)
        ColumnWidth(c) == Max({0} \cup {EntryWidth(entries[i]) : i \in {j \in 1..n : (j - 1) \div rows = c}})
    IN  MapThenSumSet(ColumnWidth, 0..(cols - 1)) + (cols - 1) * 2
GridRows(entries, termCols) ==
    LET n == Len(entries)
        fit == {c \in 1..Min({6, n}) : GridWidth(entries, c) <= termCols}
    IN  IF n = 0 THEN 0 ELSE IF fit = {} THEN n ELSE CeilDiv(n, Max(fit))

\* Movement of the selection; with none, a first or last entry is selected.
MoveUp(sel, rows, n) ==
    IF sel >= n THEN n - 1
    ELSE IF sel % rows # 0 THEN sel - 1
    ELSE LET col == IF sel = 0 THEN (n - 1) \div rows ELSE sel \div rows - 1
         IN  Min({col * rows + rows - 1, n - 1})
MoveDown(sel, rows, n) ==
    IF sel >= n THEN 0
    ELSE IF (sel % rows) + 1 < rows /\ sel + 1 < n THEN sel + 1
    ELSE LET next == (sel \div rows + 1) * rows IN IF next < n THEN next ELSE 0
MoveColumnLeft(sel, rows, n) ==
    IF sel >= n THEN n - 1
    ELSE IF sel >= rows THEN sel - rows
    ELSE Min({((n - 1) \div rows) * rows + (sel % rows), n - 1})
MoveColumnRight(sel, rows, n) ==
    IF sel >= n THEN 0
    ELSE IF sel + rows < n THEN sel + rows ELSE Min({sel % rows, n - 1})

\* start_completion: the candidates for the word before the cursor.
Offered(entries, prefix, quoted, cols) ==
    [comp |-> entries, selected |-> 0, rows |-> GridRows(entries, cols), prefix |-> prefix, quoted |-> quoted]
PathOffer(partial, quoted, existing, dirsOnly, cols) ==
    LET expanded == CASE partial = <<"~">> -> Home \o <<"/">>
                      [] StartsWith(partial, Tilde) -> Home \o Tail(partial)
                      [] OTHER -> partial
        root == CASE StartsWith(partial, <<"~">>) /\ (Len(partial) = 1 \/ partial[2] = "/") -> Tilde
                  [] StartsWith(partial, <<"/">>) -> <<"/">>
                  [] OTHER -> <<>>
        dir == DirectoryPart(partial)
        direct == FilterExistingArgs(CompletePathFrom(expanded, dirsOnly), existing, dir)
        Below(e) == [e EXCEPT !.name = CASE root = Tilde -> From(@, Len(Home) + 2)
                                         [] root = <<"/">> -> Tail(@)
                                         [] OTHER -> @]
        abbreviated == CompletePartialPath(expanded, dirsOnly)
    IN  IF direct # <<>> THEN Offered(direct, dir, quoted, cols)
        ELSE Offered(FilterExistingArgs([i \in DOMAIN abbreviated |-> Below(abbreviated[i])], existing, root),
                     IF abbreviated = <<>> THEN <<>> ELSE root, quoted, cols)
HostEntries(partial) ==
    SetToSortSeq({[name |-> h, kind |-> "host"] : h \in {x \in Hosts : StartsWith(x, partial)}},
                 LAMBDA a, b : NameLess(a.name, b.name))
CommandEntries(partial) ==
    SetToSortSeq({[name |-> c, kind |-> "exec"] : c \in {x \in Commands : StartsWith(x, partial)}},
                 LAMBDA a, b : NameLess(a.name, b.name))
OfferFor(text, before, wordStart, word, cols) ==
    LET partial == word.partial
        command == FirstWord(text)
        existing == ExistingCmdArgs(before, wordStart)
        plain == ~Holds(partial, "/")
        commands == SortedByName(CommandEntries(partial) \o CompletePathFrom(partial, TRUE))
        hosts == FilterExistingArgs(SortedByName(HostEntries(partial) \o CompletePathFrom(partial, FALSE)),
                                    existing, <<>>)
    IN  CASE partial # <<>> /\ plain /\ IsCommandPosition(before, wordStart) ->
                Offered(commands, <<>>, FALSE, cols)
          [] /\ partial = <<>> \/ ~plain \/ ~IsCommandPosition(before, wordStart)
             /\ wordStart > 0 /\ command \in SshWords /\ plain /\ ~Holds(partial, ":") /\ hosts # <<>> ->
                Offered(hosts, <<>>, word.quoted, cols)
          [] OTHER -> PathOffer(partial, word.quoted, existing, command = CdWord /\ wordStart > 0, cols)
StartCompletion(line, cols) ==
    LET before == Before(line)
        t == Scan(before)
    IN  OfferFor(line.buf, before, t.word, ParseCompletionWord(From(before, t.word + 1), t.sq, t.dq), cols)

\* The selected candidate in place of the word, quoted where the shell needs it.
Special == {" ", "\t", "(", ")", "$", "*", "?", "[", "]", "|", "&", ">", "<", ";", "#", "\\", "\""}
NeedsQuoting(s) == \E i \in DOMAIN s : s[i] \in Special
\* Mutant: a name with a quote is quoted as it is.
QuotesKept(s) == s
EscapedQuotes(s) == FlattenSeq([i \in DOMAIN s |-> IF s[i] = "'" THEN <<"'", "\\", "'", "'">> ELSE <<s[i]>>])
Replacement(inner, quoted) ==
    LET escaped == EscapedQuotes(inner)
    IN  IF ~quoted /\ ~NeedsQuoting(inner) /\ ~Holds(inner, "'") THEN inner
        ELSE IF StartsWith(escaped, Tilde) THEN Tilde \o <<"'">> \o From(escaped, 3) \o <<"'">>
        ELSE <<"'">> \o escaped \o <<"'">>
Suffix(e) == CASE e.kind = "dir" -> <<"/">> [] e.kind = "host" -> <<":">> [] OTHER -> <<>>
\* preview_completion; a line keeps its own kill ring, a plain preview takes the base line's.
Preview(line, state, base) ==
    LET e == state.comp[state.selected + 1]
        start == FindCompWordStart(Before(base))
        replacement == Replacement(state.prefix \o e.name \o Suffix(e), state.quoted)
    IN  IF state.selected >= Len(state.comp) THEN base
        ELSE SetWithCursor(line, SubSeq(base.buf, 1, start) \o replacement \o After(base),
                           start + Len(replacement))
=============================================================================
