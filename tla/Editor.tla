------------------------------- MODULE Editor -------------------------------
\* Reading a line (src/src/editor.rs, src/src/mode.rs and read_line of
\* src/src/shell.rs): the reader's events change the line, the completion menu,
\* the history search or the directory picker, and the loop acts on what the
\* editor asks for.
EXTENDS Completion, InputReader, Integers

\* Search and recall over the loaded history (the search half of
\* src/src/history.rs and the query half of src/src/editor.rs).  Entries are the
\* commands of every session, numbered from the least to the most recently used;
\* case, directory context and usage bonuses, which only order equal matches,
\* are left to the entry's number.

CONSTANTS Entries, Session, Limit

\* Every known entry, newest first.
SearchEntryIndices(known) == [i \in 1..known |-> known + 1 - i]

RECURSIVE IsSubsequence(_, _)
IsSubsequence(q, t) ==
    \/ q = <<>>
    \/ t # <<>> /\ IsSubsequence(IF Head(q) = Head(t) THEN Tail(q) ELSE q, Tail(t))
Boundary == {"/", "-", "_", ".", " ", "\t"}
\* The tier of a match: prefix, substring at a word boundary, substring, subsequence.
RankMatch(q, t) ==
    CASE StartsWith(t, q) -> 3
      [] ~StartsWith(t, q) /\ HasPart(t, q) ->
            IF \E i \in 2..(Len(t) - Len(q) + 1) : SubSeq(t, i, i + Len(q) - 1) = q /\ t[i - 1] \in Boundary
            THEN 2 ELSE 1
      [] OTHER -> 0
\* Every candidate that matches, and the best of them in order; an empty query
\* ranks by age alone.
SearchLimited(query, candidates) ==
    LET matched == SelectSeq(candidates, LAMBDA i : IsSubsequence(query, Entries[i]))
        found == Range(matched)
        rank == [i \in found |-> IF query = <<>> THEN i
                                 ELSE RankMatch(query, Entries[i]) * (Len(Entries) + 1) + i]
        Above(i) == Cardinality({j \in found : rank[j] > rank[i]})
    IN  [matched |-> matched,
         results |-> [n \in 1..Min({Limit, Len(matched)}) |-> CHOOSE i \in found : Above(i) = n - 1]]

\* Session recall: the commands of this session that start with a text, newest first.
SessionPrefixSearch(prefix) == Reverse(SelectSeq(Session, LAMBDA t : StartsWith(t, prefix)))

\* The query's matches from the candidates of the query it was made from: the
\* longer query narrows them, the shorter one takes back those kept for it, and
\* any other edit searches everything again.
Searched(m, query, candidates, wider, stack) ==
    LET found == SearchLimited(query.buf, candidates)
    IN  [m EXCEPT !.query = query, !.matches = found.results, !.selected = 0, !.stack = stack,
                  !.candidates = IF wider THEN candidates ELSE found.matched]
AtEnd(l) == l.cursor = Len(l.buf)
\* Mutant: a shorter query is taken for the earlier one of its length.
UpdateByLength(m, query, known) ==
    LET before == m.query
        appended == Len(query.buf) > Len(before.buf) /\ StartsWith(query.buf, before.buf)
        kept == SelectSeq(m.stack, LAMBDA s : s.len <= Len(query.buf))
        back == /\ Len(query.buf) < Len(before.buf)
                /\ kept # <<>> /\ Last(kept).len = Len(query.buf)
    IN  IF appended THEN Searched(m, query, m.candidates, FALSE,
                                  Append(m.stack, [len |-> Len(before.buf), candidates |-> m.candidates]))
        ELSE IF back THEN Searched(m, query, Last(kept).candidates, TRUE, Front(kept))
        ELSE Searched(m, query, SearchEntryIndices(known), TRUE, <<>>)
UpdateHistorySearch(m, query, known) ==
    LET before == m.query
        appended == /\ AtEnd(before) /\ AtEnd(query)
                    /\ Len(query.buf) > Len(before.buf) /\ StartsWith(query.buf, before.buf)
        deleted == /\ AtEnd(before) /\ AtEnd(query)
                   /\ Len(query.buf) < Len(before.buf) /\ StartsWith(before.buf, query.buf)
        kept == SelectSeq(m.stack, LAMBDA s : s.len <= Len(query.buf))
        back == deleted /\ kept # <<>> /\ Last(kept).len = Len(query.buf)
    IN  IF appended THEN Searched(m, query, m.candidates, FALSE,
                                  Append(m.stack, [len |-> Len(before.buf), candidates |-> m.candidates]))
        ELSE IF back THEN Searched(m, query, Last(kept).candidates, TRUE, Front(kept))
        ELSE Searched(m, query, SearchEntryIndices(known), TRUE, <<>>)
-----------------------------------------------------------------------------
\* The editor.

CONSTANTS Aliases, PromptWidth, DirStack, Setups

VARIABLES
    ed,        \* the editor: line, recall position, mode and terminal width
    known,     \* how many history entries this shell has loaded
    ended,     \* the shell gave up reading: exit, termination or a dead terminal
    left,      \* the setup's remaining bounds
    \* ghosts
    owed,      \* events meant by what was typed and not handled yet
    surprise,  \* an event was handled that was not the next one meant
    offer      \* the completion the last event put in the line, and the word typed

vars == <<readerVars, cwd, ed, known, ended, left, owed, surprise, offer>>

Normal == [name |-> "normal"]
NoOffer == [entry |-> [name |-> <<>>, kind |-> "none"], word |-> <<>>]
NewEditor(cols) == [line |-> EmptyLine, idx |-> -1, saved |-> <<>>, grid |-> -1, mode |-> Normal, cols |-> cols]
Go(e) == [ed |-> e, act |-> "continue", arg |-> <<>>, offer |-> NoOffer]
Ask(e, act, arg) == [Go(e) EXCEPT !.act = act, !.arg = arg]

IsCtrl(k, c) == k.key = "Char" /\ k.char = c /\ k.ctrl
IsAlt(k, c) == k.key = "Char" /\ k.char = c /\ k.alt /\ ~k.ctrl
IsText(k) == k.key = "Char" /\ ~k.ctrl /\ ~k.alt
-----------------------------------------------------------------------------
\* Normal mode.

\* A space after the only word of the line expands it when it is an alias; "!"
\* may stand before it.
TryAliasExpand(l) ==
    LET text == l.buf
        first == RunOn(text, 0, TRUE)
        Word(p) == SubSeq(text, p + 1, RunOn(text, p, FALSE))
        start == IF Word(first) = <<"!">> THEN RunOn(text, first + 1, TRUE) ELSE first
        rest == From(text, start + Len(Word(start)) + 1)
    IN  IF TrimEnd(rest) # <<>> \/ Word(start) \notin DOMAIN Aliases THEN l
        ELSE Set(l, SubSeq(text, 1, start) \o Aliases[Word(start)] \o rest)

\* Up and Down beyond the text: the draft is saved on the way up and the
\* commands that start with it are recalled.
NavigateHistory(e, up) ==
    LET saved == IF e.idx = -1 THEN e.line.buf ELSE e.saved
        recall == SessionPrefixSearch(saved)
        at == IF up THEN e.idx + 1 ELSE e.idx - 1
        draft == [e EXCEPT !.saved = saved]
    IN  CASE known = 0 -> e
          [] known # 0 /\ ~up /\ at < 0 -> [draft EXCEPT !.idx = -1, !.line = Set(@, saved)]
          [] known # 0 /\ (up \/ at >= 0) ->
                IF at < Len(recall) THEN [draft EXCEPT !.idx = at, !.line = Set(@, recall[at + 1])]
                ELSE IF up THEN draft ELSE [draft EXCEPT !.idx = at]
VerticalKey(e, up) ==
    LET column == IF e.grid = -1 THEN GridColumn(e.line, PromptWidth, e.cols) ELSE e.grid
        away == [e EXCEPT !.grid = -1]
    IN  CASE HasNewlines(e.line) ->
                IF up /\ ~OnFirstLine(e.line) THEN [away EXCEPT !.line = MoveLineUp(@)]
                ELSE IF ~up /\ ~OnLastLine(e.line) THEN [away EXCEPT !.line = MoveLineDown(@)]
                ELSE NavigateHistory(e, up)
          [] ~HasNewlines(e.line) ->
                IF up /\ CanGridUp(e.line, PromptWidth, e.cols)
                THEN [e EXCEPT !.grid = column, !.line = MoveGridUp(@, PromptWidth, e.cols, column)]
                ELSE IF ~up /\ CanGridDown(e.line, PromptWidth, e.cols)
                THEN [e EXCEPT !.grid = column, !.line = MoveGridDown(@, PromptWidth, e.cols, column)]
                ELSE NavigateHistory(away, up)
RightKey(l) ==
    LET recall == SessionPrefixSearch(l.buf)
    IN  IF ~AtEnd(l) \/ HasNewlines(l) THEN MoveRight(l)
        ELSE IF recall # <<>> THEN Set(l, recall[1]) ELSE l

\* The keys that edit the line or move in it and nothing else.
LineKey(l, k) ==
    CASE IsCtrl(k, "d") \/ k.key = "Delete" -> DeleteForward(l)
      [] IsCtrl(k, "a") \/ k.key = "Home" -> MoveHome(l)
      [] IsCtrl(k, "e") \/ k.key = "End" -> MoveEnd(l)
      [] IsCtrl(k, "k") -> KillToEnd(l)
      [] IsCtrl(k, "u") -> KillToStart(l)
      [] IsCtrl(k, "w") -> KillWordBack(l)
      [] IsCtrl(k, "y") -> Yank(l)
      [] IsAlt(k, "d") -> KillWordForward(l)
      [] IsAlt(k, "b") \/ (k.key = "Left" /\ (k.ctrl \/ k.alt)) -> MoveWordLeft(l)
      [] IsAlt(k, "f") \/ (k.key = "Right" /\ (k.ctrl \/ k.alt)) -> MoveWordRight(l)
      [] k.key = "Left" /\ ~k.ctrl /\ ~k.alt -> MoveLeft(l)
      [] k.key = "Right" /\ ~k.ctrl /\ ~k.alt -> RightKey(l)
      [] OTHER -> l
Typed(e, l) == [e EXCEPT !.line = l, !.idx = -1]
NormalKey(e0, k) ==
    LET e == IF k.key \in {"Up", "Down"} /\ ~k.ctrl THEN e0 ELSE [e0 EXCEPT !.grid = -1]
        text == Insert(e.line, <<k.char>>)
        tabbed == [e EXCEPT !.line = IF @.buf = <<>> THEN Insert(@, CdWord \o <<" ">>) ELSE @]
    IN  CASE IsCtrl(k, "c") -> Ask(e, "cancel", <<>>)
          [] IsCtrl(k, "d") /\ e.line.buf = <<>> -> Ask(e, "exit", <<>>)
          [] IsCtrl(k, "r") -> Ask(e, "search", <<>>)
          [] k.key \in {"Up", "Down"} /\ ~k.ctrl -> Go(VerticalKey(e, k.key = "Up"))
          [] k.key = "Backspace" /\ k.ctrl -> Ask(e, "picker", <<>>)
          [] k.key = "Backspace" /\ ~k.ctrl -> Go(Typed(e, DeleteBack(e.line)))
          [] k.key = "Delete" /\ k.ctrl -> Go(Typed(e, KillWordBack(e.line)))
          [] k.key = "Tab" -> Ask(tabbed, "complete", <<>>)
          [] k.key = "Enter" -> IF NeedsContinuation(e.line.buf) THEN Go(Typed(e, Insert(e.line, <<"\n">>)))
                                ELSE Ask(e, "submit", e.line.buf)
          [] IsText(k) -> Go(Typed(e, IF k.char = " " THEN TryAliasExpand(text) ELSE text))
          [] OTHER -> Go([e EXCEPT !.line = LineKey(@, k)])
-----------------------------------------------------------------------------
\* Completion: the line shows the selected candidate in place of the word of the
\* base line; typing edits the base line and asks again.
Show(e, state, base, mode) ==
    [Go([e EXCEPT !.line = Preview(@, state, base), !.mode = mode])
        EXCEPT !.offer = IF state.selected >= Len(state.comp) THEN NoOffer
                         ELSE [entry |-> state.comp[state.selected + 1],
                               word |-> From(Before(base), FindCompWordStart(Before(base)) + 1)]]
Menu(state, base) == [name |-> "completion", state |-> state, base |-> base]
Refilter(e, state, base, selected) ==
    LET first == selected = -1
        chosen == [state EXCEPT !.selected =
                        CASE first -> IF Len(state.comp) = 1 THEN 0 ELSE Unselected
                          [] selected = Unselected -> Unselected
                          [] ~first /\ selected # Unselected -> Min({selected, Len(state.comp) - 1})]
    IN  IF state.comp = <<>> THEN Go([e EXCEPT !.line = base, !.mode = Normal])
        ELSE Show(e, chosen, base, IF first /\ Len(state.comp) = 1 THEN Normal ELSE Menu(chosen, base))
Navigate(e, m, sel) ==
    LET state == [m.state EXCEPT !.selected = IF m.state.rows = 0 THEN @ ELSE sel]
    IN  Show(e, state, m.base, Menu(state, m.base))
CompletionKey(e, k) ==
    LET m == e.mode
        s == m.state.selected
        rows == m.state.rows
        n == Len(m.state.comp)
        typed == IF k.key = "Backspace" THEN DeleteBack(m.base) ELSE Insert(m.base, <<k.char>>)
        cancel == Go([e EXCEPT !.line = m.base, !.mode = Normal])
    IN  CASE k.key = "Up" -> Navigate(e, m, MoveUp(s, rows, n))
          [] k.key \in {"Down", "Tab"} -> Navigate(e, m, MoveDown(s, rows, n))
          [] k.key = "Left" -> Navigate(e, m, MoveColumnLeft(s, rows, n))
          [] k.key = "Right" -> Navigate(e, m, MoveColumnRight(s, rows, n))
          [] k.key = "Enter" -> Show(e, m.state, m.base, Normal)
          [] IsText(k) \/ (k.key = "Backspace" /\ m.base.cursor > 0) ->
                Refilter(e, StartCompletion(typed, e.cols), typed, s)
          [] OTHER -> cancel
-----------------------------------------------------------------------------
\* History search: a query of its own, with the line it started from kept aside.
StartHistorySearch(e, k) ==
    LET m == [name |-> "search", query |-> EmptyLine, matches |-> <<>>, candidates |-> <<>>,
              stack |-> <<>>, selected |-> 0, saved |-> e.line.buf]
    IN  [e EXCEPT !.saved = e.line.buf,
                  !.mode = Searched(m, EmptyLine, SearchEntryIndices(k), FALSE, <<>>)]
QueryKey(q, k) ==
    CASE k.key = "Backspace" -> DeleteBack(q)
      [] (k.key = "Delete" /\ k.ctrl) \/ IsAlt(k, "d") \/ IsCtrl(k, "w") -> KillWordBack(q)
      [] (k.key = "Delete" /\ ~k.ctrl) \/ IsCtrl(k, "d") -> DeleteForward(q)
      [] IsCtrl(k, "u") -> KillToStart(q)
      [] IsCtrl(k, "k") -> KillToEnd(q)
      [] IsCtrl(k, "y") -> Yank(q)
      [] IsText(k) -> Insert(q, <<k.char>>)
QueryEdits(k) == \/ k.key \in {"Backspace", "Delete"} \/ IsAlt(k, "d") \/ IsText(k)
                 \/ \E c \in {"w", "d", "u", "k", "y"} : IsCtrl(k, c)
QueryMove(q, k) ==
    CASE IsAlt(k, "b") \/ (k.key = "Left" /\ k.ctrl) -> MoveWordLeft(q)
      [] IsAlt(k, "f") \/ (k.key = "Right" /\ k.ctrl) -> MoveWordRight(q)
      [] k.key = "Left" /\ ~k.ctrl -> MoveLeft(q)
      [] k.key = "Right" /\ ~k.ctrl -> MoveRight(q)
      [] k.key = "Home" \/ IsCtrl(k, "a") -> MoveHome(q)
      [] k.key = "End" \/ IsCtrl(k, "e") -> MoveEnd(q)
      [] OTHER -> q
SearchKey(e, k) ==
    LET m == e.mode
        Leave(text) == Go([e EXCEPT !.line = Set(@, text), !.mode = Normal])
        Stay(mode) == Go([e EXCEPT !.mode = mode])
    IN  CASE k.key = "Escape" \/ IsCtrl(k, "c") -> Leave(m.saved)
          [] k.key = "Enter" -> Leave(IF m.selected < Len(m.matches) THEN Entries[m.matches[m.selected + 1]]
                                      ELSE m.saved)
          [] k.key = "Up" -> Stay([m EXCEPT !.selected = IF @ > 0 THEN @ - 1 ELSE @])
          [] k.key = "Down" \/ IsCtrl(k, "n") ->
                Stay([m EXCEPT !.selected = IF @ + 1 < Len(m.matches) THEN @ + 1 ELSE @])
          [] QueryEdits(k) -> Stay(UpdateHistorySearch(m, QueryKey(m.query, k), known))
          [] OTHER -> Stay([m EXCEPT !.query = QueryMove(@, k)])
-----------------------------------------------------------------------------
\* The directory picker: the recent directories, newest first, without this one.
StartDirPicker(e) ==
    LET entries == Reverse(SelectSeq(DirStack, LAMBDA d : d # cwd))
    IN  IF entries = <<>> THEN e ELSE [e EXCEPT !.mode = [name |-> "picker", entries |-> entries, selected |-> 0]]
PickerKey(e, k) ==
    LET m == e.mode
        closed == [e EXCEPT !.mode = Normal]
    IN  CASE k.key = "Enter" -> Ask(closed, "chdir", m.entries[m.selected + 1])
          [] k.key = "Escape" \/ IsCtrl(k, "c") -> Go(closed)
          [] k.key = "Up" /\ m.selected > 0 -> Go([e EXCEPT !.mode.selected = @ - 1])
          [] k.key = "Down" /\ m.selected + 1 < Len(m.entries) -> Go([e EXCEPT !.mode.selected = @ + 1])
          [] OTHER -> Go(e)
-----------------------------------------------------------------------------
\* Editor::handle.
Pasted(e, text) ==
    LET base == Insert(e.mode.base, text)
    IN  CASE e.mode.name = "completion" ->
                Refilter(e, StartCompletion(base, e.cols), base, e.mode.state.selected)
          [] e.mode.name = "picker" -> Go(e)
          [] e.mode.name = "search" ->
                Go([e EXCEPT !.grid = -1, !.mode = UpdateHistorySearch(@, Insert(@.query, text), known)])
          [] e.mode.name = "normal" -> Go([e EXCEPT !.grid = -1, !.line = Insert(@, text)])
Resized(e, cols) ==
    [e EXCEPT !.cols = cols, !.grid = -1,
              !.mode = IF @.name # "completion" THEN @
                       ELSE [@ EXCEPT !.state.rows = GridRows(e.mode.state.comp, cols),
                                      !.state.selected = IF @ = Unselected THEN @
                                                         ELSE Min({@, Len(e.mode.state.comp) - 1})]]
HandleKey(e, k) ==
    CASE IsCtrl(k, "p") -> Ask(e, "dump", <<>>)
      [] ~IsCtrl(k, "p") /\ e.mode.name = "normal" -> NormalKey(e, k)
      [] ~IsCtrl(k, "p") /\ e.mode.name = "completion" -> CompletionKey(e, k)
      [] ~IsCtrl(k, "p") /\ e.mode.name = "search" -> SearchKey(e, k)
      [] ~IsCtrl(k, "p") /\ e.mode.name = "picker" -> PickerKey(e, k)
Handle(e, event) ==
    CASE event.kind = "resize" -> Go(Resized(e, event.cols))
      [] event.kind = "rejected" -> Go([e EXCEPT !.grid = -1])
      [] event.kind = "paste" -> Pasted(e, event.text)
      [] event.kind = "key" -> HandleKey(e, event)

\* read_line's loop: a signal becomes an event, and the editor's request is
\* carried out.  The terminal's death shows when the editor's output is flushed.
EventsOf(e) ==
    CASE e.kind # "signal" -> {e}
      [] e.kind = "signal" /\ e.signal = "INT" -> {CharKey("c", TRUE, FALSE)}
      [] e.kind = "signal" /\ e.signal = "WINCH" -> {[kind |-> "resize", cols |-> c] : c \in left.widths}
      [] OTHER -> {}
Resume(r) == ReadEvent([r EXCEPT !.event = NoEvent])
Closed(r) == [Idle(r) EXCEPT !.pc = "closed", !.event = NoEvent]
Act(h) ==
    \/ /\ h.act \in {"continue", "dump"}
       /\ ed' = h.ed /\ offer' = h.offer /\ rd' = Resume(rd) /\ UNCHANGED <<cwd, known>>
    \/ /\ h.act = "complete"
       /\ LET c == Refilter(h.ed, StartCompletion(h.ed.line, h.ed.cols), h.ed.line, -1)
          IN  ed' = c.ed /\ offer' = c.offer
       /\ rd' = Resume(rd) /\ UNCHANGED <<cwd, known>>
    \/ /\ h.act = "search"
       /\ \E k \in {known} \cup left.synced : known' = k /\ ed' = StartHistorySearch(h.ed, k)
       /\ offer' = NoOffer /\ rd' = Resume(rd) /\ UNCHANGED cwd
    \/ /\ h.act = "picker"
       /\ ed' = StartDirPicker(h.ed) /\ offer' = NoOffer /\ rd' = Resume(rd) /\ UNCHANGED <<cwd, known>>
    \/ /\ h.act = "chdir"
       /\ cwd' \in {cwd, h.arg}
       /\ ed' = h.ed /\ offer' = NoOffer /\ rd' = Resume(rd) /\ UNCHANGED known
    \/ /\ h.act \in {"submit", "cancel", "exit"}
       /\ ed' = h.ed /\ offer' = NoOffer /\ rd' = Closed(rd) /\ UNCHANGED <<cwd, known>>
Coming == CASE rd.pc = "event" -> {rd.event}
            [] rd.pc = "poll" /\ left.presses > 0 -> left.keys
            [] OTHER -> {}
Meant(e) == owed # <<>> /\ Head(owed) = e
\* An event is handled: the reader's, or a key of a setup in which whole keys come.
HandleEvent ==
    /\ ~ended
    /\ \E e \in Coming : \E event \in EventsOf(e) :
        LET h == Handle(ed, event)
            counted == rd.pc = "event" /\ e.kind # "signal" /\ ~hung
        IN  /\ Act(h)
            /\ owed' = IF counted /\ Meant(e) THEN Tail(owed) ELSE owed
            /\ surprise' = (surprise \/ (counted /\ ~Meant(e)))
            /\ ended' = (hung \/ h.act = "exit")
            /\ left' = IF rd.pc = "event" THEN left ELSE [left EXCEPT !.presses = @ - 1]
    /\ UNCHANGED <<wire, queue, hung, signals>>
\* SIGTERM and SIGHUP end the shell.
Terminated ==
    /\ ~ended /\ rd.pc = "event" /\ rd.event.kind = "signal" /\ rd.event.signal \in {"TERM", "HUP"}
    /\ ended' = TRUE /\ rd' = Closed(rd)
    /\ UNCHANGED <<wire, queue, hung, signals, cwd, ed, known, left, owed, surprise, offer>>
\* The next prompt.
Begin ==
    /\ ~ended /\ rd.pc = "closed" /\ left.lines > 0
    /\ IF hung THEN ended' = TRUE /\ UNCHANGED <<rd, ed>>
       ELSE /\ ed' = NewEditor(ed.cols) /\ rd' = ReadEvent(rd) /\ UNCHANGED ended
    /\ left' = [left EXCEPT !.lines = @ - 1]
    /\ UNCHANGED <<wire, queue, hung, signals, cwd, known, owed, surprise, offer>>
\* Between prompts a captured command's relay may have taken bytes that the
\* command did not read; they come back as pending input.
GiveTerminalTail ==
    /\ ~ended /\ rd.pc = "closed" /\ left.relays > 0 /\ queue # <<>>
    /\ rd' = [rd EXCEPT !.pending = @ \o queue] /\ queue' = <<>>
    /\ left' = [left EXCEPT !.relays = @ - 1]
    /\ UNCHANGED <<wire, hung, signals, cwd, ed, known, ended, owed, surprise, offer>>

\* The user and the world.
Type ==
    /\ ~ended /\ ~hung /\ left.typing > 0
    /\ \E u \in left.units : wire' = wire \o u.bytes /\ owed' = owed \o u.events
    /\ left' = [left EXCEPT !.typing = @ - 1]
    /\ UNCHANGED <<queue, hung, signals, rd, cwd, ed, known, ended, surprise, offer>>
Raise ==
    /\ ~ended
    /\ \E s \in left.signals : signals' = signals \cup {s} /\ left' = [left EXCEPT !.signals = @ \ {s}]
    /\ UNCHANGED <<wire, queue, hung, rd, cwd, ed, known, ended, owed, surprise, offer>>
editorVars == <<cwd, ed, known, ended, owed, surprise, offer>>
Read == ~ended /\ ReaderStep /\ UNCHANGED <<editorVars, left>>
Terminal == ~ended /\ (Arrive \/ Pass) /\ UNCHANGED <<editorVars, left>>
Lose == ~ended /\ left.hang /\ HangUp /\ left' = [left EXCEPT !.hang = FALSE] /\ UNCHANGED editorVars

Init ==
    \E s \in Setups :
        /\ left = s.left
        /\ known = s.known /\ cwd = s.cwd /\ ed = NewEditor(s.cols)
        /\ wire = <<>> /\ queue = <<>> /\ hung = FALSE /\ signals = {} /\ rd = NewReader
        /\ ended = FALSE /\ owed = <<>> /\ surprise = FALSE /\ offer = NoOffer
Next == HandleEvent \/ Terminated \/ Begin \/ GiveTerminalTail \/ Type \/ Raise \/ Read \/ Terminal \/ Lose
Progress == (rd.pc = "event" /\ HandleEvent) \/ Terminated \/ Begin \/ Read \/ Terminal
Spec == Init /\ [][Next]_vars /\ WF_vars(Progress)
-----------------------------------------------------------------------------
\* The properties.

\* Keys and pastes are handled exactly once, whole and in the order typed,
\* however the terminal cuts them into reads, whatever signals and resizes come
\* between them, and whether they waited in the reader's buffer or in the tail
\* of a captured command while a command ran (input.rs read_event, read_byte,
\* skip_paste_remainder; shell.rs give_terminal_tail).
Drained == /\ wire = <<>> /\ queue = <<>> /\ ~Buffered(rd) /\ rd.partial = <<>>
           /\ rd.pc = "poll" /\ ~rd.in_paste
EventsExact == ~surprise /\ (Drained /\ ~hung => owed = <<>>)

\* While the history is searched, the matches shown are those that a search of
\* the whole history for the query would find, although the code narrows and
\* widens the candidates of earlier queries; and the selection is one of them
\* (editor.rs update_history_search).
SearchExact ==
    ed.mode.name = "search" =>
        /\ ed.mode.matches = SearchLimited(ed.mode.query.buf, SearchEntryIndices(known)).results
        /\ ed.mode.selected < Len(ed.mode.matches) \/ ed.mode.selected = 0

\* The words of a command as the shell reads them: quotes removed, a leading ~/
\* the home directory's; "open" when a quote or a backslash is not closed.
RECURSIVE ShellWord(_, _, _)
ShellWord(s, q, w) ==
    IF s = <<>> THEN IF q = "" THEN w ELSE <<"open">>
    ELSE LET c == Head(s)
         IN  CASE q = "\\" -> ShellWord(Tail(s), "", Append(w, c))
               [] q = "'" -> IF c = "'" THEN ShellWord(Tail(s), "", w) ELSE ShellWord(Tail(s), q, Append(w, c))
               [] q = "\"" -> IF c = "\"" THEN ShellWord(Tail(s), "", w) ELSE ShellWord(Tail(s), q, Append(w, c))
               [] q = "" /\ c \in {"\\", "'", "\""} -> ShellWord(Tail(s), c, w)
               [] q = "" /\ c \in Blanks -> ShellWord(Tail(s), "", <<>>)
               [] q = "" /\ c \notin Blanks \cup {"\\", "'", "\""} -> ShellWord(Tail(s), "", Append(w, c))
LastShellWord(s) == LET w == ShellWord(s, "", <<>>)
                    IN  IF StartsWith(w, Tilde) THEN Home \o Tail(w) ELSE w
Exists(path, kind) ==
    /\ DirectoryPart(path) \in DOMAIN Here
    /\ \E e \in Range(Here[DirectoryPart(path)]) : e.name = PrefixPart(path) /\ e.kind = kind
DenotesOffer(w, e) ==
    CASE e.kind = "dir" -> EndsWith(w, <<"/">>) /\ EndsWith(Front(w), PrefixPart(e.name)) /\ Exists(Front(w), "dir")
      [] e.kind = "file" -> EndsWith(w, PrefixPart(e.name)) /\ Exists(w, "file")
      [] e.kind = "host" -> w = e.name \o <<":">>
      [] e.kind = "exec" -> w = e.name
\* What completion puts in the line is one closed shell word that denotes the
\* entry shown: an existing file or directory of that name, a host or a command,
\* whatever quotes were typed, whichever directory was named in full, by
\* abbreviation or from home, and whatever the name holds (complete.rs,
\* editor.rs start_completion and preview_completion).  The word "~" alone is
\* excepted: its entries are put in the line without the directory.
CompletionDenotes ==
    offer # NoOffer /\ offer.word # <<"~">> => DenotesOffer(LastShellWord(Before(ed.line)), offer.entry)

\* A terminal that goes away ends the shell, a termination signal ends it, and
\* everything typed is handled in the end - unless the reader has stopped
\* looking at its own buffer: after a sequence that is no key it waits for new
\* input, and an end marker half in the buffer waits for a readable terminal
\* (shell.rs read_line_with_reader, input.rs read_event).
Over == ended \/ (rd.pc = "closed" /\ left.lines = 0)
Stalled == \/ rd.pc = "poll" /\ Buffered(rd)
           \/ SkipPolls /\ rd.pending # <<>> /\ queue = <<>>
LineEnds ==
    /\ hung ~> Over
    /\ "TERM" \in signals ~> Over
    /\ <>[](Over \/ owed = <<>> \/ Stalled)
=============================================================================
