---------------------------- MODULE InputReader ----------------------------
\* The terminal's bytes become keys and pastes (src/src/input.rs).  A byte is
\* named by its character, or by a word when it has none ("esc", "cr", "lead2").
\* What the user types goes down the wire and reaches the terminal's queue in
\* pieces; a "pause" on the wire is a gap longer than the reader's 50 ms wait.
EXTENDS Naturals, Sequences, SequencesExt

CONSTANTS ReadBufSize, PasteLimit, MaxDigits

VARIABLES
    wire,      \* bytes typed that the terminal does not have yet
    queue,     \* bytes the terminal holds for the shell
    hung,      \* the terminal is gone
    signals,   \* signals caught and not yet read from the signal pipe
    rd         \* the reader: its buffers, paste state and place in read_event

readerVars == <<wire, queue, hung, signals, rd>>

Key(k, ctrl, alt) == [kind |-> "key", key |-> k, char |-> "", ctrl |-> ctrl, alt |-> alt]
CharKey(c, ctrl, alt) == [Key("Char", ctrl, alt) EXCEPT !.char = c]
Plain(k) == Key(k, FALSE, FALSE)
PasteEvent(text) == [kind |-> "paste", text |-> text]
PasteRejected == [kind |-> "rejected"]
SignalEvent(s) == [kind |-> "signal", signal |-> s]
NoEvent == [kind |-> "none"]
More == [kind |-> "more"]

Digit == [c \in {"0", "1", "2", "3", "4", "5", "6", "7", "8", "9"} |->
            CHOOSE n \in 0..9 : <<"0", "1", "2", "3", "4", "5", "6", "7", "8", "9">>[n + 1] = c]
ControlKey == [b \in {"^a", "^c", "^d", "^e", "^k", "^l", "^n", "^p", "^r", "^u", "^w", "^y"} |->
    CASE b = "^a" -> "a" [] b = "^c" -> "c" [] b = "^d" -> "d" [] b = "^e" -> "e"
      [] b = "^k" -> "k" [] b = "^l" -> "l" [] b = "^n" -> "n" [] b = "^p" -> "p"
      [] b = "^r" -> "r" [] b = "^u" -> "u" [] b = "^w" -> "w" [] OTHER -> "y"]
ArrowKey == [b \in {"A", "B", "C", "D", "H", "F"} |->
    CASE b = "A" -> "Up" [] b = "B" -> "Down" [] b = "C" -> "Right" [] b = "D" -> "Left"
      [] b = "H" -> "Home" [] OTHER -> "End"]
NonPrinting == {"esc", "cr", "lf", "tab", "bs", "del", "nul", "lead2", "lead3", "cont"} \cup DOMAIN ControlKey
PasteStart == <<"esc", "[", "2", "0", "0", "~">>
PasteEnd == <<"esc", "[", "2", "0", "1", "~">>

\* A parameter of a control sequence, and the modifiers its value encodes.
Number[ds \in Seq(DOMAIN Digit)] == IF ds = <<>> THEN 0 ELSE Number[Front(ds)] * 10 + Digit[Last(ds)]
Param(body, k) ==
    LET cuts == {0, Len(body) + 1} \cup {i \in DOMAIN body : body[i] = ";"}
        Nth(n) == CHOOSE i \in cuts : Cardinality({j \in cuts : j < i}) = n - 1
    IN  IF Cardinality(cuts) <= k THEN <<>> ELSE SubSeq(body, Nth(k) + 1, Nth(k + 1) - 1)
Modified(k, body) ==
    LET value == Number[Param(body, 2)]
        bits == IF value = 0 THEN 0 ELSE value - 1
    IN  Key(k, (bits \div 4) % 2 = 1, (bits \div 2) % 2 = 1)
CsiToKey(final, body) ==
    LET first == Number[Param(body, 1)]
    IN  CASE final \in DOMAIN ArrowKey -> Modified(ArrowKey[final], body)
          [] final = "Z" -> Plain("Tab")
          [] final = "~" /\ first \in {1, 7} -> Modified("Home", body)
          [] final = "~" /\ first = 3 -> Modified("Delete", body)
          [] final = "~" /\ first \in {4, 8} -> Modified("End", body)
          [] final = "~" /\ first = 200 -> [kind |-> "begin"]
          [] final = "~" /\ first = 201 -> [kind |-> "end"]
          [] final = "^" /\ first = 3 -> Key("Delete", TRUE, FALSE)
          [] OTHER -> NoEvent
DecodeCsi(p) ==
    LET b == Last(p)
        body == SubSeq(p, 3, Len(p) - 1)
    IN  CASE b \in DOMAIN Digit \cup {";"} -> More
          [] b \in NonPrinting -> NoEvent
          [] OTHER -> IF Len(Param(body, 1)) > MaxDigits \/ Len(Param(body, 2)) > MaxDigits
                      THEN NoEvent ELSE CsiToKey(b, body)
DecodeEscape(p) ==
    CASE Len(p) = 1 -> More
      [] Len(p) = 2 -> IF p[2] \in {"[", "O"} THEN More
                       ELSE IF p[2] \in NonPrinting THEN Plain("Escape") ELSE CharKey(p[2], FALSE, TRUE)
      [] Len(p) > 2 /\ p[2] = "[" -> DecodeCsi(p)
      [] Len(p) > 2 /\ p[2] = "O" -> IF p[3] \in DOMAIN ArrowKey THEN Plain(ArrowKey[p[3]]) ELSE NoEvent
DecodeUtf8(p) ==
    LET size == IF p[1] = "lead2" THEN 2 ELSE 3
    IN  IF Len(p) > 1 /\ Last(p) # "cont" THEN NoEvent
        ELSE IF Len(p) < size THEN More
        ELSE CharKey(IF size = 2 THEN "e'" ELSE "W", FALSE, FALSE)
\* What the bytes p, the last of which has just been read, amount to.
DecodeKey(p) ==
    LET b == p[1]
    IN  CASE b = "esc" -> DecodeEscape(p)
          [] b \in {"lead2", "lead3"} -> DecodeUtf8(p)
          [] b \in {"nul", "cont"} -> NoEvent
          [] b = "bs" -> Key("Backspace", TRUE, FALSE)
          [] b = "tab" -> Plain("Tab")
          [] b \in {"cr", "lf"} -> Plain("Enter")
          [] b = "del" -> Plain("Backspace")
          [] b \in DOMAIN ControlKey -> CharKey(ControlKey[b], TRUE, FALSE)
          [] b \notin NonPrinting -> CharKey(b, FALSE, FALSE)
\* No further byte came: a lone escape is the Escape key, the rest is dropped.
Undecoded(p) == IF p = <<"esc">> THEN Plain("Escape") ELSE NoEvent

PastedText(e) ==
    CASE e.key = "Char" /\ ~e.ctrl /\ ~e.alt -> <<e.char>>
      [] e.key = "Enter" -> <<"\n">>
      [] e.key = "Tab" -> <<"\t">>
      [] OTHER -> <<>>
AccumulatePasteKey(r, e) ==
    LET text == r.paste_buf \o PastedText(e)
    IN  IF Len(text) > PasteLimit THEN [r EXCEPT !.paste_buf = <<>>, !.limit_hit = TRUE]
        ELSE [r EXCEPT !.paste_buf = text]

NewReader == [pc |-> "closed", buf |-> <<>>, pending |-> <<>>, partial |-> <<>>, outer |-> FALSE,
              in_paste |-> FALSE, paste_buf |-> <<>>, limit_hit |-> FALSE, dead |-> FALSE,
              event |-> NoEvent]
Idle(r) == [r EXCEPT !.partial = <<>>, !.outer = FALSE]
Return(r, e) == [Idle(r) EXCEPT !.pc = "event", !.event = e]
Buffered(r) == r.buf # <<>> \/ r.pending # <<>>

\* read_event from the top of its loop, up to the next byte or system call.
AfterBuffered(r) ==
    IF ~r.in_paste /\ r.paste_buf # <<>>
    THEN Return([r EXCEPT !.paste_buf = <<>>, !.limit_hit = FALSE], PasteEvent(r.paste_buf))
    ELSE [Idle(r) EXCEPT !.pc = IF r.in_paste /\ r.limit_hit THEN "skip" ELSE "poll"]
ReadEvent(r) ==
    IF Buffered(r) /\ ~(r.in_paste /\ r.limit_hit) THEN [Idle(r) EXCEPT !.pc = "decode"]
    ELSE AfterBuffered(r)

\* decode_key returned: within a paste a key is text; the markers of a paste
\* and unknown sequences are no key.
MarkPaste(r, e) ==
    CASE e.kind = "begin" -> [r EXCEPT !.in_paste = TRUE, !.paste_buf = <<>>, !.limit_hit = FALSE]
      [] e.kind = "end" -> [r EXCEPT !.in_paste = FALSE]
      [] OTHER -> r
NoKey(r) ==
    CASE ~r.outer -> IF r.in_paste THEN ReadEvent(r) ELSE AfterBuffered(r)
      [] r.outer /\ ~r.in_paste /\ r.paste_buf # <<>> ->
            Return([r EXCEPT !.paste_buf = <<>>], PasteEvent(r.paste_buf))
      [] OTHER -> ReadEvent(r)
Decoded(r, e) ==
    IF e.kind # "key" THEN NoKey(MarkPaste(r, e))
    ELSE IF r.in_paste THEN ReadEvent(AccumulatePasteKey(r, e))
    ELSE Return(r, e)
-----------------------------------------------------------------------------
\* The reader's steps.

\* Mutant: what a captured command left is taken before what was read earlier.
TakePendingFirst ==
    LET b == IF rd.pending # <<>> THEN Head(rd.pending) ELSE Head(rd.buf)
        r == IF rd.pending # <<>> THEN [rd EXCEPT !.pending = Tail(@)] ELSE [rd EXCEPT !.buf = Tail(@)]
    IN  /\ rd.pc = "decode" /\ Buffered(rd)
        /\ \E p \in {Append(rd.partial, b)} : \E e \in {DecodeKey(p)} :
                rd' = IF e = More THEN [r EXCEPT !.partial = p] ELSE Decoded(r, e)
        /\ UNCHANGED <<wire, queue, hung, signals>>
\* read_byte: from the buffer, then from what a captured command left.
TakeByte ==
    LET b == IF rd.buf # <<>> THEN Head(rd.buf) ELSE Head(rd.pending)
        r == IF rd.buf # <<>> THEN [rd EXCEPT !.buf = Tail(@)] ELSE [rd EXCEPT !.pending = Tail(@)]
    IN  /\ rd.pc = "decode" /\ Buffered(rd)
        /\ \E p \in {Append(rd.partial, b)} : \E e \in {DecodeKey(p)} :
                rd' = IF e = More THEN [r EXCEPT !.partial = p] ELSE Decoded(r, e)
        /\ UNCHANGED <<wire, queue, hung, signals>>

Taken(n) == Min({n, Len(queue)})
\* fill_buf, and the end of file that shows the terminal is gone.
FillBuf ==
    /\ rd.pc = "decode" /\ ~Buffered(rd) /\ queue # <<>>
    /\ rd' = [rd EXCEPT !.buf = SubSeq(queue, 1, Taken(ReadBufSize))]
    /\ queue' = SubSeq(queue, Taken(ReadBufSize) + 1, Len(queue))
    /\ UNCHANGED <<wire, hung, signals>>
FillEnds ==
    /\ rd.pc = "decode" /\ ~Buffered(rd) /\ queue = <<>> /\ hung
    /\ rd' = Decoded([rd EXCEPT !.dead = TRUE], Undecoded(rd.partial))
    /\ UNCHANGED <<wire, queue, hung, signals>>
\* read_byte_timeout gives up waiting for the rest of a sequence.
Timeout ==
    /\ rd.pc = "decode" /\ ~Buffered(rd) /\ queue = <<>>
    /\ rd.partial # <<>> /\ rd.partial[1] = "esc"
    /\ wire # <<>> /\ Head(wire) = "pause"
    /\ wire' = Tail(wire)
    /\ rd' = Decoded(rd, Undecoded(rd.partial))
    /\ UNCHANGED <<queue, hung, signals>>

\* poll(-1): a terminal known to be gone comes first, then a signal, then input.
PollSignal ==
    /\ rd.pc = "poll" /\ ~rd.dead
    /\ \E s \in signals : rd' = Return(rd, SignalEvent(s)) /\ signals' = signals \ {s}
    /\ UNCHANGED <<wire, queue, hung>>
PollInput ==
    /\ rd.pc = "poll" /\ ~rd.dead /\ signals = {} /\ (queue # <<>> \/ hung)
    /\ rd' = [rd EXCEPT !.pc = "decode", !.outer = TRUE]
    /\ UNCHANGED <<wire, queue, hung, signals>>
PollHangup ==
    /\ rd.pc = "poll"
    /\ \/ rd.dead
       \/ signals = {} /\ queue = <<>> /\ hung
    /\ rd' = Return(rd, CharKey("d", TRUE, FALSE))
    /\ UNCHANGED <<wire, queue, hung, signals>>

\* skip_paste_remainder: bytes are thrown away until the end marker.
Skipped(r) == Return([r EXCEPT !.in_paste = FALSE, !.limit_hit = FALSE], PasteRejected)
EscapeAt == Min({Len(rd.buf) + 1} \cup {i \in DOMAIN rd.buf : rd.buf[i] = "esc"})
Tailing == SubSeq(rd.buf, EscapeAt, Len(rd.buf))
SkipBuffered ==
    /\ rd.pc = "skip" /\ rd.buf # <<>>
    /\ Tailing = <<>> \/ Len(Tailing) >= Len(PasteEnd)
    /\ rd' = CASE Tailing = <<>> -> [rd EXCEPT !.buf = <<>>]
               [] Tailing # <<>> /\ IsPrefix(PasteEnd, Tailing) ->
                    Skipped([rd EXCEPT !.buf = SubSeq(Tailing, Len(PasteEnd) + 1, Len(Tailing))])
               [] OTHER -> [rd EXCEPT !.buf = Tail(Tailing)]
    /\ UNCHANGED <<wire, queue, hung, signals>>
\* Nothing left to look at, or the beginning of what may be the marker.
Starved == rd.pc = "skip" /\ Len(Tailing) < Len(PasteEnd) /\ (rd.buf # <<>> => Tailing # <<>>)
Room == ReadBufSize - Len(Tailing)
ShiftPending ==
    LET n == Min({Room, Len(rd.pending)})
    IN  [rd EXCEPT !.buf = Tailing \o SubSeq(rd.pending, 1, n),
                   !.pending = SubSeq(@, n + 1, Len(@))]
SkipPending ==
    /\ Starved /\ rd.buf = <<>> /\ rd.pending # <<>>
    /\ rd' = ShiftPending
    /\ UNCHANGED <<wire, queue, hung, signals>>
SkipPolls == Starved /\ ~(rd.buf = <<>> /\ rd.pending # <<>>)
SkipSignal ==
    /\ SkipPolls /\ ~rd.dead
    /\ \E s \in signals : rd' = Return([rd EXCEPT !.buf = Tailing], SignalEvent(s)) /\ signals' = signals \ {s}
    /\ UNCHANGED <<wire, queue, hung>>
SkipInput ==
    /\ SkipPolls /\ ~rd.dead /\ signals = {} /\ queue # <<>>
    /\ IF rd.pending # <<>> THEN rd' = ShiftPending /\ UNCHANGED queue
       ELSE /\ rd' = [rd EXCEPT !.buf = Tailing \o SubSeq(queue, 1, Taken(Room))]
            /\ queue' = SubSeq(queue, Taken(Room) + 1, Len(queue))
    /\ UNCHANGED <<wire, hung, signals>>
\* Mutant: the end of input is not an end of the paste, so the drain polls again.
SkipHangupRetries ==
    /\ SkipPolls /\ rd.dead
    /\ rd' = Skipped([rd EXCEPT !.buf = Tailing])
    /\ UNCHANGED <<wire, queue, hung, signals>>
SkipHangup ==
    /\ SkipPolls
    /\ \/ rd.dead
       \/ signals = {} /\ queue = <<>> /\ hung
    /\ \E end \in {rd.dead, rd.dead \/ rd.buf = <<>>} :
        rd' = Skipped([rd EXCEPT !.buf = Tailing, !.dead = end])
    /\ UNCHANGED <<wire, queue, hung, signals>>

ReaderStep == \/ TakeByte \/ FillBuf \/ FillEnds \/ Timeout
              \/ PollSignal \/ PollInput \/ PollHangup
              \/ SkipBuffered \/ SkipPending \/ SkipSignal \/ SkipInput \/ SkipHangup
-----------------------------------------------------------------------------
\* The terminal: some of the bytes on the wire reach it; a pause passes while
\* the reader waits without a limit.
Arrive ==
    /\ ~hung
    /\ \E n \in DOMAIN wire :
        /\ \A i \in 1..n : wire[i] # "pause"
        /\ queue' = queue \o SubSeq(wire, 1, n)
        /\ wire' = SubSeq(wire, n + 1, Len(wire))
    /\ UNCHANGED <<hung, signals, rd>>
Pass ==
    /\ wire # <<>> /\ Head(wire) = "pause" /\ queue = <<>>
    /\ rd.pc \in {"poll", "closed"}
    /\ wire' = Tail(wire)
    /\ UNCHANGED <<queue, hung, signals, rd>>
HangUp ==
    /\ ~hung
    /\ hung' = TRUE /\ wire' = <<>>
    /\ \E s \in SUBSET {"HUP"} : signals' = signals \cup s
    /\ UNCHANGED <<queue, rd>>
=============================================================================
