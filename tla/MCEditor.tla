------------------------------ MODULE MCEditor ------------------------------
\* A terminal, a history and a few directories small enough to check: reads of
\* at most six bytes, pastes of at most two characters, a handful of keys.
EXTENDS Editor

MCWideChars == {"W"}
File(name) == [name |-> name, kind |-> "file"]
Dir(name) == [name |-> name, kind |-> "dir"]
MCHome == <<"/", "h">>
\* At home: "a b/" holding "it's" and "x", and "ab"; from "w" nothing but "a".
AtHome == (<<>> :> <<Dir(<<"a", " ", "b">>), File(<<"a", "b">>)>>)
       @@ (<<"a", " ", "b", "/">> :> <<File(<<"i", "'", "s">>), File(<<"x">>)>>)
       @@ (<<"/", "h", "/">> :> <<Dir(<<"a", " ", "b">>), File(<<"a", "b">>)>>)
       @@ (<<"/", "h", "/", "a", " ", "b", "/">> :> <<File(<<"i", "'", "s">>), File(<<"x">>)>>)
AtWork == (<<>> :> <<File(<<"a">>)>>)
       @@ (<<"/", "h", "/">> :> <<Dir(<<"a", " ", "b">>), File(<<"a", "b">>)>>)
       @@ (<<"/", "h", "/", "a", " ", "b", "/">> :> <<File(<<"i", "'", "s">>), File(<<"x">>)>>)
MCListing == [d \in {"home", "work"} |-> IF d = "home" THEN AtHome ELSE AtWork]
MCCommands == {<<"a", "x">>, <<"s">>}
MCHosts == {<<"b", "o", "x">>, <<"a", "z">>}
MCCdWord == <<"c", "d">>
MCSshWords == {<<"s">>}
MCSudoWords == {<<"u">>}
MCCharOrder == [c \in {" ", "'", "/", "a", "b", "d", "h", "i", "o", "s", "x", "z", "c"} |->
    CHOOSE n \in 1..13 : <<" ", "'", "/", "a", "b", "c", "d", "h", "i", "o", "s", "x", "z">>[n] = c]
MCEntries == << <<"b", "a">>, <<"a", " ", "b">>, <<"a">>, <<"b">> >>
MCSession == << <<"a", " ", "b">>, <<"a", "b", "a", "b", "a">>, <<"b">> >>
MCAliases == (<<"s">> :> <<"a", "x">>)
MCDirStack == <<"home", "work">>

Ctl(c) == CharKey(c, TRUE, FALSE)
Alt(c) == CharKey(c, FALSE, TRUE)
Chr(c) == CharKey(c, FALSE, FALSE)
Unit(bytes, events) == [bytes |-> bytes, events |-> events]
Quiet == [keys |-> {}, presses |-> 0, units |-> {}, typing |-> 0, signals |-> {}, widths |-> {3},
          synced |-> {}, lines |-> 1, relays |-> 0, hang |-> FALSE]
Setup(limits) == [left |-> limits, known |-> 3, cwd |-> "home", cols |-> 8]
Direct(keys, n) == Setup([Quiet EXCEPT !.keys = keys, !.presses = n])
Byte(c) == Unit(<<c>>, <<Chr(c)>>)
PasteOf(bytes, events) == Unit(PasteStart \o bytes \o PasteEnd, events)
Oversize == PasteOf(<<"a", "a", "b", "b">>, <<PasteRejected>>)

MCSetups ==
    { \* keys of several bytes, cut anywhere, with a resize between them
      Setup([Quiet EXCEPT !.units = {Byte("a"), Unit(<<"esc", "[", "A">>, <<Plain("Up")>>),
                                     Unit(<<"esc", "[", "1", ";", "5", "C">>, <<Key("Right", TRUE, FALSE)>>),
                                     Unit(<<"esc", "b">>, <<Alt("b")>>),
                                     Unit(<<"lead3", "cont", "cont">>, <<Chr("W")>>),
                                     Unit(<<"esc", "pause">>, <<Plain("Escape")>>)},
                          !.typing = 2, !.signals = {"WINCH"}]),
      \* sequences that are no key
      Setup([Quiet EXCEPT !.units = {Byte("a"), Unit(<<"esc", "[", "5", "~">>, <<>>), Unit(<<"nul">>, <<>>),
                                     Unit(<<"lead2", "cont">>, <<Chr("e'")>>),
                                     Unit(<<"esc", "O", "P">>, <<>>), PasteOf(<<>>, <<>>)},
                          !.typing = 2, !.signals = {"INT"}]),
      \* typing ahead of the prompt, with a captured command in between
      Setup([Quiet EXCEPT !.units = {Byte("a"), Byte("b"), Unit(<<"cr">>, <<Plain("Enter")>>)},
                          !.typing = 4, !.lines = 2, !.relays = 1]),
      \* pastes, one of them too long
      Setup([Quiet EXCEPT !.units = {PasteOf(<<"cr", "tab">>, <<PasteEvent(<<"\n", "\t">>)>>), Oversize, Byte("a")},
                          !.typing = 2]),
      Setup([Quiet EXCEPT !.units = {Oversize, Unit(<<"cr">>, <<Plain("Enter")>>)},
                          !.typing = 2, !.lines = 2, !.relays = 1]),
      Setup([Quiet EXCEPT !.units = {Oversize}, !.typing = 1, !.signals = {"TERM"}, !.lines = 2,
                          !.relays = 1, !.hang = TRUE]),
      \* editing, movement on a wrapped line and between lines, recall
      Direct({PasteEvent(<<"a", "W", "b", " ", "a", "b">>), Plain("Up"), Plain("Down"), Plain("Left"),
              Key("Right", TRUE, FALSE), Ctl("w"), Ctl("y"), Chr("'"), Plain("Enter"), Ctl("a")}, 4),
      Direct({Chr("a"), Chr("b"), Plain("Up"), Plain("Down"), Plain("Backspace"), Plain("Right"), Ctl("k"), Ctl("u")}, 5),
      Direct({Chr("s"), Chr(" "), Ctl("d"), Alt("d"), Alt("f"), Plain("Home"), Plain("End"), Plain("Delete"), Key("Delete", TRUE, FALSE),
              Ctl("c"), Ctl("p"), Plain("Left")}, 3),
      \* completion
      Direct({PasteEvent(<<"x", " ">>), PasteEvent(<<"~", "/">>), PasteEvent(<<"'", "a", " ">>), Chr("a"),
              Chr("/"), Plain("Tab"), Plain("Down"), Plain("Enter"), Plain("Backspace")}, 5),
      Direct({PasteEvent(<<"s", " ">>), PasteEvent(<<"u", " ">>), PasteEvent(<<"a", "/">>), Chr("a"), Chr("~"),
              Plain("Tab"), Plain("Up"), Plain("Left"), Plain("Right"), Plain("Escape")}, 4),
      [Direct({PasteEvent(<<"x", " ", "~", "/", "a", "/">>), Plain("Tab"), Plain("Down"), Plain("Enter"), Chr("'"),
              Chr("i"), Key("Backspace", TRUE, FALSE)}, 5) EXCEPT !.cwd = "work"],
      \* history search
      Setup([Quiet EXCEPT !.keys = {Ctl("r"), Chr("a"), Chr("b"), Plain("Backspace"), Plain("Left"), Plain("Down"),
                                    Plain("Delete"), Ctl("y"), Ctl("w"), Plain("Enter")},
                          !.presses = 5, !.synced = {4}]),
      Direct({PasteEvent(<<"b", "a">>), Ctl("r"), Ctl("a"), Ctl("u"), Plain("Up"), Plain("Escape"), Ctl("n"), Ctl("d")}, 4),
      \* the directory picker
      Direct({Key("Backspace", TRUE, FALSE), Plain("Up"), Plain("Down"), Plain("Enter"), Plain("Escape"), Chr("a"), Plain("Tab")}, 4) }
=============================================================================
