------------------------------ MODULE MCDirEnv ------------------------------
\* Two shells, two nested projects p and p/q, one variable.
EXTENDS DirEnv

CONSTANTS s1, s2

MCProcesses(s) == IF s = s1 THEN {<<1, "host">>} ELSE {<<1, "host">>, <<2, "host">>, <<2, "container">>}
MCPathUp == [d \in {"home", "p", "q"} |->
                CASE d = "home" -> <<"home">> [] d = "p" -> <<"p">> [] OTHER -> <<"q", "p">>]
MCSlots == {<<"p", "envrc">>, <<"p", "dotenv">>, <<"q", "envrc">>}
MCBodies(k) == IF k = "envrc" THEN {"sets", "unsets"} ELSE {"entry", "binary"}
MCIsText(b) == b # "binary"
MCUsesBash(b) == b = "unsets"
MCEffect(b) == [n \in {"x"} |->
                CASE b = "sets" -> "1" [] b = "unsets" -> Drop [] OTHER -> "2"]
P == <<"p", "envrc">>
Q == <<"q", "envrc">>
D == <<"p", "dotenv">>
One == [body |-> P :> "sets" @@ D :> None @@ Q :> "unsets",
        legacy |-> P :> "sets" @@ D :> "entry" @@ Q :> None]
Two == [body |-> P :> "sets" @@ D :> "entry" @@ Q :> "unsets",
        legacy |-> P :> "unsets" @@ D :> "entry" @@ Q :> "unsets"]
New == [body |-> P :> "sets" @@ D :> None @@ Q :> None,
        legacy |-> P :> None @@ D :> None @@ Q :> None]
With(setup, c, e, f, starts, stepwise) ==
    [body |-> setup.body, legacy |-> setup.legacy,
     left |-> [may |-> {"cd", "reload", "assign", "allow", "deny"}, commands |-> c, edits |-> e, faults |-> f, starts |-> starts, stepwise |-> stepwise]]
Deciding(setup) == [setup EXCEPT !.left.may = {"reload", "allow", "deny"}]
Anywhere(shells) ==
    UNION {{s} \X MCProcesses(s) \X {"home", "p", "q"} : s \in shells}
Together == {<<s1, <<1, "host">>, "p">>, <<s2, <<2, "host">>, "p">>}
\* One shell and the environment interfering; two shells that start in one
\* project and decide at once, about one new file with an edit between or a
\* fault, or about an entry of the legacy kind; two shells with records of their
\* own and a fault; and one shell with its evaluations in detail.
MCSetups ==
    {With(One, 3, 1, 0, Anywhere({s1}), {}), With(One, 3, 0, 1, Anywhere({s1}), {}),
     With(One, 2, 1, 1, Anywhere({s1}), {}),
     Deciding(With(New, 2, 1, 0, Together, {})), Deciding(With(New, 2, 0, 1, Together, {})),
     Deciding(With(One, 2, 0, 0, Together, {})), Deciding(With(New, 3, 0, 0, Together, {})),
     With(Two, 0, 0, 1, Anywhere({s1, s2}), {}),
     With(Two, 1, 0, 0, Anywhere({s1}), {s1})}
=============================================================================
