------------------------------- MODULE MCEpsh -------------------------------
(***************************************************************************)
(* Sessions of epsh for TLC.  A session says what the shell is to print    *)
(* and the statuses of its texts, in every interleaving of its processes;  *)
(* many are the scripts of epsh/tests.                                     *)
(***************************************************************************)
EXTENDS EpshAnswers

\* A session as it is listed: texts, the texts that run inside them, the
\* statuses and the output.
Ask(texts, inner, statuses, out) ==
    [texts |-> texts, inner |-> inner, statuses |-> statuses, out |-> out, interruptible |-> FALSE,
     strays |-> FALSE, question |-> NoQuestion]
One(text, status, out) == Ask(<<text>>, {}, <<status>>, out)

\* The session kills a background evaluator and so leaves its command behind.
Straying(s) == [s EXCEPT !.strays = TRUE]

SourcedFile == "echo sourced; return 7; echo no"

ControlSessions == {
    One("if false; then echo a; elif true; then echo b; else echo c; fi", 0, "b\n"),
    One("for x in a b c; do case $x in b) continue;; esac; echo $x; done", 0, "a\nc\n"),
    One("i=0; while test $i -lt 3; do i=$((i+1)); echo $i; done", 0, "1\n2\n3\n"),
    One("until [ ${i-0} = 2 ]; do i=$((${i-0}+1)); done; echo $i", 0, "2\n"),
    One("for i in 1 2; do for j in a b; do break 2; done; done; echo $i$j", 0, "1a\n"),
    One("f() { local x=in; echo $x $1; return 3; }; x=out; f a; echo $? $x", 0, "in a\n3 out\n"),
    One("f() { set -- x; echo $1$#; }; set -- a b; f c; echo $1$#; for x do echo $x; done", 0,
        "x1\na2\na\nb\n"),
    One("false; echo $?; true && false || echo or; ! false && echo not", 0, "1\nor\nnot\n"),
    One("case ab in a|b) echo 1;; a?) echo 2;; *) echo 3;; esac", 0, "2\n"),
    Ask(<<"x=1", "if", "echo $x; exit 4", "echo $?">>, {}, <<0, 2, 4, 0>>, "1\n4\n"),
    Ask(<<"eval 'echo a; echo b'; . s; echo $?">>, {"echo a; echo b", SourcedFile}, <<0>>,
        "a\nb\nsourced\n7\n"),
    Ask(<<"trap 'echo bye' EXIT; echo hi">>, {"echo bye"}, <<0>>, "hi\nbye\n"),
    Ask(<<"trap 'echo got' USR1; kill -USR1 $$\necho next">>, {"echo got"}, <<0>>, "got\nnext\n"),
    Ask(<<"trap 'kill -USR2 $$; echo one' USR1; trap 'echo two' USR2; kill -USR1 $$\necho a\necho b">>,
        {"kill -USR2 $$; echo one", "echo two"}, <<0>>, "one\na\ntwo\nb\n"),
    Ask(<<"trap 'echo t' TERM; (kill -TERM $$; echo s)\n:">>, {"echo t"}, <<0>>, "s\nt\n") }

ErrorSessions == {
    One("set -e; false || echo ok; ! true; (exit 3); echo no", 3, "ok\n"),
    One("set -e; f() { false; echo in; }; f || echo no; f; echo no", 1, "in\n"),
    One("set -e; if (exit 3); then :; else echo $?; fi; false | true; true | false; echo no", 1, "3\n"),
    One("set -e; x=$(false); echo no", 1, ""),
    One("while :; do if break; then :; fi; done; echo ok", 0, "ok\n"),
    One("readonly x=1; for x in a; do :; done; echo $?; x=2; echo no", 2, "1\n"),
    Ask(<<"f() { :; }; a=${nope?} f", "echo $?">>, {}, <<2, 0>>, "2\n"),
    Ask(<<"while ${nope?}; do :; done", "echo a">>, {}, <<2, 0>>, "a\n"),
    Ask(<<"echo x >none/f; echo no", "echo $?">>, {}, <<2, 0>>, "2\n"),
    Ask(<<"exec 3>f; echo a >&3; exec 3>&-; echo b >&3", "cat <f">>, {}, <<2, 0>>, "a\n") }

WordSessions == {
    One("x=abc; echo ${x#a} ${x%c} ${#x} ${y-d} ${y:=e}$y ${x:+s}", 0, "bc ab 3 d ee s\n"),
    One("IFS=:; x=a:b; set -- $x; echo $# $2; echo \"$*\"", 0, "2 b\na:b\n"),
    One("set -- 'a b' c; echo $#; set -- $*; echo $#; shift 2; echo $1", 0, "2\n3\nc\n"),
    One("set -- a 'b c'; for x in \"$@\"; do echo \"<$x>\"; done", 0, "<a>\n<b c>\n"),
    One("set -u; echo $nope; echo no", 2, ""),
    One("printf '%s-%d\\n' a 1 b 2; umask 77; umask", 0, "a-1\nb-2\n0077\n"),
    One("while getopts ab: o -a -b x; do echo $o$OPTARG; done", 0, "a\nbx\n"),
    One("cd d; pwd; test -d /d && [ ! -f /d ] && echo *", 0, "/d\n*\n"),
    One("command -v echo nope; echo $?", 0, "echo\n1\n"),
    One("cat <<E\na$((1+2))\nE\necho", 0, "a3\n\n") }

RedirectSessions == {
    One("echo a >f; echo b >>f; while read l; do echo =$l; done <f", 0, "=a\n=b\n"),
    One("{ echo one; echo two >&3; } 3>&1 >f; cat <f", 0, "two\none\n"),
    One("echo a 4>f 5>f 6>f; { echo b; } 4>f; echo c", 0, "a\nb\nc\n"),
    One("{ exec 4>f; echo a; } >g; echo b; echo c >&4; cat <f <g", 0, "b\na\n"),
    One("{ echo a >&4; } 4>f 4>g; cat <g; { exec 5>f 6>g; } >f; echo b >&6; cat <g", 0, "a\nb\n"),
    One("(exec 4>&1 >f; echo a; echo b >&4); cat <f", 0, "b\na\n"),
    One("({ exec >f; echo a; } 3>&1; echo b); cat <f", 0, "a\nb\n"),
    One("echo a >$(echo b; echo c >f)f; cat <f", 0, "c\n"),
    One("v=1 show; echo =$v; export v=2; show", 0, "1\n=\n2\n") }

ProcessSessions == {
    One("x=$(echo a; exit 3); echo $x $?", 0, "a 3\n"),
    One("echo a | cat | cat; fail | true; echo $?; set -o pipefail; fail | true", 3, "a\n0\n"),
    One("echo a | while read x; do echo $x$x; done; echo ${x-unset}", 0, "aa\nunset\n"),
    One("{ echo a; echo b; } | { read x; read y; echo $y$x; }", 0, "ba\n"),
    One("x=$(echo a | cat); echo $x", 0, "a\n"),
    One("echo a | echo $(cat)$(fail)b", 0, "ab\n"),
    One("(echo a & wait; echo b); echo c", 0, "a\nb\nc\n"),
    One("echo a >f & wait; cat <f; (exit 3) & wait $! 9; echo $?", 0, "a\n127\n"),
    Straying(One("sleep & kill $!; wait $!; echo $?", 0, "143\n")),
    One("sleep & sleep & echo $(echo b)", 0, "b\n"),
    One("fail | cat; echo $?; ! fail | fail; echo $?; (exec fail); echo $?", 0, "0\n0\n3\n"),
    Ask(<<"(trap 'echo sub' EXIT; echo in); echo $(trap 'echo x' EXIT)">>, {"echo sub", "echo x"},
        <<0>>, "in\nsub\nx\n"),
    One("fg; echo $?; (fg); echo $?; fg | cat; ! fg; echo $?", 0, "127\n2\n0\n"),
    One("hosted; (hosted); echo no", 2, ""),
    One("hosted | cat; echo no", 2, ""),
    One("x=$(hosted); echo no", 2, ""),
    One("hosted & wait; echo no", 2, "") }

\* These go on until they are cancelled; the shell is used again afterwards.
Endless(text, out) == [Ask(<<text, "echo on">>, {}, <<0, 0>>, out) EXCEPT !.interruptible = TRUE]
EndlessSessions == {
    Endless("sleep | cat", "on\n"),
    Endless("x=$(sleep | cat)", "on\n"),
    Endless("x=$(exec >f; sleep)", "on\n"),
    Endless("(sleep; sleep)", "on\n"),
    Endless("while :; do :; done >f", "on\n"),
    Endless("{ sleep & wait; } 3>f", "on\n"),
    Endless("for x in a b; do sleep; done", "on\n"),
    Endless("f() { sleep; }; x=1 f", "on\n") }

\* These may be cancelled anywhere.
Finite(text) == Endless(text, "on\n")
FiniteSessions == {
    Finite("{ { echo a; echo b >&4; } 4>f; } 3>&1 >g"),
    Finite("f() { local x=$(echo a); { return 3; } >f; }; for y in a b; do f >g || echo b >f; done"),
    Finite("{ echo a | cat; } >f; if (exit 3) then :; fi"),
    Finite(": >f; while ! read x <f >g; do { echo a | cat; } >f; done"),
    Straying(Finite("sleep & kill $!; wait")),
    [Finite("x=$(hosted)") EXCEPT !.statuses = <<2, 0>>],
    Finite(": >f; set -- a b; for x do x=$(cat <f >g); done 3>g >g") }

\* Nothing runs: the session carries a question.
QuestionSessions ==
    { [Ask(<<>>, IF q.q = "parse" THEN {q.text} ELSE {}, <<>>, "") EXCEPT !.question = q] :
        q \in Questions }

AllSessions == ControlSessions \cup ErrorSessions \cup WordSessions \cup RedirectSessions
               \cup ProcessSessions \cup EndlessSessions \cup FiniteSessions
               \cup QuestionSessions
MCSessions ==
    { [texts |-> [i \in DOMAIN s.texts |-> Chars(s.texts[i])],
       parsed |-> [t \in { Chars(u) : u \in ToSet(s.texts) \cup s.inner } |-> P!Parse(t)],
       interruptible |-> s.interruptible, question |-> s.question, strays |-> s.strays,
       statuses |-> s.statuses, out |-> Chars(s.out)] : s \in AllSessions }
MCTree == [p \in {<<Chars("f")>>, <<Chars("d")>>} |-> IF p = <<Chars("d")>> THEN "dir" ELSE "file"]
MCFileTexts ==
    [p \in {StdIn, StdOut, <<Chars("s")>>} |->
       IF p = <<Chars("s")>> THEN Chars(SourcedFile) ELSE <<>>]
MCProgramKind ==
    [t \in { Chars(s) : s \in {"cat", "show", "fail", "sleep"} } |->
       CHOOSE s \in {"cat", "show", "fail", "sleep"} : Chars(s) = t]
MCPrograms == DOMAIN MCProgramKind
MCHosted == {Chars("hosted")}
MCParentOnly == {Chars("fg")}

\* A session prints its output and has its statuses in every interleaving of
\* its processes.  A text that is cancelled has status 130, the next one runs
\* as if nothing had happened, and then, as when the shell is dropped, none of
\* the processes it started is left.
OutcomeExact ==
    /\ \A i \in DOMAIN done :
           done[i] = session.statuses[i] \/ (session.interruptible /\ done[i] = 130)
    /\ AtRoot("dropped") /\ (session.interruptible => Last(done) # 130) =>
           files[StdOut] = session.out
    /\ AtRoot("dropped") \/ (AtRoot("complete") /\ Shell.sh.status = 130) =>
           session.strays \/ Running(World) = {Root}

=============================================================================
