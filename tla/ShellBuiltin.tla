----------------------------- MODULE ShellBuiltin -----------------------------
(***************************************************************************)
(* The builtins of epsh (epsh/src/builtins.rs) that are functions of the   *)
(* shell and their arguments: each returns the shell, what it wrote to its *)
(* standard output and its result.  args[1] is the command's name.  The    *)
(* builtins that run commands, wait or signal are steps of ShellEval.      *)
(* Messages and the listings of export, set and trap are left out.         *)
(*                                                                         *)
(* To the fields of ShellVars a shell adds                                 *)
(*   funcs   name -> command          traps  name of a signal -> text      *)
(*   loops   loop_depth               umask  the file creation mask        *)
(***************************************************************************)
EXTENDS ShellWord

CONSTANT
    Programs  \* the names of the programs that PATH finds

\* The texts that name what is in the tree, from a directory or absolute, and
\* the test builtin's view of it there.
NamesOf(p, cwd) ==
    {<<"/">> \o PathText(p)} \cup
    (IF Len(p) > Len(cwd) /\ SubSeq(p, 1, Len(cwd)) = cwd
     THEN {PathText(SubSeq(p, Len(cwd) + 1, Len(p)))} ELSE {})
FilesFrom(cwd) ==
    [t \in UNION { NamesOf(p, cwd) : p \in DOMAIN Tree } |->
       LET p == CHOOSE q \in DOMAIN Tree : t \in NamesOf(q, cwd)
       IN  [facts |-> {"e", IF Tree[p] = "dir" THEN "d" ELSE "f"}, age |-> 0, id |-> PathText(p)]]
Condition(cwd) == INSTANCE ShellTest WITH Files <- FilesFrom(cwd)

\* The results of a command: Ok(status), or an error that unwinds.
Res(k, n) == [k |-> k, n |-> n]
Did(sh, out, res) == [sh |-> sh, out |-> out, res |-> res]
Status(sh, n) == Did(sh, <<>>, Res("Ok", n))

BuiltinStrings ==
    {":", "true", "false", "echo", "printf", "cd", "pwd", "exit", "return", "break",
     "continue", "export", "readonly", "unset", "set", "shift", "eval", ".", "source",
     "test", "[", "read", "local", "exec", "command", "type", "wait", "trap", "kill",
     "umask", "getopts"}
BUILTIN_NAMES == { Chars(s) : s \in BuiltinStrings }
BuiltinString == [t \in BUILTIN_NAMES |-> CHOOSE s \in BuiltinStrings : Chars(s) = t]
IsBuiltin(name) == name \in BUILTIN_NAMES

\* str::parse::<usize>
IsCount(text) == IsInt(text) /\ text[1] # "-"
CountOr(text, default) == IF IsCount(text) THEN ParsedInt(text) ELSE default
FromArg(args, i) == SubSeq(args, i, Len(args))
StartsWith(text, c) == text # <<>> /\ text[1] = c
IsShellName(text) ==
    text # <<>> /\ IsNameStart(text[1]) /\ \A i \in DOMAIN text : IsNameChar(text[i])

-----------------------------------------------------------------------------
(* Output                                                                  *)

EscapeOf == [c \in {"n", "t", "r", "a", "b", "f", "v", "\\"} |->
    CASE c = "n" -> "\n" [] c = "t" -> "\t" [] c = "r" -> "\r" [] c = "\\" -> "\\"
      [] c = "a" -> "bel" [] c = "b" -> "bs" [] c = "f" -> "ff" [] c = "v" -> "vt"]

RECURSIVE UnescapeEcho(_)
UnescapeEcho(text) ==
    IF Len(text) < 2 THEN text
    ELSE IF text[1] # "\\" THEN <<text[1]>> \o UnescapeEcho(Tail(text))
    ELSE (IF text[2] \in DOMAIN EscapeOf THEN <<EscapeOf[text[2]]>> ELSE SubSeq(text, 1, 2))
         \o UnescapeEcho(FromArg(text, 3))

EchoFlags == {Chars("-n"), Chars("-e"), Chars("-E")}
BuiltinEcho(sh, args) ==
    LET i == SpanEnd(args, 2, LAMBDA a : a \in EchoFlags)
        flags == SubSeq(args, 2, i - 1)
        lastOf == SelectLastInSeq(flags, LAMBDA f : f # Chars("-n"))
        text == Joined(FromArg(args, i), <<" ">>)
    IN  Did(sh, (IF lastOf # 0 /\ flags[lastOf] = Chars("-e") THEN UnescapeEcho(text) ELSE text)
                \o (IF Chars("-n") \in ToSet(flags) THEN <<>> ELSE <<"\n">>), Res("Ok", 0))

\* One conversion at i, after its percent sign: the position after it, what
\* it is and how wide.
Conversion(f, i) ==
    LET flagged == SpanEnd(f, i, LAMBDA c : c \in {"-", "+", " ", "0", "#"})
        wide == SpanEnd(f, flagged, IsDigit)
        dot == wide <= Len(f) /\ f[wide] = "."
        precise == IF dot THEN SpanEnd(f, wide + 1, IsDigit) ELSE wide
        left == "-" \in ToSet(SubSeq(f, i, flagged - 1))
    IN  [at |-> precise, left |-> left,
         zero |-> ~left /\ "0" \in ToSet(SubSeq(f, i, flagged - 1)),
         width |-> NumberIn(SubSeq(f, flagged, wide - 1), 10), limited |-> dot,
         precision |-> IF dot THEN NumberIn(SubSeq(f, wide + 1, precise - 1), 10) ELSE 0]

Padding(text, width, c) == [i \in 1 .. (IF Len(text) < width THEN width - Len(text) ELSE 0) |-> c]

\* A number in another base; a negative one in two's complement.
RECURSIVE BaseText(_, _)
BaseText(n, base) ==
    IF n < base THEN <<HexDigits[n + 1]>>
    ELSE Append(BaseText(n \div base, base), HexDigits[(n % base) + 1])
ToUpper(c) == IF c \in ToSet(Letters) THEN Capitals[PlaceOf(Letters)[c]] ELSE c
UpperText(text) == [i \in DOMAIN text |-> ToUpper(text[i])]

\* Padded with zeroes the sign stays where it is: -5 becomes 00-5.
Converted(c, conv, arg) ==
    LET n == IntOrZero(arg)
        unsigned == IF n < 0 THEN n + 2 ^ Width ELSE n
        text == IF conv.limited THEN SubSeq(arg, 1, Min({conv.precision, Len(arg)})) ELSE arg
        Aligned(t, fill) == IF conv.left THEN t \o Padding(t, conv.width, " ")
                            ELSE Padding(t, conv.width, fill) \o t
    IN  CASE c = "s" -> Aligned(text, " ")
          [] c \in {"d", "i"} -> Aligned(IntText(n), IF conv.zero THEN "0" ELSE " ")
          [] c = "o" -> BaseText(unsigned, 8)
          [] c = "x" -> BaseText(unsigned, 16)
          [] c = "X" -> UpperText(BaseText(unsigned, 16))
          [] c = "c" -> SubSeq(arg, 1, 1)
          [] c = "b" -> UnescapeEcho(arg)
          [] c = "%" -> <<"%">>
          [] OTHER -> <<"%", c>>

\* The format from its i-th character: st = [out, arg], the text so far and
\* the number of the next argument.
RECURSIVE FormatFrom(_, _, _, _)
Convert(f, conv, args, st) ==
    LET c == f[conv.at]
        arg == IF st.arg <= Len(args) THEN args[st.arg] ELSE <<>>
    IN  IF conv.at > Len(f) THEN st
        ELSE FormatFrom(f, conv.at + 1, args,
                [st EXCEPT !.out = @ \o Converted(c, conv, arg),
                           !.arg = IF c \in {"s", "d", "i", "o", "x", "X", "c", "b"} THEN @ + 1 ELSE @])
FormatFrom(f, i, args, st) ==
    LET Put(text) == [st EXCEPT !.out = @ \o text]
        octal == SpanEnd(f, i + 2, LAMBDA d : IsDigit(d) /\ DigitOf(d) < 8)
        octEnd == Min({octal, i + 5})
    IN  IF i > Len(f) THEN st
        ELSE IF f[i] = "\\" THEN
            IF i = Len(f) THEN Put(<<"\\">>)
            ELSE IF f[i + 1] = "0" THEN
                FormatFrom(f, octEnd, args,
                           Put(<<<<"byte", NumberIn(SubSeq(f, i + 2, octEnd - 1), 8)>>>>))
            ELSE FormatFrom(f, i + 2, args,
                    Put(IF f[i + 1] \in DOMAIN EscapeOf THEN <<EscapeOf[f[i + 1]]>>
                        ELSE IF f[i + 1] = "\"" THEN <<"\"">> ELSE <<"\\", f[i + 1]>>))
        ELSE IF f[i] # "%" THEN FormatFrom(f, i + 1, args, Put(<<f[i]>>))
        ELSE IF i = Len(f) THEN Put(<<"%">>)
        ELSE Convert(f, Conversion(f, i + 1), args, st)

\* The format is used again while it consumes arguments and some are left.
RECURSIVE FormatAll(_, _, _)
FormatAgain(f, args, before, st) ==
    IF st.arg = before.arg \/ st.arg > Len(args) THEN st.out ELSE FormatAll(f, args, st)
FormatAll(f, args, st) == FormatAgain(f, args, st, FormatFrom(f, 1, args, st))

BuiltinPrintf(sh, args) ==
    IF Len(args) < 2 THEN Status(sh, 1)
    ELSE Did(sh, FormatAll(args[2], args, [out |-> <<>>, arg |-> 3]), Res("Ok", 0))

-----------------------------------------------------------------------------
(* Variables and options                                                   *)

EqualsIn(arg) == SpanEnd(arg, 1, LAMBDA c : c # "=")

\* export, readonly and local over their arguments: the first value that
\* cannot be stored ends the first two; local ignores that it was not.
RECURSIVE Declare(_, _, _)
Declare(kind, sh, args) ==
    LET arg == Head(args)
        at == EqualsIn(arg)
        name == SubSeq(arg, 1, at - 1)
        given == at <= Len(arg)
        scoped == IF kind = "local" THEN MakeLocal(sh, name) ELSE sh
        stored == IF given THEN SetText(scoped, name, FromArg(arg, at + 1)) ELSE scoped
        marked == CASE kind = "export" -> Export(stored, name)
                    [] kind = "readonly" -> SetReadonly(stored, name)
                    [] OTHER -> stored
    IN  IF args = <<>> THEN Status(sh, 0)
        ELSE IF given /\ kind # "local" /\ ReadOnly(sh, name) THEN Status(sh, 1)
        ELSE Declare(kind, marked, Tail(args))

RECURSIVE UnsetAll(_, _, _, _)
UnsetAll(sh, names, functions, status) ==
    LET name == Head(names)
    IN  IF names = <<>> THEN Status(sh, status)
        ELSE IF functions
        THEN UnsetAll([sh EXCEPT !.funcs = [f \in DOMAIN @ \ {name} |-> @[f]]],
                      Tail(names), functions, status)
        ELSE UnsetAll(Unset(sh, name), Tail(names), functions,
                      IF ReadOnly(sh, name) THEN 1 ELSE status)
BuiltinUnset(sh, args) ==
    LET i == SpanEnd(args, 2, LAMBDA a : a \in {Chars("-v"), Chars("-f")})
    IN  UnsetAll(sh, FromArg(args, i), i > 2 /\ args[i - 1] = Chars("-f"), 0)

OptionNames == [t \in { Chars(s) : s \in {"pipefail", "errexit", "nounset", "xtrace",
                                          "noglob", "noexec"} } |->
    CASE t = Chars("pipefail") -> "pipefail" [] t = Chars("errexit") -> "e"
      [] t = Chars("nounset") -> "u" [] t = Chars("xtrace") -> "x"
      [] t = Chars("noglob") -> "f" [] t = Chars("noexec") -> "n"]
OptionLetters == {"e", "u", "x", "f", "n"}
SetOpts(sh, letters, enable) ==
    [sh EXCEPT !.opts = IF enable THEN @ \cup letters ELSE @ \ letters]

\* set from its i-th argument.  A letter that is no option ends it after the
\* letters before it.
RECURSIVE SetFrom(_, _, _)
SetFrom(sh, args, i) ==
    LET arg == args[i]
        enable == arg[1] = "-"
        good == SpanEnd(arg, 2, LAMBDA c : c \in OptionLetters)
        flagged == SetOpts(sh, ToSet(SubSeq(arg, 2, good - 1)), enable)
    IN  IF i > Len(args) THEN Status(sh, 0)
        ELSE IF arg = Chars("--") THEN Status([sh EXCEPT !.positional = FromArg(args, i + 1)], 0)
        ELSE IF arg = <<"-">> THEN SetFrom(SetOpts(sh, {"x"}, FALSE), args, i + 1)
        ELSE IF arg \in {Chars("-o"), Chars("+o")} /\ i < Len(args) THEN
            IF args[i + 1] \in DOMAIN OptionNames
            THEN SetFrom(SetOpts(sh, {OptionNames[args[i + 1]]}, enable), args, i + 2)
            ELSE Status(sh, 1)
        ELSE IF StartsWith(arg, "-") \/ StartsWith(arg, "+") THEN
            IF good <= Len(arg) THEN Status(flagged, 1) ELSE SetFrom(flagged, args, i + 1)
        ELSE IF IsShellName(arg) THEN
            IF ReadOnly(sh, arg) THEN Status(sh, 1)
            ELSE Status(Export(SetText(sh, arg, Joined(FromArg(args, i + 1), <<" ">>)), arg), 0)
        ELSE Status([sh EXCEPT !.positional = FromArg(args, i)], 0)

BuiltinShift(sh, args) ==
    LET n == IF Len(args) > 1 THEN CountOr(args[2], 1) ELSE 1
    IN  IF n > Len(sh.positional) THEN Status(sh, 1)
        ELSE Status([sh EXCEPT !.positional = FromArg(@, n + 1)], 0)

\* Octal digits only.
BuiltinUmask(sh, args) ==
    IF Len(args) = 1 THEN Did(sh, Append(sh.umask, "\n"), Res("Ok", 0))
    ELSE IF args[2] # <<>> /\ \A i \in DOMAIN args[2] :
                IsDigit(args[2][i]) /\ DigitOf(args[2][i]) < 8
    THEN Status([sh EXCEPT !.umask = Padding(args[2], 4, "0") \o args[2]], 0)
    ELSE Status(sh, 1)

-----------------------------------------------------------------------------
(* Directories and names                                                   *)

\* Path::canonicalize of the components over a directory; <<"?">> when a
\* component is missing.
NoPath == <<<<"?">>>>
RECURSIVE Canonical(_, _)
Canonical(dir, components) ==
    LET c == Head(components)
        next == IF c = <<".">> THEN dir
                ELSE IF c = Chars("..") THEN (IF dir = <<>> THEN dir ELSE Front(dir))
                ELSE Append(dir, c)
    IN  IF components = <<>> THEN dir
        ELSE IF next # <<>> /\ next \notin DOMAIN Tree THEN NoPath
        ELSE Canonical(next, Tail(components))

IsDir(path) == path = <<>> \/ (path \in DOMAIN Tree /\ Tree[path] = "dir")
AbsoluteText(path) == <<"/">> \o PathText(path)
PwdName == Chars("PWD")

BuiltinCd(sh, args) ==
    LET home == ValueOf(sh, HomeName)
        text == IF Len(args) > 1 THEN args[2] ELSE home[1]
        target == Canonical(IF StartsWith(text, "/") THEN <<>> ELSE sh.cwd, SplitComponents(text))
    IN  IF Len(args) = 1 /\ home = <<>> THEN Status(sh, 1)
        ELSE IF target = NoPath \/ ~IsDir(target) THEN Status(sh, 1)
        ELSE Status(SetText([sh EXCEPT !.cwd = target], PwdName, AbsoluteText(target)), 0)

\* type, command -v and command -V over names: 1 when one is unknown.
IsFound(sh, name) == name \in DOMAIN sh.funcs \/ IsBuiltin(name) \/ name \in Programs
Describe(sh, names, plain) ==
    LET found == SelectSeq(names, LAMBDA n : IsFound(sh, n))
    IN  Did(sh, IF plain THEN FlattenSeq([i \in DOMAIN found |-> Append(found[i], "\n")]) ELSE <<>>,
            Res("Ok", IF Len(found) = Len(names) THEN 0 ELSE 1))

\* command_action: what a command builtin's arguments ask for.
CommandAction(args) ==
    LET options == SpanEnd(args, 2, LAMBDA a : a \in {Chars("-v"), Chars("-V"), Chars("-p")})
        i == IF options <= Len(args) /\ args[options] = Chars("--") THEN options + 1 ELSE options
        modes == SelectSeq(SubSeq(args, 2, options - 1), LAMBDA a : a # Chars("-p"))
    IN  IF i > Len(args) THEN [act |-> "Empty", args |-> <<>>, plain |-> FALSE]
        ELSE [act |-> IF modes = <<>> THEN "Execute" ELSE "Describe", args |-> FromArg(args, i),
              plain |-> modes # <<>> /\ Last(modes) = Chars("-v")]

\* What a chain of command prefixes runs in the end.
RECURSIVE Dispatched(_)
Dispatched(args) ==
    IF args # <<>> /\ args[1] = Chars("command") /\ CommandAction(args).act = "Execute"
    THEN Dispatched(CommandAction(args).args) ELSE args

BuiltinTest(sh, args) ==
    IF args[1] = <<"[">> /\ Last(args) # <<"]">> THEN 2
    ELSE Condition(sh.cwd)!TestEval(IF args[1] = <<"[">> THEN SubSeq(args, 2, Len(args) - 1)
                                    ELSE Tail(args))

-----------------------------------------------------------------------------
(* Control                                                                 *)

\* builtin_status_operand; the status is reduced modulo 256.
StatusOperand(kind, sh, args) ==
    IF Len(args) = 1 THEN Res(kind, sh.status)
    ELSE IF IsInt(args[2]) THEN Res(kind, ParsedInt(args[2]) % 256)
    ELSE Res("Exit", 2)

\* break and continue: outside loops nothing happens, and never more loops
\* than there are.
LoopControl(kind, sh, args) ==
    LET n == IF Len(args) = 1 THEN 1 ELSE CountOr(args[2], 0)
    IN  IF n = 0 THEN Res("Exit", 1)
        ELSE IF sh.loops = 0 THEN Res("Ok", 0)
        ELSE Res(kind, Min({n, sh.loops}))

SignalStrings == [HUP |-> 1, INT |-> 2, QUIT |-> 3, KILL |-> 9, USR1 |-> 10, USR2 |-> 12,
                  PIPE |-> 13, ALRM |-> 14, TERM |-> 15, CHLD |-> 17, CONT |-> 18, STOP |-> 19,
                  TSTP |-> 20, TTIN |-> 21, TTOU |-> 22]
SignalNumber == [t \in { Chars(s) : s \in DOMAIN SignalStrings } |->
                   SignalStrings[CHOOSE s \in DOMAIN SignalStrings : Chars(s) = t]]
SignalName(n) == CHOOSE t \in DOMAIN SignalNumber : SignalNumber[t] = n
IsSignal(n) == \E t \in DOMAIN SignalNumber : SignalNumber[t] = n
EXIT == Chars("EXIT")

\* name_to_signal and signal_to_name: the canonical name of what a text
\* names, or no text.
CanonicalSignal(text) ==
    LET upper == UpperText(text)
        bare == IF Len(upper) > 3 /\ SubSeq(upper, 1, 3) = Chars("SIG") THEN FromArg(upper, 4)
                ELSE upper
        number == NumberIn(text, 10)
        numeric == text # <<>> /\ \A i \in DOMAIN text : IsDigit(text[i])
    IN  IF upper = EXIT \/ (numeric /\ number = 0) THEN EXIT
        ELSE IF numeric /\ IsSignal(number) THEN SignalName(number)
        ELSE IF bare \in DOMAIN SignalNumber THEN bare ELSE <<>>

Uncatchable == {Chars("KILL"), Chars("STOP")}
RECURSIVE TrapAll(_, _, _, _)
TrapAll(sh, action, names, status) ==
    LET signal == CanonicalSignal(Head(names))
        refused == signal = <<>> \/ signal \in Uncatchable
        traps == IF action = <<"-">> THEN [s \in DOMAIN sh.traps \ {signal} |-> sh.traps[s]]
                 ELSE [s \in DOMAIN sh.traps \cup {signal} |->
                         IF s = signal THEN action ELSE sh.traps[s]]
    IN  IF names = <<>> THEN Status(sh, status)
        ELSE IF refused THEN TrapAll(sh, action, Tail(names), 1)
        ELSE TrapAll([sh EXCEPT !.traps = traps], action, Tail(names), status)

\* One operand alone resets its trap.
BuiltinTrap(sh, args) ==
    LET offset == IF Len(args) > 1 /\ args[2] = Chars("--") THEN 3 ELSE 2
    IN  IF Len(args) < offset THEN Status(sh, 0)
        ELSE IF Len(args) = offset
        THEN IF args[offset] = <<"-">> THEN Status(sh, 0)
             ELSE TrapAll(sh, <<"-">>, <<args[offset]>>, 0)
        ELSE TrapAll(sh, args[offset], FromArg(args, offset + 1), 0)

\* kill's signal and operands, or the status it fails with; kill -l is left out.
KillRequest(args) ==
    LET first == args[2]
        spec == IF first = Chars("-s") THEN args[3] ELSE Tail(first)
        option == StartsWith(first, "-") /\ Len(first) > 1
        number == IF first # Chars("-s") /\ IsInt(spec) THEN ParsedInt(spec)
                  ELSE IF CanonicalSignal(spec) \in DOMAIN SignalNumber
                  THEN SignalNumber[CanonicalSignal(spec)] ELSE -1
        Bad(n) == [status |-> n, signal |-> 0, pids |-> <<>>]
        operands == FromArg(args, IF ~option THEN 2 ELSE IF first = Chars("-s") THEN 4 ELSE 3)
    IN  IF Len(args) = 1 \/ (first = Chars("-s") /\ Len(args) = 2) THEN Bad(2)
        ELSE IF option /\ number = -1 THEN Bad(1)
        ELSE IF operands = <<>> THEN Bad(2)
        ELSE [status |-> 0, signal |-> IF option THEN number ELSE 15, pids |-> operands]

-----------------------------------------------------------------------------
(* getopts                                                                 *)

OPTIND == Chars("OPTIND")
OPTPOS == Chars("_OPTPOS")
OPTARG == Chars("OPTARG")

RECURSIVE Getopts(_, _, _, _)
Getopts(sh, optstring, name, argv) ==
    LET optind == CountOr(OrEmpty(ValueOf(sh, OPTIND)), 1)
        arg == argv[optind]
        optpos == CountOr(OrEmpty(ValueOf(sh, OPTPOS)), 1)
        opt == arg[optpos + 1]
        pos == SelectInSeq(optstring, LAMBDA c : c = opt)
        needsArg == pos < Len(optstring) /\ optstring[pos + 1] = ":"
        endsWord == optpos + 1 >= Len(arg)
        Advanced(s, by) == SetText(SetText(s, OPTIND, NatText(optind + by)), OPTPOS, <<"1">>)
        Moved(s) == IF endsWord THEN Advanced(s, 1) ELSE SetText(s, OPTPOS, NatText(optpos + 1))
        found == SetText(sh, name, <<opt>>)
        unknown == SetText(IF StartsWith(optstring, ":") THEN SetText(sh, OPTARG, <<opt>>) ELSE sh,
                           name, <<"?">>)
    IN  IF \/ optind < 1 \/ optind > Len(argv)
           \/ ~StartsWith(arg, "-") \/ arg \in {<<"-">>, Chars("--")}
        THEN Status(SetText(sh, name, <<"?">>), 1)
        ELSE IF optpos >= Len(arg) THEN Getopts(Advanced(sh, 1), optstring, name, argv)
        ELSE IF pos = 0 THEN Status(Moved(unknown), 0)
        ELSE IF ~needsArg THEN Status(Moved(Unset(found, OPTARG)), 0)
        ELSE IF ~endsWord
        THEN Status(Advanced(SetText(found, OPTARG, FromArg(arg, optpos + 2)), 1), 0)
        ELSE IF optind < Len(argv)
        THEN Status(Advanced(SetText(found, OPTARG, argv[optind + 1]), 2), 0)
        ELSE Status(SetText(SetText(found, name, <<"?">>), OPTIND, NatText(optind + 1)), 0)

BuiltinGetopts(sh, args) ==
    IF Len(args) < 3 THEN Status(sh, 2)
    ELSE Getopts(sh, args[2], args[3], IF Len(args) > 3 THEN FromArg(args, 4) ELSE sh.positional)

-----------------------------------------------------------------------------
(* read                                                                    *)

\* The line at the start of the input: r = [line, used, eof].  A backslash
\* keeps the next character, and joins lines, unless raw.
RECURSIVE ReadLine(_, _, _)
ReadLine(input, i, raw) ==
    LET More(j, text) == LET rest == ReadLine(input, j, raw)
                         IN  [rest EXCEPT !.line = text \o @]
    IN  IF i > Len(input) THEN [line |-> <<>>, used |-> Len(input), eof |-> TRUE]
        ELSE IF input[i] = "\\" /\ ~raw THEN
            IF i = Len(input) THEN [line |-> <<"\\">>, used |-> i, eof |-> TRUE]
            ELSE IF input[i + 1] # "\n" THEN More(i + 2, <<input[i + 1]>>)
            \* a newline straight after a joined line is swallowed too
            ELSE IF i + 2 <= Len(input) /\ input[i + 2] = "\n" THEN More(i + 3, <<>>)
            ELSE More(i + 2, <<>>)
        ELSE IF input[i] = "\n" THEN [line |-> <<>>, used |-> i, eof |-> FALSE]
        ELSE More(i + 1, <<input[i]>>)

\* The line over n names: the last one gets the rest.
RECURSIVE ReadFields(_, _, _)
ReadFields(line, n, ifs) ==
    LET end == SpanEnd(line, 1, LAMBDA c : c \notin ifs)
        next == SpanEnd(line, end, LAMBDA c : c \in ifs)
        kept == { i \in 1 .. Len(line) : ~(line[i] \in ifs /\ IsBlank(line[i])) }
    IN  IF n = 1 THEN <<SubSeq(line, 1, IF kept = {} THEN 0 ELSE Max(kept))>>
        ELSE <<SubSeq(line, 1, end - 1)>> \o ReadFields(FromArg(line, next), n - 1, ifs)

RECURSIVE ReadInto(_, _, _, _)
ReadInto(sh, names, values, status) ==
    IF names = <<>> THEN Status(sh, status)
    ELSE IF ReadOnly(sh, names[1]) THEN Status(sh, 1)
    ELSE ReadInto(SetText(sh, names[1], values[1]), Tail(names), Tail(values), status)

ReadOptions(args) == SpanEnd(args, 2, LAMBDA a : StartsWith(a, "-"))
ReadRaw(args) == Chars("-r") \in ToSet(SubSeq(args, 2, ReadOptions(args) - 1))

BuiltinRead(sh, args, r) ==
    LET given == FromArg(args, ReadOptions(args))
        names == IF given = <<>> THEN <<Chars("REPLY")>> ELSE given
        ifs == ToSet(Ifs(sh))
        blanks == { c \in ifs : IsBlank(c) }
        kept == { i \in 1 .. Len(r.line) : r.line[i] \notin ifs }
        trimmed == IF kept = {} THEN <<>> ELSE SubSeq(r.line, Min(kept), Max(kept))
        values == IF r.line = <<>> THEN [i \in DOMAIN names |-> <<>>]
                  ELSE IF Len(names) = 1 THEN <<trimmed>>
                  ELSE ReadFields(FromArg(r.line, SpanEnd(r.line, 1, LAMBDA c : c \in blanks)),
                                  Len(names), ifs)
    IN  ReadInto(sh, names, values, IF r.eof THEN 1 ELSE 0)

-----------------------------------------------------------------------------
(* try_builtin, for the builtins above but kill and read                   *)

PureBuiltin(name, sh, args) ==
    CASE name \in {":", "true"} -> Status(sh, 0)
      [] name = "false" -> Status(sh, 1)
      [] name = "echo" -> BuiltinEcho(sh, args)
      [] name = "printf" -> BuiltinPrintf(sh, args)
      [] name = "cd" -> BuiltinCd(sh, args)
      [] name = "pwd" -> Did(sh, Append(AbsoluteText(sh.cwd), "\n"), Res("Ok", 0))
      [] name \in {"exit", "return"} ->
           Did(sh, <<>>, StatusOperand(IF name = "exit" THEN "Exit" ELSE "Return", sh, args))
      [] name \in {"break", "continue"} ->
           Did(sh, <<>>, LoopControl(IF name = "break" THEN "Break" ELSE "Continue", sh, args))
      [] name \in {"export", "readonly", "local"} -> Declare(name, sh, Tail(args))
      [] name = "unset" -> BuiltinUnset(sh, args)
      [] name = "set" -> SetFrom(sh, args, 2)
      [] name = "shift" -> BuiltinShift(sh, args)
      [] name \in {"test", "["} -> Status(sh, BuiltinTest(sh, args))
      [] name = "type" -> Describe(sh, Tail(args), FALSE)
      [] name = "trap" -> BuiltinTrap(sh, args)
      [] name = "umask" -> BuiltinUmask(sh, args)
      [] name = "getopts" -> BuiltinGetopts(sh, args)

=============================================================================
