------------------------------ MODULE ShellVars ------------------------------
(***************************************************************************)
(* The variables of an epsh shell (epsh/src/var.rs).  A shell record sh    *)
(* has at least                                                            *)
(*   vars        name -> [value, export, readonly]; value is <<>> or       *)
(*               <<text>>, a binding may have none                         *)
(*   scopes      for every active function, what its locals hid            *)
(*   positional  the texts of $1, $2, ...                                  *)
(*   status, lastBg, opts, arg0, pid: what the special parameters show     *)
(* The inherited entries whose names are no shell names are left out.      *)
(***************************************************************************)
EXTENDS ShellText

DefaultIfs == <<" ", "\t", "\n">>
IfsName == Chars("IFS")

Binding(value) == [value |-> value, export |-> FALSE, readonly |-> FALSE]
Known(sh, name) == name \in DOMAIN sh.vars
ReadOnly(sh, name) == Known(sh, name) /\ sh.vars[name].readonly

\* Variables::get_bytes
ValueOf(sh, name) == IF Known(sh, name) THEN sh.vars[name].value ELSE <<>>
OrEmpty(option) == IF option = <<>> THEN <<>> ELSE option[1]

PutBinding(sh, name, binding) ==
    [sh EXCEPT !.vars = [n \in DOMAIN @ \cup {name} |->
                           IF n = name THEN binding ELSE @[n]]]
DropBinding(sh, name) ==
    [sh EXCEPT !.vars = [n \in DOMAIN @ \ {name} |-> @[n]]]

\* entry(name).or_insert_with(...)
Declared(sh, name) == IF Known(sh, name) THEN sh.vars[name] ELSE Binding(<<>>)

\* Variables::set_bytes; a read-only binding keeps its value.
SetText(sh, name, text) ==
    IF ReadOnly(sh, name) THEN sh
    ELSE PutBinding(sh, name, [Declared(sh, name) EXCEPT !.value = <<text>>])

Unset(sh, name) == IF ReadOnly(sh, name) THEN sh ELSE DropBinding(sh, name)
Export(sh, name) == PutBinding(sh, name, [Declared(sh, name) EXCEPT !.export = TRUE])
SetReadonly(sh, name) ==
    PutBinding(sh, name, [Declared(sh, name) EXCEPT !.readonly = TRUE])

-----------------------------------------------------------------------------
(* Scopes                                                                  *)

PushScope(sh) == [sh EXCEPT !.scopes = Append(@, <<>>)]

\* What the name was, kept in the innermost scope; nothing outside functions.
MakeLocal(sh, name) ==
    LET previous == IF Known(sh, name) THEN <<sh.vars[name]>> ELSE <<>>
        n == Len(sh.scopes)
    IN  IF n = 0 THEN sh
        ELSE [sh EXCEPT !.scopes[n] = Append(@, [name |-> name, previous |-> previous])]

\* The saved bindings come back in reverse order: the first one saved wins.
RestoreSaved(sh, saved) ==
    IF saved.previous = <<>> THEN DropBinding(sh, saved.name)
    ELSE PutBinding(sh, saved.name, saved.previous[1])
PopScope(sh) ==
    IF sh.scopes = <<>> THEN sh
    ELSE FoldRight(LAMBDA saved, s : RestoreSaved(s, saved), Last(sh.scopes),
                   [sh EXCEPT !.scopes = Front(@)])

-----------------------------------------------------------------------------
(* Parameters                                                              *)

Ifs(sh) == IF ValueOf(sh, IfsName) = <<>> THEN DefaultIfs ELSE ValueOf(sh, IfsName)[1]

\* Texts joined by a separator.
Joined(texts, sep) ==
    FlattenSeq([i \in 1 .. Len(texts) |-> IF i = 1 THEN texts[i] ELSE sep \o texts[i]])
PositionalJoin(sh, sep) == Joined(sh.positional, sep)

\* ShellOpts::flags_string
FlagsString(sh) == SelectSeq(<<"e", "u", "x", "f", "n">>, LAMBDA c : c \in sh.opts)

\* Variables::get_special, for the parameters is_special_param accepts but
\* $@ and $*, which are joined where they are expanded.
GetSpecial(sh, name) ==
    LET c == name[1]
    IN  CASE c = "?" -> <<NatText(sh.status)>>
          [] c = "$" -> <<NatText(sh.pid)>>
          [] c = "#" -> <<NatText(Len(sh.positional))>>
          [] c = "0" -> <<sh.arg0>>
          [] c = "-" -> <<FlagsString(sh)>>
          [] c = "!" -> IF sh.lastBg = 0 THEN <<>> ELSE <<NatText(sh.lastBg)>>
          [] OTHER -> IF DigitOf(c) <= Len(sh.positional)
                      THEN <<sh.positional[DigitOf(c)]>> ELSE <<>>

\* The variables a command started by the shell sees: the exported ones, and
\* its prefix assignments over them.
EnvForCommand(sh, assigns) ==
    LET exported == { n \in DOMAIN sh.vars :
                        sh.vars[n].export /\ sh.vars[n].value # <<>> }
        given == { assigns[i].name : i \in DOMAIN assigns }
        LastOf(n) == CHOOSE i \in DOMAIN assigns :
                        /\ assigns[i].name = n
                        /\ \A j \in DOMAIN assigns : assigns[j].name = n => j <= i
    IN  [n \in exported \cup given |->
           IF n \in given THEN assigns[LastOf(n)].value ELSE sh.vars[n].value[1]]

=============================================================================
