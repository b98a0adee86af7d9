------------------------------ MODULE ShellText ------------------------------
(***************************************************************************)
(* Shell text as sequences of one-character strings, and the numbers that  *)
(* epsh reads from it and writes to it.  An epsh value is a byte string;   *)
(* the escape marker CTLESC (U+FFFE in the source) is one more character.  *)
(***************************************************************************)
EXTENDS Integers, Sequences, SequencesExt, FiniteSetsExt

CONSTANT
    Width  \* the width of an arithmetic value in bits; 64 in the program

ASSUME WidthAssumption == Width \in Nat \ {0, 1}

CTLESC == "esc"

\* A literal as text.
Chars(string) == [i \in 1 .. Len(string) |-> SubSeq(string, i, i)]

Digits == <<"0", "1", "2", "3", "4", "5", "6", "7", "8", "9">>
Letters == <<"a", "b", "c", "d", "e", "f", "g", "h", "i", "j", "k", "l", "m",
             "n", "o", "p", "q", "r", "s", "t", "u", "v", "w", "x", "y", "z">>

Capitals == Chars("ABCDEFGHIJKLMNOPQRSTUVWXYZ")

HexDigits == Digits \o <<"a", "b", "c", "d", "e", "f">>
PlaceOf(seq) == [c \in ToSet(seq) |-> CHOOSE i \in DOMAIN seq : seq[i] = c]

\* The order of the characters that ranges and sorting compare.
Alphabet == <<"-", ".", "/">> \o Digits \o Capitals \o Letters
CodeOf == PlaceOf(Alphabet)
Code(c) == IF c \in DOMAIN CodeOf THEN CodeOf[c] ELSE 0

DigitPlace == PlaceOf(HexDigits) @@ PlaceOf(Digits \o SubSeq(Capitals, 1, 6))
DigitOf(c) == DigitPlace[c] - 1
IsHexDigit(c) == c \in DOMAIN DigitPlace
IsDigit(c) == IsHexDigit(c) /\ DigitOf(c) < 10
NameStarts == {"_"} \cup ToSet(Letters) \cup ToSet(Capitals)
IsNameStart(c) == c \in NameStarts
IsNameChar(c) == IsNameStart(c) \/ IsDigit(c)
IsBlank(c) == c \in {" ", "\t", "\n"}

MinInt == -(2 ^ (Width - 1))
MaxInt == 2 ^ (Width - 1) - 1

\* Two's complement: the value of n in Width bits.
Wrap(n) == ((n - MinInt) % (2 ^ Width)) + MinInt

\* The position after the longest run from i of characters that In accepts.
SpanEnd(s, i, In(_)) ==
    CHOOSE j \in i .. Len(s) + 1 :
        /\ \A k \in i .. j - 1 : In(s[k])
        /\ j <= Len(s) => ~In(s[j])

\* The value of a run of digits.
RECURSIVE NumberIn(_, _)
NumberIn(digits, base) ==
    IF digits = <<>> THEN 0
    ELSE NumberIn(Front(digits), base) * base + DigitOf(Last(digits))

RECURSIVE NatText(_)
NatText(n) ==
    IF n < 10 THEN <<Digits[n + 1]>>
    ELSE Append(NatText(n \div 10), Digits[(n % 10) + 1])

\* i64::to_string
IntText(n) == IF n < 0 THEN <<"-">> \o NatText(-n) ELSE NatText(n)

\* str::parse::<i64>: whether the text is a number of the type, and which.
IsInt(s) ==
    LET body == IF s # <<>> /\ s[1] \in {"-", "+"} THEN Tail(s) ELSE s
        n == IF s[1] = "-" THEN -NumberIn(body, 10) ELSE NumberIn(body, 10)
    IN  /\ body # <<>>
        /\ \A i \in 1 .. Len(body) : IsDigit(body[i])
        /\ MinInt <= n /\ n <= MaxInt

ParsedInt(s) ==
    IF s[1] = "-" THEN -NumberIn(Tail(s), 10)
    ELSE NumberIn(IF s[1] = "+" THEN Tail(s) ELSE s, 10)

\* The shell's lenient reading: what is not a number counts as zero.
IntOrZero(s) == IF IsInt(s) THEN ParsedInt(s) ELSE 0

=============================================================================
