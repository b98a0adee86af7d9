-------------------------- MODULE CaptureRelayProofs --------------------------
(***************************************************************************)
(* KeysInOrder for any number of keys, suspend keys, chunk and queue sizes *)
(* and suspensions.                                                        *)
(***************************************************************************)
EXTENDS CaptureRelay, SequenceTheorems, FiniteSetTheorems, WellFoundedInduction, TLAPS

Byte == Nat \ {0}
Keys == Seq(Byte)
Holding == {"segment", "write", "put", "signal"}

Thread ==
    [pc : {"top", "poll", "flush", "forward", "ready", "read", "exit", "done"} \cup Holding,
     tail : Keys, rest : Keys, left : Nat, blocked : BOOLEAN, alive : BOOLEAN,
     flush : BOOLEAN, watch : BOOLEAN, back : {"top", "forward"}, key : BOOLEAN]

TypeOK ==
    /\ typed \in Nat /\ tty \in Keys /\ vmin \in BOOLEAN /\ slave \in Keys /\ got \in Keys
    /\ child \in {"run", "stopped", "exited"} /\ paused \in BOOLEAN /\ stop \in BOOLEAN
    /\ r \in Thread /\ stops \in Nat /\ signals \subseteq Suspend \cap (1 .. typed)
    /\ sh \in {"run", "suspended", "prompt", "reading", "fg", "continue", "joining", "after", "taking"}
    /\ prompt \in [pending : Keys, read : Keys, dead : BOOLEAN]
    /\ birth \in Seq(Nat) /\ Len(birth) = typed

\* The relay holds at most one of a chunk in hand and a tail.
PhaseInv ==
    /\ r.pc \notin Holding => r.rest = <<>>
    /\ r.pc \in Holding \cup {"forward", "ready", "read"} => r.tail = <<>>
    /\ r.pc = "poll" /\ r.watch => r.tail = <<>>
    /\ r.pc \in {"write", "put"} =>
          r.left <= Len(r.rest) /\ (r.left < Len(r.rest) => r.rest[r.left + 1] \in Suspend)
    /\ r.pc = "signal" => r.rest # <<>> /\ r.rest[1] \in Suspend
    /\ Len(slave) <= Room

\* How often b is in s.
Count(s, b) == Cardinality({i \in DOMAIN s : s[i] = b})

Held(b) ==
    Count(tty, b) + Count(r.rest, b) + Count(r.tail, b) + Count(slave, b) + Count(got, b)
        + Count(prompt.pending, b) + Count(prompt.read, b)

CountInv == \A b \in 1 .. typed : Held(b) = IF b \in signals THEN 0 ELSE 1

\* The terminal holds the latest bytes; everybody else has older ones.
Below(s, n) == \A b \in Range(s) : b <= n
Fetched == typed - Len(tty)

QueueInv ==
    /\ Len(tty) <= typed
    /\ \A i \in DOMAIN tty : tty[i] = Fetched + i
    /\ Below(r.rest, Fetched) /\ Below(r.tail, Fetched) /\ Below(slave, Fetched)
    /\ Below(got, Fetched) /\ Below(prompt.pending, Fetched) /\ Below(prompt.read, Fetched)

Chain == got \o slave \o r.rest \o r.tail

OrderInv ==
    /\ Increasing(Chain)
    /\ IF sh \in {"after", "taking"} THEN Increasing(prompt.pending) ELSE prompt.pending = <<>>

\* No byte of s was typed at the prompt of the current suspension.
Older(s) == \A b \in Range(s) : birth[b] # stops

BirthInv ==
    /\ \A b \in 1 .. typed : birth[b] <= stops
    /\ paused => /\ Older(got) /\ Older(slave)
                 /\ r.pc \in {"write", "put", "signal"} => Older(r.rest)

IInv == TypeOK /\ PhaseInv /\ CountInv /\ QueueInv /\ OrderInv /\ BirthInv
-----------------------------------------------------------------------------
(* Sequences of bytes.                                                     *)

LEMMA KeysFacts ==
    ASSUME NEW s \in Keys
    PROVE  /\ Len(s) \in Nat /\ DOMAIN s = 1 .. Len(s)
           /\ \A i \in 1 .. Len(s) : s[i] \in Byte
           /\ s = <<>> <=> Len(s) = 0
  BY EmptySeq, LenProperties, ElementOfSeq DEF Keys

LEMMA NoKeys == <<>> \in Keys /\ Len(<<>>) = 0
  BY EmptySeq DEF Keys

LEMMA JoinFacts ==
    ASSUME NEW s \in Keys, NEW t \in Keys
    PROVE  /\ s \o t \in Keys /\ Len(s \o t) = Len(s) + Len(t)
           /\ \A i \in 1 .. Len(s) : (s \o t)[i] = s[i]
           /\ \A i \in 1 .. Len(t) : (s \o t)[Len(s) + i] = t[i]
  <1>1. Len(s) \in Nat /\ Len(t) \in Nat
    BY KeysFacts
  <1>2. /\ s \o t \in Keys /\ Len(s \o t) = Len(s) + Len(t)
        /\ \A i \in 1 .. Len(s) + Len(t) : (s \o t)[i] = IF i <= Len(s) THEN s[i] ELSE t[i - Len(s)]
    BY ConcatProperties DEF Keys
  <1>3. ASSUME NEW i \in 1 .. Len(s) PROVE (s \o t)[i] = s[i]
    BY <1>1, <1>2
  <1>4. ASSUME NEW i \in 1 .. Len(t) PROVE (s \o t)[Len(s) + i] = t[i]
    <2>1. Len(s) + i \in 1 .. Len(s) + Len(t) /\ ~ (Len(s) + i <= Len(s)) /\ (Len(s) + i) - Len(s) = i
      BY <1>1
    <2>. QED  BY <1>2, <2>1
  <1>. QED  BY <1>2, <1>3, <1>4

LEMMA JoinAssociates ==
    ASSUME NEW s \in Keys, NEW t \in Keys, NEW u \in Keys
    PROVE  (s \o t) \o u = s \o (t \o u)
  BY ConcatAssociative DEF Keys

LEMMA JoinEmpty == ASSUME NEW s \in Keys PROVE s \o <<>> = s /\ <<>> \o s = s
  BY ConcatEmptySeq DEF Keys

LEMMA TakeDropFacts ==
    ASSUME NEW s \in Keys, NEW n \in 0 .. Len(s)
    PROVE  /\ Take(s, n) \in Keys /\ Len(Take(s, n)) = n
           /\ \A i \in 1 .. n : Take(s, n)[i] = s[i]
           /\ Drop(s, n) \in Keys /\ Len(Drop(s, n)) = Len(s) - n
           /\ \A i \in 1 .. Len(s) - n : Drop(s, n)[i] = s[n + i]
           /\ Take(s, n) \o Drop(s, n) = s
  <1>1. /\ Len(s) \in Nat /\ n \in Int /\ Len(s) \in Int /\ n + 1 \in Int
        /\ \A i \in 1 .. n : s[i] \in Byte
        /\ \A i \in n + 1 .. Len(s) : s[i] \in Byte
    BY KeysFacts
  <1>2. /\ Take(s, n) \in Keys /\ Len(Take(s, n)) = IF 1 <= n THEN n - 1 + 1 ELSE 0
        /\ \A i \in 1 .. n - 1 + 1 : Take(s, n)[i] = s[1 + i - 1]
    BY <1>1, SubSeqProperties, 1 \in Int DEF Take, Keys
  <1>3. /\ Drop(s, n) \in Keys /\ Len(Drop(s, n)) = IF n + 1 <= Len(s) THEN Len(s) - (n + 1) + 1 ELSE 0
        /\ \A i \in 1 .. Len(s) - (n + 1) + 1 : Drop(s, n)[i] = s[(n + 1) + i - 1]
    BY <1>1, SubSeqProperties DEF Drop, Keys
  <1>4. ASSUME NEW i \in 1 .. n PROVE Take(s, n)[i] = s[i]
    <2>1. i \in 1 .. n - 1 + 1 /\ 1 + i - 1 = i
      BY <1>1
    <2>. QED  BY <1>2, <2>1
  <1>5. ASSUME NEW i \in 1 .. Len(s) - n PROVE Drop(s, n)[i] = s[n + i]
    <2>1. i \in 1 .. Len(s) - (n + 1) + 1 /\ (n + 1) + i - 1 = n + i
      BY <1>1
    <2>. QED  BY <1>3, <2>1
  <1>6. Len(Take(s, n)) = n /\ Len(Drop(s, n)) = Len(s) - n
    BY <1>1, <1>2, <1>3
  <1>7. Take(s, n) \o Drop(s, n) = s
    <2>1. /\ 1 \in 1 .. Len(s) + 1 /\ n \in 1 - 1 .. Len(s) /\ Len(s) \in n .. Len(s)
      BY <1>1
    <2>2. SubSeq(s, 1, n) \o SubSeq(s, n + 1, Len(s)) = SubSeq(s, 1, Len(s))
      BY <2>1, ConcatAdjacentSubSeq DEF Keys
    <2>. QED  BY <2>2, SubSeqFull DEF Take, Drop, Keys
  <1>. QED  BY <1>2, <1>3, <1>4, <1>5, <1>6, <1>7

LEMMA HeadTail ==
    ASSUME NEW s \in Keys, s # <<>>
    PROVE  /\ Head(s) = s[1] /\ s[1] \in Byte /\ <<s[1]>> \in Keys
           /\ Tail(s) \in Keys /\ Len(Tail(s)) = Len(s) - 1 /\ s = <<s[1]>> \o Tail(s)
           /\ \A i \in 1 .. Len(Tail(s)) : Tail(s)[i] = s[i + 1]
  <1>1. Len(s) \in Nat /\ Len(s) # 0
    BY KeysFacts
  <1>2. /\ Tail(s) \in Keys /\ Len(Tail(s)) = Len(s) - 1
        /\ \A i \in 1 .. Len(Tail(s)) : Tail(s)[i] = s[i + 1]
    BY HeadTailProperties DEF Keys
  <1>3. s[1] \in Byte /\ <<s[1]>> \in Keys /\ Head(s) = s[1]
    BY <1>1, KeysFacts DEF Keys
  <1>4. Take(s, 1) \o Drop(s, 1) = s /\ Len(Take(s, 1)) = 1 /\ Take(s, 1)[1] = s[1] /\ Take(s, 1) \in Keys
    <2>1. 1 \in 0 .. Len(s) /\ 1 \in 1 .. 1
      BY <1>1
    <2>. QED  BY <2>1, TakeDropFacts
  <1>5. Take(s, 1) = <<s[1]>>
    <2>1. Len(<<s[1]>>) = 1 /\ <<s[1]>>[1] = s[1]
      OBVIOUS
    <2>. QED  BY <1>3, <1>4, <2>1, SeqEqual DEF Keys
  <1>6. Drop(s, 1) = Tail(s)
    BY TailIsSubSeq DEF Drop, Keys
  <1>. QED  BY <1>2, <1>3, <1>4, <1>5, <1>6
-----------------------------------------------------------------------------
(* Counting.                                                               *)

LEMMA CountType ==
    ASSUME NEW s \in Keys, NEW b
    PROVE  Count(s, b) \in Nat /\ IsFiniteSet({i \in DOMAIN s : s[i] = b})
  <1>1. IsFiniteSet(1 .. Len(s))
    BY KeysFacts, FS_Interval
  <1>2. {i \in DOMAIN s : s[i] = b} \in SUBSET (1 .. Len(s))
    BY KeysFacts
  <1>3. IsFiniteSet({i \in DOMAIN s : s[i] = b})
    BY <1>1, <1>2, FS_Subset
  <1>. QED  BY <1>3, FS_CardinalityType DEF Count

LEMMA CountJoin ==
    ASSUME NEW s \in Keys, NEW t \in Keys, NEW b
    PROVE  Count(s \o t, b) = Count(s, b) + Count(t, b)
  <1>. DEFINE A == {i \in DOMAIN s : s[i] = b}
              B == {i \in DOMAIN t : t[i] = b}
              C == {i \in DOMAIN (s \o t) : (s \o t)[i] = b}
              M == {i \in C : i > Len(s)}
              f == [i \in B |-> Len(s) + i]
  <1>1. /\ Len(s) \in Nat /\ DOMAIN s = 1 .. Len(s) /\ Len(t) \in Nat /\ DOMAIN t = 1 .. Len(t)
        /\ DOMAIN (s \o t) = 1 .. Len(s) + Len(t)
        /\ \A i \in 1 .. Len(s) : (s \o t)[i] = s[i]
        /\ \A i \in 1 .. Len(t) : (s \o t)[Len(s) + i] = t[i]
    BY KeysFacts, JoinFacts
  <1>2. IsFiniteSet(A) /\ IsFiniteSet(B)
    BY CountType
  <1>3. \A i \in C : i > Len(s) => i - Len(s) \in B
    <2>. SUFFICES ASSUME NEW i \in C, i > Len(s) PROVE i - Len(s) \in B
      OBVIOUS
    <2>1. i - Len(s) \in 1 .. Len(t) /\ Len(s) + (i - Len(s)) = i
      BY <1>1
    <2>. QED  BY <1>1, <2>1
  <1>4. \A i \in B : Len(s) + i \in M
    <2>. SUFFICES ASSUME NEW i \in B PROVE Len(s) + i \in M
      OBVIOUS
    <2>1. Len(s) + i \in 1 .. Len(s) + Len(t) /\ Len(s) + i > Len(s)
      BY <1>1
    <2>. QED  BY <1>1, <2>1
  <1>5. f \in Bijection(B, M)
    <2>1. f \in [B -> M]
      BY <1>4
    <2>2. \A i, j \in B : f[i] = f[j] => i = j
      BY <1>1
    <2>3. \A m \in M : \E i \in B : f[i] = m
      <3>. SUFFICES ASSUME NEW m \in M PROVE \E i \in B : f[i] = m
        OBVIOUS
      <3>1. m - Len(s) \in B /\ Len(s) + (m - Len(s)) = m
        BY <1>1, <1>3
      <3>. QED  BY <3>1
    <2>. HIDE DEF f, B, M
    <2>. QED  BY <2>1, <2>2, <2>3 DEF Bijection, Injection, Surjection, IsInjective
  <1>6. IsFiniteSet(M) /\ Cardinality(M) = Cardinality(B)
    <2>1. ExistsBijection(B, M)
      BY <1>5 DEF ExistsBijection
    <2>. QED  BY <2>1, <1>2, FS_Bijection
  <1>7. C = A \cup M /\ A \cap M = {}
    BY <1>1
  <1>8. Cardinality(C) = Cardinality(A) + Cardinality(M) - Cardinality(A \cap M) /\ Cardinality(A \cap M) = 0
    BY <1>2, <1>6, <1>7, FS_Union, FS_EmptySet
  <1>9. Cardinality(A) \in Nat /\ Cardinality(B) \in Nat
    BY <1>2, FS_CardinalityType
  <1>10. Cardinality(C) = Cardinality(A) + Cardinality(B)
    <2>. HIDE DEF A, B, C, M
    <2>. QED  BY <1>6, <1>8, <1>9
  <1>. QED  BY <1>10 DEF Count

LEMMA CountEmpty == ASSUME NEW b PROVE Count(<<>>, b) = 0
  <1>1. {i \in DOMAIN <<>> : <<>>[i] = b} = {}
    BY NoKeys, KeysFacts
  <1>. QED  BY <1>1, FS_EmptySet DEF Count

LEMMA CountOne ==
    ASSUME NEW x \in Byte, NEW b
    PROVE  Count(<<x>>, b) = IF x = b THEN 1 ELSE 0
  <1>1. DOMAIN <<x>> = {1} /\ <<x>>[1] = x
    <2>1. Len(<<x>>) = 1 /\ <<x>> \in Keys /\ <<x>>[1] = x
      BY DEF Keys
    <2>2. 1 .. 1 = {1}
      OBVIOUS
    <2>. QED  BY <2>1, <2>2, KeysFacts
  <1>2. {i \in DOMAIN <<x>> : <<x>>[i] = b} = IF x = b THEN {1} ELSE {}
    BY <1>1
  <1>. QED  BY <1>2, FS_EmptySet, FS_Singleton DEF Count

LEMMA CountTakeDrop ==
    ASSUME NEW s \in Keys, NEW n \in 0 .. Len(s), NEW b
    PROVE  Count(s, b) = Count(Take(s, n), b) + Count(Drop(s, n), b)
  <1>1. Take(s, n) \in Keys /\ Drop(s, n) \in Keys /\ Take(s, n) \o Drop(s, n) = s
    BY TakeDropFacts
  <1>2. Count(Take(s, n) \o Drop(s, n), b) = Count(Take(s, n), b) + Count(Drop(s, n), b)
    BY <1>1, CountJoin
  <1>. QED  BY <1>1, <1>2

LEMMA CountAppend ==
    ASSUME NEW s \in Keys, NEW x \in Byte, NEW b
    PROVE  Count(Append(s, x), b) = Count(s, b) + IF x = b THEN 1 ELSE 0
  <1>1. Append(s, x) = s \o <<x>> /\ <<x>> \in Keys
    BY AppendIsConcat DEF Keys
  <1>. QED  BY <1>1, CountJoin, CountOne

LEMMA CountHeadTail ==
    ASSUME NEW s \in Keys, s # <<>>, NEW b
    PROVE  Count(s, b) = Count(Tail(s), b) + IF s[1] = b THEN 1 ELSE 0
  <1>1. Count(s, b) = Count(<<s[1]>>, b) + Count(Tail(s), b)
    <2>1. Tail(s) \in Keys /\ <<s[1]>> \in Keys /\ s = <<s[1]>> \o Tail(s)
      BY HeadTail
    <2>2. Count(<<s[1]>> \o Tail(s), b) = Count(<<s[1]>>, b) + Count(Tail(s), b)
      BY <2>1, CountJoin
    <2>. QED  BY <2>1, <2>2
  <1>2. Count(<<s[1]>>, b) = IF s[1] = b THEN 1 ELSE 0
    BY HeadTail, CountOne
  <1>3. Count(Tail(s), b) \in Nat
    BY HeadTail, CountType
  <1>. QED  BY <1>1, <1>2, <1>3

-----------------------------------------------------------------------------
(* Which bytes a sequence holds, and in which order.                       *)

LEMMA RangeFacts ==
    ASSUME NEW s \in Keys
    PROVE  /\ Range(s) \subseteq Byte /\ Range(s) = {s[i] : i \in 1 .. Len(s)}
           /\ \A i \in 1 .. Len(s) : s[i] \in Range(s)
  <1>1. Range(s) = {s[i] : i \in 1 .. Len(s)}
    BY RangeEquality DEF Keys
  <1>. QED  BY <1>1, KeysFacts

LEMMA RangeEmpty == Range(<<>>) = {}
  BY NoKeys, RangeFacts

LEMMA RangeJoin ==
    ASSUME NEW s \in Keys, NEW t \in Keys PROVE Range(s \o t) = Range(s) \cup Range(t)
  BY RangeConcatenation DEF Keys

LEMMA RangeOne == ASSUME NEW x \in Byte PROVE <<x>> \in Keys /\ Range(<<x>>) = {x}
  <1>1. <<x>> \in Keys /\ Len(<<x>>) = 1 /\ <<x>>[1] = x
    BY DEF Keys
  <1>2. 1 .. 1 = {1}
    OBVIOUS
  <1>. QED  BY <1>1, <1>2, RangeFacts

LEMMA RangeTakeDrop ==
    ASSUME NEW s \in Keys, NEW n \in 0 .. Len(s)
    PROVE  Range(Take(s, n)) \cup Range(Drop(s, n)) = Range(s)
  <1>1. Take(s, n) \in Keys /\ Drop(s, n) \in Keys /\ Take(s, n) \o Drop(s, n) = s
    BY TakeDropFacts
  <1>. QED  BY <1>1, RangeJoin

LEMMA RangeAppend ==
    ASSUME NEW s \in Keys, NEW x \in Byte
    PROVE  Append(s, x) \in Keys /\ Range(Append(s, x)) = Range(s) \cup {x}
  <1>1. Append(s, x) = s \o <<x>>
    BY AppendIsConcat DEF Keys
  <1>. QED  BY <1>1, RangeOne, RangeJoin, JoinFacts

LEMMA RangeHeadTail ==
    ASSUME NEW s \in Keys, s # <<>>
    PROVE  Range(s) = {s[1]} \cup Range(Tail(s))
  <1>1. Tail(s) \in Keys /\ s[1] \in Byte /\ <<s[1]>> \in Keys /\ s = <<s[1]>> \o Tail(s)
    BY HeadTail
  <1>2. Range(<<s[1]>> \o Tail(s)) = Range(<<s[1]>>) \cup Range(Tail(s))
    BY <1>1, RangeJoin
  <1>. QED  BY <1>1, <1>2, RangeOne

LEMMA CountRange ==
    ASSUME NEW s \in Keys, NEW b
    PROVE  Count(s, b) \in Nat /\ (Count(s, b) = 0 <=> b \notin Range(s))
  <1>1. {i \in DOMAIN s : s[i] = b} = {} <=> b \notin Range(s)
    BY KeysFacts, RangeFacts
  <1>. QED  BY <1>1, CountType, FS_EmptySet DEF Count

\* Every byte of s was typed before every byte of t.
Precedes(s, t) == \A x \in Range(s), y \in Range(t) : x < y

LEMMA IncreasingJoin ==
    ASSUME NEW s \in Keys, NEW t \in Keys
    PROVE  Increasing(s \o t) <=> Increasing(s) /\ Increasing(t) /\ Precedes(s, t)
  <1>1. /\ Len(s) \in Nat /\ DOMAIN s = 1 .. Len(s) /\ Len(t) \in Nat /\ DOMAIN t = 1 .. Len(t)
        /\ s \o t \in Keys /\ DOMAIN (s \o t) = 1 .. Len(s) + Len(t)
        /\ \A i \in 1 .. Len(s) : (s \o t)[i] = s[i]
        /\ \A i \in 1 .. Len(t) : (s \o t)[Len(s) + i] = t[i]
    BY KeysFacts, JoinFacts
  <1>2. Range(s) = {s[i] : i \in 1 .. Len(s)} /\ Range(t) = {t[i] : i \in 1 .. Len(t)}
    BY RangeFacts
  <1>3. ASSUME Increasing(s \o t) PROVE Increasing(s) /\ Increasing(t) /\ Precedes(s, t)
    <2>1. \A i, j \in 1 .. Len(s) + Len(t) : i < j => (s \o t)[i] < (s \o t)[j]
      BY <1>1, <1>3 DEF Increasing
    <2>2. Increasing(s)
      <3>. SUFFICES ASSUME NEW i \in 1 .. Len(s), NEW j \in 1 .. Len(s), i < j PROVE s[i] < s[j]
        BY <1>1 DEF Increasing
      <3>1. (s \o t)[i] < (s \o t)[j]
        BY <1>1, <2>1
      <3>. QED  BY <1>1, <3>1
    <2>3. Increasing(t)
      <3>. SUFFICES ASSUME NEW i \in 1 .. Len(t), NEW j \in 1 .. Len(t), i < j PROVE t[i] < t[j]
        BY <1>1 DEF Increasing
      <3>1. Len(s) + i \in 1 .. Len(s) + Len(t) /\ Len(s) + j \in 1 .. Len(s) + Len(t) /\ Len(s) + i < Len(s) + j
        BY <1>1
      <3>2. (s \o t)[Len(s) + i] < (s \o t)[Len(s) + j]
        BY <2>1, <3>1
      <3>. QED  BY <1>1, <3>2
    <2>4. Precedes(s, t)
      <3>. SUFFICES ASSUME NEW i \in 1 .. Len(s), NEW j \in 1 .. Len(t) PROVE s[i] < t[j]
        BY <1>2 DEF Precedes
      <3>1. i \in 1 .. Len(s) + Len(t) /\ Len(s) + j \in 1 .. Len(s) + Len(t) /\ i < Len(s) + j
        BY <1>1
      <3>2. (s \o t)[i] < (s \o t)[Len(s) + j]
        BY <2>1, <3>1
      <3>. QED  BY <1>1, <3>2
    <2>. QED  BY <2>2, <2>3, <2>4
  <1>4. ASSUME Increasing(s), Increasing(t), Precedes(s, t) PROVE Increasing(s \o t)
    <2>. SUFFICES ASSUME NEW i \in 1 .. Len(s) + Len(t), NEW j \in 1 .. Len(s) + Len(t), i < j
                  PROVE  (s \o t)[i] < (s \o t)[j]
      BY <1>1 DEF Increasing
    <2>1. CASE j <= Len(s)
      <3>1. i \in 1 .. Len(s) /\ j \in 1 .. Len(s)
        BY <1>1, <2>1
      <3>2. s[i] < s[j]
        BY <1>1, <1>4, <3>1 DEF Increasing
      <3>. QED  BY <1>1, <3>1, <3>2
    <2>2. CASE i > Len(s)
      <3>. DEFINE k == i - Len(s)
                  l == j - Len(s)
      <3>1. k \in 1 .. Len(t) /\ l \in 1 .. Len(t) /\ k < l /\ i = Len(s) + k /\ j = Len(s) + l
        BY <1>1, <2>2
      <3>2. t[k] < t[l]
        BY <1>1, <1>4, <3>1 DEF Increasing
      <3>. HIDE DEF k, l
      <3>. QED  BY <1>1, <3>1, <3>2
    <2>3. CASE i <= Len(s) /\ j > Len(s)
      <3>. DEFINE l == j - Len(s)
      <3>1. i \in 1 .. Len(s) /\ l \in 1 .. Len(t) /\ j = Len(s) + l
        BY <1>1, <2>3
      <3>2. s[i] < t[l]
        BY <1>2, <1>4, <3>1 DEF Precedes
      <3>. HIDE DEF l
      <3>. QED  BY <1>1, <3>1, <3>2
    <2>. QED  BY <1>1, <2>1, <2>2, <2>3
  <1>. QED  BY <1>3, <1>4

LEMMA IncreasingEmpty == Increasing(<<>>)
  BY NoKeys, KeysFacts DEF Increasing
-----------------------------------------------------------------------------
(* Steps that leave the bytes where they are.                              *)

LEMMA Pieces ==
    ASSUME TypeOK
    PROVE  /\ tty \in Keys /\ r.rest \in Keys /\ r.tail \in Keys /\ slave \in Keys /\ got \in Keys
           /\ prompt.pending \in Keys /\ prompt.read \in Keys
           /\ got \o slave \in Keys /\ got \o slave \o r.rest \in Keys /\ Chain \in Keys
           /\ Len(tty) \in Nat /\ typed \in Nat
  BY KeysFacts, JoinFacts DEF TypeOK, Thread, Chain

LEMMA RelayFacts ==
    /\ MaxTyped \in Nat /\ Chunk \in Nat /\ Room \in Nat /\ MaxStops \in Nat
    /\ Suspend \subseteq 1 .. MaxTyped
  BY RelayAssumption

LEMMA Undisturbed ==
    ASSUME IInv, UNCHANGED <<typed, tty, slave, got, signals>>, r'.rest = r.rest, r'.tail = r.tail,
           prompt'.pending = prompt.pending, prompt'.read = prompt.read
    PROVE  CountInv' /\ QueueInv' /\ Increasing(Chain)'
  <1>1. CountInv'
    BY DEF IInv, CountInv, Held
  <1>2. QueueInv'
    BY DEF IInv, QueueInv, Fetched
  <1>3. Increasing(Chain)'
    <2>1. Chain' = Chain
      BY DEF Chain
    <2>. QED  BY <2>1 DEF IInv, OrderInv, Increasing
  <1>. QED  BY <1>1, <1>2, <1>3

LEMMA ThreadMoves ==
    ASSUME IInv, r' \in Thread, r'.rest = r.rest, r'.tail = r.tail, vmin' \in BOOLEAN, PhaseInv',
           UNCHANGED <<typed, tty, slave, child, got, paused, stop, sh, stops, prompt, signals, birth>>,
           r'.pc \in {"write", "put", "signal"} =>
              r.pc \in {"write", "put", "signal"} \/ ~ paused \/ r.rest = <<>>
    PROVE  IInv'
  <1>1. TypeOK'
    BY DEF IInv, TypeOK
  <1>2. CountInv' /\ QueueInv' /\ Increasing(Chain)'
    BY Undisturbed
  <1>3. OrderInv'
    BY <1>2 DEF IInv, OrderInv, Increasing
  <1>4. BirthInv'
    <2>1. r.rest = <<>> => Older(r.rest)
      BY RangeEmpty DEF Older
    <2>. QED  BY <2>1 DEF IInv, BirthInv, Older
  <1>. QED  BY <1>1, <1>2, <1>3, <1>4 DEF IInv

LEMMA TopKeeps == ASSUME IInv, Top PROVE IInv'
  <1>1. r' \in Thread /\ r'.rest = r.rest /\ r'.tail = r.tail /\ r'.pc = "poll" /\ (r'.watch => r.tail = <<>>)
    BY DEF Top, IInv, TypeOK, Thread
  <1>2. UNCHANGED <<world, tty, slave, signals>> /\ r.pc = "top"
    BY DEF Top
  <1>3. PhaseInv'
    BY <1>1, <1>2 DEF IInv, PhaseInv, Holding, world
  <1>. QED  BY <1>1, <1>2, <1>3, ThreadMoves DEF world, IInv, TypeOK

LEMMA PollKeeps == ASSUME IInv, Poll PROVE IInv'
  <1>1. /\ r' \in Thread /\ r'.rest = r.rest /\ r'.tail = r.tail
        /\ r'.pc \in {"exit", "flush", "forward", "top"} /\ (r'.pc = "forward" => r.watch)
    BY DEF Poll, IInv, TypeOK, Thread
  <1>2. UNCHANGED <<world, tty, slave, signals>> /\ r.pc = "poll"
    BY DEF Poll
  <1>3. PhaseInv'
    BY <1>1, <1>2 DEF IInv, PhaseInv, Holding, world
  <1>. QED  BY <1>1, <1>2, <1>3, ThreadMoves DEF world, IInv, TypeOK

LEMMA ForwardKeeps == ASSUME IInv, Forward \/ Ready \/ ExitRelay PROVE IInv'
  <1>1. /\ r' \in Thread /\ r'.rest = r.rest /\ r'.tail = r.tail
        /\ r.pc \in {"forward", "ready", "exit"}
        /\ r'.pc \in IF r.pc = "exit" THEN {"done"} ELSE {"top", "ready", "read"}
    BY DEF Forward, Ready, ExitRelay, Go, IInv, TypeOK, Thread
  <1>2. /\ UNCHANGED <<typed, tty, slave, child, got, paused, stop, sh, stops, prompt, signals, birth>>
        /\ vmin' \in BOOLEAN
    BY DEF Forward, Ready, ExitRelay, world, IInv, TypeOK
  <1>3. PhaseInv'
    BY <1>1, <1>2 DEF IInv, PhaseInv, Holding
  <1>. QED  BY <1>1, <1>2, <1>3, ThreadMoves

LEMMA ChildMoves == ASSUME IInv, ChildStops \/ ChildExits PROVE IInv'
  <1>1. /\ UNCHANGED <<typed, tty, vmin, slave, got, paused, stop, r, sh, stops, prompt, signals, birth>>
        /\ child' \in {"run", "stopped", "exited"}
    BY DEF ChildStops, ChildExits, IInv, TypeOK
  <1>2. TypeOK'
    BY <1>1 DEF IInv, TypeOK
  <1>3. PhaseInv' /\ OrderInv' /\ BirthInv'
    BY <1>1, Undisturbed DEF IInv, PhaseInv, OrderInv, BirthInv, Older, Increasing
  <1>. QED  BY <1>1, <1>2, <1>3, Undisturbed DEF IInv

\* The shell changes nothing the relay holds; a pause starts a new suspension.
LEMMA ShellMoves ==
    ASSUME IInv, TypeOK', UNCHANGED <<typed, tty, slave, got, r, signals, birth>>,
           prompt'.pending = prompt.pending, prompt'.read = prompt.read,
           sh \in {"after", "taking"} <=> sh' \in {"after", "taking"},
           paused' /\ ~ paused => stops' > stops, stops' >= stops,
           paused' /\ paused => stops' = stops \/ stops' > stops
    PROVE  IInv'
  <1>1. CountInv' /\ QueueInv' /\ Increasing(Chain)' /\ PhaseInv'
    BY Undisturbed DEF IInv, PhaseInv
  <1>2. OrderInv'
    BY <1>1 DEF IInv, OrderInv, Increasing
  <1>3. BirthInv'
    <2>1. \A b \in 1 .. typed : birth[b] \in Nat /\ birth[b] <= stops
      BY LenProperties DEF IInv, TypeOK, BirthInv
    <2>2. stops \in Nat /\ stops' \in Nat
      BY DEF IInv, TypeOK
    <2>3. \A b \in 1 .. typed : birth[b] <= stops'
      BY <2>1, <2>2
    <2>4. Fetched <= typed
      BY Pieces DEF IInv, Fetched
    <2>5. ASSUME NEW s \in Keys, Below(s, Fetched), stops' > stops PROVE \A b \in Range(s) : birth[b] # stops'
      <3>. SUFFICES ASSUME NEW b \in Range(s) PROVE birth[b] # stops'
        OBVIOUS
      <3>1. b \in 1 .. typed
        BY <2>4, <2>5, RangeFacts, Pieces DEF IInv, Below, Byte, Fetched
      <3>. QED  BY <2>1, <2>2, <2>5, <3>1
    <2>6. CASE stops' > stops
      BY <2>3, <2>5, <2>6, Pieces DEF IInv, QueueInv, BirthInv, Older
    <2>7. CASE stops' = stops
      BY <2>2, <2>7 DEF IInv, BirthInv, Older
    <2>. QED  BY <2>2, <2>6, <2>7
  <1>. QED  BY <1>1, <1>2, <1>3 DEF IInv

LEMMA ShellKeeps ==
    ASSUME IInv, SetPaused \/ EnterPrompt \/ PromptPolls \/ FgModes \/ FgUnpause \/ FgContinue
                 \/ FgFails \/ Finish
    PROVE  IInv'
  <1>1. UNCHANGED <<typed, tty, slave, got, r, signals, birth, prompt>>
    BY DEF SetPaused, EnterPrompt, PromptPolls, FgModes, FgUnpause, FgContinue, FgFails, Finish,
       Same
  <1>2. /\ vmin' \in BOOLEAN /\ child' \in {"run", "stopped", "exited"} /\ paused' \in BOOLEAN
        /\ stop' \in BOOLEAN /\ stops' \in {stops, stops + 1} /\ (paused' => paused \/ stops' = stops + 1)
    <2>. USE DEF IInv, TypeOK
    <2>1. CASE SetPaused
      BY <2>1 DEF SetPaused, Same
    <2>2. CASE EnterPrompt
      BY <2>2 DEF EnterPrompt
    <2>3. CASE PromptPolls
      BY <2>3 DEF PromptPolls
    <2>4. CASE FgModes
      BY <2>4 DEF FgModes
    <2>5. CASE FgUnpause
      BY <2>5 DEF FgUnpause
    <2>6. CASE FgContinue
      BY <2>6 DEF FgContinue
    <2>7. CASE FgFails
      BY <2>7 DEF FgFails
    <2>8. CASE Finish
      BY <2>8 DEF Finish
    <2>. QED  BY <2>1, <2>2, <2>3, <2>4, <2>5, <2>6, <2>7, <2>8
  <1>3. /\ sh' \in {"run", "suspended", "prompt", "reading", "fg", "continue", "joining", "after", "taking"}
        /\ sh \in {"after", "taking"} <=> sh' \in {"after", "taking"}
    BY DEF SetPaused, EnterPrompt, PromptPolls, FgModes, FgUnpause, FgContinue, FgFails, Finish
  <1>4. TypeOK'
    BY <1>1, <1>2, <1>3 DEF IInv, TypeOK
  <1>5. stops \in Nat
    BY DEF IInv, TypeOK
  <1>6. stops' >= stops /\ (paused' /\ ~ paused => stops' > stops) /\ (stops' = stops \/ stops' > stops)
    BY <1>2, <1>5
  <1>. QED  BY <1>1, <1>3, <1>4, <1>6, ShellMoves
-----------------------------------------------------------------------------
(* Steps that move bytes.                                                  *)

Ordered(a, b, c, d) ==
    /\ Increasing(a) /\ Increasing(b) /\ Increasing(c) /\ Increasing(d)
    /\ Precedes(a, b) /\ Precedes(a, c) /\ Precedes(a, d)
    /\ Precedes(b, c) /\ Precedes(b, d) /\ Precedes(c, d)

LEMMA ChainOrdered ==
    ASSUME NEW a \in Keys, NEW b \in Keys, NEW c \in Keys, NEW d \in Keys
    PROVE  Increasing(a \o b \o c \o d) <=> Ordered(a, b, c, d)
  <1>. a \o b \in Keys /\ a \o b \o c \in Keys
    BY JoinFacts
  <1>1. Increasing(a \o b \o c \o d) <=> Increasing(a \o b \o c) /\ Increasing(d) /\ Precedes(a \o b \o c, d)
    BY IncreasingJoin
  <1>2. Increasing(a \o b \o c) <=> Increasing(a \o b) /\ Increasing(c) /\ Precedes(a \o b, c)
    BY IncreasingJoin
  <1>3. Increasing(a \o b) <=> Increasing(a) /\ Increasing(b) /\ Precedes(a, b)
    BY IncreasingJoin
  <1>4. Range(a \o b) = Range(a) \cup Range(b)
    BY RangeJoin
  <1>5. Range(a \o b \o c) = Range(a) \cup Range(b) \cup Range(c)
    BY <1>4, RangeJoin
  <1>6. Precedes(a \o b, c) <=> Precedes(a, c) /\ Precedes(b, c)
    BY <1>4 DEF Precedes
  <1>7. Precedes(a \o b \o c, d) <=> Precedes(a, d) /\ Precedes(b, d) /\ Precedes(c, d)
    BY <1>5 DEF Precedes
  <1>. QED  BY <1>1, <1>2, <1>3, <1>6, <1>7 DEF Ordered

LEMMA ChainNow == ASSUME IInv PROVE Ordered(got, slave, r.rest, r.tail)
  BY Pieces, ChainOrdered DEF IInv, OrderInv, Chain

LEMMA ChainNext == ASSUME TypeOK', Ordered(got', slave', r'.rest, r'.tail) PROVE Increasing(Chain)'
  <1>1. got' \in Keys /\ slave' \in Keys /\ r'.rest \in Keys /\ r'.tail \in Keys
    BY DEF TypeOK, Thread
  <1>2. Increasing(got' \o slave' \o r'.rest \o r'.tail)
    BY <1>1, ChainOrdered
  <1>. QED  BY <1>2 DEF Chain, Increasing

\* Everything but the relay thread and the queues.
Other == <<typed, vmin, child, paused, stop, sh, stops, signals, birth>>

\* The counts of the seven places, and their sum.
LEMMA HeldParts ==
    ASSUME TypeOK, NEW b
    PROVE  /\ Count(tty, b) \in Nat /\ Count(r.rest, b) \in Nat /\ Count(r.tail, b) \in Nat
           /\ Count(slave, b) \in Nat /\ Count(got, b) \in Nat
           /\ Count(prompt.pending, b) \in Nat /\ Count(prompt.read, b) \in Nat
  BY Pieces, CountType

LEMMA HeldPartsNext == ASSUME TypeOK', NEW b PROVE Held(b)' \in Nat
  <1>1. /\ tty' \in Keys /\ r'.rest \in Keys /\ r'.tail \in Keys /\ slave' \in Keys /\ got' \in Keys
        /\ prompt'.pending \in Keys /\ prompt'.read \in Keys
    BY DEF TypeOK, Thread
  <1>2. /\ Count(tty', b) \in Nat /\ Count(r'.rest, b) \in Nat /\ Count(r'.tail, b) \in Nat
        /\ Count(slave', b) \in Nat /\ Count(got', b) \in Nat
        /\ Count(prompt'.pending, b) \in Nat /\ Count(prompt'.read, b) \in Nat
    BY <1>1, CountType
  <1>. QED  BY <1>2 DEF Held

\* A chunk in hand becomes the tail, or the tail the chunk in hand.
LEMMA Exchange ==
    ASSUME IInv, r' \in Thread, UNCHANGED Other, UNCHANGED <<tty, slave, got, prompt>>, PhaseInv',
           r'.pc \notin {"write", "put", "signal"},
           \/ r.rest = <<>> /\ r'.rest = r.tail /\ r'.tail = <<>>
           \/ r.tail = <<>> /\ r'.tail = r.rest /\ r'.rest = <<>>
    PROVE  IInv'
  <1>1. TypeOK'
    BY DEF IInv, TypeOK, Other
  <1>2. ASSUME NEW b PROVE Held(b)' = Held(b)
    <2>1. /\ Count(r.rest, b) \in Nat /\ Count(r.tail, b) \in Nat
          /\ Count(r'.rest, b) + Count(r'.tail, b) = Count(r.rest, b) + Count(r.tail, b)
          /\ Count(r'.rest, b) \in Nat /\ Count(r'.tail, b) \in Nat
      BY HeldParts, CountEmpty DEF IInv
    <2>2. Held(b)' = Count(tty, b) + Count(r'.rest, b) + Count(r'.tail, b) + Count(slave, b) + Count(got, b)
                     + Count(prompt.pending, b) + Count(prompt.read, b)
      BY DEF Held, Count
    <2>3. Held(b) = Count(tty, b) + Count(r.rest, b) + Count(r.tail, b) + Count(slave, b) + Count(got, b)
                    + Count(prompt.pending, b) + Count(prompt.read, b)
      BY DEF Held
    <2>4. /\ Count(tty, b) \in Nat /\ Count(slave, b) \in Nat /\ Count(got, b) \in Nat
          /\ Count(prompt.pending, b) \in Nat /\ Count(prompt.read, b) \in Nat
      BY HeldParts DEF IInv
    <2>. DEFINE old1 == Count(r.rest, b)
                old2 == Count(r.tail, b)
                new1 == Count(r'.rest, b)
                new2 == Count(r'.tail, b)
                c1 == Count(tty, b)
                c2 == Count(slave, b)
                c3 == Count(got, b)
                c4 == Count(prompt.pending, b)
                c5 == Count(prompt.read, b)
    <2>5. Held(b)' = c1 + new1 + new2 + c2 + c3 + c4 + c5 /\ Held(b) = c1 + old1 + old2 + c2 + c3 + c4 + c5
      BY <2>2, <2>3
    <2>6. /\ new1 \in Nat /\ new2 \in Nat /\ old1 \in Nat /\ old2 \in Nat /\ new1 + new2 = old1 + old2
          /\ c1 \in Nat /\ c2 \in Nat /\ c3 \in Nat /\ c4 \in Nat /\ c5 \in Nat
      BY <2>1, <2>4
    <2>. HIDE DEF old1, old2, new1, new2, c1, c2, c3, c4, c5
    <2>. QED  BY <2>5, <2>6
  <1>3. CountInv'
    BY <1>2 DEF IInv, CountInv, Other
  <1>4. QueueInv'
    BY RangeEmpty DEF IInv, QueueInv, Fetched, Other, Below
  <1>5. Ordered(got, slave, r'.rest, r'.tail)
    BY ChainNow, RangeEmpty, IncreasingEmpty DEF Ordered, Precedes
  <1>6. Increasing(Chain)'
    BY <1>1, <1>5, ChainNext
  <1>7. OrderInv'
    BY <1>6 DEF IInv, OrderInv, Increasing, Other
  <1>8. BirthInv'
    BY DEF IInv, BirthInv, Older, Other
  <1>. QED  BY <1>1, <1>3, <1>4, <1>7, <1>8 DEF IInv

LEMMA FlushKeeps == ASSUME IInv, Flush PROVE IInv'
  <1>1. UNCHANGED Other /\ UNCHANGED <<tty, slave, got, prompt>> /\ r.pc = "flush" /\ r.rest = <<>>
    BY DEF Flush, world, Other, IInv, PhaseInv, Holding
  <1>2. CASE paused
    <2>1. r' \in Thread /\ r'.rest = r.rest /\ r'.tail = r.tail /\ r'.pc = "top"
      BY <1>2 DEF Flush, IInv, TypeOK, Thread
    <2>2. PhaseInv'
      BY <1>1, <2>1 DEF IInv, PhaseInv, Holding
    <2>. QED  BY <1>1, <2>1, <2>2, ThreadMoves DEF Other, IInv, TypeOK
  <1>3. CASE ~ paused
    <2>1. r' \in Thread /\ r'.rest = r.tail /\ r'.tail = <<>> /\ r'.pc = "segment"
      BY <1>3, NoKeys DEF Flush, Owned, IInv, TypeOK, Thread, Holding
    <2>2. PhaseInv'
      BY <1>1, <2>1 DEF IInv, PhaseInv, Holding
    <2>. QED  BY <1>1, <2>1, <2>2, Exchange
  <1>. QED  BY <1>2, <1>3

\* The chunk in hand is kept for later.
LEMMA Keeps ==
    ASSUME IInv, r.pc \in {"segment", "write", "put"}, UNCHANGED <<world, tty, slave, signals>>,
           NEW blocked \in BOOLEAN, NEW left \in Nat,
           r' = [r EXCEPT !.pc = "top", !.tail = @ \o r.rest, !.rest = <<>>, !.left = left, !.blocked = blocked]
    PROVE  IInv'
  <1>1. UNCHANGED Other /\ UNCHANGED <<tty, slave, got, prompt>> /\ r.tail = <<>>
    BY DEF world, Other, IInv, PhaseInv, Holding
  <1>2. r.tail \o r.rest = r.rest
    BY <1>1, Pieces, JoinEmpty DEF IInv
  <1>3. r' \in Thread /\ r'.rest = <<>> /\ r'.tail = r.rest /\ r'.pc = "top"
    BY <1>2, NoKeys DEF IInv, TypeOK, Thread, Holding
  <1>4. PhaseInv'
    BY <1>1, <1>3 DEF IInv, PhaseInv, Holding
  <1>. QED  BY <1>1, <1>3, <1>4, Exchange

LEMMA LeastNumber ==
    ASSUME NEW T \in SUBSET Nat, T # {}
    PROVE  \E i \in T : \A j \in T : i <= j
  <1>1. PICK i \in T : \A j \in T : ~ (<<j, i>> \in OpToRel(<, Nat))
    BY NatLessThanWellFounded, WFMin
  <1>2. \A j \in T : ~ (j < i)
    BY <1>1 DEF OpToRel
  <1>. QED  BY <1>2

LEMMA EarliestFacts ==
    ASSUME TypeOK, r.rest # <<>>
    PROVE  /\ EarliestSignal \in 0 .. Len(r.rest)
           /\ EarliestSignal # 0 => r.rest[EarliestSignal] \in Suspend
  <1>. DEFINE at == {i \in DOMAIN r.rest : r.rest[i] \in Suspend}
  <1>1. Len(r.rest) \in Nat /\ DOMAIN r.rest = 1 .. Len(r.rest)
    BY Pieces, KeysFacts
  <1>2. CASE at = {} \/ ~ r.key
    BY <1>1, <1>2 DEF EarliestSignal
  <1>3. CASE at # {} /\ r.key
    <2>1. at \in SUBSET Nat
      BY <1>1
    <2>2. \E i \in at : \A j \in at : i <= j
      <3>. HIDE DEF at
      <3>. QED  BY <1>3, <2>1, LeastNumber
    <2>3. EarliestSignal = CHOOSE i \in at : \A j \in at : i <= j
      BY <1>3 DEF EarliestSignal
    <2>4. EarliestSignal \in at
      <3>. HIDE DEF at
      <3>. QED  BY <2>2, <2>3
    <2>. QED  BY <1>1, <2>4
  <1>. QED  BY <1>2, <1>3

LEMMA SegmentKeeps == ASSUME IInv, Segment PROVE IInv'
  <1>1. UNCHANGED <<world, tty, slave, signals>> /\ r.pc = "segment" /\ r.tail = <<>>
    BY DEF Segment, IInv, PhaseInv, Holding
  <1>2. CASE r.rest = <<>>
    <2>1. r' \in Thread /\ r'.rest = r.rest /\ r'.tail = r.tail /\ r'.pc \in {"top", "forward"}
      BY <1>2 DEF Segment, IInv, TypeOK, Thread
    <2>2. PhaseInv'
      BY <1>1, <1>2, <2>1 DEF IInv, PhaseInv, Holding, world
    <2>. QED  BY <1>1, <2>1, <2>2, ThreadMoves DEF world, IInv, TypeOK
  <1>3. CASE r.rest # <<>> /\ paused
    <2>1. r' = [r EXCEPT !.pc = "top", !.tail = @ \o r.rest, !.rest = <<>>, !.left = 0]
      BY <1>3 DEF Segment
    <2>2. r.blocked \in BOOLEAN /\ r.blocked = r.blocked
      BY DEF IInv, TypeOK, Thread
    <2>3. r' = [r EXCEPT !.pc = "top", !.tail = @ \o r.rest, !.rest = <<>>, !.left = 0, !.blocked = r.blocked]
      BY <2>1 DEF IInv, TypeOK, Thread
    <2>. QED  BY <1>1, <2>2, <2>3, Keeps
  <1>4. CASE r.rest # <<>> /\ ~ paused
    <2>. DEFINE left == IF EarliestSignal = 0 THEN Len(r.rest) ELSE EarliestSignal - 1
    <2>1. Len(r.rest) \in Nat
      BY Pieces, KeysFacts DEF IInv
    <2>2. /\ left \in Nat /\ left <= Len(r.rest)
          /\ left < Len(r.rest) => r.rest[left + 1] \in Suspend
      BY <1>4, <2>1, EarliestFacts DEF IInv
    <2>3. r' = [r EXCEPT !.pc = "write", !.left = left]
      BY <1>4 DEF Segment
    <2>. HIDE DEF left
    <2>4. r' \in Thread /\ r'.rest = r.rest /\ r'.tail = r.tail /\ r'.pc = "write" /\ r'.left = left
      BY <2>2, <2>3 DEF IInv, TypeOK, Thread, Holding
    <2>5. PhaseInv'
      BY <1>1, <2>2, <2>4 DEF IInv, PhaseInv, Holding, world
    <2>. QED  BY <1>1, <1>4, <2>4, <2>5, ThreadMoves DEF world, IInv, TypeOK
  <1>. QED  BY <1>2, <1>3, <1>4

LEMMA WriteKeeps == ASSUME IInv, Write PROVE IInv'
  <1>1. UNCHANGED <<world, tty, slave, signals>> /\ r.pc = "write" /\ r.tail = <<>>
    BY DEF Write, IInv, PhaseInv, Holding
  <1>2. /\ Len(r.rest) \in Nat /\ r.left \in Nat /\ r.left <= Len(r.rest)
        /\ r.rest = <<>> <=> Len(r.rest) = 0
        /\ r.left < Len(r.rest) => r.rest[r.left + 1] \in Suspend
    BY <1>1, Pieces, KeysFacts DEF IInv, PhaseInv, TypeOK, Thread
  <1>3. CASE r.left = 0 \/ ~ paused
    <2>1. /\ r' \in Thread /\ r'.rest = r.rest /\ r'.tail = r.tail /\ r'.left = r.left
          /\ r'.pc \in {r.back, "signal", "put"}
          /\ r'.pc = "signal" => r.left = 0 /\ r.rest # <<>>
          /\ r'.pc \notin {"signal", "put"} => r.rest = <<>>
      BY <1>1, <1>3 DEF Write, IInv, TypeOK, Thread, Holding
    <2>2. r.back \in {"top", "forward"}
      BY DEF IInv, TypeOK, Thread
    <2>3. r'.pc = "signal" => r.rest[1] \in Suspend
      <3>1. r.rest # <<>> /\ r.left = 0 => 0 < Len(r.rest) /\ 0 + 1 = 1
        BY <1>2
      <3>. QED  BY <1>2, <2>1, <3>1
    <2>4. PhaseInv'
      BY <1>1, <1>2, <2>1, <2>2, <2>3 DEF IInv, PhaseInv, Holding, world
    <2>. QED  BY <1>1, <2>1, <2>4, ThreadMoves DEF world, IInv, TypeOK
  <1>4. CASE r.left # 0 /\ paused
    <2>1. r' = [r EXCEPT !.pc = "top", !.tail = @ \o r.rest, !.rest = <<>>, !.left = 0]
      BY <1>4 DEF Write
    <2>2. r.blocked \in BOOLEAN
      BY DEF IInv, TypeOK, Thread
    <2>3. r' = [r EXCEPT !.pc = "top", !.tail = @ \o r.rest, !.rest = <<>>, !.left = 0, !.blocked = r.blocked]
      BY <2>1 DEF IInv, TypeOK, Thread
    <2>. QED  BY <1>1, <2>2, <2>3, Keeps
  <1>. QED  BY <1>3, <1>4

LEMMA PutFailsKeeps == ASSUME IInv, PutFails PROVE IInv'
  BY Keeps DEF PutFails

\* The bytes in hand that the slave's queue takes.
LEMMA PutKeeps == ASSUME IInv, Put PROVE IInv'
  <1>. DEFINE n == Smaller(r.left, Room - Len(slave))
              part == Take(r.rest, n)
              rest == Drop(r.rest, n)
  <1>1. /\ UNCHANGED <<world, tty, signals>> /\ UNCHANGED Other /\ UNCHANGED <<tty, got, prompt>>
        /\ r.pc = "put" /\ r.tail = <<>> /\ slave' = slave \o part
    BY DEF Put, IInv, PhaseInv, Holding, world, Other
  <1>2. /\ Len(r.rest) \in Nat /\ r.left \in Nat /\ r.left <= Len(r.rest) /\ Len(slave) \in Nat
        /\ Len(slave) <= Room /\ Room \in Nat
        /\ r.left < Len(r.rest) => r.rest[r.left + 1] \in Suspend
    BY <1>1, Pieces, KeysFacts, RelayFacts DEF IInv, PhaseInv, TypeOK, Thread
  <1>3. n \in 0 .. Len(r.rest) /\ n <= r.left /\ Len(slave) + n <= Room
    BY <1>2 DEF Smaller
  <1>4. CASE n = 0
    <2>1. part = <<>> /\ slave' = slave
      <3>1. part \in Keys /\ Len(part) = 0
        BY <1>3, <1>4, Pieces, TakeDropFacts DEF IInv
      <3>. QED  BY <1>1, <3>1, Pieces, KeysFacts, JoinEmpty DEF IInv
    <2>2. r' = [r EXCEPT !.pc = "top", !.tail = @ \o r.rest, !.rest = <<>>, !.left = 0]
      BY <1>4 DEF Put
    <2>3. r.blocked \in BOOLEAN
      BY DEF IInv, TypeOK, Thread
    <2>4. r' = [r EXCEPT !.pc = "top", !.tail = @ \o r.rest, !.rest = <<>>, !.left = 0, !.blocked = r.blocked]
      BY <2>2 DEF IInv, TypeOK, Thread
    <2>. QED  BY <1>1, <2>1, <2>3, <2>4, Keeps
  <1>5. CASE n # 0
    <2>1. r' = [r EXCEPT !.pc = "write", !.rest = rest, !.left = r.left - n]
      BY <1>5 DEF Put
    <2>2. /\ part \in Keys /\ rest \in Keys /\ Len(part) = n /\ Len(rest) = Len(r.rest) - n
          /\ part \o rest = r.rest /\ \A i \in 1 .. Len(r.rest) - n : rest[i] = r.rest[n + i]
      BY <1>3, Pieces, TakeDropFacts DEF IInv
    <2>3. slave' \in Keys /\ Len(slave') = Len(slave) + n
      <3>. HIDE DEF n, part
      <3>. QED  BY <1>1, <2>2, Pieces, JoinFacts DEF IInv
    <2>4. r.left - n \in Nat /\ r.left - n <= Len(rest)
      BY <1>2, <1>3, <2>2
    <2>5. r.left - n < Len(rest) => rest[(r.left - n) + 1] \in Suspend
      <3>1. r.left - n < Len(rest) => /\ r.left < Len(r.rest) /\ (r.left - n) + 1 \in 1 .. Len(r.rest) - n
                                      /\ n + ((r.left - n) + 1) = r.left + 1
        <4>. DEFINE left == r.left
                    len == Len(r.rest)
        <4>1. /\ n \in Nat /\ left \in Nat /\ len \in Nat /\ n <= left /\ left <= len
              /\ Len(rest) = len - n
          BY <1>2, <1>3, <2>2
        <4>. HIDE DEF n, rest, left, len
        <4>2. left - n < Len(rest) => /\ left < len /\ (left - n) + 1 \in 1 .. len - n
                                      /\ n + ((left - n) + 1) = left + 1
          BY <4>1
        <4>. QED  BY <4>2 DEF left, len
      <3>2. \A i \in 1 .. Len(r.rest) - n : rest[i] = r.rest[n + i]
        BY <2>2
      <3>. HIDE DEF n, rest
      <3>. QED  BY <1>2, <3>1, <3>2
    <2>. HIDE DEF n, part, rest
    <2>6. /\ r' \in Thread /\ r'.rest = rest /\ r'.tail = <<>> /\ r'.pc = "write"
          /\ r'.left = r.left - n
      BY <1>1, <2>1, <2>2, <2>4 DEF IInv, TypeOK, Thread, Holding
    <2>7. TypeOK'
      BY <1>1, <2>3, <2>6 DEF IInv, TypeOK, Other
    <2>8. PhaseInv'
      BY <1>2, <1>3, <2>3, <2>4, <2>5, <2>6 DEF IInv, PhaseInv, Holding
    <2>9. Range(slave') = Range(slave) \cup Range(part) /\ Range(r.rest) = Range(part) \cup Range(rest)
      BY <1>1, <2>2, Pieces, RangeJoin DEF IInv
    <2>10. CountInv'
      <3>1. ASSUME NEW b PROVE Held(b)' = Held(b)
        <4>1. /\ Count(slave', b) = Count(slave, b) + Count(part, b)
              /\ Count(r.rest, b) = Count(part, b) + Count(r'.rest, b)
          <5>1. Count(slave \o part, b) = Count(slave, b) + Count(part, b)
            BY <2>2, Pieces, CountJoin DEF IInv
          <5>2. Count(part \o rest, b) = Count(part, b) + Count(rest, b)
            BY <2>2, CountJoin
          <5>. QED  BY <1>1, <2>2, <2>6, <5>1, <5>2
        <4>2. Count(part, b) \in Nat /\ Count(r'.rest, b) \in Nat /\ Count(slave', b) \in Nat
          BY <2>2, <2>3, <2>6, CountType
        <4>. QED  BY <1>1, <2>6, <4>1, <4>2, HeldParts DEF Held, IInv
      <3>. QED  BY <1>1, <3>1 DEF IInv, CountInv, Other
    <2>11. QueueInv'
      BY <1>1, <2>6, <2>9, RangeEmpty DEF IInv, QueueInv, Fetched, Other, Below
    <2>12. OrderInv'
      <3>1. Ordered(got, slave, r.rest, r.tail)
        BY ChainNow
      <3>2. Increasing(part) /\ Increasing(rest) /\ Precedes(part, rest)
        BY <2>2, <3>1, IncreasingJoin DEF Ordered
      <3>3. Precedes(slave, part)
        BY <2>9, <3>1 DEF Ordered, Precedes
      <3>4. Increasing(slave')
        BY <1>1, <2>2, <3>1, <3>2, <3>3, Pieces, IncreasingJoin DEF Ordered, IInv
      <3>5. Ordered(got', slave', r'.rest, r'.tail)
        BY <1>1, <2>6, <2>9, <3>1, <3>2, <3>4, RangeEmpty, IncreasingEmpty DEF Ordered, Precedes
      <3>6. Increasing(Chain)'
        BY <2>7, <3>5, ChainNext
      <3>. QED  BY <1>1, <3>6 DEF IInv, OrderInv, Increasing, Other
    <2>13. BirthInv'
      BY <1>1, <2>6, <2>9 DEF IInv, BirthInv, Older, Other
    <2>. QED  BY <2>7, <2>8, <2>10, <2>11, <2>12, <2>13 DEF IInv
  <1>. QED  BY <1>4, <1>5

\* The relay reads the oldest bytes of the terminal.
LEMMA ReadKeeps == ASSUME IInv, Read PROVE IInv'
  <1>. DEFINE n == Smaller(Chunk, Len(tty))
              part == Take(tty, n)
  <1>1. /\ UNCHANGED <<world, slave, signals>> /\ UNCHANGED Other /\ UNCHANGED <<slave, got, prompt>>
        /\ r.pc = "read" /\ r.tail = <<>> /\ r.rest = <<>> /\ tty' = Drop(tty, n)
    BY DEF Read, IInv, PhaseInv, Holding, world, Other
  <1>2. Len(tty) \in Nat /\ Chunk \in Nat
    BY Pieces, RelayFacts DEF IInv
  <1>3. n \in 0 .. Len(tty)
    BY <1>2 DEF Smaller
  <1>4. /\ part \in Keys /\ tty' \in Keys /\ Len(part) = n /\ Len(tty') = Len(tty) - n
        /\ part \o tty' = tty /\ \A i \in 1 .. n : part[i] = tty[i]
        /\ \A i \in 1 .. Len(tty) - n : tty'[i] = tty[n + i]
    BY <1>1, <1>3, Pieces, TakeDropFacts DEF IInv
  <1>5. CASE n = 0
    <2>1. r' \in Thread /\ r'.rest = r.rest /\ r'.tail = r.tail /\ r'.pc = "top"
      BY <1>5 DEF Read, IInv, TypeOK, Thread
    <2>2. PhaseInv'
      BY <1>1, <2>1 DEF IInv, PhaseInv, Holding
    <2>3. tty' = tty
      <3>1. part = <<>>
        BY <1>4, <1>5, KeysFacts
      <3>. QED  BY <1>4, <3>1, JoinEmpty
    <2>. QED  BY <1>1, <2>1, <2>2, <2>3, ThreadMoves DEF Other, IInv, TypeOK
  <1>6. CASE n # 0
    <2>1. r' = [r EXCEPT !.pc = "segment", !.rest = part, !.back = "forward", !.key = Owned]
      BY <1>6 DEF Read
    <2>. HIDE DEF n, part
    <2>2. r' \in Thread /\ r'.rest = part /\ r'.tail = <<>> /\ r'.pc = "segment"
      BY <1>1, <1>4, <2>1 DEF Owned, IInv, TypeOK, Thread, Holding
    <2>3. TypeOK'
      BY <1>1, <1>4, <2>2 DEF IInv, TypeOK, Other
    <2>4. PhaseInv'
      BY <1>1, <2>2 DEF IInv, PhaseInv, Holding
    <2>5. Range(tty) = Range(part) \cup Range(tty')
      BY <1>4, RangeJoin
    <2>6. CountInv'
      <3>1. ASSUME NEW b PROVE Held(b)' = Held(b)
        <4>1. Count(tty, b) = Count(r'.rest, b) + Count(tty', b)
          BY <1>4, <2>2, CountJoin
        <4>2. Count(r.rest, b) = 0 /\ Count(r'.rest, b) \in Nat /\ Count(tty', b) \in Nat
          BY <1>1, <1>4, <2>2, CountEmpty, CountType
        <4>. QED  BY <1>1, <2>2, <4>1, <4>2, HeldParts DEF Held, IInv
      <3>. QED  BY <1>1, <3>1 DEF IInv, CountInv, Other
    <2>7. /\ typed \in Nat /\ Len(tty) <= typed /\ Fetched = typed - Len(tty) /\ Fetched \in Nat
          /\ Fetched' = Fetched + n /\ n \in Nat /\ n <= Len(tty)
      BY <1>1, <1>2, <1>3, <1>4, Pieces DEF IInv, QueueInv, Fetched, Other
    <2>8. \A i \in 1 .. Len(tty) : tty[i] = Fetched + i
      BY Pieces, KeysFacts DEF IInv, QueueInv
    <2>9. \A x \in Range(part) : Fetched < x /\ x <= Fetched'
      <3>. SUFFICES ASSUME NEW i \in 1 .. n PROVE Fetched < part[i] /\ part[i] <= Fetched'
        BY <1>4, RangeFacts
      <3>1. i \in 1 .. Len(tty) /\ part[i] = tty[i]
        BY <1>2, <1>4, <2>7
      <3>. QED  BY <2>7, <2>8, <3>1
    <2>10. ASSUME NEW s \in Keys, Below(s, Fetched) PROVE Below(s, Fetched') /\ Precedes(s, part)
      <3>1. Range(s) \subseteq Nat /\ Range(part) \subseteq Nat
        BY <1>4, RangeFacts DEF Byte
      <3>. QED  BY <2>7, <2>9, <2>10, <3>1 DEF Below, Precedes
    <2>11. QueueInv'
      <3>1. Len(tty') <= typed'
        BY <1>1, <1>2, <1>4, <2>7 DEF Other
      <3>2. \A i \in DOMAIN tty' : tty'[i] = Fetched' + i
        <4>. SUFFICES ASSUME NEW i \in 1 .. Len(tty) - n PROVE tty'[i] = Fetched' + i
          BY <1>4, KeysFacts
        <4>1. n + i \in 1 .. Len(tty) /\ tty'[i] = tty[n + i]
          BY <1>2, <1>4, <2>7
        <4>. QED  BY <2>7, <2>8, <4>1
      <3>3. Below(part, Fetched')
        BY <2>9 DEF Below
      <3>4. Below(<<>>, Fetched')
        BY RangeEmpty DEF Below
      <3>5. /\ Below(slave, Fetched') /\ Below(got, Fetched')
            /\ Below(prompt.pending, Fetched') /\ Below(prompt.read, Fetched')
        BY <2>10, Pieces DEF IInv, QueueInv
      <3>. QED  BY <1>1, <2>2, <3>1, <3>2, <3>3, <3>4, <3>5 DEF QueueInv
    <2>12. OrderInv'
      <3>1. Ordered(got, slave, r.rest, r.tail)
        BY ChainNow
      <3>2. Increasing(part)
        <4>1. part \in Keys /\ Increasing(tty)
          <5>1. DOMAIN tty = 1 .. Len(tty)
            BY Pieces, KeysFacts DEF IInv
          <5>. QED  BY <1>2, <1>4, <2>7, <2>8, <5>1 DEF Increasing
        <4>. QED  BY <1>4, <4>1, IncreasingJoin
      <3>3. Precedes(got, part) /\ Precedes(slave, part)
        BY <2>10, Pieces DEF IInv, QueueInv
      <3>4. Ordered(got', slave', r'.rest, r'.tail)
        BY <1>1, <2>2, <3>1, <3>2, <3>3, RangeEmpty, IncreasingEmpty DEF Ordered, Precedes
      <3>5. Increasing(Chain)'
        BY <2>3, <3>4, ChainNext
      <3>. QED  BY <1>1, <3>5 DEF IInv, OrderInv, Increasing, Other
    <2>13. BirthInv'
      BY <1>1, <2>2 DEF IInv, BirthInv, Older, Other
    <2>. QED  BY <2>3, <2>4, <2>6, <2>11, <2>12, <2>13 DEF IInv
  <1>. QED  BY <1>5, <1>6

\* A suspend key leaves the chunk in hand.
LEMMA SignalKeeps == ASSUME IInv, Signal PROVE IInv'
  <1>1. /\ UNCHANGED <<typed, vmin, got, paused, stop, sh, stops, prompt, birth, tty, slave>>
        /\ r.pc = "signal" /\ r.tail = <<>> /\ r.rest # <<>> /\ r.rest[1] \in Suspend
        /\ signals' = signals \cup {r.rest[1]} /\ child' \in {"run", "stopped", "exited"}
        /\ r' = [r EXCEPT !.pc = "segment", !.rest = Tail(r.rest)]
    BY DEF Signal, IInv, PhaseInv, Holding, TypeOK
  <1>. DEFINE key == r.rest[1]
  <1>2. /\ r.rest \in Keys /\ key \in Byte /\ Tail(r.rest) \in Keys /\ <<key>> \in Keys
        /\ r.rest = <<key>> \o Tail(r.rest) /\ Range(r.rest) = {key} \cup Range(Tail(r.rest))
    BY <1>1, Pieces, HeadTail, RangeHeadTail DEF IInv
  <1>3. r' \in Thread /\ r'.rest = Tail(r.rest) /\ r'.tail = <<>> /\ r'.pc = "segment"
    BY <1>1, <1>2 DEF IInv, TypeOK, Thread, Holding
  <1>4. key \in 1 .. typed
    <2>1. key \in Range(r.rest) /\ key \in Nat /\ key # 0
      BY <1>2 DEF Byte
    <2>2. key <= typed - Len(tty) /\ typed \in Nat /\ Len(tty) \in Nat
      BY <2>1, Pieces DEF IInv, QueueInv, Below, Fetched
    <2>. HIDE DEF key
    <2>. QED  BY <2>1, <2>2
  <1>5. TypeOK'
    BY <1>1, <1>3, <1>4 DEF IInv, TypeOK
  <1>6. PhaseInv'
    BY <1>1, <1>3 DEF IInv, PhaseInv, Holding
  <1>7. CountInv'
    <2>. SUFFICES ASSUME NEW b \in 1 .. typed PROVE Held(b)' = IF b \in signals' THEN 0 ELSE 1
      BY <1>1 DEF CountInv
    <2>1. Held(b) = IF b \in signals THEN 0 ELSE 1
      BY DEF IInv, CountInv
    <2>2. Count(r.rest, b) = Count(r'.rest, b) + IF key = b THEN 1 ELSE 0
      BY <1>1, <1>2, <1>3, CountHeadTail
    <2>3. Count(r'.rest, b) \in Nat
      BY <1>2, <1>3, CountType
    <2>4. Held(b) = Held(b)' + IF key = b THEN 1 ELSE 0
      <3>. DEFINE step == IF key = b THEN 1 ELSE 0
      <3>1. step \in Nat
        OBVIOUS
      <3>. HIDE DEF step
      <3>2. Count(r.rest, b) = Count(r'.rest, b) + step
        BY <2>2 DEF step
      <3>3. Held(b) = Held(b)' + step
        <4>. DEFINE old == Count(r.rest, b)
                    new == Count(r'.rest, b)
                    c1 == Count(tty, b)
                    c2 == Count(slave, b)
                    c3 == Count(got, b)
                    c4 == Count(prompt.pending, b)
                    c5 == Count(prompt.read, b)
        <4>1. /\ Held(b)' = c1 + new + 0 + c2 + c3 + c4 + c5
              /\ Held(b) = c1 + old + 0 + c2 + c3 + c4 + c5 /\ old = new + step
          BY <1>1, <1>3, <3>2, CountEmpty DEF Held
        <4>2. /\ new \in Nat /\ old \in Nat /\ c1 \in Nat /\ c2 \in Nat /\ c3 \in Nat
              /\ c4 \in Nat /\ c5 \in Nat
          BY <2>3, HeldParts DEF IInv
        <4>. HIDE DEF old, new, c1, c2, c3, c4, c5
        <4>. QED  BY <3>1, <4>1, <4>2
      <3>. QED  BY <3>3 DEF step
    <2>5. Held(b)' \in Nat
      BY <1>5, HeldPartsNext
    <2>. QED  BY <1>1, <2>1, <2>4, <2>5
  <1>8. QueueInv'
    BY <1>1, <1>2, <1>3, RangeEmpty DEF IInv, QueueInv, Fetched, Below
  <1>9. OrderInv'
    <2>1. Ordered(got, slave, r.rest, r.tail)
      BY ChainNow
    <2>2. Increasing(Tail(r.rest))
      BY <1>2, <2>1, IncreasingJoin DEF Ordered
    <2>3. Ordered(got', slave', r'.rest, r'.tail)
      BY <1>1, <1>2, <1>3, <2>1, <2>2, RangeEmpty, IncreasingEmpty DEF Ordered, Precedes
    <2>4. Increasing(Chain)'
      BY <1>5, <2>3, ChainNext
    <2>. QED  BY <1>1, <2>4 DEF IInv, OrderInv, Increasing
  <1>10. BirthInv'
    BY <1>1, <1>3 DEF IInv, BirthInv, Older
  <1>. QED  BY <1>5, <1>6, <1>7, <1>8, <1>9, <1>10 DEF IInv

\* A byte is typed.
LEMMA TypeKeeps == ASSUME IInv, Type PROVE IInv'
  <1>. DEFINE key == typed + 1
  <1>1. /\ UNCHANGED <<vmin, slave, child, got, paused, stop, r, sh, stops, prompt, signals>>
        /\ typed' = key /\ tty' = Append(tty, key)
        /\ \E s \in {stops, 0} : birth' = Append(birth, s)
    BY DEF Type
  <1>2. /\ typed \in Nat /\ key \in Byte /\ key > typed /\ Len(tty) \in Nat /\ Len(tty) <= typed
        /\ stops \in Nat /\ birth \in Seq(Nat) /\ Len(birth) = typed
    BY Pieces DEF IInv, TypeOK, QueueInv, Byte
  <1>3. /\ tty' \in Keys /\ Len(tty') = Len(tty) + 1 /\ tty'[Len(tty) + 1] = key
        /\ \A i \in 1 .. Len(tty) : tty'[i] = tty[i]
    BY <1>1, <1>2, Pieces, AppendProperties DEF Keys, IInv
  <1>4. /\ birth' \in Seq(Nat) /\ Len(birth') = key /\ \A i \in 1 .. typed : birth'[i] = birth[i]
        /\ birth'[key] <= stops
    BY <1>1, <1>2, AppendProperties
  <1>5. TypeOK'
    <2>1. signals' \subseteq Suspend \cap (1 .. typed')
      BY <1>1, <1>2 DEF IInv, TypeOK
    <2>. QED  BY <1>1, <1>2, <1>3, <1>4, <2>1 DEF IInv, TypeOK, Byte
  <1>6. PhaseInv'
    BY <1>1 DEF IInv, PhaseInv
  <1>7. Fetched' = Fetched /\ Fetched <= typed /\ Fetched \in Nat
    BY <1>1, <1>2, <1>3 DEF Fetched
  <1>8. CountInv'
    <2>. SUFFICES ASSUME NEW b \in 1 .. key PROVE Held(b)' = IF b \in signals THEN 0 ELSE 1
      BY <1>1 DEF CountInv
    <2>1. Count(tty', b) = Count(tty, b) + IF key = b THEN 1 ELSE 0
      BY <1>1, <1>2, Pieces, CountAppend DEF IInv
    <2>2. CASE b = key
      <3>1. \A s \in Keys : Below(s, Fetched) => Count(s, b) = 0
        <4>. SUFFICES ASSUME NEW s \in Keys, Below(s, Fetched) PROVE b \notin Range(s)
          BY CountRange
        <4>. QED  BY <1>2, <1>7, <2>2 DEF Below
      <3>2. /\ Count(r.rest, b) = 0 /\ Count(r.tail, b) = 0 /\ Count(slave, b) = 0 /\ Count(got, b) = 0
            /\ Count(prompt.pending, b) = 0 /\ Count(prompt.read, b) = 0
        BY <3>1, Pieces DEF IInv, QueueInv
      <3>3. Count(tty, b) = 0
        <4>1. Below(tty, typed)
          <5>1. \A i \in 1 .. Len(tty) : tty[i] = Fetched + i
            BY Pieces, KeysFacts DEF IInv, QueueInv
          <5>2. \A i \in 1 .. Len(tty) : tty[i] <= typed
            BY <1>2, <5>1 DEF Fetched
          <5>. QED  BY <5>2, Pieces, RangeFacts DEF Below, IInv
        <4>2. b \notin Range(tty)
          BY <1>2, <2>2, <4>1 DEF Below
        <4>. QED  BY <4>2, Pieces, CountRange DEF IInv
      <3>4. b \notin signals
        BY <1>2, <2>2 DEF IInv, TypeOK
      <3>. QED  BY <1>1, <2>1, <2>2, <3>2, <3>3, <3>4 DEF Held
    <2>3. CASE b # key
      <3>1. b \in 1 .. typed /\ Count(tty', b) = Count(tty, b)
        BY <1>2, <2>1, <2>3, HeldParts DEF IInv
      <3>2. Held(b)' = Held(b)
        BY <1>1, <3>1 DEF Held
      <3>. QED  BY <3>1, <3>2 DEF IInv, CountInv
    <2>. QED  BY <2>2, <2>3
  <1>9. QueueInv'
    <2>1. \A i \in DOMAIN tty' : tty'[i] = Fetched' + i
      <3>. SUFFICES ASSUME NEW i \in 1 .. Len(tty) + 1 PROVE tty'[i] = Fetched + i
        BY <1>3, <1>7, KeysFacts
      <3>1. CASE i = Len(tty) + 1
        BY <1>2, <1>3, <3>1 DEF Fetched
      <3>2. CASE i \in 1 .. Len(tty)
        BY <1>3, <3>2, Pieces, KeysFacts DEF IInv, QueueInv
      <3>. QED  BY <1>2, <3>1, <3>2
    <2>2. Len(tty') <= typed'
      BY <1>1, <1>2, <1>3
    <2>3. /\ Below(r'.rest, Fetched') /\ Below(r'.tail, Fetched') /\ Below(slave', Fetched')
          /\ Below(got', Fetched') /\ Below(prompt'.pending, Fetched') /\ Below(prompt'.read, Fetched')
      BY <1>1, <1>7 DEF IInv, QueueInv
    <2>. QED  BY <2>1, <2>2, <2>3 DEF QueueInv
  <1>10. OrderInv'
    <2>1. Ordered(got', slave', r'.rest, r'.tail)
      BY <1>1, ChainNow
    <2>2. Increasing(Chain)'
      BY <1>5, <2>1, ChainNext
    <2>. QED  BY <1>1, <2>2 DEF IInv, OrderInv, Increasing
  <1>11. BirthInv'
    <2>1. \A b \in 1 .. typed' : birth'[b] <= stops'
      <3>. SUFFICES ASSUME NEW b \in 1 .. key PROVE birth'[b] <= stops
        BY <1>1
      <3>1. b = key \/ b \in 1 .. typed
        BY <1>2
      <3>. QED  BY <1>4, <3>1 DEF IInv, BirthInv
    <2>2. ASSUME NEW s \in Keys, Below(s, Fetched), Older(s)
          PROVE  \A b \in Range(s) : birth'[b] # stops
      <3>. SUFFICES ASSUME NEW b \in Range(s) PROVE birth'[b] # stops
        OBVIOUS
      <3>1. b \in Nat /\ b # 0 /\ b <= Fetched
        BY <2>2, RangeFacts DEF Below, Byte
      <3>2. b \in 1 .. typed
        BY <1>2, <1>7, <3>1
      <3>. QED  BY <1>4, <2>2, <3>2 DEF Older
    <2>3. Below(got, Fetched) /\ Below(slave, Fetched) /\ Below(r.rest, Fetched)
      BY DEF IInv, QueueInv
    <2>4. (Older(got) => Older(got)') /\ (Older(slave) => Older(slave)') /\ (Older(r.rest) => Older(r.rest)')
      BY <1>1, <2>2, <2>3, Pieces DEF Older, IInv
    <2>. QED  BY <1>1, <2>1, <2>4 DEF IInv, BirthInv
  <1>. QED  BY <1>5, <1>6, <1>8, <1>9, <1>10, <1>11 DEF IInv

\* The child takes the first byte of its queue.
LEMMA ChildReadsKeeps == ASSUME IInv, ChildReads PROVE IInv'
  <1>1. /\ UNCHANGED <<typed, tty, vmin, child, paused, stop, r, sh, stops, prompt, signals, birth>>
        /\ slave # <<>> /\ got' = Append(got, Head(slave)) /\ slave' = Tail(slave)
    BY DEF ChildReads
  <1>. DEFINE key == slave[1]
  <1>2. /\ key \in Byte /\ <<key>> \in Keys /\ slave' \in Keys /\ slave = <<key>> \o slave'
        /\ Len(slave') = Len(slave) - 1 /\ Head(slave) = key
        /\ Range(slave) = {key} \cup Range(slave')
    BY <1>1, Pieces, HeadTail, RangeHeadTail DEF IInv
  <1>3. /\ got' = got \o <<key>> /\ got' \in Keys /\ Range(got') = Range(got) \cup {key}
    BY <1>1, <1>2, Pieces, AppendIsConcat, RangeAppend DEF IInv, Keys
  <1>4. TypeOK'
    BY <1>1, <1>2, <1>3 DEF IInv, TypeOK
  <1>5. PhaseInv'
    <2>1. Len(slave') <= Room
      BY <1>2, Pieces, KeysFacts, RelayFacts DEF IInv, PhaseInv
    <2>. QED  BY <1>1, <2>1 DEF IInv, PhaseInv
  <1>6. CountInv'
    <2>1. ASSUME NEW b PROVE Held(b)' = Held(b)
      <3>. DEFINE step == IF key = b THEN 1 ELSE 0
      <3>1. step \in Nat
        OBVIOUS
      <3>2. Count(slave, b) = Count(slave', b) + step /\ Count(got', b) = Count(got, b) + step
        BY <1>1, <1>2, Pieces, CountHeadTail, CountAppend DEF IInv
      <3>3. Count(slave', b) \in Nat /\ Count(got', b) \in Nat
        BY <1>2, <1>3, CountType
      <3>. HIDE DEF step
      <3>. QED  BY <1>1, <3>1, <3>2, <3>3, HeldParts DEF Held, IInv
    <2>. QED  BY <1>1, <2>1 DEF IInv, CountInv
  <1>7. QueueInv'
    BY <1>1, <1>2, <1>3 DEF IInv, QueueInv, Fetched, Below
  <1>8. OrderInv'
    <2>1. got' \o slave' = got \o slave
      <3>1. (got \o <<key>>) \o slave' = got \o (<<key>> \o slave')
        <4>1. got \in Keys /\ <<key>> \in Keys /\ slave' \in Keys
          BY <1>2, Pieces DEF IInv
        <4>. QED  BY <4>1, JoinAssociates
      <3>. QED  BY <1>2, <1>3, <3>1
    <2>2. Increasing(Chain)'
      <3>1. Chain' = Chain
        BY <1>1, <2>1 DEF Chain
      <3>. QED  BY <3>1 DEF IInv, OrderInv, Increasing
    <2>. QED  BY <1>1, <2>2 DEF IInv, OrderInv, Increasing
  <1>9. BirthInv'
    BY <1>1, <1>2, <1>3 DEF IInv, BirthInv, Older
  <1>. QED  BY <1>4, <1>5, <1>6, <1>7, <1>8, <1>9 DEF IInv

\* The prompt takes part: what the session gave back, or from the terminal.
Taken(part) ==
    \/ part \o prompt'.pending = prompt.pending /\ tty' = tty
    \/ /\ part \o tty' = tty /\ prompt'.pending = prompt.pending
       /\ Len(tty') <= Len(tty) /\ \A i \in 1 .. Len(tty') : tty'[i] = tty[Len(tty) - Len(tty') + i]
       /\ \A x \in Range(part) : x <= typed - Len(tty')

LEMMA PromptTakes ==
    ASSUME IInv, sh \in {"reading", "taking"}, sh' = (IF sh = "reading" THEN "prompt" ELSE "after"),
           UNCHANGED <<typed, vmin, child, paused, stop, stops, slave, got, r, signals, birth>>,
           NEW part \in Keys, tty' \in Keys, Taken(part),
           prompt' \in [pending : Keys, read : Keys, dead : BOOLEAN], prompt'.read = prompt.read \o part
    PROVE  IInv'
  <1>1. TypeOK'
    BY DEF IInv, TypeOK
  <1>2. PhaseInv'
    BY DEF IInv, PhaseInv
  <1>3. prompt'.pending \in Keys /\ prompt'.read \in Keys /\ prompt.read \in Keys /\ prompt.pending \in Keys
    BY Pieces DEF IInv
  <1>4. Range(prompt'.read) = Range(prompt.read) \cup Range(part)
    BY <1>3, RangeJoin
  <1>5. CountInv'
    <2>1. ASSUME NEW b PROVE Held(b)' = Held(b)
      <3>1. Count(prompt'.read, b) = Count(prompt.read, b) + Count(part, b)
        BY Pieces, CountJoin DEF IInv
      <3>2. \/ /\ Count(prompt.pending, b) = Count(part, b) + Count(prompt'.pending, b)
               /\ Count(tty', b) = Count(tty, b)
            \/ /\ Count(tty, b) = Count(part, b) + Count(tty', b)
               /\ Count(prompt'.pending, b) = Count(prompt.pending, b)
        <4>1. CASE part \o prompt'.pending = prompt.pending /\ tty' = tty
          <5>1. Count(part \o prompt'.pending, b) = Count(part, b) + Count(prompt'.pending, b)
            BY <1>3, CountJoin
          <5>. QED  BY <4>1, <5>1
        <4>2. CASE part \o tty' = tty /\ prompt'.pending = prompt.pending
          BY <4>2, CountJoin
        <4>. QED  BY <4>1, <4>2 DEF Taken
      <3>3. /\ Count(part, b) \in Nat /\ Count(tty', b) \in Nat /\ Count(prompt'.pending, b) \in Nat
            /\ Count(prompt'.read, b) \in Nat
        BY <1>3, CountType
      <3>. DEFINE t == Count(tty, b)
                  t2 == Count(tty', b)
                  p == Count(prompt.pending, b)
                  p2 == Count(prompt'.pending, b)
                  q == Count(prompt.read, b)
                  q2 == Count(prompt'.read, b)
                  x == Count(part, b)
                  c1 == Count(r.rest, b)
                  c2 == Count(r.tail, b)
                  c3 == Count(slave, b)
                  c4 == Count(got, b)
      <3>4. /\ Held(b) = t + c1 + c2 + c3 + c4 + p + q
            /\ Held(b)' = t2 + c1 + c2 + c3 + c4 + p2 + q2
        BY DEF Held
      <3>5. /\ t \in Nat /\ t2 \in Nat /\ p \in Nat /\ p2 \in Nat /\ q \in Nat /\ q2 \in Nat /\ x \in Nat
            /\ c1 \in Nat /\ c2 \in Nat /\ c3 \in Nat /\ c4 \in Nat
        BY <3>3, HeldParts DEF IInv
      <3>6. q2 = q + x
        BY <3>1
      <3>7. (p = x + p2 /\ t2 = t) \/ (t = x + t2 /\ p2 = p)
        BY <3>2
      <3>. HIDE DEF t, t2, p, p2, q, q2, x, c1, c2, c3, c4
      <3>. QED  BY <3>4, <3>5, <3>6, <3>7
    <2>. QED  BY <2>1 DEF IInv, CountInv
  <1>6. QueueInv'
    <2>1. Len(tty) \in Nat /\ Len(tty') \in Nat /\ typed \in Nat /\ Len(tty) <= typed
      BY Pieces, KeysFacts DEF IInv, QueueInv
    <2>2. Len(tty') <= Len(tty) /\ Fetched <= Fetched' /\ Fetched \in Nat /\ Fetched' \in Nat
      BY <2>1 DEF Fetched, Taken
    <2>3. ASSUME NEW s \in Keys, Below(s, Fetched) PROVE Below(s, Fetched')
      BY <2>2, <2>3, RangeFacts DEF Below, Byte
    <2>4. /\ Below(r.rest, Fetched') /\ Below(r.tail, Fetched') /\ Below(slave, Fetched')
          /\ Below(got, Fetched') /\ Below(prompt.pending, Fetched') /\ Below(prompt.read, Fetched')
      BY <2>3, Pieces DEF IInv, QueueInv
    <2>5. Below(prompt'.pending, Fetched') /\ Below(part, Fetched')
      <3>1. CASE part \o prompt'.pending = prompt.pending
        <4>1. Range(prompt.pending) = Range(part) \cup Range(prompt'.pending)
          BY <1>3, <3>1, RangeJoin
        <4>. QED  BY <2>4, <4>1 DEF Below
      <3>2. CASE prompt'.pending = prompt.pending /\ \A x \in Range(part) : x <= typed - Len(tty')
        BY <2>4, <3>2 DEF Below, Fetched
      <3>. QED  BY <3>1, <3>2 DEF Taken
    <2>6. \A i \in DOMAIN tty' : tty'[i] = Fetched' + i
      <3>. SUFFICES ASSUME NEW i \in 1 .. Len(tty') PROVE tty'[i] = Fetched' + i
        BY KeysFacts
      <3>1. CASE tty' = tty
        BY <3>1, Pieces, KeysFacts DEF IInv, QueueInv, Fetched
      <3>2. CASE \A j \in 1 .. Len(tty') : tty'[j] = tty[Len(tty) - Len(tty') + j]
        <4>1. /\ tty'[i] = tty[Len(tty) - Len(tty') + i] /\ Len(tty) - Len(tty') + i \in 1 .. Len(tty)
              /\ Fetched' + i = Fetched + (Len(tty) - Len(tty') + i)
          BY <2>1, <2>2, <3>2 DEF Fetched
        <4>2. \A j \in 1 .. Len(tty) : tty[j] = Fetched + j
          BY Pieces, KeysFacts DEF IInv, QueueInv
        <4>. QED  BY <4>1, <4>2
      <3>. QED  BY <3>1, <3>2 DEF Taken
    <2>. QED  BY <1>3, <1>4, <2>1, <2>2, <2>4, <2>5, <2>6 DEF QueueInv, Below
  <1>7. OrderInv'
    <2>1. Ordered(got', slave', r'.rest, r'.tail)
      BY ChainNow
    <2>2. Increasing(Chain)'
      BY <1>1, <2>1, ChainNext
    <2>3. prompt.pending = <<>> => prompt'.pending = <<>>
      <3>1. part \o prompt'.pending = <<>> => prompt'.pending = <<>>
        BY <1>3, ConcatEqualIffEmpty DEF Keys
      <3>. QED  BY <3>1 DEF Taken
    <2>4. Increasing(prompt.pending) => Increasing(prompt'.pending)
      <3>1. Increasing(part \o prompt'.pending) => Increasing(prompt'.pending)
        BY <1>3, IncreasingJoin
      <3>. QED  BY <3>1 DEF Taken
    <2>. QED  BY <2>2, <2>3, <2>4 DEF IInv, OrderInv, Increasing
  <1>8. BirthInv'
    BY DEF IInv, BirthInv, Older
  <1>. QED  BY <1>1, <1>2, <1>5, <1>6, <1>7, <1>8 DEF IInv

LEMMA PromptReadsKeeps == ASSUME IInv, PromptReads PROVE IInv'
  <1>1. /\ sh \in {"reading", "taking"} /\ sh' = (IF sh = "reading" THEN "prompt" ELSE "after")
        /\ UNCHANGED <<typed, vmin, child, paused, stop, stops, slave, got, r, signals, birth>>
    BY DEF PromptReads, Same
  <1>2. prompt \in [pending : Keys, read : Keys, dead : BOOLEAN]
    BY DEF IInv, TypeOK
  <1>3. CASE prompt.pending # <<>>
    <2>. DEFINE key == prompt.pending[1]
    <2>1. /\ tty' = tty
          /\ prompt' = [prompt EXCEPT !.pending = Tail(@), !.read = Append(@, Head(prompt.pending))]
      BY <1>3 DEF PromptReads
    <2>2. /\ key \in Byte /\ <<key>> \in Keys /\ Tail(prompt.pending) \in Keys /\ Head(prompt.pending) = key
          /\ <<key>> \o Tail(prompt.pending) = prompt.pending
      BY <1>3, Pieces, HeadTail DEF IInv
    <2>3. Append(prompt.read, key) = prompt.read \o <<key>> /\ Append(prompt.read, key) \in Keys
      <3>1. prompt.read \in Keys
        BY Pieces DEF IInv
      <3>. HIDE DEF key
      <3>2. Append(prompt.read, key) = prompt.read \o <<key>>
        BY <2>2, <3>1, AppendIsConcat DEF Keys
      <3>3. Append(prompt.read, key) \in Keys
        BY <2>2, <3>1, RangeAppend
      <3>. QED  BY <3>2, <3>3
    <2>4. /\ prompt' \in [pending : Keys, read : Keys, dead : BOOLEAN]
          /\ prompt'.pending = Tail(prompt.pending) /\ prompt'.read = prompt.read \o <<key>>
      BY <1>2, <2>1, <2>2, <2>3
    <2>. HIDE DEF key
    <2>5. Taken(<<key>>)
      BY <2>1, <2>2, <2>4 DEF Taken
    <2>6. tty' \in Keys
      BY <2>1, Pieces DEF IInv
    <2>. QED  BY <1>1, <2>2, <2>4, <2>5, <2>6, PromptTakes
  <1>4. CASE prompt.pending = <<>>
    <2>. DEFINE n == Smaller(Chunk, Len(tty))
                part == Take(tty, n)
    <2>1. /\ tty' = Drop(tty, n)
          /\ prompt' = [prompt EXCEPT !.read = @ \o part, !.dead = n = 0]
      BY <1>4 DEF PromptReads
    <2>2. Len(tty) \in Nat /\ Chunk \in Nat /\ typed \in Nat
      BY Pieces, RelayFacts DEF IInv
    <2>3. n \in 0 .. Len(tty)
      BY <2>2 DEF Smaller
    <2>4. /\ part \in Keys /\ tty' \in Keys /\ Len(part) = n /\ Len(tty') = Len(tty) - n
          /\ part \o tty' = tty /\ \A i \in 1 .. n : part[i] = tty[i]
          /\ \A i \in 1 .. Len(tty) - n : tty'[i] = tty[n + i]
      BY <2>1, <2>3, Pieces, TakeDropFacts DEF IInv
    <2>5. prompt.read \o part \in Keys
      BY <2>4, Pieces, JoinFacts DEF IInv
    <2>. HIDE DEF n, part
    <2>6. /\ prompt' \in [pending : Keys, read : Keys, dead : BOOLEAN]
          /\ prompt'.pending = prompt.pending /\ prompt'.read = prompt.read \o part
      BY <1>2, <2>1, <2>5
    <2>7. Len(tty) - Len(tty') = n /\ Len(tty') <= Len(tty)
      BY <2>2, <2>3, <2>4
    <2>8. \A i \in 1 .. Len(tty') : tty'[i] = tty[Len(tty) - Len(tty') + i]
      BY <2>4, <2>7
    <2>9. \A x \in Range(part) : x <= typed - Len(tty')
      <3>. SUFFICES ASSUME NEW i \in 1 .. n PROVE part[i] <= typed - Len(tty')
        BY <2>4, RangeFacts
      <3>1. i \in 1 .. Len(tty) /\ part[i] = tty[i]
        BY <2>2, <2>3, <2>4
      <3>2. tty[i] = typed - Len(tty) + i
        BY <3>1, Pieces, KeysFacts DEF IInv, QueueInv, Fetched
      <3>. QED  BY <2>2, <2>3, <2>4, <3>1, <3>2
    <2>10. Taken(part)
      BY <2>4, <2>6, <2>7, <2>8, <2>9 DEF Taken
    <2>. QED  BY <1>1, <2>4, <2>6, <2>10, PromptTakes
  <1>. QED  BY <1>3, <1>4

\* The tail of a finished session goes to the prompt.
LEMMA JoinedKeeps == ASSUME IInv, Joined PROVE IInv'
  <1>1. /\ UNCHANGED <<typed, tty, slave, child, got, paused, stop, stops, signals, birth>>
        /\ sh = "joining" /\ r.pc = "done" /\ sh' = "after" /\ vmin' = FALSE
        /\ prompt' = [prompt EXCEPT !.pending = @ \o r.tail] /\ r' = [r EXCEPT !.tail = <<>>]
    BY DEF Joined
  <1>2. prompt.pending = <<>> /\ r.rest = <<>>
    BY <1>1 DEF IInv, OrderInv, PhaseInv, Holding
  <1>3. prompt.pending \o r.tail = r.tail
    BY <1>2, Pieces, JoinEmpty DEF IInv
  <1>4. prompt' \in [pending : Keys, read : Keys, dead : BOOLEAN] /\ prompt'.pending = r.tail /\ prompt'.read = prompt.read
    BY <1>1, <1>3, Pieces DEF IInv, TypeOK
  <1>5. r' \in Thread /\ r'.rest = <<>> /\ r'.tail = <<>> /\ r'.pc = "done"
    BY <1>1, <1>2, NoKeys DEF IInv, TypeOK, Thread
  <1>6. TypeOK'
    BY <1>1, <1>4, <1>5 DEF IInv, TypeOK
  <1>7. PhaseInv'
    BY <1>1, <1>5 DEF IInv, PhaseInv, Holding
  <1>8. CountInv'
    <2>1. ASSUME NEW b PROVE Held(b)' = Held(b)
      <3>. DEFINE c == Count(r.tail, b)
      <3>1. Count(r.rest, b) = 0 /\ Count(prompt.pending, b) = 0
        BY <1>2, CountEmpty
      <3>2. Count(r'.rest, b) = 0 /\ Count(prompt'.pending, b) = c /\ Count(r'.tail, b) = 0
        BY <1>4, <1>5, CountEmpty
      <3>. DEFINE c1 == Count(tty, b)
                  c2 == Count(slave, b)
                  c3 == Count(got, b)
                  c4 == Count(prompt.read, b)
      <3>3. Held(b) = c1 + 0 + c + c2 + c3 + 0 + c4 /\ Held(b)' = c1 + 0 + 0 + c2 + c3 + c + c4
        BY <1>1, <1>4, <3>1, <3>2 DEF Held
      <3>4. c \in Nat /\ c1 \in Nat /\ c2 \in Nat /\ c3 \in Nat /\ c4 \in Nat
        BY HeldParts DEF IInv
      <3>. HIDE DEF c, c1, c2, c3, c4
      <3>. QED  BY <3>3, <3>4
    <2>. QED  BY <1>1, <2>1 DEF IInv, CountInv
  <1>9. QueueInv'
    BY <1>1, <1>4, <1>5, RangeEmpty DEF IInv, QueueInv, Fetched, Below
  <1>10. OrderInv'
    <2>1. Ordered(got, slave, r.rest, r.tail)
      BY ChainNow
    <2>2. Ordered(got', slave', r'.rest, r'.tail)
      BY <1>1, <1>5, <2>1, RangeEmpty, IncreasingEmpty DEF Ordered, Precedes
    <2>3. Increasing(Chain)'
      BY <1>6, <2>2, ChainNext
    <2>. QED  BY <1>1, <1>4, <2>1, <2>3 DEF IInv, OrderInv, Increasing, Ordered
  <1>11. BirthInv'
    BY <1>1, <1>5 DEF IInv, BirthInv, Older
  <1>. QED  BY <1>6, <1>7, <1>8, <1>9, <1>10, <1>11 DEF IInv
-----------------------------------------------------------------------------
(* The theorems.                                                           *)

LEMMA InitInvariant == ASSUME Init PROVE IInv
  <1>1. <<>> \in Keys /\ <<>> \in Seq(Nat) /\ Len(<<>>) = 0
    BY NoKeys, EmptySeq
  <1>2. 1 .. 0 = {}
    OBVIOUS
  <1>3. r \in Thread /\ r.rest = <<>> /\ r.tail = <<>> /\ r.pc = "top"
    BY <1>1 DEF Init, Thread
  <1>4. TypeOK
    BY <1>1, <1>3 DEF Init, TypeOK
  <1>5. PhaseInv
    BY <1>1, <1>3, RelayFacts DEF Init, PhaseInv, Holding
  <1>6. CountInv
    BY <1>2 DEF Init, CountInv
  <1>7. QueueInv
    <2>1. DOMAIN <<>> = {}
      BY <1>1, <1>2, KeysFacts
    <2>. QED  BY <1>1, <1>3, <2>1, RangeEmpty DEF Init, QueueInv, Below
  <1>8. OrderInv
    <2>1. <<>> \o <<>> = <<>>
      BY <1>1, JoinEmpty
    <2>2. Chain = <<>>
      BY <1>3, <2>1 DEF Init, Chain
    <2>. QED  BY <2>2, IncreasingEmpty DEF Init, OrderInv
  <1>9. BirthInv
    BY <1>2 DEF Init, BirthInv
  <1>. QED  BY <1>4, <1>5, <1>6, <1>7, <1>8, <1>9 DEF IInv

LEMMA NextInvariant == ASSUME IInv, [Next]_vars PROVE IInv'
  <1>1. CASE Relay
    BY <1>1, TopKeeps, PollKeeps, FlushKeeps, ForwardKeeps, ReadKeeps, SegmentKeeps, WriteKeeps,
       PutKeeps, PutFailsKeeps, SignalKeeps DEF Relay
  <1>2. CASE Type \/ ChildReads \/ ChildStops \/ ChildExits
    BY <1>2, TypeKeeps, ChildReadsKeeps, ChildMoves
  <1>3. CASE Shell \/ FgModes \/ FgFails
    BY <1>3, ShellKeeps, PromptReadsKeeps, JoinedKeeps DEF Shell
  <1>4. CASE UNCHANGED vars
    <2>1. UNCHANGED <<typed, tty, slave, got, r, signals, birth, prompt, sh, stops, paused>> /\ TypeOK'
      BY <1>4 DEF vars, IInv, TypeOK
    <2>2. stops \in Nat
      BY DEF IInv, TypeOK
    <2>. QED  BY <2>1, <2>2, ShellMoves
  <1>. QED  BY <1>1, <1>2, <1>3, <1>4 DEF Next

\* The relay holds a chunk or a tail, never both; the terminal holds the latest
\* bytes; each byte is in one place; and while a job is paused nothing typed at
\* that prompt has come further than the relay's hand.
THEOREM RelayInductive == Spec => []IInv
  <1>1. Init => IInv
    BY InitInvariant
  <1>2. IInv /\ [Next]_vars => IInv'
    BY NextInvariant
  <1>. QED  BY <1>1, <1>2, PTL DEF Spec

LEMMA PlacesCount ==
    ASSUME TypeOK, NEW b
    PROVE  Cardinality({i \in DOMAIN Places : Places[i] = b}) = Held(b)
  <1>. DEFINE s1 == tty \o r.rest
              s2 == s1 \o r.tail
              s3 == s2 \o slave
              s4 == s3 \o got
              s5 == s4 \o prompt.pending
              s6 == s5 \o prompt.read
  <1>1. s1 \in Keys /\ Count(s1, b) = Count(tty, b) + Count(r.rest, b)
    <2>1. tty \in Keys /\ r.rest \in Keys
      BY Pieces
    <2>. QED  BY <2>1, JoinFacts, CountJoin
  <1>. HIDE DEF s1
  <1>2. s2 \in Keys /\ Count(s2, b) = Count(s1, b) + Count(r.tail, b)
    <2>1. s1 \in Keys /\ r.tail \in Keys
      BY <1>1, Pieces
    <2>. QED  BY <2>1, JoinFacts, CountJoin
  <1>. HIDE DEF s2
  <1>3. s3 \in Keys /\ Count(s3, b) = Count(s2, b) + Count(slave, b)
    <2>1. s2 \in Keys /\ slave \in Keys
      BY <1>2, Pieces
    <2>. QED  BY <2>1, JoinFacts, CountJoin
  <1>. HIDE DEF s3
  <1>4. s4 \in Keys /\ Count(s4, b) = Count(s3, b) + Count(got, b)
    <2>1. s3 \in Keys /\ got \in Keys
      BY <1>3, Pieces
    <2>. QED  BY <2>1, JoinFacts, CountJoin
  <1>. HIDE DEF s4
  <1>5. s5 \in Keys /\ Count(s5, b) = Count(s4, b) + Count(prompt.pending, b)
    <2>1. s4 \in Keys /\ prompt.pending \in Keys
      BY <1>4, Pieces
    <2>. QED  BY <2>1, JoinFacts, CountJoin
  <1>. HIDE DEF s5
  <1>6. s6 \in Keys /\ Count(s6, b) = Count(s5, b) + Count(prompt.read, b)
    <2>1. s5 \in Keys /\ prompt.read \in Keys
      BY <1>5, Pieces
    <2>. QED  BY <2>1, JoinFacts, CountJoin
  <1>. HIDE DEF s6
  <1>7. Count(s6, b) = Held(b)
    BY <1>1, <1>2, <1>3, <1>4, <1>5, <1>6 DEF Held
  <1>8. Places = s6
    BY DEF Places, s1, s2, s3, s4, s5, s6
  <1>. QED  BY <1>7, <1>8 DEF Count

\* Every typed byte is in exactly one place or was a suspend key, the child and
\* the next prompt get them in the order of typing, and a paused relay has
\* written nothing typed at that prompt: KeysInOrder, for any number of keys
\* and suspensions and any sizes of reads and queues.
THEOREM KeysKept == Spec => []KeysInOrder
  <1>1. ASSUME IInv PROVE KeysInOrder
    <2>1. \A b \in 1 .. typed :
             Cardinality({i \in DOMAIN Places : Places[i] = b}) = IF b \in signals THEN 0 ELSE 1
      BY <1>1, PlacesCount DEF IInv, CountInv
    <2>2. signals \subseteq Suspend
      BY <1>1 DEF IInv, TypeOK
    <2>3. Increasing(got \o slave \o r.rest \o r.tail)
      BY <1>1 DEF IInv, OrderInv, Chain
    <2>4. sh \in {"after", "taking"} => Increasing(prompt.pending \o tty)
      <3>. SUFFICES ASSUME sh \in {"after", "taking"} PROVE Increasing(prompt.pending \o tty)
        OBVIOUS
      <3>1. DOMAIN tty = 1 .. Len(tty) /\ Len(tty) \in Nat /\ typed \in Nat /\ Len(tty) <= typed
            /\ \A i \in 1 .. Len(tty) : tty[i] = Fetched + i
        BY <1>1, Pieces, KeysFacts DEF IInv, QueueInv
      <3>2. Fetched \in Nat
        BY <3>1 DEF Fetched
      <3>3. Increasing(tty)
        BY <3>1, <3>2 DEF Increasing
      <3>4. Range(prompt.pending) \subseteq Nat /\ \A x \in Range(prompt.pending) : x <= Fetched
        BY <1>1, Pieces, RangeFacts DEF IInv, QueueInv, Below, Byte
      <3>5. \A y \in Range(tty) : y \in Nat /\ Fetched < y
        BY <1>1, <3>1, <3>2, Pieces, RangeFacts DEF IInv
      <3>6. Precedes(prompt.pending, tty)
        BY <3>2, <3>4, <3>5 DEF Precedes
      <3>. QED  BY <1>1, <3>3, <3>6, Pieces, IncreasingJoin DEF IInv, OrderInv
    <2>5. paused => \A b \in 1 .. typed :
             birth[b] = stops => \A i \in DOMAIN (got \o slave) : (got \o slave)[i] # b
      <3>. SUFFICES ASSUME paused, NEW i \in DOMAIN (got \o slave)
                    PROVE  birth[(got \o slave)[i]] # stops
        OBVIOUS
      <3>1. (got \o slave)[i] \in Range(got) \cup Range(slave)
        BY <1>1, Pieces, KeysFacts, RangeFacts, RangeJoin DEF IInv
      <3>. QED  BY <1>1, <3>1 DEF IInv, BirthInv, Older
    <2>. QED  BY <2>1, <2>2, <2>3, <2>4, <2>5 DEF KeysInOrder
  <1>. QED  BY <1>1, RelayInductive, PTL
=============================================================================
