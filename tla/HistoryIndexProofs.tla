-------------------------- MODULE HistoryIndexProofs --------------------------
(***************************************************************************)
(* ContextExact and RecallExact for any commands, directories, times and   *)
(* number of occurrences.                                                  *)
(***************************************************************************)
EXTENDS HistoryIndex, FiniteSetTheorems, TLAPS

-----------------------------------------------------------------------------
(* Ranks.                                                                  *)

\* Positions: a finite set of natural numbers.
Positions(K) == K \in SUBSET Nat /\ IsFiniteSet(K)

LEMMA BelowIs ==
    ASSUME NEW K, Positions(K), NEW k \in K
    PROVE  /\ IsFiniteSet({j \in K : j <= k}) /\ Rank(K, k) \in Nat
           /\ Rank(K, k) = Cardinality({j \in K : j <= k})
<1>1. {j \in K : j <= k} \subseteq K
  OBVIOUS
<1>2. IsFiniteSet({j \in K : j <= k})
  BY <1>1, FS_Subset DEF Positions
<1> QED BY <1>2, FS_CardinalityType DEF Rank

\* The rank grows with the position.
LEMMA RankGrows ==
    ASSUME NEW K, Positions(K), NEW k \in K, NEW l \in K
    PROVE  /\ Rank(K, k) \in 1 .. Cardinality(K)
           /\ k < l => Rank(K, k) < Rank(K, l)
<1> DEFINE B(m) == {j \in K : j <= m}
<1>1. IsFiniteSet(B(k)) /\ IsFiniteSet(B(l)) /\ Rank(K, k) = Cardinality(B(k)) /\ Rank(K, l) = Cardinality(B(l))
  BY BelowIs
<1>2. Cardinality(K) \in Nat /\ IsFiniteSet(K) /\ Rank(K, k) \in Nat /\ Rank(K, l) \in Nat
  BY BelowIs, FS_CardinalityType DEF Positions
<1>3. Rank(K, k) <= Cardinality(K)
  <2>1. B(k) \subseteq K
    OBVIOUS
  <2> HIDE DEF B
  <2> QED BY <1>1, <1>2, <2>1, FS_Subset
<1>4. Rank(K, k) # 0
  <2>1. k \in B(k)
    BY DEF Positions
  <2> HIDE DEF B
  <2> QED BY <1>1, <2>1, FS_EmptySet
<1>5. ASSUME k < l PROVE Rank(K, k) < Rank(K, l)
  <2>0. k \in Nat /\ l \in Nat /\ \A j \in K : j \in Nat
    BY DEF Positions
  <2>1. B(k) \subseteq B(l)
    <3>1. ASSUME NEW j \in B(k) PROVE j \in B(l)
      <4>1. j \in Nat /\ j \in K /\ j <= k
        BY <2>0
      <4> QED BY <4>1, <2>0, <1>5
    <3> QED BY <3>1
  <2>2. l \in B(l) /\ l \notin B(k)
    BY <2>0, <1>5
  <2> HIDE DEF B
  <2> QED BY <1>1, <1>2, <2>1, <2>2, FS_Subset
<1> QED BY <1>2, <1>3, <1>4, <1>5

\* Two positions of one rank are the same.
LEMMA RankInjective ==
    ASSUME NEW K, Positions(K), NEW k \in K, NEW l \in K, Rank(K, k) = Rank(K, l)
    PROVE  k = l
<1>1. k \in Nat /\ l \in Nat /\ Rank(K, k) \in Nat /\ Rank(K, l) \in Nat
  BY BelowIs DEF Positions
<1>2. ~ (k < l) /\ ~ (l < k)
  BY <1>1, RankGrows
<1> QED BY <1>1, <1>2

\* Every rank up to the number of positions is taken.
LEMMA RankOnto ==
    ASSUME NEW K, Positions(K), NEW i \in 1 .. Cardinality(K)
    PROVE  \E k \in K : Rank(K, k) = i
<1> DEFINE N == Cardinality(K)
<1> DEFINE f == [k \in K |-> Rank(K, k)]
<1> DEFINE R == {f[k] : k \in K}
<1>1. IsFiniteSet(K) /\ N \in Nat
  BY FS_CardinalityType DEF Positions
<1>2. IsFiniteSet(1 .. N) /\ Cardinality(1 .. N) = N
  BY <1>1, FS_Interval
<1>3. R \subseteq 1 .. N
  BY RankGrows
<1>4. f \in Bijection(K, R)
  <2>1. f \in [K -> R] /\ \A r \in R : \E k \in K : f[k] = r
    OBVIOUS
  <2>2. IsInjective(f)
    BY RankInjective DEF IsInjective
  <2> QED BY <2>1, <2>2 DEF Bijection, Injection, Surjection
<1> HIDE DEF f
<1>5. Cardinality(R) = N
  <2>1. ExistsBijection(K, R)
    BY <1>4 DEF ExistsBijection
  <2> HIDE DEF R
  <2> QED BY <1>1, <2>1, FS_Bijection
<1>6. R = 1 .. N
  <2> HIDE DEF R, N
  <2> QED BY <1>2, <1>3, <1>5, FS_Subset
<1>7. i \in R
  BY <1>6
<1> QED BY <1>7 DEF f

\* Kept lists what is at the positions, in order.
LEMMA KeptIs ==
    ASSUME NEW s, NEW K, Positions(K)
    PROVE  /\ DOMAIN Kept(s, K) = 1 .. Cardinality(K)
           /\ \A k \in K : Rank(K, k) \in DOMAIN Kept(s, K) /\ Kept(s, K)[Rank(K, k)] = s[k]
<1>1. DOMAIN Kept(s, K) = 1 .. Cardinality(K)
  BY DEF Kept
<1>2. ASSUME NEW k \in K PROVE Rank(K, k) \in DOMAIN Kept(s, K) /\ Kept(s, K)[Rank(K, k)] = s[k]
  <2>1. Rank(K, k) \in 1 .. Cardinality(K)
    BY RankGrows
  <2> DEFINE c == CHOOSE l \in K : Rank(K, l) = Rank(K, k)
  <2>2. c \in K /\ Rank(K, c) = Rank(K, k)
    OBVIOUS
  <2>3. c = k
    <3> HIDE DEF c
    <3> QED BY <2>2, RankInjective
  <2>4. Kept(s, K)[Rank(K, k)] = s[c]
    BY <2>1 DEF Kept
  <2> QED BY <1>1, <2>1, <2>3, <2>4
<1> QED BY <1>1, <1>2

\* A map of positions onto positions that keeps their order keeps the ranks.
Ordered(f, K, L) ==
    /\ f \in [K -> L]
    /\ \A l \in L : \E k \in K : f[k] = l
    /\ \A j, k \in K : j < k => f[j] < f[k]

LEMMA RankSame ==
    ASSUME NEW K, NEW L, Positions(K), Positions(L), NEW f, Ordered(f, K, L)
    PROVE  /\ Cardinality(K) = Cardinality(L)
           /\ \A k \in K : f[k] \in L /\ Rank(L, f[k]) = Rank(K, k)
<1>0. /\ \A k \in K : k \in Nat /\ f[k] \in L /\ f[k] \in Nat
      /\ \A l \in L : l \in Nat
  BY DEF Positions, Ordered
<1>1. \A j, k \in K : (j < k => f[j] < f[k]) /\ (f[j] = f[k] => j = k) /\ (f[j] <= f[k] => j <= k)
  BY <1>0 DEF Ordered
<1>2. f \in Bijection(K, L)
  <2>1. IsInjective(f) /\ DOMAIN f = K
    BY <1>1 DEF IsInjective, Ordered
  <2> QED BY <2>1 DEF Ordered, Bijection, Injection, Surjection
<1>3. Cardinality(K) = Cardinality(L)
  BY <1>2, FS_Bijection DEF ExistsBijection, Positions
<1>4. ASSUME NEW k \in K PROVE Rank(L, f[k]) = Rank(K, k)
  <2> DEFINE A == {j \in K : j <= k}
  <2> DEFINE B == {l \in L : l <= f[k]}
  <2> DEFINE g == [j \in A |-> f[j]]
  <2>1. IsFiniteSet(A) /\ Rank(K, k) = Cardinality(A)
    BY BelowIs
  <2>2. f[k] \in L /\ Rank(L, f[k]) = Cardinality(B)
    BY <1>0, BelowIs
  <2>3. g \in [A -> B]
    <3>1. ASSUME NEW j \in A PROVE f[j] \in B
      <4>1. j \in K /\ j <= k /\ (j < k => f[j] < f[k]) /\ f[j] \in Nat /\ f[k] \in Nat /\ k \in Nat /\ j \in Nat /\ f[j] \in L
        BY <1>0, <1>1
      <4> QED BY <4>1
    <3> QED BY <3>1
  <2>4. \A l \in B : \E j \in A : g[j] = l
    <3>1. ASSUME NEW l \in B PROVE \E j \in A : g[j] = l
      <4>1. PICK j \in K : f[j] = l
        BY DEF Ordered
      <4>2. j <= k
        BY <4>1, <1>1
      <4> QED BY <4>1, <4>2
    <3> QED BY <3>1
  <2>5. \A i, j \in A : g[i] = g[j] => i = j
    BY <1>1
  <2>6. g \in Bijection(A, B)
    <3> HIDE DEF A, B, g
    <3>1. DOMAIN g = A /\ IsInjective(g)
      BY <2>3, <2>5 DEF IsInjective
    <3> QED BY <2>3, <2>4, <3>1 DEF Bijection, Injection, Surjection
  <2>7. Cardinality(A) = Cardinality(B)
    <3> HIDE DEF A, B, g
    <3> QED BY <2>1, <2>6, FS_Bijection DEF ExistsBijection
  <2> QED BY <2>1, <2>2, <2>7
<1> QED BY <1>0, <1>3, <1>4

\* The positions of a sequence that meet a condition.
LEMMA SomePositions ==
    ASSUME NEW n \in Nat, NEW K \in SUBSET (1 .. n)
    PROVE  Positions(K)
<1>1. IsFiniteSet(1 .. n)
  BY FS_Interval
<1>2. K \in SUBSET Nat
  OBVIOUS
<1> QED BY <1>1, <1>2, FS_Subset DEF Positions

\* What is kept of a sequence is a sequence of the same elements in the same
\* order.
LEMMA KeptSeq ==
    ASSUME NEW S, NEW s \in Seq(S), NEW K \in SUBSET (DOMAIN s)
    PROVE  /\ Positions(K) /\ Cardinality(K) \in Nat
           /\ Kept(s, K) \in Seq(S) /\ Len(Kept(s, K)) = Cardinality(K)
           /\ \A k \in K : Rank(K, k) \in 1 .. Cardinality(K) /\ Kept(s, K)[Rank(K, k)] = s[k]
           /\ \A i \in 1 .. Cardinality(K) : \E k \in K : Rank(K, k) = i /\ Kept(s, K)[i] = s[k]
<1>1. Len(s) \in Nat /\ DOMAIN s = 1 .. Len(s) /\ \A i \in DOMAIN s : s[i] \in S
  OBVIOUS
<1>2. Positions(K)
  BY <1>1, SomePositions
<1>3. Cardinality(K) \in Nat
  BY <1>2, FS_CardinalityType DEF Positions
<1>4. DOMAIN Kept(s, K) = 1 .. Cardinality(K) /\ \A k \in K : Rank(K, k) \in 1 .. Cardinality(K) /\ Kept(s, K)[Rank(K, k)] = s[k]
  BY <1>2, KeptIs
<1>5. \A i \in 1 .. Cardinality(K) : \E k \in K : Rank(K, k) = i /\ Kept(s, K)[i] = s[k]
  BY <1>2, <1>4, RankOnto
<1>6. \A i \in 1 .. Cardinality(K) : Kept(s, K)[i] \in S
  BY <1>1, <1>5
<1>7. Kept(s, K) \in Seq(S) /\ Len(Kept(s, K)) = Cardinality(K)
  <2>1. Kept(s, K) = [i \in 1 .. Cardinality(K) |-> Kept(s, K)[i]]
    BY <1>4 DEF Kept
  <2>2. Kept(s, K) \in [1 .. Cardinality(K) -> S]
    BY <1>6, <2>1
  <2> QED BY <1>3, <2>2
<1> QED BY <1>2, <1>3, <1>4, <1>5, <1>7

-----------------------------------------------------------------------------
(* The last occurrences of a sequence.                                     *)

LastOf(r) == {i \in DOMAIN r : \A j \in i + 1 .. Len(r) : r[j] # r[i]}

\* There is one of each element.
LEMMA OneLast ==
    ASSUME NEW S, NEW r \in Seq(S), NEW i \in LastOf(r), NEW j \in LastOf(r), r[i] = r[j]
    PROVE  i = j
<1>1. i \in Nat /\ j \in Nat /\ i \in 1 .. Len(r) /\ j \in 1 .. Len(r) /\ Len(r) \in Nat
  BY DEF LastOf
<1>2. ~ (i < j) /\ ~ (j < i)
  BY <1>1 DEF LastOf
<1> QED BY <1>1, <1>2

LEMMA AppendIs ==
    ASSUME NEW S, NEW r \in Seq(S), NEW e \in S
    PROVE  /\ Len(r) \in Nat /\ DOMAIN r = 1 .. Len(r) /\ Append(r, e) \in Seq(S) /\ Len(Append(r, e)) = Len(r) + 1
           /\ DOMAIN Append(r, e) = 1 .. Len(r) + 1 /\ Append(r, e)[Len(r) + 1] = e
           /\ \A i \in 1 .. Len(r) : Append(r, e)[i] = r[i]
  OBVIOUS

\* An appended element has its last occurrence there.
LEMMA LastAppend ==
    ASSUME NEW S, NEW r \in Seq(S), NEW e \in S
    PROVE  /\ LastOf(Append(r, e)) = {i \in LastOf(r) : r[i] # e} \cup {Len(r) + 1}
           /\ \A i \in LastOf(r) : i \in 1 .. Len(r) /\ Append(r, e)[i] = r[i]
           /\ Append(r, e)[Len(r) + 1] = e
<1> DEFINE a == Append(r, e)
<1>1. Len(r) \in Nat /\ DOMAIN r = 1 .. Len(r) /\ a \in Seq(S) /\ Len(a) = Len(r) + 1 /\ a[Len(r) + 1] = e
      /\ DOMAIN a = 1 .. Len(r) + 1 /\ \A i \in 1 .. Len(r) : a[i] = r[i]
  BY AppendIs
<1> HIDE DEF a
<1>2. \A i \in LastOf(r) : i \in 1 .. Len(r)
  BY <1>1 DEF LastOf
<1>3. ASSUME NEW i \in 1 .. Len(r) PROVE i \in LastOf(a) <=> i \in LastOf(r) /\ r[i] # e
  <2>1. i \in Nat /\ i \in DOMAIN a /\ i \in DOMAIN r /\ a[i] = r[i]
    BY <1>1
  <2>2. (\A j \in i + 1 .. Len(a) : a[j] # a[i]) <=> (\A j \in i + 1 .. Len(r) : r[j] # r[i]) /\ r[i] # e
    <3>1. \A j \in i + 1 .. Len(r) : j \in i + 1 .. Len(a) /\ a[j] = r[j]
      BY <1>1, <2>1
    <3>2. Len(r) + 1 \in i + 1 .. Len(a)
      BY <1>1, <2>1
    <3>3. \A j \in i + 1 .. Len(a) : j = Len(r) + 1 \/ j \in i + 1 .. Len(r)
      BY <1>1, <2>1
    <3> QED BY <1>1, <2>1, <3>1, <3>2, <3>3
  <2> QED BY <2>1, <2>2 DEF LastOf
<1>4. Len(r) + 1 \in LastOf(a)
  <2>1. (Len(r) + 1) + 1 .. Len(a) = {}
    BY <1>1
  <2> QED BY <1>1, <2>1 DEF LastOf
<1>5. \A i \in LastOf(a) : i \in 1 .. Len(r) \/ i = Len(r) + 1
  BY <1>1 DEF LastOf
<1>6. LastOf(a) = {i \in LastOf(r) : r[i] # e} \cup {Len(r) + 1}
  BY <1>2, <1>3, <1>4, <1>5
<1> QED BY <1>1, <1>2, <1>6 DEF a

-----------------------------------------------------------------------------
(* The inductive invariant.                                                *)

Occurrence == [cmd : Cmds, dir : Dirs \cup {NoDir}, time : Times]
Directories ==
    {None} \cup {Shared(d) : d \in Dirs} \cup {Tracked(d, u) : d \in Dirs, u \in Use}
        \cup {Many(f) : f \in UNION {[D -> Use] : D \in SUBSET Dirs}}
Entry == [total : Use, dirs : Directories, latest : Nat, position : Nat]

TypeOK ==
    /\ usage \in [Cmds -> Entry]
    /\ latest \in Seq(Nat \X Cmds)
    /\ session \in Seq(Cmds \cup {Removed})
    /\ seen \in Seq(Occurrence)
    /\ recalled \in Seq(Cmds)

\* The commands of q, and where each was last used.
Names(q) == [i \in DOMAIN q |-> q[i].cmd]

\* The table l holds the last occurrences in n, sorted, and a finds the row of
\* each command.
Rows(a, l, n) ==
    /\ \A i \in DOMAIN l : l[i][1] \in LastOf(n) /\ l[i][2] = n[l[i][1]]
    /\ \A k \in LastOf(n) : \E i \in DOMAIN l : l[i][1] = k
    /\ \A i, j \in DOMAIN l : i < j => l[i][1] < l[j][1]
    /\ \A c \in Cmds : IF a[c] = 0 THEN \A k \in LastOf(n) : n[k] # c
                       ELSE a[c] \in LastOf(n) /\ n[a[c]] = c

\* The recall list s holds each command of r where p says, in the order of the
\* last recalls.
Slots(p, s, r) ==
    /\ \A c \in Cmds : p[c] # 0 => p[c] \in DOMAIN s /\ s[p[c]] = c
    /\ \A i \in DOMAIN s : s[i] # Removed => p[s[i]] = i
    /\ \A c \in Cmds : p[c] # 0 <=> \E k \in LastOf(r) : r[k] = c
    /\ \A j, k \in LastOf(r) : j < k => p[r[j]] < p[r[k]]

Bounded(s) == Len(s) <= 2 * Len(Live(s)) \/ Len(s) <= CompactAt

LatestOf(u) == [c \in Cmds |-> u[c].latest]
PositionOf(u) == [c \in Cmds |-> u[c].position]

RInv ==
    /\ TypeOK
    /\ Rows(LatestOf(usage), latest, Names(seen))
    /\ Slots(PositionOf(usage), session, recalled)
    /\ Bounded(session)

-----------------------------------------------------------------------------
(* The table of latest occurrences.                                        *)

\* Moving a command's row to a new last occurrence keeps the table right.
LEMMA RowsMoved ==
    ASSUME NEW S, NEW a \in [Cmds -> Nat], NEW l \in Seq(S), NEW n \in Seq(Cmds), NEW c \in Cmds, Rows(a, l, n),
           <<Len(n) + 1, c>> \in S,
           NEW K \in SUBSET (DOMAIN l), \A i \in DOMAIN l : i \in K <=> l[i][1] # a[c]
    PROVE  LET m == Append(Kept(l, K), <<Len(n) + 1, c>>)
           IN  /\ m \in Seq(S)
               /\ Rows([a EXCEPT ![c] = Len(n) + 1], m, Append(n, c))
<1> DEFINE t == Kept(l, K)
<1> DEFINE N == Cardinality(K)
<1> DEFINE m == Append(t, <<Len(n) + 1, c>>)
<1> DEFINE b == [a EXCEPT ![c] = Len(n) + 1]
<1> DEFINE o == Append(n, c)
<1>1. /\ Positions(K) /\ N \in Nat /\ t \in Seq(S) /\ Len(t) = N
      /\ \A k \in K : Rank(K, k) \in 1 .. N /\ t[Rank(K, k)] = l[k]
      /\ \A i \in 1 .. N : \E k \in K : Rank(K, k) = i /\ t[i] = l[k]
  BY KeptSeq
<1>2. /\ Len(n) \in Nat /\ LastOf(o) = {i \in LastOf(n) : n[i] # c} \cup {Len(n) + 1}
      /\ \A i \in LastOf(n) : i \in 1 .. Len(n) /\ o[i] = n[i]
      /\ o[Len(n) + 1] = c
  BY LastAppend
<1> HIDE DEF t, N, o
<1>3. /\ m \in Seq(S) /\ DOMAIN m = 1 .. N + 1 /\ m[N + 1] = <<Len(n) + 1, c>>
      /\ \A i \in 1 .. N : m[i] = t[i]
  BY <1>1, AppendIs
<1> HIDE DEF m, b
<1>11. \A i \in DOMAIN m : i \in 1 .. N \/ i = N + 1
  BY <1>1, <1>3
<1>4. ASSUME NEW k \in LastOf(n) PROVE k = a[c] <=> n[k] = c
  <2>1. IF a[c] = 0 THEN \A i \in LastOf(n) : n[i] # c ELSE a[c] \in LastOf(n) /\ n[a[c]] = c
    BY DEF Rows
  <2>2. k # 0
    BY <1>2
  <2>3. \A i \in LastOf(n) : n[i] = n[k] => i = k
    BY OneLast
  <2> QED BY <2>1, <2>2, <2>3
<1>5. \A i \in DOMAIN l : l[i][1] \in LastOf(n) /\ l[i][2] = n[l[i][1]] /\ l[i][1] \in 1 .. Len(n)
  BY <1>2 DEF Rows
<1>6. \A i \in DOMAIN m : m[i][1] \in LastOf(o) /\ m[i][2] = o[m[i][1]]
  <2>1. ASSUME NEW i \in 1 .. N PROVE m[i][1] \in LastOf(o) /\ m[i][2] = o[m[i][1]]
    <3>1. PICK k \in K : t[i] = l[k]
      BY <1>1
    <3>2. l[k][1] \in LastOf(n) /\ l[k][2] = n[l[k][1]] /\ n[l[k][1]] # c
      BY <1>4, <1>5
    <3> QED BY <1>2, <1>3, <3>1, <3>2
  <2>2. m[N + 1][1] \in LastOf(o) /\ m[N + 1][2] = o[m[N + 1][1]]
    BY <1>2, <1>3
  <2> QED BY <1>11, <2>1, <2>2
<1>7. \A k \in LastOf(o) : \E i \in DOMAIN m : m[i][1] = k
  <2>1. ASSUME NEW k \in LastOf(n), n[k] # c PROVE \E i \in DOMAIN m : m[i][1] = k
    <3>1. PICK i \in DOMAIN l : l[i][1] = k
      BY DEF Rows
    <3>2. i \in K
      BY <1>4, <2>1, <3>1
    <3>3. Rank(K, i) \in 1 .. N /\ t[Rank(K, i)] = l[i]
      BY <1>1, <3>2
    <3>4. Rank(K, i) \in DOMAIN m /\ m[Rank(K, i)][1] = k
      BY <1>1, <1>3, <3>1, <3>3
    <3> QED BY <3>4
  <2>2. N + 1 \in DOMAIN m /\ m[N + 1][1] = Len(n) + 1
    BY <1>1, <1>3
  <2> QED BY <1>2, <2>1, <2>2
<1>8. \A i, j \in DOMAIN m : i < j => m[i][1] < m[j][1]
  <2>1. ASSUME NEW i \in 1 .. N, NEW j \in 1 .. N, i < j PROVE m[i][1] < m[j][1]
    <3>1. PICK h \in K : Rank(K, h) = i /\ t[i] = l[h]
      BY <1>1
    <3>2. PICK k \in K : Rank(K, k) = j /\ t[j] = l[k]
      BY <1>1
    <3>3. h \in Nat /\ k \in Nat /\ i \in Nat /\ j \in Nat
      BY <1>1 DEF Positions
    <3>4. h < k
      <4>1. k < h => Rank(K, k) < Rank(K, h)
        BY <1>1, RankGrows
      <4> QED BY <2>1, <3>1, <3>2, <3>3, <4>1
    <3>5. l[h][1] < l[k][1]
      BY <3>4 DEF Rows
    <3> QED BY <1>3, <3>1, <3>2, <3>5
  <2>2. ASSUME NEW i \in 1 .. N PROVE m[i][1] < Len(n) + 1
    <3>1. PICK k \in K : t[i] = l[k]
      BY <1>1
    <3> QED BY <1>2, <1>3, <1>5, <3>1
  <2>3. m[N + 1][1] = Len(n) + 1
    BY <1>3
  <2>4. \A i, j \in DOMAIN m : i < j => i \in 1 .. N /\ (j \in 1 .. N \/ j = N + 1)
    <3>1. \A i, j \in DOMAIN m : i < j => i # N + 1
      BY <1>1, <1>3
    <3> QED BY <1>11, <3>1
  <2> QED BY <2>1, <2>2, <2>3, <2>4
<1>9. ASSUME NEW x \in Cmds
      PROVE  IF b[x] = 0 THEN \A k \in LastOf(o) : o[k] # x ELSE b[x] \in LastOf(o) /\ o[b[x]] = x
  <2>1. CASE x = c
    <3>1. b[x] = Len(n) + 1
      BY <2>1 DEF b
    <3> QED BY <1>2, <2>1, <3>1
  <2>2. CASE x # c
    <3>1. b[x] = a[x]
      BY <2>2 DEF b
    <3>2. IF a[x] = 0 THEN \A k \in LastOf(n) : n[k] # x ELSE a[x] \in LastOf(n) /\ n[a[x]] = x
      BY DEF Rows
    <3> QED BY <1>2, <2>2, <3>1, <3>2
  <2> QED BY <2>1, <2>2
<1>10. Rows(b, m, o)
  BY <1>6, <1>7, <1>8, <1>9 DEF Rows
<1> QED BY <1>3, <1>10 DEF t, o, b, m

-----------------------------------------------------------------------------
(* The recall list.                                                        *)

LiveAt(s) == {i \in DOMAIN s : s[i] # Removed}
Listed == Cmds \cup {Removed}

LEMMA LiveIs ==
    ASSUME NEW s \in Seq(Listed)
    PROVE  /\ Positions(LiveAt(s)) /\ Cardinality(LiveAt(s)) \in Nat
           /\ Live(s) \in Seq(Listed) /\ Len(Live(s)) = Cardinality(LiveAt(s))
           /\ \A k \in LiveAt(s) : Rank(LiveAt(s), k) \in 1 .. Len(Live(s)) /\ Live(s)[Rank(LiveAt(s), k)] = s[k]
           /\ \A i \in 1 .. Len(Live(s)) : \E k \in LiveAt(s) : Rank(LiveAt(s), k) = i /\ Live(s)[i] = s[k]
<1>1. LiveAt(s) \in SUBSET (DOMAIN s)
  BY DEF LiveAt
<1>2. Live(s) = Kept(s, LiveAt(s))
  BY DEF Live, LiveAt
<1> QED BY <1>1, <1>2, KeptSeq

\* A list without tombstones is its own live part.
LEMMA LiveTwice ==
    ASSUME NEW s \in Seq(Listed), \A i \in DOMAIN s : s[i] # Removed
    PROVE  Len(Live(s)) = Len(s) /\ Bounded(s)
<1>1. LiveAt(s) = 1 .. Len(s) /\ Len(s) \in Nat
  BY DEF LiveAt
<1>2. Len(Live(s)) = Len(s)
  <2>1. Cardinality(1 .. Len(s)) = Len(s)
    BY <1>1, FS_Interval
  <2>2. Len(Live(s)) = Cardinality(LiveAt(s))
    BY LiveIs
  <2> QED BY <1>1, <2>1, <2>2
<1> QED BY <1>1, <1>2 DEF Bounded

\* Compaction keeps every command where its new position says, in order.
LEMMA SlotsCompacted ==
    ASSUME NEW p \in [Cmds -> Nat], NEW s \in Seq(Listed), NEW r \in Seq(Cmds), Slots(p, s, r)
    PROVE  LET q == [x \in Cmds |-> Position(Live(s), x)]
           IN  Slots(q, Live(s), r) /\ Bounded(Live(s)) /\ q \in [Cmds -> Nat]
<1> DEFINE K == LiveAt(s)
<1> DEFINE t == Live(s)
<1> DEFINE q == [x \in Cmds |-> Position(t, x)]
<1>1. /\ Positions(K) /\ t \in Seq(Listed) /\ Len(t) \in Nat /\ DOMAIN t = 1 .. Len(t)
      /\ \A k \in K : Rank(K, k) \in 1 .. Len(t) /\ t[Rank(K, k)] = s[k]
      /\ \A i \in 1 .. Len(t) : \E k \in K : Rank(K, k) = i /\ t[i] = s[k]
  BY LiveIs
<1>2. \A k \in K : k \in DOMAIN s /\ s[k] # Removed /\ s[k] \in Cmds /\ k \in Nat /\ p[s[k]] = k /\ k # 0
  BY DEF LiveAt, Slots, Listed
<1> HIDE DEF K, t
<1>3. \A i \in DOMAIN t : t[i] # Removed
  BY <1>1, <1>2
<1>4. ASSUME NEW x \in Cmds PROVE IF p[x] = 0 THEN q[x] = 0 ELSE p[x] \in K /\ q[x] = Rank(K, p[x])
  <2>1. \A i \in DOMAIN t : t[i] = x => p[x] \in K /\ i = Rank(K, p[x])
    BY <1>1, <1>2
  <2>2. CASE p[x] = 0
    <3>1. \A k \in K : s[k] # x
      BY <1>2, <2>2
    <3>2. \A i \in DOMAIN t : t[i] # x
      BY <1>1, <3>1
    <3> QED BY <2>2, <3>2 DEF Position
  <2>3. CASE p[x] # 0
    <3>1. p[x] \in DOMAIN s /\ s[p[x]] = x
      BY <2>3 DEF Slots
    <3>2. x # Removed
      BY IndexAssumption
    <3>3. p[x] \in K
      BY <3>1, <3>2 DEF K, LiveAt
    <3>4. Rank(K, p[x]) \in DOMAIN t /\ t[Rank(K, p[x])] = x
      BY <1>1, <3>1, <3>3
    <3>5. Position(t, x) \in DOMAIN t /\ t[Position(t, x)] = x
      BY <3>4 DEF Position
    <3> QED BY <2>1, <2>3, <3>3, <3>5
  <2> QED BY <2>2, <2>3
<1>5. \A k \in K : Rank(K, k) \in Nat /\ Rank(K, k) # 0
  BY <1>1
<1> HIDE DEF q
<1>6. \A x \in Cmds : q[x] # 0 => q[x] \in DOMAIN t /\ t[q[x]] = x
  <2>1. ASSUME NEW x \in Cmds, q[x] # 0 PROVE q[x] \in DOMAIN t /\ t[q[x]] = x
    <3>1. p[x] \in K /\ q[x] = Rank(K, p[x]) /\ s[p[x]] = x
      BY <1>4, <2>1 DEF Slots
    <3> QED BY <1>1, <3>1
  <2> QED BY <2>1
<1>7. \A i \in DOMAIN t : t[i] # Removed => q[t[i]] = i
  <2>1. ASSUME NEW i \in DOMAIN t PROVE q[t[i]] = i
    <3>1. PICK k \in K : Rank(K, k) = i /\ t[i] = s[k]
      BY <1>1
    <3>2. s[k] \in Cmds /\ p[s[k]] = k /\ k # 0
      BY <1>2
    <3> QED BY <1>4, <3>1, <3>2
  <2> QED BY <2>1
<1>8. \A x \in Cmds : q[x] # 0 <=> \E k \in LastOf(r) : r[k] = x
  BY <1>4, <1>5 DEF Slots
<1>9. \A j, k \in LastOf(r) : j < k => q[r[j]] < q[r[k]]
  <2>1. ASSUME NEW j \in LastOf(r), NEW k \in LastOf(r), j < k PROVE q[r[j]] < q[r[k]]
    <3>1. r[j] \in Cmds /\ r[k] \in Cmds
      BY DEF LastOf
    <3>2. p[r[j]] < p[r[k]] /\ p[r[j]] # 0 /\ p[r[k]] # 0
      BY <2>1, <3>1 DEF Slots
    <3>3. p[r[j]] \in K /\ q[r[j]] = Rank(K, p[r[j]]) /\ p[r[k]] \in K /\ q[r[k]] = Rank(K, p[r[k]])
      BY <1>4, <3>1, <3>2
    <3> QED BY <1>1, <3>2, <3>3, RankGrows
  <2> QED BY <2>1
<1>10. Bounded(t)
  BY <1>1, <1>3, LiveTwice
<1>11. q \in [Cmds -> Nat]
  <2>1. \A x \in Cmds : q[x] \in Nat
    BY <1>4, <1>5
  <2> QED BY <2>1 DEF q
<1>12. Slots(q, t, r)
  BY <1>6, <1>7, <1>8, <1>9 DEF Slots
<1> QED BY <1>10, <1>11, <1>12 DEF q, t

\* The list with c's slot buried.
Buried(p, s, c) == IF p[c] # 0 THEN [s EXCEPT ![p[c]] = Removed] ELSE s

\* Remembering a command buries its slot and gives it the newest.
LEMMA SlotsRemembered ==
    ASSUME NEW p \in [Cmds -> Nat], NEW s \in Seq(Listed), NEW r \in Seq(Cmds), NEW c \in Cmds, Slots(p, s, r)
    PROVE  LET t == Append(Buried(p, s, c), c)
           IN  /\ t \in Seq(Listed) /\ Len(t) \in Nat
               /\ Slots([p EXCEPT ![c] = Len(t)], t, Append(r, c))
<1> DEFINE b == Buried(p, s, c)
<1> DEFINE t == Append(b, c)
<1> DEFINE q == [p EXCEPT ![c] = Len(t)]
<1> DEFINE o == Append(r, c)
<1>0. c # Removed /\ c \in Listed /\ Removed \in Listed /\ \A x \in Cmds : x # Removed
  BY IndexAssumption DEF Listed
<1>1. /\ b \in Seq(Listed) /\ Len(b) = Len(s) /\ Len(s) \in Nat /\ DOMAIN b = 1 .. Len(s) /\ DOMAIN s = 1 .. Len(s)
      /\ \A i \in DOMAIN s : b[i] = IF p[c] # 0 /\ i = p[c] THEN Removed ELSE s[i]
  <2>1. CASE p[c] = 0
    BY <2>1 DEF Buried
  <2>2. CASE p[c] # 0
    <3>1. p[c] \in DOMAIN s
      BY <2>2 DEF Slots
    <3> QED BY <1>0, <2>2, <3>1 DEF Buried
  <2> QED BY <2>1, <2>2
<1>2. \A i \in DOMAIN s : s[i] = c => p[c] = i /\ p[c] # 0
  BY <1>0, <1>1 DEF Slots
<1> HIDE DEF b
<1>3. /\ t \in Seq(Listed) /\ Len(t) = Len(s) + 1 /\ Len(t) \in Nat /\ DOMAIN t = 1 .. Len(s) + 1
      /\ t[Len(s) + 1] = c /\ \A i \in 1 .. Len(s) : t[i] = b[i]
  BY <1>0, <1>1, AppendIs
<1>4. /\ Len(r) \in Nat /\ LastOf(o) = {i \in LastOf(r) : r[i] # c} \cup {Len(r) + 1}
      /\ \A i \in LastOf(r) : i \in 1 .. Len(r) /\ o[i] = r[i] /\ r[i] \in Cmds
      /\ o[Len(r) + 1] = c
  <2>1. \A i \in LastOf(r) : r[i] \in Cmds
    BY DEF LastOf
  <2> QED BY <2>1, LastAppend
<1> HIDE DEF t, o
<1>5. q[c] = Len(s) + 1 /\ \A x \in Cmds : x # c => q[x] = p[x]
  BY <1>3
<1> HIDE DEF q
<1>6. ASSUME NEW x \in Cmds, q[x] # 0 PROVE q[x] \in DOMAIN t /\ t[q[x]] = x
  <2>1. CASE x = c
    BY <1>1, <1>3, <1>5, <2>1
  <2>2. CASE x # c
    <3>1. p[x] \in DOMAIN s /\ s[p[x]] = x /\ q[x] = p[x]
      BY <1>5, <1>6, <2>2 DEF Slots
    <3>2. ~ (p[c] # 0 /\ p[x] = p[c])
      BY <2>2, <3>1 DEF Slots
    <3>3. b[p[x]] = x
      BY <1>1, <3>1, <3>2
    <3> QED BY <1>1, <1>3, <3>1, <3>3
  <2> QED BY <2>1, <2>2
<1>7. ASSUME NEW i \in DOMAIN t, t[i] # Removed PROVE q[t[i]] = i
  <2>1. CASE i = Len(s) + 1
    BY <1>3, <1>5, <2>1
  <2>2. CASE i # Len(s) + 1
    <3>1. i \in DOMAIN s /\ t[i] = b[i]
      BY <1>1, <1>3, <2>2
    <3>2. b[i] = s[i] /\ ~ (p[c] # 0 /\ i = p[c])
      BY <1>1, <1>7, <3>1
    <3>3. s[i] # c /\ s[i] # Removed
      BY <1>2, <1>7, <3>1, <3>2
    <3>4. s[i] \in Cmds /\ p[s[i]] = i
      BY <1>1, <3>1, <3>3 DEF Slots, Listed
    <3> QED BY <1>5, <3>1, <3>2, <3>3, <3>4
  <2> QED BY <2>1, <2>2
<1>8. ASSUME NEW x \in Cmds PROVE q[x] # 0 <=> \E k \in LastOf(o) : o[k] = x
  <2>1. CASE x = c
    BY <1>1, <1>4, <1>5, <2>1
  <2>2. CASE x # c
    <3>1. p[x] # 0 <=> \E k \in LastOf(r) : r[k] = x
      BY DEF Slots
    <3> QED BY <1>4, <1>5, <2>2, <3>1
  <2> QED BY <2>1, <2>2
<1>9. ASSUME NEW j \in LastOf(o), NEW k \in LastOf(o), j < k PROVE q[o[j]] < q[o[k]]
  <2>1. j \in LastOf(r) /\ r[j] # c
    BY <1>4, <1>9
  <2>2. o[j] = r[j] /\ r[j] \in Cmds /\ q[o[j]] = p[r[j]]
    BY <1>4, <1>5, <2>1
  <2>3. CASE k = Len(r) + 1
    <3>1. p[r[j]] # 0
      BY <2>1, <2>2 DEF Slots
    <3>2. p[r[j]] \in 1 .. Len(s)
      BY <1>1, <2>2, <3>1 DEF Slots
    <3> QED BY <1>1, <1>4, <1>5, <2>2, <2>3, <3>2
  <2>4. CASE k \in LastOf(r) /\ r[k] # c
    <3>1. o[k] = r[k] /\ r[k] \in Cmds /\ q[o[k]] = p[r[k]]
      BY <1>4, <1>5, <2>4
    <3>2. p[r[j]] < p[r[k]]
      BY <1>9, <2>1, <2>4 DEF Slots
    <3> QED BY <2>2, <3>1, <3>2
  <2> QED BY <1>4, <2>3, <2>4
<1>10. Slots(q, t, o)
  BY <1>6, <1>7, <1>8, <1>9 DEF Slots
<1> QED BY <1>3, <1>10 DEF q, t, o, b

-----------------------------------------------------------------------------
(* The invariant says what the table and the list answer.                  *)

\* Up-arrow recall, from the list: each last recall at its rank.
LEMMA SlotsAnswer ==
    ASSUME NEW p \in [Cmds -> Nat], NEW s \in Seq(Listed), NEW r \in Seq(Cmds), Slots(p, s, r)
    PROVE  /\ Len(Live(s)) = Cardinality(LastOf(r))
           /\ \A i \in LastOf(r) : Live(s)[Rank(LastOf(r), i)] = r[i]
<1> DEFINE K == LastOf(r)
<1> DEFINE L == LiveAt(s)
<1> DEFINE f == [k \in K |-> p[r[k]]]
<1>1. Positions(K)
  <2>1. K \in SUBSET (1 .. Len(r)) /\ Len(r) \in Nat
    BY DEF LastOf
  <2> QED BY <2>1, SomePositions
<1>2. \A k \in K : r[k] \in Cmds
  BY DEF LastOf
<1>3. /\ Positions(L) /\ Len(Live(s)) = Cardinality(L)
      /\ \A k \in L : Live(s)[Rank(L, k)] = s[k]
  BY LiveIs
<1>4. \A k \in K : p[r[k]] # 0 /\ p[r[k]] \in L /\ s[p[r[k]]] = r[k]
  BY <1>2, IndexAssumption DEF Slots, LiveAt
<1>5. \A l \in L : \E k \in K : p[r[k]] = l
  <2>1. ASSUME NEW l \in L PROVE \E k \in K : p[r[k]] = l
    <3>1. l \in DOMAIN s /\ s[l] \in Cmds /\ p[s[l]] = l /\ l # 0
      BY DEF Slots, LiveAt, Listed
    <3>2. PICK k \in K : r[k] = s[l]
      BY <3>1 DEF Slots
    <3> QED BY <3>1, <3>2
  <2> QED BY <2>1
<1>6. \A j, k \in K : j < k => p[r[j]] < p[r[k]]
  BY DEF Slots
<1> HIDE DEF K, L
<1>7. Ordered(f, K, L)
  <2>1. f \in [K -> L]
    BY <1>4
  <2> QED BY <1>5, <1>6, <2>1 DEF Ordered
<1>8. Cardinality(K) = Cardinality(L) /\ \A k \in K : f[k] \in L /\ Rank(L, f[k]) = Rank(K, k)
  BY <1>1, <1>3, <1>7, RankSame
<1>9. ASSUME NEW k \in K PROVE Live(s)[Rank(K, k)] = r[k]
  BY <1>3, <1>4, <1>8
<1> QED BY <1>3, <1>8, <1>9 DEF K

LEMMA NamesSeq ==
    ASSUME NEW q \in Seq(Occurrence)
    PROVE  /\ Names(q) \in Seq(Cmds) /\ Len(Names(q)) = Len(q) /\ DOMAIN Names(q) = DOMAIN q
           /\ \A i \in DOMAIN q : Names(q)[i] = q[i].cmd
<1>1. DOMAIN q = 1 .. Len(q) /\ Len(q) \in Nat /\ \A i \in DOMAIN q : q[i] \in Occurrence
  OBVIOUS
<1>2. \A i \in DOMAIN q : q[i].cmd \in Cmds
  BY <1>1 DEF Occurrence
<1>3. Names(q) \in [1 .. Len(q) -> Cmds]
  BY <1>1, <1>2 DEF Names
<1> QED BY <1>1, <1>3 DEF Names

LEMMA NamesAppend ==
    ASSUME NEW q \in Seq(Occurrence), NEW e \in Occurrence
    PROVE  Names(Append(q, e)) = Append(Names(q), e.cmd)
<1> DEFINE a == Append(q, e)
<1>1. /\ Len(q) \in Nat /\ a \in Seq(Occurrence) /\ Len(a) = Len(q) + 1 /\ DOMAIN a = 1 .. Len(q) + 1
      /\ a[Len(q) + 1] = e /\ \A i \in 1 .. Len(q) : a[i] = q[i]
  BY AppendIs
<1> HIDE DEF a
<1>2. e.cmd \in Cmds
  BY DEF Occurrence
<1>3. /\ Names(q) \in Seq(Cmds) /\ Len(Names(q)) = Len(q) /\ DOMAIN q = 1 .. Len(q) /\ \A i \in DOMAIN q : Names(q)[i] = q[i].cmd
      /\ Names(a) \in Seq(Cmds) /\ Len(Names(a)) = Len(a) /\ \A i \in DOMAIN a : Names(a)[i] = a[i].cmd
  BY <1>1, NamesSeq
<1> DEFINE b == Append(Names(q), e.cmd)
<1>4. b \in Seq(Cmds) /\ Len(b) = Len(q) + 1 /\ b[Len(q) + 1] = e.cmd /\ \A i \in 1 .. Len(q) : b[i] = Names(q)[i]
  BY <1>2, <1>3, AppendIs
<1> HIDE DEF b
<1>5. ASSUME NEW i \in 1 .. Len(q) + 1 PROVE Names(a)[i] = b[i]
  <2>1. CASE i = Len(q) + 1
    BY <1>1, <1>3, <1>4, <2>1
  <2>2. CASE i # Len(q) + 1
    <3>1. i \in 1 .. Len(q)
      BY <1>1, <2>2
    <3> QED BY SMTT(30), <1>1, <1>3, <1>4, <3>1
  <2> QED BY <2>1, <2>2
<1>6. Names(a) = b
  BY <1>1, <1>3, <1>4, <1>5
<1> QED BY <1>6 DEF a, b

LEMMA RecallFollows ==
    ASSUME RInv
    PROVE  RecallExact
<1>1. seen \in Seq(Occurrence) /\ session \in Seq(Listed) /\ recalled \in Seq(Cmds)
  BY DEF RInv, TypeOK, Listed
<1>2. LastUses = LastOf(Names(seen)) /\ \A i \in LastUses : Names(seen)[i] = seen[i].cmd
  <2>1. DOMAIN seen = 1 .. Len(seen) /\ Len(seen) \in Nat
    BY <1>1
  <2>2. \A i \in DOMAIN seen : \A j \in i + 1 .. Len(seen) : j \in DOMAIN seen
    BY <2>1
  <2> QED BY <1>1, <2>1, <2>2, NamesSeq DEF LastUses, LastOf
<1>3. LastRecalls = LastOf(recalled)
  BY DEF LastRecalls, LastOf
<1>4. PositionOf(usage) \in [Cmds -> Nat]
  BY DEF RInv, TypeOK, Entry, PositionOf
<1>5. /\ Len(Live(session)) = Cardinality(LastRecalls)
      /\ \A i \in LastRecalls : Live(session)[Rank(LastRecalls, i)] = recalled[i]
  BY <1>1, <1>3, <1>4, SlotsAnswer DEF RInv
<1>6. {latest[i] : i \in DOMAIN latest} = {<<i, seen[i].cmd>> : i \in LastUses}
  <2>1. latest \in Seq(Nat \X Cmds)
    BY DEF RInv, TypeOK
  <2>2. \A i \in DOMAIN latest : latest[i] = <<latest[i][1], latest[i][2]>>
    BY <2>1
  <2>3. \A i \in DOMAIN latest : latest[i][1] \in LastUses /\ latest[i][2] = seen[latest[i][1]].cmd
    BY <1>2 DEF RInv, Rows
  <2>4. \A k \in LastUses : \E i \in DOMAIN latest : latest[i][1] = k
    BY <1>2 DEF RInv, Rows
  <2>5. \A k \in LastUses : \E i \in DOMAIN latest : latest[i] = <<k, seen[k].cmd>>
    BY <2>2, <2>3, <2>4
  <2> QED BY <2>2, <2>3, <2>5
<1>7. \A i, j \in DOMAIN latest : i < j => latest[i][1] < latest[j][1]
  BY DEF RInv, Rows
<1>8. Len(session) <= 2 * Len(Live(session)) \/ Len(session) <= CompactAt
  BY DEF RInv, Bounded
<1> QED BY <1>5, <1>6, <1>7, <1>8 DEF RecallExact

-----------------------------------------------------------------------------
(* Types of what an occurrence records.                                    *)

LEMMA RecordType ==
    ASSUME NEW u \in Use, NEW t \in Times
    PROVE  /\ Record(u, t) \in Use /\ Record(u, t).count = u.count + 1
           /\ Record(u, t).time = IF u.time < t THEN t ELSE u.time
           /\ Zero \in Use /\ t \in Nat
  BY IndexAssumption DEF Record, Use, Zero

\* The four forms of the directory records.
LEMMA Forms ==
    ASSUME NEW r \in Directories
    PROVE  \/ r = None /\ r.kind = "none"
           \/ r.kind = "shared" /\ r.dir \in Dirs /\ r = Shared(r.dir)
           \/ r.kind = "tracked" /\ r.dir \in Dirs /\ r.use \in Use /\ r = Tracked(r.dir, r.use)
           \/ r.kind = "many" /\ DOMAIN r.map \in SUBSET Dirs /\ r.map \in [DOMAIN r.map -> Use] /\ r = Many(r.map)
<1>1. CASE r = None
  BY <1>1 DEF None
<1>2. CASE \E d \in Dirs : r = Shared(d)
  BY <1>2 DEF Shared
<1>3. CASE \E d \in Dirs, u \in Use : r = Tracked(d, u)
  BY <1>3 DEF Tracked
<1>4. CASE \E f \in UNION {[D -> Use] : D \in SUBSET Dirs} : r = Many(f)
  <2>1. PICK D \in SUBSET Dirs : \E f \in [D -> Use] : r = Many(f)
    BY <1>4
  <2>2. PICK f \in [D -> Use] : r = Many(f)
    BY <2>1
  <2>3. r.kind = "many" /\ r.map = f /\ DOMAIN f = D
    BY <2>2 DEF Many
  <2> QED BY <2>2, <2>3
<1> QED BY <1>1, <1>2, <1>3, <1>4 DEF Directories

LEMMA ManyType ==
    ASSUME NEW D \in SUBSET Dirs, NEW f \in [D -> Use]
    PROVE  Many(f) \in Directories
  BY DEF Directories

LEMMA PutIs ==
    ASSUME NEW f, DOMAIN f \in SUBSET Dirs, f \in [DOMAIN f -> Use], NEW d \in Dirs, NEW t \in Times
    PROVE  /\ DOMAIN Put(f, d, t) = DOMAIN f \cup {d}
           /\ Put(f, d, t)[d] = Record(IF d \in DOMAIN f THEN f[d] ELSE Zero, t)
           /\ \A x \in DOMAIN f : x # d => Put(f, d, t)[x] = f[x]
           /\ Put(f, d, t) \in [DOMAIN f \cup {d} -> Use]
           /\ Many(Put(f, d, t)) \in Directories
<1>1. /\ DOMAIN Put(f, d, t) = DOMAIN f \cup {d}
      /\ Put(f, d, t)[d] = Record(IF d \in DOMAIN f THEN f[d] ELSE Zero, t)
      /\ \A x \in DOMAIN f : x # d => Put(f, d, t)[x] = f[x]
  BY DEF Put
<1>2. Put(f, d, t)[d] \in Use
  <2>1. (IF d \in DOMAIN f THEN f[d] ELSE Zero) \in Use
    BY DEF Use, Zero
  <2> HIDE DEF Zero
  <2> QED BY <1>1, <2>1, RecordType
<1>3. \A x \in DOMAIN f \cup {d} : Put(f, d, t)[x] \in Use
  BY <1>1, <1>2
<1>4. Put(f, d, t) \in [DOMAIN f \cup {d} -> Use]
  <2>1. Put(f, d, t) = [x \in DOMAIN f \cup {d} |-> Put(f, d, t)[x]]
    BY DEF Put
  <2> QED BY <1>3, <2>1
<1>5. Many(Put(f, d, t)) \in Directories
  BY <1>4, ManyType
<1> QED BY <1>1, <1>4, <1>5

LEMMA OnlyIs ==
    ASSUME NEW d \in Dirs, NEW u \in Use
    PROVE  DOMAIN Only(d, u) = {d} /\ Only(d, u)[d] = u /\ DOMAIN Only(d, u) \in SUBSET Dirs /\ Only(d, u) \in [DOMAIN Only(d, u) -> Use]
  BY DEF Only

\* What an occurrence leaves in the entry of its command.
LEMMA AppliedIs ==
    ASSUME usage \in [Cmds -> Entry], NEW c \in Cmds, NEW d \in Dirs \cup {NoDir}, NEW t \in Times, NEW id \in Nat
    PROVE  LET a == Applied(c, d, t, id)
           IN  /\ a \in Entry /\ a.latest = id /\ a.position = usage[c].position
               /\ a.total = Record(usage[c].total, t)
               /\ a.dirs = IF d = NoDir THEN DetachSharedDirectory(usage[c]) ELSE RecordDirectory(usage[c], d, t)
<1> DEFINE u == usage[c]
<1> DEFINE r == IF d = NoDir THEN DetachSharedDirectory(u) ELSE RecordDirectory(u, d, t)
<1>1. u \in Entry /\ u.total \in Use /\ u.dirs \in Directories /\ u.position \in Nat
  BY DEF Entry
<1>2. DetachSharedDirectory(u) \in Directories
  <2>1. CASE u.dirs.kind = "shared"
    <3>1. u.dirs.dir \in Dirs
      BY <1>1, <2>1, Forms DEF None
    <3> QED BY <1>1, <2>1, <3>1 DEF DetachSharedDirectory, Directories
  <2>2. CASE u.dirs.kind # "shared"
    BY <1>1, <2>2 DEF DetachSharedDirectory
  <2> QED BY <2>1, <2>2
<1>3. ASSUME NEW e \in Dirs PROVE RecordDirectory(u, e, t) \in Directories
  <2> DEFINE q == u.dirs
  <2>1. CASE q.kind = "none"
    BY <2>1 DEF RecordDirectory, Directories
  <2>2. CASE q.kind = "shared" /\ q.dir \in Dirs
    <3>1. Many(Put(Only(q.dir, u.total), e, t)) \in Directories
      BY <1>1, <2>2, OnlyIs, PutIs
    <3> QED BY <1>1, <2>2, <3>1 DEF RecordDirectory
  <2>3. CASE q.kind = "tracked" /\ q.dir \in Dirs /\ q.use \in Use
    <3>1. Many(Put(Only(q.dir, q.use), e, t)) \in Directories
      BY <2>3, OnlyIs, PutIs
    <3>2. Tracked(e, Record(q.use, t)) \in Directories
      BY <2>3, RecordType DEF Directories
    <3> QED BY <2>3, <3>1, <3>2 DEF RecordDirectory
  <2>4. CASE q.kind = "many" /\ DOMAIN q.map \in SUBSET Dirs /\ q.map \in [DOMAIN q.map -> Use]
    <3>1. Many(Put(q.map, e, t)) \in Directories
      BY <2>4, PutIs
    <3> QED BY <2>4, <3>1 DEF RecordDirectory
  <2> QED BY <1>1, <2>1, <2>2, <2>3, <2>4, Forms
<1>4. r \in Directories
  BY <1>2, <1>3
<1>5. Record(u.total, t) \in Use
  BY <1>1, RecordType
<1> HIDE DEF r
<1>6. Applied(c, d, t, id) = [u EXCEPT !.dirs = r, !.total = Record(@, t), !.latest = id]
  BY DEF Applied, r
<1> HIDE DEF u
<1>7. /\ Applied(c, d, t, id) \in Entry /\ Applied(c, d, t, id).latest = id /\ Applied(c, d, t, id).position = u.position
      /\ Applied(c, d, t, id).total = Record(u.total, t) /\ Applied(c, d, t, id).dirs = r
  BY <1>1, <1>4, <1>5, <1>6 DEF Entry
<1> QED BY <1>7 DEF u, r

-----------------------------------------------------------------------------
(* The steps keep the table and the list.                                  *)

\* Remembering, with or without compaction.
LEMMA RememberedIs ==
    ASSUME NEW u \in [Cmds -> Entry], session \in Seq(Listed), recalled \in Seq(Cmds), NEW c \in Cmds,
           Slots(PositionOf(u), session, recalled)
    PROVE  LET r == Remembered(u, c)
           IN  /\ r.session \in Seq(Listed) /\ Bounded(r.session)
               /\ r.usage \in [Cmds -> Entry]
               /\ Slots(PositionOf(r.usage), r.session, Append(recalled, c))
               /\ LatestOf(r.usage) = LatestOf(u)
               /\ \A x \in Cmds : r.usage[x].total = u[x].total /\ r.usage[x].dirs = u[x].dirs
<1> DEFINE p == PositionOf(u)
<1> DEFINE s == Append(Buried(p, session, c), c)
<1> DEFINE q == [p EXCEPT ![c] = Len(s)]
<1> DEFINE n == Append(recalled, c)
<1> DEFINE compact == Len(s) > 2 * Len(Live(s)) /\ Len(s) > CompactAt
<1> DEFINE moved == [x \in Cmds |-> [u[x] EXCEPT !.position = Position(Live(s), x)]]
<1> DEFINE put == [u EXCEPT ![c].position = Len(s)]
<1>1. p \in [Cmds -> Nat] /\ \A x \in Cmds : p[x] = u[x].position
  BY DEF PositionOf, Entry
<1>2. s = Append(IF u[c].position # 0 THEN [session EXCEPT ![u[c].position] = Removed] ELSE session, c)
  BY <1>1 DEF Buried
<1> HIDE DEF p
<1>3. s \in Seq(Listed) /\ Len(s) \in Nat /\ Slots(q, s, n)
  BY <1>1, SlotsRemembered DEF p
<1>4. n \in Seq(Cmds)
  OBVIOUS
<1>5. Remembered(u, c) = [session |-> IF compact THEN Live(s) ELSE s, usage |-> IF compact THEN moved ELSE put]
  BY <1>2 DEF Remembered
<1>6. q \in [Cmds -> Nat]
  BY <1>1, <1>3
<1> HIDE DEF s, n
<1>7. CASE compact
  <2> DEFINE m == [x \in Cmds |-> Position(Live(s), x)]
  <2>1. Live(s) \in Seq(Listed) /\ Slots(m, Live(s), n) /\ Bounded(Live(s)) /\ m \in [Cmds -> Nat]
    BY <1>3, <1>4, <1>6, LiveIs, SlotsCompacted
  <2>2. \A x \in Cmds : m[x] = Position(Live(s), x) /\ m[x] \in Nat
    BY <2>1
  <2>3. ASSUME NEW x \in Cmds
        PROVE  /\ moved[x] \in Entry /\ moved[x].position = m[x] /\ moved[x].latest = u[x].latest
               /\ moved[x].total = u[x].total /\ moved[x].dirs = u[x].dirs
    <3>1. u[x] \in Entry
      OBVIOUS
    <3>2. moved[x] = [u[x] EXCEPT !.position = m[x]]
      BY <2>2
    <3> HIDE DEF moved, m
    <3> QED BY <2>2, <3>1, <3>2 DEF Entry
  <2>4. moved \in [Cmds -> Entry]
    BY <2>3
  <2>5. PositionOf(moved) = m /\ LatestOf(moved) = LatestOf(u)
    <3> HIDE DEF moved
    <3>1. m = [x \in Cmds |-> m[x]]
      OBVIOUS
    <3> HIDE DEF m
    <3> QED BY <2>3, <3>1 DEF PositionOf, LatestOf
  <2> HIDE DEF moved, m
  <2>6. Remembered(u, c) = [session |-> Live(s), usage |-> moved]
    BY <1>5, <1>7
  <2>7. Remembered(u, c).session = Live(s) /\ Remembered(u, c).usage = moved
    BY <2>6
  <2> QED BY <2>1, <2>3, <2>4, <2>5, <2>7 DEF n
<1>8. CASE ~ compact
  <2>1. Bounded(s)
    <3>1. Len(Live(s)) \in Nat /\ CompactAt \in Nat
      BY <1>3, LiveIs, IndexAssumption
    <3> QED BY <1>3, <1>8, <3>1 DEF Bounded
  <2>2. ASSUME NEW x \in Cmds
        PROVE  /\ put[x] \in Entry /\ put[x].position = q[x] /\ put[x].latest = u[x].latest
               /\ put[x].total = u[x].total /\ put[x].dirs = u[x].dirs
    <3>1. u[x] \in Entry
      OBVIOUS
    <3>2. put[x] = [u[x] EXCEPT !.position = q[x]]
      <4>1. CASE x = c
        BY <1>1, <4>1
      <4>2. CASE x # c
        <5>1. q[x] = u[x].position /\ put[x] = u[x]
          BY <1>1, <4>2
        <5> HIDE DEF q, put
        <5> QED BY <3>1, <5>1 DEF Entry
      <4> QED BY <4>1, <4>2
    <3>3. q[x] \in Nat
      BY <1>6
    <3> HIDE DEF put, q
    <3> QED BY <3>1, <3>2, <3>3 DEF Entry
  <2>3. put \in [Cmds -> Entry]
    <3>1. put = [x \in Cmds |-> put[x]]
      OBVIOUS
    <3> HIDE DEF put, q
    <3> QED BY <2>2, <3>1
  <2>4. PositionOf(put) = q /\ LatestOf(put) = LatestOf(u)
    <3>1. q = [x \in Cmds |-> q[x]]
      BY <1>6
    <3> HIDE DEF put, q
    <3> QED BY <2>2, <3>1 DEF PositionOf, LatestOf
  <2> HIDE DEF put, q
  <2>5. Remembered(u, c) = [session |-> s, usage |-> put]
    BY <1>5, <1>8
  <2>6. Remembered(u, c).session = s /\ Remembered(u, c).usage = put
    BY <2>5
  <2> QED BY <1>3, <2>1, <2>2, <2>3, <2>4, <2>6 DEF n
<1> QED BY <1>7, <1>8

\* What both operations do to the table.
LEMMA TableMoves ==
    ASSUME TypeOK, NEW c \in Cmds, NEW e \in Occurrence, e.cmd = c,
           Rows(LatestOf(usage), latest, Names(seen))
    PROVE  /\ MoveRow(c, NextId) \in Seq(Nat \X Cmds)
           /\ Rows([LatestOf(usage) EXCEPT ![c] = NextId], MoveRow(c, NextId), Names(Append(seen, e)))
           /\ Append(seen, e) \in Seq(Occurrence) /\ NextId \in Nat
<1> DEFINE S == Nat \X Cmds
<1> DEFINE K == {i \in DOMAIN latest : latest[i][1] # usage[c].latest}
<1> DEFINE a == LatestOf(usage)
<1>1. latest \in Seq(S) /\ seen \in Seq(Occurrence) /\ usage \in [Cmds -> Entry]
  BY DEF TypeOK
<1>2. /\ Names(seen) \in Seq(Cmds) /\ Len(Names(seen)) = Len(seen) /\ Len(seen) \in Nat
      /\ Names(Append(seen, e)) = Append(Names(seen), c) /\ Append(seen, e) \in Seq(Occurrence)
  BY <1>1, NamesSeq, NamesAppend
<1>3. a \in [Cmds -> Nat] /\ a[c] = usage[c].latest
  BY <1>1 DEF LatestOf, Entry
<1>4. <<NextId, c>> \in S /\ NextId = Len(Names(seen)) + 1 /\ NextId \in Nat
  BY <1>2 DEF NextId
<1>5. MoveRow(c, NextId) = Append(Kept(latest, K), <<NextId, c>>)
  BY DEF MoveRow
<1>6. K \in SUBSET (DOMAIN latest) /\ \A i \in DOMAIN latest : i \in K <=> latest[i][1] # a[c]
  BY <1>3
<1> HIDE DEF S, K, a
<1>7. Rows(a, latest, Names(seen))
  BY DEF a
<1>8. MoveRow(c, NextId) \in Seq(S) /\ Rows([a EXCEPT ![c] = NextId], MoveRow(c, NextId), Append(Names(seen), c))
  <2> DEFINE n == Names(seen)
  <2> DEFINE m == Append(Kept(latest, K), <<Len(n) + 1, c>>)
  <2>1. n \in Seq(Cmds) /\ Rows(a, latest, n) /\ <<Len(n) + 1, c>> \in S
    BY <1>2, <1>4, <1>7
  <2> HIDE DEF n
  <2>2. m \in Seq(S) /\ Rows([a EXCEPT ![c] = Len(n) + 1], m, Append(n, c))
    BY <1>1, <1>3, <1>6, <2>1, RowsMoved
  <2>3. m = MoveRow(c, NextId) /\ Len(n) + 1 = NextId
    BY <1>4, <1>5 DEF n
  <2> HIDE DEF m
  <2> QED BY <2>2, <2>3 DEF n
<1> QED BY <1>2, <1>4, <1>8 DEF S, a

\* The indexes of the entries after c's is replaced.
LEMMA Replaced ==
    ASSUME NEW u \in [Cmds -> Entry], NEW c \in Cmds, NEW e \in Entry, e.position = u[c].position,
           NEW w, \A x \in Cmds : w[x] = IF x = c THEN e ELSE u[x]
    PROVE  PositionOf(w) = PositionOf(u) /\ LatestOf(w) = [LatestOf(u) EXCEPT ![c] = e.latest]
<1>1. \A x \in Cmds : w[x] = (IF x = c THEN e ELSE u[x]) /\ w[x].position = u[x].position
  OBVIOUS
<1>3. PositionOf(w) = PositionOf(u)
  BY <1>1 DEF PositionOf
<1>4. LatestOf(w) = [LatestOf(u) EXCEPT ![c] = e.latest]
  BY <1>1 DEF LatestOf
<1> QED BY <1>3, <1>4

LEMMA SyncRecalls ==
    ASSUME RInv, NEW c \in Cmds, NEW d \in Dirs \cup {NoDir}, NEW t \in Times, Sync(c, d, t)
    PROVE  RInv'
<1> DEFINE e == [cmd |-> c, dir |-> d, time |-> t]
<1>1. TypeOK /\ usage \in [Cmds -> Entry] /\ e \in Occurrence /\ e.cmd = c
  BY DEF RInv, TypeOK, Occurrence
<1>2. /\ MoveRow(c, NextId) \in Seq(Nat \X Cmds) /\ Append(seen, e) \in Seq(Occurrence) /\ NextId \in Nat
      /\ Rows([LatestOf(usage) EXCEPT ![c] = NextId], MoveRow(c, NextId), Names(Append(seen, e)))
  <2> HIDE DEF e
  <2> QED BY <1>1, TableMoves DEF RInv
<1> DEFINE a == Applied(c, d, t, NextId)
<1>3. a \in Entry /\ a.latest = NextId /\ a.position = usage[c].position
  <2> HIDE DEF e
  <2>1. NextId \in Nat /\ usage \in [Cmds -> Entry]
    BY <1>1, <1>2
  <2> QED BY <2>1, AppliedIs
<1>4. usage' = [usage EXCEPT ![c] = a] /\ latest' = MoveRow(c, NextId) /\ seen' = Append(seen, e) /\ session' = session /\ recalled' = recalled
  BY DEF Sync
<1> HIDE DEF a, e
<1>5. usage' \in [Cmds -> Entry] /\ PositionOf(usage') = PositionOf(usage) /\ LatestOf(usage') = [LatestOf(usage) EXCEPT ![c] = NextId]
  <2> DEFINE w == [usage EXCEPT ![c] = a]
  <2>1. w \in [Cmds -> Entry] /\ PositionOf(w) = PositionOf(usage) /\ LatestOf(w) = [LatestOf(usage) EXCEPT ![c] = a.latest]
    <3>1. w \in [Cmds -> Entry] /\ \A x \in Cmds : w[x] = IF x = c THEN a ELSE usage[x]
      BY <1>1, <1>3
    <3> HIDE DEF w
    <3> QED BY <1>1, <1>3, <3>1, Replaced
  <2>2. w = usage'
    BY <1>4
  <2> HIDE DEF w
  <2> QED BY <1>3, <2>1, <2>2
<1>6. TypeOK'
  BY <1>1, <1>2, <1>4, <1>5 DEF TypeOK
<1>7. Rows(LatestOf(usage'), latest', Names(seen'))
  BY <1>2, <1>4, <1>5
<1>8. Slots(PositionOf(usage'), session', recalled') /\ Bounded(session')
  BY <1>4, <1>5 DEF RInv
<1> QED BY <1>6, <1>7, <1>8 DEF RInv, Rows, Slots, Bounded, Live

LEMMA AddRecalls ==
    ASSUME RInv, NEW c \in Cmds, NEW d \in Dirs \cup {NoDir}, NEW t \in Times, Add(c, d, t)
    PROVE  RInv'
<1> DEFINE e == [cmd |-> c, dir |-> d, time |-> t]
<1>1. TypeOK /\ usage \in [Cmds -> Entry] /\ e \in Occurrence /\ e.cmd = c /\ session \in Seq(Listed) /\ recalled \in Seq(Cmds)
  BY DEF RInv, TypeOK, Occurrence, Listed
<1>2. /\ MoveRow(c, NextId) \in Seq(Nat \X Cmds) /\ Append(seen, e) \in Seq(Occurrence) /\ NextId \in Nat
      /\ Rows([LatestOf(usage) EXCEPT ![c] = NextId], MoveRow(c, NextId), Names(Append(seen, e)))
  <2> HIDE DEF e
  <2> QED BY <1>1, TableMoves DEF RInv
<1> DEFINE a == Applied(c, d, t, NextId)
<1> DEFINE w == [usage EXCEPT ![c] = a]
<1> DEFINE r == Remembered(w, c)
<1>3. a \in Entry /\ a.latest = NextId /\ a.position = usage[c].position
  <2> HIDE DEF e
  <2>1. NextId \in Nat /\ usage \in [Cmds -> Entry]
    BY <1>1, <1>2
  <2> QED BY <2>1, AppliedIs
<1>4. usage' = r.usage /\ session' = r.session /\ latest' = MoveRow(c, NextId) /\ seen' = Append(seen, e) /\ recalled' = Append(recalled, c)
  BY DEF Add
<1> HIDE DEF a, e
<1>5. w \in [Cmds -> Entry] /\ PositionOf(w) = PositionOf(usage) /\ LatestOf(w) = [LatestOf(usage) EXCEPT ![c] = NextId]
  <2>1. w \in [Cmds -> Entry] /\ PositionOf(w) = PositionOf(usage) /\ LatestOf(w) = [LatestOf(usage) EXCEPT ![c] = a.latest]
    <3>1. w \in [Cmds -> Entry] /\ \A x \in Cmds : w[x] = IF x = c THEN a ELSE usage[x]
      BY <1>1, <1>3
    <3>2. usage \in [Cmds -> Entry]
      BY <1>1
    <3> HIDE DEF w
    <3> QED BY <1>3, <3>1, <3>2, Replaced
  <2> HIDE DEF w
  <2> QED BY <1>3, <2>1
<1> HIDE DEF w
<1>6. /\ r.session \in Seq(Listed) /\ Bounded(r.session) /\ r.usage \in [Cmds -> Entry]
      /\ Slots(PositionOf(r.usage), r.session, Append(recalled, c)) /\ LatestOf(r.usage) = LatestOf(w)
  BY <1>1, <1>5, RememberedIs DEF RInv
<1> HIDE DEF r
<1>7. TypeOK'
  BY <1>1, <1>2, <1>4, <1>6 DEF TypeOK, Listed
<1>8. Rows(LatestOf(usage'), latest', Names(seen'))
  BY <1>2, <1>4, <1>5, <1>6
<1>9. Slots(PositionOf(usage'), session', recalled') /\ Bounded(session')
  BY <1>4, <1>6
<1> QED BY <1>7, <1>8, <1>9 DEF RInv, Rows, Slots, Bounded, Live

\* Nothing used, nothing to recall.
LEMMA Blank ==
    ASSUME usage' = [c \in Cmds |-> Absent], latest' = <<>>, session' = <<>>, seen' = <<>>, recalled' = <<>>
    PROVE  RInv'
<1>1. Absent \in Entry /\ Absent.latest = 0 /\ Absent.position = 0
  BY DEF Absent, Entry, Directories, Zero, Use
<1> DEFINE z == [c \in Cmds |-> 0]
<1>2. LatestOf(usage') = z /\ PositionOf(usage') = z
  <2> HIDE DEF Absent
  <2> QED BY <1>1 DEF LatestOf, PositionOf
<1>3. LastOf(<<>>) = {} /\ Names(<<>>) = <<>>
  BY DEF LastOf, Names
<1>4. TypeOK'
  BY <1>1 DEF TypeOK
<1>5. Rows(z, <<>>, <<>>) /\ Slots(z, <<>>, <<>>)
  BY <1>3 DEF Rows, Slots
<1>6. Bounded(<<>>)
  <2>1. <<>> \in Seq(Listed) /\ DOMAIN <<>> = {}
    OBVIOUS
  <2> QED BY <2>1, LiveTwice
<1> HIDE DEF z
<1> QED BY <1>2, <1>3, <1>4, <1>5, <1>6 DEF RInv, Rows, Slots, Bounded, Live

\* Loading lists every command of the table at its row.
LEMMA LoadRecalls ==
    ASSUME RInv, Load
    PROVE  RInv'
<1> DEFINE S == Nat \X Cmds
<1> DEFINE s == [i \in DOMAIN latest |-> latest[i][2]]
<1> DEFINE n == Names(seen)
<1>1. /\ usage \in [Cmds -> Entry] /\ latest \in Seq(S) /\ DOMAIN latest = 1 .. Len(latest) /\ Len(latest) \in Nat
      /\ \A i \in DOMAIN latest : latest[i] \in S
      /\ seen \in Seq(Occurrence) /\ n \in Seq(Cmds)
  <2>1. seen \in Seq(Occurrence) /\ usage \in [Cmds -> Entry] /\ latest \in Seq(S)
    BY DEF RInv, TypeOK
  <2> HIDE DEF S
  <2> QED BY <2>1, NamesSeq
<1>2. /\ session' = s /\ recalled' = s /\ latest' = latest /\ seen' = seen
      /\ usage' = [c \in Cmds |-> [usage[c] EXCEPT !.position = Position(s, c)]]
  BY DEF Load
<1>3. s \in Seq(Cmds) /\ Len(s) = Len(latest) /\ DOMAIN s = 1 .. Len(s) /\ Len(s) \in Nat /\ \A i \in DOMAIN s : s[i] = latest[i][2] /\ s[i] \in Cmds
  <2>1. s \in [1 .. Len(latest) -> Cmds]
    BY <1>1
  <2> QED BY <1>1, <2>1
<1> HIDE DEF s, S
<1>4. \A i, j \in DOMAIN s : s[i] = s[j] => i = j
  <2>1. ASSUME NEW i \in DOMAIN s, NEW j \in DOMAIN s, s[i] = s[j], i < j PROVE FALSE
    <3>1. i \in DOMAIN latest /\ j \in DOMAIN latest
      BY <1>1, <1>3
    <3>2. latest[i][1] \in LastOf(n) /\ latest[j][1] \in LastOf(n) /\ n[latest[i][1]] = n[latest[j][1]] /\ latest[i][1] < latest[j][1]
      BY <1>3, <2>1, <3>1 DEF RInv, Rows
    <3>3. latest[i][1] = latest[j][1] /\ latest[j][1] \in Nat
      <4>1. LastOf(n) \in SUBSET Nat
        BY <1>1 DEF LastOf
      <4> HIDE DEF n
      <4> QED BY <1>1, <3>2, <4>1, OneLast
    <3> QED BY <3>2, <3>3
  <2>2. \A i \in DOMAIN s : i \in Nat
    BY <1>3
  <2> QED BY <2>1, <2>2
<1>5. \A c \in Cmds : \A i \in DOMAIN s : s[i] = c => Position(s, c) = i
  BY <1>4 DEF Position
<1>6. \A c \in Cmds : Position(s, c) # 0 => Position(s, c) \in DOMAIN s /\ s[Position(s, c)] = c
  BY DEF Position
<1>7. LastOf(s) = DOMAIN s
  BY <1>3, <1>4 DEF LastOf
<1> DEFINE p == PositionOf(usage')
<1>8. ASSUME NEW c \in Cmds
      PROVE  /\ usage'[c] \in Entry /\ usage'[c].position = Position(s, c) /\ usage'[c].latest = usage[c].latest
  <2>1. usage[c] \in Entry /\ usage'[c] = [usage[c] EXCEPT !.position = Position(s, c)]
    BY <1>1, <1>2
  <2>2. Position(s, c) \in Nat
    BY <1>3, <1>6
  <2> QED BY <2>1, <2>2 DEF Entry
<1>9. usage' \in [Cmds -> Entry]
  BY <1>2, <1>8
<1>10. LatestOf(usage') = LatestOf(usage) /\ \A c \in Cmds : p[c] = Position(s, c)
  BY <1>8 DEF LatestOf, PositionOf
<1> HIDE DEF p
<1>11. Slots(p, s, s)
  <2>1. \A c \in Cmds : p[c] # 0 => p[c] \in DOMAIN s /\ s[p[c]] = c
    BY <1>6, <1>10
  <2>2. \A i \in DOMAIN s : p[s[i]] = i /\ i # 0
    BY <1>3, <1>5, <1>10
  <2>3. \A c \in Cmds : p[c] # 0 <=> \E k \in LastOf(s) : s[k] = c
    BY <1>7, <2>1, <2>2
  <2>4. \A j, k \in LastOf(s) : j < k => p[s[j]] < p[s[k]]
    BY <1>7, <2>2
  <2> QED BY <2>1, <2>2, <2>3, <2>4 DEF Slots
<1>12. Bounded(s) /\ s \in Seq(Listed)
  <2>1. s \in Seq(Listed)
    BY <1>3 DEF Listed
  <2>2. \A i \in DOMAIN s : s[i] # Removed
    BY <1>3, IndexAssumption
  <2> QED BY <2>1, <2>2, LiveTwice
<1>13. TypeOK'
  BY <1>1, <1>2, <1>3, <1>9, <1>12 DEF TypeOK, Listed, S
<1>14. Rows(LatestOf(usage'), latest', Names(seen'))
  BY <1>2, <1>10 DEF RInv
<1>15. Slots(PositionOf(usage'), session', recalled') /\ Bounded(session')
  BY <1>2, <1>11, <1>12 DEF p
<1> QED BY <1>13, <1>14, <1>15 DEF RInv, Rows, Slots, Bounded, Live

\* The table of latest occurrences and the recall list stay exact.
LEMMA Recalls ==
    Spec => []RInv
<1>1. ASSUME Init PROVE RInv
  <2>1. Absent \in Entry /\ Absent.latest = 0 /\ Absent.position = 0
    BY DEF Absent, Entry, Directories, Zero, Use
  <2> DEFINE z == [c \in Cmds |-> 0]
  <2>2. LatestOf(usage) = z /\ PositionOf(usage) = z
    <3> HIDE DEF Absent
    <3> QED BY <1>1, <2>1 DEF LatestOf, PositionOf, Init
  <2>3. LastOf(<<>>) = {} /\ Names(<<>>) = <<>>
    BY DEF LastOf, Names
  <2>4. TypeOK
    BY <1>1, <2>1 DEF TypeOK, Init
  <2>5. Rows(z, <<>>, <<>>) /\ Slots(z, <<>>, <<>>)
    BY <2>3 DEF Rows, Slots
  <2>6. Bounded(<<>>)
    <3>1. <<>> \in Seq(Listed) /\ DOMAIN <<>> = {}
      OBVIOUS
    <3> QED BY <3>1, LiveTwice
  <2> HIDE DEF z
  <2> QED BY <1>1, <2>2, <2>3, <2>4, <2>5, <2>6 DEF RInv, Init
<1>2. ASSUME RInv, [Next]_vars PROVE RInv'
  <2>1. ASSUME NEW c \in Cmds, NEW d \in Dirs \cup {NoDir}, NEW t \in Times, Sync(c, d, t) PROVE RInv'
    BY <1>2, <2>1, SyncRecalls
  <2>2. ASSUME NEW c \in Cmds, NEW d \in Dirs \cup {NoDir}, NEW t \in Times, Add(c, d, t) PROVE RInv'
    BY <1>2, <2>2, AddRecalls
  <2>3. CASE Load
    BY <1>2, <2>3, LoadRecalls
  <2>4. CASE Clear
    BY <2>4, Blank DEF Clear
  <2>5. CASE UNCHANGED vars
    <3>1. usage' = usage /\ latest' = latest /\ session' = session /\ seen' = seen /\ recalled' = recalled
      BY <2>5 DEF vars
    <3>2. TypeOK'
      BY <1>2, <3>1 DEF RInv, TypeOK
    <3>3. /\ Rows(LatestOf(usage'), latest', Names(seen'))
          /\ Slots(PositionOf(usage'), session', recalled') /\ Bounded(session')
      BY <1>2, <3>1 DEF RInv
    <3> QED BY <3>2, <3>3 DEF RInv, Rows, Slots, Bounded, Live
  <2> QED BY <1>2, <2>1, <2>2, <2>3, <2>4, <2>5 DEF Next
<1> QED BY <1>1, <1>2, PTL DEF Spec

\* Prefix search and Ctrl+R walk each command once, at its last use, newest
\* last, and up-arrow recall offers each remembered command once, in the order
\* of the last recalls, through tombstones and compaction.
THEOREM RecallsExact ==
    Spec => []RecallExact
<1>1. RInv => RecallExact
  BY RecallFollows
<1> QED BY <1>1, Recalls, PTL

-----------------------------------------------------------------------------
(* What the usage records sum up.                                          *)

UsesIn(q, c, D) == {i \in DOMAIN q : q[i].cmd = c /\ q[i].dir \in D}

\* u is the number and the latest time of the occurrences I of q.
Sums(q, I, u) ==
    /\ u.count = Cardinality(I)
    /\ IF I = {} THEN u.time = 0 ELSE (\E i \in I : q[i].time = u.time) /\ \A i \in I : q[i].time <= u.time

\* Every occurrence of c without a directory follows one with a directory.
Ordinary(q, c) ==
    \A i \in DOMAIN q : q[i].cmd = c /\ q[i].dir = NoDir =>
        \E j \in 1 .. i - 1 : q[j].cmd = c /\ q[j].dir # NoDir

AnyDir == Dirs \cup {NoDir}

\* What the records r and the totals of an ordinary command stand for: a shared
\* code for all its uses, a tracked directory for those that have one, a map for
\* each directory's own.
Shape(q, c, r, total) ==
    /\ Sums(q, UsesIn(q, c, AnyDir), total)
    /\ r.kind = "none" => UsesIn(q, c, AnyDir) = {}
    /\ r.kind = "shared" => UsesIn(q, c, AnyDir) = UsesIn(q, c, {r.dir}) /\ UsesIn(q, c, AnyDir) # {}
    /\ r.kind = "tracked" =>
           /\ UsesIn(q, c, Dirs) = UsesIn(q, c, {r.dir}) /\ UsesIn(q, c, Dirs) # {}
           /\ Sums(q, UsesIn(q, c, {r.dir}), r.use)
    /\ r.kind = "many" =>
           \A d \in Dirs : IF d \in DOMAIN r.map
                           THEN UsesIn(q, c, {d}) # {} /\ Sums(q, UsesIn(q, c, {d}), r.map[d])
                           ELSE UsesIn(q, c, {d}) = {}

LEMMA OccurrenceAt ==
    ASSUME NEW q \in Seq(Occurrence), NEW i \in DOMAIN q
    PROVE  q[i].cmd \in Cmds /\ q[i].dir \in Dirs \cup {NoDir} /\ q[i].time \in Nat
<1>1. q[i] \in Occurrence
  OBVIOUS
<1>2. q[i].time \in Times
  BY <1>1 DEF Occurrence
<1> QED BY <1>1, <1>2, IndexAssumption DEF Occurrence

\* A set of occurrences sums up to one record.
LEMMA SumIsAmount ==
    ASSUME seen \in Seq(Occurrence), NEW I \in SUBSET (DOMAIN seen), NEW u \in Use, Sums(seen, I, u)
    PROVE  Amount(I) = u
<1>1. u = [count |-> u.count, time |-> u.time] /\ u.time \in Nat
  BY DEF Use
<1>2. CASE I = {}
  BY <1>1, <1>2 DEF Amount, Sums
<1>3. CASE I # {}
  <2> DEFINE T == {seen[i].time : i \in I}
  <2> DEFINE P(t) == \A i \in I : seen[i].time <= t
  <2>1. T \in SUBSET Nat
    BY OccurrenceAt
  <2>2. u.time \in T /\ P(u.time)
    BY <1>3 DEF Sums
  <2>3. \A t \in T : P(t) => t = u.time
    <3>1. ASSUME NEW t \in T, P(t) PROVE t = u.time
      <4>1. t <= u.time /\ u.time <= t /\ t \in Nat
        BY <2>1, <2>2, <3>1
      <4> QED BY <1>1, <4>1
    <3> QED BY <3>1
  <2> HIDE DEF T, P
  <2>4. (CHOOSE t \in T : P(t)) = u.time
    BY <2>2, <2>3
  <2> USE DEF T, P
  <2>5. Amount(I) = [count |-> Cardinality(I), time |-> u.time]
    BY <1>3, <2>4 DEF Amount
  <2> QED BY <1>1, <2>5 DEF Sums
<1> QED BY <1>2, <1>3

\* What an appended occurrence adds.
LEMMA UsesAppend ==
    ASSUME NEW q \in Seq(Occurrence), NEW e \in Occurrence, NEW c, NEW D
    PROVE  /\ UsesIn(Append(q, e), c, D) = UsesIn(q, c, D) \cup (IF e.cmd = c /\ e.dir \in D THEN {Len(q) + 1} ELSE {})
           /\ UsesIn(q, c, D) \in SUBSET (1 .. Len(q))
<1> DEFINE a == Append(q, e)
<1>1. /\ Len(q) \in Nat /\ DOMAIN q = 1 .. Len(q) /\ DOMAIN a = 1 .. Len(q) + 1
      /\ a[Len(q) + 1] = e /\ \A i \in 1 .. Len(q) : a[i] = q[i]
  BY AppendIs
<1> HIDE DEF a
<1>2. \A i : i \in 1 .. Len(q) + 1 <=> i \in 1 .. Len(q) \/ i = Len(q) + 1
  BY <1>1
<1>3. UsesIn(a, c, D) = UsesIn(q, c, D) \cup (IF e.cmd = c /\ e.dir \in D THEN {Len(q) + 1} ELSE {})
  BY <1>1, <1>2 DEF UsesIn
<1> QED BY <1>1, <1>3 DEF a, UsesIn

LEMMA SumsAppend ==
    ASSUME NEW q \in Seq(Occurrence), NEW e \in Occurrence, NEW I \in SUBSET (1 .. Len(q)), NEW u \in Use, Sums(q, I, u)
    PROVE  /\ Sums(Append(q, e), I, u)
           /\ Sums(Append(q, e), I \cup {Len(q) + 1}, Record(u, e.time))
<1> DEFINE a == Append(q, e)
<1> DEFINE n == Len(q)
<1> DEFINE w == Record(u, e.time)
<1>1. n \in Nat /\ DOMAIN q = 1 .. n /\ a[n + 1] = e /\ \A i \in 1 .. n : a[i] = q[i]
  BY AppendIs
<1>2. \A i \in I : a[i] = q[i] /\ q[i].time \in Nat
  <2>1. \A i \in 1 .. n : q[i].time \in Nat
    BY <1>1, OccurrenceAt
  <2> QED BY <1>1, <2>1
<1> HIDE DEF a
<1>3. e.time \in Nat /\ u.time \in Nat /\ w.count = u.count + 1 /\ w.time = IF u.time < e.time THEN e.time ELSE u.time
  BY RecordType DEF Use, Occurrence
<1> HIDE DEF w
<1>4. Sums(a, I, u)
  BY <1>2 DEF Sums
<1>5. Cardinality(I \cup {n + 1}) = Cardinality(I) + 1
  <2>1. IsFiniteSet(I)
    BY <1>1, SomePositions DEF Positions
  <2>2. n + 1 \notin I
    BY <1>1
  <2> QED BY <2>1, <2>2, FS_AddElement
<1> DEFINE J == I \cup {n + 1}
<1>6. \A i \in J : a[i].time <= w.time
  <2>1. ASSUME NEW i \in I PROVE a[i].time <= w.time
    <3>1. q[i].time <= u.time /\ q[i].time \in Nat /\ a[i] = q[i]
      BY <1>2 DEF Sums
    <3> QED BY <1>3, <3>1
  <2>2. a[n + 1].time <= w.time
    BY <1>1, <1>3
  <2> QED BY <2>1, <2>2
<1>7. \E i \in J : a[i].time = w.time
  <2>1. CASE w.time = e.time
    BY <1>1, <2>1
  <2>2. CASE w.time # e.time
    <3>1. w.time = u.time /\ u.time # 0
      BY <1>3, <2>2
    <3>2. \E i \in I : q[i].time = u.time
      BY <3>1 DEF Sums
    <3> QED BY <1>2, <3>1, <3>2
  <2> QED BY <2>1, <2>2
<1>8. Sums(a, J, w)
  <2>1. J # {} /\ w.count = Cardinality(J)
    BY <1>3, <1>5 DEF Sums
  <2> HIDE DEF J
  <2> QED BY <1>6, <1>7, <2>1 DEF Sums
<1> QED BY <1>4, <1>8 DEF a, w

\* An ordinary command was ordinary before, and runs without a directory only
\* after it ran in one.
LEMMA OrdinaryBefore ==
    ASSUME NEW q \in Seq(Occurrence), NEW e \in Occurrence, NEW c, Ordinary(Append(q, e), c)
    PROVE  Ordinary(q, c) /\ (e.cmd = c /\ e.dir = NoDir => UsesIn(q, c, Dirs) # {})
<1> DEFINE a == Append(q, e)
<1>1. /\ Len(q) \in Nat /\ DOMAIN q = 1 .. Len(q) /\ DOMAIN a = 1 .. Len(q) + 1
      /\ a[Len(q) + 1] = e /\ \A i \in 1 .. Len(q) : a[i] = q[i]
  BY AppendIs
<1>2. \A i \in DOMAIN q : q[i].dir \in Dirs \cup {NoDir}
  BY OccurrenceAt
<1>3. Ordinary(a, c)
  OBVIOUS
<1> HIDE DEF a
<1>4. Ordinary(q, c)
  <2>1. ASSUME NEW i \in DOMAIN q, q[i].cmd = c, q[i].dir = NoDir
        PROVE  \E j \in 1 .. i - 1 : q[j].cmd = c /\ q[j].dir # NoDir
    <3>1. i \in DOMAIN a /\ a[i] = q[i] /\ i \in Nat
      BY <1>1
    <3>2. PICK j \in 1 .. i - 1 : a[j].cmd = c /\ a[j].dir # NoDir
      BY <1>3, <2>1, <3>1 DEF Ordinary
    <3>3. j \in 1 .. Len(q)
      BY <1>1, <3>1
    <3> QED BY <1>1, <3>2, <3>3
  <2> QED BY <2>1 DEF Ordinary
<1>5. ASSUME e.cmd = c, e.dir = NoDir PROVE UsesIn(q, c, Dirs) # {}
  <2>1. Len(q) + 1 \in DOMAIN a
    BY <1>1
  <2>2. PICK j \in 1 .. Len(q) + 1 - 1 : a[j].cmd = c /\ a[j].dir # NoDir
    BY <1>1, <1>3, <1>5, <2>1 DEF Ordinary
  <2>3. j \in DOMAIN q /\ a[j] = q[j]
    BY <1>1
  <2> QED BY <1>2, <2>2, <2>3 DEF UsesIn
<1> QED BY <1>4, <1>5

-----------------------------------------------------------------------------
(* Each occurrence keeps the records.                                      *)

\* The shape of each form of the records.
Split(q, c, f) ==
    \A d \in Dirs : IF d \in DOMAIN f THEN UsesIn(q, c, {d}) # {} /\ Sums(q, UsesIn(q, c, {d}), f[d])
                    ELSE UsesIn(q, c, {d}) = {}

LEMMA ShapeTotal ==
    ASSUME NEW q, NEW c, NEW r, NEW total, Shape(q, c, r, total)
    PROVE  Sums(q, UsesIn(q, c, AnyDir), total)
  BY DEF Shape

LEMMA ShapeNone ==
    ASSUME NEW q, NEW c, NEW r, NEW total, r.kind = "none"
    PROVE  Shape(q, c, r, total) <=> Sums(q, UsesIn(q, c, AnyDir), total) /\ UsesIn(q, c, AnyDir) = {}
  BY DEF Shape

LEMMA ShapeShared ==
    ASSUME NEW q, NEW c, NEW r, NEW total, r.kind = "shared"
    PROVE  Shape(q, c, r, total) <=>
               Sums(q, UsesIn(q, c, AnyDir), total) /\ UsesIn(q, c, AnyDir) = UsesIn(q, c, {r.dir}) /\ UsesIn(q, c, AnyDir) # {}
  BY DEF Shape

LEMMA ShapeTracked ==
    ASSUME NEW q, NEW c, NEW r, NEW total, r.kind = "tracked"
    PROVE  Shape(q, c, r, total) <=>
               /\ Sums(q, UsesIn(q, c, AnyDir), total)
               /\ UsesIn(q, c, Dirs) = UsesIn(q, c, {r.dir}) /\ UsesIn(q, c, Dirs) # {}
               /\ Sums(q, UsesIn(q, c, {r.dir}), r.use)
  BY DEF Shape

LEMMA ShapeMany ==
    ASSUME NEW q, NEW c, NEW r, NEW total, r.kind = "many"
    PROVE  Shape(q, c, r, total) <=> Sums(q, UsesIn(q, c, AnyDir), total) /\ Split(q, c, r.map)
  BY DEF Shape, Split

\* An occurrence of another command leaves them as they are.
LEMMA ShapeOther ==
    ASSUME NEW q \in Seq(Occurrence), NEW e \in Occurrence, NEW c, e.cmd # c,
           NEW r \in Directories, NEW total \in Use, Shape(q, c, r, total)
    PROVE  Shape(Append(q, e), c, r, total)
<1> DEFINE a == Append(q, e)
<1>0. SUFFICES Shape(a, c, r, total)
  OBVIOUS
<1>1. \A D : UsesIn(a, c, D) = UsesIn(q, c, D) /\ UsesIn(q, c, D) \in SUBSET (1 .. Len(q))
  <2>1. ASSUME NEW D PROVE UsesIn(a, c, D) = UsesIn(q, c, D) /\ UsesIn(q, c, D) \in SUBSET (1 .. Len(q))
    <3>1. /\ UsesIn(a, c, D) = UsesIn(q, c, D) \cup (IF e.cmd = c /\ e.dir \in D THEN {Len(q) + 1} ELSE {})
          /\ UsesIn(q, c, D) \in SUBSET (1 .. Len(q))
      BY UsesAppend
    <3> HIDE DEF a
    <3> QED BY <3>1
  <2> QED BY <2>1
<1>2. \A D : \A u \in Use : Sums(q, UsesIn(q, c, D), u) => Sums(a, UsesIn(a, c, D), u)
  <2>1. ASSUME NEW D, NEW u \in Use, Sums(q, UsesIn(q, c, D), u) PROVE Sums(a, UsesIn(a, c, D), u)
    <3>1. UsesIn(a, c, D) = UsesIn(q, c, D) /\ UsesIn(q, c, D) \in SUBSET (1 .. Len(q))
      BY <1>1
    <3>2. Sums(a, UsesIn(q, c, D), u)
      BY <2>1, <3>1, SumsAppend
    <3> QED BY <3>1, <3>2
  <2> QED BY <2>1
<1> HIDE DEF a
<1>3. Sums(a, UsesIn(a, c, AnyDir), total)
  BY <1>2, ShapeTotal
<1>4. CASE r.kind = "none"
  <2>1. UsesIn(a, c, AnyDir) = {}
    BY <1>1, <1>4, ShapeNone
  <2> QED BY <1>3, <1>4, <2>1, ShapeNone
<1>5. CASE r.kind = "shared"
  <2>1. UsesIn(q, c, AnyDir) = UsesIn(q, c, {r.dir}) /\ UsesIn(q, c, AnyDir) # {}
    BY <1>5, ShapeShared
  <2>2. UsesIn(a, c, AnyDir) = UsesIn(a, c, {r.dir}) /\ UsesIn(a, c, AnyDir) # {}
    BY <1>1, <2>1
  <2> QED BY <1>3, <1>5, <2>2, ShapeShared
<1>6. CASE r.kind = "tracked" /\ r.use \in Use
  <2>1. UsesIn(q, c, Dirs) = UsesIn(q, c, {r.dir}) /\ UsesIn(q, c, Dirs) # {} /\ Sums(q, UsesIn(q, c, {r.dir}), r.use)
    BY <1>6, ShapeTracked
  <2>2. UsesIn(a, c, Dirs) = UsesIn(a, c, {r.dir}) /\ UsesIn(a, c, Dirs) # {}
    BY <1>1, <2>1
  <2>3. Sums(a, UsesIn(a, c, {r.dir}), r.use)
    BY <1>2, <1>6, <2>1
  <2> QED BY <1>3, <1>6, <2>2, <2>3, ShapeTracked
<1>7. CASE r.kind = "many" /\ DOMAIN r.map \in SUBSET Dirs /\ r.map \in [DOMAIN r.map -> Use]
  <2>1. Split(q, c, r.map)
    BY <1>7, ShapeMany
  <2>2. ASSUME NEW d \in Dirs
        PROVE  IF d \in DOMAIN r.map THEN UsesIn(a, c, {d}) # {} /\ Sums(a, UsesIn(a, c, {d}), r.map[d])
               ELSE UsesIn(a, c, {d}) = {}
    <3>1. UsesIn(a, c, {d}) = UsesIn(q, c, {d})
      BY <1>1
    <3> QED BY <1>2, <1>7, <2>1, <3>1 DEF Split
  <2>3. Split(a, c, r.map)
    BY <2>2 DEF Split
  <2> QED BY <1>3, <1>7, <2>3, ShapeMany
<1> QED BY <1>4, <1>5, <1>6, <1>7, Forms

\* The occurrences of a command, directory by directory.
LEMMA UsesParts ==
    ASSUME NEW q \in Seq(Occurrence), NEW c
    PROVE  /\ UsesIn(q, c, Dirs) \in SUBSET UsesIn(q, c, AnyDir)
           /\ \A d \in Dirs : UsesIn(q, c, {d}) \in SUBSET UsesIn(q, c, Dirs)
           /\ \A d, x \in Dirs : d # x => UsesIn(q, c, {d}) \cap UsesIn(q, c, {x}) = {}
  BY DEF UsesIn, AnyDir

\* Recording in a map.
LEMMA SplitPut ==
    ASSUME NEW q \in Seq(Occurrence), NEW e \in Occurrence, e.dir \in Dirs,
           NEW f, DOMAIN f \in SUBSET Dirs, f \in [DOMAIN f -> Use], Split(q, e.cmd, f)
    PROVE  Split(Append(q, e), e.cmd, Put(f, e.dir, e.time))
<1> DEFINE a == Append(q, e)
<1> DEFINE c == e.cmd
<1> DEFINE d == e.dir
<1> DEFINE t == e.time
<1> DEFINE g == Put(f, d, t)
<1>0. e.time \in Times
  BY DEF Occurrence
<1>1. /\ DOMAIN g = DOMAIN f \cup {d}
      /\ g[d] = Record(IF d \in DOMAIN f THEN f[d] ELSE Zero, t)
      /\ \A x \in DOMAIN f : x # d => g[x] = f[x]
  BY DEF Put
<1>2. \A x \in Dirs : /\ UsesIn(a, c, {x}) = UsesIn(q, c, {x}) \cup (IF x = d THEN {Len(q) + 1} ELSE {})
                      /\ UsesIn(q, c, {x}) \in SUBSET (1 .. Len(q))
  BY UsesAppend
<1> HIDE DEF g
<1>3. Zero \in Use /\ Sums(q, {}, Zero)
  BY FS_EmptySet DEF Zero, Use, Sums
<1>4. ASSUME NEW x \in Dirs
      PROVE  IF x \in DOMAIN g THEN UsesIn(a, c, {x}) # {} /\ Sums(a, UsesIn(a, c, {x}), g[x])
             ELSE UsesIn(a, c, {x}) = {}
  <2> HIDE DEF Zero
  <2>1. IF x \in DOMAIN f THEN f[x] \in Use /\ UsesIn(q, c, {x}) # {} /\ Sums(q, UsesIn(q, c, {x}), f[x])
        ELSE UsesIn(q, c, {x}) = {}
    BY DEF Split
  <2>2. CASE x = d
    <3> DEFINE u == IF d \in DOMAIN f THEN f[d] ELSE Zero
    <3>1. u \in Use /\ Sums(q, UsesIn(q, c, {d}), u)
      BY <1>3, <2>1, <2>2
    <3> HIDE DEF u
    <3>2. Sums(a, UsesIn(q, c, {d}) \cup {Len(q) + 1}, Record(u, e.time))
      BY <1>2, <3>1, SumsAppend
    <3>3. g[d] = Record(u, e.time) /\ d \in DOMAIN g
      BY <1>1 DEF u
    <3> HIDE DEF a
    <3> QED BY <1>2, <2>2, <3>2, <3>3
  <2>3. CASE x # d
    <3>1. UsesIn(a, c, {x}) = UsesIn(q, c, {x}) /\ UsesIn(q, c, {x}) \in SUBSET (1 .. Len(q))
      BY <1>2, <2>3
    <3>2. x \in DOMAIN f => Sums(a, UsesIn(q, c, {x}), f[x])
      BY <2>1, <3>1, SumsAppend
    <3> HIDE DEF a
    <3> QED BY <1>1, <2>1, <2>3, <3>1, <3>2
  <2> QED BY <2>2, <2>3
<1> QED BY <1>4 DEF Split, g

\* An occurrence of the command itself.
LEMMA ShapeRecorded ==
    ASSUME NEW q \in Seq(Occurrence), NEW e \in Occurrence, NEW u \in Entry, Ordinary(Append(q, e), e.cmd),
           Shape(q, e.cmd, u.dirs, u.total)
    PROVE  Shape(Append(q, e), e.cmd,
                 IF e.dir = NoDir THEN DetachSharedDirectory(u) ELSE RecordDirectory(u, e.dir, e.time),
                 Record(u.total, e.time))
<1> DEFINE a == Append(q, e)
<1> DEFINE c == e.cmd
<1> DEFINE d == e.dir
<1> DEFINE n == Len(q) + 1
<1> DEFINE w == Record(u.total, e.time)
<1> DEFINE r == u.dirs
<1>0. SUFFICES Shape(a, c, IF d = NoDir THEN DetachSharedDirectory(u) ELSE RecordDirectory(u, d, e.time), w)
  OBVIOUS
<1>1. u.total \in Use /\ r \in Directories /\ d \in AnyDir /\ e.time \in Times
  BY DEF Entry, Occurrence, AnyDir
<1>2. /\ \A D : UsesIn(a, c, D) = UsesIn(q, c, D) \cup (IF d \in D THEN {n} ELSE {}) /\ UsesIn(q, c, D) \in SUBSET (1 .. Len(q))
  BY UsesAppend
<1>3. \A D, v : v \in Use /\ Sums(q, UsesIn(q, c, D), v) =>
          Sums(a, UsesIn(a, c, D), IF d \in D THEN Record(v, e.time) ELSE v)
  <2>1. ASSUME NEW D, NEW v \in Use, Sums(q, UsesIn(q, c, D), v)
        PROVE  Sums(a, UsesIn(a, c, D), IF d \in D THEN Record(v, e.time) ELSE v)
    <3>1. Sums(a, UsesIn(q, c, D), v) /\ Sums(a, UsesIn(q, c, D) \cup {n}, Record(v, e.time))
      BY <1>2, <2>1, SumsAppend
    <3> HIDE DEF a, n
    <3> QED BY <1>2, <3>1
  <2> QED BY <2>1
<1>4. d = NoDir => UsesIn(q, c, Dirs) # {}
  BY OrdinaryBefore
<1>5. /\ UsesIn(q, c, Dirs) \in SUBSET UsesIn(q, c, AnyDir)
      /\ \A x \in Dirs : UsesIn(q, c, {x}) \in SUBSET UsesIn(q, c, Dirs)
      /\ \A x, y \in Dirs : x # y => UsesIn(q, c, {x}) \cap UsesIn(q, c, {y}) = {}
  BY UsesParts
<1>6. NoDir \notin Dirs
  BY IndexAssumption
<1> HIDE DEF a, n
<1>7. Sums(a, UsesIn(a, c, AnyDir), w)
  BY <1>1, <1>3, ShapeTotal
<1> HIDE DEF w
<1>8. CASE d = NoDir
  <2> DEFINE s == DetachSharedDirectory(u)
  <2>1. \A x \in Dirs : UsesIn(a, c, {x}) = UsesIn(q, c, {x})
    BY <1>2, <1>6, <1>8
  <2>2. UsesIn(a, c, Dirs) = UsesIn(q, c, Dirs) /\ UsesIn(q, c, Dirs) # {}
    BY <1>2, <1>4, <1>6, <1>8
  <2>3. \A x \in Dirs, v \in Use : Sums(q, UsesIn(q, c, {x}), v) => Sums(a, UsesIn(a, c, {x}), v)
    BY <1>3, <1>6, <1>8
  <2>4. CASE r.kind = "none"
    BY <1>5, <2>2, <2>4, ShapeNone
  <2>5. CASE r.kind = "shared" /\ r.dir \in Dirs
    <3>1. s = Tracked(r.dir, u.total)
      BY <2>5 DEF DetachSharedDirectory
    <3>2. s.kind = "tracked" /\ s.dir = r.dir /\ s.use = u.total
      BY <3>1 DEF Tracked
    <3>3. UsesIn(q, c, AnyDir) = UsesIn(q, c, {r.dir}) /\ Sums(q, UsesIn(q, c, AnyDir), u.total)
      BY <2>5, ShapeShared
    <3>4. UsesIn(q, c, Dirs) = UsesIn(q, c, {r.dir})
      BY <1>5, <2>5, <3>3
    <3>5. Sums(a, UsesIn(a, c, {r.dir}), u.total)
      BY <1>1, <2>3, <2>5, <3>3
    <3> HIDE DEF s
    <3>6. Shape(a, c, s, w)
      BY <1>7, <2>1, <2>2, <2>5, <3>2, <3>4, <3>5, ShapeTracked
    <3> QED BY <1>8, <3>6 DEF s
  <2>6. CASE r.kind = "tracked" /\ r.dir \in Dirs /\ r.use \in Use
    <3>1. s = r
      BY <2>6 DEF DetachSharedDirectory
    <3>2. Sums(a, UsesIn(a, c, {r.dir}), r.use)
      BY <2>3, <2>6, ShapeTracked
    <3>3. Shape(a, c, r, w)
      BY <1>7, <2>1, <2>2, <2>6, <3>2, ShapeTracked
    <3> QED BY <1>8, <3>1, <3>3
  <2>7. CASE r.kind = "many" /\ DOMAIN r.map \in SUBSET Dirs /\ r.map \in [DOMAIN r.map -> Use]
    <3>1. s = r
      BY <2>7 DEF DetachSharedDirectory
    <3>2. ASSUME NEW x \in Dirs
          PROVE  IF x \in DOMAIN r.map THEN UsesIn(a, c, {x}) # {} /\ Sums(a, UsesIn(a, c, {x}), r.map[x])
                 ELSE UsesIn(a, c, {x}) = {}
      BY <2>1, <2>3, <2>7, ShapeMany DEF Split
    <3>3. Shape(a, c, r, w)
      BY <1>7, <2>7, <3>2, ShapeMany DEF Split
    <3> QED BY <1>8, <3>1, <3>3
  <2> QED BY <1>1, <2>4, <2>5, <2>6, <2>7, Forms
<1>9. CASE d \in Dirs
  <2> DEFINE s == RecordDirectory(u, d, e.time)
  <2>1. \A x \in Dirs : UsesIn(a, c, {x}) = UsesIn(q, c, {x}) \cup (IF x = d THEN {n} ELSE {})
    BY <1>2
  <2>2. UsesIn(a, c, Dirs) = UsesIn(q, c, Dirs) \cup {n} /\ UsesIn(a, c, AnyDir) = UsesIn(q, c, AnyDir) \cup {n}
    BY <1>1, <1>2, <1>9
  <2>3. \A v \in Use : Sums(q, UsesIn(q, c, {d}), v) => Sums(a, UsesIn(a, c, {d}), Record(v, e.time))
    BY <1>3
  <2>4. ASSUME NEW f, DOMAIN f \in SUBSET Dirs, f \in [DOMAIN f -> Use], Split(q, c, f), s = Many(Put(f, d, e.time))
        PROVE  Shape(a, c, s, w)
    <3>1. Split(a, c, Put(f, d, e.time))
      BY <1>9, <2>4, SplitPut DEF a
    <3>2. s.kind = "many" /\ s.map = Put(f, d, e.time)
      BY <2>4 DEF Many
    <3> HIDE DEF s
    <3>3. Split(a, c, s.map)
      BY <3>1, <3>2
    <3> QED BY <1>7, <3>2, <3>3, ShapeMany
  <2>5. CASE r.kind = "none"
    <3>1. s = Shared(d) /\ s.kind = "shared" /\ s.dir = d
      BY <2>5 DEF RecordDirectory, Shared
    <3>2. UsesIn(q, c, AnyDir) = {} /\ UsesIn(q, c, {d}) = {}
      BY <1>5, <1>9, <2>5, ShapeNone
    <3>3. UsesIn(a, c, AnyDir) = {n} /\ UsesIn(a, c, {d}) = {n}
      BY <1>9, <2>1, <2>2, <3>2
    <3>4. Shape(a, c, s, w)
      <4> HIDE DEF s
      <4> QED BY <1>7, <3>1, <3>3, ShapeShared
    <3> QED BY <1>6, <1>9, <3>4
  <2>6. CASE r.kind = "shared" /\ r.dir \in Dirs
    <3>1. UsesIn(q, c, AnyDir) = UsesIn(q, c, {r.dir}) /\ UsesIn(q, c, AnyDir) # {} /\ Sums(q, UsesIn(q, c, AnyDir), u.total)
      BY <2>6, ShapeShared
    <3>2. ASSUME r.dir = d PROVE Shape(a, c, s, w)
      <4>1. s = r
        BY <2>6, <3>2 DEF RecordDirectory
      <4>2. UsesIn(a, c, AnyDir) = UsesIn(a, c, {r.dir}) /\ UsesIn(a, c, AnyDir) # {}
        BY <1>9, <2>1, <2>2, <3>1, <3>2
      <4> HIDE DEF s
      <4> QED BY <1>7, <2>6, <4>1, <4>2, ShapeShared
    <3>3. ASSUME r.dir # d PROVE Shape(a, c, s, w)
      <4> DEFINE f == Only(r.dir, u.total)
      <4>1. s = Many(Put(f, d, e.time))
        BY <2>6, <3>3 DEF RecordDirectory
      <4>2. DOMAIN f = {r.dir} /\ f[r.dir] = u.total /\ DOMAIN f \in SUBSET Dirs /\ f \in [DOMAIN f -> Use]
        BY <1>1, <2>6, OnlyIs
      <4> HIDE DEF f, s
      <4>3. Split(q, c, f)
        <5>1. ASSUME NEW x \in Dirs, x # r.dir PROVE UsesIn(q, c, {x}) = {}
          BY <1>5, <2>6, <3>1, <5>1
        <5>2. UsesIn(q, c, {r.dir}) # {} /\ Sums(q, UsesIn(q, c, {r.dir}), f[r.dir])
          BY <3>1, <4>2
        <5> QED BY <4>2, <5>1, <5>2 DEF Split
      <4> USE DEF s
      <4> QED BY <2>4, <4>1, <4>2, <4>3
    <3>4. Shape(a, c, s, w)
      BY <3>2, <3>3
    <3> QED BY <1>9, <1>6, <3>4
  <2>7. CASE r.kind = "tracked" /\ r.dir \in Dirs /\ r.use \in Use
    <3>1. UsesIn(q, c, Dirs) = UsesIn(q, c, {r.dir}) /\ UsesIn(q, c, Dirs) # {} /\ Sums(q, UsesIn(q, c, {r.dir}), r.use)
      BY <2>7, ShapeTracked
    <3>2. ASSUME r.dir = d PROVE Shape(a, c, s, w)
      <4>1. s = Tracked(d, Record(r.use, e.time))
        BY <2>7, <3>2 DEF RecordDirectory
      <4>2. s.kind = "tracked" /\ s.dir = d /\ s.use = Record(r.use, e.time)
        BY <4>1 DEF Tracked
      <4>3. UsesIn(a, c, Dirs) = UsesIn(a, c, {d}) /\ UsesIn(a, c, Dirs) # {}
        BY <1>9, <2>1, <2>2, <3>1, <3>2
      <4>4. Sums(a, UsesIn(a, c, {d}), Record(r.use, e.time))
        BY <2>3, <2>7, <3>1, <3>2
      <4> HIDE DEF s
      <4> QED BY <1>7, <4>2, <4>3, <4>4, ShapeTracked
    <3>3. ASSUME r.dir # d PROVE Shape(a, c, s, w)
      <4> DEFINE f == Only(r.dir, r.use)
      <4>1. s = Many(Put(f, d, e.time))
        BY <2>7, <3>3 DEF RecordDirectory
      <4>2. DOMAIN f = {r.dir} /\ f[r.dir] = r.use /\ DOMAIN f \in SUBSET Dirs /\ f \in [DOMAIN f -> Use]
        BY <2>7, OnlyIs
      <4> HIDE DEF f, s
      <4>3. Split(q, c, f)
        <5>1. ASSUME NEW x \in Dirs, x # r.dir PROVE UsesIn(q, c, {x}) = {}
          BY <1>5, <2>7, <3>1, <5>1
        <5>2. UsesIn(q, c, {r.dir}) # {} /\ Sums(q, UsesIn(q, c, {r.dir}), f[r.dir])
          BY <3>1, <4>2
        <5> QED BY <4>2, <5>1, <5>2 DEF Split
      <4> USE DEF s
      <4> QED BY <2>4, <4>1, <4>2, <4>3
    <3>4. Shape(a, c, s, w)
      BY <3>2, <3>3
    <3> QED BY <1>9, <1>6, <3>4
  <2>8. CASE r.kind = "many" /\ DOMAIN r.map \in SUBSET Dirs /\ r.map \in [DOMAIN r.map -> Use]
    <3>1. s = Many(Put(r.map, d, e.time))
      BY <2>8 DEF RecordDirectory
    <3>2. Split(q, c, r.map)
      BY <2>8, ShapeMany
    <3>3. Shape(a, c, s, w)
      BY <2>4, <2>8, <3>1, <3>2
    <3> QED BY <1>9, <1>6, <3>3
  <2> QED BY <1>1, <2>5, <2>6, <2>7, <2>8, Forms
<1> QED BY <1>1, <1>8, <1>9 DEF AnyDir

-----------------------------------------------------------------------------
(* The records of every ordinary command stay in shape.                    *)

Contexts == \A c \in Cmds : Ordinary(seen, c) => Shape(seen, c, usage[c].dirs, usage[c].total)
IInv == RInv /\ Contexts

LEMMA ContextsAppended ==
    ASSUME TypeOK, Contexts, NEW c \in Cmds, NEW d \in Dirs \cup {NoDir}, NEW t \in Times, NEW e, e = [cmd |-> c, dir |-> d, time |-> t],
           NEW v, \A x \in Cmds : x # c => v[x].dirs = usage[x].dirs /\ v[x].total = usage[x].total,
           v[c].total = Record(usage[c].total, t),
           v[c].dirs = IF d = NoDir THEN DetachSharedDirectory(usage[c]) ELSE RecordDirectory(usage[c], d, t)
    PROVE  \A x \in Cmds : Ordinary(Append(seen, e), x) => Shape(Append(seen, e), x, v[x].dirs, v[x].total)
<1>1. e \in Occurrence /\ e.cmd = c /\ e.dir = d /\ e.time = t /\ seen \in Seq(Occurrence)
  BY DEF Occurrence, TypeOK
<1>2. ASSUME NEW x \in Cmds, Ordinary(Append(seen, e), x) PROVE Shape(Append(seen, e), x, v[x].dirs, v[x].total)
  <2>1. Ordinary(seen, x)
    BY <1>1, <1>2, OrdinaryBefore
  <2>2. Shape(seen, x, usage[x].dirs, usage[x].total) /\ usage[x] \in Entry
    BY <2>1 DEF Contexts, TypeOK
  <2>3. CASE x = c
    <3> DEFINE u == usage[c]
    <3>1. u \in Entry /\ Shape(seen, e.cmd, u.dirs, u.total) /\ Ordinary(Append(seen, e), e.cmd)
      BY <1>1, <1>2, <2>2, <2>3
    <3> HIDE DEF u
    <3>2. Shape(Append(seen, e), e.cmd,
                IF e.dir = NoDir THEN DetachSharedDirectory(u) ELSE RecordDirectory(u, e.dir, e.time),
                Record(u.total, e.time))
      BY <1>1, <3>1, ShapeRecorded
    <3> QED BY <1>1, <2>3, <3>2 DEF u
  <2>4. CASE x # c
    <3>1. usage[x].dirs \in Directories /\ usage[x].total \in Use
      BY <2>2 DEF Entry
    <3> QED BY <1>1, <2>2, <2>4, <3>1, ShapeOther
  <2> QED BY <2>3, <2>4
<1> QED BY <1>2

LEMMA EmptyContexts ==
    ASSUME NEW v, \A x \in Cmds : v[x] = Absent
    PROVE  \A x \in Cmds : Ordinary(<<>>, x) => Shape(<<>>, x, v[x].dirs, v[x].total)
<1>1. Absent.dirs.kind = "none" /\ Absent.total = Zero
  BY DEF Absent, None
<1>2. \A x : UsesIn(<<>>, x, AnyDir) = {}
  BY DEF UsesIn
<1>3. Sums(<<>>, {}, Zero)
  BY FS_EmptySet DEF Sums, Zero
<1>4. ASSUME NEW x \in Cmds PROVE Shape(<<>>, x, v[x].dirs, v[x].total)
  <2>1. v[x].dirs.kind = "none" /\ v[x].total = Zero
    BY <1>1
  <2> QED BY <1>2, <1>3, <2>1, ShapeNone
<1> QED BY <1>4

LEMMA SyncContexts ==
    ASSUME IInv, NEW c \in Cmds, NEW d \in Dirs \cup {NoDir}, NEW t \in Times, Sync(c, d, t)
    PROVE  Contexts'
<1> DEFINE e == [cmd |-> c, dir |-> d, time |-> t]
<1>1. TypeOK /\ Contexts /\ usage \in [Cmds -> Entry] /\ NextId \in Nat
  <2>1. TypeOK
    BY DEF IInv, RInv
  <2> QED BY <2>1 DEF IInv, TypeOK, NextId
<1>2. usage' = [usage EXCEPT ![c] = Applied(c, d, t, NextId)] /\ seen' = Append(seen, e)
  BY DEF Sync
<1>3. /\ Applied(c, d, t, NextId).total = Record(usage[c].total, t)
      /\ Applied(c, d, t, NextId).dirs = IF d = NoDir THEN DetachSharedDirectory(usage[c]) ELSE RecordDirectory(usage[c], d, t)
  BY <1>1, AppliedIs
<1>4. usage'[c] = Applied(c, d, t, NextId) /\ \A x \in Cmds : x # c => usage'[x] = usage[x]
  BY <1>1, <1>2
<1>5. e = [cmd |-> c, dir |-> d, time |-> t]
  OBVIOUS
<1> HIDE DEF e
<1>6. \A x \in Cmds : Ordinary(Append(seen, e), x) => Shape(Append(seen, e), x, usage'[x].dirs, usage'[x].total)
  BY <1>1, <1>3, <1>4, <1>5, ContextsAppended
<1> QED BY <1>2, <1>6 DEF Contexts

LEMMA AddContexts ==
    ASSUME IInv, NEW c \in Cmds, NEW d \in Dirs \cup {NoDir}, NEW t \in Times, Add(c, d, t)
    PROVE  Contexts'
<1> DEFINE e == [cmd |-> c, dir |-> d, time |-> t]
<1> DEFINE a == Applied(c, d, t, NextId)
<1> DEFINE w == [usage EXCEPT ![c] = a]
<1>1. TypeOK /\ Contexts /\ usage \in [Cmds -> Entry] /\ NextId \in Nat
  <2>1. TypeOK
    BY DEF IInv, RInv
  <2> QED BY <2>1 DEF IInv, TypeOK, NextId
<1>2. usage' = Remembered(w, c).usage /\ seen' = Append(seen, e)
  BY DEF Add
<1>3. /\ a \in Entry /\ a.position = usage[c].position
      /\ a.total = Record(usage[c].total, t)
      /\ a.dirs = IF d = NoDir THEN DetachSharedDirectory(usage[c]) ELSE RecordDirectory(usage[c], d, t)
  <2>1. a \in Entry /\ a.position = usage[c].position
    BY <1>1, AppliedIs
  <2>2. a.total = Record(usage[c].total, t)
    BY <1>1, AppliedIs
  <2>3. a.dirs = IF d = NoDir THEN DetachSharedDirectory(usage[c]) ELSE RecordDirectory(usage[c], d, t)
    BY <1>1, AppliedIs
  <2> QED BY <2>1, <2>2, <2>3
<1>4. e = [cmd |-> c, dir |-> d, time |-> t]
  OBVIOUS
<1> HIDE DEF e, a
<1>5. w \in [Cmds -> Entry] /\ \A x \in Cmds : w[x] = IF x = c THEN a ELSE usage[x]
  BY <1>1, <1>3
<1> HIDE DEF w
<1>6. PositionOf(w) = PositionOf(usage)
  BY <1>1, <1>3, <1>5, Replaced
<1>7. session \in Seq(Listed) /\ recalled \in Seq(Cmds) /\ Slots(PositionOf(w), session, recalled)
  BY <1>6 DEF IInv, RInv, TypeOK, Listed
<1>8. \A x \in Cmds : usage'[x].total = w[x].total /\ usage'[x].dirs = w[x].dirs
  BY <1>2, <1>5, <1>7, RememberedIs
<1>9. /\ \A x \in Cmds : x # c => usage'[x].dirs = usage[x].dirs /\ usage'[x].total = usage[x].total
      /\ usage'[c].total = Record(usage[c].total, t)
      /\ usage'[c].dirs = IF d = NoDir THEN DetachSharedDirectory(usage[c]) ELSE RecordDirectory(usage[c], d, t)
  BY <1>3, <1>5, <1>8
<1>10. \A x \in Cmds : Ordinary(Append(seen, e), x) => Shape(Append(seen, e), x, usage'[x].dirs, usage'[x].total)
  BY <1>1, <1>4, <1>9, ContextsAppended
<1> QED BY <1>2, <1>10 DEF Contexts

LEMMA LoadContexts ==
    ASSUME IInv, Load
    PROVE  Contexts'
<1>1. usage \in [Cmds -> Entry]
  BY DEF IInv, RInv, TypeOK
<1>2. seen' = seen /\ usage' = [c \in Cmds |-> [usage[c] EXCEPT !.position = Position(session', c)]]
  BY DEF Load
<1>3. ASSUME NEW x \in Cmds PROVE usage'[x].dirs = usage[x].dirs /\ usage'[x].total = usage[x].total
  <2>1. usage[x] \in Entry /\ usage'[x] = [usage[x] EXCEPT !.position = Position(session', x)]
    BY <1>1, <1>2
  <2> QED BY <2>1 DEF Entry
<1> QED BY <1>2, <1>3 DEF IInv, Contexts

\* The index stands for what was seen and what was recalled.
LEMMA Indexed ==
    Spec => []IInv
<1>1. ASSUME Init PROVE Contexts
  <2>1. seen = <<>> /\ \A x \in Cmds : usage[x] = Absent
    BY <1>1 DEF Init
  <2> QED BY <2>1, EmptyContexts DEF Contexts
<1>2. ASSUME RInv, Contexts, [Next]_vars PROVE Contexts'
  <2>0. IInv
    BY <1>2 DEF IInv
  <2>1. ASSUME NEW c \in Cmds, NEW d \in Dirs \cup {NoDir}, NEW t \in Times, Sync(c, d, t) PROVE Contexts'
    BY <2>0, <2>1, SyncContexts
  <2>2. ASSUME NEW c \in Cmds, NEW d \in Dirs \cup {NoDir}, NEW t \in Times, Add(c, d, t) PROVE Contexts'
    BY <2>0, <2>2, AddContexts
  <2>3. CASE Load
    BY <2>0, <2>3, LoadContexts
  <2>4. CASE Clear
    <3>1. seen' = <<>> /\ \A x \in Cmds : usage'[x] = Absent
      BY <2>4 DEF Clear
    <3> QED BY <3>1, EmptyContexts DEF Contexts
  <2>5. CASE UNCHANGED vars
    <3>1. usage' = usage /\ seen' = seen
      BY <2>5 DEF vars
    <3> QED BY <1>2, <3>1 DEF Contexts
  <2> QED BY <1>2, <2>1, <2>2, <2>3, <2>4, <2>5 DEF Next
<1> QED BY <1>1, <1>2, Recalls, PTL DEF Spec, IInv

-----------------------------------------------------------------------------
(* The records in shape answer with the nearest directory.                 *)

LEMMA Greatest ==
    ASSUME NEW K, Positions(K), K # {}
    PROVE  \E k \in K : \A j \in K : j <= k
<1> DEFINE N == Cardinality(K)
<1>1. IsFiniteSet(K) /\ N \in Nat /\ N # 0
  BY FS_CardinalityType, FS_EmptySet DEF Positions
<1>2. N \in 1 .. N
  BY <1>1
<1>3. PICK k \in K : Rank(K, k) = N
  BY <1>2, RankOnto
<1> DEFINE B == {j \in K : j <= k}
<1>4. B \in SUBSET K /\ Cardinality(B) = Cardinality(K)
  BY <1>3, BelowIs
<1>5. B = K
  <2> HIDE DEF B
  <2> QED BY <1>1, <1>4, FS_Subset
<1> QED BY <1>5

LEMMA AncestorsAre ==
    ASSUME NEW d \in Dirs, NEW cwd \in Dirs
    PROVE  /\ IsAncestor(d, cwd) <=> d \in Ancestors(cwd)
           /\ Len(d) \in Nat /\ Len(cwd) \in Nat /\ IsAncestor(d, cwd) => Len(d) \in 0 .. Len(cwd)
<1>1. PICK S : cwd \in Seq(S)
  BY IndexAssumption
<1>2. PICK T : d \in Seq(T)
  BY IndexAssumption
<1>3. Len(d) \in Nat /\ Len(cwd) \in Nat
  BY <1>1, <1>2
<1>4. \A n \in 0 .. Len(cwd) : Len(SubSeq(cwd, 1, n)) = n
  BY <1>1, <1>3
<1>5. IsAncestor(d, cwd) => Len(d) \in 0 .. Len(cwd) /\ d = SubSeq(cwd, 1, Len(d))
  BY <1>3 DEF IsAncestor
<1>6. d \in Ancestors(cwd) => IsAncestor(d, cwd)
  <2>1. ASSUME NEW n \in 0 .. Len(cwd), d = SubSeq(cwd, 1, n) PROVE IsAncestor(d, cwd)
    <3>1. Len(d) = n
      BY <1>4, <2>1
    <3> QED BY <1>3, <2>1, <3>1 DEF IsAncestor
  <2> QED BY <2>1 DEF Ancestors
<1>7. IsAncestor(d, cwd) => d \in Ancestors(cwd)
  BY <1>5 DEF Ancestors
<1> QED BY <1>3, <1>5, <1>6, <1>7

\* Some directory of a set above cwd is the deepest.
LEMMA Deepest ==
    ASSUME NEW cwd \in Dirs, NEW A \in SUBSET Dirs, A # {}, \A d \in A : IsAncestor(d, cwd)
    PROVE  \E d \in A : \A x \in A : Len(x) <= Len(d)
<1> DEFINE K == {Len(d) : d \in A}
<1>1. K \in SUBSET (0 .. Len(cwd)) /\ Len(cwd) \in Nat
  BY AncestorsAre
<1>2. Positions(K)
  <2>1. IsFiniteSet(0 .. Len(cwd)) /\ 0 .. Len(cwd) \subseteq Nat
    BY <1>1, FS_Interval
  <2> HIDE DEF K
  <2> QED BY <1>1, <2>1, FS_Subset DEF Positions
<1>3. K # {}
  OBVIOUS
<1>4. PICK k \in K : \A j \in K : j <= k
  <2> HIDE DEF K
  <2> QED BY <1>2, <1>3, Greatest
<1> QED BY <1>4

LEMMA ContextFollows ==
    ASSUME IInv
    PROVE  ContextExact
<1> SUFFICES ASSUME NEW c \in Cmds, NEW cwd \in Dirs, FirstHasDirectory(c)
             PROVE  ContextUsage(c, cwd) = Reference(c, cwd)
  BY DEF ContextExact
<1> DEFINE u == usage[c]
<1> DEFINE r == u.dirs
<1> DEFINE ran == {seen[i].dir : i \in Uses(c, Dirs)} \cap Ancestors(cwd)
<1> DEFINE deep == CHOOSE d \in ran : \A x \in ran : Len(x) <= Len(d)
<1>1. seen \in Seq(Occurrence) /\ u \in Entry /\ u.total \in Use /\ r \in Directories
  BY DEF IInv, RInv, TypeOK, Entry
<1>2. Shape(seen, c, r, u.total)
  <2>1. Ordinary(seen, c)
    BY DEF Ordinary, FirstHasDirectory
  <2> QED BY <2>1 DEF IInv, Contexts
<1>3. \A D : Uses(c, D) = UsesIn(seen, c, D) /\ UsesIn(seen, c, D) \in SUBSET (DOMAIN seen)
  BY DEF Uses, UsesIn
<1>4. Amount(Uses(c, Dirs \cup {NoDir})) = u.total
  <2>1. Sums(seen, UsesIn(seen, c, AnyDir), u.total)
    BY <1>2, ShapeTotal
  <2>2. UsesIn(seen, c, AnyDir) \in SUBSET (DOMAIN seen)
    BY <1>3
  <2>3. Amount(UsesIn(seen, c, AnyDir)) = u.total
    BY <1>1, <2>1, <2>2, SumIsAmount
  <2> QED BY <1>3, <2>3 DEF AnyDir
<1>5. \A d : d \in ran <=> d \in Dirs /\ UsesIn(seen, c, {d}) # {} /\ IsAncestor(d, cwd)
  <2>1. \A d : d \in {seen[i].dir : i \in Uses(c, Dirs)} <=> d \in Dirs /\ UsesIn(seen, c, {d}) # {}
    BY DEF Uses, UsesIn
  <2> QED BY <2>1, AncestorsAre
<1>6. Reference(c, cwd) = IF ran = {} THEN <<0, u.total>> ELSE <<Far - (Len(cwd) - Len(deep)), Amount(Uses(c, {deep}))>>
  BY <1>4 DEF Reference
<1>7. ran # {} => deep \in ran
  <2>1. ran \in SUBSET Dirs /\ \A d \in ran : IsAncestor(d, cwd)
    BY <1>5
  <2> DEFINE P(d) == \A x \in ran : Len(x) <= Len(d)
  <2>2. ran # {} => \E d \in ran : P(d)
    <3> HIDE DEF ran
    <3> QED BY <2>1, Deepest
  <2> QED BY <2>2
<1>8. \A d \in Dirs, v \in Use : Sums(seen, UsesIn(seen, c, {d}), v) => Amount(Uses(c, {d})) = v
  BY <1>1, <1>3, SumIsAmount
<1>9. \A d \in Dirs : UsesIn(seen, c, {d}) \in SUBSET UsesIn(seen, c, Dirs) /\ UsesIn(seen, c, {d}) \in SUBSET UsesIn(seen, c, AnyDir)
  BY DEF UsesIn, AnyDir
<1> HIDE DEF u, ran, deep
<1>10. ASSUME NEW d \in Dirs, NEW v \in Use, UsesIn(seen, c, {d}) # {}, Sums(seen, UsesIn(seen, c, {d}), v),
              \A x \in Dirs : UsesIn(seen, c, {x}) # {} => x = d
       PROVE  Reference(c, cwd) = IF IsAncestor(d, cwd) THEN <<Far - (Len(cwd) - Len(d)), v>> ELSE <<0, u.total>>
  <2>1. CASE IsAncestor(d, cwd)
    <3>1. d \in ran /\ \A x \in ran : x = d
      BY <1>5, <1>10, <2>1
    <3>2. ran # {} /\ deep = d
      BY <1>7, <3>1
    <3>3. Amount(Uses(c, {d})) = v
      BY <1>8, <1>10
    <3> QED BY <1>6, <2>1, <3>2, <3>3
  <2>2. CASE ~ IsAncestor(d, cwd)
    <3>1. ran = {}
      BY <1>5, <1>10, <2>2
    <3> QED BY <1>6, <2>2, <3>1
  <2> QED BY <2>1, <2>2
<1>11. CASE r.kind = "none"
  <2>1. UsesIn(seen, c, AnyDir) = {}
    BY <1>2, <1>11, ShapeNone
  <2>2. ran = {}
    BY <1>5, <1>9, <2>1
  <2>3. ContextUsage(c, cwd) = <<0, u.total>>
    BY <1>11 DEF ContextUsage, u
  <2> QED BY <1>6, <2>2, <2>3
<1>12. CASE r.kind = "shared" /\ r.dir \in Dirs
  <2>1. Sums(seen, UsesIn(seen, c, AnyDir), u.total) /\ UsesIn(seen, c, AnyDir) = UsesIn(seen, c, {r.dir}) /\ UsesIn(seen, c, AnyDir) # {}
    BY <1>2, <1>12, ShapeShared
  <2>2. \A x \in Dirs : UsesIn(seen, c, {x}) # {} => x = r.dir
    <3>1. ASSUME NEW x \in Dirs, NEW i \in UsesIn(seen, c, {x}) PROVE x = r.dir
      <4>1. i \in UsesIn(seen, c, {r.dir})
        BY <1>9, <2>1, <3>1
      <4> QED BY <3>1, <4>1 DEF UsesIn
    <3> QED BY <3>1
  <2>3. Reference(c, cwd) = IF IsAncestor(r.dir, cwd) THEN <<Far - (Len(cwd) - Len(r.dir)), u.total>> ELSE <<0, u.total>>
    BY <1>1, <1>10, <1>12, <2>1, <2>2
  <2>4. ContextUsage(c, cwd) = IF IsAncestor(r.dir, cwd) THEN <<Far - (Len(cwd) - Len(r.dir)), u.total>> ELSE <<0, u.total>>
    BY <1>12 DEF ContextUsage, u
  <2> QED BY <2>3, <2>4
<1>13. CASE r.kind = "tracked" /\ r.dir \in Dirs /\ r.use \in Use
  <2>1. UsesIn(seen, c, Dirs) = UsesIn(seen, c, {r.dir}) /\ UsesIn(seen, c, Dirs) # {} /\ Sums(seen, UsesIn(seen, c, {r.dir}), r.use)
    BY <1>2, <1>13, ShapeTracked
  <2>2. \A x \in Dirs : UsesIn(seen, c, {x}) # {} => x = r.dir
    <3>1. ASSUME NEW x \in Dirs, NEW i \in UsesIn(seen, c, {x}) PROVE x = r.dir
      <4>1. i \in UsesIn(seen, c, {r.dir})
        BY <1>9, <2>1, <3>1
      <4> QED BY <3>1, <4>1 DEF UsesIn
    <3> QED BY <3>1
  <2>3. Reference(c, cwd) = IF IsAncestor(r.dir, cwd) THEN <<Far - (Len(cwd) - Len(r.dir)), r.use>> ELSE <<0, u.total>>
    BY <1>10, <1>13, <2>1, <2>2
  <2>4. ContextUsage(c, cwd) = IF IsAncestor(r.dir, cwd) THEN <<Far - (Len(cwd) - Len(r.dir)), r.use>> ELSE <<0, u.total>>
    BY <1>13 DEF ContextUsage, u
  <2> QED BY <2>3, <2>4
<1>14. CASE r.kind = "many" /\ DOMAIN r.map \in SUBSET Dirs /\ r.map \in [DOMAIN r.map -> Use]
  <2> DEFINE f == r.map
  <2>1. \A d \in Dirs : IF d \in DOMAIN f THEN UsesIn(seen, c, {d}) # {} /\ Sums(seen, UsesIn(seen, c, {d}), f[d])
                        ELSE UsesIn(seen, c, {d}) = {}
    BY <1>2, <1>14, ShapeMany DEF Split
  <2>2. {d \in DOMAIN f : IsAncestor(d, cwd)} = ran
    BY <1>5, <1>14, <2>1
  <2>3. {d \in Ancestors(cwd) : d \in DOMAIN f} = ran
    BY <1>5, <1>14, <2>1, AncestorsAre
  <2>4. Nearest(f, cwd) = IF ran = {} THEN NoDir ELSE deep
    <3> DEFINE A == IF Cardinality(DOMAIN f) <= Len(cwd) + 1 THEN {d \in DOMAIN f : IsAncestor(d, cwd)}
                    ELSE {d \in Ancestors(cwd) : d \in DOMAIN f}
    <3> DEFINE top(B) == IF B = {} THEN NoDir ELSE CHOOSE d \in B : \A x \in B : Len(x) <= Len(d)
    <3>1. Nearest(f, cwd) = top(A)
      BY DEF Nearest
    <3>2. A = ran
      BY <2>2, <2>3
    <3>3. top(ran) = IF ran = {} THEN NoDir ELSE deep
      BY DEF deep
    <3> HIDE DEF A, top
    <3> QED BY <3>1, <3>2, <3>3
  <2>5. CASE ran = {}
    <3>1. ContextUsage(c, cwd) = <<0, u.total>>
      BY <1>14, <2>4, <2>5 DEF ContextUsage, u
    <3> QED BY <1>6, <2>5, <3>1
  <2>6. CASE ran # {}
    <3>1. deep \in Dirs /\ deep \in DOMAIN f /\ Sums(seen, UsesIn(seen, c, {deep}), f[deep]) /\ f[deep] \in Use
      BY <1>5, <1>7, <1>14, <2>1, <2>6
    <3>2. deep # NoDir
      BY <3>1, IndexAssumption
    <3>3. ContextUsage(c, cwd) = <<Far - (Len(cwd) - Len(deep)), f[deep]>>
      BY <1>14, <2>4, <2>6, <3>2 DEF ContextUsage, u
    <3>4. Amount(Uses(c, {deep})) = f[deep]
      BY <1>8, <3>1
    <3> QED BY <1>6, <2>6, <3>3, <3>4
  <2> QED BY <2>5, <2>6
<1> QED BY <1>1, <1>11, <1>12, <1>13, <1>14, Forms

\* The ranking context of a command is the usage of the nearest directory it
\* ran in at or above cwd, through every sharing, tracking and split of its
\* records and both walks of the lookup.
THEOREM ContextsExact ==
    Spec => []ContextExact
<1>1. IInv => ContextExact
  BY ContextFollows
<1> QED BY <1>1, Indexed, PTL
=============================================================================
