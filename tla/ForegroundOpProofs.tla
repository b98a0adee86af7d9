-------------------------- MODULE ForegroundOpProofs --------------------------
(***************************************************************************)
(* EventsDelivered for any number of threads, events and operations, any   *)
(* capacity of the channel and any signals and failing writes. What the    *)
(* signal handler leaves in sig plays no part: that something was pending  *)
(* may be true or false at every poll.                                     *)
(***************************************************************************)
EXTENDS ForegroundOp, SequenceTheorems, TLAPS

TypeOK ==
    /\ w \in [Emitters -> Thread] /\ eng \in Engine /\ ch \in Channel /\ cancel \in 0 .. 2
    /\ c \in Main /\ c.fails <= MaxOutFail - budget.out
    /\ budget \in [signals : Nat, out : 0 .. MaxOutFail, ops : 0 .. MaxOps]

InOp == c.pc \in {"poll", "recv", "take", "give", "replay", "drain", "join"}
Giving == c.pc \in {"take", "give"}

\* What the main thread and the operation's threads know of each other.
PhaseInv ==
    /\ c.pc \in {"top", "prompt", "exited"} => eng.thread = "off"
    /\ At("prompt") => c.status = "none"
    /\ InOp => eng.thread # "off"
    /\ At("line") => /\ eng.thread \in {"off", "finished"}
                     /\ eng.thread = "off" <=> c.status = "none"
    /\ eng.thread = "off" => \A e \in Emitters : WAt(e, "off")
    /\ eng.thread \in {"dropped", "finished"} => \A e \in Emitters : WAt(e, "done")
    /\ Giving => c.back \in {"poll", "replay", "drain", "join"}
    /\ At("take") => c.takes > 0
    /\ At("drain") \/ At("join") \/ (Giving /\ c.back \in {"drain", "join"}) => eng.thread = "finished"

\* The last progress is taken from the cell after the last event.
LastInv ==
    /\ ~At("give") => c.got = 0
    /\ Giving /\ c.back = "join" => ch.queue = <<>>
    /\ At("take") /\ c.back = "join" => c.takes = 1
    /\ At("give") /\ c.back = "join" => c.takes = 0 /\ ch.latest = 0
    /\ At("join") => ch.queue = <<>> /\ ch.latest = 0

\* The latest progress is on the screen, in the main thread's hand, in the cell or
\* with a thread that has not merged it yet.
ProgressInv ==
    eng.thread # "off" =>
      /\ c.shown <= eng.prog /\ c.got <= eng.prog /\ ch.latest <= eng.prog
      /\ \A e \in Emitters : w[e].snap <= eng.prog /\ (w[e].snap # 0 => WAt(e, "merge"))
      /\ eng.prog \in {c.shown, c.got, ch.latest} \cup {w[e].snap : e \in Emitters}

MadeInv ==
    \A e \in Emitters : /\ w[e].made # 0 => e \in Reporters /\ w[e].made <= MaxEvents
                        /\ WAt(e, "send") => w[e].made # 0

\* The number of events e has sent.
SentBy(e) == IF WAt(e, "send") THEN w[e].made - 1 ELSE w[e].made

AllSent == [e \in Emitters |-> SentBy(e)]

\* Of the n[e] events each e has sent, s has been rendered and q is queued: the
\* rendered ones once and in order, the queued ones after them, and none is missing.
RenderedAt(s, n, i) ==
    /\ s[i][2] \in 1 .. n[s[i][1]]
    /\ \A j \in 1 .. s[i][2] - 1 : \E h \in 1 .. i - 1 : s[h] = <<s[i][1], j>>
    /\ \A h \in DOMAIN s : s[h] = s[i] => h = i

WaitsAt(s, q, n, i) ==
    /\ q[i][2] \in 1 .. n[q[i][1]]
    /\ \A j \in 1 .. q[i][2] - 1 : \/ \E h \in 1 .. i - 1 : q[h] = <<q[i][1], j>>
                                   \/ \E h \in DOMAIN s : s[h] = <<q[i][1], j>>
    /\ \A h \in DOMAIN q : q[h] = q[i] => h = i
    /\ \A h \in DOMAIN s : s[h] # q[i]

Rendering(s, n) == \A i \in DOMAIN s : RenderedAt(s, n, i)
Waiting(s, q, n) == \A i \in DOMAIN q : q[i] # Ready => WaitsAt(s, q, n, i)

Present(s, q, n) ==
    \A e \in Emitters : \A k \in 1 .. n[e] :
        \/ \E i \in DOMAIN s : s[i] = <<e, k>>
        \/ \E i \in DOMAIN q : q[i] = <<e, k>>

Delivery(s, q, n) == Rendering(s, n) /\ Waiting(s, q, n) /\ Present(s, q, n)

StreamInv == eng.thread # "off" => Delivery(c.seen, ch.queue, AllSent)

\* The first error is kept, as the controller's or the watchdog's.
ErrorKept ==
    /\ c.fails = 0 => c.err = 0 /\ c.stored = 0
    /\ c.fails > 0 => c.err = 1 \/ (c.err = 0 /\ c.stored = 1)

OutcomeInv ==
    /\ InOp => (cancel = 2 <=> c.hit) /\ ErrorKept
    /\ At("line") /\ eng.thread = "finished" =>
        /\ c.hit <=> c.status = "cancelled"
        /\ c.hit => c.todo = 0
        /\ c.status = "success" => c.fails = 0 /\ eng.result = "complete"
        /\ c.fails > 0 => c.err = 1

IInv ==
    TypeOK /\ PhaseInv /\ LastInv /\ ProgressInv /\ MadeInv /\ StreamInv /\ OutcomeInv
-----------------------------------------------------------------------------
(* The events on their way.                                                *)

Event == Emitters \X Nat

LEMMA EventFacts ==
    /\ Events \subseteq Event /\ Ready \notin Event
    /\ \A x \in Event : x = <<x[1], x[2]>> /\ x[1] \in Emitters /\ x[2] \in Nat
  BY OpAssumption DEF Event, Events

\* A thread's next event goes to the end of the queue.
LEMMA SendDelivers ==
    ASSUME NEW s \in Seq(Event), NEW q \in Seq(Event \cup {Ready}), NEW n \in [Emitters -> Nat],
           NEW e \in Emitters, Delivery(s, q, n)
    PROVE  Delivery(s, Append(q, <<e, n[e] + 1>>), [n EXCEPT ![e] = n[e] + 1])
  <1>. DEFINE x == <<e, n[e] + 1>>
              p == Append(q, x)
              m == [n EXCEPT ![e] = n[e] + 1]
  <1>0. Rendering(s, n) /\ Waiting(s, q, n) /\ Present(s, q, n)
    BY DEF Delivery
  <1>1. /\ Len(q) \in Nat /\ Len(p) = Len(q) + 1 /\ DOMAIN p = 1 .. Len(q) + 1 /\ DOMAIN q = 1 .. Len(q)
        /\ \A i \in 1 .. Len(q) : p[i] = q[i]
        /\ p[Len(q) + 1] = x
    OBVIOUS
  <1>2. /\ x \in Event /\ x # Ready /\ x[1] = e /\ x[2] = n[e] + 1
        /\ \A i \in DOMAIN s : s[i] \in Event
        /\ \A i \in DOMAIN q : q[i] # Ready => q[i] \in Event
    BY EventFacts DEF Event
  <1>3. m[e] = n[e] + 1 /\ \A f \in Emitters : m[f] \in Nat /\ n[f] <= m[f] /\ (f # e => m[f] = n[f])
    OBVIOUS
  <1>. HIDE DEF x, p, m
  <1>4. \A i \in DOMAIN s : s[i] # x
    BY <1>0, <1>2, EventFacts DEF Rendering, RenderedAt
  <1>5. \A i \in DOMAIN q : q[i] # x
    BY <1>0, <1>2, EventFacts DEF Waiting, WaitsAt
  <1>6. Rendering(s, m)
    <2>1. \A i \in DOMAIN s : s[i][1] \in Emitters /\ s[i][2] \in 1 .. n[s[i][1]]
      BY <1>0, <1>2, EventFacts DEF Rendering, RenderedAt
    <2>2. \A i \in DOMAIN s : s[i][2] \in 1 .. m[s[i][1]]
      BY <1>3, <2>1
    <2>3. ASSUME NEW i \in DOMAIN s PROVE RenderedAt(s, m, i)
      <3>1. RenderedAt(s, n, i)
        BY <1>0 DEF Rendering
      <3>. QED  BY <2>2, <3>1 DEF RenderedAt
    <2>. QED  BY <2>3 DEF Rendering
  <1>7. Waiting(s, p, m)
    <2>. SUFFICES ASSUME NEW i \in DOMAIN p, p[i] # Ready
                  PROVE  WaitsAt(s, p, m, i)
      BY DEF Waiting
    <2>1. CASE i = Len(q) + 1
      <3>1. p[i] = x
        BY <1>1, <2>1
      <3>2. ASSUME NEW j \in 1 .. n[e] PROVE \/ \E h \in 1 .. i - 1 : p[h] = <<e, j>>
                                             \/ \E h \in DOMAIN s : s[h] = <<e, j>>
        <4>1. CASE \E h \in DOMAIN s : s[h] = <<e, j>>
          BY <4>1
        <4>2. CASE \E h \in DOMAIN q : q[h] = <<e, j>>
          <5>1. PICK h \in DOMAIN q : q[h] = <<e, j>>
            BY <4>2
          <5>2. h \in 1 .. i - 1 /\ p[h] = q[h]
            BY <1>1, <2>1
          <5>. QED  BY <5>1, <5>2
        <4>. QED  BY <1>0, <4>1, <4>2 DEF Present
      <3>3. 1 .. x[2] - 1 = 1 .. n[e] /\ x[2] \in 1 .. m[x[1]]
        BY <1>2, <1>3
      <3>4. \A h \in DOMAIN p : p[h] = p[i] => h = i
        BY <1>1, <1>5, <2>1
      <3>5. \A h \in DOMAIN s : s[h] # p[i]
        BY <1>4, <3>1
      <3>6. p[i][2] \in 1 .. m[p[i][1]] /\ p[i][1] = e /\ 1 .. p[i][2] - 1 = 1 .. n[e]
        BY <1>2, <3>1, <3>3
      <3>. QED  BY <3>2, <3>4, <3>5, <3>6 DEF WaitsAt
    <2>2. CASE i \in DOMAIN q
      <3>1. p[i] = q[i] /\ q[i] \in Event
        BY <1>1, <1>2, <2>2
      <3>2. /\ q[i][2] \in 1 .. n[q[i][1]]
            /\ \A j \in 1 .. q[i][2] - 1 : \/ \E h \in 1 .. i - 1 : q[h] = <<q[i][1], j>>
                                           \/ \E h \in DOMAIN s : s[h] = <<q[i][1], j>>
            /\ \A h \in DOMAIN q : q[h] = q[i] => h = i
            /\ \A h \in DOMAIN s : s[h] # q[i]
        <4>1. WaitsAt(s, q, n, i)
          BY <1>0, <2>2, <3>1, EventFacts DEF Waiting
        <4>. QED  BY <4>1 DEF WaitsAt
      <3>3. q[i][2] \in 1 .. m[q[i][1]]
        BY <1>3, <3>1, <3>2, EventFacts
      <3>4. \A h \in 1 .. i - 1 : p[h] = q[h]
        BY <1>1, <2>2
      <3>5. \A h \in DOMAIN p : p[h] = q[i] => h = i
        BY <1>1, <1>5, <2>2, <3>2
      <3>6. ASSUME NEW j \in 1 .. q[i][2] - 1
            PROVE  \/ \E h \in 1 .. i - 1 : p[h] = <<q[i][1], j>>
                   \/ \E h \in DOMAIN s : s[h] = <<q[i][1], j>>
        BY <3>2, <3>4
      <3>. QED  BY <3>1, <3>2, <3>3, <3>5, <3>6 DEF WaitsAt
    <2>. QED  BY <1>1, <2>1, <2>2
  <1>8. Present(s, p, m)
    <2>. SUFFICES ASSUME NEW f \in Emitters, NEW k \in 1 .. m[f]
                  PROVE  \/ \E i \in DOMAIN s : s[i] = <<f, k>>
                         \/ \E i \in DOMAIN p : p[i] = <<f, k>>
      BY DEF Present
    <2>1. CASE k \in 1 .. n[f]
      <3>1. \A i \in DOMAIN q : i \in DOMAIN p /\ p[i] = q[i]
        BY <1>1
      <3>2. \/ \E i \in DOMAIN s : s[i] = <<f, k>>
            \/ \E i \in DOMAIN q : q[i] = <<f, k>>
        BY <1>0, <2>1 DEF Present
      <3>. QED  BY <3>1, <3>2
    <2>2. CASE k \notin 1 .. n[f]
      <3>1. f = e /\ k = n[e] + 1
        BY <1>3, <2>2
      <3>. QED  BY <1>1, <3>1 DEF x
    <2>. QED  BY <2>1, <2>2
  <1>. QED  BY <1>6, <1>7, <1>8 DEF Delivery, x, p, m

LEMMA WakeDelivers ==
    ASSUME NEW s \in Seq(Event), NEW q \in Seq(Event \cup {Ready}), NEW n \in [Emitters -> Nat],
           Delivery(s, q, n)
    PROVE  Delivery(s, Append(q, Ready), n)
  <1>. DEFINE p == Append(q, Ready)
  <1>0. Rendering(s, n) /\ Waiting(s, q, n) /\ Present(s, q, n)
    BY DEF Delivery
  <1>1. /\ Len(q) \in Nat /\ DOMAIN p = 1 .. Len(q) + 1 /\ DOMAIN q = 1 .. Len(q)
        /\ \A i \in 1 .. Len(q) : p[i] = q[i]
        /\ p[Len(q) + 1] = Ready
    OBVIOUS
  <1>. HIDE DEF p
  <1>2. ASSUME NEW i \in DOMAIN p, p[i] # Ready
        PROVE  i \in DOMAIN q /\ p[i] = q[i] /\ \A h \in 1 .. i - 1 : p[h] = q[h]
    BY <1>1, <1>2
  <1>4. Waiting(s, p, n)
    <2>. SUFFICES ASSUME NEW i \in DOMAIN p, p[i] # Ready
                  PROVE  WaitsAt(s, p, n, i)
      BY DEF Waiting
    <2>1. i \in DOMAIN q /\ p[i] = q[i] /\ q[i] # Ready /\ \A h \in 1 .. i - 1 : p[h] = q[h]
      BY <1>2
    <2>2. /\ q[i][2] \in 1 .. n[q[i][1]]
          /\ \A j \in 1 .. q[i][2] - 1 : \/ \E h \in 1 .. i - 1 : q[h] = <<q[i][1], j>>
                                         \/ \E h \in DOMAIN s : s[h] = <<q[i][1], j>>
          /\ \A h \in DOMAIN q : q[h] = q[i] => h = i
          /\ \A h \in DOMAIN s : s[h] # q[i]
      <3>1. WaitsAt(s, q, n, i)
        BY <1>0, <2>1 DEF Waiting
      <3>. QED  BY <3>1 DEF WaitsAt
    <2>3. \A h \in DOMAIN p : p[h] = q[i] => h = i
      BY <1>2, <2>1, <2>2
    <2>4. ASSUME NEW j \in 1 .. q[i][2] - 1
          PROVE  \/ \E h \in 1 .. i - 1 : p[h] = <<q[i][1], j>>
                 \/ \E h \in DOMAIN s : s[h] = <<q[i][1], j>>
      BY <2>1, <2>2
    <2>. QED  BY <2>1, <2>2, <2>3, <2>4 DEF WaitsAt
  <1>5. Present(s, p, n)
    <2>1. \A i \in DOMAIN q : i \in DOMAIN p /\ p[i] = q[i]
      BY <1>1
    <2>2. ASSUME NEW e \in Emitters, NEW k \in 1 .. n[e]
          PROVE  \/ \E i \in DOMAIN s : s[i] = <<e, k>>
                 \/ \E i \in DOMAIN p : p[i] = <<e, k>>
      <3>1. \/ \E i \in DOMAIN s : s[i] = <<e, k>>
            \/ \E i \in DOMAIN q : q[i] = <<e, k>>
        BY <1>0 DEF Present
      <3>. QED  BY <2>1, <3>1
    <2>. QED  BY <2>2 DEF Present
  <1>. QED  BY <1>0, <1>4, <1>5 DEF Delivery, p

LEMMA TailFacts ==
    ASSUME NEW S, NEW q \in Seq(S), q # <<>>
    PROVE  /\ Len(q) \in Nat \ {0} /\ DOMAIN q = 1 .. Len(q) /\ Tail(q) \in Seq(S)
           /\ DOMAIN Tail(q) = 1 .. Len(q) - 1 /\ Head(q) = q[1] /\ q[1] \in S
           /\ \A i \in 1 .. Len(q) - 1 : Tail(q)[i] = q[i + 1]
  BY HeadTailProperties

\* The oldest event is rendered.
LEMMA ShowDelivers ==
    ASSUME NEW s \in Seq(Event), NEW q \in Seq(Event \cup {Ready}), NEW n \in [Emitters -> Nat],
           q # <<>>, Head(q) # Ready, Delivery(s, q, n)
    PROVE  Delivery(Append(s, Head(q)), Tail(q), n)
  <1>. DEFINE x == Head(q)
              t == Append(s, x)
              p == Tail(q)
  <1>0. Rendering(s, n) /\ Waiting(s, q, n) /\ Present(s, q, n)
    BY DEF Delivery
  <1>1. /\ Len(q) \in Nat \ {0} /\ DOMAIN q = 1 .. Len(q) /\ DOMAIN p = 1 .. Len(q) - 1
        /\ x = q[1] /\ x \in Event /\ \A i \in 1 .. Len(q) - 1 : p[i] = q[i + 1]
    BY TailFacts
  <1>2. /\ Len(s) \in Nat /\ DOMAIN s = 1 .. Len(s) /\ DOMAIN t = 1 .. Len(s) + 1
        /\ \A i \in 1 .. Len(s) : t[i] = s[i]
        /\ t[Len(s) + 1] = x
    BY <1>1
  <1>. HIDE DEF x, t, p
  <1>3. /\ x[2] \in 1 .. n[x[1]]
        /\ \A j \in 1 .. x[2] - 1 : \E h \in DOMAIN s : s[h] = <<x[1], j>>
        /\ \A h \in DOMAIN q : q[h] = x => h = 1
        /\ \A h \in DOMAIN s : s[h] # x
    <2>1. 1 \in DOMAIN q /\ q[1] # Ready /\ q[1] = x /\ 1 .. 1 - 1 = {}
      BY <1>1 DEF x
    <2>2. WaitsAt(s, q, n, 1)
      BY <1>0, <2>1 DEF Waiting
    <2>. QED  BY <2>1, <2>2 DEF WaitsAt
  <1>4. Rendering(t, n)
    <2>. SUFFICES ASSUME NEW i \in DOMAIN t
                  PROVE  RenderedAt(t, n, i)
      BY DEF Rendering
    <2>1. CASE i = Len(s) + 1
      <3>1. t[i] = x /\ \A h \in DOMAIN s : h \in 1 .. i - 1 /\ t[h] = s[h]
        BY <1>2, <2>1
      <3>2. \A h \in DOMAIN t : t[h] = x => h = i
        <4>1. \A h \in DOMAIN t : h = i \/ (h \in DOMAIN s /\ t[h] = s[h])
          BY <1>2, <2>1
        <4>. QED  BY <1>3, <4>1
      <3>3. ASSUME NEW j \in 1 .. x[2] - 1 PROVE \E h \in 1 .. i - 1 : t[h] = <<x[1], j>>
        BY <1>3, <3>1
      <3>. QED  BY <1>3, <3>1, <3>2, <3>3 DEF RenderedAt
    <2>2. CASE i \in DOMAIN s
      <3>1. t[i] = s[i] /\ \A h \in 1 .. i - 1 : t[h] = s[h]
        BY <1>2, <2>2
      <3>2. /\ s[i][2] \in 1 .. n[s[i][1]]
            /\ \A j \in 1 .. s[i][2] - 1 : \E h \in 1 .. i - 1 : s[h] = <<s[i][1], j>>
            /\ \A h \in DOMAIN s : s[h] = s[i] => h = i
        <4>1. RenderedAt(s, n, i)
          BY <1>0, <2>2 DEF Rendering
        <4>. QED  BY <4>1 DEF RenderedAt
      <3>3. ASSUME NEW j \in 1 .. s[i][2] - 1 PROVE \E h \in 1 .. i - 1 : t[h] = <<s[i][1], j>>
        BY <3>1, <3>2
      <3>4. \A h \in DOMAIN t : t[h] = s[i] => h = i
        <4>1. \A h \in DOMAIN t : t[h] = x \/ (h \in DOMAIN s /\ t[h] = s[h])
          BY <1>2
        <4>2. s[i] # x
          BY <1>3, <2>2
        <4>. QED  BY <3>2, <4>1, <4>2
      <3>. QED  BY <3>1, <3>2, <3>3, <3>4 DEF RenderedAt
    <2>. QED  BY <1>2, <2>1, <2>2
  <1>5. Waiting(t, p, n)
    <2>. SUFFICES ASSUME NEW i \in DOMAIN p, p[i] # Ready
                  PROVE  WaitsAt(t, p, n, i)
      BY DEF Waiting
    <2>. DEFINE g == i + 1
    <2>1. g \in DOMAIN q /\ p[i] = q[g] /\ i \in Nat /\ g = i + 1 /\ g # 1
      BY <1>1
    <2>. HIDE DEF g
    <2>2. /\ q[g][2] \in 1 .. n[q[g][1]]
          /\ \A j \in 1 .. q[g][2] - 1 : \/ \E h \in 1 .. g - 1 : q[h] = <<q[g][1], j>>
                                         \/ \E h \in DOMAIN s : s[h] = <<q[g][1], j>>
          /\ \A h \in DOMAIN q : q[h] = q[g] => h = g
          /\ \A h \in DOMAIN s : s[h] # q[g]
      <3>1. q[g] # Ready
        BY <2>1, EventFacts
      <3>2. WaitsAt(s, q, n, g)
        BY <1>0, <2>1, <3>1 DEF Waiting
      <3>. QED  BY <3>2 DEF WaitsAt
    <2>3. ASSUME NEW h \in 1 .. g - 1
          PROVE  \/ h - 1 \in 1 .. i - 1 /\ p[h - 1] = q[h]
                 \/ q[h] = t[Len(s) + 1] /\ Len(s) + 1 \in DOMAIN t
      <3>1. CASE h = 1
        BY <1>1, <1>2, <3>1
      <3>2. CASE h # 1
        <4>1. h - 1 \in 1 .. i - 1 /\ h - 1 \in 1 .. Len(q) - 1 /\ (h - 1) + 1 = h
          BY <1>1, <2>1, <3>2
        <4>. QED  BY <1>1, <4>1
      <3>. QED  BY <3>1, <3>2
    <2>4. \A h \in DOMAIN s : h \in DOMAIN t /\ t[h] = s[h]
      BY <1>2
    <2>5. ASSUME NEW j \in 1 .. q[g][2] - 1
          PROVE  \/ \E h \in 1 .. i - 1 : p[h] = <<q[g][1], j>>
                 \/ \E h \in DOMAIN t : t[h] = <<q[g][1], j>>
      <3>1. CASE \E h \in DOMAIN s : s[h] = <<q[g][1], j>>
        BY <2>4, <3>1
      <3>2. CASE \E h \in 1 .. g - 1 : q[h] = <<q[g][1], j>>
        <4>1. PICK h \in 1 .. g - 1 : q[h] = <<q[g][1], j>>
          BY <3>2
        <4>. QED  BY <2>3, <4>1
      <3>. QED  BY <2>2, <3>1, <3>2
    <2>6. \A h \in DOMAIN p : p[h] = q[g] => h = i
      <3>1. ASSUME NEW h \in DOMAIN p, p[h] = q[g] PROVE h = i
        <4>1. h \in Nat /\ h + 1 \in DOMAIN q /\ p[h] = q[h + 1]
          BY <1>1
        <4>. QED  BY <2>1, <2>2, <3>1, <4>1
      <3>. QED  BY <3>1
    <2>7. \A h \in DOMAIN t : t[h] # q[g]
      <3>1. x # q[g]
        BY <1>3, <2>1
      <3>. QED  BY <1>2, <2>2, <3>1
    <2>. QED  BY <2>1, <2>2, <2>5, <2>6, <2>7 DEF WaitsAt
  <1>6. Present(t, p, n)
    <2>. SUFFICES ASSUME NEW e \in Emitters, NEW k \in 1 .. n[e]
                  PROVE  \/ \E i \in DOMAIN t : t[i] = <<e, k>>
                         \/ \E i \in DOMAIN p : p[i] = <<e, k>>
      BY DEF Present
    <2>1. CASE \E i \in DOMAIN s : s[i] = <<e, k>>
      BY <1>2, <2>1
    <2>2. CASE \E i \in DOMAIN q : q[i] = <<e, k>>
      <3>1. PICK i \in DOMAIN q : q[i] = <<e, k>>
        BY <2>2
      <3>2. CASE i = 1
        <4>1. Len(s) + 1 \in DOMAIN t /\ t[Len(s) + 1] = <<e, k>>
          BY <1>1, <1>2, <3>1, <3>2
        <4>. QED  BY <4>1
      <3>3. CASE i # 1
        <4>1. i - 1 \in DOMAIN p /\ i - 1 \in 1 .. Len(q) - 1 /\ (i - 1) + 1 = i
          BY <1>1, <3>3
        <4>. QED  BY <1>1, <3>1, <4>1
      <3>. QED  BY <3>2, <3>3
    <2>. QED  BY <1>0, <2>1, <2>2 DEF Present
  <1>. QED  BY <1>4, <1>5, <1>6 DEF Delivery, x, t, p

\* A wake-up is taken from the queue.
LEMMA WokenDelivers ==
    ASSUME NEW s \in Seq(Event), NEW q \in Seq(Event \cup {Ready}), NEW n \in [Emitters -> Nat],
           q # <<>>, Head(q) = Ready, Delivery(s, q, n)
    PROVE  Delivery(s, Tail(q), n)
  <1>. DEFINE p == Tail(q)
  <1>0. Rendering(s, n) /\ Waiting(s, q, n) /\ Present(s, q, n)
    BY DEF Delivery
  <1>1. /\ Len(q) \in Nat \ {0} /\ DOMAIN q = 1 .. Len(q) /\ DOMAIN p = 1 .. Len(q) - 1
        /\ q[1] = Ready /\ \A i \in 1 .. Len(q) - 1 : p[i] = q[i + 1]
    BY TailFacts
  <1>. HIDE DEF p
  <1>2. \A e \in Emitters, k \in Nat : <<e, k>> # Ready
    BY EventFacts DEF Event
  <1>3. ASSUME NEW e \in Emitters, NEW k \in Nat, NEW h \in DOMAIN q, q[h] = <<e, k>>
        PROVE  h - 1 \in 1 .. Len(q) - 1 /\ p[h - 1] = q[h]
    <2>1. h # 1
      BY <1>1, <1>2, <1>3
    <2>2. h - 1 \in 1 .. Len(q) - 1 /\ (h - 1) + 1 = h
      BY <1>1, <2>1
    <2>. QED  BY <1>1, <2>2
  <1>4. Waiting(s, p, n)
    <2>. SUFFICES ASSUME NEW i \in DOMAIN p, p[i] # Ready
                  PROVE  WaitsAt(s, p, n, i)
      BY DEF Waiting
    <2>. DEFINE g == i + 1
    <2>1. g \in DOMAIN q /\ p[i] = q[g] /\ i \in Nat /\ g = i + 1 /\ q[g] \in Event
      BY <1>1
    <2>. HIDE DEF g
    <2>2. /\ q[g][2] \in 1 .. n[q[g][1]]
          /\ \A j \in 1 .. q[g][2] - 1 : \/ \E h \in 1 .. g - 1 : q[h] = <<q[g][1], j>>
                                         \/ \E h \in DOMAIN s : s[h] = <<q[g][1], j>>
          /\ \A h \in DOMAIN q : q[h] = q[g] => h = g
          /\ \A h \in DOMAIN s : s[h] # q[g]
      <3>1. q[g] # Ready
        BY <2>1, EventFacts
      <3>2. WaitsAt(s, q, n, g)
        BY <1>0, <2>1, <3>1 DEF Waiting
      <3>. QED  BY <3>2 DEF WaitsAt
    <2>3. ASSUME NEW j \in 1 .. q[g][2] - 1, NEW h \in 1 .. g - 1, q[h] = <<q[g][1], j>>
          PROVE  \E d \in 1 .. i - 1 : p[d] = <<q[g][1], j>>
      <3>1. h \in DOMAIN q /\ j \in Nat /\ q[g][1] \in Emitters
        BY <1>1, <2>1, <2>2, EventFacts
      <3>2. h - 1 \in 1 .. Len(q) - 1 /\ p[h - 1] = q[h]
        BY <1>3, <2>3, <3>1
      <3>3. h - 1 \in 1 .. i - 1
        BY <1>1, <2>1, <3>2
      <3>. QED  BY <2>3, <3>2, <3>3
    <2>4. \A h \in DOMAIN p : p[h] = q[g] => h = i
      <3>1. ASSUME NEW h \in DOMAIN p, p[h] = q[g] PROVE h = i
        <4>1. h \in Nat /\ h + 1 \in DOMAIN q /\ p[h] = q[h + 1]
          BY <1>1
        <4>. QED  BY <2>1, <2>2, <3>1, <4>1
      <3>. QED  BY <3>1
    <2>. QED  BY <2>1, <2>2, <2>3, <2>4 DEF WaitsAt
  <1>5. Present(s, p, n)
    <2>. SUFFICES ASSUME NEW e \in Emitters, NEW k \in 1 .. n[e], NEW i \in DOMAIN q, q[i] = <<e, k>>
                  PROVE  \E h \in DOMAIN p : p[h] = <<e, k>>
      BY DEF Delivery, Present
    <2>1. i - 1 \in 1 .. Len(q) - 1 /\ p[i - 1] = q[i]
      <3>1. k \in Nat
        OBVIOUS
      <3>. QED  BY <1>3, <3>1
    <2>. QED  BY <1>1, <2>1
  <1>. QED  BY <1>0, <1>4, <1>5 DEF Delivery, p
-----------------------------------------------------------------------------
(* The operation's threads.                                                *)

LEMMA SentFacts ==
    ASSUME TypeOK, MadeInv
    PROVE  /\ AllSent \in [Emitters -> Nat]
           /\ c.seen \in Seq(Event) /\ ch.queue \in Seq(Event \cup {Ready})
  <1>1. \A e \in Emitters : w[e].made \in Nat /\ (WAt(e, "send") => w[e].made # 0)
    BY DEF TypeOK, MadeInv, Thread
  <1>2. \A e \in Emitters : SentBy(e) \in Nat
    BY <1>1 DEF SentBy
  <1>3. c.seen \in Seq(Events) /\ ch.queue \in Seq(Events \cup {Ready})
    BY DEF TypeOK, Main, Channel
  <1>. QED  BY <1>2, <1>3, EventFacts DEF AllSent

\* A step of one thread leaves what the main thread knows.
LEMMA ThreadMoves ==
    ASSUME IInv, NEW e \in Emitters, NEW t \in Thread, w' = [w EXCEPT ![e] = t],
           w[e].pc \notin {"off", "done"}, eng' \in Engine, eng'.thread = eng.thread,
           eng'.result = eng.result, ch' \in Channel, UNCHANGED <<c, cancel, budget>>
    PROVE  /\ TypeOK' /\ PhaseInv' /\ LastInv' /\ OutcomeInv' /\ eng.thread = "run"
           /\ w'[e] = t /\ \A f \in Emitters : f # e => w'[f] = w[f]
  <1>1. w'[e] = t /\ \A f \in Emitters : f # e => w'[f] = w[f]
    BY DEF IInv, TypeOK
  <1>2. eng.thread = "run"
    BY DEF IInv, TypeOK, PhaseInv, Engine, WAt
  <1>3. TypeOK'
    BY DEF IInv, TypeOK
  <1>4. PhaseInv'
    BY <1>2 DEF IInv, PhaseInv, InOp, Giving, At
  <1>5. LastInv'
    BY <1>2 DEF IInv, PhaseInv, LastInv, Giving, At
  <1>6. OutcomeInv'
    BY <1>2 DEF IInv, OutcomeInv, InOp, ErrorKept, At
  <1>. QED  BY <1>1, <1>2, <1>3, <1>4, <1>5, <1>6

\* What a thread has sent changes by Send only.
LEMMA StreamStays ==
    ASSUME StreamInv, eng.thread = "off" => eng'.thread = "off", c'.seen = c.seen, ch'.queue = ch.queue,
           \A f \in Emitters : SentBy(f)' = SentBy(f)
    PROVE  StreamInv'
  <1>1. AllSent' = AllSent
    BY DEF AllSent
  <1>. QED  BY <1>1 DEF StreamInv

LEMMA UpdateKeeps == ASSUME IInv, NEW e \in Emitters, Update(e) PROVE IInv'
  <1>. DEFINE t == [w[e] EXCEPT !.pc = "merge", !.snap = eng.prog + 1]
  <1>1. /\ w[e] \in Thread /\ eng \in Engine /\ eng.prog + 1 \in 0 .. MaxWork /\ eng.prog \in Nat
        /\ w[e].pc = "run" /\ \A f \in Emitters : w[f].snap \in Nat
    BY OpAssumption DEF IInv, TypeOK, Update, WAt, Thread, Engine
  <1>2. /\ t \in Thread /\ t.pc = "merge" /\ t.snap = eng.prog + 1 /\ t.made = w[e].made
    BY <1>1 DEF Thread, WPcs
  <1>3. /\ eng' \in Engine /\ eng'.thread = eng.thread /\ eng'.result = eng.result
        /\ eng'.prog = eng.prog + 1
    BY <1>1 DEF Update, Engine
  <1>4. w' = [w EXCEPT ![e] = t] /\ UNCHANGED <<ch, c, cancel, budget>>
    BY DEF Update, Set
  <1>. HIDE DEF t
  <1>5. /\ TypeOK' /\ PhaseInv' /\ LastInv' /\ OutcomeInv' /\ eng.thread = "run"
        /\ w'[e] = t /\ \A f \in Emitters : f # e => w'[f] = w[f]
    BY <1>1, <1>2, <1>3, <1>4, ThreadMoves DEF IInv, TypeOK
  <1>6. MadeInv'
    BY <1>1, <1>2, <1>5 DEF IInv, MadeInv, WAt
  <1>7. StreamInv'
    <2>1. \A f \in Emitters : SentBy(f)' = SentBy(f)
      BY <1>1, <1>2, <1>5 DEF SentBy, WAt
    <2>. QED  BY <1>3, <1>4, <2>1, StreamStays DEF IInv
  <1>8. ProgressInv'
    <2>1. c.shown \in Nat /\ c.got \in Nat /\ ch.latest \in Nat
      BY DEF IInv, TypeOK, Main, Channel
    <2>2. eng'.prog \in {w'[f].snap : f \in Emitters}
      BY <1>2, <1>3, <1>5
    <2>3. \A f \in Emitters : w'[f].snap <= eng'.prog /\ (w'[f].snap # 0 => w'[f].pc = "merge")
      BY <1>1, <1>2, <1>3, <1>5 DEF IInv, ProgressInv, WAt
    <2>. QED  BY <1>1, <1>3, <1>4, <1>5, <2>1, <2>2, <2>3 DEF IInv, ProgressInv, WAt
  <1>. QED  BY <1>5, <1>6, <1>7, <1>8 DEF IInv

\* A step that changes no progress.
LEMMA ProgressStays ==
    ASSUME ProgressInv, eng.thread = "off" => eng'.thread = "off", eng'.prog = eng.prog, c'.shown = c.shown,
           c'.got = c.got, ch'.latest = ch.latest,
           \A f \in Emitters : w'[f].snap = w[f].snap /\ (w[f].pc = "merge" => w'[f].pc = "merge")
    PROVE  ProgressInv'
  <1>1. {w'[f].snap : f \in Emitters} = {w[f].snap : f \in Emitters}
    OBVIOUS
  <1>. QED  BY <1>1 DEF ProgressInv, WAt

LEMMA EmitKeeps == ASSUME IInv, NEW e \in Emitters, Emit(e) PROVE IInv'
  <1>. DEFINE t == [w[e] EXCEPT !.pc = "send", !.made = w[e].made + 1]
  <1>1. /\ w[e] \in Thread /\ w[e].pc = "run" /\ w[e].made \in Nat /\ e \in Reporters
        /\ w[e].made < MaxEvents /\ MaxEvents \in Nat
    BY OpAssumption DEF IInv, TypeOK, Emit, WAt, Thread
  <1>2. t \in Thread /\ t.pc = "send" /\ t.snap = w[e].snap /\ t.made = w[e].made + 1
    <2>1. "send" \in WPcs /\ w[e].made + 1 \in Nat
      BY <1>1 DEF WPcs
    <2>. QED  BY <1>1, <2>1 DEF Thread
  <1>3. w' = [w EXCEPT ![e] = t] /\ UNCHANGED <<eng, ch, c, cancel, budget>>
    BY DEF Emit, Set
  <1>. HIDE DEF t
  <1>4. /\ TypeOK' /\ PhaseInv' /\ LastInv' /\ OutcomeInv' /\ eng.thread = "run"
        /\ w'[e] = t /\ \A f \in Emitters : f # e => w'[f] = w[f]
    BY <1>1, <1>2, <1>3, ThreadMoves DEF IInv, TypeOK
  <1>5. MadeInv'
    BY <1>1, <1>2, <1>4 DEF IInv, MadeInv, WAt
  <1>6. StreamInv'
    <2>1. \A f \in Emitters : SentBy(f)' = SentBy(f)
      BY <1>1, <1>2, <1>4 DEF SentBy, WAt
    <2>. QED  BY <1>3, <2>1, StreamStays DEF IInv
  <1>7. ProgressInv'
    BY <1>1, <1>2, <1>3, <1>4, ProgressStays DEF IInv
  <1>. QED  BY <1>4, <1>5, <1>6, <1>7 DEF IInv

LEMMA FinishKeeps == ASSUME IInv, NEW e \in Emitters, Finish(e) PROVE IInv'
  <1>. DEFINE t == [w[e] EXCEPT !.pc = "done"]
  <1>1. w[e] \in Thread /\ w[e].pc = "run"
    BY DEF IInv, TypeOK, Finish, WAt
  <1>2. t \in Thread /\ t.pc = "done" /\ t.snap = w[e].snap /\ t.made = w[e].made
    BY <1>1 DEF Thread, WPcs
  <1>3. w' = [w EXCEPT ![e] = t] /\ UNCHANGED <<eng, ch, c, cancel, budget>>
    BY DEF Finish, Set
  <1>. HIDE DEF t
  <1>4. /\ TypeOK' /\ PhaseInv' /\ LastInv' /\ OutcomeInv' /\ eng.thread = "run"
        /\ w'[e] = t /\ \A f \in Emitters : f # e => w'[f] = w[f]
    BY <1>1, <1>2, <1>3, ThreadMoves DEF IInv, TypeOK
  <1>5. MadeInv'
    BY <1>1, <1>2, <1>4 DEF IInv, MadeInv, WAt
  <1>6. StreamInv'
    <2>1. \A f \in Emitters : SentBy(f)' = SentBy(f)
      BY <1>1, <1>2, <1>4 DEF SentBy, WAt
    <2>. QED  BY <1>3, <2>1, StreamStays DEF IInv
  <1>7. ProgressInv'
    BY <1>1, <1>2, <1>3, <1>4, ProgressStays DEF IInv
  <1>. QED  BY <1>4, <1>5, <1>6, <1>7 DEF IInv

\* A snapshot older than the latest is dropped: the later one covers it.
LEMMA MergeKeeps == ASSUME IInv, NEW e \in Emitters, Merge(e) PROVE IInv'
  <1>. DEFINE t == [w[e] EXCEPT !.pc = "wake", !.snap = 0]
              latest == Bigger(ch.latest, w[e].snap)
  <1>1. /\ w[e] \in Thread /\ w[e].pc = "merge" /\ ch \in Channel /\ w[e].snap \in 0 .. MaxWork
        /\ ch.latest \in 0 .. MaxWork /\ MaxWork \in Nat
    BY OpAssumption DEF IInv, TypeOK, Merge, WAt, Thread, Channel
  <1>2. t \in Thread /\ t.pc = "wake" /\ t.snap = 0 /\ t.made = w[e].made
    <2>1. "wake" \in WPcs /\ 0 \in 0 .. MaxWork
      BY <1>1 DEF WPcs
    <2>. QED  BY <1>1, <2>1 DEF Thread
  <1>3. /\ latest \in 0 .. MaxWork /\ latest \in {ch.latest, w[e].snap}
        /\ ch.latest <= latest /\ w[e].snap <= latest
    BY <1>1 DEF Bigger
  <1>4. /\ w' = [w EXCEPT ![e] = t] /\ ch' = [ch EXCEPT !.latest = latest]
        /\ UNCHANGED <<eng, c, cancel, budget>>
    BY DEF Merge, Set
  <1>. HIDE DEF t, latest
  <1>5. ch' \in Channel /\ ch'.latest = latest /\ ch'.queue = ch.queue
    BY <1>1, <1>3, <1>4 DEF Channel
  <1>6. /\ TypeOK' /\ PhaseInv' /\ LastInv' /\ OutcomeInv' /\ eng.thread = "run"
        /\ w'[e] = t /\ \A f \in Emitters : f # e => w'[f] = w[f]
    BY <1>1, <1>2, <1>4, <1>5, ThreadMoves DEF IInv, TypeOK
  <1>7. MadeInv'
    BY <1>1, <1>2, <1>6 DEF IInv, MadeInv, WAt
  <1>8. StreamInv'
    <2>1. \A f \in Emitters : SentBy(f)' = SentBy(f)
      BY <1>1, <1>2, <1>6 DEF SentBy, WAt
    <2>. QED  BY <1>4, <1>5, <2>1, StreamStays DEF IInv
  <1>9. ProgressInv'
    <2>1. /\ \A f \in Emitters : w[f].snap \in Nat /\ w[f].snap <= eng.prog
          /\ \A f \in Emitters : w[f].snap # 0 => w[f].pc = "merge"
          /\ c.shown <= eng.prog /\ c.got <= eng.prog /\ ch.latest <= eng.prog
          /\ eng.prog \in {c.shown, c.got, ch.latest} \cup {w[f].snap : f \in Emitters}
      BY <1>6 DEF IInv, ProgressInv, WAt, TypeOK, Thread
    <2>2. eng.prog \in Nat
      BY OpAssumption DEF IInv, TypeOK, Engine
    <2>3. eng.prog \in {c.shown, c.got, latest} \cup {w'[f].snap : f \in Emitters}
      <3>1. CASE eng.prog \in {c.shown, c.got}
        BY <3>1
      <3>2. CASE eng.prog \in {ch.latest, w[e].snap}
        BY <1>1, <1>3, <2>1, <2>2, <3>2
      <3>3. CASE \E f \in Emitters \ {e} : eng.prog = w[f].snap
        BY <1>6, <3>3
      <3>. QED  BY <2>1, <3>1, <3>2, <3>3
    <2>4. latest <= eng.prog
      BY <1>3, <2>1
    <2>5. \A f \in Emitters : w'[f].snap <= eng.prog /\ (w'[f].snap # 0 => w'[f].pc = "merge")
      BY <1>2, <1>6, <2>1, <2>2
    <2>. QED  BY <1>4, <1>5, <2>1, <2>3, <2>4, <2>5 DEF ProgressInv, WAt
  <1>. QED  BY <1>6, <1>7, <1>8, <1>9 DEF IInv

\* A wake-up is dropped when the channel is full; the cell keeps the progress.
LEMMA WakeKeeps == ASSUME IInv, NEW e \in Emitters, Wake(e) PROVE IInv'
  <1>. DEFINE t == [w[e] EXCEPT !.pc = "run"]
  <1>1. w[e] \in Thread /\ w[e].pc = "wake" /\ ch \in Channel
    BY DEF IInv, TypeOK, Wake, WAt
  <1>2. t \in Thread /\ t.pc = "run" /\ t.snap = w[e].snap /\ t.made = w[e].made
    BY <1>1 DEF Thread, WPcs
  <1>3. w' = [w EXCEPT ![e] = t] /\ UNCHANGED <<eng, c, cancel, budget>>
    BY DEF Wake, Set
  <1>4. /\ ch'.latest = ch.latest /\ ch'.queue \in {ch.queue, Append(ch.queue, Ready)}
        /\ ch' \in Channel
    <2>1. PICK q \in {ch.queue, Append(ch.queue, Ready)} : ch' = [ch EXCEPT !.pending = TRUE, !.queue = q]
      BY DEF Wake
    <2>2. q \in Seq(Events \cup {Ready})
      BY <1>1 DEF Channel
    <2>. QED  BY <1>1, <2>1, <2>2 DEF Channel
  <1>. HIDE DEF t
  <1>5. /\ TypeOK' /\ PhaseInv' /\ LastInv' /\ OutcomeInv' /\ eng.thread = "run"
        /\ w'[e] = t /\ \A f \in Emitters : f # e => w'[f] = w[f]
    BY <1>1, <1>2, <1>3, <1>4, ThreadMoves DEF IInv, TypeOK
  <1>6. MadeInv'
    BY <1>1, <1>2, <1>5 DEF IInv, MadeInv, WAt
  <1>7. StreamInv'
    <2>1. AllSent' = AllSent
      <3>1. \A f \in Emitters : SentBy(f)' = SentBy(f)
        BY <1>1, <1>2, <1>5 DEF SentBy, WAt
      <3>. QED  BY <3>1 DEF AllSent
    <2>2. Delivery(c.seen, Append(ch.queue, Ready), AllSent)
      BY <1>5, SentFacts, WakeDelivers DEF IInv, StreamInv
    <2>. QED  BY <1>3, <1>4, <2>1, <2>2 DEF IInv, StreamInv
  <1>8. ProgressInv'
    BY <1>1, <1>2, <1>3, <1>4, <1>5, ProgressStays DEF IInv
  <1>. QED  BY <1>5, <1>6, <1>7, <1>8 DEF IInv

LEMMA SendKeeps == ASSUME IInv, NEW e \in Emitters, Send(e) PROVE IInv'
  <1>. DEFINE t == [w[e] EXCEPT !.pc = "run"]
              x == <<e, w[e].made>>
  <1>1. /\ w[e] \in Thread /\ w[e].pc = "send" /\ ch \in Channel /\ w[e].made \in Nat \ {0}
        /\ e \in Reporters /\ w[e].made <= MaxEvents /\ MaxEvents \in Nat
    BY OpAssumption DEF IInv, TypeOK, Send, WAt, MadeInv, Thread
  <1>2. t \in Thread /\ t.pc = "run" /\ t.snap = w[e].snap /\ t.made = w[e].made
    BY <1>1 DEF Thread, WPcs
  <1>3. /\ w' = [w EXCEPT ![e] = t] /\ UNCHANGED <<eng, c, cancel, budget>>
        /\ ch' = [ch EXCEPT !.queue = Append(ch.queue, x)]
    BY DEF Send, Set
  <1>4. ch'.latest = ch.latest /\ ch'.queue = Append(ch.queue, x) /\ ch' \in Channel
    <2>1. x \in Events
      BY <1>1 DEF Events
    <2>. HIDE DEF x
    <2>2. Append(ch.queue, x) \in Seq(Events \cup {Ready})
      BY <1>1, <2>1 DEF Channel
    <2>. QED  BY <1>1, <1>3, <2>2 DEF Channel
  <1>. HIDE DEF t
  <1>5. /\ TypeOK' /\ PhaseInv' /\ LastInv' /\ OutcomeInv' /\ eng.thread = "run"
        /\ w'[e] = t /\ \A f \in Emitters : f # e => w'[f] = w[f]
    BY <1>1, <1>2, <1>3, <1>4, ThreadMoves DEF IInv, TypeOK
  <1>6. MadeInv'
    BY <1>1, <1>2, <1>5 DEF IInv, MadeInv, WAt
  <1>7. StreamInv'
    <2>1. AllSent[e] = w[e].made - 1 /\ AllSent[e] + 1 = w[e].made
      BY <1>1 DEF AllSent, SentBy, WAt
    <2>2. AllSent' = [AllSent EXCEPT ![e] = AllSent[e] + 1]
      <3>1. SentBy(e)' = w[e].made /\ \A f \in Emitters : f # e => SentBy(f)' = SentBy(f)
        BY <1>2, <1>5 DEF SentBy, WAt
      <3>. QED  BY <2>1, <3>1 DEF AllSent
    <2>3. Delivery(c.seen, Append(ch.queue, x), AllSent')
      BY <1>5, <2>1, <2>2, SentFacts, SendDelivers DEF IInv, StreamInv
    <2>. QED  BY <1>3, <1>4, <2>3 DEF StreamInv
  <1>8. ProgressInv'
    BY <1>1, <1>2, <1>3, <1>4, <1>5, ProgressStays DEF IInv
  <1>. QED  BY <1>5, <1>6, <1>7, <1>8 DEF IInv

\* All threads are done when the operation returns, so what they sent stays.
LEMMA EngineMoves ==
    ASSUME IInv, eng.thread \in {"run", "dropped"}, eng'.thread \in {"dropped", "finished"},
           eng' \in Engine, eng'.prog = eng.prog, \A e \in Emitters : WAt(e, "done"),
           UNCHANGED <<w, ch, cancel, c, budget>>
    PROVE  IInv'
  <1>1. InOp
    BY DEF IInv, PhaseInv, TypeOK, Main, CPcs, InOp, At
  <1>2. TypeOK'
    BY DEF IInv, TypeOK
  <1>3. PhaseInv'
    BY <1>1 DEF IInv, PhaseInv, InOp, Giving, At, WAt
  <1>4. LastInv' /\ OutcomeInv'
    BY <1>1 DEF IInv, LastInv, OutcomeInv, ErrorKept, InOp, Giving, At
  <1>5. MadeInv' /\ ProgressInv'
    BY ProgressStays DEF IInv, MadeInv, WAt
  <1>6. StreamInv'
    BY StreamStays DEF IInv, SentBy, WAt
  <1>. QED  BY <1>2, <1>3, <1>4, <1>5, <1>6 DEF IInv

LEMMA ReturnKeeps == ASSUME IInv, Return PROVE IInv'
  <1>. DEFINE r == CASE cancel = 2 -> "cancelled"
                     [] cancel = 1 -> "failed"
                     [] OTHER -> "complete"
  <1>1. r \in {"complete", "failed", "cancelled"} /\ eng' = [eng EXCEPT !.thread = "dropped", !.result = r]
    <2>1. CASE cancel = 2
      BY <2>1 DEF Return
    <2>2. CASE cancel = 1
      BY <2>2 DEF Return
    <2>3. CASE cancel \notin {1, 2}
      BY <2>3 DEF Return
    <2>. QED  BY <2>1, <2>2, <2>3
  <1>. HIDE DEF r
  <1>2. eng' \in Engine /\ eng'.prog = eng.prog /\ eng'.thread = "dropped"
    BY <1>1 DEF IInv, TypeOK, Engine
  <1>. QED  BY <1>2, EngineMoves DEF Return

LEMMA ExitKeeps == ASSUME IInv, Exit PROVE IInv'
  <1>1. eng' \in Engine /\ eng'.prog = eng.prog /\ eng'.thread = "finished"
    BY DEF IInv, TypeOK, Exit, Engine
  <1>2. \A e \in Emitters : WAt(e, "done")
    BY DEF IInv, PhaseInv, Exit
  <1>. QED  BY <1>1, <1>2, EngineMoves DEF Exit
-----------------------------------------------------------------------------
(* The main thread.                                                        *)

Budget == [signals : Nat, out : 0 .. MaxOutFail, ops : 0 .. MaxOps]

\* A step of the main thread that handles no event.
LEMMA MainMoves ==
    ASSUME IInv, UNCHANGED <<w, eng>>, c'.seen = c.seen, ch'.queue = ch.queue
    PROVE  MadeInv' /\ StreamInv'
  <1>1. MadeInv'
    BY DEF IInv, MadeInv, WAt
  <1>2. StreamInv'
    BY StreamStays DEF IInv, SentBy, WAt
  <1>. QED  BY <1>1, <1>2

LEMMA CancelFacts ==
    ASSUME TypeOK
    PROVE  /\ CancelForOutput(cancel) \in 0 .. 2 /\ (CancelForOutput(cancel) = 2 <=> cancel = 2)
           /\ Polled \in 0 .. 2 /\ (Polled = 2 <=> cancel = 2 \/ Interrupted)
  BY DEF TypeOK, CancelForOutput, Polled

\* A write that fails is the first error or follows one.
LEMMA SpendOut ==
    ASSUME TypeOK, Spend("out")
    PROVE  /\ budget' \in Budget /\ c.fails + 1 <= MaxOutFail - budget'.out
           /\ c.fails \in Nat /\ c.fails + 1 \in 0 .. MaxOutFail
  <1>1. /\ budget \in Budget /\ budget.out \in 0 .. MaxOutFail /\ MaxOutFail \in Nat
        /\ c.fails \in 0 .. MaxOutFail /\ c.fails <= MaxOutFail - budget.out
    BY OpAssumption DEF TypeOK, Budget, Main
  <1>2. budget.out > 0 /\ budget' = [budget EXCEPT !.out = budget.out - 1]
    BY DEF Spend
  <1>3. budget.out - 1 \in 0 .. MaxOutFail
    BY <1>1, <1>2
  <1>4. budget' \in Budget /\ budget'.out = budget.out - 1
    BY <1>1, <1>2, <1>3 DEF Budget
  <1>. QED  BY <1>1, <1>2, <1>4

LEMMA RenderedKeeps ==
    ASSUME IInv, InOp, NEW next \in Main, Rendered(next), next.fails = c.fails, next.err = c.err,
           next.stored = c.stored, next.hit = c.hit
    PROVE  /\ c' \in Main /\ c'.fails <= MaxOutFail - budget'.out /\ budget' \in Budget
           /\ cancel' \in 0 .. 2 /\ (cancel' = 2 <=> c'.hit) /\ ErrorKept'
           /\ c'.pc = next.pc /\ c'.takes = next.takes /\ c'.back = next.back
           /\ c'.got = next.got /\ c'.seen = next.seen /\ c'.shown = next.shown
  <1>1. TypeOK /\ ErrorKept /\ (cancel = 2 <=> c.hit) /\ MaxOutFail \in Nat
    BY OpAssumption DEF IInv, OutcomeInv
  <1>2. CASE c' = next /\ UNCHANGED <<cancel, budget>>
    BY <1>1, <1>2 DEF TypeOK, Budget, ErrorKept
  <1>3. CASE /\ Spend("out") /\ cancel' = CancelForOutput(cancel)
             /\ c' = [next EXCEPT !.fails = @ + 1, !.stored = 0,
                                  !.err = First(@, First(c.stored, c.fails + 1))]
    <2>1. /\ budget' \in Budget /\ c.fails + 1 <= MaxOutFail - budget'.out
          /\ c.fails \in Nat /\ c.fails + 1 \in 0 .. MaxOutFail
      BY <1>1, <1>3, SpendOut
    <2>2. First(c.err, First(c.stored, c.fails + 1)) = 1
      BY <1>1, <2>1 DEF ErrorKept, First
    <2>3. c' = [next EXCEPT !.fails = c.fails + 1, !.stored = 0, !.err = 1]
      BY <1>3, <2>2 DEF Main
    <2>4. 1 \in 0 .. MaxOutFail /\ 0 \in 0 .. MaxOutFail
      BY <1>1, <2>1
    <2>5. c' \in Main /\ c'.fails = c.fails + 1 /\ c'.stored = 0 /\ c'.err = 1 /\ c'.hit = c.hit
      BY <2>1, <2>3, <2>4 DEF Main
    <2>6. ErrorKept'
      BY <2>1, <2>5 DEF ErrorKept
    <2>7. cancel' \in 0 .. 2 /\ (cancel' = 2 <=> c'.hit)
      BY <1>1, <1>3, <2>5, CancelFacts
    <2>8. /\ c'.pc = next.pc /\ c'.takes = next.takes /\ c'.back = next.back
          /\ c'.got = next.got /\ c'.seen = next.seen /\ c'.shown = next.shown
      BY <2>3 DEF Main
    <2>. QED  BY <2>1, <2>5, <2>6, <2>7, <2>8
  <1>. QED  BY <1>2, <1>3 DEF Rendered

\* A poll notes what signals are pending, wherever the main thread goes next.
LEMMA PollKeeps == ASSUME IInv, Poll PROVE IInv'
  <1>. DEFINE pc == IF eng.thread = "finished" THEN "drain" ELSE "recv"
              hit == c.hit \/ Interrupted
  <1>1. c \in Main /\ pc \in CPcs /\ hit \in BOOLEAN /\ InOp /\ At("poll")
    BY DEF IInv, TypeOK, Main, CPcs, Poll, InOp, At, Interrupted
  <1>2. c' = [c EXCEPT !.hit = hit, !.pc = pc] /\ UNCHANGED <<w, eng, ch, budget>> /\ cancel' = Polled
    BY DEF Poll
  <1>3. pc \in {"drain", "recv"} /\ (pc = "drain" => eng.thread = "finished")
    OBVIOUS
  <1>. HIDE DEF pc, hit
  <1>4. /\ c' \in Main /\ c'.pc = pc /\ c'.hit = hit /\ c'.got = c.got /\ c'.shown = c.shown
        /\ c'.seen = c.seen /\ c'.fails = c.fails /\ c'.err = c.err /\ c'.stored = c.stored
    BY <1>1, <1>2 DEF Main
  <1>5. TypeOK'
    BY <1>2, <1>4, CancelFacts DEF IInv, TypeOK
  <1>6. PhaseInv'
    BY <1>1, <1>2, <1>3, <1>4 DEF IInv, PhaseInv, InOp, Giving, At, WAt
  <1>7. LastInv'
    BY <1>1, <1>2, <1>3, <1>4 DEF IInv, LastInv, Giving, At
  <1>8. MadeInv' /\ StreamInv' /\ ProgressInv'
    BY <1>2, <1>4, MainMoves, ProgressStays DEF IInv
  <1>9. OutcomeInv'
    BY <1>1, <1>2, <1>3, <1>4, CancelFacts DEF IInv, OutcomeInv, ErrorKept, InOp, At, hit
  <1>. QED  BY <1>5, <1>6, <1>7, <1>8, <1>9 DEF IInv

LEMMA WatchdogKeeps == ASSUME IInv, WatchdogFails PROVE IInv'
  <1>1. /\ c \in Main /\ TypeOK /\ InOp /\ At("recv") /\ ErrorKept /\ (cancel = 2 <=> c.hit)
        /\ UNCHANGED <<w, eng, ch>> /\ cancel' = CancelForOutput(cancel)
        /\ MaxOutFail \in Nat /\ Spend("out") /\ c.stored \in 0 .. MaxOutFail
    BY OpAssumption DEF IInv, TypeOK, Main, WatchdogFails, InOp, At, OutcomeInv
  <1>2. /\ budget' \in Budget /\ c.fails + 1 <= MaxOutFail - budget'.out
        /\ c.fails \in Nat /\ c.fails + 1 \in 0 .. MaxOutFail
    BY <1>1, SpendOut
  <1>. DEFINE kept == First(c.stored, c.fails + 1)
  <1>3. kept \in 0 .. MaxOutFail /\ (c.err = 0 => kept = 1)
    BY <1>1, <1>2 DEF First, ErrorKept
  <1>4. c' = [c EXCEPT !.fails = c.fails + 1, !.stored = kept]
    BY DEF WatchdogFails
  <1>. HIDE DEF kept
  <1>5. /\ c' \in Main /\ c'.pc = "recv" /\ c'.fails = c.fails + 1 /\ c'.stored = kept
        /\ c'.err = c.err /\ c'.hit = c.hit /\ c'.got = c.got /\ c'.shown = c.shown /\ c'.seen = c.seen
    BY <1>1, <1>2, <1>3, <1>4 DEF Main, At
  <1>6. TypeOK'
    BY <1>1, <1>2, <1>5, CancelFacts DEF TypeOK, Budget
  <1>7. PhaseInv'
    BY <1>1, <1>5 DEF IInv, PhaseInv, InOp, Giving, At, WAt
  <1>8. LastInv'
    BY <1>1, <1>5 DEF IInv, LastInv, Giving, At
  <1>9. MadeInv' /\ StreamInv' /\ ProgressInv'
    BY <1>1, <1>5, MainMoves, ProgressStays DEF IInv
  <1>10. ErrorKept'
    BY <1>1, <1>2, <1>3, <1>5 DEF ErrorKept
  <1>11. OutcomeInv'
    BY <1>1, <1>5, <1>10, CancelFacts DEF OutcomeInv, InOp, At
  <1>. QED  BY <1>6, <1>7, <1>8, <1>9, <1>11 DEF IInv

\* An event leaves the queue and is rendered, though the write may fail; a wake-up
\* leaves it and the latest progress is looked at twice.
LEMMA HandleKeeps ==
    ASSUME IInv, NEW back \in {"poll", "drain"}, c.pc \in {"recv", "drain"}, ch.queue # <<>>,
           back = "drain" => eng.thread = "finished", ch' = [ch EXCEPT !.queue = Tail(ch.queue)],
           Handle(Head(ch.queue), back), UNCHANGED <<w, eng>>
    PROVE  IInv'
  <1>. DEFINE x == Head(ch.queue)
  <1>1. /\ c \in Main /\ ch \in Channel /\ TypeOK /\ MadeInv /\ InOp /\ c.got = 0
        /\ Delivery(c.seen, ch.queue, AllSent) /\ c.seen \in Seq(Events)
        /\ ErrorKept /\ (cancel = 2 <=> c.hit) /\ back \in CPcs /\ "take" \in CPcs
        /\ budget \in Budget /\ c.fails <= MaxOutFail - budget.out /\ 1 \in 0 .. 2 /\ 2 \in 0 .. 2
    BY DEF IInv, TypeOK, Main, InOp, OutcomeInv, StreamInv, PhaseInv, LastInv, At, CPcs, Budget
  <1>2. Tail(ch.queue) \in Seq(Events \cup {Ready}) /\ x \in Events \cup {Ready}
    BY <1>1, TailFacts DEF Channel
  <1>3. ch' \in Channel /\ ch'.queue = Tail(ch.queue) /\ ch'.latest = ch.latest
    BY <1>1, <1>2 DEF Channel
  <1>. HIDE DEF x
  <1>4. /\ c' \in Main /\ c'.fails <= MaxOutFail - budget'.out /\ budget' \in Budget
        /\ cancel' \in 0 .. 2 /\ (cancel' = 2 <=> c'.hit) /\ ErrorKept'
        /\ c'.pc = "take" /\ c'.takes > 0 /\ c'.back = back /\ c'.got = 0 /\ c'.shown = c.shown
        /\ c'.seen = IF x = Ready THEN c.seen ELSE Append(c.seen, x)
    <2>1. CASE x = Ready
      <3>1. c' = [c EXCEPT !.pc = "take", !.back = back, !.takes = 2] /\ UNCHANGED <<cancel, budget>>
        BY <2>1 DEF Handle, x
      <3>2. /\ c' \in Main /\ c'.pc = "take" /\ c'.takes = 2 /\ c'.back = back /\ c'.got = c.got
            /\ c'.shown = c.shown /\ c'.seen = c.seen /\ c'.hit = c.hit
            /\ c'.fails = c.fails /\ c'.err = c.err /\ c'.stored = c.stored
        <4>1. c' \in Main
          BY <1>1, <3>1 DEF Main
        <4>. QED  BY <1>1, <3>1, <4>1 DEF Main
      <3>. QED  BY <1>1, <2>1, <3>1, <3>2 DEF ErrorKept, TypeOK
    <2>2. CASE x # Ready
      <3>. DEFINE seen == Append(c.seen, x)
                  next == [c EXCEPT !.pc = "take", !.back = back, !.takes = 1, !.seen = seen]
      <3>1. seen \in Seq(Events)
        BY <1>1, <1>2, <2>2
      <3>2. Rendered(next)
        BY <2>2 DEF Handle, x
      <3>. HIDE DEF seen
      <3>3. /\ next \in Main /\ next.pc = "take" /\ next.takes = 1 /\ next.back = back
            /\ next.got = c.got /\ next.shown = c.shown /\ next.seen = seen /\ next.hit = c.hit
            /\ next.fails = c.fails /\ next.err = c.err /\ next.stored = c.stored
        <4>1. next \in Main
          BY <1>1, <3>1 DEF Main
        <4>. QED  BY <1>1, <3>1, <4>1 DEF Main
      <3>. HIDE DEF next
      <3>4. /\ c' \in Main /\ c'.fails <= MaxOutFail - budget'.out /\ budget' \in Budget
            /\ cancel' \in 0 .. 2 /\ (cancel' = 2 <=> c'.hit) /\ ErrorKept'
            /\ c'.pc = next.pc /\ c'.takes = next.takes /\ c'.back = next.back
            /\ c'.got = next.got /\ c'.seen = next.seen /\ c'.shown = next.shown
        BY <1>1, <3>2, <3>3, RenderedKeeps
      <3>. QED  BY <1>1, <2>2, <3>3, <3>4 DEF seen
    <2>. QED  BY <2>1, <2>2
  <1>5. TypeOK'
    BY <1>1, <1>3, <1>4 DEF TypeOK, Budget
  <1>6. PhaseInv'
    BY <1>1, <1>4 DEF IInv, PhaseInv, InOp, Giving, At, WAt
  <1>7. LastInv'
    BY <1>4 DEF LastInv, Giving, At
  <1>8. MadeInv'
    BY <1>1 DEF MadeInv, WAt
  <1>9. ProgressInv'
    BY <1>1, <1>3, <1>4, ProgressStays DEF IInv
  <1>10. StreamInv'
    <2>1. AllSent' = AllSent
      BY DEF AllSent, SentBy, WAt
    <2>2. /\ AllSent \in [Emitters -> Nat] /\ c.seen \in Seq(Event)
          /\ ch.queue \in Seq(Event \cup {Ready})
      BY <1>1, SentFacts
    <2>3. Delivery(c'.seen, ch'.queue, AllSent)
      <3>1. CASE x = Ready
        BY <1>1, <1>3, <1>4, <2>2, <3>1, WokenDelivers DEF x
      <3>2. CASE x # Ready
        BY <1>1, <1>3, <1>4, <2>2, <3>2, ShowDelivers DEF x
      <3>. QED  BY <3>1, <3>2
    <2>. QED  BY <2>1, <2>3 DEF StreamInv
  <1>11. OutcomeInv'
    BY <1>4 DEF OutcomeInv, InOp, At
  <1>. QED  BY <1>5, <1>6, <1>7, <1>8, <1>9, <1>10, <1>11 DEF IInv

LEMMA RecvKeeps == ASSUME IInv, Recv PROVE IInv'
  BY HandleKeeps DEF Recv, At

\* A step of the main thread that renders nothing and counts no error.
LEMMA QuietMove ==
    ASSUME IInv, InOp, c' \in Main, UNCHANGED <<w, eng, budget>>, ch' \in Channel,
           ch'.queue = ch.queue, cancel' \in 0 .. 2, cancel' = 2 <=> c'.hit, c'.seen = c.seen,
           c'.fails = c.fails, c'.err = c.err, c'.stored = c.stored, c'.pc # "line"
    PROVE  TypeOK' /\ MadeInv' /\ StreamInv' /\ OutcomeInv'
  <1>1. TypeOK'
    BY DEF IInv, TypeOK
  <1>2. OutcomeInv'
    BY DEF IInv, OutcomeInv, ErrorKept, At, InOp
  <1>. QED  BY <1>1, <1>2, MainMoves

LEMMA TimeoutKeeps == ASSUME IInv, Timeout PROVE IInv'
  <1>. DEFINE hit == c.hit \/ Interrupted
  <1>1. /\ c \in Main /\ hit \in BOOLEAN /\ InOp /\ c.pc = "recv" /\ 1 \in 0 .. 2
        /\ {"take", "replay"} \subseteq CPcs /\ c.got = 0 /\ (cancel = 2 <=> c.hit)
        /\ ch \in Channel /\ TypeOK
    BY DEF IInv, TypeOK, Main, CPcs, Timeout, InOp, At, Interrupted, LastInv, OutcomeInv
  <1>2. /\ c' = [c EXCEPT !.hit = hit, !.pc = "take", !.takes = 1, !.back = "replay"]
        /\ UNCHANGED <<w, eng, ch, budget>> /\ cancel' = Polled
    BY DEF Timeout
  <1>3. cancel' \in 0 .. 2 /\ (cancel' = 2 <=> hit)
    BY <1>1, <1>2, CancelFacts
  <1>. HIDE DEF hit
  <1>4. c' \in Main
    BY <1>1, <1>2 DEF Main
  <1>5. /\ c'.pc = "take" /\ c'.takes = 1 /\ c'.back = "replay" /\ c'.hit = hit /\ c'.got = 0
        /\ c'.shown = c.shown /\ c'.seen = c.seen /\ c'.fails = c.fails /\ c'.err = c.err
        /\ c'.stored = c.stored
    BY <1>1, <1>2 DEF Main
  <1>6. TypeOK' /\ MadeInv' /\ StreamInv' /\ OutcomeInv'
    BY <1>1, <1>2, <1>3, <1>4, <1>5, QuietMove
  <1>7. PhaseInv'
    BY <1>1, <1>2, <1>5 DEF IInv, PhaseInv, InOp, Giving, At, WAt
  <1>8. LastInv'
    BY <1>5 DEF LastInv, Giving, At
  <1>9. ProgressInv'
    BY <1>1, <1>2, <1>5, ProgressStays DEF IInv
  <1>. QED  BY <1>6, <1>7, <1>8, <1>9 DEF IInv

\* Steps that only move the main thread to another of its points.
LEMMA PcMoves ==
    ASSUME IInv, InOp, ~At("give"), NEW pc \in {"replay", "poll"}, c' = [c EXCEPT !.pc = pc],
           UNCHANGED <<w, eng, ch, cancel, budget>>
    PROVE  IInv'
  <1>1. c \in Main /\ pc \in CPcs /\ ch \in Channel /\ cancel \in 0 .. 2 /\ (cancel = 2 <=> c.hit)
    BY DEF IInv, TypeOK, CPcs, OutcomeInv
  <1>2. c' \in Main
    BY <1>1 DEF Main
  <1>3. /\ c'.pc = pc /\ c'.got = c.got /\ c'.hit = c.hit /\ c'.shown = c.shown
        /\ c'.seen = c.seen /\ c'.fails = c.fails /\ c'.err = c.err /\ c'.stored = c.stored
    BY <1>1 DEF Main
  <1>4. TypeOK' /\ MadeInv' /\ StreamInv' /\ OutcomeInv'
    BY <1>1, <1>2, <1>3, QuietMove
  <1>5. PhaseInv' /\ LastInv'
    BY <1>3 DEF IInv, PhaseInv, LastInv, InOp, Giving, At, WAt
  <1>6. ProgressInv'
    BY <1>3, ProgressStays DEF IInv
  <1>. QED  BY <1>4, <1>5, <1>6 DEF IInv

LEMMA DisconnectedKeeps == ASSUME IInv, Disconnected PROVE IInv'
  BY PcMoves DEF Disconnected, InOp, At

\* The bounds of the progress, as numbers.
LEMMA ProgressFacts ==
    ASSUME IInv, InOp
    PROVE  /\ eng.prog \in Nat /\ c.shown \in Nat /\ c.got \in Nat /\ ch.latest \in Nat
           /\ c.shown <= eng.prog /\ c.got <= eng.prog /\ ch.latest <= eng.prog
           /\ \/ eng.prog \in {c.shown, c.got, ch.latest}
              \/ \E e \in Emitters : eng.prog = w[e].snap
           /\ \A e \in Emitters : w[e].snap <= eng.prog /\ (w[e].snap # 0 => WAt(e, "merge"))
  <1>1. eng.prog \in Nat /\ c.shown \in Nat /\ c.got \in Nat /\ ch.latest \in Nat
    BY OpAssumption DEF IInv, TypeOK, Engine, Main, Channel
  <1>. QED  BY <1>1 DEF IInv, PhaseInv, ProgressInv

\* The progress moves between the screen, the hand and the cell.
LEMMA ProgressMoves ==
    ASSUME IInv, InOp, UNCHANGED <<w, eng>>, c'.shown <= eng.prog, c'.got <= eng.prog,
           ch'.latest <= eng.prog, c'.shown \in Nat,
           eng.prog \in {c.shown, c.got, ch.latest} =>
               eng.prog = 0 \/ eng.prog \in {c'.shown, c'.got, ch'.latest}
    PROVE  ProgressInv'
  <1>1. eng.prog = 0 => eng.prog = c'.shown
    OBVIOUS
  <1>2. /\ \/ eng.prog \in {c'.shown, c'.got, ch'.latest}
           \/ \E e \in Emitters : eng.prog = w[e].snap
        /\ \A e \in Emitters : w[e].snap <= eng.prog /\ (w[e].snap # 0 => WAt(e, "merge"))
    BY <1>1, ProgressFacts
  <1>. QED  BY <1>2 DEF ProgressInv, WAt

LEMMA TakeKeeps == ASSUME IInv, Take PROVE IInv'
  <1>1. /\ c \in Main /\ ch \in Channel /\ InOp /\ c.pc = "take" /\ "give" \in CPcs /\ c.got = 0
        /\ cancel \in 0 .. 2 /\ (cancel = 2 <=> c.hit) /\ c.takes - 1 \in 0 .. 2
        /\ ch.latest \in 0 .. MaxWork /\ 0 \in 0 .. MaxWork
        /\ UNCHANGED <<w, eng, cancel, budget>>
    BY OpAssumption DEF IInv, TypeOK, Main, CPcs, Take, InOp, At, LastInv, PhaseInv, OutcomeInv,
       Channel
  <1>2. /\ c' = [c EXCEPT !.pc = "give", !.takes = c.takes - 1, !.got = ch.latest]
        /\ ch' = [ch EXCEPT !.latest = 0]
    BY <1>1 DEF Take, Main
  <1>3. c' \in Main
    BY <1>1, <1>2 DEF Main
  <1>4. /\ c'.pc = "give" /\ c'.takes = c.takes - 1 /\ c'.got = ch.latest /\ c'.back = c.back
        /\ c'.hit = c.hit /\ c'.shown = c.shown /\ c'.seen = c.seen /\ c'.fails = c.fails
        /\ c'.err = c.err /\ c'.stored = c.stored
    BY <1>1, <1>2 DEF Main
  <1>5. ch' \in Channel /\ ch'.queue = ch.queue /\ ch'.latest = 0
    BY <1>1, <1>2 DEF Channel
  <1>6. TypeOK' /\ MadeInv' /\ StreamInv' /\ OutcomeInv'
    BY <1>1, <1>3, <1>4, <1>5, QuietMove
  <1>7. PhaseInv'
    BY <1>1, <1>4 DEF IInv, PhaseInv, InOp, Giving, At, WAt
  <1>8. LastInv'
    BY <1>1, <1>4, <1>5 DEF IInv, LastInv, Giving, At
  <1>9. ProgressInv'
    BY <1>1, <1>4, <1>5, ProgressFacts, ProgressMoves
  <1>. QED  BY <1>6, <1>7, <1>8, <1>9 DEF IInv

\* What was taken is shown unless the write fails, and counts as shown either way.
LEMMA GiveKeeps == ASSUME IInv, Give PROVE IInv'
  <1>. DEFINE again == [c EXCEPT !.pc = "take", !.got = 0]
              on == [c EXCEPT !.pc = c.back, !.back = "poll", !.got = 0]
              idle == IF c.takes > 0 THEN again ELSE on
              shown == Bigger(c.shown, c.got)
  <1>1. /\ c \in Main /\ ch \in Channel /\ InOp /\ c.pc = "give" /\ {"take", "poll"} \subseteq CPcs
        /\ cancel \in 0 .. 2 /\ (cancel = 2 <=> c.hit) /\ 0 \in 0 .. MaxWork
        /\ shown \in 0 .. MaxWork /\ ErrorKept /\ c.fails <= MaxOutFail - budget.out
        /\ budget \in Budget /\ c.back \in {"poll", "replay", "drain", "join"}
        /\ c.takes \in 0 .. 2 /\ UNCHANGED <<w, eng>>
    BY OpAssumption DEF IInv, TypeOK, Main, CPcs, Give, InOp, At, Giving, PhaseInv, OutcomeInv,
       Bigger, Budget
  <1>2. ch' = [ch EXCEPT !.pending = FALSE]
    BY DEF Give
  <1>3. ch' \in Channel /\ ch'.queue = ch.queue /\ ch'.latest = ch.latest
    BY <1>1, <1>2 DEF Channel
  <1>4. /\ idle \in Main /\ idle.got = 0 /\ idle.seen = c.seen /\ idle.shown = c.shown
        /\ idle.hit = c.hit /\ idle.fails = c.fails /\ idle.err = c.err /\ idle.stored = c.stored
        /\ IF c.takes > 0 THEN idle.pc = "take" /\ idle.takes = c.takes /\ idle.back = c.back
                          ELSE idle.pc = c.back /\ idle.back = "poll"
    <2>1. again \in Main /\ on \in Main
      BY <1>1 DEF Main
    <2>. QED  BY <1>1, <2>1 DEF Main
  <1>. DEFINE next == [idle EXCEPT !.shown = shown]
  <1>5. IF c.got = 0 THEN c' = idle /\ UNCHANGED <<cancel, budget>>
        ELSE Rendered(next)
    <2>1. next = [idle EXCEPT !.shown = Bigger(@, c.got)]
      BY <1>4 DEF Main
    <2>. QED  BY <2>1 DEF Give
  <1>. HIDE DEF idle, shown
  <1>6. /\ next \in Main /\ next.got = 0 /\ next.seen = c.seen /\ next.shown = shown
        /\ next.hit = c.hit /\ next.fails = c.fails /\ next.err = c.err /\ next.stored = c.stored
        /\ next.pc = idle.pc /\ next.takes = idle.takes /\ next.back = idle.back
    BY <1>1, <1>4 DEF Main
  <1>. HIDE DEF next
  <1>7. /\ c' \in Main /\ c'.fails <= MaxOutFail - budget'.out /\ budget' \in Budget
        /\ cancel' \in 0 .. 2 /\ (cancel' = 2 <=> c'.hit) /\ ErrorKept'
        /\ c'.pc = idle.pc /\ c'.takes = idle.takes /\ c'.back = idle.back
        /\ c'.got = 0 /\ c'.seen = c.seen
        /\ c'.shown = IF c.got = 0 THEN c.shown ELSE shown
    <2>1. CASE c.got = 0
      BY <1>1, <1>4, <1>5, <2>1 DEF ErrorKept
    <2>2. CASE c.got # 0
      <3>1. Rendered(next)
        BY <1>5, <2>2
      <3>2. /\ c' \in Main /\ c'.fails <= MaxOutFail - budget'.out /\ budget' \in Budget
            /\ cancel' \in 0 .. 2 /\ (cancel' = 2 <=> c'.hit) /\ ErrorKept'
            /\ c'.pc = next.pc /\ c'.takes = next.takes /\ c'.back = next.back
            /\ c'.got = next.got /\ c'.seen = next.seen /\ c'.shown = next.shown
        BY <1>1, <1>6, <3>1, RenderedKeeps
      <3>. QED  BY <1>6, <2>2, <3>2
    <2>. QED  BY <2>1, <2>2
  <1>8. TypeOK'
    BY <1>1, <1>3, <1>7 DEF IInv, TypeOK, Budget
  <1>9. PhaseInv'
    BY <1>1, <1>4, <1>7 DEF IInv, PhaseInv, InOp, Giving, At, WAt
  <1>10. LastInv'
    BY <1>1, <1>3, <1>4, <1>7 DEF IInv, LastInv, Giving, At
  <1>11. MadeInv' /\ StreamInv'
    BY <1>1, <1>3, <1>7, MainMoves
  <1>12. ProgressInv'
    <2>1. c'.shown <= eng.prog /\ c'.shown \in Nat
      BY <1>1, <1>7, ProgressFacts DEF shown, Bigger
    <2>2. eng.prog \in {c.shown, c.got, ch.latest} =>
            eng.prog = 0 \/ eng.prog \in {c'.shown, c'.got, ch'.latest}
      BY <1>1, <1>3, <1>7, ProgressFacts DEF shown, Bigger
    <2>. QED  BY <1>1, <1>3, <1>7, <2>1, <2>2, ProgressFacts, ProgressMoves
  <1>13. OutcomeInv'
    BY <1>1, <1>4, <1>7 DEF OutcomeInv, InOp, At
  <1>. QED  BY <1>8, <1>9, <1>10, <1>11, <1>12, <1>13 DEF IInv

LEMMA ReplayKeeps == ASSUME IInv, Replay PROVE IInv'
  <1>. DEFINE next == [c EXCEPT !.pc = "poll"]
  <1>1. /\ c \in Main /\ ch \in Channel /\ InOp /\ c.pc = "replay" /\ "poll" \in CPcs /\ c.got = 0
        /\ UNCHANGED <<w, eng, ch>>
    BY DEF IInv, TypeOK, CPcs, Replay, InOp, At, LastInv
  <1>2. CASE c' = next /\ UNCHANGED <<cancel, budget>>
    BY <1>1, <1>2, PcMoves DEF At
  <1>3. CASE Rendered(next)
    <2>1. next \in Main
      BY <1>1 DEF Main
    <2>2. /\ next.pc = "poll" /\ next.got = 0 /\ next.seen = c.seen /\ next.shown = c.shown
          /\ next.hit = c.hit /\ next.fails = c.fails /\ next.err = c.err /\ next.stored = c.stored
      BY <1>1 DEF Main
    <2>. HIDE DEF next
    <2>3. /\ c' \in Main /\ c'.fails <= MaxOutFail - budget'.out /\ budget' \in Budget
          /\ cancel' \in 0 .. 2 /\ (cancel' = 2 <=> c'.hit) /\ ErrorKept'
          /\ c'.pc = "poll" /\ c'.got = 0 /\ c'.seen = c.seen /\ c'.shown = c.shown
      BY <1>1, <1>3, <2>1, <2>2, RenderedKeeps
    <2>4. TypeOK'
      BY <1>1, <2>3 DEF IInv, TypeOK, Budget
    <2>5. PhaseInv' /\ LastInv'
      BY <1>1, <2>3 DEF IInv, PhaseInv, LastInv, InOp, Giving, At, WAt
    <2>6. MadeInv' /\ StreamInv' /\ ProgressInv'
      BY <1>1, <2>3, MainMoves, ProgressStays DEF IInv
    <2>7. OutcomeInv'
      BY <2>3 DEF OutcomeInv, InOp, At
    <2>. QED  BY <2>4, <2>5, <2>6, <2>7 DEF IInv
  <1>. QED  BY <1>2, <1>3 DEF Replay

LEMMA DrainKeeps == ASSUME IInv, Drain PROVE IInv'
  <1>1. /\ c \in Main /\ ch \in Channel /\ InOp /\ c.pc = "drain" /\ c.got = 0 /\ 1 \in 0 .. 2
        /\ {"take", "join"} \subseteq CPcs /\ eng.thread = "finished" /\ UNCHANGED <<w, eng>>
        /\ cancel \in 0 .. 2 /\ (cancel = 2 <=> c.hit)
    BY DEF IInv, TypeOK, CPcs, Drain, InOp, At, LastInv, PhaseInv, OutcomeInv
  <1>2. CASE ch.queue # <<>>
    BY <1>1, <1>2, HandleKeeps DEF Drain
  <1>3. CASE ch.queue = <<>>
    <2>1. /\ c' = [c EXCEPT !.pc = "take", !.takes = 1, !.back = "join"]
          /\ UNCHANGED <<ch, cancel, budget>>
      BY <1>3 DEF Drain
    <2>2. c' \in Main
      BY <1>1, <2>1 DEF Main
    <2>3. /\ c'.pc = "take" /\ c'.takes = 1 /\ c'.back = "join" /\ c'.got = 0 /\ c'.hit = c.hit
          /\ c'.shown = c.shown /\ c'.seen = c.seen /\ c'.fails = c.fails /\ c'.err = c.err
          /\ c'.stored = c.stored
      BY <1>1, <2>1 DEF Main
    <2>4. TypeOK' /\ MadeInv' /\ StreamInv' /\ OutcomeInv'
      BY <1>1, <2>1, <2>2, <2>3, QuietMove
    <2>5. PhaseInv'
      BY <1>1, <2>3 DEF IInv, PhaseInv, InOp, Giving, At, WAt
    <2>6. LastInv'
      BY <1>3, <2>1, <2>3 DEF LastInv, Giving, At
    <2>7. ProgressInv'
      BY <1>1, <2>1, <2>3, ProgressStays DEF IInv
    <2>. QED  BY <2>4, <2>5, <2>6, <2>7 DEF IInv
  <1>. QED  BY <1>2, <1>3

LEMMA DrainPollKeeps == ASSUME IInv, DrainPoll PROVE IInv'
  <1>1. /\ c \in Main /\ ch \in Channel /\ InOp /\ c.pc = "drain" /\ c.got = 0 /\ TypeOK
        /\ c' = [c EXCEPT !.hit = TRUE] /\ UNCHANGED <<w, eng, ch, budget>> /\ cancel' = Polled
        /\ Interrupted
    BY DEF IInv, TypeOK, DrainPoll, InOp, At, LastInv
  <1>2. c' \in Main
    BY <1>1 DEF Main
  <1>3. /\ c'.pc = "drain" /\ c'.hit = TRUE /\ c'.got = 0
        /\ c'.shown = c.shown /\ c'.seen = c.seen /\ c'.fails = c.fails /\ c'.err = c.err
        /\ c'.stored = c.stored
    BY <1>1 DEF Main
  <1>4. cancel' \in 0 .. 2 /\ (cancel' = 2 <=> c'.hit)
    BY <1>1, <1>3, CancelFacts
  <1>5. TypeOK' /\ MadeInv' /\ StreamInv' /\ OutcomeInv'
    BY <1>1, <1>2, <1>3, <1>4, QuietMove
  <1>6. PhaseInv' /\ LastInv'
    BY <1>1, <1>3 DEF IInv, PhaseInv, LastInv, InOp, Giving, At, WAt
  <1>7. ProgressInv'
    BY <1>1, <1>3, ProgressStays DEF IInv
  <1>. QED  BY <1>5, <1>6, <1>7 DEF IInv

\* The user's cancellation, then the first error, then the operation's own result
\* decide the status.
LEMMA ResultKeeps == ASSUME IInv, Result PROVE IInv'
  <1>1. PICK fails \in {c.fails, c.fails + 1} :
          LET failed == fails > c.fails
              err == First(c.err, First(c.stored, IF failed THEN fails ELSE 0))
              status == CASE cancel = 2 -> "cancelled"
                          [] cancel # 2 /\ (err # 0 \/ eng.result # "complete") -> "failure"
                          [] OTHER -> "success"
          IN  /\ At("join")
              /\ failed => budget.out > 0
              /\ budget' = [budget EXCEPT !.out = IF failed THEN @ - 1 ELSE @]
              /\ cancel' = IF failed THEN CancelForOutput(cancel) ELSE cancel
              /\ c' = [c EXCEPT !.pc = "line", !.err = err, !.status = status, !.fails = fails,
                                !.todo = IF status = "cancelled" THEN 0 ELSE @]
              /\ UNCHANGED <<w, eng, ch, sig>>
    BY DEF Result
  <1>. DEFINE failed == fails > c.fails
              err == First(c.err, First(c.stored, IF failed THEN fails ELSE 0))
              status == CASE cancel = 2 -> "cancelled"
                          [] cancel # 2 /\ (err # 0 \/ eng.result # "complete") -> "failure"
                          [] OTHER -> "success"
              todo == IF status = "cancelled" THEN 0 ELSE c.todo
              out == IF failed THEN budget.out - 1 ELSE budget.out
  <1>2. /\ c \in Main /\ c.pc = "join" /\ InOp /\ ErrorKept /\ (cancel = 2 <=> c.hit)
        /\ budget \in Budget /\ c.fails <= MaxOutFail - budget.out /\ budget.out \in 0 .. MaxOutFail
        /\ c.fails \in 0 .. MaxOutFail /\ c.err \in 0 .. MaxOutFail /\ c.stored \in 0 .. MaxOutFail
        /\ MaxOutFail \in Nat /\ eng.thread = "finished" /\ c.got = 0 /\ UNCHANGED <<w, eng, ch>>
        /\ c.todo \in 0 .. MaxOps /\ 0 \in 0 .. MaxOps /\ cancel \in 0 .. 2
    BY <1>1, OpAssumption DEF IInv, TypeOK, Main, InOp, At, OutcomeInv, PhaseInv, LastInv, Budget
  <1>3. failed => budget.out > 0 /\ fails = c.fails + 1
    BY <1>1, <1>2
  <1>4. ~failed => fails = c.fails
    BY <1>1, <1>2
  <1>5. fails \in 0 .. MaxOutFail /\ out \in 0 .. MaxOutFail /\ fails <= MaxOutFail - out
    BY <1>2, <1>3, <1>4
  <1>6. err \in 0 .. MaxOutFail /\ (fails > 0 => err = 1) /\ (err = 0 => fails = 0)
    <2>1. CASE failed
      BY <1>2, <1>3, <1>5, <2>1 DEF First, ErrorKept
    <2>2. CASE ~failed
      BY <1>2, <1>4, <1>5, <2>2 DEF First, ErrorKept
    <2>. QED  BY <2>1, <2>2
  <1>7. /\ c' = [c EXCEPT !.pc = "line", !.err = err, !.status = status, !.fails = fails, !.todo = todo]
        /\ budget' = [budget EXCEPT !.out = out]
        /\ cancel' = IF failed THEN CancelForOutput(cancel) ELSE cancel
    <2>1. budget' = [budget EXCEPT !.out = IF failed THEN @ - 1 ELSE @]
      BY <1>1
    <2>2. c' = [c EXCEPT !.pc = "line", !.err = err, !.status = status, !.fails = fails,
                         !.todo = IF status = "cancelled" THEN 0 ELSE @]
      BY <1>1
    <2>3. cancel' = IF failed THEN CancelForOutput(cancel) ELSE cancel
      BY <1>1
    <2>. HIDE DEF failed, err, status
    <2>. QED  BY <1>2, <2>1, <2>2, <2>3 DEF Main, Budget
  <1>8. /\ status = "cancelled" <=> cancel = 2
        /\ status = "success" => err = 0 /\ eng.result = "complete"
        /\ status \in {"cancelled", "failure", "success"}
    <2>. HIDE DEF err, failed
    <2>1. CASE cancel = 2
      BY <2>1
    <2>2. CASE cancel # 2 /\ (err # 0 \/ eng.result # "complete")
      BY <2>2
    <2>3. CASE cancel # 2 /\ err = 0 /\ eng.result = "complete"
      BY <2>3
    <2>. QED  BY <2>1, <2>2, <2>3
  <1>. HIDE DEF failed, err, status
  <1>9. todo \in 0 .. MaxOps /\ (status = "cancelled" => todo = 0)
    BY <1>2
  <1>. HIDE DEF todo, out
  <1>10. c' \in Main
    BY <1>2, <1>5, <1>6, <1>7, <1>8, <1>9 DEF Main, CPcs
  <1>11. /\ c'.pc = "line" /\ c'.err = err /\ c'.status = status /\ c'.fails = fails /\ c'.todo = todo
         /\ c'.hit = c.hit /\ c'.got = 0 /\ c'.shown = c.shown /\ c'.seen = c.seen
    BY <1>2, <1>7 DEF Main
  <1>12. budget' \in Budget /\ budget'.out = out
    BY <1>2, <1>5, <1>7 DEF Budget
  <1>13. TypeOK'
    BY <1>2, <1>5, <1>7, <1>10, <1>11, <1>12, CancelFacts DEF IInv, TypeOK, Budget
  <1>14. PhaseInv' /\ LastInv'
    BY <1>2, <1>8, <1>11 DEF IInv, PhaseInv, LastInv, InOp, Giving, At, WAt
  <1>15. MadeInv' /\ StreamInv' /\ ProgressInv'
    BY <1>2, <1>11, MainMoves, ProgressStays DEF IInv
  <1>16. OutcomeInv'
    BY <1>2, <1>6, <1>8, <1>9, <1>11 DEF OutcomeInv, InOp, At
  <1>. QED  BY <1>13, <1>14, <1>15, <1>16 DEF IInv
-----------------------------------------------------------------------------
(* The interactive loop.                                                   *)

LEMMA AtTopFacts ==
    /\ AtTop \in Main /\ AtTop.pc = "top" /\ AtTop.got = 0 /\ AtTop.status = "none" /\ AtTop.fails = 0
    /\ AtTop.seen = <<>> /\ AtTop.shown = 0 /\ AtTop.err = 0 /\ AtTop.stored = 0 /\ AtTop.hit = FALSE
  BY OpAssumption DEF AtTop, Main, CPcs

\* Between two operations nothing is known of the last.
LEMMA IdleMove ==
    ASSUME IInv, eng.thread = "off", c' \in Main, c'.got = 0, c'.fails <= MaxOutFail - budget.out,
           c'.pc \in {"top", "prompt", "line", "exited"},
           c'.pc \in {"prompt", "line"} => c'.status = "none",
           UNCHANGED <<w, eng, ch, cancel, budget>>
    PROVE  IInv'
  <1>1. TypeOK'
    BY DEF IInv, TypeOK
  <1>2. PhaseInv' /\ LastInv' /\ OutcomeInv' /\ ProgressInv' /\ StreamInv' /\ MadeInv'
    BY DEF IInv, PhaseInv, LastInv, OutcomeInv, ProgressInv, StreamInv, MadeInv, InOp, Giving, At,
       WAt
  <1>. QED  BY <1>1, <1>2 DEF IInv

LEMMA NoFails == ASSUME TypeOK PROVE 0 <= MaxOutFail - budget.out
  BY OpAssumption DEF TypeOK

LEMMA TopKeeps == ASSUME IInv, Top PROVE IInv'
  <1>. DEFINE prompt == [AtTop EXCEPT !.pc = "prompt"]
              ended == [AtTop EXCEPT !.pc = "exited", !.status = "terminated"]
  <1>1. eng.thread = "off" /\ c' \in {prompt, ended} /\ UNCHANGED <<w, eng, ch, cancel, budget>>
    BY DEF IInv, PhaseInv, Top, At
  <1>2. /\ prompt \in Main /\ prompt.pc = "prompt" /\ prompt.status = "none" /\ prompt.fails = 0
        /\ prompt.got = 0
        /\ ended \in Main /\ ended.pc = "exited" /\ ended.fails = 0 /\ ended.got = 0
    BY AtTopFacts DEF Main, CPcs
  <1>. HIDE DEF prompt, ended
  <1>. QED  BY <1>1, <1>2, IdleMove, NoFails DEF IInv

LEMMA PromptSignalKeeps == ASSUME IInv, PromptSignal PROVE IInv'
  <1>. DEFINE ended == [AtTop EXCEPT !.pc = "exited", !.status = "terminated"]
  <1>1. eng.thread = "off" /\ c' \in {AtTop, ended} /\ UNCHANGED <<w, eng, ch, cancel, budget>>
    BY DEF IInv, PhaseInv, PromptSignal, At
  <1>2. ended \in Main /\ ended.pc = "exited" /\ ended.fails = 0 /\ ended.got = 0
    BY AtTopFacts DEF Main, CPcs
  <1>. HIDE DEF ended
  <1>. QED  BY <1>1, <1>2, AtTopFacts, IdleMove, NoFails DEF IInv

LEMMA PromptLineKeeps == ASSUME IInv, NEW n \in 0 .. budget.ops, PromptLine(n) PROVE IInv'
  <1>1. /\ c \in Main /\ eng.thread = "off" /\ c.status = "none" /\ c.got = 0 /\ n \in 0 .. MaxOps
        /\ c.fails <= MaxOutFail - budget.out
    BY OpAssumption DEF IInv, TypeOK, PhaseInv, LastInv, PromptLine, At
  <1>2. c' = [c EXCEPT !.pc = "line", !.todo = n] /\ UNCHANGED <<w, eng, ch, cancel, budget>>
    BY DEF PromptLine
  <1>3. c' \in Main /\ c'.pc = "line" /\ c'.status = "none" /\ c'.got = 0 /\ c'.fails = c.fails
    BY <1>1, <1>2 DEF Main, CPcs
  <1>. QED  BY <1>1, <1>2, <1>3, IdleMove

LEMMA PromptExitKeeps == ASSUME IInv, PromptExit PROVE IInv'
  <1>1. c \in Main /\ eng.thread = "off" /\ c.got = 0 /\ c.fails <= MaxOutFail - budget.out
    BY DEF IInv, TypeOK, PhaseInv, LastInv, PromptExit, At
  <1>2. /\ c' = [c EXCEPT !.pc = "exited", !.status = "success"]
        /\ UNCHANGED <<w, eng, ch, cancel, budget>>
    BY DEF PromptExit
  <1>3. c' \in Main /\ c'.pc = "exited" /\ c'.got = 0 /\ c'.fails = c.fails
    BY <1>1, <1>2 DEF Main, CPcs
  <1>. QED  BY <1>1, <1>2, <1>3, IdleMove

LEMMA Blank ==
    /\ NoEngine \in Engine /\ NoEngine.thread = "off" /\ NoEngine.prog = 0
    /\ NoChannel \in Channel /\ NoChannel.queue = <<>> /\ NoChannel.latest = 0
    /\ Off \in Thread /\ Off.pc = "off" /\ Off.snap = 0 /\ Off.made = 0
  BY OpAssumption DEF NoEngine, NoChannel, Off, Engine, Channel, Thread, WPcs

LEMMA StartOpKeeps == ASSUME IInv, StartOp PROVE IInv'
  <1>. DEFINE todo == c.todo - 1
              on == [Off EXCEPT !.pc = "run"]
  <1>1. /\ c \in Main /\ todo \in 0 .. MaxOps /\ budget \in Budget /\ budget.ops - 1 \in 0 .. MaxOps
    <2>1. /\ c \in Main /\ c.todo \in 0 .. MaxOps /\ budget \in Budget /\ budget.ops \in 0 .. MaxOps
          /\ MaxOps \in Nat
      BY OpAssumption DEF IInv, TypeOK, Main, Budget
    <2>2. c.todo > 0 /\ budget.ops > 0
      BY DEF StartOp, Spend
    <2>. QED  BY <2>1, <2>2
  <1>2. /\ c' = [AtTop EXCEPT !.pc = "poll", !.todo = todo] /\ cancel' = 0
        /\ w' = [e \in Emitters |-> on] /\ eng' = [NoEngine EXCEPT !.thread = "run"]
        /\ ch' = NoChannel /\ budget' = [budget EXCEPT !.ops = budget.ops - 1]
    BY DEF StartOp, Spend
  <1>. HIDE DEF todo
  <1>3. /\ c' \in Main /\ c'.pc = "poll" /\ c'.got = 0 /\ c'.fails = 0 /\ c'.seen = <<>>
        /\ c'.shown = 0 /\ c'.err = 0 /\ c'.stored = 0 /\ c'.hit = FALSE
    BY <1>1, <1>2, AtTopFacts DEF Main, CPcs
  <1>4. on \in Thread /\ on.pc = "run" /\ on.snap = 0 /\ on.made = 0
    BY Blank DEF Thread, WPcs
  <1>. HIDE DEF on
  <1>5. w' \in [Emitters -> Thread] /\ \A e \in Emitters : w'[e] = on
    BY <1>2, <1>4
  <1>6. /\ eng' \in Engine /\ eng'.thread = "run" /\ eng'.prog = 0
        /\ ch' \in Channel /\ ch'.queue = <<>> /\ ch'.latest = 0
    BY <1>2, Blank DEF Engine
  <1>7. budget' \in Budget /\ budget'.out = budget.out
    BY <1>1, <1>2 DEF Budget
  <1>8. TypeOK'
    BY <1>2, <1>3, <1>5, <1>6, <1>7, NoFails DEF IInv, TypeOK, Budget
  <1>9. PhaseInv' /\ LastInv' /\ OutcomeInv'
    BY <1>2, <1>3, <1>6 DEF PhaseInv, LastInv, OutcomeInv, ErrorKept, InOp, Giving, At
  <1>10. MadeInv' /\ ProgressInv'
    BY <1>3, <1>4, <1>5, <1>6 DEF MadeInv, ProgressInv, WAt
  <1>11. StreamInv'
    <2>1. \A e \in Emitters : AllSent'[e] = 0
      BY <1>4, <1>5 DEF AllSent, SentBy, WAt
    <2>2. DOMAIN c'.seen = {} /\ DOMAIN ch'.queue = {} /\ 1 .. 0 = {}
      BY <1>3, <1>6
    <2>3. Delivery(c'.seen, ch'.queue, AllSent')
      BY <2>1, <2>2 DEF Delivery, Rendering, Waiting, Present
    <2>. QED  BY <2>3 DEF StreamInv
  <1>. QED  BY <1>8, <1>9, <1>10, <1>11 DEF IInv

LEMMA LineDoneKeeps == ASSUME IInv, LineDone PROVE IInv'
  <1>1. /\ c' = AtTop /\ cancel' = 0 /\ w' = [e \in Emitters |-> Off] /\ eng' = NoEngine
        /\ ch' = NoChannel /\ UNCHANGED budget
    BY DEF LineDone
  <1>2. w' \in [Emitters -> Thread] /\ \A e \in Emitters : w'[e] = Off
    BY <1>1, Blank
  <1>3. TypeOK'
    BY <1>1, <1>2, Blank, AtTopFacts, NoFails DEF IInv, TypeOK
  <1>4. PhaseInv' /\ LastInv' /\ OutcomeInv' /\ ProgressInv' /\ StreamInv' /\ MadeInv'
    BY <1>1, <1>2, Blank, AtTopFacts
       DEF PhaseInv, LastInv, OutcomeInv, ProgressInv, StreamInv, MadeInv, InOp, Giving, At, WAt
  <1>. QED  BY <1>3, <1>4 DEF IInv

\* A signal handler disturbs nothing but what is pending.
LEMMA SignalKeeps ==
    ASSUME IInv, UNCHANGED <<w, eng, ch, cancel, c>>, budget' \in Budget, budget'.out = budget.out
    PROVE  IInv'
  <1>1. TypeOK'
    BY DEF IInv, TypeOK, Budget
  <1>2. PhaseInv' /\ LastInv' /\ OutcomeInv' /\ ProgressInv' /\ MadeInv'
    BY DEF IInv, PhaseInv, LastInv, OutcomeInv, ErrorKept, ProgressInv, MadeInv, InOp, Giving, At,
       WAt
  <1>3. StreamInv'
    BY StreamStays DEF IInv, SentBy, WAt
  <1>. QED  BY <1>1, <1>2, <1>3 DEF IInv
-----------------------------------------------------------------------------
LEMMA NextKeeps == ASSUME IInv, [Next]_vars PROVE IInv'
  <1>. budget \in Budget
    BY DEF IInv, TypeOK, Budget
  <1>1. CASE Running
    BY <1>1, PollKeeps, WatchdogKeeps, RecvKeeps, TimeoutKeeps, DisconnectedKeeps, TakeKeeps,
       GiveKeeps, ReplayKeeps, DrainKeeps, DrainPollKeeps, ResultKeeps DEF Running
  <1>2. CASE Loop
    BY <1>2, TopKeeps, PromptSignalKeeps, StartOpKeeps, LineDoneKeeps DEF Loop
  <1>3. CASE PromptExit \/ \E n \in 0 .. budget.ops : PromptLine(n)
    BY <1>3, PromptExitKeeps, PromptLineKeeps
  <1>4. CASE Return \/ Exit
    BY <1>4, ReturnKeeps, ExitKeeps
  <1>5. CASE \E e \in Emitters : Emitting(e) \/ Update(e) \/ Emit(e) \/ Finish(e)
    BY <1>5, MergeKeeps, WakeKeeps, SendKeeps, UpdateKeeps, EmitKeeps, FinishKeeps DEF Emitting
  <1>6. CASE WriteByte
    BY <1>6, SignalKeeps DEF WriteByte
  <1>7. CASE \E s \in Sent : Deliver(s)
    <2>1. UNCHANGED <<w, eng, ch, cancel, c>> /\ budget.signals > 0
          /\ budget' = [budget EXCEPT !.signals = budget.signals - 1]
      BY <1>7 DEF Deliver, Spend
    <2>2. budget.signals - 1 \in Nat
      BY <2>1 DEF Budget
    <2>3. budget' \in Budget /\ budget'.out = budget.out
      BY <2>1, <2>2 DEF Budget
    <2>. QED  BY <2>1, <2>3, SignalKeeps
  <1>8. CASE UNCHANGED vars
    BY <1>8, SignalKeeps DEF vars
  <1>. QED  BY <1>1, <1>2, <1>3, <1>4, <1>5, <1>6, <1>7, <1>8 DEF Next

LEMMA InitHolds == ASSUME Init PROVE IInv
  <1>1. \A e \in Emitters : w[e] = Off
    BY DEF Init
  <1>2. TypeOK
    BY Blank, AtTopFacts, OpAssumption DEF Init, TypeOK
  <1>3. PhaseInv /\ LastInv /\ OutcomeInv /\ ProgressInv /\ StreamInv /\ MadeInv
    BY <1>1, Blank, AtTopFacts
       DEF Init, PhaseInv, LastInv, OutcomeInv, ProgressInv, StreamInv, MadeInv, InOp, Giving, At,
       WAt
  <1>. QED  BY <1>2, <1>3 DEF IInv

LEMMA Delivers == ASSUME IInv PROVE EventsDelivered
  <1>. DEFINE Counted == \A e \in Emitters : w[e].made \in Nat /\ SentBy(e) <= w[e].made /\ SentBy(e) \in Nat
  <1>1. Counted
    <2>1. \A e \in Emitters : w[e].made \in Nat /\ (WAt(e, "send") => w[e].made # 0)
      BY DEF IInv, TypeOK, MadeInv, Thread
    <2>. QED  BY <2>1 DEF SentBy
  <1>2. ASSUME eng.thread # "off", NEW i \in DOMAIN c.seen
        PROVE  /\ c.seen[i][2] \in 1 .. w[c.seen[i][1]].made
               /\ \A j \in 1 .. c.seen[i][2] - 1 : \E h \in 1 .. i - 1 : c.seen[h] = <<c.seen[i][1], j>>
               /\ \A h \in DOMAIN c.seen : c.seen[h] = c.seen[i] => h = i
    <2>1. RenderedAt(c.seen, AllSent, i)
      BY <1>2 DEF IInv, StreamInv, Delivery, Rendering
    <2>2. c.seen[i][1] \in Emitters
      <3>1. c.seen \in Seq(Event)
        BY SentFacts DEF IInv
      <3>. QED  BY <3>1, EventFacts
    <2>3. c.seen[i][2] \in 1 .. SentBy(c.seen[i][1])
      BY <2>1, <2>2 DEF RenderedAt, AllSent
    <2>4. c.seen[i][2] \in 1 .. w[c.seen[i][1]].made
      BY <1>1, <2>2, <2>3
    <2>. QED  BY <2>1, <2>4 DEF RenderedAt
  <1>3. ASSUME At("join")
        PROVE  /\ InOp /\ eng.thread = "finished" /\ \A e \in Emitters : WAt(e, "done")
               /\ ch.queue = <<>> /\ ch.latest = 0 /\ c.got = 0
    BY <1>3 DEF IInv, PhaseInv, LastInv, InOp, At
  <1>4. ASSUME At("join"), NEW e \in Emitters, NEW k \in 1 .. w[e].made
        PROVE  \E i \in DOMAIN c.seen : c.seen[i] = <<e, k>>
    <2>1. AllSent[e] = w[e].made /\ DOMAIN ch.queue = {}
      BY <1>3, <1>4 DEF AllSent, SentBy, WAt
    <2>2. Present(c.seen, ch.queue, AllSent)
      BY <1>3, <1>4 DEF IInv, StreamInv, Delivery
    <2>. QED  BY <2>1, <2>2 DEF Present
  <1>5. At("join") => c.shown = eng.prog
    <2>. SUFFICES ASSUME At("join") PROVE c.shown = eng.prog
      OBVIOUS
    <2>1. \A e \in Emitters : w[e].snap = 0
      BY <1>3, ProgressFacts DEF WAt
    <2>. QED  BY <1>3, <2>1, ProgressFacts
  <1>6. At("line") /\ eng.thread = "finished" /\ c.status # "none" =>
          /\ c.hit => c.status = "cancelled" /\ c.todo = 0
          /\ c.status = "success" => c.fails = 0 /\ eng.result = "complete"
          /\ c.status = "cancelled" => c.hit
          /\ c.fails > 0 => c.err = 1
    BY DEF IInv, OutcomeInv
  <1>. QED  BY <1>2, <1>4, <1>5, <1>6 DEF EventsDelivered

\* Whatever signals arrive and writes fail, for any number of threads and operations:
\* what each thread has sent is rendered or queued, once and in order, the latest
\* progress is on the screen or on its way there, and the first error is kept.
THEOREM OperationInductive == Spec => []IInv
  <1>1. Init => IInv
    BY InitHolds
  <1>2. IInv /\ [Next]_vars => IInv'
    BY NextKeeps
  <1>. QED  BY <1>1, <1>2, PTL DEF Spec

\* Foreground::run returns only when every outcome has been rendered once and in its
\* thread's order and the last progress is shown; a signal seen decides the status, an
\* output error is never reported as success, and the first one is reported.
THEOREM EventsReach == Spec => []EventsDelivered
  <1>1. IInv => EventsDelivered
    BY Delivers
  <1>. QED  BY <1>1, OperationInductive, PTL
=============================================================================
