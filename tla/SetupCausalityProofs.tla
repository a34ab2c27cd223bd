------------------------ MODULE SetupCausalityProofs ------------------------
(***************************************************************************)
(* Theorems about SetupCausality.  The engine computes from whole frames,  *)
(* so every theorem compares what it computes from two frames that are the *)
(* same up to some minute: first the candles they are joined to, then the  *)
(* labels on those, then zones, breaks and the dollar index, and last the  *)
(* verdict.                                                                *)
(***************************************************************************)
EXTENDS SetupCausality, FiniteSetTheorems, SequenceTheorems, WellFoundedInduction, TLAPS

\* A set of naturals has a least element.
LEMMA LeastNatural ==
  ASSUME NEW S \in SUBSET Nat, S # {}
  PROVE  \E x \in S : \A y \in S : x <= y
<1>1. IsWellFoundedOn(OpToRel(<, Nat), Nat)
  BY NatLessThanWellFounded
<1>2. PICK x \in S : \A y \in S : ~(<<y, x>> \in OpToRel(<, Nat))
  BY <1>1, WFMin
<1>3. ASSUME NEW y \in S, y < x PROVE <<y, x>> \in OpToRel(<, Nat)
  BY <1>3 DEF OpToRel
<1>4. \A y \in S : ~(y < x)
  BY <1>2, <1>3
<1>. QED
  BY <1>4

\* A bounded one has a greatest, which is its Max.
LEMMA MaxIs ==
  ASSUME NEW S \in SUBSET Int, NEW m \in S, \A x \in S : x <= m
  PROVE  Max(S) = m
<1>. DEFINE greatest(x) == \A y \in S : x >= y
<1>1. greatest(m)
  OBVIOUS
<1>2. \A x \in S : greatest(x) => x = m
  OBVIOUS
<1>. HIDE DEF greatest
<1>3. Max(S) = CHOOSE x \in S : greatest(x)
  BY DEF Max, greatest
<1>. QED
  BY <1>1, <1>2, <1>3

LEMMA MinIs ==
  ASSUME NEW S \in SUBSET Int, NEW m \in S, \A x \in S : m <= x
  PROVE  Min(S) = m
<1>. DEFINE least(x) == \A y \in S : x =< y
<1>1. least(m)
  OBVIOUS
<1>2. \A x \in S : least(x) => x = m
  OBVIOUS
<1>. HIDE DEF least
<1>3. Min(S) = CHOOSE x \in S : least(x)
  BY DEF Min, least
<1>. QED
  BY <1>1, <1>2, <1>3

LEMMA MinOfNat ==
  ASSUME NEW S \in SUBSET Nat, S # {}
  PROVE  Min(S) \in S /\ \A x \in S : Min(S) <= x
<1>1. PICK x \in S : \A y \in S : x <= y
  BY LeastNatural
<1>. QED
  BY <1>1, MinIs

LEMMA MaxOfNat ==
  ASSUME NEW S \in SUBSET Nat, S # {}, NEW b \in Nat, \A x \in S : x <= b
  PROVE  Max(S) \in S /\ \A x \in S : x <= Max(S)
<1>. DEFINE over == {u \in Nat : \A x \in S : x <= u}
<1>1. PICK u \in over : \A y \in over : u <= y
  <2>1. over \in SUBSET Nat /\ over # {}
    OBVIOUS
  <2>. QED
    BY <2>1, LeastNatural
<1>2. u \in S
  <2>. SUFFICES ASSUME u \notin S PROVE FALSE
    OBVIOUS
  <2>1. \A x \in S : x <= u - 1
    BY <1>1
  <2>2. PICK x \in S : TRUE
    OBVIOUS
  <2>3. x <= u - 1 /\ u \in Nat
    BY <2>1, <2>2, <1>1
  <2>4. u - 1 \in Nat
    BY <2>3, <2>2
  <2>. QED
    BY <1>1, <2>1, <2>4
<1>. QED
  BY <1>1, <1>2, MaxIs

-----------------------------------------------------------------------------
(* Candles of a longer timeframe.                                           *)

\* The minute at which the candle of minute t begins.
Bin(t, span) == (t \div span) * span

\* Arithmetic that the provers find more easily when it is asked alone.
LEMMA LessTrans ==
  ASSUME NEW a \in Int, NEW b \in Int, NEW c \in Int
  PROVE  /\ a < b /\ b <= c => a < c
         /\ a <= b /\ b < c => a < c
  OBVIOUS

LEMMA LessIs == ASSUME NEW a \in Nat, NEW b \in Nat, a < b PROVE a <= b
  OBVIOUS

LEMMA NoRoom ==
  ASSUME NEW a \in Int, NEW b \in Int, NEW t \in Int, NEW w \in Int, w > 0,
         a + w <= t, t < b + w, b + w <= a
  PROVE  FALSE
  OBVIOUS

LEMMA BinBounds ==
  ASSUME NEW t \in Nat, NEW span \in Positive
  PROVE  Bin(t, span) \in Nat /\ Bin(t, span) <= t /\ t < Bin(t, span) + span
BY DEF Bin, Positive

LEMMA NextMultiple ==
  ASSUME NEW a \in Int, NEW b \in Int, NEW span \in Positive, a < b
  PROVE  a * span + span <= b * span
<1>1. b - (a + 1) \in Nat /\ span \in Nat
  BY DEF Positive
<1>2. (b - (a + 1)) * span >= 0
  BY <1>1
<1>. QED
  BY <1>2 DEF Positive

LEMMA BinOrder ==
  ASSUME NEW t \in Nat, NEW u \in Nat, NEW span \in Positive
  PROVE  /\ Bin(t, span) = Bin(u, span) <=> t \div span = u \div span
         /\ t <= u => Bin(t, span) <= Bin(u, span)
         /\ Bin(t, span) < Bin(u, span) => Bin(t, span) + span <= Bin(u, span)
<1>. DEFINE a == t \div span
            b == u \div span
<1>1. a \in Nat /\ b \in Nat
  BY DEF Positive
<1>2. a < b => Bin(t, span) + span <= Bin(u, span)
  BY <1>1, NextMultiple DEF Bin
<1>3. b < a => Bin(u, span) + span <= Bin(t, span)
  BY <1>1, NextMultiple DEF Bin
<1>4. a = b => Bin(t, span) = Bin(u, span)
  BY DEF Bin
<1>5. span > 0 /\ span \in Int
  BY DEF Positive
<1>. HIDE DEF a, b
<1>6. Bin(t, span) \in Nat /\ Bin(t, span) <= t /\ t < Bin(t, span) + span
  BY BinBounds
<1>7. Bin(u, span) \in Nat /\ Bin(u, span) <= u /\ u < Bin(u, span) + span
  BY BinBounds
<1>8. a = b <=> Bin(t, span) = Bin(u, span)
  BY <1>1, <1>2, <1>3, <1>4, <1>5, <1>6, <1>7
<1>. QED
  BY <1>1, <1>2, <1>3, <1>5, <1>6, <1>7, <1>8 DEF a, b

Bars == [at : Nat, o : Int, h : Int, l : Int, c : Int, ind : [Indicators -> Int]]

\* A frame: bars in order of time.
FrameOK(f) ==
  /\ f \in Seq(Bars)
  /\ \A i, j \in 1 .. Len(f) : i < j => f[i].at < f[j].at

\* The candles of the first n bars, for every n: what Grouped computes on its way.
Step(g, f, n, span) == IF n = 0 THEN <<>> ELSE Joining(g[n - 1], f, n, span)
UpTo(g, f, span, last) == g = [n \in 0 .. last |-> Step(g, f, n, span)]
Sofar(f, span) == CHOOSE g : UpTo(g, f, span, Len(f))

LEMMA GroupedIs == ASSUME NEW f, NEW span PROVE Grouped(f, span) = Sofar(f, span)[Len(f)]
BY DEF Grouped, Sofar, UpTo, Step

LEMMA UpToAt ==
  ASSUME NEW g, NEW f, NEW span, NEW last, UpTo(g, f, span, last), NEW n \in 0 .. last
  PROVE  g[n] = Step(g, f, n, span)
<1>. DEFINE h == [x \in 0 .. last |-> Step(g, f, x, span)]
<1>1. g = h
  BY DEF UpTo
<1>2. h[n] = Step(g, f, n, span)
  OBVIOUS
<1>. HIDE DEF h
<1>. QED
  BY <1>1, <1>2

LEMMA UpToExists ==
  ASSUME NEW f, NEW span, NEW last \in Nat
  PROVE  \E g : UpTo(g, f, span, last)
<1>. DEFINE without == {n \in Nat : ~\E g : UpTo(g, f, span, n)}
<1>. SUFFICES ASSUME without # {} PROVE FALSE
  OBVIOUS
<1>1. PICK n \in without : \A m \in without : n <= m
  <2>1. without \in SUBSET Nat
    OBVIOUS
  <2>. QED
    BY <2>1, LeastNatural
<1>2. CASE n = 0
  <2>. DEFINE g == [x \in 0 .. 0 |-> <<>>]
  <2>1. UpTo(g, f, span, 0)
    <3>1. [x \in 0 .. 0 |-> Step(g, f, x, span)] = g
      BY DEF Step
    <3>. QED
      BY <3>1 DEF UpTo
  <2>. QED
    BY <1>1, <1>2, <2>1
<1>3. CASE n # 0
  <2>1. n - 1 \in Nat /\ n - 1 \notin without
    BY <1>1, <1>3
  <2>2. PICK g : UpTo(g, f, span, n - 1)
    BY <2>1
  <2>. DEFINE h == [x \in 0 .. n |-> IF x = n THEN Joining(g[n - 1], f, n, span) ELSE g[x]]
  <2>3. ASSUME NEW x \in 0 .. n PROVE h[x] = Step(h, f, x, span)
    <3>1. CASE x = n
      BY <3>1, <1>3, <2>1 DEF Step
    <3>2. CASE x # n
      <4>1. x \in 0 .. (n - 1)
        BY <3>2, <2>1
      <4>2. g[x] = Step(g, f, x, span)
        BY <4>1, <2>2, UpToAt
      <4>3. x # 0 => h[x - 1] = g[x - 1]
        BY <4>1
      <4>. QED
        BY <3>2, <4>2, <4>3 DEF Step
    <3>. QED
      BY <3>1, <3>2
  <2>. HIDE DEF h
  <2>4. h = [x \in 0 .. n |-> Step(h, f, x, span)]
    <3>1. h = [x \in 0 .. n |-> h[x]]
      BY DEF h
    <3>. QED
      BY <2>3, <3>1
  <2>. QED
    BY <1>1, <2>4 DEF UpTo
<1>. QED
  BY <1>2, <1>3

\* The candles so far are none, or those of one bar less with that bar.
LEMMA SofarAt ==
  ASSUME NEW f, NEW span, Len(f) \in Nat, NEW n \in 0 .. Len(f)
  PROVE  Sofar(f, span)[n] = IF n = 0 THEN <<>> ELSE Joining(Sofar(f, span)[n - 1], f, n, span)
<1>1. \E g : UpTo(g, f, span, Len(f))
  BY UpToExists
<1>2. UpTo(Sofar(f, span), f, span, Len(f))
  BY <1>1 DEF Sofar
<1>3. Sofar(f, span)[n] = Step(Sofar(f, span), f, n, span)
  BY <1>2, UpToAt
<1>. QED
  BY <1>3 DEF Step

LEMMA FrameBars ==
  ASSUME NEW f, FrameOK(f)
  PROVE  /\ Len(f) \in Nat /\ DOMAIN f = 1 .. Len(f)
         /\ \A i \in 1 .. Len(f) : f[i] \in Bars /\ f[i].at \in Nat
         /\ \A i, j \in 1 .. Len(f) : i < j => f[i].at < f[j].at
<1>1. \A b \in Bars : b.at \in Nat
  BY DEF Bars
<1>2. f \in Seq(Bars)
  BY DEF FrameOK
<1>3. Len(f) \in Nat /\ DOMAIN f = 1 .. Len(f) /\ \A i \in 1 .. Len(f) : f[i] \in Bars
  BY <1>2
<1>. QED
  BY <1>1, <1>3 DEF FrameOK

LEMMA Extremes ==
  ASSUME NEW a \in Int, NEW b \in Int
  PROVE  Max({a, b}) \in Int /\ Min({a, b}) \in Int
<1>1. CASE a <= b
  <2>1. Max({a, b}) = b
    BY <1>1, MaxIs
  <2>2. Min({a, b}) = a
    BY <1>1, MinIs
  <2>. QED
    BY <2>1, <2>2
<1>2. CASE b <= a
  <2>1. Max({a, b}) = a
    BY <1>2, MaxIs
  <2>2. Min({a, b}) = b
    BY <1>2, MinIs
  <2>. QED
    BY <2>1, <2>2
<1>. QED
  BY <1>1, <1>2

LEMMA JoinedIs ==
  ASSUME NEW c \in Bars, NEW b \in Bars
  PROVE  Joined(c, b) \in Bars /\ Joined(c, b).at = c.at
<1>1. Max({c.h, b.h}) \in Int /\ Min({c.l, b.l}) \in Int
  BY Extremes DEF Bars
<1>. QED
  BY <1>1 DEF Joined, Bars

\* The candles of the first n bars are in order, begin at multiples of their span
\* and have a bar each; the last one has the last bar.
Shaped(c, f, n, span) ==
  /\ FrameOK(c)
  /\ Len(c) = 0 <=> n = 0
  /\ n > 0 => c[Len(c)].at = Bin(f[n].at, span)
  /\ \A i \in 1 .. Len(c) : \E j \in 1 .. n : c[i].at = Bin(f[j].at, span)

\* The first bar of a candle adds one, another bar changes the last one.
LEMMA JoiningNew ==
  ASSUME NEW f, FrameOK(f), NEW span \in Positive, NEW n \in 1 .. Len(f), NEW c \in Seq(Bars),
         Begins(f, n, span)
  PROVE  /\ Joining(c, f, n, span) \in Seq(Bars)
         /\ Len(Joining(c, f, n, span)) = Len(c) + 1
         /\ \A i \in 1 .. Len(c) : Joining(c, f, n, span)[i] = c[i]
         /\ Joining(c, f, n, span)[Len(c) + 1].at = Bin(f[n].at, span)
<1>. DEFINE b == [f[n] EXCEPT !.at = (@ \div span) * span]
<1>1. f[n] \in Bars
  BY DEF FrameOK
<1>2. f[n].at \in Nat /\ Bin(f[n].at, span) \in Nat
  BY <1>1, BinBounds DEF Bars
<1>3. b \in Bars /\ b.at = Bin(f[n].at, span)
  BY <1>1, <1>2 DEF Bars, Bin
<1>. HIDE DEF b
<1>4. Joining(c, f, n, span) = Append(c, b)
  BY DEF Joining, b
<1>. QED
  BY <1>3, <1>4

LEMMA JoiningOld ==
  ASSUME NEW f, FrameOK(f), NEW span \in Positive, NEW n \in 1 .. Len(f), NEW c \in Seq(Bars),
         ~Begins(f, n, span), Len(c) > 0
  PROVE  /\ Joining(c, f, n, span) \in Seq(Bars)
         /\ Len(Joining(c, f, n, span)) = Len(c)
         /\ \A i \in 1 .. (Len(c) - 1) : Joining(c, f, n, span)[i] = c[i]
         /\ Joining(c, f, n, span)[Len(c)].at = c[Len(c)].at
<1>. DEFINE b == Joined(c[Len(c)], f[n])
<1>1. f[n] \in Bars /\ c[Len(c)] \in Bars
  BY DEF FrameOK
<1>2. b \in Bars /\ b.at = c[Len(c)].at
  BY <1>1, JoinedIs
<1>. HIDE DEF b
<1>3. Joining(c, f, n, span) = [c EXCEPT ![Len(c)] = b]
  BY DEF Joining, b
<1>. QED
  BY <1>2, <1>3

LEMMA JoiningShaped ==
  ASSUME NEW f, FrameOK(f), NEW span \in Positive, NEW n \in 1 .. Len(f), NEW c,
         Shaped(c, f, n - 1, span)
  PROVE  Shaped(Joining(c, f, n, span), f, n, span)
<1>. DEFINE d == Joining(c, f, n, span)
<1>1. c \in Seq(Bars) /\ Len(c) \in Nat /\ Len(f) \in Nat /\ n \in Nat /\ span \in Nat
  BY DEF Shaped, FrameOK, Positive
<1>2. ASSUME NEW i \in 1 .. Len(f)
      PROVE f[i] \in Bars /\ f[i].at \in Nat /\ Bin(f[i].at, span) \in Nat
  BY FrameBars, BinBounds
<1>3. Shaped(c, f, n - 1, span)
  OBVIOUS
<1>a. d = Joining(c, f, n, span)
  OBVIOUS
<1>. HIDE DEF d
<1>4. CASE Begins(f, n, span)
  <2>1. d \in Seq(Bars) /\ Len(d) = Len(c) + 1 /\ d[Len(c) + 1].at = Bin(f[n].at, span)
        /\ \A i \in 1 .. Len(c) : d[i] = c[i]
    BY <1>1, <1>4, <1>a, JoiningNew
  <2>2. ASSUME NEW i \in 1 .. Len(c) PROVE c[i].at < Bin(f[n].at, span)
    <3>1. n > 1
      BY <1>1 DEF Shaped
    <3>2. PICK m \in 1 .. Len(f) : m = n - 1 /\ m < n
      BY <1>1, <3>1
    <3>3. PICK j \in 1 .. m : c[i].at = Bin(f[j].at, span)
      BY <3>2 DEF Shaped
    <3>4. j \in 1 .. Len(f) /\ (j < m \/ j = m)
      BY <1>1, <3>2, <3>3
    <3>5. /\ f[j].at \in Nat /\ f[m].at \in Nat /\ f[n].at \in Nat
          /\ Bin(f[m].at, span) \in Nat /\ Bin(f[n].at, span) \in Nat /\ Bin(f[j].at, span) \in Nat
      BY <1>1, <1>2, <3>2, <3>4
    <3>6. \A x, y \in 1 .. Len(f) : x < y => f[x].at < f[y].at
      BY FrameBars
    <3>7. f[m].at < f[n].at /\ f[j].at <= f[m].at
      <4>1. f[m].at < f[n].at
        BY <1>1, <3>2, <3>6
      <4>2. j < m => f[j].at < f[m].at
        BY <3>2, <3>4, <3>6
      <4>. QED
        BY <3>4, <3>5, <4>1, <4>2
    <3>8. Bin(f[j].at, span) <= Bin(f[m].at, span)
      BY <3>5, <3>7, BinOrder
    <3>9. Bin(f[m].at, span) < Bin(f[n].at, span)
      <4>1. f[m].at <= f[n].at
        BY <3>5, <3>7, LessIs
      <4>2. Bin(f[m].at, span) <= Bin(f[n].at, span)
        BY <3>5, <4>1, BinOrder
      <4>3. Bin(f[m].at, span) # Bin(f[n].at, span)
        <5>1. f[m].at \div span # f[n].at \div span
          BY <1>4, <3>1, <3>2 DEF Begins
        <5>. QED
          BY <3>5, <5>1, BinOrder
      <4>. QED
        BY <3>5, <4>2, <4>3
    <3>. QED
      BY <3>3, <3>5, <3>8, <3>9, LessTrans
  <2>3. FrameOK(d)
    <3>1. FrameOK(c) /\ Bin(f[n].at, span) \in Nat
      BY <1>2, <1>3 DEF Shaped
    <3>2. ASSUME NEW i \in 1 .. Len(d), NEW j \in 1 .. Len(d), i < j PROVE d[i].at < d[j].at
      <4>1. CASE j = Len(c) + 1
        BY <1>1, <2>1, <2>2, <3>2, <4>1
      <4>2. CASE j <= Len(c)
        <5>1. i \in 1 .. Len(c) /\ j \in 1 .. Len(c)
          BY <1>1, <2>1, <3>2, <4>2
        <5>2. d[i] = c[i] /\ d[j] = c[j]
          BY <2>1, <5>1
        <5>. QED
          BY <3>1, <3>2, <5>1, <5>2 DEF FrameOK
      <4>. QED
        BY <1>1, <2>1, <4>1, <4>2
    <3>. QED
      BY <2>1, <3>2 DEF FrameOK
  <2>4. \A i \in 1 .. Len(d) : \E j \in 1 .. n : d[i].at = Bin(f[j].at, span)
    <3>. SUFFICES ASSUME NEW i \in 1 .. Len(d) PROVE \E j \in 1 .. n : d[i].at = Bin(f[j].at, span)
      OBVIOUS
    <3>1. CASE i \in 1 .. Len(c)
      <4>1. PICK j \in 1 .. (n - 1) : c[i].at = Bin(f[j].at, span)
        BY <1>3, <3>1 DEF Shaped
      <4>. QED
        BY <1>1, <2>1, <3>1, <4>1
    <3>2. CASE i = Len(c) + 1
      <4>1. n \in 1 .. n
        BY <1>1
      <4>. QED
        BY <2>1, <3>2, <4>1
    <3>. QED
      BY <1>1, <2>1, <3>1, <3>2
  <2>. QED
    BY <1>1, <1>a, <2>1, <2>3, <2>4 DEF Shaped
<1>5. CASE ~Begins(f, n, span)
  <2>0. n > 1 /\ f[n - 1].at \div span = f[n].at \div span
    BY <1>5, <1>1 DEF Begins
  <2>1. Len(c) > 0
    BY <2>0, <1>1 DEF Shaped
  <2>2. d \in Seq(Bars) /\ Len(d) = Len(c) /\ d[Len(c)].at = c[Len(c)].at
        /\ \A i \in 1 .. (Len(c) - 1) : d[i] = c[i]
    BY <1>1, <1>5, <1>a, <2>1, JoiningOld
  <2>3. c[Len(c)].at = Bin(f[n].at, span)
    BY <2>0, <1>1 DEF Shaped, Bin
  <2>4. \A i \in 1 .. Len(c) : d[i].at = c[i].at
    BY <2>2, <1>1
  <2>5. FrameOK(d)
    BY <1>1, <1>3, <2>2, <2>4 DEF FrameOK, Shaped
  <2>6. \A i \in 1 .. Len(d) : \E j \in 1 .. n : d[i].at = Bin(f[j].at, span)
    <3>. SUFFICES ASSUME NEW i \in 1 .. Len(d) PROVE \E j \in 1 .. n : d[i].at = Bin(f[j].at, span)
      OBVIOUS
    <3>1. PICK j \in 1 .. (n - 1) : c[i].at = Bin(f[j].at, span)
      BY <1>3, <2>2 DEF Shaped
    <3>. QED
      BY <1>1, <2>2, <2>4, <3>1
  <2>. QED
    <3>1. d[Len(d)].at = Bin(f[n].at, span)
      BY <2>2, <2>3
    <3>2. ~(Len(d) = 0) /\ ~(n = 0)
      BY <1>1, <2>1, <2>2
    <3>. QED
      BY <2>5, <2>6, <3>1, <3>2, <1>a DEF Shaped
<1>. QED
  BY <1>4, <1>5, <1>a

LEMMA SofarShaped ==
  ASSUME NEW f, FrameOK(f), NEW span \in Positive
  PROVE  \A n \in 0 .. Len(f) : Shaped(Sofar(f, span)[n], f, n, span)
<1>. DEFINE bad == {n \in 0 .. Len(f) : ~Shaped(Sofar(f, span)[n], f, n, span)}
<1>. SUFFICES ASSUME bad # {} PROVE FALSE
  OBVIOUS
<1>0. Len(f) \in Nat
  BY DEF FrameOK
<1>1. PICK n \in bad : \A m \in bad : n <= m
  <2>1. bad \in SUBSET Nat
    BY <1>0
  <2>. QED
    BY <2>1, LeastNatural
<1>2. CASE n = 0
  <2>1. Sofar(f, span)[0] = <<>>
    BY <1>0, SofarAt
  <2>2. Shaped(<<>>, f, 0, span)
    BY DEF Shaped, FrameOK
  <2>. QED
    BY <1>1, <1>2, <2>1, <2>2
<1>3. CASE n # 0
  <2>1. n \in 1 .. Len(f) /\ n - 1 \in 0 .. Len(f) /\ n - 1 \notin bad
    BY <1>0, <1>1, <1>3
  <2>2. Shaped(Sofar(f, span)[n - 1], f, n - 1, span)
    BY <2>1
  <2>3. Sofar(f, span)[n] = Joining(Sofar(f, span)[n - 1], f, n, span)
    BY <1>0, <2>1, <1>3, SofarAt
  <2>. QED
    BY <1>1, <2>1, <2>2, <2>3, JoiningShaped
<1>. QED
  BY <1>2, <1>3

\* A bar that begins a candle is at or after the end of the one before.
LEMMA BeginsAt ==
  ASSUME NEW f, FrameOK(f), NEW span \in Positive, NEW n \in 2 .. Len(f)
  PROVE  /\ Begins(f, n, span) => Bin(f[n - 1].at, span) + span <= Bin(f[n].at, span)
         /\ ~Begins(f, n, span) => Bin(f[n - 1].at, span) = Bin(f[n].at, span)
<1>0. Len(f) \in Nat
  BY FrameBars
<1>1. n \in 1 .. Len(f) /\ n - 1 \in 1 .. Len(f) /\ n - 1 < n /\ n # 1
  BY <1>0
<1>. DEFINE t == f[n - 1].at
            u == f[n].at
<1>2. t \in Nat /\ u \in Nat /\ t < u
  BY <1>1, FrameBars
<1>3. Begins(f, n, span) <=> t \div span # u \div span
  BY <1>1 DEF Begins
<1>. HIDE DEF t, u
<1>4. Bin(t, span) \in Nat /\ Bin(u, span) \in Nat
  BY <1>2, BinBounds
<1>. QED
  BY <1>2, <1>3, <1>4, BinOrder DEF t, u

LEMMA LaterBin ==
  ASSUME NEW f, FrameOK(f), NEW span \in Positive, NEW m \in 1 .. Len(f), NEW n \in m .. Len(f)
  PROVE  /\ f[m].at <= f[n].at
         /\ Bin(f[m].at, span) <= Bin(f[n].at, span)
         /\ Bin(f[m].at, span) \in Nat /\ Bin(f[n].at, span) \in Nat
<1>0. Len(f) \in Nat
  BY FrameBars
<1>1. n \in 1 .. Len(f) /\ (m < n \/ m = n)
  BY <1>0
<1>. DEFINE t == f[m].at
            u == f[n].at
<1>2. t \in Nat /\ u \in Nat /\ t <= u
  BY <1>1, FrameBars
<1>. HIDE DEF t, u
<1>3. Bin(t, span) <= Bin(u, span) /\ Bin(t, span) \in Nat /\ Bin(u, span) \in Nat
  BY <1>2, BinOrder, BinBounds
<1>. QED
  BY <1>2, <1>3 DEF t, u

\* From the candles of m bars to those of n: all but the last stay, the last keeps
\* its time, and stays too when the next bar begins a candle; new ones are not
\* earlier than that of the next bar.
Kept(c, d, f, m, n, span) ==
  /\ Len(c) <= Len(d)
  /\ \A i \in 1 .. (Len(c) - 1) : d[i] = c[i]
  /\ \A i \in 1 .. Len(c) : d[i].at = c[i].at
  /\ n = m \/ Begins(f, m + 1, span) => \A i \in 1 .. Len(c) : d[i] = c[i]
  /\ \A i \in (Len(c) + 1) .. Len(d) : n > m /\ Bin(f[m + 1].at, span) <= d[i].at

LEMMA KeptStep ==
  ASSUME NEW f, FrameOK(f), NEW span \in Positive, NEW m \in 0 .. Len(f),
         NEW n \in (m + 1) .. Len(f), NEW c, NEW d,
         Shaped(c, f, m, span), Shaped(d, f, n - 1, span), Kept(c, d, f, m, n - 1, span)
  PROVE  Kept(c, Joining(d, f, n, span), f, m, n, span)
<1>. DEFINE e == Joining(d, f, n, span)
<1>1. /\ Len(f) \in Nat /\ m \in Nat /\ n \in Nat /\ n \in 1 .. Len(f) /\ m < n
      /\ m + 1 \in 1 .. Len(f) /\ n \in (m + 1) .. Len(f)
  BY FrameBars
<1>2. /\ c \in Seq(Bars) /\ Len(c) \in Nat /\ d \in Seq(Bars) /\ Len(d) \in Nat
  BY DEF Shaped, FrameOK
<1>3. e = Joining(d, f, n, span)
  OBVIOUS
<1>. HIDE DEF e
<1>4. CASE Begins(f, n, span)
  <2>1. /\ e \in Seq(Bars) /\ Len(e) = Len(d) + 1
        /\ \A i \in 1 .. Len(d) : e[i] = d[i]
        /\ e[Len(d) + 1].at = Bin(f[n].at, span)
    BY <1>1, <1>2, <1>3, <1>4, JoiningNew, Zenon
  <2>2. Len(c) <= Len(e) /\ \A i \in 1 .. Len(c) : e[i] = d[i]
    BY <1>2, <2>1 DEF Kept
  <2>3. ASSUME n = m \/ Begins(f, m + 1, span) PROVE \A i \in 1 .. Len(c) : e[i] = c[i]
    <3>1. \A i \in 1 .. Len(c) : d[i] = c[i]
      BY <1>1, <2>3 DEF Kept
    <3>. QED
      BY <2>2, <3>1
  <2>4. ASSUME NEW i \in (Len(c) + 1) .. Len(e) PROVE Bin(f[m + 1].at, span) <= e[i].at
    <3>1. CASE i = Len(d) + 1
      BY <1>1, <2>1, <3>1, LaterBin
    <3>2. CASE i # Len(d) + 1
      <4>1. i \in (Len(c) + 1) .. Len(d) /\ i \in 1 .. Len(d)
        BY <1>2, <2>1, <3>2
      <4>. QED
        BY <2>1, <4>1 DEF Kept
    <3>. QED
      BY <3>1, <3>2
  <2>5. \A i \in 1 .. (Len(c) - 1) : e[i] = c[i]
    BY <1>2, <2>2 DEF Kept
  <2>6. \A i \in 1 .. Len(c) : e[i].at = c[i].at
    BY <2>2 DEF Kept
  <2>. QED
    BY <1>1, <1>3, <2>2, <2>3, <2>4, <2>5, <2>6 DEF Kept
<1>5. CASE ~Begins(f, n, span)
  <2>1. n > 1 /\ Len(d) > 0
    BY <1>1, <1>2, <1>5 DEF Begins, Shaped
  <2>2. e \in Seq(Bars) /\ Len(e) = Len(d) /\ e[Len(d)].at = d[Len(d)].at
        /\ \A i \in 1 .. (Len(d) - 1) : e[i] = d[i]
    BY <1>1, <1>2, <1>3, <1>5, <2>1, JoiningOld
  <2>3. \A i \in 1 .. Len(d) : e[i].at = d[i].at
    BY <1>2, <2>2
  <2>4. Len(c) <= Len(e)
    BY <2>2 DEF Kept
  <2>5. \A i \in 1 .. (Len(c) - 1) : e[i] = c[i]
    BY <1>2, <2>2 DEF Kept
  <2>6. \A i \in 1 .. Len(c) : e[i].at = c[i].at
    BY <1>2, <2>3 DEF Kept
  <2>7. \A i \in (Len(c) + 1) .. Len(e) : Bin(f[m + 1].at, span) <= e[i].at
    BY <1>2, <2>2, <2>3 DEF Kept
  <2>8. ASSUME n = m \/ Begins(f, m + 1, span) PROVE \A i \in 1 .. Len(c) : e[i] = c[i]
    <3>1. Begins(f, m + 1, span) /\ m + 1 < n
      BY <1>1, <1>5, <2>8
    <3>2. CASE Len(c) < Len(d)
      BY <1>2, <2>2, <3>1, <3>2 DEF Kept
    <3>3. CASE Len(c) = Len(d)
      <4>1. m > 0
        BY <1>1, <1>2, <2>1, <3>3 DEF Shaped
      <4>2. c[Len(c)].at = Bin(f[m].at, span)
        BY <4>1 DEF Shaped
      <4>3. d[Len(c)].at = Bin(f[n - 1].at, span)
        BY <1>1, <2>1, <3>3 DEF Shaped
      <4>4. d[Len(c)].at = c[Len(c)].at
        BY <1>2, <2>1, <3>3 DEF Kept
      <4>5. Bin(f[m].at, span) + span <= Bin(f[m + 1].at, span)
        <5>1. m + 1 \in 2 .. Len(f) /\ (m + 1) - 1 = m
          BY <1>1, <4>1
        <5>. QED
          BY <5>1, <3>1, BeginsAt
      <4>6. /\ Bin(f[m + 1].at, span) <= Bin(f[n - 1].at, span)
            /\ Bin(f[m + 1].at, span) \in Nat /\ Bin(f[n - 1].at, span) \in Nat
        <5>1. n - 1 \in (m + 1) .. Len(f)
          BY <1>1, <3>1
        <5>. QED
          BY <5>1, <1>1, LaterBin
      <4>7. Bin(f[m].at, span) = Bin(f[n - 1].at, span) /\ span > 0 /\ span \in Nat
        BY <4>2, <4>3, <4>4 DEF Positive
      <4>. QED
        BY <4>5, <4>6, <4>7
    <3>. QED
      BY <1>2, <3>2, <3>3 DEF Kept
  <2>. QED
    BY <1>1, <1>3, <2>4, <2>5, <2>6, <2>7, <2>8 DEF Kept
<1>. QED
  BY <1>3, <1>4, <1>5

LEMMA SofarKeeps ==
  ASSUME NEW f, FrameOK(f), NEW span \in Positive, NEW m \in 0 .. Len(f)
  PROVE  \A n \in m .. Len(f) : Kept(Sofar(f, span)[m], Sofar(f, span)[n], f, m, n, span)
<1>. DEFINE s == Sofar(f, span)
            bad == {n \in m .. Len(f) : ~Kept(s[m], s[n], f, m, n, span)}
<1>. SUFFICES ASSUME bad # {} PROVE FALSE
  OBVIOUS
<1>0. Len(f) \in Nat /\ m \in Nat
  BY FrameBars
<1>1. PICK n \in bad : \A k \in bad : n <= k
  <2>1. bad \in SUBSET Nat
    BY <1>0
  <2>. QED
    BY <2>1, LeastNatural
<1>2. n \in m .. Len(f) /\ ~Kept(s[m], s[n], f, m, n, span)
  BY <1>1
<1>3. Shaped(s[m], f, m, span)
  BY SofarShaped
<1>4. CASE n = m
  <2>1. Len(s[m]) \in Nat
    BY <1>3 DEF Shaped, FrameOK
  <2>2. Kept(s[m], s[m], f, m, m, span)
    BY <2>1 DEF Kept
  <2>. QED
    BY <1>2, <1>4, <2>2
<1>5. CASE n # m
  <2>1. n \in (m + 1) .. Len(f) /\ n \in 0 .. Len(f) /\ n - 1 \in 0 .. Len(f) /\ n # 0
        /\ n - 1 \in m .. Len(f) /\ n - 1 < n
    BY <1>0, <1>2, <1>5
  <2>2. Kept(s[m], s[n - 1], f, m, n - 1, span)
    BY <1>0, <1>1, <2>1
  <2>3. Shaped(s[n - 1], f, n - 1, span)
    BY <2>1, SofarShaped
  <2>4. s[n] = Joining(s[n - 1], f, n, span)
    BY <1>0, <2>1, SofarAt
  <2>. QED
    BY <1>2, <1>3, <2>1, <2>2, <2>3, <2>4, KeptStep
<1>. QED
  BY <1>4, <1>5

\* The candles of a frame.
LEMMA GroupedShaped ==
  ASSUME NEW f, FrameOK(f), NEW span \in Positive
  PROVE  Shaped(Grouped(f, span), f, Len(f), span)
<1>1. Len(f) \in 0 .. Len(f)
  BY FrameBars
<1>. QED
  BY <1>1, SofarShaped, GroupedIs

LEMMA GroupedKeeps ==
  ASSUME NEW f, FrameOK(f), NEW span \in Positive, NEW m \in 0 .. Len(f)
  PROVE  Kept(Sofar(f, span)[m], Grouped(f, span), f, m, Len(f), span)
<1>1. Len(f) \in m .. Len(f)
  BY FrameBars
<1>. QED
  BY <1>1, SofarKeeps, GroupedIs

LEMMA SofarSame ==
  ASSUME NEW f, FrameOK(f), NEW g, FrameOK(g), NEW span \in Positive, NEW m \in Nat,
         m <= Len(f), m <= Len(g), \A i \in 1 .. m : f[i] = g[i]
  PROVE  \A n \in 0 .. m : Sofar(f, span)[n] = Sofar(g, span)[n]
<1>. DEFINE bad == {n \in 0 .. m : Sofar(f, span)[n] # Sofar(g, span)[n]}
<1>. SUFFICES ASSUME bad # {} PROVE FALSE
  OBVIOUS
<1>0. Len(f) \in Nat /\ Len(g) \in Nat
  BY FrameBars
<1>1. PICK n \in bad : \A k \in bad : n <= k
  <2>1. bad \in SUBSET Nat
    OBVIOUS
  <2>. QED
    BY <2>1, LeastNatural
<1>2. n \in 0 .. Len(f) /\ n \in 0 .. Len(g) /\ Sofar(f, span)[n] # Sofar(g, span)[n]
  BY <1>0, <1>1
<1>3. CASE n = 0
  BY <1>0, <1>2, <1>3, SofarAt
<1>4. CASE n # 0
  <2>1. n - 1 \in 0 .. m /\ ~(n <= n - 1)
    BY <1>1, <1>4
  <2>2. Sofar(f, span)[n - 1] = Sofar(g, span)[n - 1]
    BY <1>1, <2>1
  <2>3. f[n] = g[n] /\ (n # 1 => f[n - 1] = g[n - 1])
    BY <1>1, <1>4
  <2>4. Begins(f, n, span) <=> Begins(g, n, span)
    BY <2>3 DEF Begins
  <2>5. ASSUME NEW c PROVE Joining(c, f, n, span) = Joining(c, g, n, span)
    BY <2>3, <2>4 DEF Joining
  <2>. QED
    BY <1>0, <1>2, <1>4, <2>2, <2>5, SofarAt
<1>. QED
  BY <1>3, <1>4

\* Two frames that are the same before bar m, which has the same time and opening.
Meet(f, g, m) ==
  /\ m \in 1 .. Len(f) /\ m \in 1 .. Len(g)
  /\ \A i \in 1 .. (m - 1) : f[i] = g[i]
  /\ f[m].at = g[m].at /\ f[m].o = g[m].o

\* Two frames of candles that are the same before the q-th.
Alike(c, d, q) ==
  /\ q \in 1 .. Len(c) /\ q \in 1 .. Len(d)
  /\ \A i \in 1 .. (q - 1) : c[i] = d[i]
  /\ c[q].at = d[q].at

\* The q-th candle has minute t, the others have ended before or begin after it.
Around(c, q, t, span) ==
  /\ c[q].at = Bin(t, span)
  /\ \A i \in 1 .. (q - 1) : c[i].at + span <= Bin(t, span)
  /\ \A i \in (q + 1) .. Len(c) : Bin(t, span) + span <= c[i].at

LEMMA AroundBar ==
  ASSUME NEW f, FrameOK(f), NEW span \in Positive, NEW m \in 1 .. Len(f)
  PROVE  LET q == Len(Sofar(f, span)[m])
         IN  /\ q \in 1 .. Len(Grouped(f, span))
             /\ Around(Grouped(f, span), q, f[m].at, span)
<1>. DEFINE c == Sofar(f, span)[m]
            G == Grouped(f, span)
            q == Len(c)
            t == Bin(f[m].at, span)
<1>0. m \in 0 .. Len(f) /\ m \in Nat /\ m > 0
  BY FrameBars
<1>1. Shaped(c, f, m, span) /\ Shaped(G, f, Len(f), span) /\ Kept(c, G, f, m, Len(f), span)
  BY <1>0, SofarShaped, GroupedShaped, GroupedKeeps
<1>. HIDE DEF c, G
<1>2. q \in Nat /\ q > 0 /\ Len(G) \in Nat /\ q <= Len(G)
  BY <1>0, <1>1 DEF Shaped, FrameOK, Kept
<1>3. G[q].at = t
  BY <1>0, <1>1, <1>2 DEF Shaped, Kept
<1>4. FrameOK(G) /\ q \in 1 .. Len(G)
  BY <1>1, <1>2 DEF Shaped
<1>5. \A i \in 1 .. Len(G) : \E j \in 1 .. Len(f) : G[i].at = Bin(f[j].at, span)
  BY <1>1 DEF Shaped
<1>6. ASSUME NEW i \in 1 .. Len(G), i # q
      PROVE  IF i < q THEN G[i].at + span <= t ELSE t + span <= G[i].at
  <2>1. PICK j \in 1 .. Len(f) : G[i].at = Bin(f[j].at, span)
    BY <1>5
  <2>2. f[j].at \in Nat /\ f[m].at \in Nat
    BY FrameBars
  <2>3. CASE i < q
    <3>1. G[i].at < G[q].at
      BY <1>4, <2>3, FrameBars
    <3>. QED
      BY <1>3, <2>1, <2>2, <2>3, <3>1, BinOrder
  <2>4. CASE ~(i < q)
    <3>1. G[q].at < G[i].at
      BY <1>2, <1>4, <1>6, <2>4, FrameBars
    <3>. QED
      BY <1>3, <2>1, <2>2, <2>4, <3>1, BinOrder
  <2>. QED
    BY <2>3, <2>4
<1>7. Around(G, q, f[m].at, span)
  BY <1>2, <1>3, <1>6 DEF Around
<1>. QED
  BY <1>2, <1>7 DEF c, G

\* Frames that meet at a bar have candles that are alike before that of the bar.
LEMMA GroupedMeet ==
  ASSUME NEW f, FrameOK(f), NEW g, FrameOK(g), NEW span \in Positive, NEW m, Meet(f, g, m)
  PROVE  \E q \in Nat : /\ Alike(Grouped(f, span), Grouped(g, span), q)
                        /\ Around(Grouped(f, span), q, f[m].at, span)
                        /\ Around(Grouped(g, span), q, f[m].at, span)
<1>. DEFINE F == Sofar(f, span)
            H == Sofar(g, span)
            c == F[m - 1]
<1>0. /\ Len(f) \in Nat /\ Len(g) \in Nat /\ m \in Nat /\ m \in 1 .. Len(f) /\ m \in 1 .. Len(g)
      /\ m - 1 \in Nat /\ m - 1 \in 0 .. Len(f) /\ m - 1 \in 0 .. Len(g) /\ m - 1 \in 0 .. (m - 1)
      /\ m \in 0 .. Len(f) /\ m \in 0 .. Len(g) /\ m # 0 /\ m - 1 <= Len(f) /\ m - 1 <= Len(g)
  BY FrameBars DEF Meet
<1>1. F[m - 1] = H[m - 1]
  BY <1>0, SofarSame DEF Meet
<1>2. F[m] = Joining(c, f, m, span) /\ H[m] = Joining(c, g, m, span)
  BY <1>0, <1>1, SofarAt
<1>3. Shaped(c, f, m - 1, span)
  BY <1>0, SofarShaped
<1>4. Begins(f, m, span) <=> Begins(g, m, span)
  <2>1. m # 1 => f[m - 1] = g[m - 1]
    BY <1>0 DEF Meet
  <2>. QED
    BY <2>1 DEF Begins, Meet
<1>5. c \in Seq(Bars) /\ Len(c) \in Nat /\ (~Begins(f, m, span) => Len(c) > 0)
  BY <1>0, <1>3 DEF Shaped, FrameOK, Begins
<1>. HIDE DEF c, F, H
<1>6. /\ Len(F[m]) = Len(H[m]) /\ Len(F[m]) \in Nat
      /\ \A i \in 1 .. (Len(F[m]) - 1) : F[m][i] = H[m][i]
  <2>1. CASE Begins(f, m, span)
    <3>1. /\ Len(F[m]) = Len(c) + 1 /\ \A i \in 1 .. Len(c) : F[m][i] = c[i]
      BY <1>0, <1>2, <1>5, <2>1, JoiningNew
    <3>2. /\ Len(H[m]) = Len(c) + 1 /\ \A i \in 1 .. Len(c) : H[m][i] = c[i]
      BY <1>0, <1>2, <1>4, <1>5, <2>1, JoiningNew
    <3>. QED
      BY <1>5, <3>1, <3>2
  <2>2. CASE ~Begins(f, m, span)
    <3>1. /\ Len(F[m]) = Len(c) /\ \A i \in 1 .. (Len(c) - 1) : F[m][i] = c[i]
      BY <1>0, <1>2, <1>5, <2>2, JoiningOld
    <3>2. /\ Len(H[m]) = Len(c) /\ \A i \in 1 .. (Len(c) - 1) : H[m][i] = c[i]
      BY <1>0, <1>2, <1>4, <1>5, <2>2, JoiningOld
    <3>. QED
      BY <1>5, <3>1, <3>2
  <2>. QED
    BY <2>1, <2>2
<1>. DEFINE q == Len(F[m])
<1>7. q \in 1 .. Len(Grouped(f, span)) /\ Around(Grouped(f, span), q, f[m].at, span)
  BY <1>0, AroundBar DEF F
<1>8. q \in 1 .. Len(Grouped(g, span)) /\ Around(Grouped(g, span), q, f[m].at, span)
  <2>1. g[m].at = f[m].at
    BY DEF Meet
  <2>. QED
    BY <1>0, <1>6, <2>1, AroundBar DEF H
<1>9. Kept(F[m], Grouped(f, span), f, m, Len(f), span) /\ Kept(H[m], Grouped(g, span), g, m, Len(g), span)
  BY <1>0, GroupedKeeps DEF F, H
<1>10. \A i \in 1 .. (q - 1) : Grouped(f, span)[i] = Grouped(g, span)[i]
  BY <1>6, <1>9 DEF Kept
<1>11. Alike(Grouped(f, span), Grouped(g, span), q)
  BY <1>7, <1>8, <1>10 DEF Alike, Around
<1>. QED
  BY <1>6, <1>7, <1>8, <1>11

\* The candle of minute t has ended.
Ends(f, t, span) == Bin(t, span) + span <= f[Len(f)].at + 1

LEMMA AllButLast ==
  ASSUME NEW S, NEW g \in Seq(S), Len(g) > 0
  PROVE  /\ SubSeq(g, 1, Len(g) - 1) \in Seq(S) /\ Len(SubSeq(g, 1, Len(g) - 1)) = Len(g) - 1
         /\ \A i \in 1 .. (Len(g) - 1) : SubSeq(g, 1, Len(g) - 1)[i] = g[i]
<1>. DEFINE n == Len(g) - 1
<1>1. n \in Nat /\ n - 1 + 1 = n /\ 1 \in Int /\ n \in Int /\ \A i \in 1 .. n : g[i] \in S
  OBVIOUS
<1>. HIDE DEF n
<1>2. /\ SubSeq(g, 1, n) \in Seq(S)
      /\ Len(SubSeq(g, 1, n)) = IF 1 <= n THEN n - 1 + 1 ELSE 0
      /\ \A i \in 1 .. (n - 1 + 1) : SubSeq(g, 1, n)[i] = g[1 + i - 1]
  BY <1>1, SubSeqProperties
<1>3. SubSeq(g, 1, n) \in Seq(S) /\ Len(SubSeq(g, 1, n)) = n /\ \A i \in 1 .. n : SubSeq(g, 1, n)[i] = g[i]
  BY <1>1, <1>2
<1>. QED
  BY <1>3 DEF n

LEMMA ResampleIs ==
  ASSUME NEW f, FrameOK(f), NEW span \in Positive
  PROVE  LET G == Grouped(f, span)
             R == Resample(f, span)
         IN  /\ R \in Seq(Bars) /\ Len(R) <= Len(G)
             /\ \A i \in 1 .. Len(R) : R[i] = G[i]
             /\ Len(f) > 0 =>
                  /\ Len(G) > 0 /\ G[Len(G)].at = Bin(f[Len(f)].at, span)
                  /\ Len(R) = IF Ends(f, f[Len(f)].at, span) THEN Len(G) ELSE Len(G) - 1
<1>. DEFINE G == Grouped(f, span)
            R == Resample(f, span)
            last == Len(G)
<1>1. Shaped(G, f, Len(f), span) /\ Len(f) \in Nat
  BY GroupedShaped, FrameBars
<1>2. G \in Seq(Bars) /\ Len(G) \in Nat
  BY <1>1 DEF Shaped, FrameOK
<1>3. R = IF last > 0 /\ G[last].at + span > f[Len(f)].at + 1 THEN SubSeq(G, 1, last - 1) ELSE G
  BY DEF Resample
<1>. HIDE DEF R, G
<1>4. last > 0 => /\ SubSeq(G, 1, last - 1) \in Seq(Bars) /\ Len(SubSeq(G, 1, last - 1)) = last - 1
                  /\ \A i \in 1 .. (last - 1) : SubSeq(G, 1, last - 1)[i] = G[i]
  BY <1>2, AllButLast
<1>5. Len(f) > 0 => Len(G) > 0 /\ G[Len(G)].at = Bin(f[Len(f)].at, span)
  BY <1>1, <1>2 DEF Shaped
<1>6. Len(f) > 0 => Len(R) = IF Ends(f, f[Len(f)].at, span) THEN Len(G) ELSE Len(G) - 1
  <2>. SUFFICES ASSUME Len(f) > 0
                PROVE  Len(R) = IF Ends(f, f[Len(f)].at, span) THEN Len(G) ELSE Len(G) - 1
    OBVIOUS
  <2>1. Len(f) \in 1 .. Len(f)
    BY <1>1
  <2>2. f[Len(f)].at \in Nat /\ Bin(f[Len(f)].at, span) \in Nat
    BY <2>1, FrameBars, BinBounds
  <2>3. Ends(f, f[Len(f)].at, span) <=> ~(G[last].at + span > f[Len(f)].at + 1)
    BY <1>5, <2>2 DEF Ends, Positive
  <2>. QED
    BY <1>2, <1>3, <1>4, <1>5, <2>3
<1>7. R \in Seq(Bars) /\ Len(R) <= Len(G) /\ \A i \in 1 .. Len(R) : R[i] = G[i]
  BY <1>2, <1>3, <1>4
<1>. QED
  BY <1>5, <1>6, <1>7 DEF R, G

\* What the resampled frame keeps of the candles around bar m.
LEMMA ResampleAround ==
  ASSUME NEW f, FrameOK(f), NEW span \in Positive, NEW m \in 1 .. Len(f), NEW q \in Nat,
         q \in 1 .. Len(Grouped(f, span)), Around(Grouped(f, span), q, f[m].at, span)
  PROVE  LET R == Resample(f, span)
         IN  /\ q - 1 <= Len(R)
             /\ q \in 1 .. Len(R) <=> Ends(f, f[m].at, span)
<1>. DEFINE G == Grouped(f, span)
            R == Resample(f, span)
            t == Bin(f[m].at, span)
            last == f[Len(f)].at
<1>1. Len(f) \in 1 .. Len(f) /\ Len(f) \in Nat /\ Len(f) > 0 /\ m \in 1 .. Len(f)
  BY FrameBars
<1>2. last \in Nat /\ f[m].at \in Nat
  BY <1>1, FrameBars
<1>3. Bin(last, span) \in Nat /\ t \in Nat /\ Bin(last, span) <= last
  BY <1>2, BinBounds
<1>4. /\ R \in Seq(Bars) /\ G[Len(G)].at = Bin(last, span)
      /\ Len(R) = IF Ends(f, last, span) THEN Len(G) ELSE Len(G) - 1
  BY <1>1, ResampleIs
<1>5. Len(G) \in Nat
  <2>1. Shaped(G, f, Len(f), span)
    BY GroupedShaped
  <2>. QED
    BY <2>1 DEF Shaped, FrameOK
<1>6. Ends(f, last, span) <=> Bin(last, span) + span <= last + 1
  BY DEF Ends
<1>7. Ends(f, f[m].at, span) <=> t + span <= last + 1
  BY DEF Ends
<1>8. span \in Nat /\ span > 0
  BY DEF Positive
<1>9. G[q].at = t /\ (q < Len(G) => t + span <= G[Len(G)].at)
  <2>1. q < Len(G) => Len(G) \in (q + 1) .. Len(G)
    BY <1>5
  <2>. QED
    BY <2>1 DEF Around
<1>. HIDE DEF G, R, t, last
<1>10. q \in 1 .. Len(G)
  BY DEF G
<1>11. ASSUME q < Len(G)
       PROVE  (q - 1 <= Len(R)) /\ (q \in 1 .. Len(R) <=> Ends(f, f[m].at, span))
  <2>1. Ends(f, f[m].at, span)
    BY <1>2, <1>3, <1>4, <1>7, <1>8, <1>9, <1>11
  <2>2. Len(R) >= Len(G) - 1
    BY <1>4, <1>5
  <2>3. q - 1 <= Len(R) /\ q \in 1 .. Len(R)
    BY <1>4, <1>5, <1>10, <1>11, <2>2
  <2>. QED
    BY <2>1, <2>3
<1>12. ASSUME q = Len(G)
       PROVE  (q - 1 <= Len(R)) /\ (q \in 1 .. Len(R) <=> Ends(f, f[m].at, span))
  <2>1. t = Bin(last, span)
    BY <1>4, <1>9, <1>12
  <2>2. Ends(f, f[m].at, span) <=> Ends(f, last, span)
    BY <1>6, <1>7, <2>1
  <2>. QED
    BY <1>4, <1>5, <1>10, <1>12, <2>2
<1>13. (q - 1 <= Len(R)) /\ (q \in 1 .. Len(R) <=> Ends(f, f[m].at, span))
  BY <1>5, <1>10, <1>11, <1>12
<1>. QED
  BY <1>13 DEF R

-----------------------------------------------------------------------------
(* Labels: what is traded at a bar depends on earlier bars only.            *)

\* Two frames that are the same before bar q, which both have or neither has, and
\* which are both long enough for labels or too short.
Like(f, g, q) ==
  /\ q \in Nat \ {0} /\ Len(f) \in Nat /\ Len(g) \in Nat
  /\ q - 1 <= Len(f) /\ q - 1 <= Len(g)
  /\ DOMAIN f = 1 .. Len(f) /\ DOMAIN g = 1 .. Len(g)
  /\ \A i \in 1 .. (q - 1) : f[i] = g[i]
  /\ q <= Len(f) <=> q <= Len(g)
  /\ Len(f) >= MinBars <=> Len(g) >= MinBars

LEMMA PivotLike ==
  ASSUME NEW f, NEW g, NEW q, Like(f, g, q), NEW dir, NEW c \in Int, c + RightBars <= q - 1
  PROVE  Pivot(f, c, dir) <=> Pivot(g, c, dir)
<1>. DEFINE side == (c - LeftBars) .. (c + RightBars)
<1>0. LeftBars \in Nat /\ RightBars \in Nat /\ q \in Nat /\ Len(f) \in Nat /\ Len(g) \in Nat
  BY LabelAssumptions DEF Like
<1>a. ASSUME NEW n \in Nat, q - 1 <= n PROVE side \subseteq 1 .. n <=> side \subseteq 1 .. (q - 1)
  <2>1. c - LeftBars \in side
    BY <1>0
  <2>2. side \subseteq 1 .. n => 1 <= c - LeftBars
    BY <2>1
  <2>3. 1 <= c - LeftBars => side \subseteq 1 .. (q - 1)
    BY <1>0
  <2>4. side \subseteq 1 .. (q - 1) => side \subseteq 1 .. n
    BY <1>0, <1>a
  <2>. QED
    BY <2>2, <2>3, <2>4
<1>. HIDE DEF side
<1>1. side \subseteq DOMAIN f <=> side \subseteq 1 .. (q - 1)
  BY <1>0, <1>a DEF Like
<1>2. side \subseteq DOMAIN g <=> side \subseteq 1 .. (q - 1)
  BY <1>0, <1>a DEF Like
<1>3. CASE side \subseteq 1 .. (q - 1)
  <2>1. \A j \in side : f[j] = g[j]
    BY <1>3 DEF Like
  <2>2. c \in side /\ \A j \in (c - LeftBars) .. (c - 1) : j \in side
    BY <1>0 DEF side
  <2>3. \A j \in side : Reach(f[j], dir) = Reach(g[j], dir)
    BY <2>1
  <2>. QED
    BY <1>1, <1>2, <2>2, <2>3 DEF Pivot, side
<1>4. CASE ~(side \subseteq 1 .. (q - 1))
  BY <1>1, <1>2, <1>4 DEF Pivot, side
<1>. QED
  BY <1>3, <1>4

LEMMA KnownPivotsLike ==
  ASSUME NEW f, NEW g, NEW q, Like(f, g, q), NEW dir, NEW i \in 1 .. (q - 1)
  PROVE  /\ KnownPivots(f, i, dir) = KnownPivots(g, i, dir)
         /\ KnownPivots(f, i, dir) \subseteq 1 .. (i - 1)
<1>0. RightBars \in Nat \ {0} /\ q \in Nat /\ i \in Nat
  BY LabelAssumptions DEF Like
<1>1. ASSUME NEW c \in 1 .. (i - RightBars) PROVE Pivot(f, c, dir) <=> Pivot(g, c, dir)
  <2>1. c \in Int /\ c + RightBars <= q - 1
    BY <1>0
  <2>. QED
    BY <2>1, PivotLike
<1>. QED
  BY <1>0, <1>1 DEF KnownPivots

LEMMA ClearLike ==
  ASSUME NEW v, NEW w, NEW c \in Nat, NEW i \in Nat, NEW x, NEW y,
         \A j \in c .. i : v[j] = w[j]
  PROVE  Clear(v, c, i, x, y) <=> Clear(w, c, i, x, y)
<1>1. \A k \in 1 .. (i - c - 1) : i - k \in c .. i
  OBVIOUS
<1>2. \A k \in 1 .. (i - c - 1) : v[i - k] = w[i - k]
  BY <1>1
<1>. QED
  BY <1>2 DEF Clear

LEMMA DivergesLike ==
  ASSUME NEW f, NEW g, NEW q, Like(f, g, q), NEW dir, NEW i \in 1 .. (q - 1),
         NEW c \in 1 .. i, NEW name
  PROVE  Diverges(f, i, c, dir, name) <=> Diverges(g, i, c, dir, name)
<1>. DEFINE v == [j \in DOMAIN f |-> Seen(dir, f[j].ind[name])]
            w == [j \in DOMAIN g |-> Seen(dir, g[j].ind[name])]
<1>0. q \in Nat /\ c \in Nat /\ i \in Nat /\ c \in c .. i /\ i \in c .. i
  BY DEF Like
<1>1. ASSUME NEW j \in c .. i PROVE v[j] = w[j]
  <2>1. j \in DOMAIN f /\ j \in DOMAIN g /\ f[j] = g[j]
    BY <1>0 DEF Like
  <2>. QED
    BY <2>1
<1>2. Diverges(f, i, c, dir, name) <=> v[i] < v[c] /\ (CheckCutThrough => Clear(v, c, i, v[c], v[i]))
  BY DEF Diverges
<1>3. Diverges(g, i, c, dir, name) <=> w[i] < w[c] /\ (CheckCutThrough => Clear(w, c, i, w[c], w[i]))
  BY DEF Diverges
<1>. HIDE DEF v, w
<1>4. v[i] = w[i] /\ v[c] = w[c]
  BY <1>0, <1>1
<1>5. Clear(v, c, i, v[c], v[i]) <=> Clear(w, c, i, v[c], v[i])
  BY <1>0, <1>1, ClearLike
<1>. QED
  BY <1>2, <1>3, <1>4, <1>5

LEMMA LabelLike ==
  ASSUME NEW f, NEW g, NEW q, Like(f, g, q), NEW dir, NEW i \in 1 .. (q - 1)
  PROVE  Label(f, i, dir) <=> Label(g, i, dir)
<1>0. q \in Nat /\ i \in Nat /\ LeftBars \in Nat \ {0}
  BY LabelAssumptions DEF Like
<1>1. CASE ~(i > LeftBars) \/ KnownPivots(f, i, dir) = {}
  BY <1>1, KnownPivotsLike DEF Label
<1>2. CASE i > LeftBars /\ KnownPivots(f, i, dir) # {}
  <2>. DEFINE P == KnownPivots(f, i, dir)
              c == Max(P)
              close(h) == [j \in DOMAIN h |-> Seen(dir, h[j].c)]
              diverged(h) == {name \in Indicators : Diverges(h, i, c, dir, name)}
              rest(h) ==
                /\ \A j \in (i - LeftBars) .. i : Reach(h[j], dir) <= Reach(h[i], dir)
                /\ Reach(h[c], dir) < Reach(h[i], dir)
                /\ Clear(close(h), c, i, Reach(h[c], dir), Reach(h[i], dir))
                /\ Cardinality(diverged(h)) >= MinDivergent /\ Required \subseteq diverged(h)
  <2>1. P = KnownPivots(g, i, dir) /\ P \subseteq 1 .. (i - 1) /\ P # {}
    BY <1>2, KnownPivotsLike
  <2>2. c \in P
    <3>1. P \in SUBSET Nat /\ \A x \in P : x <= i
      BY <1>0, <2>1
    <3>. QED
      BY <1>0, <2>1, <3>1, MaxOfNat
  <2>3. Label(f, i, dir) <=> Len(f) >= MinBars /\ i > LeftBars /\ i > RightBars /\ rest(f)
    BY <2>1 DEF Label
  <2>4. Label(g, i, dir) <=> Len(g) >= MinBars /\ i > LeftBars /\ i > RightBars /\ rest(g)
    BY <2>1 DEF Label
  <2>5. c \in 1 .. i /\ c \in 1 .. (q - 1)
    BY <1>0, <2>1, <2>2
  <2>. HIDE DEF P, c
  <2>6. f[i] = g[i] /\ f[c] = g[c] /\ \A j \in (i - LeftBars) .. i : f[j] = g[j]
    BY <1>0, <1>2, <2>5 DEF Like
  <2>7. \A name \in Indicators : Diverges(f, i, c, dir, name) <=> Diverges(g, i, c, dir, name)
    BY <2>5, DivergesLike
  <2>8. diverged(f) = diverged(g)
    BY <2>7
  <2>9. ASSUME NEW j \in c .. i PROVE close(f)[j] = close(g)[j]
    <3>1. j \in DOMAIN f /\ j \in DOMAIN g /\ f[j] = g[j]
      BY <1>0, <2>5 DEF Like
    <3>. QED
      BY <3>1
  <2>. HIDE DEF close, diverged
  <2>10. c \in Nat
    BY <2>5
  <2>11. Clear(close(f), c, i, Reach(f[c], dir), Reach(f[i], dir))
           <=> Clear(close(g), c, i, Reach(f[c], dir), Reach(f[i], dir))
    BY <1>0, <2>9, <2>10, ClearLike
  <2>12. rest(f) <=> rest(g)
    BY <2>6, <2>8, <2>11
  <2>13. Len(f) >= MinBars <=> Len(g) >= MinBars
    BY DEF Like
  <2>. QED
    BY <2>3, <2>4, <2>12, <2>13
<1>. QED
  BY <1>1, <1>2

\* Where labels of a frame are traded: in the frame, after the bar of the label.
LEMMA EntriesIn ==
  ASSUME NEW f, DOMAIN f = 1 .. Len(f), Len(f) \in Nat, NEW mode, NEW dir,
         NEW i \in Entries(f, mode, dir)
  PROVE  LET delay == IF mode = "FAST" THEN 2 ELSE RightBars + 1
         IN  /\ i \in 1 .. Len(f) /\ i - delay \in 1 .. Len(f) /\ i - delay < i
             /\ Label(f, i - delay, dir)
             /\ IF mode = "FAST" THEN ~Label(f, i - delay + 1, dir) ELSE Pivot(f, i - delay, dir)
<1>. DEFINE delay == IF mode = "FAST" THEN 2 ELSE RightBars + 1
<1>0. RightBars \in Nat \ {0}
  BY LabelAssumptions
<1>1. PICK j \in DOMAIN f : i \in IF mode = "FAST" THEN FastEntry(f, j, dir)
                                                  ELSE ConfirmedEntry(f, j, dir)
  BY DEF Entries
<1>2. CASE mode = "FAST"
  <2>1. Label(f, j, dir) /\ j + 2 \in DOMAIN f /\ ~Label(f, j + 1, dir) /\ i = j + 2
    BY <1>1, <1>2 DEF FastEntry
  <2>2. i - 2 = j /\ j + 1 = i - 2 + 1 /\ j \in 1 .. Len(f) /\ i \in 1 .. Len(f) /\ j < i
    BY <1>1, <2>1
  <2>. QED
    BY <1>2, <2>1, <2>2
<1>3. CASE mode # "FAST"
  <2>1. Label(f, j, dir) /\ Pivot(f, j, dir) /\ j + RightBars + 1 \in DOMAIN f /\ i = j + RightBars + 1
    BY <1>1, <1>3 DEF ConfirmedEntry
  <2>2. i - (RightBars + 1) = j /\ j \in 1 .. Len(f) /\ i \in 1 .. Len(f) /\ j < i
    BY <1>0, <1>1, <2>1
  <2>. QED
    BY <1>3, <2>1, <2>2
<1>. QED
  BY <1>2, <1>3

LEMMA EntriesOut ==
  ASSUME NEW f, DOMAIN f = 1 .. Len(f), Len(f) \in Nat, NEW mode, NEW dir, NEW i \in 1 .. Len(f),
         LET delay == IF mode = "FAST" THEN 2 ELSE RightBars + 1
         IN  /\ i - delay \in 1 .. Len(f) /\ Label(f, i - delay, dir)
             /\ IF mode = "FAST" THEN ~Label(f, i - delay + 1, dir) ELSE Pivot(f, i - delay, dir)
  PROVE  i \in Entries(f, mode, dir)
<1>. DEFINE delay == IF mode = "FAST" THEN 2 ELSE RightBars + 1
            j == i - delay
<1>0. RightBars \in Nat \ {0}
  BY LabelAssumptions
<1>1. j \in DOMAIN f /\ Label(f, j, dir)
  OBVIOUS
<1>2. CASE mode = "FAST"
  <2>1. j + 2 = i /\ i - 2 + 1 = j + 1
    BY <1>2
  <2>2. i \in FastEntry(f, j, dir)
    BY <1>1, <1>2, <2>1 DEF FastEntry
  <2>. QED
    BY <1>1, <1>2, <2>2 DEF Entries
<1>3. CASE mode # "FAST"
  <2>1. j + RightBars + 1 = i
    BY <1>0, <1>3
  <2>2. i \in ConfirmedEntry(f, j, dir)
    BY <1>1, <1>3, <2>1 DEF ConfirmedEntry
  <2>. QED
    BY <1>1, <1>3, <2>2 DEF Entries
<1>. QED
  BY <1>2, <1>3

LEMMA EntriesLike ==
  ASSUME NEW f, NEW g, NEW q, Like(f, g, q), NEW mode, NEW dir, NEW i \in 1 .. q,
         i \in Entries(f, mode, dir)
  PROVE  i \in Entries(g, mode, dir)
<1>. DEFINE delay == IF mode = "FAST" THEN 2 ELSE RightBars + 1
            j == i - delay
<1>0. RightBars \in Nat \ {0} /\ q \in Nat /\ Len(f) \in Nat /\ Len(g) \in Nat
      /\ DOMAIN f = 1 .. Len(f) /\ DOMAIN g = 1 .. Len(g)
  BY LabelAssumptions DEF Like
<1>1. /\ i \in 1 .. Len(f) /\ j \in 1 .. Len(f) /\ j < i /\ Label(f, j, dir)
      /\ IF mode = "FAST" THEN ~Label(f, j + 1, dir) ELSE Pivot(f, j, dir)
  BY <1>0, EntriesIn
<1>2. i \in 1 .. Len(g) /\ j \in 1 .. (q - 1) /\ j \in 1 .. Len(g)
  BY <1>0, <1>1 DEF Like
<1>3. Label(g, j, dir)
  BY <1>1, <1>2, LabelLike
<1>4. IF mode = "FAST" THEN ~Label(g, j + 1, dir) ELSE Pivot(g, j, dir)
  <2>1. CASE mode = "FAST"
    <3>1. j + 1 \in 1 .. (q - 1)
      BY <1>0, <1>1, <2>1
    <3>. QED
      BY <1>1, <2>1, <3>1, LabelLike
  <2>2. CASE mode # "FAST"
    <3>1. j \in Int /\ j + RightBars <= q - 1
      BY <1>0, <1>1, <2>2
    <3>. QED
      BY <1>1, <2>2, <3>1, PivotLike
  <2>. QED
    BY <2>1, <2>2
<1>. HIDE DEF j, delay
<1>5. j \in 1 .. Len(g) /\ Label(g, j, dir)
  BY <1>2, <1>3
<1>. QED
  BY <1>0, <1>2, <1>4, <1>5, EntriesOut DEF j, delay

-----------------------------------------------------------------------------
(* When labels are traded.                                                  *)

\* The first time of the frame from t on, when there is one.
Times(f, t) == {f[i].at : i \in {j \in DOMAIN f : f[j].at >= t}}

LEMMA TimesAre ==
  ASSUME NEW f, FrameOK(f), NEW t
  PROVE  /\ Times(f, t) \in SUBSET Nat
         /\ \A x : x \in Times(f, t) <=> \E i \in 1 .. Len(f) : x = f[i].at /\ f[i].at >= t
BY FrameBars DEF Times

LEMMA FirstTime ==
  ASSUME NEW f, FrameOK(f), NEW t, Times(f, t) # {}
  PROVE  \E i \in 1 .. Len(f) : /\ Min(Times(f, t)) = f[i].at /\ f[i].at >= t
                                /\ \A j \in 1 .. Len(f) : f[j].at >= t => f[i].at <= f[j].at
<1>1. Min(Times(f, t)) \in Times(f, t) /\ \A x \in Times(f, t) : Min(Times(f, t)) <= x
  BY TimesAre, MinOfNat
<1>. QED
  BY <1>1, TimesAre

LEMMA FirstMeet ==
  ASSUME NEW f, FrameOK(f), NEW g, FrameOK(g), NEW m, Meet(f, g, m), NEW t \in Nat, t <= f[m].at
  PROVE  /\ Times(f, t) # {} /\ Times(g, t) # {}
         /\ Min(Times(f, t)) = Min(Times(g, t)) /\ Min(Times(f, t)) <= f[m].at
<1>1. /\ m \in 1 .. Len(f) /\ m \in 1 .. Len(g) /\ f[m].at = g[m].at
      /\ Len(f) \in Nat /\ Len(g) \in Nat
  BY FrameBars DEF Meet
<1>2. f[m].at \in Times(f, t) /\ g[m].at \in Times(g, t)
  BY <1>1, TimesAre
<1>3. PICK i \in 1 .. Len(f) : /\ Min(Times(f, t)) = f[i].at /\ f[i].at >= t
                               /\ \A j \in 1 .. Len(f) : f[j].at >= t => f[i].at <= f[j].at
  BY <1>2, FirstTime
<1>4. PICK k \in 1 .. Len(g) : /\ Min(Times(g, t)) = g[k].at /\ g[k].at >= t
                               /\ \A j \in 1 .. Len(g) : g[j].at >= t => g[k].at <= g[j].at
  BY <1>2, FirstTime
<1>5. f[i].at <= f[m].at /\ g[k].at <= g[m].at
  BY <1>1, <1>3, <1>4
<1>6. f[i].at \in Nat /\ f[m].at \in Nat /\ g[k].at \in Nat /\ g[m].at \in Nat
  BY <1>1, FrameBars
<1>7. i \in 1 .. Len(g) /\ f[i].at = g[i].at
  <2>1. i <= m
    <3>1. m < i => f[m].at < f[i].at
      BY <1>1, FrameBars
    <3>. QED
      BY <1>1, <1>5, <1>6, <3>1
  <2>. QED
    BY <1>1, <2>1 DEF Meet
<1>8. k \in 1 .. Len(f) /\ f[k].at = g[k].at
  <2>1. k <= m
    <3>1. m < k => g[m].at < g[k].at
      BY <1>1, FrameBars
    <3>. QED
      BY <1>1, <1>5, <1>6, <3>1
  <2>. QED
    BY <1>1, <2>1 DEF Meet
<1>9. f[i].at <= f[k].at /\ g[k].at <= g[i].at
  BY <1>3, <1>4, <1>7, <1>8
<1>. QED
  BY <1>2, <1>3, <1>4, <1>5, <1>6, <1>7, <1>8, <1>9

\* The candles of the trigger frame, each with a bar before the next candle.
LEMMA TriggerFrameOK ==
  ASSUME NEW f, FrameOK(f), config.span \in Positive
  PROVE  LET F == TriggerFrame(f)
         IN  /\ Len(F) \in Nat /\ DOMAIN F = 1 .. Len(F)
             /\ \A i \in 1 .. Len(F) : F[i].at \in Nat
             /\ \A i \in 1 .. Len(F) : \E j \in 1 .. Len(f) :
                  /\ F[i].at <= f[j].at
                  /\ \A k \in (i + 1) .. Len(F) : f[j].at < F[k].at
<1>. DEFINE F == TriggerFrame(f)
            span == config.span
            G == Grouped(f, span)
<1>1. CASE span = 1
  <2>1. F = f
    BY <1>1 DEF TriggerFrame
  <2>2. /\ Len(f) \in Nat /\ DOMAIN f = 1 .. Len(f)
        /\ \A i \in 1 .. Len(f) : f[i].at \in Nat
        /\ \A i, j \in 1 .. Len(f) : i < j => f[i].at < f[j].at
    BY FrameBars
  <2>3. \A i \in 1 .. Len(f) : f[i].at <= f[i].at /\ \A k \in (i + 1) .. Len(f) : f[i].at < f[k].at
    BY <2>2
  <2>. QED
    BY <2>1, <2>2, <2>3
<1>2. CASE span # 1
  <2>1. F = Resample(f, span)
    BY <1>2 DEF TriggerFrame
  <2>2. F \in Seq(Bars) /\ Len(F) <= Len(G) /\ \A i \in 1 .. Len(F) : F[i] = G[i]
    BY <2>1, ResampleIs
  <2>3. Shaped(G, f, Len(f), span)
    BY GroupedShaped
  <2>. HIDE DEF F, G
  <2>4. FrameOK(G) /\ \A i \in 1 .. Len(G) : \E j \in 1 .. Len(f) : G[i].at = Bin(f[j].at, span)
    BY <2>3 DEF Shaped
  <2>5. /\ Len(F) \in Nat /\ Len(G) \in Nat /\ DOMAIN F = 1 .. Len(F)
    BY <2>2, <2>4, FrameBars
  <2>6. /\ \A i \in 1 .. Len(G) : G[i].at \in Nat
        /\ \A i, j \in 1 .. Len(G) : i < j => G[i].at < G[j].at
    BY <2>4, FrameBars
  <2>7. \A i \in 1 .. Len(F) : i \in 1 .. Len(G) /\ F[i].at = G[i].at
    BY <2>2, <2>5
  <2>8. ASSUME NEW i \in 1 .. Len(F)
        PROVE \E j \in 1 .. Len(f) : /\ F[i].at <= f[j].at
                                     /\ \A k \in (i + 1) .. Len(F) : f[j].at < F[k].at
    <3>1. PICK j \in 1 .. Len(f) : F[i].at = Bin(f[j].at, span)
      BY <2>4, <2>7
    <3>2. f[j].at \in Nat
      BY FrameBars
    <3>3. Bin(f[j].at, span) <= f[j].at /\ f[j].at < Bin(f[j].at, span) + span
      BY <3>2, BinBounds
    <3>4. ASSUME NEW k \in (i + 1) .. Len(F) PROVE f[j].at < F[k].at
      <4>1. k \in 1 .. Len(F) /\ i < k
        BY <2>5
      <4>2. PICK n \in 1 .. Len(f) : F[k].at = Bin(f[n].at, span)
        BY <2>4, <2>7, <4>1
      <4>3. f[n].at \in Nat
        BY FrameBars
      <4>4. F[i].at < F[k].at
        BY <2>6, <2>7, <4>1
      <4>5. F[i].at + span <= F[k].at
        BY <3>1, <3>2, <4>2, <4>3, <4>4, BinOrder
      <4>6. f[j].at < F[i].at + span
        BY <3>1, <3>3
      <4>7. F[i].at \in Nat /\ F[k].at \in Nat
        <5>1. F[i].at = G[i].at /\ F[k].at = G[k].at /\ i \in 1 .. Len(G) /\ k \in 1 .. Len(G)
          BY <2>7, <4>1
        <5>2. G[i].at \in Nat /\ G[k].at \in Nat
          BY <2>6, <5>1
        <5>. QED
          BY <5>1, <5>2
      <4>8. span \in Nat
        BY DEF Positive
      <4>9. F[i].at + span \in Int /\ F[k].at \in Int /\ f[j].at \in Int
        BY <3>2, <4>7, <4>8
      <4>. QED
        BY <4>5, <4>6, <4>9, LessTrans
    <3>. QED
      BY <3>1, <3>3, <3>4
  <2>. QED
    BY <2>5, <2>6, <2>7, <2>8 DEF F
<1>. QED
  BY <1>1, <1>2

\* Candles up to the q-th begin at t or before, the others later.
Until(F, q, t) ==
  /\ \A i \in 1 .. Len(F) : i <= q => F[i].at <= t
  /\ \A i \in 1 .. Len(F) : i > q => F[i].at > t

LEMMA UntilBar ==
  ASSUME NEW f, FrameOK(f), NEW m \in 1 .. Len(f)
  PROVE  Until(f, m, f[m].at)
<1>1. /\ \A i \in 1 .. Len(f) : f[i].at \in Nat
      /\ \A i, j \in 1 .. Len(f) : i < j => f[i].at < f[j].at
  BY FrameBars
<1>2. ASSUME NEW i \in 1 .. Len(f), i <= m PROVE f[i].at <= f[m].at
  <2>1. CASE i = m
    BY <1>1, <2>1
  <2>2. CASE i < m
    BY <1>1, <2>2
  <2>. QED
    BY <1>2, <2>1, <2>2
<1>3. \A i \in 1 .. Len(f) : i > m => f[i].at > f[m].at
  BY <1>1
<1>. QED
  BY <1>2, <1>3 DEF Until

LEMMA UntilAround ==
  ASSUME NEW c, FrameOK(c), NEW span \in Positive, NEW q \in 1 .. Len(c), NEW t \in Nat,
         Around(c, q, t, span)
  PROVE  Until(c, q, t)
<1>1. Len(c) \in Nat /\ span \in Nat /\ span > 0 /\ \A i \in 1 .. Len(c) : c[i].at \in Nat
  BY FrameBars DEF Positive
<1>2. Bin(t, span) \in Nat /\ Bin(t, span) <= t /\ t < Bin(t, span) + span
  BY BinBounds
<1>3. ASSUME NEW i \in 1 .. Len(c), i <= q PROVE c[i].at <= t
  <2>1. CASE i = q
    BY <1>2, <2>1 DEF Around
  <2>2. CASE i \in 1 .. (q - 1)
    <3>1. c[i].at + span <= Bin(t, span)
      BY <2>2 DEF Around
    <3>. QED
      BY <1>1, <1>2, <3>1
  <2>. QED
    BY <1>1, <1>3, <2>1, <2>2
<1>4. ASSUME NEW i \in 1 .. Len(c), i > q PROVE c[i].at > t
  <2>1. i \in (q + 1) .. Len(c)
    BY <1>1, <1>4
  <2>2. Bin(t, span) + span <= c[i].at
    BY <2>1 DEF Around
  <2>. QED
    BY <1>1, <1>2, <2>2
<1>. QED
  BY <1>3, <1>4 DEF Until

LEMMA UntilFewer ==
  ASSUME NEW c, NEW d, NEW q, NEW t, Len(c) \in Nat, Len(d) \in Nat, Len(c) <= Len(d),
         \A i \in 1 .. Len(c) : c[i] = d[i], Until(d, q, t)
  PROVE  Until(c, q, t)
BY DEF Until

\* Frames that meet at a bar have trigger frames that are the same up to the
\* candle of that bar, if it has ended in both or in none.
LEMMA TriggerMeet ==
  ASSUME NEW f, FrameOK(f), NEW g, FrameOK(g), NEW m, Meet(f, g, m), config.span \in Positive,
         Ends(f, f[m].at, config.span) <=> Ends(g, f[m].at, config.span),
         Len(TriggerFrame(f)) >= MinBars <=> Len(TriggerFrame(g)) >= MinBars
  PROVE  \E q \in Nat :
           LET F == TriggerFrame(f)
               G == TriggerFrame(g)
           IN  /\ Like(F, G, q) /\ Until(F, q, f[m].at) /\ Until(G, q, f[m].at)
               /\ q \in 1 .. Len(F) => F[q].at = G[q].at
<1>. DEFINE F == TriggerFrame(f)
            G == TriggerFrame(g)
            span == config.span
            t == f[m].at
<1>0. /\ m \in 1 .. Len(f) /\ m \in 1 .. Len(g) /\ Len(f) \in Nat /\ Len(g) \in Nat /\ m \in Nat \ {0}
      /\ DOMAIN f = 1 .. Len(f) /\ DOMAIN g = 1 .. Len(g) /\ g[m].at = t /\ t \in Nat
  BY FrameBars DEF Meet
<1>1. CASE span = 1
  <2>1. F = f /\ G = g
    BY <1>1 DEF TriggerFrame
  <2>2. Like(f, g, m)
    BY <1>0, <2>1 DEF Like, Meet
  <2>3. Until(f, m, t)
    BY <1>0, UntilBar
  <2>4. Until(g, m, t)
    BY <1>0, UntilBar
  <2>. QED
    BY <1>0, <2>1, <2>2, <2>3, <2>4
<1>2. CASE span # 1
  <2>1. F = Resample(f, span) /\ G = Resample(g, span)
    BY <1>2 DEF TriggerFrame
  <2>. DEFINE A == Grouped(f, span)
              B == Grouped(g, span)
  <2>2. PICK q \in Nat : Alike(A, B, q) /\ Around(A, q, t, span) /\ Around(B, q, t, span)
    BY GroupedMeet
  <2>3. q \in 1 .. Len(A) /\ q \in 1 .. Len(B)
    BY <2>2 DEF Alike
  <2>4. q - 1 <= Len(F) /\ (q \in 1 .. Len(F) <=> Ends(f, t, span))
    BY <1>0, <2>1, <2>2, <2>3, ResampleAround
  <2>5. q - 1 <= Len(G) /\ (q \in 1 .. Len(G) <=> Ends(g, t, span))
    BY <1>0, <2>1, <2>2, <2>3, ResampleAround
  <2>6. F \in Seq(Bars) /\ Len(F) <= Len(A) /\ \A i \in 1 .. Len(F) : F[i] = A[i]
    BY <2>1, ResampleIs
  <2>7. G \in Seq(Bars) /\ Len(G) <= Len(B) /\ \A i \in 1 .. Len(G) : G[i] = B[i]
    BY <2>1, ResampleIs
  <2>8. Shaped(A, f, Len(f), span) /\ Shaped(B, g, Len(g), span)
    BY GroupedShaped
  <2>9. FrameOK(A) /\ FrameOK(B)
    BY <2>8 DEF Shaped
  <2>. HIDE DEF F, G, A, B
  <2>10. /\ Len(F) \in Nat /\ DOMAIN F = 1 .. Len(F) /\ Len(G) \in Nat /\ DOMAIN G = 1 .. Len(G)
         /\ Len(A) \in Nat /\ Len(B) \in Nat /\ q \in Nat \ {0}
    BY <2>3, <2>6, <2>7, <2>9, FrameBars
  <2>11. \A i \in 1 .. (q - 1) : F[i] = G[i]
    BY <2>2, <2>4, <2>5, <2>6, <2>7, <2>10 DEF Alike
  <2>12. q <= Len(F) <=> q <= Len(G)
    BY <2>4, <2>5, <2>10
  <2>13. Like(F, G, q)
    BY <2>4, <2>5, <2>10, <2>11, <2>12 DEF Like, F, G
  <2>14. Until(F, q, t) /\ Until(G, q, t)
    <3>1. Until(A, q, t) /\ Until(B, q, t)
      BY <1>0, <2>2, <2>3, <2>9, UntilAround
    <3>. QED
      BY <2>6, <2>7, <2>10, <3>1, UntilFewer
  <2>15. q \in 1 .. Len(F) => F[q].at = G[q].at
    BY <2>2, <2>6, <2>7, <2>10, <2>12 DEF Alike
  <2>. QED
    BY <2>13, <2>14, <2>15 DEF F, G
<1>. QED
  BY <1>1, <1>2

\* What is traded at a bar of the trigger frame, the label being `delay' bars before.
Traded(f, F, i) == [entry |-> Min(Times(f, F[i].at)), label |-> F[i - EntryDelay].at]

LEMMA PossibleIs ==
  ASSUME NEW f, NEW dir, NEW b, NEW x
  PROVE  x \in Possible(f, dir, b) <=>
           IF config.trigger = "NONE"
             THEN Times(f, b + 1) # {} /\ x = [entry |-> Min(Times(f, b + 1)), label |-> b]
             ELSE \E i \in Entries(TriggerFrame(f), config.trigger, dir) :
                    x = Traded(f, TriggerFrame(f), i) /\ x.entry >= b
BY DEF Possible, Traded, Times

LEMMA TradedAt ==
  ASSUME NEW f, FrameOK(f), config.span \in Positive, config.trigger # "NONE", NEW dir,
         NEW i \in Entries(TriggerFrame(f), config.trigger, dir)
  PROVE  LET F == TriggerFrame(f)
         IN  /\ i \in 1 .. Len(F) /\ i - EntryDelay \in 1 .. (i - 1)
             /\ Times(f, F[i].at) # {} /\ Min(Times(f, F[i].at)) >= F[i].at
             /\ \E j \in 1 .. Len(f) : Min(Times(f, F[i].at)) = f[j].at
             /\ \A k \in (i + 1) .. Len(F) : Min(Times(f, F[i].at)) < F[k].at
<1>. DEFINE F == TriggerFrame(f)
            t == F[i].at
<1>1. /\ Len(F) \in Nat /\ DOMAIN F = 1 .. Len(F) /\ \A k \in 1 .. Len(F) : F[k].at \in Nat
      /\ \A k \in 1 .. Len(F) : \E j \in 1 .. Len(f) :
           /\ F[k].at <= f[j].at
           /\ \A n \in (k + 1) .. Len(F) : f[j].at < F[n].at
  BY TriggerFrameOK
<1>2. i \in 1 .. Len(F) /\ i - EntryDelay \in 1 .. Len(F) /\ i - EntryDelay < i
  BY <1>1, EntriesIn DEF EntryDelay
<1>3. PICK j \in 1 .. Len(f) : t <= f[j].at /\ \A n \in (i + 1) .. Len(F) : f[j].at < F[n].at
  BY <1>1, <1>2
<1>4. t \in Nat /\ f[j].at \in Nat
  BY <1>1, <1>2, FrameBars
<1>5. f[j].at \in Times(f, t)
  BY <1>3, <1>4, TimesAre
<1>6. PICK k \in 1 .. Len(f) : /\ Min(Times(f, t)) = f[k].at /\ f[k].at >= t
                               /\ \A n \in 1 .. Len(f) : f[n].at >= t => f[k].at <= f[n].at
  BY <1>5, FirstTime
<1>7. f[k].at \in Nat /\ f[k].at <= f[j].at
  BY <1>3, <1>4, <1>6, FrameBars
<1>8. ASSUME NEW n \in (i + 1) .. Len(F) PROVE f[k].at < F[n].at
  <2>1. f[j].at < F[n].at /\ F[n].at \in Nat
    BY <1>1, <1>2, <1>3
  <2>. QED
    BY <1>4, <1>7, <2>1
<1>9. i - EntryDelay \in 1 .. (i - 1)
  BY <1>1, <1>2
<1>. QED
  BY <1>2, <1>5, <1>6, <1>8, <1>9

\* A possible entry is a time of the frame, not before the break.
LEMMA PossibleTime ==
  ASSUME NEW f, FrameOK(f), config.span \in Positive, NEW dir, NEW b \in Nat,
         NEW x \in Possible(f, dir, b)
  PROVE  /\ \E j \in 1 .. Len(f) : x.entry = f[j].at
         /\ x.entry \in Nat /\ b <= x.entry
<1>1. CASE config.trigger = "NONE"
  <2>1. Times(f, b + 1) # {} /\ x.entry = Min(Times(f, b + 1))
    BY <1>1, PossibleIs
  <2>2. PICK i \in 1 .. Len(f) : Min(Times(f, b + 1)) = f[i].at /\ f[i].at >= b + 1
    BY <2>1, FirstTime
  <2>3. f[i].at \in Nat
    BY FrameBars
  <2>. QED
    BY <2>1, <2>2, <2>3
<1>2. CASE config.trigger # "NONE"
  <2>1. PICK i \in Entries(TriggerFrame(f), config.trigger, dir) :
          x = Traded(f, TriggerFrame(f), i) /\ x.entry >= b
    BY <1>2, PossibleIs
  <2>2. \E j \in 1 .. Len(f) : x.entry = f[j].at
    BY <1>2, <2>1, TradedAt DEF Traded
  <2>. QED
    BY <2>1, <2>2, FrameBars
<1>. QED
  BY <1>1, <1>2

\* No two labels are traded at the same time.
LEMMA PossibleOnce ==
  ASSUME NEW f, FrameOK(f), config.span \in Positive, NEW dir, NEW b \in Nat,
         NEW x \in Possible(f, dir, b), NEW y \in Possible(f, dir, b), x.entry = y.entry
  PROVE  x = y
<1>1. CASE config.trigger = "NONE"
  BY <1>1, PossibleIs
<1>2. CASE config.trigger # "NONE"
  <2>. DEFINE F == TriggerFrame(f)
  <2>1. PICK i \in Entries(F, config.trigger, dir) : x = Traded(f, F, i)
    BY <1>2, PossibleIs
  <2>2. PICK j \in Entries(F, config.trigger, dir) : y = Traded(f, F, j)
    BY <1>2, PossibleIs
  <2>3. Len(F) \in Nat /\ \A k \in 1 .. Len(F) : F[k].at \in Nat
    BY TriggerFrameOK
  <2>4. /\ i \in 1 .. Len(F) /\ x.entry >= F[i].at
        /\ \A k \in (i + 1) .. Len(F) : x.entry < F[k].at
    BY <1>2, <2>1, TradedAt DEF Traded
  <2>5. /\ j \in 1 .. Len(F) /\ y.entry >= F[j].at
        /\ \A k \in (j + 1) .. Len(F) : y.entry < F[k].at
    BY <1>2, <2>2, TradedAt DEF Traded
  <2>6. x.entry \in Nat
    BY PossibleTime
  <2>. HIDE DEF F
  <2>7. ~(i < j)
    <3>1. i < j => j \in (i + 1) .. Len(F)
      BY <2>3, <2>4, <2>5
    <3>. QED
      BY <2>3, <2>4, <2>5, <2>6, <3>1
  <2>8. ~(j < i)
    <3>1. j < i => i \in (j + 1) .. Len(F)
      BY <2>3, <2>4, <2>5
    <3>. QED
      BY <2>3, <2>4, <2>5, <2>6, <3>1
  <2>. QED
    BY <2>1, <2>2, <2>3, <2>4, <2>5, <2>7, <2>8
<1>. QED
  BY <1>1, <1>2

\* The candle of bar m has ended in both frames or in none, and both are long
\* enough for labels or too short.
LabelsMeet(f, g, m) ==
  config.trigger # "NONE" =>
    /\ Ends(f, f[m].at, config.span) <=> Ends(g, f[m].at, config.span)
    /\ Len(TriggerFrame(f)) >= MinBars <=> Len(TriggerFrame(g)) >= MinBars

\* Frames that meet at a bar have the same possible entries up to it.
LEMMA PossibleMeet ==
  ASSUME NEW f, FrameOK(f), NEW g, FrameOK(g), NEW m, Meet(f, g, m), config.span \in Positive,
         LabelsMeet(f, g, m),
         NEW dir, NEW b \in Nat, b < f[m].at \/ config.trigger # "NONE",
         NEW x \in Possible(f, dir, b), x.entry <= f[m].at
  PROVE  x \in Possible(g, dir, b)
<1>. DEFINE F == TriggerFrame(f)
            G == TriggerFrame(g)
            t == f[m].at
<1>0. m \in 1 .. Len(f) /\ t \in Nat
  BY FrameBars DEF Meet
<1>1. CASE config.trigger = "NONE"
  <2>1. b + 1 \in Nat /\ b + 1 <= t
    BY <1>0, <1>1
  <2>2. Times(g, b + 1) # {} /\ Min(Times(f, b + 1)) = Min(Times(g, b + 1))
    BY <2>1, FirstMeet
  <2>3. x = [entry |-> Min(Times(f, b + 1)), label |-> b]
    BY <1>1, PossibleIs
  <2>. QED
    BY <1>1, <2>2, <2>3, PossibleIs
<1>2. CASE config.trigger # "NONE"
  <2>1. PICK i \in Entries(F, config.trigger, dir) : x = Traded(f, F, i) /\ x.entry >= b
    BY <1>2, PossibleIs
  <2>2. PICK q \in Nat : /\ Like(F, G, q) /\ Until(F, q, t) /\ Until(G, q, t)
                         /\ q \in 1 .. Len(F) => F[q].at = G[q].at
    BY <1>2, TriggerMeet DEF LabelsMeet
  <2>3. /\ Len(F) \in Nat /\ DOMAIN F = 1 .. Len(F) /\ Len(G) \in Nat /\ DOMAIN G = 1 .. Len(G)
        /\ \A k \in 1 .. Len(F) : F[k].at \in Nat
    BY TriggerFrameOK
  <2>4. i \in 1 .. Len(F) /\ i - EntryDelay \in 1 .. (i - 1) /\ x.entry >= F[i].at
    BY <1>2, <2>1, TradedAt DEF Traded
  <2>5. x.entry \in Nat
    BY PossibleTime
  <2>. HIDE DEF F, G
  <2>6. F[i].at <= t /\ i <= q
    BY <1>0, <2>2, <2>3, <2>4, <2>5 DEF Until
  <2>7. i \in Entries(G, config.trigger, dir)
    <3>1. i \in 1 .. q
      BY <2>2, <2>3, <2>4, <2>6
    <3>. QED
      BY <2>1, <2>2, <3>1, EntriesLike
  <2>8. F[i].at = G[i].at
    <3>1. i < q => F[i] = G[i]
      BY <2>2, <2>3, <2>4 DEF Like
    <3>. QED
      BY <2>2, <2>3, <2>4, <2>6, <3>1
  <2>9. F[i - EntryDelay].at = G[i - EntryDelay].at
    <3>1. i - EntryDelay \in 1 .. (q - 1)
      BY <2>2, <2>3, <2>4, <2>6
    <3>. QED
      BY <2>2, <3>1 DEF Like
  <2>10. Min(Times(f, F[i].at)) = Min(Times(g, F[i].at))
    BY <2>3, <2>4, <2>6, FirstMeet
  <2>11. x = Traded(g, G, i)
    BY <2>1, <2>8, <2>9, <2>10 DEF Traded
  <2>. QED
    BY <1>2, <2>1, <2>7, <2>11, PossibleIs DEF G
<1>. QED
  BY <1>1, <1>2

LEMMA MeetBack ==
  ASSUME NEW f, NEW g, NEW m, Meet(f, g, m)
  PROVE  /\ Meet(g, f, m) /\ f[m].at = g[m].at
         /\ LabelsMeet(f, g, m) => LabelsMeet(g, f, m)
BY DEF Meet, LabelsMeet

-----------------------------------------------------------------------------
(* The break and the dollar index: what is looked at before minute t.       *)

\* The bars before minute t are the same.
SameBefore(d, e, t) ==
  /\ \A i \in 1 .. Len(d) : d[i].at < t => i \in 1 .. Len(e) /\ e[i] = d[i]
  /\ \A i \in 1 .. Len(e) : e[i].at < t => i \in 1 .. Len(d) /\ d[i] = e[i]

LEMMA SameBack == ASSUME NEW d, NEW e, NEW t, SameBefore(d, e, t) PROVE SameBefore(e, d, t)
BY DEF SameBefore

LEMMA SliceSame ==
  ASSUME NEW d, FrameOK(d), NEW e, FrameOK(e), NEW t \in Nat, SameBefore(d, e, t),
         NEW a \in Nat, NEW b \in Nat, b <= t
  PROVE  /\ Slice(d, a, b) = Slice(e, a, b)
         /\ \A i \in Slice(d, a, b) : i \in 1 .. Len(d) /\ d[i] = e[i]
<1>1. /\ DOMAIN d = 1 .. Len(d) /\ DOMAIN e = 1 .. Len(e)
      /\ \A i \in 1 .. Len(d) : d[i].at \in Nat
      /\ \A i \in 1 .. Len(e) : e[i].at \in Nat
  BY FrameBars
<1>2. ASSUME NEW i \in Slice(d, a, b) PROVE i \in Slice(e, a, b) /\ i \in 1 .. Len(d) /\ d[i] = e[i]
  <2>1. i \in 1 .. Len(d) /\ d[i].at < t /\ a <= d[i].at /\ d[i].at < b
    BY <1>1 DEF Slice
  <2>2. i \in 1 .. Len(e) /\ e[i] = d[i]
    BY <2>1 DEF SameBefore
  <2>. QED
    BY <1>1, <2>1, <2>2 DEF Slice
<1>3. ASSUME NEW i \in Slice(e, a, b) PROVE i \in Slice(d, a, b)
  <2>1. i \in 1 .. Len(e) /\ e[i].at < t /\ a <= e[i].at /\ e[i].at < b
    BY <1>1 DEF Slice
  <2>2. i \in 1 .. Len(d) /\ e[i] = d[i]
    BY <2>1 DEF SameBefore
  <2>. QED
    BY <1>1, <2>1, <2>2 DEF Slice
<1>. QED
  BY <1>2, <1>3

LEMMA HighestSame ==
  ASSUME NEW d, NEW e, NEW S, \A i \in S : d[i] = e[i], NEW dir
  PROVE  Highest(d, S, dir) = Highest(e, S, dir)
<1>1. {Reach(d[i], dir) : i \in S} = {Reach(e[i], dir) : i \in S}
  OBVIOUS
<1>. QED
  BY <1>1 DEF Highest

LEMMA NonConfirmSame ==
  ASSUME NEW d, FrameOK(d), NEW e, FrameOK(e), NEW t \in Nat, SameBefore(d, e, t),
         NEW s \in Session, NEW to \in Nat, to <= t, NEW dir,
         NEW prev, \A i \in prev : d[i] = e[i]
  PROVE  NonConfirm(d, s, to, dir, prev) <=> NonConfirm(e, s, to, dir, prev)
<1>1. s.start \in Nat
  BY DEF Session
<1>2. Slice(d, s.start, to) = Slice(e, s.start, to) /\ \A i \in Slice(d, s.start, to) : d[i] = e[i]
  BY <1>1, SliceSame
<1>3. Highest(d, prev, Opposite(dir)) = Highest(e, prev, Opposite(dir))
  BY HighestSame
<1>. QED
  BY <1>2, <1>3 DEF NonConfirm

LEMMA UncoveredSame ==
  ASSUME NEW d, FrameOK(d), NEW e, FrameOK(e), NEW t \in Nat, SameBefore(d, e, t),
         NEW from \in Nat, NEW to \in Nat, to <= t, NEW prev
  PROVE  Uncovered(d, prev, from, to) <=> Uncovered(e, prev, from, to)
<1>1. Slice(d, from, to) = Slice(e, from, to) /\ \A i \in Slice(d, from, to) : d[i] = e[i]
  BY SliceSame
<1>2. HasGap(d, from, to) <=> HasGap(e, from, to)
  BY <1>1 DEF HasGap
<1>. QED
  BY <1>1, <1>2 DEF Uncovered

LEMMA ReachIs ==
  ASSUME NEW b \in Bars, NEW dir PROVE Reach(b, dir) \in Int
BY DEF Reach, Seen, Bars

\* Some bar reaches as far as the level.
LEMMA HighestReached ==
  ASSUME NEW f, FrameOK(f), NEW S \in SUBSET (1 .. Len(f)), NEW dir, S # {}
  PROVE  \E j \in S : /\ Highest(f, S, dir) = Reach(f[j], dir)
                      /\ \A k \in S : Reach(f[k], dir) <= Reach(f[j], dir)
<1>. DEFINE R == {Reach(f[j], dir) : j \in S}
<1>1. IsFiniteSet(S)
  <2>1. Len(f) \in Nat /\ 1 \in Int /\ Len(f) \in Int
    BY FrameBars
  <2>2. IsFiniteSet(1 .. Len(f))
    BY <2>1, FS_Interval
  <2>. QED
    BY <2>2, FS_Subset
<1>2. \A j \in S : Reach(f[j], dir) \in Int
  BY FrameBars, ReachIs
<1>3. \E j \in S : \A k \in S : Reach(f[k], dir) <= Reach(f[j], dir)
  <2>. DEFINE beaten(j) == {k \in S : Reach(f[k], dir) > Reach(f[j], dir)}
              sizes == {Cardinality(beaten(j)) : j \in S}
  <2>1. \A j \in S : IsFiniteSet(beaten(j)) /\ Cardinality(beaten(j)) \in Nat
    BY <1>1, FS_Subset, FS_CardinalityType
  <2>2. sizes \in SUBSET Nat /\ sizes # {}
    BY <2>1
  <2>3. PICK n \in sizes : \A x \in sizes : n <= x
    BY <2>2, LeastNatural
  <2>4. PICK j \in S : n = Cardinality(beaten(j))
    BY <2>3
  <2>5. ASSUME NEW k \in S, Reach(f[k], dir) > Reach(f[j], dir) PROVE FALSE
    <3>1. ASSUME NEW i0 \in beaten(k) PROVE i0 \in beaten(j)
      <4>1. i0 \in S /\ Reach(f[i0], dir) > Reach(f[k], dir)
        OBVIOUS
      <4>2. Reach(f[i0], dir) \in Int /\ Reach(f[k], dir) \in Int /\ Reach(f[j], dir) \in Int
        BY <4>1, <1>2
      <4>. QED
        BY <2>5, <4>1, <4>2
    <3>2. k \in beaten(j) /\ k \notin beaten(k)
      <4>1. Reach(f[k], dir) \in Int
        BY <1>2
      <4>. QED
        BY <2>5, <4>1
    <3>3. beaten(k) # beaten(j) /\ beaten(k) \subseteq beaten(j) /\ IsFiniteSet(beaten(j))
      BY <2>1, <3>1, <3>2
    <3>4. Cardinality(beaten(k)) < Cardinality(beaten(j))
      <4>. HIDE DEF beaten
      <4>1. Cardinality(beaten(k)) <= Cardinality(beaten(j))
               /\ (Cardinality(beaten(k)) = Cardinality(beaten(j)) => beaten(k) = beaten(j))
        BY <3>3, FS_Subset
      <4>. QED
        BY <2>1, <3>3, <4>1
    <3>5. Cardinality(beaten(k)) \in sizes /\ Cardinality(beaten(k)) \in Nat /\ Cardinality(beaten(j)) \in Nat
      BY <2>1
    <3>6. n <= Cardinality(beaten(k))
      BY <2>3, <3>5
    <3>. HIDE DEF beaten, sizes
    <3>. QED
      BY <2>4, <3>4, <3>5, <3>6
  <2>. QED
    BY <1>2, <2>5
<1>4. PICK j \in S : \A k \in S : Reach(f[k], dir) <= Reach(f[j], dir)
  BY <1>3
<1>5. R \in SUBSET Int /\ Reach(f[j], dir) \in R /\ \A x \in R : x <= Reach(f[j], dir)
  BY <1>2, <1>4
<1>6. Max(R) = Reach(f[j], dir)
  BY <1>5, MaxIs
<1>. QED
  BY <1>4, <1>6 DEF Highest

\* The extremum of a slice is at least that of each of its bars.
LEMMA HighestIs ==
  ASSUME NEW f, FrameOK(f), NEW S \in SUBSET (1 .. Len(f)), NEW dir, NEW i \in S
  PROVE  Highest(f, S, dir) \in Int /\ Reach(f[i], dir) <= Highest(f, S, dir)
<1>1. PICK j \in S : /\ Highest(f, S, dir) = Reach(f[j], dir)
                     /\ \A k \in S : Reach(f[k], dir) <= Reach(f[j], dir)
  BY HighestReached
<1>2. f[j] \in Bars
  BY FrameBars
<1>3. Reach(f[j], dir) \in Int
  BY <1>2, ReachIs
<1>. QED
  BY <1>1, <1>3

-----------------------------------------------------------------------------
(* The break is found in any frame that has the same bars up to it.         *)

Previous(f, k) == scenario.sessions[Max(Earlier(f, k))]
Level(f, k, dir) == Highest(f, SessionSlice(f, Previous(f, k)), dir)
Breaks(f, k, dir) == Breaking(f, scenario.sessions[k], Level(f, k, dir), dir)

\* Session k is considered and breaks the level of the previous one.
Reached(f, k, dir) ==
  /\ k \in Active(f) /\ scenario.sessions[k].traded /\ Earlier(f, k) # {}
  /\ Loaded(f, Previous(f, k))
  /\ Breaks(f, k, dir) # {}
FirstBreak(f, k, dir) == f[Min(Breaks(f, k, dir))].at

LEMMA VerdictIs ==
  ASSUME NEW f, NEW d, NEW k, NEW dir
  PROVE  /\ Reached(f, k, dir) =>
              Verdict(f, d, k, dir) =
                Broken(f, d, scenario.sessions[k], Previous(f, k), dir, FirstBreak(f, k, dir))
         /\ ~Reached(f, k, dir) =>
              Verdict(f, d, k, dir).is \in
                {"NOT_CONSIDERED", "PREVIOUS_SESSION_DATA_MISSING", "NO_PAIR_BREAK"}
BY DEF Verdict, Reached, Previous, Level, Breaks, FirstBreak, Refused

\* The sessions of the scenario, sorted by their start.
SessionsOK ==
  /\ DOMAIN scenario.sessions = 1 .. Len(scenario.sessions) /\ Len(scenario.sessions) \in Nat
  /\ \A k \in DOMAIN scenario.sessions :
       /\ scenario.sessions[k] \in Session
       /\ \A j \in 1 .. (k - 1) : scenario.sessions[j].start <= scenario.sessions[k].start

LEMMA SliceIs ==
  ASSUME NEW f, FrameOK(f), NEW a \in Nat, NEW b \in Nat
  PROVE  \A i : i \in Slice(f, a, b) <=> i \in 1 .. Len(f) /\ a <= f[i].at /\ f[i].at < b
BY FrameBars DEF Slice

LEMMA EarlierIs ==
  ASSUME NEW f, SessionsOK, NEW k \in DOMAIN scenario.sessions, Earlier(f, k) # {}
  PROVE  /\ Max(Earlier(f, k)) \in Earlier(f, k)
         /\ Max(Earlier(f, k)) \in DOMAIN scenario.sessions /\ Max(Earlier(f, k)) \in 1 .. (k - 1)
         /\ Previous(f, k) \in Session
<1>1. Earlier(f, k) \in SUBSET Nat /\ Earlier(f, k) \subseteq 1 .. (k - 1) /\ k \in Nat
      /\ Earlier(f, k) \subseteq DOMAIN scenario.sessions
  BY DEF Earlier, Active, SessionsOK
<1>2. Max(Earlier(f, k)) \in Earlier(f, k)
  <2>1. \A x \in Earlier(f, k) : x <= k
    BY <1>1
  <2>. QED
    BY <1>1, <2>1, MaxOfNat
<1>. QED
  BY <1>1, <1>2 DEF Previous, SessionsOK

\* The bar of the break, at which the previous session has ended: its own bars do
\* not reach further than its level.
LEMMA FirstBreakIs ==
  ASSUME NEW f, FrameOK(f), SessionsOK, config.tolerance \in Nat,
         NEW k \in DOMAIN scenario.sessions, NEW dir, Reached(f, k, dir)
  PROVE  LET i == Min(Breaks(f, k, dir))
         IN  /\ i \in 1 .. Len(f) /\ i \in Breaks(f, k, dir)
             /\ \A j \in Breaks(f, k, dir) : i <= j
             /\ FirstBreak(f, k, dir) \in Nat
             /\ scenario.sessions[k].start <= FirstBreak(f, k, dir)
             /\ FirstBreak(f, k, dir) < scenario.sessions[k].end
             /\ Previous(f, k) \in Session /\ Previous(f, k).end <= FirstBreak(f, k, dir)
<1>. DEFINE s == scenario.sessions[k]
            p == Previous(f, k)
            i == Min(Breaks(f, k, dir))
            b == f[i].at
            level == Level(f, k, dir)
<1>1. s \in Session /\ p \in Session /\ Max(Earlier(f, k)) \in 1 .. (k - 1)
      /\ Max(Earlier(f, k)) \in Active(f) /\ p = scenario.sessions[Max(Earlier(f, k))]
  BY EarlierIs DEF Reached, SessionsOK, Previous, Earlier
<1>2. s.start \in Nat /\ s.end \in Nat /\ p.start \in Nat /\ p.end \in Nat
  BY <1>1 DEF Session
<1>3. p.start <= s.start
  BY <1>1 DEF SessionsOK
<1>4. \A j : j \in SessionSlice(f, s) <=> j \in 1 .. Len(f) /\ s.start <= f[j].at /\ f[j].at < s.end
  BY <1>2, SliceIs DEF SessionSlice
<1>5. \A j : j \in SessionSlice(f, p) <=> j \in 1 .. Len(f) /\ p.start <= f[j].at /\ f[j].at < p.end
  BY <1>2, SliceIs DEF SessionSlice
<1>6. \A j : j \in Breaks(f, k, dir) <=>
               j \in SessionSlice(f, s) /\ Reach(f[j], dir) > level + config.tolerance
  BY DEF Breaks, Breaking
<1>7. Len(f) \in Nat /\ \A j \in 1 .. Len(f) : f[j] \in Bars /\ f[j].at \in Nat
  BY FrameBars
<1>8. i \in Breaks(f, k, dir) /\ \A j \in Breaks(f, k, dir) : i <= j
  <2>1. Breaks(f, k, dir) \in SUBSET Nat /\ Breaks(f, k, dir) # {}
    BY <1>4, <1>6, <1>7 DEF Reached
  <2>. QED
    BY <2>1, MinOfNat
<1>9. i \in 1 .. Len(f) /\ s.start <= b /\ b < s.end /\ b \in Nat
      /\ Reach(f[i], dir) > level + config.tolerance
  BY <1>4, <1>6, <1>7, <1>8
<1>10. p.end <= b
  <2>. SUFFICES ASSUME ~(p.end <= b) PROVE FALSE
    OBVIOUS
  <2>1. i \in SessionSlice(f, p)
    BY <1>2, <1>3, <1>5, <1>9
  <2>2. SessionSlice(f, p) \in SUBSET (1 .. Len(f))
    BY <1>5
  <2>3. level \in Int /\ Reach(f[i], dir) <= level
    BY <2>1, <2>2, HighestIs DEF Level
  <2>4. Reach(f[i], dir) \in Int
    BY <1>7, <1>9, ReachIs
  <2>. QED
    BY <1>9, <2>3, <2>4
<1>. QED
  BY <1>1, <1>8, <1>9, <1>10 DEF FirstBreak

\* A session that begins before minute b has a bar in one frame if in the other.
LEMMA ActiveSame ==
  ASSUME NEW f, FrameOK(f), NEW g, FrameOK(g), NEW t \in Nat, SameBefore(f, g, t),
         NEW i \in 1 .. Len(f), f[i].at < t, NEW s \in Session, s.start <= f[i].at,
         SessionSlice(f, s) # {}
  PROVE  SessionSlice(g, s) # {}
<1>1. s.start \in Nat /\ s.end \in Nat
  BY DEF Session
<1>2. PICK j \in 1 .. Len(f) : s.start <= f[j].at /\ f[j].at < s.end
  BY <1>1, SliceIs DEF SessionSlice
<1>3. f[j].at \in Nat /\ f[i].at \in Nat
  BY FrameBars
<1>4. \E n \in 1 .. Len(f) : s.start <= f[n].at /\ f[n].at < s.end /\ f[n].at < t
  <2>1. CASE f[j].at < t
    BY <1>2, <2>1
  <2>2. CASE ~(f[j].at < t)
    BY <1>1, <1>2, <1>3, <2>2
  <2>. QED
    BY <2>1, <2>2
<1>5. PICK n \in 1 .. Len(f) : s.start <= f[n].at /\ f[n].at < s.end /\ f[n].at < t
  BY <1>4
<1>6. n \in 1 .. Len(g) /\ g[n] = f[n]
  BY <1>5 DEF SameBefore
<1>7. n \in SessionSlice(g, s)
  BY <1>1, <1>5, <1>6, SliceIs DEF SessionSlice
<1>. QED
  BY <1>7

LEMMA EarlierSame ==
  ASSUME NEW f, FrameOK(f), NEW g, FrameOK(g), NEW t \in Nat, SameBefore(f, g, t), SessionsOK,
         NEW k \in DOMAIN scenario.sessions, NEW i \in 1 .. Len(f), f[i].at < t,
         scenario.sessions[k].start <= f[i].at
  PROVE  Earlier(f, k) = Earlier(g, k)
<1>1. /\ k \in Nat /\ f[i].at \in Nat
      /\ \A j \in DOMAIN scenario.sessions : j \in Nat /\ scenario.sessions[j] \in Session
      /\ \A j \in DOMAIN scenario.sessions : j < k => scenario.sessions[j].start <= scenario.sessions[k].start
  <2>1. k \in Nat /\ \A j \in DOMAIN scenario.sessions : j \in 1 .. Len(scenario.sessions)
    BY DEF SessionsOK
  <2>2. \A j \in DOMAIN scenario.sessions : j < k => j \in 1 .. (k - 1)
    BY <2>1
  <2>3. f[i].at \in Nat
    BY FrameBars
  <2>. QED
    BY <2>1, <2>2, <2>3 DEF SessionsOK
<1>2. i \in 1 .. Len(g) /\ g[i] = f[i] /\ SameBefore(g, f, t)
  BY SameBack DEF SameBefore
<1>3. ASSUME NEW j \in DOMAIN scenario.sessions, j < k
      PROVE  SessionSlice(f, scenario.sessions[j]) # {} <=> SessionSlice(g, scenario.sessions[j]) # {}
  <2>1. scenario.sessions[j] \in Session /\ scenario.sessions[j].start <= f[i].at
    <3>1. scenario.sessions[j].start \in Nat /\ scenario.sessions[k].start \in Nat
      BY <1>1, <1>3 DEF Session
    <3>. QED
      BY <1>1, <1>3, <3>1
  <2>. QED
    BY <1>2, <2>1, ActiveSame
<1>. QED
  BY <1>3 DEF Earlier, Active

LEMMA ReachedSame ==
  ASSUME NEW f, FrameOK(f), NEW g, FrameOK(g), NEW t \in Nat, SameBefore(f, g, t), SessionsOK,
         config.tolerance \in Nat, NEW k \in DOMAIN scenario.sessions, NEW dir,
         Reached(f, k, dir), FirstBreak(f, k, dir) < t
  PROVE  /\ Reached(g, k, dir)
         /\ Previous(g, k) = Previous(f, k)
         /\ FirstBreak(g, k, dir) = FirstBreak(f, k, dir)
<1>. DEFINE s == scenario.sessions[k]
            p == Previous(f, k)
            i == Min(Breaks(f, k, dir))
            b == FirstBreak(f, k, dir)
<1>1. /\ i \in 1 .. Len(f) /\ i \in Breaks(f, k, dir) /\ \A j \in Breaks(f, k, dir) : i <= j
      /\ b \in Nat /\ s.start <= b /\ b < s.end /\ b < t /\ p \in Session /\ p.end <= b
  BY FirstBreakIs
<1>2. b = f[i].at
  BY DEF FirstBreak
<1>. HIDE DEF i, b, s, p
<1>3. /\ Len(f) \in Nat /\ Len(g) \in Nat
      /\ \A j \in 1 .. Len(f) : f[j].at \in Nat
      /\ \A j \in 1 .. Len(g) : g[j].at \in Nat
      /\ \A n, j \in 1 .. Len(f) : n < j => f[n].at < f[j].at
      /\ \A n, j \in 1 .. Len(g) : n < j => g[n].at < g[j].at
  BY FrameBars
<1>4. i \in 1 .. Len(g) /\ g[i] = f[i]
  BY <1>1, <1>2 DEF SameBefore
<1>5. s \in Session /\ s.start \in Nat /\ s.end \in Nat /\ p.start \in Nat /\ p.end \in Nat
  BY <1>1 DEF s, Session, SessionsOK
<1>6. Earlier(f, k) = Earlier(g, k)
  BY <1>1, <1>2, EarlierSame DEF s
<1>7. Previous(g, k) = p
  BY <1>6 DEF Previous, p
<1>8. k \in Active(g)
  <2>1. k \in Active(f)
    BY DEF Reached
  <2>2. SessionSlice(g, s) # {}
    BY <1>1, <1>2, <1>5, <2>1, ActiveSame DEF Active, s
  <2>. QED
    BY <2>2 DEF Active, s
<1>9. Level(g, k, dir) = Level(f, k, dir)
  <2>1. p.end <= t
    BY <1>1, <1>5
  <2>2. /\ SessionSlice(f, p) = SessionSlice(g, p)
        /\ \A j \in SessionSlice(f, p) : f[j] = g[j]
    BY <1>5, <2>1, SliceSame DEF SessionSlice
  <2>. QED
    BY <1>7, <2>2, HighestSame DEF Level, p
<1>10. ASSUME NEW j \in 1 .. Len(f), f[j].at < t PROVE j \in Breaks(f, k, dir) <=> j \in Breaks(g, k, dir)
  <2>1. j \in 1 .. Len(g) /\ g[j] = f[j]
    BY <1>10 DEF SameBefore
  <2>2. j \in SessionSlice(f, s) <=> j \in SessionSlice(g, s)
    BY <1>5, <2>1, SliceIs DEF SessionSlice
  <2>. QED
    BY <1>9, <2>1, <2>2 DEF Breaks, Breaking, s
<1>11. i \in Breaks(g, k, dir)
  BY <1>1, <1>2, <1>10
<1>12. ASSUME NEW j \in Breaks(g, k, dir) PROVE i <= j
  <2>. SUFFICES ASSUME ~(i <= j) PROVE FALSE
    OBVIOUS
  <2>1. j \in 1 .. Len(g)
    BY <1>5, <1>12, SliceIs DEF Breaks, Breaking, SessionSlice, s
  <2>2. g[j].at < t
    <3>1. j < i
      BY <1>4, <2>1
    <3>2. g[j].at < g[i].at
      BY <1>3, <1>4, <2>1, <3>1
    <3>. QED
      BY <1>1, <1>2, <1>3, <1>4, <2>1, <3>2
  <2>3. j \in 1 .. Len(f) /\ f[j] = g[j]
    BY <2>1, <2>2 DEF SameBefore
  <2>4. j \in Breaks(f, k, dir)
    BY <1>10, <1>12, <2>2, <2>3
  <2>. QED
    BY <1>1, <2>1, <2>4
<1>13. Min(Breaks(g, k, dir)) = i
  <2>1. Breaks(g, k, dir) \in SUBSET Int
    BY <1>5, SliceIs DEF Breaks, Breaking, SessionSlice, s
  <2>. QED
    BY <1>11, <1>12, <2>1, MinIs
<1>14. FirstBreak(g, k, dir) = b
  BY <1>2, <1>4, <1>13 DEF FirstBreak
<1>15. Loaded(g, p)
  <2>1. Loaded(f, p)
    BY DEF Reached, p
  <2>2. ASSUME f[1].at <= p.start, p.end <= f[Len(f)].at + 1
        PROVE  g[1].at <= p.start /\ p.end <= g[Len(g)].at + 1
    <3>1. 1 \in 1 .. Len(f) /\ f[1].at <= b
      BY <1>1, <1>2, <1>3
    <3>2. f[1].at < t
      BY <1>1, <1>3, <3>1
    <3>3. g[1] = f[1]
      BY <3>1, <3>2 DEF SameBefore
    <3>4. Len(g) \in 1 .. Len(g) /\ (i < Len(g) \/ i = Len(g))
      BY <1>3, <1>4
    <3>5. b <= g[Len(g)].at /\ g[Len(g)].at \in Nat
      <4>1. g[i].at = b /\ g[Len(g)].at \in Nat
        BY <1>2, <1>3, <1>4, <3>4
      <4>2. i < Len(g) => g[i].at < g[Len(g)].at
        BY <1>3, <1>4, <3>4
      <4>. QED
        BY <1>1, <3>4, <4>1, <4>2
    <3>. QED
      BY <1>1, <1>5, <2>2, <3>3, <3>5
  <2>. QED
    BY <2>1, <2>2 DEF Loaded
<1>. QED
  BY <1>6, <1>7, <1>8, <1>11, <1>14, <1>15 DEF Reached, p, b

\* What the dollar index says at the break.
Missing(d, s, p, b) ==
  /\ config.divergence /\ (config.rejectGaps \/ config.trace)
  /\ Uncovered(d, SessionSlice(d, p), s.start, b + 1)
Confirmed(d, s, p, dir, b) ==
  /\ config.divergence /\ ~Uncovered(d, SessionSlice(d, p), s.start, b + 1)
  /\ ~NonConfirm(d, s, Cutoff(b), dir, SessionSlice(d, p))

LEMMA BrokenIs ==
  ASSUME NEW f, NEW d, NEW s, NEW p, NEW dir, NEW b
  PROVE  Broken(f, d, s, p, dir, b) =
           IF Missing(d, s, p, b) THEN Refused("DXY_DATA_MISSING", b, None)
           ELSE IF Confirmed(d, s, p, dir, b) THEN Refused("DXY_CONFIRMED", b, None)
           ELSE Trigger(f, d, s, dir, b, SessionSlice(d, p))
BY DEF Broken, Missing, Confirmed

LEMMA BrokenSame ==
  ASSUME NEW d, FrameOK(d), NEW e, FrameOK(e), NEW t \in Nat, SameBefore(d, e, t),
         NEW s \in Session, NEW p \in Session, NEW dir, NEW b \in Nat, b < t, p.end <= b
  PROVE  /\ SessionSlice(d, p) = SessionSlice(e, p)
         /\ \A i \in SessionSlice(d, p) : d[i] = e[i]
         /\ Missing(d, s, p, b) <=> Missing(e, s, p, b)
         /\ Confirmed(d, s, p, dir, b) <=> Confirmed(e, s, p, dir, b)
<1>1. s.start \in Nat /\ p.start \in Nat /\ p.end \in Nat /\ p.end <= t /\ b + 1 \in Nat /\ b + 1 <= t
  BY DEF Session
<1>2. /\ SessionSlice(d, p) = SessionSlice(e, p)
      /\ \A i \in SessionSlice(d, p) : d[i] = e[i]
  BY <1>1, SliceSame DEF SessionSlice
<1>3. Uncovered(d, SessionSlice(d, p), s.start, b + 1) <=> Uncovered(e, SessionSlice(e, p), s.start, b + 1)
  BY <1>1, <1>2, UncoveredSame
<1>4. Cutoff(b) \in Nat /\ Cutoff(b) <= t
  BY <1>1 DEF Cutoff
<1>5. NonConfirm(d, s, Cutoff(b), dir, SessionSlice(d, p)) <=> NonConfirm(e, s, Cutoff(b), dir, SessionSlice(e, p))
  BY <1>2, <1>4, NonConfirmSame
<1>. QED
  BY <1>2, <1>3, <1>5 DEF Missing, Confirmed

-----------------------------------------------------------------------------
(* Zones.                                                                   *)

Total(r, S) == MapThenSumSet(LAMBDA n : r[n], S)

\* The candles of the days before minute t.
LEMMA RangesSame ==
  ASSUME NEW days, FrameOK(days), NEW other, FrameOK(other), NEW q, Alike(days, other, q),
         NEW t \in Nat, NEW day \in Positive, Bin(t, day) <= days[q].at, NEW length
  PROVE  RecentRanges(days, t, day, length) = RecentRanges(other, t, day, length)
<1>. DEFINE past(f) == {n \in DOMAIN f : f[n].at < Bin(t, day)}
            recent(f) == {n \in past(f) : n + length > Cardinality(past(f))}
            range(f) == [n \in recent(f) |-> f[n].h - f[n].l]
<1>1. /\ Len(days) \in Nat /\ DOMAIN days = 1 .. Len(days)
      /\ Len(other) \in Nat /\ DOMAIN other = 1 .. Len(other)
      /\ \A i \in 1 .. Len(days) : days[i].at \in Nat
      /\ \A i \in 1 .. Len(other) : other[i].at \in Nat
      /\ \A i, j \in 1 .. Len(days) : i < j => days[i].at < days[j].at
      /\ \A i, j \in 1 .. Len(other) : i < j => other[i].at < other[j].at
  BY FrameBars
<1>2. /\ q \in 1 .. Len(days) /\ q \in 1 .. Len(other)
      /\ \A i \in 1 .. (q - 1) : days[i] = other[i]
      /\ days[q].at = other[q].at
  BY DEF Alike
<1>3. Bin(t, day) \in Nat
  BY BinBounds
<1>4. ASSUME NEW n \in past(days) PROVE n \in past(other) /\ days[n] = other[n]
  <2>1. n \in 1 .. Len(days) /\ days[n].at < days[q].at /\ days[n].at < Bin(t, day)
    BY <1>1, <1>2, <1>3, <1>4
  <2>2. n \in 1 .. (q - 1)
    BY <1>1, <1>2, <2>1
  <2>3. n \in 1 .. Len(other)
    BY <1>1, <1>2, <2>2
  <2>. QED
    BY <1>1, <1>2, <2>1, <2>2, <2>3
<1>5. ASSUME NEW n \in past(other) PROVE n \in past(days)
  <2>1. n \in 1 .. Len(other) /\ other[n].at < other[q].at /\ other[n].at < Bin(t, day)
    BY <1>1, <1>2, <1>3, <1>5
  <2>2. n \in 1 .. (q - 1)
    BY <1>1, <1>2, <2>1
  <2>3. n \in 1 .. Len(days)
    BY <1>1, <1>2, <2>2
  <2>. QED
    BY <1>1, <1>2, <2>1, <2>2, <2>3
<1>6. past(days) = past(other) /\ recent(days) = recent(other) /\ \A n \in recent(days) : days[n] = other[n]
  BY <1>4, <1>5
<1>7. range(days) = range(other)
  BY <1>6
<1>8. \A f : RecentRanges(f, t, day, length) =
               IF Cardinality(past(f)) < length THEN 0
               ELSE Total(range(f), recent(f))
  BY DEF RecentRanges, Bin, Total
<1>. HIDE DEF past, recent, range
<1>. QED
  BY <1>6, <1>7, <1>8

\* z is the zone that the i-th candle of h leaves when the days before have those ranges.
ZoneAt(z, h, i, tf, span, c, ranges) ==
  \/ /\ Imbalance(h, i, "down", h[i - 2].l - h[i].h, ranges, c)
     /\ z = [tf |-> tf, dir |-> "short", bottom |-> h[i].h, top |-> h[i - 2].l, formed |-> h[i].at + span]
  \/ /\ Imbalance(h, i, "up", h[i].l - h[i - 2].h, ranges, c)
     /\ z = [tf |-> tf, dir |-> "long", bottom |-> h[i - 2].h, top |-> h[i].l, formed |-> h[i].at + span]

LEMMA BuildZonesIs ==
  ASSUME NEW f, NEW tf, NEW span, NEW c, NEW z
  PROVE  z \in BuildZones(f, tf, span, c) <=>
           \E i \in 3 .. Len(Resample(f, span)) :
             ZoneAt(z, Resample(f, span), i, tf, span, c,
                    RecentRanges(Grouped(f, c.day), Resample(f, span)[i].at, c.day, c.length))
BY DEF BuildZones, ZoneAt

LEMMA ZoneAtSame ==
  ASSUME NEW z, NEW h, NEW g, NEW i \in Nat, i >= 3, \A j \in 1 .. i : h[j] = g[j],
         NEW tf, NEW span, NEW c, NEW ranges, ZoneAt(z, h, i, tf, span, c, ranges)
  PROVE  ZoneAt(z, g, i, tf, span, c, ranges)
<1>1. h[i] = g[i] /\ h[i - 1] = g[i - 1] /\ h[i - 2] = g[i - 2]
  BY Z3
<1>. QED
  BY <1>1 DEF ZoneAt, Imbalance

\* A zone that can be used at the bar where two frames meet is in both.
LEMMA ZonesMeet ==
  ASSUME NEW f, FrameOK(f), NEW g, FrameOK(g), NEW m, Meet(f, g, m), NEW tf, NEW span \in Positive,
         NEW c, c.day \in Positive, NEW z \in BuildZones(f, tf, span, c), z.formed <= f[m].at
  PROVE  z \in BuildZones(g, tf, span, c)
<1>. DEFINE h == Resample(f, span)
            H == Resample(g, span)
            t == f[m].at
            day == c.day
            ranges(i) == RecentRanges(Grouped(f, day), h[i].at, day, c.length)
<1>1. m \in 1 .. Len(f) /\ m \in 1 .. Len(g) /\ g[m].at = t /\ t \in Nat
  BY FrameBars DEF Meet
<1>2. PICK i \in 3 .. Len(h) : ZoneAt(z, h, i, tf, span, c, ranges(i))
  BY BuildZonesIs
<1>3. z.formed = h[i].at + span
  BY <1>2 DEF ZoneAt
<1>4. PICK q \in Nat : /\ Alike(Grouped(f, span), Grouped(g, span), q)
                       /\ Around(Grouped(f, span), q, t, span)
                       /\ Around(Grouped(g, span), q, t, span)
  BY GroupedMeet
<1>5. /\ FrameOK(Grouped(f, span)) /\ FrameOK(Grouped(g, span))
      /\ FrameOK(Grouped(f, day)) /\ FrameOK(Grouped(g, day))
  BY GroupedShaped DEF Shaped
<1>6. /\ h \in Seq(Bars) /\ Len(h) <= Len(Grouped(f, span))
      /\ \A j \in 1 .. Len(h) : h[j] = Grouped(f, span)[j]
      /\ H \in Seq(Bars) /\ Len(H) <= Len(Grouped(g, span))
      /\ \A j \in 1 .. Len(H) : H[j] = Grouped(g, span)[j]
  BY ResampleIs
<1>7. q - 1 <= Len(h) /\ q - 1 <= Len(H)
  BY <1>1, <1>4, ResampleAround DEF Alike
<1>. HIDE DEF h, H, t
<1>8. i \in 1 .. Len(h) /\ h[i] = Grouped(f, span)[i] /\ i \in 1 .. Len(Grouped(f, span))
  BY <1>2, <1>5, <1>6, FrameBars
<1>9. h[i].at \in Nat /\ h[i].at + span <= t
  BY <1>3, <1>5, <1>8, FrameBars DEF t
<1>10. i \in 3 .. (q - 1)
  <2>1. ~(i >= q)
    <3>1. CASE i = q
      <4>1. h[i].at = Bin(t, span)
        BY <1>4, <1>8, <3>1 DEF Around
      <4>2. t < h[i].at + span
        BY <1>1, <4>1, BinBounds
      <4>. QED
        BY <1>1, <1>9, <4>2 DEF Positive
    <3>2. CASE i > q
      <4>1. i \in (q + 1) .. Len(Grouped(f, span))
        BY <1>8, <3>2
      <4>2. Bin(t, span) + span <= h[i].at
        BY <1>4, <1>8, <4>1 DEF Around
      <4>3. Bin(t, span) \in Nat /\ t < Bin(t, span) + span
        BY <1>1, BinBounds, Zenon
      <4>4. t \in Int /\ h[i].at \in Int /\ span \in Int /\ span > 0
            /\ Bin(t, span) \in Int
        BY <1>1, <1>9, <4>3 DEF Positive
      <4>. QED
        BY <1>9, <4>2, <4>3, <4>4, NoRoom
    <3>. QED
      BY <1>8, <3>1, <3>2
  <2>. QED
    BY <1>2, <2>1
<1>11. \A j \in 1 .. i : h[j] = H[j]
  <2>1. Len(h) \in Nat /\ Len(H) \in Nat
    BY <1>6
  <2>2. \A j \in 1 .. i : j \in 1 .. Len(h) /\ j \in 1 .. Len(H) /\ j \in 1 .. (q - 1)
    BY <1>7, <1>10, <2>1
  <2>. QED
    BY <1>4, <1>6, <2>2 DEF Alike
<1>12. ranges(i) = RecentRanges(Grouped(g, day), h[i].at, day, c.length)
  <2>1. PICK n \in Nat : /\ Alike(Grouped(f, day), Grouped(g, day), n)
                         /\ Around(Grouped(f, day), n, t, day)
    BY GroupedMeet DEF t
  <2>2. Bin(h[i].at, day) <= Bin(t, day)
    <3>1. h[i].at <= t
      BY <1>1, <1>9 DEF Positive
    <3>. QED
      BY <1>1, <1>9, <3>1, BinOrder
  <2>. QED
    BY <1>5, <1>9, <2>1, <2>2, RangesSame DEF Around
<1>13. H[i] = h[i] /\ i \in 3 .. Len(H) /\ i \in Nat
  BY <1>6, <1>7, <1>10, <1>11
<1>14. ZoneAt(z, H, i, tf, span, c, RecentRanges(Grouped(g, day), H[i].at, day, c.length))
  BY <1>2, <1>11, <1>12, <1>13, ZoneAtSame
<1>. QED
  BY <1>13, <1>14, BuildZonesIs DEF H

-----------------------------------------------------------------------------
(* A frame that goes on.                                                    *)

More(f, g) ==
  /\ Len(f) <= Len(g)
  /\ \A i \in 1 .. Len(f) : f[i] = g[i]

LEMMA LastBar ==
  ASSUME NEW f, FrameOK(f), Len(f) > 0
  PROVE  /\ Len(f) \in 1 .. Len(f) /\ f[Len(f)].at \in Nat
         /\ \A i \in 1 .. Len(f) : f[i].at <= f[Len(f)].at
<1>1. /\ Len(f) \in Nat /\ \A i \in 1 .. Len(f) : f[i].at \in Nat
      /\ \A i, j \in 1 .. Len(f) : i < j => f[i].at < f[j].at
  BY FrameBars
<1>2. Len(f) \in 1 .. Len(f)
  BY <1>1
<1>3. ASSUME NEW i \in 1 .. Len(f) PROVE f[i].at <= f[Len(f)].at
  <2>1. CASE i = Len(f)
    BY <1>1, <1>2, <2>1
  <2>2. CASE i # Len(f)
    BY <1>1, <1>2, <2>2
  <2>. QED
    BY <2>1, <2>2
<1>. QED
  BY <1>1, <1>2, <1>3

LEMMA GroupedMore ==
  ASSUME NEW f, FrameOK(f), NEW g, FrameOK(g), More(f, g), NEW span \in Positive
  PROVE  Kept(Grouped(f, span), Grouped(g, span), g, Len(f), Len(g), span)
<1>1. Len(f) \in Nat /\ Len(f) \in 0 .. Len(g) /\ Len(f) <= Len(f) /\ Len(f) \in 0 .. Len(f)
  BY FrameBars DEF More
<1>2. \A n \in 0 .. Len(f) : Sofar(f, span)[n] = Sofar(g, span)[n]
  BY <1>1, SofarSame DEF More
<1>3. Grouped(f, span) = Sofar(g, span)[Len(f)]
  BY <1>1, <1>2, GroupedIs
<1>. QED
  BY <1>1, <1>3, GroupedKeeps

\* Once the candle of the last bar has ended, a further bar begins another.
LEMMA EndedBegins ==
  ASSUME NEW f, FrameOK(f), NEW g, FrameOK(g), More(f, g), NEW span \in Positive, Len(f) > 0,
         Ends(f, f[Len(f)].at, span), Len(f) < Len(g)
  PROVE  Begins(g, Len(f) + 1, span)
<1>. DEFINE n == Len(f)
<1>1. n \in Nat /\ Len(g) \in Nat /\ n \in 1 .. Len(g) /\ n + 1 \in 2 .. Len(g) /\ n + 1 \in 1 .. Len(g)
  BY FrameBars
<1>2. g[n] = f[n] /\ g[n].at \in Nat /\ g[n + 1].at \in Nat /\ g[n].at < g[n + 1].at
  <2>1. n \in 1 .. Len(f)
    BY <1>1
  <2>. QED
    BY <1>1, <2>1, FrameBars DEF More
<1>3. Bin(g[n].at, span) + span <= g[n].at + 1
  BY <1>2 DEF Ends
<1>4. ~Begins(g, n + 1, span) => Bin(g[n].at, span) = Bin(g[n + 1].at, span)
  <2>1. ~Begins(g, n + 1, span) => Bin(g[(n + 1) - 1].at, span) = Bin(g[n + 1].at, span)
    BY <1>1, BeginsAt
  <2>2. (n + 1) - 1 = n
    BY <1>1
  <2>. QED
    BY <2>1, <2>2
<1>5. g[n + 1].at < Bin(g[n + 1].at, span) + span /\ Bin(g[n + 1].at, span) \in Nat
  BY <1>2, BinBounds
<1>6. span \in Nat
  BY DEF Positive
<1>. SUFFICES ASSUME ~Begins(g, n + 1, span) PROVE FALSE
  OBVIOUS
<1>7. Bin(g[n + 1].at, span) + span <= g[n].at + 1
  BY <1>3, <1>4
<1>. QED
  BY <1>2, <1>5, <1>6, <1>7

LEMMA ResampleMore ==
  ASSUME NEW f, FrameOK(f), NEW g, FrameOK(g), More(f, g), NEW span \in Positive
  PROVE  More(Resample(f, span), Resample(g, span))
<1>. DEFINE c == Grouped(f, span)
            d == Grouped(g, span)
            h == Resample(f, span)
            H == Resample(g, span)
            n == Len(f)
            k == Len(g)
<1>1. n \in Nat /\ k \in Nat /\ n <= k
  BY FrameBars DEF More
<1>2. Shaped(c, f, n, span) /\ Shaped(d, g, k, span) /\ Kept(c, d, g, n, k, span)
  BY GroupedShaped, GroupedMore
<1>3. /\ h \in Seq(Bars) /\ Len(h) <= Len(c)
      /\ \A j \in 1 .. Len(h) : h[j] = c[j]
      /\ H \in Seq(Bars) /\ Len(H) <= Len(d)
      /\ \A j \in 1 .. Len(H) : H[j] = d[j]
      /\ n > 0 => Len(c) > 0 /\ c[Len(c)].at = Bin(f[n].at, span)
      /\ k > 0 => Len(d) > 0 /\ d[Len(d)].at = Bin(g[k].at, span)
  BY ResampleIs
<1>7. n > 0 => Len(h) = IF Ends(f, f[n].at, span) THEN Len(c) ELSE Len(c) - 1
  BY ResampleIs
<1>8. k > 0 => Len(H) = IF Ends(g, g[k].at, span) THEN Len(d) ELSE Len(d) - 1
  BY ResampleIs
<1>. HIDE DEF c, d, h, H
<1>4. Len(c) \in Nat /\ Len(d) \in Nat /\ Len(h) \in Nat /\ Len(H) \in Nat /\ Len(c) <= Len(d)
      /\ (Len(c) = 0 <=> n = 0)
  BY <1>2, <1>3, FrameBars DEF Shaped, Kept
<1>5. CASE n = 0
  BY <1>3, <1>4, <1>5 DEF More, h, H
<1>6. CASE n > 0
  <2>1. n \in 1 .. n /\ k \in 1 .. k /\ k > 0 /\ n \in 1 .. k /\ f[n].at \in Nat /\ g[k].at \in Nat
        /\ f[n] = g[n] /\ f[n].at <= g[k].at
    BY <1>1, <1>6, LastBar DEF More
  <2>2. ASSUME Ends(f, f[n].at, span) PROVE d[Len(c)] = c[Len(c)]
    <3>1. n = k \/ Begins(g, n + 1, span)
      BY <1>1, <1>6, <2>2, EndedBegins
    <3>2. Len(c) \in 1 .. Len(c)
      BY <1>3, <1>4, <1>6
    <3>. QED
      BY <1>2, <3>1, <3>2 DEF Kept
  <2>3. ASSUME NEW i \in 1 .. Len(h) PROVE d[i] = c[i] /\ h[i] = c[i]
    <3>1. i \in 1 .. (Len(c) - 1) \/ (i = Len(c) /\ Ends(f, f[n].at, span))
      BY <1>7, <1>4, <1>6
    <3>. QED
      BY <1>2, <1>3, <2>2, <2>3, <3>1 DEF Kept
  <2>4. Len(h) <= Len(H)
    <3>1. CASE Len(h) <= Len(d) - 1
      BY <1>8, <1>4, <2>1, <3>1
    <3>2. CASE ~(Len(h) <= Len(d) - 1)
      <4>1. Len(h) = Len(c) /\ Len(c) = Len(d) /\ Ends(f, f[n].at, span)
        BY <1>7, <1>4, <1>6, <3>2
      <4>2. Bin(g[k].at, span) = Bin(f[n].at, span)
        <5>1. c[Len(c)].at = Bin(f[n].at, span) /\ d[Len(d)].at = Bin(g[k].at, span)
          BY <1>3, <1>6, <2>1
        <5>. QED
          BY <2>2, <4>1, <5>1
      <4>3. Bin(f[n].at, span) \in Nat
        BY <2>1, BinBounds
      <4>4. Ends(g, g[k].at, span)
        BY <2>1, <4>1, <4>2, <4>3 DEF Ends, Positive
      <4>. QED
        BY <1>8, <2>1, <4>1, <4>4
    <3>. QED
      BY <3>1, <3>2
  <2>5. \A i \in 1 .. Len(h) : i \in 1 .. Len(H)
    BY <1>4, <2>4
  <2>. QED
    BY <1>3, <2>3, <2>4, <2>5 DEF More, h, H
<1>. QED
  BY <1>1, <1>5, <1>6

\* No later bar redraws a zone.
LEMMA ZonesMore ==
  ASSUME NEW f, FrameOK(f), NEW g, FrameOK(g), More(f, g), NEW tf, NEW span \in Positive,
         NEW c, c.day \in Positive, NEW z \in BuildZones(f, tf, span, c)
  PROVE  z \in BuildZones(g, tf, span, c)
<1>. DEFINE h == Resample(f, span)
            H == Resample(g, span)
            day == c.day
            n == Len(f)
            days == Grouped(f, day)
            other == Grouped(g, day)
            ranges(i) == RecentRanges(days, h[i].at, day, c.length)
<1>1. PICK i \in 3 .. Len(h) : ZoneAt(z, h, i, tf, span, c, ranges(i))
  BY BuildZonesIs
<1>2. More(h, H)
  BY ResampleMore
<1>3. /\ h \in Seq(Bars) /\ Len(h) <= Len(Grouped(f, span))
      /\ \A j \in 1 .. Len(h) : h[j] = Grouped(f, span)[j]
      /\ H \in Seq(Bars)
  BY ResampleIs
<1>4. Shaped(Grouped(f, span), f, n, span) /\ Shaped(days, f, n, day) /\ Shaped(other, g, Len(g), day)
  BY GroupedShaped
<1>5. Kept(days, other, g, n, Len(g), day)
  BY GroupedMore
<1>. HIDE DEF h, H, days, other
<1>6. /\ Len(h) \in Nat /\ Len(H) \in Nat /\ n \in Nat
      /\ i \in 1 .. Len(h) /\ i \in 1 .. Len(Grouped(f, span)) /\ i \in 3 .. Len(H) /\ i \in Nat
      /\ Len(days) \in Nat /\ Len(other) \in Nat
  BY <1>1, <1>2, <1>3, <1>4, FrameBars DEF Shaped, More
<1>7. n > 0
  BY <1>4, <1>6 DEF Shaped
<1>8. h[i].at \in Nat /\ h[i].at <= f[n].at /\ f[n].at \in Nat
  <2>1. PICK j \in 1 .. n : h[i].at = Bin(f[j].at, span)
    BY <1>3, <1>4, <1>6 DEF Shaped
  <2>2. f[j].at \in Nat /\ f[j].at <= f[n].at /\ f[n].at \in Nat
    BY <1>7, FrameBars, LastBar
  <2>3. Bin(f[j].at, span) \in Nat /\ Bin(f[j].at, span) <= f[j].at
    BY <2>2, BinBounds
  <2>. QED
    BY <2>1, <2>2, <2>3
<1>9. Alike(days, other, Len(days)) /\ Bin(h[i].at, day) <= days[Len(days)].at
  <2>1. Len(days) > 0 /\ days[Len(days)].at = Bin(f[n].at, day)
    BY <1>4, <1>6, <1>7 DEF Shaped
  <2>2. Bin(h[i].at, day) <= Bin(f[n].at, day)
    BY <1>8, BinOrder
  <2>3. Len(days) \in 1 .. Len(days) /\ Len(days) \in 1 .. Len(other)
    BY <1>5, <1>6, <2>1 DEF Kept
  <2>. QED
    BY <1>5, <2>1, <2>2, <2>3 DEF Alike, Kept
<1>10. ranges(i) = RecentRanges(other, h[i].at, day, c.length)
  BY <1>4, <1>8, <1>9, RangesSame DEF Shaped
<1>11. \A j \in 1 .. i : h[j] = H[j]
  BY <1>2, <1>6 DEF More
<1>12. H[i] = h[i]
  BY <1>6, <1>11
<1>13. ZoneAt(z, H, i, tf, span, c, RecentRanges(other, H[i].at, day, c.length))
  BY <1>1, <1>6, <1>10, <1>11, <1>12, ZoneAtSame
<1>. QED
  BY <1>6, <1>13, BuildZonesIs DEF H, other

-----------------------------------------------------------------------------
(* What is found at a label depends on earlier bars and the opening of its  *)
(* entry, as long as no zone is passed in the bar of the entry.             *)

ConfigOK ==
  /\ config.span \in Positive /\ config.tolerance \in Nat /\ config.adr.day \in Positive
  /\ \A tf \in config.timeframes : config.spans[tf] \in Positive

Passes(b, z) ==
  Seen(z.dir, IF z.dir = "short" THEN z.top ELSE z.bottom)
    < (IF config.wick THEN Reach(b, z.dir) ELSE Seen(z.dir, b.c))

LEMMA HitsIs ==
  ASSUME NEW f, FrameOK(f), NEW z
  PROVE  \A t : t \in Hits(f, z) <=>
                  \E i \in 1 .. Len(f) : t = f[i].at /\ f[i].at >= z.formed /\ Passes(f[i], z)
BY FrameBars DEF Hits, Passes

LEMMA ZonesIs ==
  ASSUME NEW f, FrameOK(f), ConfigOK, NEW z
  PROVE  /\ z \in Zones(f) <=>
              \E tf \in config.timeframes : z \in BuildZones(f, tf, config.spans[tf], config.adr)
         /\ z \in Zones(f) => z.formed \in Nat
<1>1. z \in Zones(f) <=>
        \E tf \in config.timeframes : z \in BuildZones(f, tf, config.spans[tf], config.adr)
  BY DEF Zones
<1>2. ASSUME NEW tf \in config.timeframes, z \in BuildZones(f, tf, config.spans[tf], config.adr)
      PROVE  z.formed \in Nat
  <2>. DEFINE span == config.spans[tf]
              h == Resample(f, span)
  <2>1. span \in Positive
    BY DEF ConfigOK
  <2>2. PICK i \in 3 .. Len(h) :
          ZoneAt(z, h, i, tf, span, config.adr, RecentRanges(Grouped(f, config.adr.day), h[i].at, config.adr.day, config.adr.length))
    BY <1>2, BuildZonesIs
  <2>3. z.formed = h[i].at + span
    BY <2>2 DEF ZoneAt
  <2>4. h \in Seq(Bars)
    BY <2>1, ResampleIs
  <2>. HIDE DEF h, span
  <2>5. h[i] \in Bars
    BY <2>4
  <2>. QED
    BY <2>1, <2>3, <2>5 DEF Bars, Positive
<1>. QED
  BY <1>1, <1>2

LEMMA ZonesAtMeet ==
  ASSUME NEW f, FrameOK(f), NEW g, FrameOK(g), NEW m, Meet(f, g, m), ConfigOK,
         NEW z \in Zones(f), z.formed <= f[m].at
  PROVE  z \in Zones(g)
<1>1. PICK tf \in config.timeframes : z \in BuildZones(f, tf, config.spans[tf], config.adr)
  BY ZonesIs
<1>2. z \in BuildZones(g, tf, config.spans[tf], config.adr)
  BY <1>1, ZonesMeet DEF ConfigOK
<1>. QED
  BY <1>2, ZonesIs

LEMMA MeetSame ==
  ASSUME NEW f, FrameOK(f), NEW g, FrameOK(g), NEW m, Meet(f, g, m)
  PROVE  /\ SameBefore(f, g, f[m].at)
         /\ \A i \in 1 .. Len(f) : f[i].at <= f[m].at => i \in 1 .. Len(g) /\ f[i].at = g[i].at /\ f[i].o = g[i].o
<1>1. /\ Len(f) \in Nat /\ Len(g) \in Nat
      /\ \A i \in 1 .. Len(f) : f[i].at \in Nat
      /\ \A i \in 1 .. Len(g) : g[i].at \in Nat
      /\ \A i, j \in 1 .. Len(f) : i < j => f[i].at < f[j].at
      /\ \A i, j \in 1 .. Len(g) : i < j => g[i].at < g[j].at
  BY FrameBars
<1>2. /\ m \in 1 .. Len(f) /\ m \in 1 .. Len(g) /\ f[m].at = g[m].at /\ f[m].o = g[m].o
      /\ \A i \in 1 .. (m - 1) : f[i] = g[i]
  BY DEF Meet
<1>3. ASSUME NEW i \in 1 .. Len(f), f[i].at <= f[m].at PROVE i <= m
  BY <1>1, <1>2, <1>3
<1>4. ASSUME NEW i \in 1 .. Len(g), g[i].at <= g[m].at PROVE i <= m
  BY <1>1, <1>2, <1>4
<1>5. ASSUME NEW i \in 1 .. Len(f), f[i].at <= f[m].at
      PROVE  /\ i \in 1 .. Len(g) /\ f[i].at = g[i].at /\ f[i].o = g[i].o
             /\ f[i].at < f[m].at => f[i] = g[i]
  <2>1. i = m \/ i \in 1 .. (m - 1)
    BY <1>1, <1>2, <1>3, <1>5
  <2>2. i \in 1 .. Len(g)
    BY <1>1, <1>2, <1>3, <1>5
  <2>3. f[m].at \in Nat
    BY <1>1, <1>2
  <2>. QED
    BY <1>2, <2>1, <2>2, <2>3
<1>6. ASSUME NEW i \in 1 .. Len(g), g[i].at < f[m].at
      PROVE  i \in 1 .. Len(f) /\ f[i] = g[i]
  <2>1. f[m].at \in Nat /\ g[i].at \in Nat /\ i <= m
    BY <1>1, <1>2, <1>4, <1>6
  <2>2. i # m
    BY <1>2, <1>6, <2>1
  <2>3. i \in 1 .. (m - 1) /\ i \in 1 .. Len(f)
    BY <1>1, <1>2, <2>1, <2>2
  <2>. QED
    BY <1>2, <2>3
<1>7. \A i \in 1 .. Len(f) : f[i].at < f[m].at => f[i].at <= f[m].at
  BY <1>1, <1>2
<1>. QED
  BY <1>5, <1>6, <1>7 DEF SameBefore

\* A zone is passed in the bar of minute t in both frames or in none.
PassedAlike(f, g, t) ==
  \A z \in Zones(f) \cup Zones(g) : z.formed <= t => (t \in Hits(f, z) <=> t \in Hits(g, z))

LEMMA RetestsSame ==
  ASSUME NEW f, FrameOK(f), NEW g, FrameOK(g), NEW u \in Nat, SameBefore(f, g, u),
         NEW z, z.formed \in Nat, NEW t \in Nat, t <= u
  PROVE  Retests(f, z, t) = Retests(g, z, t)
<1>. DEFINE S == Slice(f, z.formed, t)
            inside(h, i) == h[i].h >= z.bottom /\ h[i].l <= z.top
            entered(h) == {i \in Slice(h, z.formed, t) : inside(h, i) /\ ~(i - 1 \in Slice(h, z.formed, t) /\ inside(h, i - 1))}
<1>1. S = Slice(g, z.formed, t) /\ \A i \in S : f[i] = g[i]
  BY SliceSame
<1>2. entered(f) = entered(g)
  BY <1>1
<1>3. \A h : Retests(h, z, t) = Cardinality(entered(h))
  BY DEF Retests
<1>. QED
  BY <1>2, <1>3

LEMMA EligibleSame ==
  ASSUME NEW f, FrameOK(f), NEW g, FrameOK(g), NEW m, Meet(f, g, m), NEW z, z.formed \in Nat,
         z.formed <= f[m].at => (f[m].at \in Hits(f, z) <=> f[m].at \in Hits(g, z)),
         NEW t \in Nat, t <= f[m].at, NEW price, NEW dir, NEW match, EligibleZone(f, z, t, price, dir, match)
  PROVE  EligibleZone(g, z, t, price, dir, match)
<1>. DEFINE u == f[m].at
<1>1. u \in Nat /\ SameBefore(f, g, u)
  BY FrameBars, MeetSame DEF Meet
<1>2. Retests(f, z, t) = Retests(g, z, t)
  BY <1>1, RetestsSame
<1>3. z.formed <= t /\ z.formed <= u
  BY <1>1 DEF EligibleZone
<1>4. ASSUME NEW h \in Hits(g, z) PROVE t < h
  <2>1. PICK i \in 1 .. Len(g) : h = g[i].at /\ g[i].at >= z.formed /\ Passes(g[i], z)
    BY HitsIs
  <2>2. h \in Nat
    BY <2>1, FrameBars
  <2>3. CASE h > u
    BY <1>1, <2>2, <2>3
  <2>4. CASE h = u
    BY <1>3, <2>4 DEF EligibleZone
  <2>5. CASE h < u
    <3>1. i \in 1 .. Len(f) /\ f[i] = g[i]
      BY <1>1, <2>1, <2>5 DEF SameBefore
    <3>2. h \in Hits(f, z)
      BY <2>1, <3>1, HitsIs
    <3>. QED
      BY <3>2 DEF EligibleZone
  <2>. QED
    BY <1>1, <2>2, <2>3, <2>4, <2>5
<1>. QED
  BY <1>2, <1>4 DEF EligibleZone

LEMMA ZoneFoundSame ==
  ASSUME NEW f, FrameOK(f), NEW g, FrameOK(g), NEW m, Meet(f, g, m), ConfigOK,
         PassedAlike(f, g, f[m].at), NEW t \in Nat, t <= f[m].at, NEW price, NEW dir, NEW match,
         ZoneFound(f, Zones(f), t, price, dir, match)
  PROVE  ZoneFound(g, Zones(g), t, price, dir, match)
<1>. DEFINE has(h, tf) == \E z \in Zones(h) : z.tf = tf /\ EligibleZone(h, z, t, price, dir, match)
<1>1. ASSUME NEW tf, has(f, tf) PROVE has(g, tf)
  <2>1. PICK z \in Zones(f) : z.tf = tf /\ EligibleZone(f, z, t, price, dir, match)
    BY <1>1
  <2>2. z.formed \in Nat /\ f[m].at \in Nat /\ z.formed <= t
    BY <2>1, ZonesIs, FrameBars DEF EligibleZone, Meet
  <2>3. z.formed <= f[m].at
    BY <2>2
  <2>4. z \in Zones(g)
    BY <2>3, ZonesAtMeet
  <2>5. f[m].at \in Hits(f, z) <=> f[m].at \in Hits(g, z)
    BY <2>3 DEF PassedAlike
  <2>6. EligibleZone(g, z, t, price, dir, match)
    BY <2>1, <2>2, <2>5, EligibleSame
  <2>. QED
    BY <2>1, <2>4, <2>6
<1>2. \A h : ZoneFound(h, Zones(h), t, price, dir, match) <=>
               \/ config.timeframes = {}
               \/ IF config.allZones THEN \A tf \in config.timeframes : has(h, tf)
                                     ELSE \E tf \in config.timeframes : has(h, tf)
  BY DEF ZoneFound
<1>. HIDE DEF has
<1>. QED
  BY <1>1, <1>2

BarAt(f, t) == CHOOSE i \in DOMAIN f : f[i].at = t

LEMMA BarAtIs ==
  ASSUME NEW f, FrameOK(f), NEW i \in 1 .. Len(f)
  PROVE  BarAt(f, f[i].at) = i
<1>1. /\ Len(f) \in Nat /\ DOMAIN f = 1 .. Len(f)
      /\ \A j \in 1 .. Len(f) : f[j].at \in Nat
      /\ \A n, j \in 1 .. Len(f) : n < j => f[n].at < f[j].at
  BY FrameBars
<1>2. ASSUME NEW j \in 1 .. Len(f), f[j].at = f[i].at PROVE j = i
  BY <1>1, <1>2
<1>. QED
  BY <1>1, <1>2 DEF BarAt

LEMMA JudgementSame ==
  ASSUME NEW f, FrameOK(f), NEW g, FrameOK(g), NEW m, Meet(f, g, m), ConfigOK,
         PassedAlike(f, g, f[m].at), NEW d, FrameOK(d), NEW e, FrameOK(e), SameBefore(d, e, f[m].at),
         NEW s \in Session, NEW dir, NEW b, NEW prev, \A i \in prev : d[i] = e[i],
         NEW x, NEW n \in 1 .. Len(f), x.entry = f[n].at, x.entry <= f[m].at
  PROVE  Judgement(f, d, s, dir, b, prev, x) = Judgement(g, e, s, dir, b, prev, x)
<1>. DEFINE u == f[m].at
            open(h) == h[BarAt(h, x.entry)].o
            zone(h, match) == ZoneFound(h, Zones(h), x.entry, open(h), dir, match)
            confirmed(h) == /\ config.divergence /\ config.invalidate /\ prev # {}
                            /\ ~NonConfirm(h, s, x.entry, dir, prev)
<1>1. u \in Nat /\ x.entry \in Nat
  BY FrameBars DEF Meet
<1>2. NonConfirm(d, s, x.entry, dir, prev) <=> NonConfirm(e, s, x.entry, dir, prev)
  BY <1>1, NonConfirmSame
<1>3. open(f) = open(g)
  <2>1. n \in 1 .. Len(g) /\ f[n].at = g[n].at /\ f[n].o = g[n].o
    BY MeetSame
  <2>2. BarAt(f, x.entry) = n
    BY BarAtIs
  <2>3. g[n].at = x.entry
    BY <2>1
  <2>4. BarAt(g, x.entry) = n
    BY <2>1, <2>3, BarAtIs
  <2>5. open(f) = f[n].o
    BY <2>2
  <2>6. open(g) = g[n].o
    BY <2>4
  <2>. QED
    BY <2>1, <2>5, <2>6
<1>4. \A match : zone(f, match) => zone(g, match)
  BY <1>1, <1>3, ZoneFoundSame
<1>5. \A match : zone(g, match) => zone(f, match)
  <2>1. Meet(g, f, m) /\ g[m].at = u /\ PassedAlike(g, f, g[m].at)
    BY MeetBack DEF PassedAlike
  <2>. QED
    BY <1>1, <1>3, <2>1, ZoneFoundSame
<1>6. \A h, k : Judgement(h, k, s, dir, b, prev, x) =
        IF config.delay # None /\ x.entry - b > config.delay THEN "LABEL_TOO_LATE"
        ELSE IF x.entry >= s.end THEN "ENTRY_OUTSIDE_SESSION"
        ELSE IF confirmed(k) THEN "DXY_CONFIRMED"
        ELSE IF zone(h, config.zoneDirection) THEN "SETUP"
        ELSE IF zone(h, FALSE) THEN "ZONE_WRONG_DIRECTION" ELSE "NO_ZONE"
  BY DEF Judgement, BarAt
<1>7. confirmed(d) <=> confirmed(e)
  BY <1>2
<1>. HIDE DEF confirmed, zone
<1>. QED
  BY <1>4, <1>5, <1>6, <1>7

-----------------------------------------------------------------------------
(* The label that decides.                                                  *)

Final == {"LABEL_TOO_LATE", "ENTRY_OUTSIDE_SESSION", "SETUP"}

\* Entries with a time each, in order, that come to an end.
Labels(X) ==
  /\ \A x \in X : x.entry \in Nat
  /\ \E n \in Nat : \A x \in X : x.entry <= n
  /\ \A x, y \in X : x.entry = y.entry => x = y

LEMMA ToldIs ==
  ASSUME NEW found, Labels(DOMAIN found), DOMAIN found # {}
  PROVE  /\ Told(found) \in DOMAIN found
         /\ found[Told(found)] \in Final =>
              \A x \in DOMAIN found : found[x] \in Final => Told(found).entry <= x.entry
         /\ found[Told(found)] \notin Final =>
              \A x \in DOMAIN found : found[x] \notin Final /\ x.entry <= Told(found).entry
<1>. DEFINE X == DOMAIN found
            final == {x \in X : found[x] \in Final}
            first(x) == \A y \in final : x.entry <= y.entry
            last(x) == \A y \in X : y.entry <= x.entry
<1>1. Told(found) = IF final # {} THEN CHOOSE x \in final : first(x) ELSE CHOOSE x \in X : last(x)
  BY DEF Told, Final
<1>2. CASE final # {}
  <2>. DEFINE times == {x.entry : x \in final}
  <2>1. times \in SUBSET Nat /\ times # {}
    BY <1>2 DEF Labels
  <2>2. PICK t \in times : \A u \in times : t <= u
    BY <2>1, LeastNatural
  <2>3. \E x \in final : first(x)
    BY <2>2
  <2>. HIDE DEF final, first
  <2>4. Told(found) \in final /\ first(Told(found))
    BY <1>1, <1>2, <2>3
  <2>. QED
    BY <2>4 DEF final, first
<1>3. CASE final = {}
  <2>. DEFINE times == {x.entry : x \in X}
  <2>1. times \in SUBSET Nat /\ times # {}
    BY DEF Labels
  <2>2. PICK n \in Nat : \A x \in X : x.entry <= n
    BY DEF Labels
  <2>3. \A u \in times : u <= n
    BY <2>2
  <2>4. Max(times) \in times /\ \A u \in times : u <= Max(times)
    BY <2>1, <2>3, MaxOfNat
  <2>5. \E x \in X : last(x)
    BY <2>4
  <2>. HIDE DEF final, last
  <2>6. Told(found) \in X /\ last(Told(found))
    BY <1>1, <1>3, <2>5
  <2>. QED
    BY <1>3, <2>6 DEF final, last
<1>. QED
  BY <1>2, <1>3

\* The first label that settles the matter is the one that decides.
LEMMA ToldFirst ==
  ASSUME NEW found, Labels(DOMAIN found), NEW x \in DOMAIN found, found[x] \in Final,
         \A y \in DOMAIN found : found[y] \in Final => x.entry <= y.entry
  PROVE  Told(found) = x
<1>1. Told(found) \in DOMAIN found /\ found[Told(found)] \in Final /\ Told(found).entry <= x.entry
  BY ToldIs
<1>2. x.entry <= Told(found).entry /\ x.entry \in Nat /\ Told(found).entry \in Nat
  BY <1>1 DEF Labels
<1>3. x.entry = Told(found).entry
  BY <1>1, <1>2
<1>. QED
  BY <1>1, <1>3 DEF Labels

LEMMA PossibleLabels ==
  ASSUME NEW f, FrameOK(f), ConfigOK, NEW dir, NEW b \in Nat
  PROVE  Labels(Possible(f, dir, b))
<1>1. config.span \in Positive
  BY DEF ConfigOK
<1>2. ASSUME NEW x \in Possible(f, dir, b) PROVE x.entry \in Nat /\ Len(f) > 0 /\ x.entry <= f[Len(f)].at
  <2>1. x.entry \in Nat /\ \E j \in 1 .. Len(f) : x.entry = f[j].at
    BY <1>1, PossibleTime
  <2>2. Len(f) > 0
    BY <2>1, FrameBars
  <2>. QED
    BY <2>1, <2>2, LastBar
<1>3. \E n \in Nat : \A x \in Possible(f, dir, b) : x.entry <= n
  <2>1. CASE Possible(f, dir, b) = {}
    BY <2>1
  <2>2. CASE Possible(f, dir, b) # {}
    <3>1. f[Len(f)].at \in Nat
      BY <1>2, <2>2, LastBar
    <3>. QED
      BY <1>2, <3>1
  <2>. QED
    BY <2>1, <2>2
<1>4. \A x, y \in Possible(f, dir, b) : x.entry = y.entry => x = y
  BY <1>1, PossibleOnce
<1>. QED
  BY <1>2, <1>3, <1>4 DEF Labels

Found(f, d, s, dir, b, prev) ==
  [x \in Possible(f, dir, b) |-> Judgement(f, d, s, dir, b, prev, x)]

LEMMA TriggerIs ==
  ASSUME NEW f, NEW d, NEW s, NEW dir, NEW b, NEW prev
  PROVE  LET found == Found(f, d, s, dir, b, prev)
             x == Told(found)
         IN  Trigger(f, d, s, dir, b, prev) =
               IF DOMAIN found = {} THEN Refused("NO_LABEL", b, None)
               ELSE IF found[x] = "SETUP"
                 THEN [is |-> "SETUP", break |-> b, label |-> x.label, entry |-> x.entry]
                 ELSE Refused(found[x], b, x.label)
<1>. DEFINE found == Found(f, d, s, dir, b, prev)
<1>1. found = <<>> <=> DOMAIN found = {}
  <2>1. DOMAIN <<>> = {}
    OBVIOUS
  <2>2. DOMAIN found = {} => found = <<>>
    BY <2>1 DEF Found
  <2>. QED
    BY <2>1, <2>2
<1>2. Trigger(f, d, s, dir, b, prev) = Outcome(found, b)
  BY DEF Trigger, Found
<1>. HIDE DEF found
<1>3. Trigger(f, d, s, dir, b, prev) =
        IF DOMAIN found = {} THEN Refused("NO_LABEL", b, None)
        ELSE IF found[Told(found)] = "SETUP"
          THEN [is |-> "SETUP", break |-> b, label |-> Told(found).label, entry |-> Told(found).entry]
          ELSE Refused(found[Told(found)], b, Told(found).label)
  BY <1>1, <1>2 DEF Outcome
<1>. QED
  BY <1>3 DEF found

\* Without labels the entry comes after the bar of the break.
LEMMA EntryLater ==
  ASSUME NEW f, FrameOK(f), config.trigger = "NONE", NEW dir, NEW b \in Nat,
         NEW x \in Possible(f, dir, b)
  PROVE  b < x.entry
<1>1. Times(f, b + 1) # {} /\ x.entry = Min(Times(f, b + 1))
  BY PossibleIs
<1>2. PICK i \in 1 .. Len(f) : Min(Times(f, b + 1)) = f[i].at /\ f[i].at >= b + 1
  BY <1>1, FirstTime
<1>3. f[i].at \in Nat
  BY FrameBars
<1>. QED
  BY <1>1, <1>2, <1>3

\* Frames that meet at a bar have the same setup entered at it or before.
LEMMA TriggerSame ==
  ASSUME NEW f, FrameOK(f), NEW g, FrameOK(g), NEW m, Meet(f, g, m), ConfigOK, LabelsMeet(f, g, m),
         PassedAlike(f, g, f[m].at), NEW d, FrameOK(d), NEW e, FrameOK(e), SameBefore(d, e, f[m].at),
         NEW s \in Session, NEW dir, NEW b \in Nat, NEW prev, \A i \in prev : d[i] = e[i],
         Trigger(f, d, s, dir, b, prev).is = "SETUP", Trigger(f, d, s, dir, b, prev).entry <= f[m].at
  PROVE  Trigger(g, e, s, dir, b, prev) = Trigger(f, d, s, dir, b, prev)
<1>. DEFINE found == Found(f, d, s, dir, b, prev)
            other == Found(g, e, s, dir, b, prev)
            x == Told(found)
            X == Possible(f, dir, b)
            Y == Possible(g, dir, b)
            u == f[m].at
<1>1. DOMAIN found = X /\ DOMAIN other = Y /\ Labels(X) /\ Labels(Y)
  BY PossibleLabels DEF Found
<1>2. X # {} /\ found[x] = "SETUP" /\ x.entry <= u
      /\ Trigger(f, d, s, dir, b, prev) = [is |-> "SETUP", break |-> b, label |-> x.label, entry |-> x.entry]
  BY <1>1, TriggerIs DEF Refused
<1>3. x \in X /\ \A y \in X : found[y] \in Final => x.entry <= y.entry
  BY <1>1, <1>2, ToldIs DEF Final
<1>4. config.span \in Positive /\ u \in Nat /\ x.entry \in Nat
  BY <1>1, <1>3, FrameBars DEF ConfigOK, Meet, Labels
<1>5. b < u \/ config.trigger # "NONE"
  <2>1. CASE config.trigger = "NONE"
    BY <1>2, <1>3, <1>4, <2>1, EntryLater
  <2>. QED
    BY <2>1
<1>6. ASSUME NEW y \in X, y.entry <= u PROVE y \in Y /\ found[y] = other[y]
  <2>1. y \in Y
    BY <1>4, <1>5, <1>6, PossibleMeet
  <2>2. PICK n \in 1 .. Len(f) : y.entry = f[n].at
    BY <1>4, PossibleTime
  <2>3. Judgement(f, d, s, dir, b, prev, y) = Judgement(g, e, s, dir, b, prev, y)
    BY <1>6, <2>2, JudgementSame
  <2>. QED
    BY <2>1, <2>3 DEF Found
<1>7. ASSUME NEW y \in Y, y.entry <= u PROVE y \in X
  <2>1. Meet(g, f, m) /\ g[m].at = u /\ LabelsMeet(g, f, m)
    BY MeetBack
  <2>. QED
    BY <1>4, <1>5, <1>7, <2>1, PossibleMeet
<1>. HIDE DEF found, other, x, X, Y, u
<1>8. x \in Y /\ other[x] = "SETUP"
  BY <1>2, <1>3, <1>6
<1>9. ASSUME NEW y \in Y, other[y] \in Final PROVE x.entry <= y.entry
  <2>1. y.entry \in Nat
    BY <1>1 DEF Labels
  <2>2. CASE y.entry <= u
    BY <1>3, <1>6, <1>7, <1>9, <2>2
  <2>3. CASE ~(y.entry <= u)
    BY <1>2, <1>4, <2>1, <2>3
  <2>. QED
    BY <2>2, <2>3
<1>10. Told(other) = x
  BY <1>1, <1>8, <1>9, ToldFirst DEF Final
<1>11. Trigger(g, e, s, dir, b, prev) = [is |-> "SETUP", break |-> b, label |-> x.label, entry |-> x.entry]
  BY <1>1, <1>8, <1>10, TriggerIs DEF other
<1>. QED
  BY <1>2, <1>11

LEMMA SameSooner ==
  ASSUME NEW d, FrameOK(d), NEW e, FrameOK(e), NEW t \in Nat, SameBefore(d, e, t),
         NEW u \in Nat, u <= t
  PROVE  SameBefore(d, e, u)
<1>1. /\ \A i \in 1 .. Len(d) : d[i].at < u => d[i].at < t
      /\ \A i \in 1 .. Len(e) : e[i].at < u => e[i].at < t
  BY FrameBars
<1>. QED
  BY <1>1 DEF SameBefore

\* The verdict of frames that are the same before minute t, of a break before t and
\* an entry up to the bar where they meet.
LEMMA VerdictSame ==
  ASSUME SessionsOK, ConfigOK, NEW t \in Nat,
         NEW f, FrameOK(f), NEW g, FrameOK(g), SameBefore(f, g, t),
         NEW d, FrameOK(d), NEW e, FrameOK(e), SameBefore(d, e, t),
         NEW m, Meet(f, g, m), f[m].at <= t, LabelsMeet(f, g, m), PassedAlike(f, g, f[m].at),
         NEW k \in DOMAIN scenario.sessions, NEW dir,
         Verdict(f, d, k, dir).is = "SETUP", Verdict(f, d, k, dir).break < t,
         Verdict(f, d, k, dir).entry <= f[m].at
  PROVE  Verdict(g, e, k, dir) = Verdict(f, d, k, dir)
<1>. DEFINE s == scenario.sessions[k]
            p == Previous(f, k)
            b == FirstBreak(f, k, dir)
            prev == SessionSlice(d, p)
<1>1. Reached(f, k, dir) /\ Verdict(f, d, k, dir) = Broken(f, d, s, p, dir, b)
  BY VerdictIs
<1>2. b \in Nat /\ p \in Session /\ p.end <= b /\ s \in Session
  BY <1>1, FirstBreakIs DEF ConfigOK, SessionsOK
<1>. HIDE DEF s, p, b
<1>3. ~Missing(d, s, p, b) /\ ~Confirmed(d, s, p, dir, b) /\ Verdict(f, d, k, dir) = Trigger(f, d, s, dir, b, prev)
  BY <1>1, BrokenIs DEF Refused
<1>4. b < t
  BY <1>3, TriggerIs DEF Refused
<1>5. Reached(g, k, dir) /\ Previous(g, k) = p /\ FirstBreak(g, k, dir) = b
  BY <1>1, <1>4, ReachedSame DEF ConfigOK, p, b
<1>6. Verdict(g, e, k, dir) = Broken(g, e, s, p, dir, b)
  BY <1>5, VerdictIs DEF s
<1>7. /\ prev = SessionSlice(e, p) /\ \A i \in prev : d[i] = e[i]
      /\ ~Missing(e, s, p, b) /\ ~Confirmed(e, s, p, dir, b)
  BY <1>2, <1>3, <1>4, BrokenSame
<1>8. Verdict(g, e, k, dir) = Trigger(g, e, s, dir, b, prev)
  BY <1>6, <1>7, BrokenIs
<1>9. SameBefore(d, e, f[m].at)
  BY FrameBars, SameSooner DEF Meet
<1>. QED
  BY <1>2, <1>3, <1>7, <1>8, <1>9, TriggerSame

\* A setup is entered at a bar of the frame, not before its break.
LEMMA SetupIs ==
  ASSUME SessionsOK, ConfigOK, NEW f, FrameOK(f), NEW d, NEW k \in DOMAIN scenario.sessions, NEW dir,
         Verdict(f, d, k, dir).is = "SETUP"
  PROVE  LET v == Verdict(f, d, k, dir)
         IN  /\ v.break \in Nat /\ v.entry \in Nat /\ v.break <= v.entry
             /\ \E m \in 1 .. Len(f) : f[m].at = v.entry
<1>. DEFINE s == scenario.sessions[k]
            p == Previous(f, k)
            b == FirstBreak(f, k, dir)
            prev == SessionSlice(d, p)
            found == Found(f, d, s, dir, b, prev)
            x == Told(found)
<1>1. Reached(f, k, dir) /\ Verdict(f, d, k, dir) = Broken(f, d, s, p, dir, b)
  BY VerdictIs
<1>2. b \in Nat /\ config.span \in Positive
  BY <1>1, FirstBreakIs DEF ConfigOK
<1>. HIDE DEF s, p, b
<1>3. Verdict(f, d, k, dir) = Trigger(f, d, s, dir, b, prev)
  BY <1>1, BrokenIs DEF Refused
<1>4. DOMAIN found # {} /\ Verdict(f, d, k, dir) = [is |-> "SETUP", break |-> b, label |-> x.label, entry |-> x.entry]
  BY <1>3, TriggerIs DEF Refused
<1>5. DOMAIN found = Possible(f, dir, b) /\ Labels(DOMAIN found)
  BY <1>2, PossibleLabels DEF Found
<1>6. x \in Possible(f, dir, b)
  BY <1>4, <1>5, ToldIs
<1>. HIDE DEF found, x
<1>7. /\ \E j \in 1 .. Len(f) : x.entry = f[j].at
      /\ x.entry \in Nat /\ b <= x.entry
  BY <1>2, <1>6, PossibleTime
<1>. QED
  BY <1>2, <1>4, <1>7

-----------------------------------------------------------------------------
(* The market brings bars in order of time.                                 *)

\* The second frame is the first one and bars after minute t.
GoesOn(f, g, t) ==
  /\ FrameOK(f) /\ FrameOK(g) /\ More(f, g)
  /\ \A i \in 1 .. Len(f) : f[i].at \in 1 .. t
  /\ \A i \in 1 .. Len(g) : i > Len(f) => g[i].at > t

LEMMA GoesOnSame ==
  ASSUME NEW f, NEW g, NEW t \in Nat, GoesOn(f, g, t)
  PROVE  /\ SameBefore(f, g, t + 1)
         /\ \A m \in 1 .. Len(f) : Meet(f, g, m)
<1>1. /\ FrameOK(f) /\ FrameOK(g)
      /\ Len(f) \in Nat /\ Len(g) \in Nat
      /\ Len(f) <= Len(g) /\ \A i \in 1 .. Len(f) : f[i] = g[i]
      /\ \A i \in 1 .. Len(g) : g[i].at \in Nat
      /\ \A i \in 1 .. Len(g) : i > Len(f) => g[i].at > t
  BY FrameBars DEF GoesOn, More
<1>2. \A i \in 1 .. Len(f) : i \in 1 .. Len(g)
  BY <1>1
<1>3. ASSUME NEW i \in 1 .. Len(g), g[i].at < t + 1 PROVE i \in 1 .. Len(f)
  BY <1>1, <1>3
<1>4. SameBefore(f, g, t + 1)
  BY <1>1, <1>2, <1>3 DEF SameBefore
<1>5. ASSUME NEW m \in 1 .. Len(f) PROVE Meet(f, g, m)
  <2>1. \A i \in 1 .. (m - 1) : i \in 1 .. Len(f)
    BY <1>1
  <2>. QED
    BY <1>1, <1>2, <2>1 DEF Meet
<1>. QED
  BY <1>4, <1>5

\* A bar that two frames have at the same place passes the same zones in both.
LEMMA PassedSame ==
  ASSUME NEW f, FrameOK(f), NEW g, FrameOK(g), NEW m, Meet(f, g, m), f[m] = g[m], NEW z
  PROVE  f[m].at \in Hits(f, z) <=> f[m].at \in Hits(g, z)
<1>1. /\ Len(f) \in Nat /\ Len(g) \in Nat /\ m \in 1 .. Len(f) /\ m \in 1 .. Len(g)
      /\ \A i \in 1 .. Len(f) : f[i].at \in Nat
      /\ \A i \in 1 .. Len(g) : g[i].at \in Nat
      /\ \A i, j \in 1 .. Len(f) : i < j => f[i].at < f[j].at
      /\ \A i, j \in 1 .. Len(g) : i < j => g[i].at < g[j].at
  BY FrameBars DEF Meet
<1>2. \A i \in 1 .. Len(f) : f[i].at = f[m].at => i = m
  BY <1>1
<1>3. ASSUME NEW i \in 1 .. Len(g), g[i].at = f[m].at PROVE i = m
  <2>1. g[i].at = g[m].at
    BY <1>3
  <2>2. ~(i < m) /\ ~(m < i)
    BY <1>1, <2>1
  <2>. QED
    BY <1>1, <2>2
<1>4. f[m].at \in Hits(f, z) <=> f[m].at >= z.formed /\ Passes(f[m], z)
  BY <1>1, <1>2, HitsIs
<1>5. f[m].at \in Hits(g, z) <=> f[m].at >= z.formed /\ Passes(f[m], z)
  BY <1>1, <1>3, HitsIs
<1>. QED
  BY <1>4, <1>5

LEMMA GoesOnPassed ==
  ASSUME NEW f, NEW g, NEW t \in Nat, GoesOn(f, g, t), NEW m \in 1 .. Len(f)
  PROVE  PassedAlike(f, g, f[m].at) /\ PassedAlike(g, f, f[m].at)
<1>1. FrameOK(f) /\ FrameOK(g) /\ Meet(f, g, m) /\ f[m] = g[m]
  BY GoesOnSame DEF GoesOn, More, Meet
<1>2. \A z : f[m].at \in Hits(f, z) <=> f[m].at \in Hits(g, z)
  BY <1>1, PassedSame
<1>. QED
  BY <1>2 DEF PassedAlike

LEMMA TriggerMore ==
  ASSUME NEW f, FrameOK(f), NEW g, FrameOK(g), More(f, g), ConfigOK
  PROVE  More(TriggerFrame(f), TriggerFrame(g))
BY ResampleMore DEF TriggerFrame, ConfigOK

LEMMA EndsMore ==
  ASSUME NEW f, FrameOK(f), NEW g, FrameOK(g), More(f, g), Len(f) > 0,
         NEW t \in Nat, NEW span \in Positive, Ends(f, t, span)
  PROVE  Ends(g, t, span)
<1>1. f[Len(f)].at \in Nat /\ Len(f) \in 1 .. Len(f) /\ Len(f) \in Nat
  BY FrameBars, LastBar
<1>2. Len(g) \in Nat /\ Len(f) \in 1 .. Len(g) /\ Len(g) > 0
  BY <1>1, FrameBars DEF More
<1>3. f[Len(f)].at <= g[Len(g)].at /\ g[Len(g)].at \in Nat
  BY <1>1, <1>2, LastBar DEF More
<1>4. Bin(t, span) \in Nat
  BY BinBounds
<1>. QED
  BY <1>1, <1>3, <1>4 DEF Ends, Positive

-----------------------------------------------------------------------------
(* The market.                                                              *)

\* Both frames hold bars of the minutes that have closed, in order.
Market ==
  /\ scenario \in Scenarios
  /\ now \in Nat /\ now <= scenario.horizon
  /\ FrameOK(mid) /\ \A i \in 1 .. Len(mid) : mid[i].at \in 1 .. now
  /\ FrameOK(dxy) /\ \A i \in 1 .. Len(dxy) : dxy[i].at \in 1 .. now

LEMMA ScenarioOK ==
  ASSUME scenario \in Scenarios
  PROVE  SessionsOK /\ ConfigOK
<1>1. StrategyConfig(scenario) /\ SessionInstances(scenario)
  BY ScenarioAssumptions
<1>2. ConfigOK
  BY <1>1 DEF StrategyConfig, DivergenceConfig, ZoneConfig, TriggerConfig, ConfigOK, config
<1>3. /\ scenario.sessions \in Seq(Session)
      /\ \A k \in DOMAIN scenario.sessions : \A j \in 1 .. (k - 1) :
           scenario.sessions[j].start <= scenario.sessions[k].start
  BY <1>1 DEF SessionInstances
<1>4. SessionsOK
  BY <1>3 DEF SessionsOK
<1>. QED
  BY <1>2, <1>4

LEMMA ExtendGoesOn ==
  ASSUME NEW f, FrameOK(f), now \in Nat, \A i \in 1 .. Len(f) : f[i].at \in 1 .. now,
         NEW b \in Optional(Candle)
  PROVE  /\ GoesOn(f, Extend(f, b), now)
         /\ \A i \in 1 .. Len(Extend(f, b)) : Extend(f, b)[i].at \in 1 .. (now + 1)
<1>. DEFINE g == Extend(f, b)
            c == At(b, now + 1)
<1>1. /\ Len(f) \in Nat /\ f \in Seq(Bars)
      /\ \A i, j \in 1 .. Len(f) : i < j => f[i].at < f[j].at
      /\ \A i \in 1 .. Len(f) : f[i].at \in Nat
  BY FrameBars DEF FrameOK
<1>2. CASE b = None
  <2>1. g = f
    BY <1>2 DEF Extend
  <2>2. \A i \in 1 .. Len(f) : f[i].at \in 1 .. (now + 1)
    OBVIOUS
  <2>. QED
    BY <1>1, <2>1, <2>2 DEF GoesOn, More
<1>3. CASE b # None
  <2>1. g = Append(f, c)
    BY <1>3 DEF Extend
  <2>2. b \in Candle
    BY <1>3 DEF Optional
  <2>3. c \in Bars /\ c.at = now + 1
    BY <2>2 DEF At, Bars, Candle
  <2>. HIDE DEF g, c
  <2>4. g \in Seq(Bars) /\ Len(g) = Len(f) + 1 /\ g[Len(f) + 1] = c /\ \A i \in 1 .. Len(f) : g[i] = f[i]
    BY <1>1, <2>1, <2>3
  <2>5. ASSUME NEW i \in 1 .. Len(g) PROVE g[i].at \in 1 .. (now + 1) /\ (i > Len(f) => g[i].at = now + 1)
    <3>1. CASE i \in 1 .. Len(f)
      BY <1>1, <2>4, <3>1
    <3>2. CASE i = Len(f) + 1
      BY <1>1, <2>3, <2>4, <3>2
    <3>. QED
      BY <1>1, <2>4, <3>1, <3>2
  <2>6. ASSUME NEW i \in 1 .. Len(g), NEW j \in 1 .. Len(g), i < j PROVE g[i].at < g[j].at
    <3>1. i \in 1 .. Len(f)
      BY <1>1, <2>4, <2>6
    <3>2. CASE j \in 1 .. Len(f)
      BY <1>1, <2>4, <2>6, <3>1, <3>2
    <3>3. CASE j = Len(f) + 1
      BY <1>1, <2>3, <2>4, <3>1, <3>3
    <3>. QED
      BY <1>1, <2>4, <3>2, <3>3
  <2>7. FrameOK(g)
    BY <2>4, <2>6 DEF FrameOK
  <2>8. \A i \in 1 .. Len(g) : i > Len(f) => g[i].at > now
    BY <2>5
  <2>9. \A i \in 1 .. Len(g) : g[i].at \in 1 .. (now + 1)
    BY <2>5
  <2>. QED
    BY <1>1, <2>4, <2>7, <2>8, <2>9 DEF GoesOn, More, g
<1>. QED
  BY <1>2, <1>3

\* A minute closes, or nothing happens.
LEMMA MarketGoesOn ==
  ASSUME Market, [Next]_vars
  PROVE  /\ GoesOn(mid, mid', now) /\ GoesOn(dxy, dxy', now) /\ scenario' = scenario
         /\ Market'
<1>1. CASE UNCHANGED vars
  <2>1. mid' = mid /\ dxy' = dxy /\ scenario' = scenario /\ now' = now
    BY <1>1 DEF vars
  <2>2. Len(mid) \in Nat /\ Len(dxy) \in Nat
    BY FrameBars DEF Market
  <2>3. GoesOn(mid, mid, now) /\ GoesOn(dxy, dxy, now)
    BY <2>2 DEF Market, GoesOn, More
  <2>. QED
    BY <2>1, <2>3 DEF Market
<1>2. CASE Minute
  <2>1. now < scenario.horizon /\ now' = now + 1 /\ scenario' = scenario /\ now \in Nat
    BY <1>2 DEF Minute, Market
  <2>2. scenario.horizon \in Nat /\ \A t \in 1 .. scenario.horizon : scenario.bars[t] \cup scenario.dollars[t] \subseteq Optional(Candle)
    BY ScenarioAssumptions DEF Market, MarketData
  <2>3. now + 1 \in 1 .. scenario.horizon
    BY <2>1, <2>2
  <2>4. PICK b \in scenario.bars[now + 1] : mid' = Extend(mid, b)
    BY <1>2 DEF Minute
  <2>5. PICK c \in scenario.dollars[now + 1] : dxy' = Extend(dxy, c)
    BY <1>2 DEF Minute
  <2>6. b \in Optional(Candle) /\ c \in Optional(Candle)
    BY <2>2, <2>3
  <2>7. GoesOn(mid, mid', now) /\ \A i \in 1 .. Len(mid') : mid'[i].at \in 1 .. (now + 1)
    BY <2>4, <2>6, ExtendGoesOn DEF Market
  <2>8. GoesOn(dxy, dxy', now) /\ \A i \in 1 .. Len(dxy') : dxy'[i].at \in 1 .. (now + 1)
    BY <2>5, <2>6, ExtendGoesOn DEF Market
  <2>9. FrameOK(mid') /\ FrameOK(dxy')
    BY <2>7, <2>8 DEF GoesOn
  <2>10. FrameOK(mid)' /\ FrameOK(dxy)'
    BY <2>9 DEF FrameOK
  <2>11. now + 1 \in Nat /\ now + 1 <= scenario.horizon
    BY <2>1, <2>3
  <2>. QED
    BY <2>1, <2>7, <2>8, <2>10, <2>11 DEF Market
<1>. QED
  BY <1>1, <1>2 DEF Next

LEMMA InitMarket == ASSUME Init PROVE Market
<1>1. mid = <<>> /\ dxy = <<>> /\ now = 0 /\ scenario \in Scenarios
  BY DEF Init
<1>2. Len(<<>>) = 0 /\ <<>> \in Seq(Bars) /\ 1 .. 0 = {}
  OBVIOUS
<1>3. 0 <= scenario.horizon
  BY <1>1, ScenarioAssumptions DEF MarketData
<1>. QED
  BY <1>1, <1>2, <1>3 DEF Market, FrameOK

\* The frames are what the market brought, in order of time.
THEOREM MarketHolds == Spec => []Market
<1>1. Init => Market
  BY InitMarket
<1>2. Market /\ [Next]_vars => Market'
  BY MarketGoesOn
<1>. QED
  BY <1>1, <1>2, PTL DEF Spec

\* A zone that can be used keeps its levels and its time whatever follows
\* (docs/LOOKAHEAD_AUDIT.md): the candles it is built from and the days before
\* them have ended.
THEOREM ZonesStayHolds == Spec => ZonesStay
<1>1. ASSUME Market, [Next]_vars PROVE Zones(mid) \subseteq Zones(mid')
  <2>1. PICK f, g : f = mid /\ g = mid'
    OBVIOUS
  <2>2. FrameOK(f) /\ FrameOK(g) /\ More(f, g) /\ ConfigOK
    BY <1>1, <2>1, MarketGoesOn, ScenarioOK DEF GoesOn, Market
  <2>3. ASSUME NEW z \in Zones(f) PROVE z \in Zones(g)
    <3>1. PICK tf \in config.timeframes : z \in BuildZones(f, tf, config.spans[tf], config.adr)
      BY <2>2, ZonesIs
    <3>2. z \in BuildZones(g, tf, config.spans[tf], config.adr)
      BY <2>2, <3>1, ZonesMore DEF ConfigOK
    <3>. QED
      BY <2>2, <3>2, ZonesIs
  <2>. QED
    BY <2>1, <2>3
<1>. QED
  BY <1>1, MarketHolds, PTL DEF Spec, ZonesStay

-----------------------------------------------------------------------------
(* A longer period finds the setups of a shorter one again.                 *)

SettledIf(f) == config.trigger = "NONE" \/ Len(TriggerFrame(f)) >= MinBars
EndedBy(f, t) == f # <<>> /\ Ends(f, t, config.span)

LEMMA SettledLabels ==
  ASSUME NEW f, NEW g, NEW t \in Nat, GoesOn(f, g, t), ConfigOK, SettledIf(f),
         NEW m \in 1 .. Len(f), EndedBy(f, f[m].at)
  PROVE  LabelsMeet(f, g, m) /\ LabelsMeet(g, f, m)
<1>1. FrameOK(f) /\ FrameOK(g) /\ More(f, g) /\ Meet(f, g, m) /\ config.span \in Positive
  BY GoesOnSame DEF GoesOn, ConfigOK
<1>2. f[m].at \in Nat /\ Len(f) > 0 /\ f[m] = g[m]
  BY <1>1, FrameBars DEF More
<1>3. Ends(f, f[m].at, config.span) /\ Ends(g, f[m].at, config.span)
  BY <1>1, <1>2, EndsMore DEF EndedBy
<1>4. More(TriggerFrame(f), TriggerFrame(g))
  BY <1>1, TriggerMore
<1>5. Len(TriggerFrame(f)) \in Nat /\ Len(TriggerFrame(g)) \in Nat /\ MinBars \in Nat
  BY <1>1, TriggerFrameOK, LabelAssumptions
<1>6. config.trigger # "NONE" => Len(TriggerFrame(f)) >= MinBars /\ Len(TriggerFrame(g)) >= MinBars
  BY <1>4, <1>5 DEF SettledIf, More
<1>. QED
  BY <1>2, <1>3, <1>6 DEF LabelsMeet

\* A setup of either frame is one of the other when the candle of its entry has
\* ended in the first frame.
LEMMA SettledBoth ==
  ASSUME SessionsOK, NEW t \in Nat, NEW f, NEW g, GoesOn(f, g, t), NEW d, NEW e, GoesOn(d, e, t),
         ConfigOK, SettledIf(f), NEW k \in DOMAIN scenario.sessions, NEW dir
  PROVE  /\ (Verdict(f, d, k, dir).is = "SETUP" /\ EndedBy(f, Verdict(f, d, k, dir).entry)) =>
              Verdict(g, e, k, dir) = Verdict(f, d, k, dir)
         /\ (Verdict(g, e, k, dir).is = "SETUP" /\ EndedBy(f, Verdict(g, e, k, dir).entry)) =>
              Verdict(g, e, k, dir) = Verdict(f, d, k, dir)
<1>1. /\ FrameOK(f) /\ FrameOK(g) /\ FrameOK(d) /\ FrameOK(e)
      /\ SameBefore(f, g, t + 1) /\ SameBefore(d, e, t + 1)
      /\ SameBefore(g, f, t + 1) /\ SameBefore(e, d, t + 1) /\ t + 1 \in Nat
      /\ \A i \in 1 .. Len(f) : f[i].at \in 1 .. t
  <2>1. SameBefore(f, g, t + 1) /\ SameBefore(d, e, t + 1)
    BY GoesOnSame
  <2>. QED
    BY <2>1, SameBack DEF GoesOn
<1>2. ASSUME Verdict(f, d, k, dir).is = "SETUP", EndedBy(f, Verdict(f, d, k, dir).entry)
      PROVE  Verdict(g, e, k, dir) = Verdict(f, d, k, dir)
  <2>. DEFINE v == Verdict(f, d, k, dir)
  <2>1. v.break \in Nat /\ v.entry \in Nat /\ v.break <= v.entry /\ \E m \in 1 .. Len(f) : f[m].at = v.entry
    BY <1>1, <1>2, SetupIs
  <2>2. PICK m \in 1 .. Len(f) : f[m].at = v.entry
    BY <2>1
  <2>3. f[m].at <= t + 1 /\ v.break < t + 1 /\ v.entry <= f[m].at
    BY <1>1, <2>1, <2>2
  <2>4. Meet(f, g, m) /\ LabelsMeet(f, g, m) /\ PassedAlike(f, g, f[m].at)
    BY <1>2, <2>2, GoesOnSame, GoesOnPassed, SettledLabels
  <2>. QED
    BY <1>1, <1>2, <2>3, <2>4, VerdictSame
<1>3. ASSUME Verdict(g, e, k, dir).is = "SETUP", EndedBy(f, Verdict(g, e, k, dir).entry)
      PROVE  Verdict(g, e, k, dir) = Verdict(f, d, k, dir)
  <2>. DEFINE v == Verdict(g, e, k, dir)
  <2>1. v.break \in Nat /\ v.entry \in Nat /\ v.break <= v.entry /\ \E m \in 1 .. Len(g) : g[m].at = v.entry
    BY <1>1, <1>3, SetupIs
  <2>2. PICK m \in 1 .. Len(g) : g[m].at = v.entry
    BY <2>1
  <2>3. v.entry <= t
    <3>1. Len(f) > 0 /\ Bin(v.entry, config.span) + config.span <= f[Len(f)].at + 1
      BY <1>1, <1>3, FrameBars DEF EndedBy, Ends
    <3>2. f[Len(f)].at <= t /\ f[Len(f)].at \in Nat
      BY <1>1, <3>1, LastBar
    <3>3. v.entry < Bin(v.entry, config.span) + config.span /\ Bin(v.entry, config.span) \in Nat /\ config.span \in Nat
      BY <2>1, BinBounds DEF ConfigOK, Positive
    <3>. HIDE DEF v
    <3>. QED
      BY <2>1, <3>1, <3>2, <3>3
  <2>4. m \in 1 .. Len(f) /\ f[m] = g[m]
    <3>1. g[m].at < t + 1
      BY <2>1, <2>2, <2>3
    <3>. QED
      BY <1>1, <2>2, <3>1 DEF SameBefore
  <2>5. g[m].at <= t + 1 /\ v.break < t + 1 /\ v.entry <= g[m].at
    BY <2>1, <2>2, <2>3
  <2>6. Meet(g, f, m) /\ LabelsMeet(g, f, m) /\ PassedAlike(g, f, g[m].at)
    BY <1>3, <2>2, <2>4, GoesOnSame, GoesOnPassed, SettledLabels, MeetBack
  <2>7. Verdict(f, d, k, dir) = v
    BY <1>1, <1>3, <2>5, <2>6, VerdictSame
  <2>. QED
    BY <2>7
<1>. QED
  BY <1>2, <1>3

LEMMA ClosedIs ==
  ASSUME ConfigOK, NEW t \in Nat
  PROVE  Closed(t) <=> EndedBy(mid, t)
<1>. DEFINE a == t \div config.span
<1>1. a \in Nat /\ config.span \in Int
  BY DEF ConfigOK, Positive
<1>. HIDE DEF a
<1>2. (a + 1) * config.span = a * config.span + config.span
  BY <1>1
<1>. QED
  BY <1>2 DEF Closed, EndedBy, Ends, Bin, a

\* A backtest over a longer period finds the setups of a shorter one again: once
\* the candle of a setup's entry has ended, no later minute makes it appear, move
\* or vanish, whatever it brings (docs/LOOKAHEAD_AUDIT.md).
THEOREM SettledSetupsHolds == Spec => SettledSetups
<1>1. ASSUME Market, [Next]_vars, SettledIf(mid),
             NEW x, x \in (Setups(mid, dxy) \ Setups(mid', dxy')) \cup (Setups(mid', dxy') \ Setups(mid, dxy))
      PROVE  ~Closed(x.v.entry)
  <2>1. PICK f, g, d, e : f = mid /\ g = mid' /\ d = dxy /\ e = dxy'
    OBVIOUS
  <2>2. GoesOn(f, g, now) /\ GoesOn(d, e, now) /\ now \in Nat /\ ConfigOK /\ SessionsOK
    BY <1>1, <2>1, MarketGoesOn, ScenarioOK DEF Market
  <2>. SUFFICES ASSUME Closed(x.v.entry) PROVE FALSE
    OBVIOUS
  <2>3. /\ x \in Setups(f, d) => \E y \in Considered :
             x = [of |-> y, v |-> Verdict(f, d, y[1], y[2])] /\ Verdict(f, d, y[1], y[2]).is = "SETUP"
        /\ x \in Setups(g, e) => \E y \in Considered :
             x = [of |-> y, v |-> Verdict(g, e, y[1], y[2])] /\ Verdict(g, e, y[1], y[2]).is = "SETUP"
    BY DEF Setups
  <2>4. ASSUME NEW y \in Considered, Verdict(f, d, y[1], y[2]) = Verdict(g, e, y[1], y[2])
        PROVE  [of |-> y, v |-> Verdict(f, d, y[1], y[2])] \in Setups(f, d)
                 <=> [of |-> y, v |-> Verdict(f, d, y[1], y[2])] \in Setups(g, e)
    <3>. DEFINE r == [of |-> y, v |-> Verdict(f, d, y[1], y[2])]
    <3>1. r \in {[of |-> n, v |-> Verdict(f, d, n[1], n[2])] : n \in Considered}
      OBVIOUS
    <3>2. r \in {[of |-> n, v |-> Verdict(g, e, n[1], n[2])] : n \in Considered}
      BY <2>4
    <3>. QED
      BY <3>1, <3>2 DEF Setups
  <2>5. FrameOK(f) /\ FrameOK(g)
    BY <2>2 DEF GoesOn
  <2>6. SettledIf(f)
    BY <1>1, <2>1
  <2>7. CASE x \in Setups(f, d)
    <3>1. PICK y \in Considered : x = [of |-> y, v |-> Verdict(f, d, y[1], y[2])] /\ Verdict(f, d, y[1], y[2]).is = "SETUP"
      BY <2>3, <2>7
    <3>2. y[1] \in DOMAIN scenario.sessions
      BY DEF Considered
    <3>3. x.v.entry \in Nat
      BY <2>2, <2>5, <3>1, <3>2, SetupIs
    <3>4. EndedBy(f, Verdict(f, d, y[1], y[2]).entry)
      BY <2>1, <2>2, <3>1, <3>3, ClosedIs
    <3>5. Verdict(g, e, y[1], y[2]) = Verdict(f, d, y[1], y[2])
      BY <2>2, <2>6, <3>1, <3>2, <3>4, SettledBoth
    <3>6. x \in Setups(g, e)
      BY <2>4, <2>7, <3>1, <3>5
    <3>. QED
      BY <1>1, <2>1, <2>7, <3>6
  <2>8. CASE x \in Setups(g, e)
    <3>1. PICK y \in Considered : x = [of |-> y, v |-> Verdict(g, e, y[1], y[2])] /\ Verdict(g, e, y[1], y[2]).is = "SETUP"
      BY <2>3, <2>8
    <3>2. y[1] \in DOMAIN scenario.sessions
      BY DEF Considered
    <3>3. x.v.entry \in Nat
      BY <2>2, <2>5, <3>1, <3>2, SetupIs
    <3>4. EndedBy(f, Verdict(g, e, y[1], y[2]).entry)
      BY <2>1, <2>2, <3>1, <3>3, ClosedIs
    <3>5. Verdict(g, e, y[1], y[2]) = Verdict(f, d, y[1], y[2])
      BY <2>2, <2>6, <3>1, <3>2, <3>4, SettledBoth
    <3>6. x \in Setups(f, d)
      BY <2>4, <2>8, <3>1, <3>5
    <3>. QED
      BY <1>1, <2>1, <2>8, <3>6
  <2>. QED
    BY <1>1, <2>1, <2>7, <2>8
<1>2. ASSUME Market, [Next]_vars
      PROVE  config.trigger = "NONE" \/ Len(TriggerFrame(mid)) >= MinBars =>
               LET old == Setups(mid, dxy)
                   new == Setups(mid', dxy')
               IN  \A x \in (old \ new) \cup (new \ old) : ~Closed(x.v.entry)
  BY <1>1, <1>2 DEF SettledIf
<1>. QED
  BY <1>2, MarketHolds, PTL DEF Spec, SettledSetups

-----------------------------------------------------------------------------
(* Refusals.                                                                *)

\* A label is traded in a candle that has ended, of a frame that is long enough.
LEMMA PossibleEnded ==
  ASSUME NEW f, FrameOK(f), ConfigOK, config.trigger # "NONE", NEW dir, NEW b \in Nat,
         NEW x \in Possible(f, dir, b)
  PROVE  Ends(f, x.entry, config.span) /\ Len(TriggerFrame(f)) >= MinBars
<1>. DEFINE F == TriggerFrame(f)
            span == config.span
            t == x.entry
            G == Grouped(f, span)
<1>1. span \in Positive
  BY DEF ConfigOK
<1>2. PICK i \in Entries(F, config.trigger, dir) : x = Traded(f, F, i) /\ x.entry >= b
  BY PossibleIs
<1>3. Len(F) >= MinBars
  <2>1. DOMAIN F = 1 .. Len(F) /\ Len(F) \in Nat
    BY <1>1, TriggerFrameOK
  <2>2. \E j : Label(F, j, dir)
    BY <1>2, <2>1, EntriesIn
  <2>. QED
    BY <2>2 DEF Label
<1>4. t = Min(Times(f, F[i].at)) /\ i \in 1 .. Len(F) /\ t >= F[i].at /\ Times(f, F[i].at) # {}
  BY <1>1, <1>2, TradedAt DEF Traded
<1>5. PICK n \in 1 .. Len(f) : t = f[n].at
  BY <1>1, PossibleTime
<1>6. t \in Nat /\ Len(f) > 0 /\ t <= f[Len(f)].at /\ f[Len(f)].at \in Nat
  <2>1. t \in Nat /\ Len(f) > 0
    BY <1>5, FrameBars
  <2>. QED
    BY <1>5, <2>1, LastBar
<1>7. CASE span = 1
  <2>1. Bin(t, span) <= t /\ Bin(t, span) \in Nat
    BY <1>1, <1>6, BinBounds
  <2>. HIDE DEF t
  <2>. QED
    BY <1>3, <1>6, <1>7, <2>1 DEF Ends, t
<1>8. CASE span # 1
  <2>1. F = Resample(f, span)
    BY <1>8 DEF TriggerFrame
  <2>2. F \in Seq(Bars) /\ Len(F) <= Len(G) /\ \A j \in 1 .. Len(F) : F[j] = G[j]
    BY <1>1, <2>1, ResampleIs
  <2>3. Shaped(G, f, Len(f), span)
    BY <1>1, GroupedShaped
  <2>. DEFINE q == Len(Sofar(f, span)[n])
  <2>4. q \in 1 .. Len(G) /\ Around(G, q, t, span)
    BY <1>1, <1>5, AroundBar
  <2>. HIDE DEF G, F, q, t
  <2>5. /\ Len(F) \in Nat /\ Len(G) \in Nat /\ i \in 1 .. Len(G) /\ F[i] = G[i]
        /\ \A j \in 1 .. Len(G) : G[j].at \in Nat
        /\ \A j, k \in 1 .. Len(G) : j < k => G[j].at < G[k].at
    <3>1. FrameOK(G)
      BY <2>3 DEF Shaped
    <3>2. /\ Len(G) \in Nat /\ \A j \in 1 .. Len(G) : G[j].at \in Nat
          /\ \A j, k \in 1 .. Len(G) : j < k => G[j].at < G[k].at
      BY <3>1, FrameBars
    <3>3. Len(F) \in Nat /\ i \in 1 .. Len(F)
      BY <1>4, <2>2
    <3>. QED
      BY <2>2, <3>2, <3>3
  <2>6. PICK j \in 1 .. Len(f) : G[i].at = Bin(f[j].at, span)
    BY <2>3, <2>5 DEF Shaped
  <2>7. f[j].at \in Nat /\ G[i].at <= f[j].at
    <3>1. f[j].at \in Nat
      BY FrameBars
    <3>. QED
      BY <1>1, <2>6, <3>1, BinBounds
  <2>8. t <= f[j].at
    <3>1. f[j].at \in Times(f, F[i].at) /\ Times(f, F[i].at) \in SUBSET Nat
      BY <2>5, <2>7, TimesAre
    <3>. QED
      BY <1>4, <3>1, MinOfNat
  <2>9. Bin(t, span) = G[i].at
    <3>1. Bin(t, span) <= Bin(f[j].at, span)
      BY <1>1, <1>6, <2>7, <2>8, BinOrder
    <3>2. Bin(t, span) < Bin(f[j].at, span) => Bin(t, span) + span <= Bin(f[j].at, span)
      BY <1>1, <1>6, <2>7, BinOrder
    <3>3. t < Bin(t, span) + span /\ Bin(t, span) \in Nat
      BY <1>1, <1>6, BinBounds
    <3>4. G[i].at <= t /\ G[i].at \in Nat
      BY <1>4, <2>5
    <3>5. span \in Nat
      BY <1>1 DEF Positive
    <3>. HIDE DEF span
    <3>. QED
      BY <1>6, <2>6, <3>1, <3>2, <3>3, <3>4, <3>5
  <2>10. q = i
    <3>1. G[q].at = G[i].at
      BY <2>4, <2>9 DEF Around
    <3>2. ~(q < i) /\ ~(i < q)
      BY <2>4, <2>5, <3>1
    <3>. QED
      BY <2>4, <2>5, <3>2
  <2>11. q \in 1 .. Len(Resample(f, span)) <=> Ends(f, t, span)
    BY <1>1, <1>5, <2>4, ResampleAround DEF G
  <2>12. Ends(f, t, span)
    BY <1>4, <2>1, <2>10, <2>11
  <2>. QED
    BY <1>3, <2>12 DEF F, t
<1>. QED
  BY <1>7, <1>8

\* Later minutes add labels after those that could be traded already.
LEMMA PossibleGoesOn ==
  ASSUME NEW t \in Nat, NEW f, NEW g, GoesOn(f, g, t), ConfigOK, NEW dir, NEW b \in Nat,
         NEW y \in Possible(f, dir, b)
  PROVE  /\ y \in Possible(g, dir, b)
         /\ \A w \in Possible(g, dir, b) : w.entry <= y.entry => w \in Possible(f, dir, b)
         /\ \E m \in 1 .. Len(f) : f[m].at = y.entry
<1>1. FrameOK(f) /\ FrameOK(g) /\ config.span \in Positive
  BY DEF GoesOn, ConfigOK
<1>2. PICK m \in 1 .. Len(f) : y.entry = f[m].at
  BY <1>1, PossibleTime
<1>3. Meet(f, g, m) /\ Meet(g, f, m) /\ f[m].at = g[m].at /\ f[m].at \in Nat
  BY <1>1, GoesOnSame, MeetBack, FrameBars
<1>4. LabelsMeet(f, g, m) /\ LabelsMeet(g, f, m)
  <2>1. CASE config.trigger = "NONE"
    BY <2>1 DEF LabelsMeet
  <2>2. CASE config.trigger # "NONE"
    <3>1. Ends(f, f[m].at, config.span) /\ SettledIf(f)
      BY <1>1, <1>2, <2>2, PossibleEnded DEF SettledIf
    <3>2. f # <<>>
      BY <1>1, FrameBars
    <3>. QED
      BY <3>1, <3>2, SettledLabels DEF EndedBy
  <2>. QED
    BY <2>1, <2>2
<1>5. b < f[m].at \/ config.trigger # "NONE"
  <2>1. CASE config.trigger = "NONE"
    BY <1>1, <1>2, <2>1, EntryLater
  <2>. QED
    BY <2>1
<1>6. y \in Possible(g, dir, b)
  BY <1>1, <1>2, <1>3, <1>4, <1>5, PossibleMeet
<1>7. ASSUME NEW w \in Possible(g, dir, b), w.entry <= y.entry PROVE w \in Possible(f, dir, b)
  BY <1>1, <1>2, <1>3, <1>4, <1>5, <1>7, PossibleMeet
<1>. QED
  BY <1>2, <1>6, <1>7

LEMMA JudgementOneOf ==
  ASSUME NEW f, NEW d, NEW s, NEW dir, NEW b, NEW prev, NEW x
  PROVE  /\ Judgement(f, d, s, dir, b, prev, x) \in
              Final \cup {"DXY_CONFIRMED", "ZONE_WRONG_DIRECTION", "NO_ZONE"}
         /\ Judgement(f, d, s, dir, b, prev, x) = "DXY_CONFIRMED" =>
              /\ config.divergence /\ config.invalidate /\ prev # {}
              /\ ~NonConfirm(d, s, x.entry, dir, prev)
         /\ Judgement(f, d, s, dir, b, prev, x) = "SETUP" =>
              ~(config.divergence /\ config.invalidate /\ prev # {} /\ ~NonConfirm(d, s, x.entry, dir, prev))
BY DEF Judgement, Final

LEMMA JudgementConfirms ==
  ASSUME NEW f, NEW d, NEW s, NEW dir, NEW b, NEW prev, NEW x,
         Judgement(f, d, s, dir, b, prev, x) = "DXY_CONFIRMED"
  PROVE  /\ config.divergence /\ config.invalidate /\ prev # {}
         /\ ~NonConfirm(d, s, x.entry, dir, prev)
  BY JudgementOneOf

\* What confirmed a break goes on confirming it.
LEMMA ConfirmedLater ==
  ASSUME NEW d, FrameOK(d), NEW e, FrameOK(e), NEW t \in Nat, SameBefore(d, e, t),
         NEW s \in Session, NEW dir, NEW prev, \A i \in prev : d[i] = e[i],
         NEW u \in Nat, NEW w \in Nat, u <= t, u <= w, ~NonConfirm(d, s, u, dir, prev)
  PROVE  ~NonConfirm(e, s, w, dir, prev)
<1>1. s.start \in Nat
  BY DEF Session
<1>2. Highest(d, prev, Opposite(dir)) = Highest(e, prev, Opposite(dir))
  BY HighestSame
<1>3. PICK i \in Slice(d, s.start, u) : ~(Reach(d[i], Opposite(dir)) <= Highest(d, prev, Opposite(dir)))
  BY DEF NonConfirm
<1>4. i \in 1 .. Len(d) /\ d[i].at \in Nat /\ s.start <= d[i].at /\ d[i].at < u
  BY <1>1, <1>3, SliceIs, FrameBars
<1>5. i \in 1 .. Len(e) /\ e[i] = d[i]
  BY <1>4 DEF SameBefore
<1>6. i \in Slice(e, s.start, w)
  BY <1>1, <1>4, <1>5, SliceIs
<1>. QED
  BY <1>2, <1>3, <1>5, <1>6 DEF NonConfirm

\* A label that was too late, outside the session or confirmed by the dollar index.
LEMMA TriggerRefused ==
  ASSUME NEW t \in Nat, NEW f, NEW g, GoesOn(f, g, t), NEW d, NEW e, GoesOn(d, e, t), ConfigOK,
         NEW s \in Session, NEW dir, NEW b \in Nat, NEW prev, \A i \in prev : d[i] = e[i],
         Trigger(f, d, s, dir, b, prev).is \notin Pending
  PROVE  Trigger(g, e, s, dir, b, prev).is # "SETUP"
<1>. DEFINE found == Found(f, d, s, dir, b, prev)
            other == Found(g, e, s, dir, b, prev)
            x == Told(found)
            w == Told(other)
            X == Possible(f, dir, b)
            Y == Possible(g, dir, b)
<1>. SUFFICES ASSUME Trigger(g, e, s, dir, b, prev).is = "SETUP" PROVE FALSE
  OBVIOUS
<1>1. FrameOK(f) /\ FrameOK(g) /\ FrameOK(d) /\ FrameOK(e) /\ SameBefore(d, e, t + 1)
      /\ \A i \in 1 .. Len(f) : f[i].at \in 1 .. t
  BY GoesOnSame DEF GoesOn
<1>2. DOMAIN found = X /\ DOMAIN other = Y /\ Labels(X) /\ Labels(Y)
  BY <1>1, PossibleLabels DEF Found
<1>3. X # {} /\ found[x] \notin Pending
  BY <1>2, TriggerIs DEF Refused, Pending
<1>4. Y # {} /\ other[w] = "SETUP"
  BY <1>2, TriggerIs DEF Refused
<1>5. /\ x \in X /\ w \in Y /\ \A y \in Y : other[y] \in Final => w.entry <= y.entry
      /\ found[x] \in Final => \A y \in X : found[y] \in Final => x.entry <= y.entry
      /\ found[x] \notin Final => \A y \in X : found[y] \notin Final
  BY <1>2, <1>3, <1>4, ToldIs DEF Final
<1>6. ASSUME NEW y \in X PROVE y \in Y /\ found[y] = other[y] /\ y.entry \in 1 .. t
  <2>1. y \in Y /\ \E m \in 1 .. Len(f) : f[m].at = y.entry
    BY PossibleGoesOn
  <2>2. PICK m \in 1 .. Len(f) : f[m].at = y.entry
    BY <2>1
  <2>3. Meet(f, g, m) /\ PassedAlike(f, g, f[m].at)
    BY GoesOnSame, GoesOnPassed
  <2>4. f[m].at \in Nat /\ f[m].at <= t + 1
    BY <1>1
  <2>5. SameBefore(d, e, f[m].at)
    BY <1>1, <2>4, SameSooner
  <2>6. y.entry <= f[m].at
    BY <2>2, <2>4
  <2>7. Judgement(f, d, s, dir, b, prev, y) = Judgement(g, e, s, dir, b, prev, y)
    BY <1>1, <2>2, <2>3, <2>5, <2>6, JudgementSame
  <2>. QED
    BY <1>1, <2>1, <2>2, <2>7 DEF Found
<1>7. \A y \in Y : y.entry <= x.entry => y \in X
  BY <1>5, PossibleGoesOn
<1>8. x.entry \in Nat /\ w.entry \in Nat /\ x.entry <= t
  BY <1>2, <1>5, <1>6 DEF Labels
<1>9. found[x] = Judgement(f, d, s, dir, b, prev, x) /\ other[w] = Judgement(g, e, s, dir, b, prev, w)
  BY <1>5 DEF Found
<1>. HIDE DEF found, other, x, w, X, Y
<1>10. CASE found[x] \in Final
  <2>1. w.entry <= x.entry
    BY <1>5, <1>6, <1>10
  <2>2. w \in X /\ found[w] = "SETUP"
    BY <1>4, <1>5, <1>6, <1>7, <2>1
  <2>3. x.entry = w.entry
    BY <1>5, <1>8, <1>10, <2>1, <2>2 DEF Final
  <2>4. x = w
    BY <1>2, <1>5, <2>2, <2>3 DEF Labels
  <2>. QED
    BY <1>3, <2>2, <2>4 DEF Pending
<1>11. CASE found[x] \notin Final
  <2>1. found[x] = "DXY_CONFIRMED"
    BY <1>3, <1>9, <1>11, JudgementOneOf DEF Pending
  <2>2. w \notin X
    BY <1>4, <1>5, <1>6, <1>11 DEF Final
  <2>3. x.entry <= w.entry
    <3>1. ~(w.entry <= x.entry)
      BY <1>5, <1>7, <2>2
    <3>. QED
      BY <1>8, <3>1
  <2>4. config.divergence /\ config.invalidate /\ prev # {} /\ ~NonConfirm(d, s, x.entry, dir, prev)
    <3>1. Judgement(f, d, s, dir, b, prev, x) = "DXY_CONFIRMED"
      BY <1>9, <2>1
    <3>. QED
      BY <3>1, JudgementConfirms
  <2>5. ~NonConfirm(e, s, w.entry, dir, prev)
    <3>1. t + 1 \in Nat /\ x.entry <= t + 1
      BY <1>8
    <3>. QED
      BY <1>1, <1>8, <2>3, <2>4, <3>1, ConfirmedLater
  <2>. QED
    BY <1>4, <1>9, <2>4, <2>5, JudgementOneOf
<1>. QED
  BY <1>10, <1>11

LEMMA RefusedStays ==
  ASSUME NEW t \in Nat, NEW f, NEW g, GoesOn(f, g, t), NEW d, NEW e, GoesOn(d, e, t),
         ConfigOK, SessionsOK, NEW k \in DOMAIN scenario.sessions, NEW dir,
         Verdict(f, d, k, dir).is \notin Pending
  PROVE  Verdict(g, e, k, dir).is # "SETUP"
<1>. DEFINE s == scenario.sessions[k]
            p == Previous(f, k)
            b == FirstBreak(f, k, dir)
            prev == SessionSlice(d, p)
            u == t + 1
<1>1. FrameOK(f) /\ FrameOK(g) /\ FrameOK(d) /\ FrameOK(e) /\ SameBefore(d, e, u) /\ SameBefore(f, g, u)
      /\ u \in Nat /\ \A i \in 1 .. Len(f) : f[i].at \in 1 .. t
  <2>1. SameBefore(f, g, u) /\ SameBefore(d, e, u)
    BY GoesOnSame
  <2>. QED
    BY <2>1 DEF GoesOn
<1>2. Reached(f, k, dir) /\ Verdict(f, d, k, dir) = Broken(f, d, s, p, dir, b)
  BY VerdictIs DEF Pending
<1>3. b \in Nat /\ p \in Session /\ p.end <= b /\ s \in Session /\ b < u
  <2>1. /\ b \in Nat /\ p \in Session /\ p.end <= b /\ s \in Session
        /\ Min(Breaks(f, k, dir)) \in 1 .. Len(f)
    BY <1>1, <1>2, FirstBreakIs DEF ConfigOK, SessionsOK
  <2>2. b \in 1 .. t
    BY <1>1, <2>1 DEF FirstBreak
  <2>. QED
    BY <2>1, <2>2
<1>. HIDE DEF s, p, b, u
<1>4. Reached(g, k, dir) /\ Previous(g, k) = p /\ FirstBreak(g, k, dir) = b
  BY <1>1, <1>2, <1>3, ReachedSame DEF ConfigOK, p, b
<1>5. Verdict(g, e, k, dir) = Broken(g, e, s, p, dir, b)
  BY <1>4, VerdictIs DEF s
<1>6. /\ prev = SessionSlice(e, p) /\ \A i \in prev : d[i] = e[i]
      /\ Missing(d, s, p, b) <=> Missing(e, s, p, b)
      /\ Confirmed(d, s, p, dir, b) <=> Confirmed(e, s, p, dir, b)
  BY <1>1, <1>3, BrokenSame
<1>7. CASE Missing(d, s, p, b) \/ Confirmed(d, s, p, dir, b)
  BY <1>5, <1>6, <1>7, BrokenIs DEF Refused
<1>8. CASE ~(Missing(d, s, p, b) \/ Confirmed(d, s, p, dir, b))
  <2>1. Verdict(f, d, k, dir) = Trigger(f, d, s, dir, b, prev)
    BY <1>2, <1>8, BrokenIs
  <2>2. Verdict(g, e, k, dir) = Trigger(g, e, s, dir, b, prev)
    BY <1>5, <1>6, <1>8, BrokenIs
  <2>. QED
    BY <1>3, <1>6, <2>1, <2>2, TriggerRefused
<1>. QED
  BY <1>7, <1>8

\* A setup refused because the dollar index has confirmed the break or lacks data,
\* or because its label came too late or outside the session, is never found by a
\* backtest over a longer period: the loop over the labels of _build_candidates
\* does not come back to it.
THEOREM RefusedForGoodHolds == Spec => RefusedForGood
<1>1. ASSUME Market, [Next]_vars, NEW y \in Considered, Verdict(mid, dxy, y[1], y[2]).is \notin Pending
      PROVE  Verdict(mid', dxy', y[1], y[2]).is # "SETUP"
  <2>1. PICK f, g, d, e : f = mid /\ g = mid' /\ d = dxy /\ e = dxy'
    OBVIOUS
  <2>2. GoesOn(f, g, now) /\ GoesOn(d, e, now) /\ now \in Nat /\ ConfigOK /\ SessionsOK
    BY <1>1, <2>1, MarketGoesOn, ScenarioOK DEF Market
  <2>3. y[1] \in DOMAIN scenario.sessions
    BY DEF Considered
  <2>4. Verdict(g, e, y[1], y[2]).is # "SETUP"
    BY <1>1, <2>1, <2>2, <2>3, RefusedStays
  <2>. QED
    BY <2>1, <2>4
<1>2. ASSUME Market, [Next]_vars
      PROVE  \A y \in Considered :
               Verdict(mid, dxy, y[1], y[2]).is \notin Pending =>
                 Verdict(mid', dxy', y[1], y[2]).is # "SETUP"
  BY <1>1, <1>2
<1>. QED
  BY <1>2, MarketHolds, PTL DEF Spec, RefusedForGood

-----------------------------------------------------------------------------
(* Another last minute.                                                     *)

LEMMA AppendBar ==
  ASSUME NEW f, FrameOK(f), NEW b \in Bars, \A i \in 1 .. Len(f) : f[i].at < b.at
  PROVE  /\ FrameOK(Append(f, b)) /\ Len(Append(f, b)) = Len(f) + 1
         /\ Append(f, b)[Len(f) + 1] = b
         /\ \A i \in 1 .. Len(f) : Append(f, b)[i] = f[i]
<1>. DEFINE g == Append(f, b)
<1>1. Len(f) \in Nat /\ f \in Seq(Bars) /\ \A i, j \in 1 .. Len(f) : i < j => f[i].at < f[j].at
  BY FrameBars DEF FrameOK
<1>2. g \in Seq(Bars) /\ Len(g) = Len(f) + 1 /\ g[Len(f) + 1] = b /\ \A i \in 1 .. Len(f) : g[i] = f[i]
  BY <1>1
<1>. HIDE DEF g
<1>3. ASSUME NEW i \in 1 .. Len(g), NEW j \in 1 .. Len(g), i < j PROVE g[i].at < g[j].at
  <2>1. i \in 1 .. Len(f)
    BY <1>1, <1>2, <1>3
  <2>2. CASE j \in 1 .. Len(f)
    BY <1>1, <1>2, <1>3, <2>1, <2>2
  <2>3. CASE j = Len(f) + 1
    BY <1>1, <1>2, <2>1, <2>3
  <2>. QED
    BY <1>1, <1>2, <2>2, <2>3
<1>. QED
  BY <1>2, <1>3 DEF FrameOK, g

\* The bars before the last minute.
LEMMA BeforeIs ==
  ASSUME NEW f, FrameOK(f), now \in Nat, \A i \in 1 .. Len(f) : f[i].at \in 1 .. now
  PROVE  LET h == Before(f)
         IN  /\ FrameOK(h) /\ \A i \in 1 .. Len(h) : h[i].at < now
             /\ SameBefore(f, h, now) /\ More(h, f)
             /\ f # <<>> /\ f[Len(f)].at = now => Len(h) = Len(f) - 1 /\ Len(f) > 0
<1>. DEFINE h == Before(f)
            n == Len(f)
<1>1. /\ n \in Nat /\ f \in Seq(Bars)
      /\ \A i \in 1 .. n : f[i].at \in Nat
      /\ \A i, j \in 1 .. n : i < j => f[i].at < f[j].at
  BY FrameBars DEF FrameOK
<1>2. CASE f # <<>> /\ f[n].at = now
  <2>1. n > 0
    BY <1>1, <1>2
  <2>2. h = SubSeq(f, 1, n - 1)
    BY <1>2 DEF Before
  <2>3. h \in Seq(Bars) /\ Len(h) = n - 1 /\ \A i \in 1 .. (n - 1) : h[i] = f[i]
    BY <1>1, <2>1, <2>2, AllButLast
  <2>. HIDE DEF h
  <2>4. \A i \in 1 .. (n - 1) : i \in 1 .. n /\ f[i].at < now
    BY <1>1, <1>2, <2>1
  <2>5. FrameOK(h)
    BY <1>1, <2>3, <2>4 DEF FrameOK
  <2>6. ASSUME NEW i \in 1 .. n, f[i].at < now PROVE i \in 1 .. (n - 1)
    <3>1. i # n
      BY <1>1, <1>2, <2>6
    <3>. QED
      BY <1>1, <3>1
  <2>7. SameBefore(f, h, now)
    BY <2>3, <2>4, <2>6 DEF SameBefore
  <2>8. Len(h) <= n /\ Len(h) = n - 1
    BY <1>1, <2>3
  <2>. QED
    BY <2>1, <2>3, <2>4, <2>5, <2>7, <2>8 DEF More, h
<1>3. CASE ~(f # <<>> /\ f[n].at = now)
  <2>1. h = f
    BY <1>3 DEF Before
  <2>2. ASSUME NEW i \in 1 .. n PROVE f[i].at < now
    <3>1. n > 0
      BY <1>1, <2>2
    <3>2. f # <<>> /\ n \in 1 .. n
      BY <1>1, <3>1
    <3>3. f[n].at # now /\ f[n].at \in 1 .. now /\ f[i].at \in 1 .. now /\ f[i].at <= f[n].at
      BY <1>3, <3>1, <3>2, LastBar
    <3>. QED
      BY <3>3
  <2>3. SameBefore(f, f, now) /\ More(f, f)
    BY <1>1 DEF SameBefore, More
  <2>. QED
    BY <1>3, <2>1, <2>2, <2>3
<1>. QED
  BY <1>2, <1>3

LEMMA SameThrough ==
  ASSUME NEW f, NEW h, NEW g, NEW t, FrameOK(f), FrameOK(h), FrameOK(g), t \in Nat,
         SameBefore(f, h, t), Len(h) <= Len(g), \A i \in 1 .. Len(h) : g[i] = h[i],
         \A i \in 1 .. Len(g) : i > Len(h) => g[i].at >= t
  PROVE  SameBefore(f, g, t)
<1>1. Len(h) \in Nat /\ Len(g) \in Nat /\ \A i \in 1 .. Len(g) : g[i].at \in Nat
  BY FrameBars
<1>2. ASSUME NEW i \in 1 .. Len(f), f[i].at < t PROVE i \in 1 .. Len(g) /\ g[i] = f[i]
  <2>1. i \in 1 .. Len(h) /\ h[i] = f[i]
    BY <1>2 DEF SameBefore
  <2>. QED
    BY <1>1, <2>1
<1>3. ASSUME NEW i \in 1 .. Len(g), g[i].at < t PROVE i \in 1 .. Len(f) /\ f[i] = g[i]
  <2>1. i \in 1 .. Len(h)
    BY <1>1, <1>3
  <2>. QED
    BY <1>3, <2>1 DEF SameBefore
<1>. QED
  BY <1>2, <1>3 DEF SameBefore

\* Two frames that end at the bar where they meet.
LEMMA LastLabels ==
  ASSUME NEW f, FrameOK(f), NEW g, FrameOK(g), NEW m, Meet(f, g, m), m = Len(f), m = Len(g), ConfigOK
  PROVE  LabelsMeet(f, g, m)
<1>. DEFINE span == config.span
            C == Grouped(f, span)
            D == Grouped(g, span)
<1>1. m \in 1 .. Len(f) /\ Len(f) > 0 /\ Len(g) > 0 /\ f[m].at = g[m].at /\ f[m].at \in Nat /\ span \in Positive
  BY FrameBars DEF Meet, ConfigOK
<1>2. Ends(f, f[m].at, span) <=> Ends(g, g[m].at, span)
  BY <1>1 DEF Ends
<1>3. PICK q \in Nat : Alike(C, D, q) /\ Around(C, q, f[m].at, span) /\ Around(D, q, f[m].at, span)
  BY <1>1, GroupedMeet
<1>4. /\ Len(C) > 0 /\ C[Len(C)].at = Bin(f[m].at, span)
      /\ Len(D) > 0 /\ D[Len(D)].at = Bin(f[m].at, span)
      /\ Len(Resample(f, span)) = IF Ends(f, f[m].at, span) THEN Len(C) ELSE Len(C) - 1
      /\ Len(Resample(g, span)) = IF Ends(g, g[m].at, span) THEN Len(D) ELSE Len(D) - 1
  <2>1. /\ Len(C) > 0 /\ C[Len(C)].at = Bin(f[Len(f)].at, span)
        /\ Len(Resample(f, span)) = IF Ends(f, f[Len(f)].at, span) THEN Len(C) ELSE Len(C) - 1
    BY <1>1, ResampleIs
  <2>2. /\ Len(D) > 0 /\ D[Len(D)].at = Bin(g[Len(g)].at, span)
        /\ Len(Resample(g, span)) = IF Ends(g, g[Len(g)].at, span) THEN Len(D) ELSE Len(D) - 1
    BY <1>1, ResampleIs
  <2>3. f[Len(f)] = f[m] /\ g[Len(g)] = g[m]
    OBVIOUS
  <2>. QED
    BY <1>1, <2>1, <2>2, <2>3
<1>5. FrameOK(C) /\ FrameOK(D)
  BY <1>1, GroupedShaped DEF Shaped
<1>. HIDE DEF C, D
<1>6. q = Len(C) /\ q = Len(D)
  <2>1. q \in 1 .. Len(C) /\ q \in 1 .. Len(D) /\ C[q].at = C[Len(C)].at /\ D[q].at = D[Len(D)].at
    BY <1>3, <1>4 DEF Alike, Around
  <2>2. /\ Len(C) \in Nat /\ Len(D) \in Nat
        /\ \A i \in 1 .. Len(C) : C[i].at \in Nat
        /\ \A i \in 1 .. Len(D) : D[i].at \in Nat
        /\ \A i, j \in 1 .. Len(C) : i < j => C[i].at < C[j].at
        /\ \A i, j \in 1 .. Len(D) : i < j => D[i].at < D[j].at
    BY <1>5, FrameBars
  <2>3. ~(q < Len(C)) /\ ~(q < Len(D))
    BY <1>4, <2>1, <2>2
  <2>. QED
    BY <2>1, <2>2, <2>3
<1>7. Len(TriggerFrame(f)) = Len(TriggerFrame(g))
  BY <1>2, <1>4, <1>6 DEF TriggerFrame
<1>. QED
  BY <1>1, <1>2, <1>7 DEF LabelsMeet

\* The frames with another last minute meet the real ones at that minute.
LEMMA LastMinutesIs ==
  ASSUME Market, NEW w \in LastMinutes
  PROVE  /\ Len(mid) \in Nat /\ mid[Len(mid)].at = now /\ FrameOK(w[1]) /\ FrameOK(w[2])
         /\ Len(w[1]) = Len(mid) /\ Meet(mid, w[1], Len(mid))
         /\ SameBefore(mid, w[1], now) /\ SameBefore(dxy, w[2], now)
<1>. DEFINE m == Len(mid)
            g == w[1]
            e == w[2]
            h == Before(mid)
            k == Before(dxy)
<1>1. /\ mid # <<>> /\ ~(mid[m].at < now)
      /\ g \in Otherwise(mid, scenario.bars[now])
      /\ e \in {IF c = None THEN k ELSE Append(k, At(c, now)) : c \in scenario.dollars[now]}
  BY DEF LastMinutes
<1>2. FrameOK(mid) /\ FrameOK(dxy) /\ now \in Nat /\ m \in Nat /\ m > 0
  BY <1>1, FrameBars DEF Market
<1>3. mid[m].at = now /\ now \in 1 .. scenario.horizon
  <2>1. m \in 1 .. m /\ mid[m].at \in 1 .. now
    BY <1>2, LastBar DEF Market
  <2>2. scenario.horizon \in Nat
    BY ScenarioAssumptions DEF Market, MarketData
  <2>. QED
    BY <1>1, <1>2, <2>1, <2>2 DEF Market
<1>4. PICK b \in scenario.bars[now] \ {None} : mid[m].o = b.o /\ g = Append(h, At(b, now))
  BY <1>1 DEF Otherwise
<1>5. PICK c \in scenario.dollars[now] : e = IF c = None THEN k ELSE Append(k, At(c, now))
  BY <1>1
<1>6. At(b, now) \in Bars /\ At(b, now).at = now /\ At(b, now).o = b.o
      /\ (c # None => At(c, now) \in Bars /\ At(c, now).at = now)
  <2>1. scenario.bars[now] \cup scenario.dollars[now] \subseteq Optional(Candle)
    BY <1>3, ScenarioAssumptions DEF Market, MarketData
  <2>2. b \in Candle /\ (c # None => c \in Candle)
    BY <2>1 DEF Optional
  <2>. QED
    BY <1>2, <2>2 DEF At, Bars, Candle
<1>7. /\ FrameOK(h) /\ \A i \in 1 .. Len(h) : h[i].at < now
      /\ SameBefore(mid, h, now) /\ More(h, mid) /\ Len(h) = m - 1
  BY <1>1, <1>2, <1>3, BeforeIs DEF Market
<1>8. /\ FrameOK(k) /\ \A i \in 1 .. Len(k) : k[i].at < now
      /\ SameBefore(dxy, k, now)
  BY <1>2, BeforeIs DEF Market
<1>. HIDE DEF h, k
<1>9. /\ FrameOK(g) /\ Len(g) = m /\ g[m] = At(b, now) /\ \A i \in 1 .. (m - 1) : g[i] = h[i]
  <2>1. FrameOK(Append(h, At(b, now))) /\ Len(Append(h, At(b, now))) = Len(h) + 1
        /\ Append(h, At(b, now))[Len(h) + 1] = At(b, now)
        /\ \A i \in 1 .. Len(h) : Append(h, At(b, now))[i] = h[i]
    BY <1>6, <1>7, AppendBar
  <2>2. Len(h) + 1 = m
    BY <1>2, <1>7
  <2>. QED
    BY <1>4, <1>7, <2>1, <2>2
<1>10. Meet(mid, g, m)
  <2>1. \A i \in 1 .. (m - 1) : mid[i] = g[i]
    BY <1>7, <1>9 DEF More
  <2>. QED
    BY <1>2, <1>3, <1>4, <1>6, <1>9, <2>1 DEF Meet
<1>11. SameBefore(mid, g, now)
  BY <1>2, <1>3, <1>9, <1>10, MeetSame
<1>12. FrameOK(e) /\ SameBefore(dxy, e, now)
  <2>1. CASE c = None
    BY <1>5, <1>8, <2>1
  <2>2. CASE c # None
    <3>. DEFINE a == At(c, now)
    <3>1. e = Append(k, a)
      BY <1>5, <2>2
    <3>2. /\ FrameOK(e) /\ Len(e) = Len(k) + 1 /\ e[Len(k) + 1] = a /\ \A i \in 1 .. Len(k) : e[i] = k[i]
      BY <1>6, <1>8, <2>2, <3>1, AppendBar
    <3>3. Len(k) \in Nat
      BY <1>8, FrameBars
    <3>4. ASSUME NEW i \in 1 .. Len(e), i > Len(k) PROVE e[i].at >= now
      <4>1. i = Len(k) + 1
        BY <3>2, <3>3, <3>4
      <4>. QED
        BY <1>2, <1>6, <2>2, <3>2, <4>1
    <3>. HIDE DEF e
    <3>. QED
      BY <1>2, <1>8, <3>2, <3>3, <3>4, SameThrough
  <2>. QED
    BY <2>1, <2>2
<1>. QED
  BY <1>2, <1>3, <1>9, <1>10, <1>11, <1>12

\* A setup entered at the last minute that only one of two frames has.
LEMMA PeekAtBreak ==
  ASSUME NEW u \in Nat, SessionsOK, ConfigOK,
         NEW f, FrameOK(f), NEW g, FrameOK(g), NEW m, Meet(f, g, m), f[m].at = u,
         m = Len(f), m = Len(g), SameBefore(f, g, u),
         NEW d, FrameOK(d), NEW e, FrameOK(e), SameBefore(d, e, u),
         \A z \in Zones(f) \cup Zones(g) : u \notin Hits(f, z) \cup Hits(g, z),
         NEW x \in Setups(f, d) \ Setups(g, e), x.v.entry = u
  PROVE  x.v.break = u
<1>. SUFFICES ASSUME x.v.break # u PROVE FALSE
  OBVIOUS
<1>1. PICK y \in Considered : x = [of |-> y, v |-> Verdict(f, d, y[1], y[2])] /\ x.v.is = "SETUP"
  BY DEF Setups
<1>. DEFINE k == y[1]
            dir == y[2]
            v == Verdict(f, d, k, dir)
<1>2. k \in DOMAIN scenario.sessions
  BY DEF Considered
<1>3. v.is = "SETUP" /\ v.entry = u /\ v.break # u
  BY <1>1
<1>4. v.break \in Nat /\ v.entry \in Nat /\ v.break <= v.entry
  BY <1>2, <1>3, SetupIs
<1>5. v.break < u /\ v.entry <= f[m].at /\ f[m].at <= u
  BY <1>3, <1>4
<1>6. LabelsMeet(f, g, m)
  BY LastLabels
<1>7. PassedAlike(f, g, f[m].at)
  BY DEF PassedAlike
<1>8. Verdict(g, e, k, dir) = v
  BY <1>2, <1>3, <1>5, <1>6, <1>7, VerdictSame
<1>9. x \in Setups(g, e)
  <2>1. x \in {[of |-> n, v |-> Verdict(g, e, n[1], n[2])] : n \in Considered}
    BY <1>1, <1>8
  <2>. QED
    BY <1>1, <2>1 DEF Setups
<1>. QED
  BY <1>9

\* What is entered at the opening of a minute does not depend on what the minute
\* brings, but for two peeks: the level breaks in that very minute, or a zone is
\* passed in it.
THEOREM OnlyTwoPeeksHolds == Spec => []OnlyTwoPeeks
<1>1. ASSUME Market, NEW w \in LastMinutes, NEW x \in Differing(mid, dxy, w[1], w[2]),
             x.v.break # now,
             \A z \in Zones(mid) \cup Zones(w[1]) : now \notin Hits(mid, z) \cup Hits(w[1], z)
      PROVE  FALSE
  <2>. DEFINE m == Len(mid)
              g == w[1]
              e == w[2]
  <2>1. now \in Nat /\ SessionsOK /\ ConfigOK /\ FrameOK(mid) /\ FrameOK(dxy)
    BY <1>1, ScenarioOK DEF Market
  <2>2. /\ mid[m].at = now /\ FrameOK(g) /\ FrameOK(e) /\ m = Len(g) /\ Meet(mid, g, m)
        /\ SameBefore(mid, g, now) /\ SameBefore(dxy, e, now)
    BY <1>1, LastMinutesIs
  <2>3. /\ Meet(g, mid, m) /\ g[m].at = now
        /\ SameBefore(g, mid, now) /\ SameBefore(e, dxy, now)
    BY <2>2, MeetBack, SameBack
  <2>4. /\ x.v.entry = now
        /\ x \in Setups(mid, dxy) \ Setups(g, e) \/ x \in Setups(g, e) \ Setups(mid, dxy)
    BY <1>1 DEF Differing, Entered
  <2>5. \A z \in Zones(g) \cup Zones(mid) : now \notin Hits(g, z) \cup Hits(mid, z)
    BY <1>1
  <2>. HIDE DEF g, e
  <2>6. CASE x \in Setups(mid, dxy) \ Setups(g, e)
    BY <1>1, <2>1, <2>2, <2>4, <2>5, <2>6, PeekAtBreak
  <2>7. CASE x \in Setups(g, e) \ Setups(mid, dxy)
    BY <1>1, <2>1, <2>2, <2>3, <2>4, <2>5, <2>7, PeekAtBreak
  <2>. QED
    BY <2>4, <2>6, <2>7
<1>2. Market => OnlyTwoPeeks
  BY <1>1 DEF OnlyTwoPeeks
<1>. QED
  BY <1>2, MarketHolds, PTL
=============================================================================
