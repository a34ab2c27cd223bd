------------------------ MODULE RiskSelectionProofs ------------------------
(***************************************************************************)
(* RiskSelection's no-overlap rule and the limits of a day, for every set  *)
(* of sessions, every risk configuration and every sequence of setups.     *)
(*                                                                         *)
(* No overlap: the code compares a setup with the last trade only; Settled *)
(* carries this back to all trades.  Limits: the day a trade is added to   *)
(* was compared with its limit just before, the other days keep theirs;    *)
(* the budget needs that a fold over a set of trades is a sum.             *)
(***************************************************************************)
EXTENDS RiskSelection, FiniteSetTheorems, WellFoundedInduction, TLAPS

\* The part of the types the argument needs.
TradesOK == trades \in Seq(Trades)

Settling == TradesOK /\ Settled /\ NoOverlap

\* A loop turn keeps the trades or adds one that was looked at in full.
LEMMA Turn ==
  ASSUME NEW c \in Offered, Consider(c)
  PROVE  \/ UNCHANGED <<config, trades>>
         \/ /\ ~Unknown(c) /\ ~DayClosed(c) /\ ~StillOpen(c) /\ ~OverBudget(c)
            /\ config' = config
            /\ \E r \in Results(c) :
                 trades' = Append(trades, [day |-> c.day, entry |-> c.entry,
                                           risk |-> Risk(c), outcome |-> r.outcome,
                                           exit |-> r.exit])
BY DEF Consider, Refuse, Take

\* The risk of a trade is one of the two configured.
LEMMA RiskType ==
  ASSUME NEW c, config \in Configs
  PROVE  Risk(c) \in Nat
BY RiskAssumptions DEF RiskConfig, Risk

LEMMA OfferedType == ASSUME NEW c \in Offered PROVE c.day \in Nat /\ c.entry \in Nat
<1>1. PICK w \in Sessions, t \in UNION {v.start .. (v.end - 1) : v \in Sessions}, r \in Ranks :
        c = [day |-> w.day, entry |-> t, rank |-> r]
  BY DEF Offered
<1>2. PICK v \in Sessions : t \in v.start .. (v.end - 1)
  BY <1>1
<1>3. w.day \in Nat /\ v.start \in Nat
  BY RiskAssumptions
<1>. QED
  BY <1>1, <1>2, <1>3

\* What a simulation returns: a known end not before the entry, or no end.
LEMMA ResultsType ==
  ASSUME NEW c, c.entry \in Nat, NEW r \in Results(c)
  PROVE  /\ r.outcome \in Outcomes /\ r.exit \in Nat \cup {NoExit}
         /\ r.outcome # "INDETERMINATE" => r.exit \in Nat /\ c.entry <= r.exit
BY RiskAssumptions DEF Results, Outcomes

LEMMA SettlingStep ==
  ASSUME config \in Configs, Settling, [Next]_vars
  PROVE  Settling' /\ config' \in Configs
<1>1. CASE UNCHANGED <<config, trades>>
  BY <1>1 DEF Settling, TradesOK, Settled, NoOverlap
<1>2. ASSUME NEW c \in Offered, ~Unknown(c), ~StillOpen(c), config' = config,
             NEW r \in Results(c),
             trades' = Append(trades, [day |-> c.day, entry |-> c.entry,
                                       risk |-> Risk(c), outcome |-> r.outcome,
                                       exit |-> r.exit])
      PROVE  Settling' /\ config' \in Configs
  <2>. DEFINE new == [day |-> c.day, entry |-> c.entry, risk |-> Risk(c),
                      outcome |-> r.outcome, exit |-> r.exit]
              n == Len(trades)
  <2>1. c.day \in Nat /\ c.entry \in Nat
    BY OfferedType
  <2>2. /\ r.outcome \in Outcomes /\ r.exit \in Nat \cup {NoExit}
        /\ r.outcome # "INDETERMINATE" => r.exit \in Nat /\ c.entry <= r.exit
    BY <2>1, ResultsType
  <2>3. new \in Trades
    BY <2>1, <2>2, RiskType DEF Trades
  <2>4. trades \in Seq(Trades) /\ n \in Nat
    BY DEF Settling, TradesOK
  <2>5. new.exit = r.exit /\ new.entry = c.entry /\ new.outcome = r.outcome
    OBVIOUS
  <2>. HIDE DEF new
  <2>6. trades' = Append(trades, new)
    BY <1>2 DEF new
  <2>7. /\ trades' \in Seq(Trades) /\ DOMAIN trades' = 1 .. (n + 1)
        /\ DOMAIN trades = 1 .. n
        /\ \A i \in 1 .. n : trades'[i] = trades[i]
        /\ trades'[n + 1] = new
        /\ Len(trades') = n + 1
    BY <2>3, <2>4, <2>6
  <2>8. \A i \in 1 .. n : /\ trades[i].outcome # "INDETERMINATE"
                          /\ trades[i].exit \in Nat /\ trades[i].entry <= trades[i].exit
    BY <1>2, <2>7 DEF Unknown, Settling, Settled
  <2>9. Settled'
    BY <2>2, <2>4, <2>5, <2>7, <2>8 DEF Settled
  <2>10. NoOverlap'
    <3>. SUFFICES ASSUME config.onePosition, NEW i \in 1 .. (n + 1), NEW j \in 1 .. (n + 1), i < j
                  PROVE  trades'[i].exit < trades'[j].entry
      BY <1>2, <2>7 DEF NoOverlap
    <3>1. CASE j \in 1 .. n
      BY <2>4, <2>7, <3>1 DEF Settling, NoOverlap
    <3>2. CASE j = n + 1
      <4>1. i \in 1 .. n /\ n \in 1 .. n /\ trades # <<>>
        BY <2>4, <3>2
      <4>2. trades[n].exit < c.entry
        BY <1>2, <2>1, <2>8, <4>1 DEF StillOpen
      <4>3. trades[i].exit <= trades[n].exit
        <5>1. CASE i = n
          BY <2>8, <4>1, <5>1
        <5>2. CASE i # n
          <6>0. i < n /\ i \in DOMAIN trades /\ n \in DOMAIN trades
            <7>1. i \in DOMAIN trades /\ n \in DOMAIN trades
              BY <2>7, <4>1
            <7>2. i \in Nat /\ n \in Nat /\ i <= n
              <8>. HIDE DEF n
              <8>. QED
                BY <2>4, <4>1
            <7>. QED
              BY <5>2, <7>1, <7>2
          <6>1. trades[i].exit < trades[n].entry
            BY <6>0 DEF Settling, NoOverlap
          <6>2. trades[i].exit \in Nat /\ trades[n].exit \in Nat
                /\ trades[n].entry \in Nat /\ trades[n].entry <= trades[n].exit
            <7>1. trades[n] \in Trades
              BY <2>4, <6>0
            <7>2. trades[n].entry \in Nat
              BY <7>1 DEF Trades
            <7>. QED
              BY <2>8, <4>1, <7>2
          <6>. QED
            BY <6>1, <6>2
        <5>. QED
          BY <5>1, <5>2
      <4>4. trades[i].exit < c.entry
        BY <2>1, <2>8, <4>1, <4>2, <4>3
      <4>. QED
        BY <2>5, <2>7, <3>2, <4>1, <4>4
    <3>. QED
      BY <2>4, <3>1, <3>2
  <2>. QED
    BY <1>2, <2>7, <2>9, <2>10 DEF Settling, TradesOK
<1>3. ASSUME Next PROVE Settling' /\ config' \in Configs
  <2>1. PICK c \in Offered : Consider(c)
    BY <1>3 DEF Next
  <2>. QED
    BY <1>1, <1>2, <2>1, Turn
<1>. QED
  BY <1>1, <1>3 DEF vars

LEMMA SettlingInit == Init => config \in Configs /\ Settling
BY DEF Init, Settling, TradesOK, Settled, NoOverlap

\* With one position at a time no two trades are open in the same minute.
THEOREM OnePositionHolds == Spec => []NoOverlap
<1>1. Settling => NoOverlap
  BY DEF Settling
<1>2. config \in Configs /\ Settling /\ [Next]_vars => (config \in Configs /\ Settling)'
  BY SettlingStep
<1>. QED
  BY <1>1, <1>2, SettlingInit, PTL DEF Spec

\* Nothing is traded after a position whose end is unknown.
THEOREM UnknownEndsTheRun == Spec => []NothingAfterUnknown
<1>1. Settling => NothingAfterUnknown
  BY DEF Settling, Settled, NothingAfterUnknown
<1>2. config \in Configs /\ Settling /\ [Next]_vars => (config \in Configs /\ Settling)'
  BY SettlingStep
<1>. QED
  BY <1>1, <1>2, SettlingInit, PTL DEF Spec

-----------------------------------------------------------------------------
(* Sums of risks.  RiskOf is a fold over a set, which takes the elements in *)
(* an order that is not known; that it is a sum whatever the order is shown *)
(* here once, by looking at a smallest set for which it would not be.       *)

LEMMA LeastNatural ==
  ASSUME NEW S \in SUBSET Nat, S # {}
  PROVE  \E x \in S : \A y \in S : x <= y
<1>1. IsWellFoundedOn(OpToRel(<, Nat), Nat)
  BY NatLessThanWellFounded
<1>2. PICK x \in S : \A y \in S : ~(<<y, x>> \in OpToRel(<, Nat))
  BY <1>1, WFMin
<1>3. ASSUME NEW y \in S, y < x PROVE <<y, x>> \in OpToRel(<, Nat)
  BY <1>3 DEF OpToRel
<1>4. \A y \in S : ~(y < x)
  BY <1>2, <1>3
<1>5. \A y \in S : x <= y
  BY <1>4
<1>. QED
  BY <1>5

\* Among sets of elements of a finite set one contains no other of them.
LEMMA SmallestSet ==
  ASSUME NEW S, IsFiniteSet(S), NEW B \in SUBSET (SUBSET S), B # {}
  PROVE  \E b \in B : \A c \in SUBSET b : c # b => c \notin B
<1>. DEFINE sizes == {Cardinality(b) : b \in B}
<1>1. ASSUME NEW b \in B PROVE IsFiniteSet(b) /\ Cardinality(b) \in Nat
  BY FS_Subset, FS_CardinalityType
<1>2. sizes \in SUBSET Nat /\ sizes # {}
  BY <1>1
<1>. HIDE DEF sizes
<1>3. PICK n \in sizes : \A m \in sizes : n <= m
  BY <1>2, LeastNatural
<1>4. PICK b \in B : n = Cardinality(b)
  BY <1>3 DEF sizes
<1>5. ASSUME NEW c \in SUBSET b, c # b, c \in B PROVE FALSE
  <2>1. Cardinality(c) < Cardinality(b)
    BY <1>1, <1>5, FS_Subset
  <2>2. Cardinality(b) <= Cardinality(c)
    BY <1>3, <1>4, <1>5 DEF sizes
  <2>. QED
    BY <2>1, <2>2, <1>1, <1>5
<1>. QED
  BY <1>5

Pick(s) == CHOOSE x \in s : TRUE

SumStep(g, t, s) == IF s = {} THEN 0 ELSE t[Pick(s)].risk + g[s \ {Pick(s)}]

Sums(g, t, S) == g = [s \in SUBSET S |-> SumStep(g, t, s)]

LEMMA PickIn == ASSUME NEW s, s # {} PROVE Pick(s) \in s
BY DEF Pick

LEMMA RiskOfUnfolds ==
  ASSUME NEW t, NEW S
  PROVE  RiskOf(t, S) = (CHOOSE g : Sums(g, t, S))[S]
BY DEF RiskOf, MapThenSumSet, MapThenFoldSet, Sums, SumStep, Pick

LEMMA SumsAt ==
  ASSUME NEW g, NEW t, NEW S, Sums(g, t, S), NEW s \in SUBSET S
  PROVE  g[s] = SumStep(g, t, s)
<1>. DEFINE h == [x \in SUBSET S |-> SumStep(g, t, x)]
<1>1. g = h
  BY DEF Sums
<1>2. h[s] = SumStep(g, t, s)
  OBVIOUS
<1>. HIDE DEF h
<1>. QED
  BY <1>1, <1>2

\* Two sums of the same risks agree.
LEMMA SumsAgree ==
  ASSUME NEW S, NEW T, IsFiniteSet(T), T \subseteq S,
         NEW g, NEW h, NEW t, NEW u, Sums(g, t, S), Sums(h, u, T),
         \A i \in T : t[i].risk = u[i].risk
  PROVE  \A s \in SUBSET T : g[s] = h[s]
<1>. DEFINE B == {s \in SUBSET T : g[s] # h[s]}
<1>. SUFFICES ASSUME B # {} PROVE FALSE
  OBVIOUS
<1>1. PICK b \in B : \A c \in SUBSET b : c # b => c \notin B
  <2>1. B \in SUBSET (SUBSET T)
    OBVIOUS
  <2>. HIDE DEF B
  <2>. QED
    BY <2>1, SmallestSet
<1>2. b \in SUBSET T /\ b \in SUBSET S /\ g[b] # h[b]
  OBVIOUS
<1>3. g[b] = SumStep(g, t, b) /\ h[b] = SumStep(h, u, b)
  BY <1>2, SumsAt
<1>4. b # {}
  BY <1>2, <1>3 DEF SumStep
<1>5. Pick(b) \in b
  BY <1>4, PickIn
<1>6. g[b \ {Pick(b)}] = h[b \ {Pick(b)}]
  <2>1. b \ {Pick(b)} \in SUBSET b /\ b \ {Pick(b)} # b /\ b \ {Pick(b)} \in SUBSET T
    BY <1>2, <1>5
  <2>2. b \ {Pick(b)} \notin B
    BY <1>1, <2>1
  <2>. QED
    BY <2>1, <2>2
<1>7. t[Pick(b)].risk = u[Pick(b)].risk
  BY <1>2, <1>5
<1>. QED
  BY <1>2, <1>3, <1>4, <1>6, <1>7 DEF SumStep

\* There is a sum over every finite set.
LEMMA SumsExist ==
  ASSUME NEW S, IsFiniteSet(S), NEW t
  PROVE  \E g : Sums(g, t, S)
<1>. DEFINE B == {s \in SUBSET S : ~ \E g : Sums(g, t, s)}
<1>. SUFFICES ASSUME B # {} PROVE FALSE
  OBVIOUS
<1>1. PICK b \in B : \A c \in SUBSET b : c # b => c \notin B
  <2>1. B \in SUBSET (SUBSET S)
    OBVIOUS
  <2>. HIDE DEF B
  <2>. QED
    BY <2>1, SmallestSet
<1>2. b \in SUBSET S /\ ~ \E g : Sums(g, t, b)
  OBVIOUS
<1>3. ASSUME NEW c \in SUBSET b, c # b PROVE Sums(CHOOSE g : Sums(g, t, c), t, c)
  <2>1. \E g : Sums(g, t, c)
    BY <1>1, <1>2, <1>3
  <2>. QED
    BY <2>1
<1>4. PICK G : G = [s \in SUBSET b |-> IF s = {} THEN 0
                      ELSE t[Pick(s)].risk + RiskOf(t, s \ {Pick(s)})]
  OBVIOUS
<1>5. ASSUME NEW s \in SUBSET b, s # b PROVE G[s] = RiskOf(t, s)
  <2>. DEFINE h == CHOOSE g : Sums(g, t, s)
  <2>1. Sums(h, t, s) /\ RiskOf(t, s) = h[s]
    BY <1>3, <1>5, RiskOfUnfolds
  <2>. HIDE DEF h
  <2>2. h[s] = SumStep(h, t, s)
    BY <2>1, SumsAt
  <2>3. CASE s = {}
    BY <1>4, <2>1, <2>2, <2>3 DEF SumStep
  <2>4. CASE s # {}
    <3>. DEFINE r == s \ {Pick(s)}
    <3>1. Pick(s) \in s /\ r \in SUBSET b /\ r # b /\ r \subseteq s
      BY <1>5, <2>4, PickIn
    <3>. DEFINE k == CHOOSE g : Sums(g, t, r)
    <3>2. Sums(k, t, r) /\ RiskOf(t, r) = k[r]
      BY <1>3, <3>1, RiskOfUnfolds
    <3>3. IsFiniteSet(r)
      BY <1>2, <3>1, FS_Subset
    <3>. HIDE DEF k
    <3>4. h[r] = k[r]
      <4>. HIDE DEF r
      <4>. QED
        BY <2>1, <3>1, <3>2, <3>3, SumsAgree
    <3>. QED
      BY <1>4, <2>1, <2>2, <2>4, <3>2, <3>4 DEF SumStep
  <2>. QED
    BY <2>3, <2>4
<1>6. ASSUME NEW s \in SUBSET b PROVE G[s] = SumStep(G, t, s)
  <2>1. CASE s = {}
    BY <1>4, <2>1 DEF SumStep
  <2>2. CASE s # {}
    <3>1. s \ {Pick(s)} \in SUBSET b /\ s \ {Pick(s)} # b
      BY <2>2, PickIn
    <3>2. G[s \ {Pick(s)}] = RiskOf(t, s \ {Pick(s)})
      BY <1>5, <3>1
    <3>. QED
      BY <1>4, <2>2, <3>2 DEF SumStep
  <2>. QED
    BY <2>1, <2>2
<1>7. Sums(G, t, b)
  <2>1. G = [s \in SUBSET b |-> G[s]]
    BY <1>4
  <2>. QED
    BY <1>6, <2>1 DEF Sums
<1>. QED
  BY <1>2, <1>7

LEMMA RiskOfSums ==
  ASSUME NEW S, IsFiniteSet(S), NEW t
  PROVE  \E g : Sums(g, t, S) /\ RiskOf(t, S) = g[S]
BY SumsExist, RiskOfUnfolds

LEMMA RiskOfNone == ASSUME NEW t PROVE RiskOf(t, {}) = 0
<1>1. PICK g : Sums(g, t, {}) /\ RiskOf(t, {}) = g[{}]
  BY RiskOfSums, FS_EmptySet
<1>. QED
  BY <1>1, SumsAt DEF SumStep

\* Only the risks in the places count.
LEMMA RiskOfSame ==
  ASSUME NEW S, IsFiniteSet(S), NEW t, NEW u, \A i \in S : t[i].risk = u[i].risk
  PROVE  RiskOf(t, S) = RiskOf(u, S)
<1>1. PICK g : Sums(g, t, S) /\ RiskOf(t, S) = g[S]
  BY RiskOfSums
<1>2. PICK h : Sums(h, u, S) /\ RiskOf(u, S) = h[S]
  BY RiskOfSums
<1>. QED
  BY <1>1, <1>2, SumsAgree

LEMMA RiskOfPick ==
  ASSUME NEW S, IsFiniteSet(S), S # {}, NEW t
  PROVE  RiskOf(t, S) = t[Pick(S)].risk + RiskOf(t, S \ {Pick(S)})
<1>. DEFINE R == S \ {Pick(S)}
<1>1. IsFiniteSet(R) /\ R \subseteq S
  BY FS_Subset
<1>2. PICK g : Sums(g, t, S) /\ RiskOf(t, S) = g[S]
  BY RiskOfSums
<1>3. PICK h : Sums(h, t, R) /\ RiskOf(t, R) = h[R]
  BY <1>1, RiskOfSums
<1>4. g[R] = h[R]
  <2>. HIDE DEF R
  <2>. QED
    BY <1>1, <1>2, <1>3, SumsAgree
<1>5. g[S] = SumStep(g, t, S)
  BY <1>2, SumsAt
<1>. QED
  BY <1>2, <1>3, <1>4, <1>5 DEF SumStep

LEMMA RiskOfType ==
  ASSUME NEW S, IsFiniteSet(S), NEW t, \A i \in S : t[i].risk \in Nat
  PROVE  RiskOf(t, S) \in Nat
<1>. DEFINE B == {s \in SUBSET S : RiskOf(t, s) \notin Nat}
<1>. SUFFICES ASSUME B # {} PROVE FALSE
  OBVIOUS
<1>1. PICK b \in B : \A c \in SUBSET b : c # b => c \notin B
  <2>1. B \in SUBSET (SUBSET S)
    OBVIOUS
  <2>. HIDE DEF B
  <2>. QED
    BY <2>1, SmallestSet
<1>2. b \in SUBSET S /\ RiskOf(t, b) \notin Nat /\ IsFiniteSet(b)
  BY FS_Subset
<1>. HIDE DEF B
<1>3. b # {}
  <2>1. RiskOf(t, {}) = 0 /\ 0 \in Nat
    BY RiskOfNone
  <2>. QED
    BY <1>2, <2>1, Zenon
<1>4. Pick(b) \in b
  BY <1>3, PickIn
<1>5. RiskOf(t, b \ {Pick(b)}) \in Nat
  <2>1. b \ {Pick(b)} \in SUBSET b /\ b \ {Pick(b)} # b /\ b \ {Pick(b)} \in SUBSET S
    BY <1>2, <1>4
  <2>. QED
    BY <1>1, <2>1 DEF B
<1>6. t[Pick(b)].risk \in Nat
  BY <1>2, <1>4
<1>7. RiskOf(t, b) = t[Pick(b)].risk + RiskOf(t, b \ {Pick(b)})
  BY <1>2, <1>3, RiskOfPick
<1>. QED
  BY <1>2, <1>5, <1>6, <1>7

\* Any element may be taken first.
LEMMA RiskOfAny ==
  ASSUME NEW S, IsFiniteSet(S), NEW t, \A i \in S : t[i].risk \in Nat
  PROVE  \A y \in S : RiskOf(t, S) = t[y].risk + RiskOf(t, S \ {y})
<1>. DEFINE B == {s \in SUBSET S : \E y \in s : RiskOf(t, s) # t[y].risk + RiskOf(t, s \ {y})}
<1>. SUFFICES ASSUME B # {} PROVE FALSE
  OBVIOUS
<1>1. PICK b \in B : \A c \in SUBSET b : c # b => c \notin B
  <2>1. B \in SUBSET (SUBSET S)
    OBVIOUS
  <2>. HIDE DEF B
  <2>. QED
    BY <2>1, SmallestSet
<1>2. b \in SUBSET S /\ IsFiniteSet(b)
  BY FS_Subset
<1>3. PICK y \in b : RiskOf(t, b) # t[y].risk + RiskOf(t, b \ {y})
  OBVIOUS
<1>4. PICK x \in b : x = Pick(b)
  BY <1>3, PickIn
<1>5. RiskOf(t, b) = t[x].risk + RiskOf(t, b \ {x})
  BY <1>2, <1>3, <1>4, RiskOfPick
<1>6. x # y
  BY <1>3, <1>5
<1>7. ASSUME NEW z \in b, NEW w \in b \ {z}
      PROVE  RiskOf(t, b \ {z}) = t[w].risk + RiskOf(t, (b \ {z}) \ {w})
  <2>1. b \ {z} \in SUBSET b /\ b \ {z} # b /\ b \ {z} \in SUBSET S
    BY <1>2
  <2>2. PICK c : c = b \ {z}
    OBVIOUS
  <2>3. c \in SUBSET b /\ c # b /\ c \in SUBSET S /\ w \in c
    BY <2>1, <2>2
  <2>4. c \notin B
    <3>. HIDE DEF B
    <3>. QED
      BY <1>1, <2>3
  <2>5. RiskOf(t, c) = t[w].risk + RiskOf(t, c \ {w})
    BY <2>3, <2>4
  <2>. QED
    BY <2>2, <2>5
<1>8. /\ RiskOf(t, b \ {x}) = t[y].risk + RiskOf(t, (b \ {x}) \ {y})
      /\ RiskOf(t, b \ {y}) = t[x].risk + RiskOf(t, (b \ {y}) \ {x})
  <2>1. y \in b \ {x} /\ x \in b \ {y}
    BY <1>6
  <2>. QED
    BY <1>7, <2>1, Zenon
<1>9. (b \ {x}) \ {y} = (b \ {y}) \ {x}
  OBVIOUS
<1>10. RiskOf(t, (b \ {x}) \ {y}) \in Nat
  <2>1. (b \ {x}) \ {y} \subseteq S
    BY <1>2
  <2>2. IsFiniteSet((b \ {x}) \ {y})
    BY <2>1, FS_Subset
  <2>. QED
    BY <2>1, <2>2, RiskOfType
<1>11. t[x].risk \in Nat /\ t[y].risk \in Nat
  BY <1>2
<1>12. PICK rest \in Nat : /\ rest = RiskOf(t, (b \ {x}) \ {y})
                           /\ rest = RiskOf(t, (b \ {y}) \ {x})
  BY <1>9, <1>10, Zenon
<1>13. RiskOf(t, b) = t[x].risk + (t[y].risk + rest)
  BY <1>5, <1>8, <1>12, Zenon
<1>14. RiskOf(t, b \ {y}) = t[x].risk + rest
  BY <1>8, <1>12, Zenon
<1>15. t[x].risk + (t[y].risk + rest) = t[y].risk + (t[x].risk + rest)
  BY <1>11, <1>12
<1>. QED
  BY <1>3, <1>13, <1>14, <1>15, Zenon

\* A risk more is added to the sum.
LEMMA RiskOfMore ==
  ASSUME NEW S, IsFiniteSet(S), NEW x, x \notin S, NEW t,
         \A i \in S \cup {x} : t[i].risk \in Nat
  PROVE  RiskOf(t, S \cup {x}) = t[x].risk + RiskOf(t, S)
<1>1. IsFiniteSet(S \cup {x})
  BY FS_AddElement
<1>2. \A y \in S \cup {x} : RiskOf(t, S \cup {x}) = t[y].risk + RiskOf(t, (S \cup {x}) \ {y})
  BY <1>1, RiskOfAny
<1>3. (S \cup {x}) \ {x} = S
  OBVIOUS
<1>. QED
  BY <1>2, <1>3

-----------------------------------------------------------------------------
(* The limits of a day.                                                     *)

\* A trade is added at the end of the list.
LEMMA Appended ==
  ASSUME config \in Configs, TradesOK, NEW c \in Offered, NEW r \in Results(c),
         trades' = Append(trades, [day |-> c.day, entry |-> c.entry, risk |-> Risk(c),
                                   outcome |-> r.outcome, exit |-> r.exit])
  PROVE  /\ trades' \in Seq(Trades) /\ Len(trades) \in Nat
         /\ DOMAIN trades = 1 .. Len(trades) /\ DOMAIN trades' = 1 .. (Len(trades) + 1)
         /\ \A i \in 1 .. Len(trades) : trades'[i] = trades[i]
         /\ trades'[Len(trades) + 1].day = c.day
         /\ trades'[Len(trades) + 1].risk = Risk(c)
<1>1. PICK new : new = [day |-> c.day, entry |-> c.entry, risk |-> Risk(c),
                        outcome |-> r.outcome, exit |-> r.exit]
  OBVIOUS
<1>2. c.day \in Nat /\ c.entry \in Nat
  BY OfferedType
<1>3. r.outcome \in Outcomes /\ r.exit \in Nat \cup {NoExit}
  BY <1>2, ResultsType
<1>4. new \in Trades
  BY <1>1, <1>2, <1>3, RiskType DEF Trades
<1>5. trades \in Seq(Trades) /\ trades' = Append(trades, new)
  BY <1>1 DEF TradesOK
<1>6. new.day = c.day /\ new.risk = Risk(c)
  BY <1>1
<1>. QED
  BY <1>4, <1>5, <1>6

LEMMA RisksKnown ==
  ASSUME TradesOK
  PROVE  /\ \A i \in DOMAIN trades : trades[i].risk \in Nat
         /\ \A d : IsFiniteSet(TradesOf(d)) /\ TradesOf(d) \subseteq DOMAIN trades
<1>1. \A i \in DOMAIN trades : trades[i] \in Trades
  BY DEF TradesOK
<1>2. DOMAIN trades = 1 .. Len(trades) /\ Len(trades) \in Nat
  BY DEF TradesOK
<1>3. IsFiniteSet(DOMAIN trades)
  BY <1>2, FS_Interval
<1>4. \A d : TradesOf(d) \subseteq DOMAIN trades
  BY DEF TradesOf
<1>. QED
  BY <1>1, <1>3, <1>4, FS_Subset DEF Trades

Limited == TradesOK /\ DailyBudget /\ DailyStops

\* The day of the trade that is added.
LEMMA DayOfNewTrade ==
  ASSUME config \in Configs, TradesOK, NEW c \in Offered, NEW r \in Results(c),
         ~DayClosed(c), ~OverBudget(c), config' = config,
         trades' = Append(trades, [day |-> c.day, entry |-> c.entry, risk |-> Risk(c),
                                   outcome |-> r.outcome, exit |-> r.exit])
  PROVE  /\ Cardinality(TradesOf(c.day)') <= config.perDay
         /\ RiskOf(trades', TradesOf(c.day)') <= config.budget
<1>1. PICK n : n = Len(trades)
  OBVIOUS
<1>2. PICK S : S = DayTrades(c) /\ S = TradesOf(c.day)
  BY DEF DayTrades, TradesOf
<1>3. /\ n \in Nat /\ DOMAIN trades = 1 .. n /\ DOMAIN trades' = 1 .. (n + 1)
      /\ \A i \in 1 .. n : trades'[i] = trades[i]
      /\ trades'[n + 1].day = c.day /\ trades'[n + 1].risk = Risk(c)
  BY <1>1, Appended
<1>4. S = {i \in 1 .. n : trades[i].day = c.day} /\ IsFiniteSet(S)
  BY <1>2, <1>3, RisksKnown DEF TradesOf
<1>5. n + 1 \notin S
  BY <1>3, <1>4
<1>6. TradesOf(c.day)' = S \cup {n + 1}
  <2>1. TradesOf(c.day)' = {i \in 1 .. (n + 1) : trades'[i].day = c.day}
    BY <1>3 DEF TradesOf
  <2>2. 1 .. (n + 1) = 1 .. n \cup {n + 1}
    BY <1>3
  <2>. QED
    BY <1>3, <1>4, <2>1, <2>2
<1>7. /\ config.perDay \in Nat /\ config.budget \in Nat /\ Risk(c) \in Nat
  BY RiskType, RiskAssumptions DEF RiskConfig
<1>8. Cardinality(S \cup {n + 1}) = Cardinality(S) + 1 /\ Cardinality(S) \in Nat
  BY <1>4, <1>5, FS_AddElement, FS_CardinalityType
<1>9. Cardinality(S \cup {n + 1}) <= config.perDay
  <2>1. ~(Cardinality(S) >= config.perDay)
    BY <1>2 DEF DayClosed, DayFull
  <2>. QED
    BY <1>7, <1>8, <2>1
<1>10. \A i \in S : trades'[i].risk = trades[i].risk /\ trades[i].risk \in Nat
  BY <1>3, <1>4, RisksKnown
<1>11. \A i \in S \cup {n + 1} : trades'[i].risk \in Nat
  BY <1>3, <1>7, <1>10
<1>12. RiskOf(trades', S \cup {n + 1}) = Risk(c) + RiskOf(trades, S)
  <2>1. RiskOf(trades', S \cup {n + 1}) = trades'[n + 1].risk + RiskOf(trades', S)
    BY <1>4, <1>5, <1>11, RiskOfMore
  <2>2. RiskOf(trades', S) = RiskOf(trades, S)
    BY <1>4, <1>10, RiskOfSame
  <2>. QED
    BY <1>3, <2>1, <2>2
<1>13. RiskOf(trades, S) \in Nat
  BY <1>4, <1>10, RiskOfType
<1>14. ~(RiskOf(trades, S) + Risk(c) > config.budget)
  BY <1>2 DEF OverBudget, UsedRisk
<1>15. Risk(c) + RiskOf(trades, S) <= config.budget
  BY <1>7, <1>13, <1>14
<1>. QED
  BY <1>6, <1>9, <1>12, <1>15

LEMMA BudgetStep ==
  ASSUME config \in Configs, TradesOK, DailyBudget, NEW c \in Offered, NEW r \in Results(c),
         ~DayClosed(c), ~OverBudget(c), config' = config,
         trades' = Append(trades, [day |-> c.day, entry |-> c.entry, risk |-> Risk(c),
                                   outcome |-> r.outcome, exit |-> r.exit])
  PROVE  DailyBudget'
<1>. SUFFICES ASSUME NEW d \in Days'
              PROVE  /\ Cardinality(TradesOf(d)') <= config.perDay
                     /\ RiskOf(trades', TradesOf(d)') <= config.budget
  BY DEF DailyBudget
<1>1. CASE d = c.day
  BY <1>1, DayOfNewTrade
<1>2. CASE d # c.day
  <2>1. PICK n : n = Len(trades)
    OBVIOUS
  <2>2. /\ n \in Nat /\ DOMAIN trades = 1 .. n /\ DOMAIN trades' = 1 .. (n + 1)
        /\ \A i \in 1 .. n : trades'[i] = trades[i]
        /\ trades'[n + 1].day = c.day
    BY <2>1, Appended
  <2>3. 1 .. (n + 1) = 1 .. n \cup {n + 1}
    BY <2>2
  <2>4. PICK S : S = TradesOf(d) /\ S = TradesOf(d)'
    BY <1>2, <2>2, <2>3 DEF TradesOf
  <2>5. d \in Days
    BY <1>2, <2>2, <2>3 DEF Days
  <2>6. Cardinality(S) <= config.perDay /\ RiskOf(trades, S) <= config.budget
    BY <2>4, <2>5 DEF DailyBudget
  <2>7. IsFiniteSet(S) /\ S \subseteq 1 .. n
    BY <2>2, <2>4, RisksKnown
  <2>8. RiskOf(trades', S) = RiskOf(trades, S)
    BY <2>2, <2>7, RiskOfSame
  <2>. QED
    BY <2>4, <2>6, <2>8
<1>. QED
  BY <1>1, <1>2

LEMMA StopsStep ==
  ASSUME config \in Configs, TradesOK, DailyStops, NEW c \in Offered, NEW r \in Results(c),
         ~DayClosed(c), config' = config,
         trades' = Append(trades, [day |-> c.day, entry |-> c.entry, risk |-> Risk(c),
                                   outcome |-> r.outcome, exit |-> r.exit])
  PROVE  DailyStops'
<1>1. PICK n : n = Len(trades)
  OBVIOUS
<1>2. /\ n \in Nat /\ DOMAIN trades = 1 .. n /\ DOMAIN trades' = 1 .. (n + 1)
      /\ \A i \in 1 .. n : trades'[i] = trades[i]
      /\ trades'[n + 1].day = c.day
  BY <1>1, Appended
<1>. SUFFICES ASSUME NEW i \in 1 .. (n + 1), NEW j \in 1 .. (n + 1), i < j,
                     trades'[i].day = trades'[j].day
              PROVE  /\ config.stopAfterWin => trades'[i].outcome # "WIN"
                     /\ ~config.secondAfterLoss /\ j = i + 1 => trades'[i].outcome # "LOSS"
  BY <1>2 DEF DailyStops
<1>3. i \in 1 .. n /\ trades'[i] = trades[i]
  BY <1>2
<1>4. CASE j \in 1 .. n
  BY <1>2, <1>3, <1>4 DEF DailyStops
<1>5. CASE j = n + 1
  <2>1. PICK S : S = DayTrades(c) /\ S \subseteq 1 .. n /\ i \in S
    BY <1>2, <1>3, <1>5 DEF DayTrades
  <2>2. config.stopAfterWin => trades[i].outcome # "WIN"
    BY <2>1 DEF DayClosed, DayWon
  <2>3. ASSUME ~config.secondAfterLoss, j = i + 1 PROVE trades[i].outcome # "LOSS"
    <3>1. i = n
      BY <1>2, <1>5, <2>3
    <3>2. \A y \in S : i >= y
      BY <1>2, <2>1, <3>1
    <3>3. Max(S) \in S /\ \A y \in S : Max(S) >= y
      BY <2>1, <3>2 DEF Max
    <3>4. Max(S) = i
      BY <1>2, <2>1, <3>2, <3>3
    <3>. QED
      BY <2>1, <2>3, <3>4 DEF DayClosed, DayLost
  <2>. QED
    BY <1>3, <2>2, <2>3
<1>. QED
  BY <1>2, <1>4, <1>5

LEMMA LimitedStep ==
  ASSUME config \in Configs, Limited, [Next]_vars
  PROVE  Limited' /\ config' \in Configs
<1>1. CASE UNCHANGED <<config, trades>>
  <2>1. \A d : TradesOf(d)' = TradesOf(d)
    BY <1>1 DEF TradesOf
  <2>2. Days' = Days /\ DailyStops' /\ TradesOK'
    BY <1>1 DEF Limited, TradesOK, DailyStops, Days
  <2>3. DailyBudget'
    BY <1>1, <2>1, <2>2 DEF Limited, DailyBudget
  <2>. QED
    BY <1>1, <2>2, <2>3 DEF Limited
<1>2. ASSUME NEW c \in Offered, ~DayClosed(c), ~OverBudget(c), config' = config,
             NEW r \in Results(c),
             trades' = Append(trades, [day |-> c.day, entry |-> c.entry,
                                       risk |-> Risk(c), outcome |-> r.outcome,
                                       exit |-> r.exit])
      PROVE  Limited' /\ config' \in Configs
  BY <1>2, Appended, BudgetStep, StopsStep DEF Limited, TradesOK
<1>3. ASSUME Next PROVE Limited' /\ config' \in Configs
  <2>1. PICK c \in Offered : Consider(c)
    BY <1>3 DEF Next
  <2>. QED
    BY <1>1, <1>2, <2>1, Turn
<1>. QED
  BY <1>1, <1>3 DEF vars

LEMMA LimitedInit == Init => config \in Configs /\ Limited
BY DEF Init, Limited, TradesOK, DailyBudget, DailyStops, Days

\* No day risks more than its budget or has more trades than its limit, whatever
\* the order in which the setups of all pairs come (engine.py:603-620).
THEOREM DailyBudgetHolds == Spec => []DailyBudget
<1>1. Limited => DailyBudget
  BY DEF Limited
<1>2. config \in Configs /\ Limited /\ [Next]_vars => (config \in Configs /\ Limited)'
  BY LimitedStep
<1>. QED
  BY <1>1, <1>2, LimitedInit, PTL DEF Spec

\* A day that is over, by a win or by a loss, sees no further trade.
THEOREM DailyStopsHolds == Spec => []DailyStops
<1>1. Limited => DailyStops
  BY DEF Limited
<1>2. config \in Configs /\ Limited /\ [Next]_vars => (config \in Configs /\ Limited)'
  BY LimitedStep
<1>. QED
  BY <1>1, <1>2, LimitedInit, PTL DEF Spec
=============================================================================
