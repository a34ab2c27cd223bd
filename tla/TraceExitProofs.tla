-------------------------- MODULE TraceExitProofs --------------------------
(***************************************************************************)
(* Theorems about TraceExit, for every set of scenarios: any holding time, *)
(* entry, calendar, candles and growth of the frame.                       *)
(***************************************************************************)
EXTENDS TraceExit, WellFoundedInduction, TLAPS

-----------------------------------------------------------------------------
(* The frame covers the minutes that have passed.                           *)

FrameOK ==
  /\ scenario \in Scenarios
  /\ now \in Nat
  /\ DOMAIN frame = 1 .. now

LEMMA FrameStep == FrameOK /\ [Next]_vars => FrameOK'
<1>. SUFFICES ASSUME FrameOK, [Next]_vars PROVE FrameOK'
  OBVIOUS
<1>1. CASE Minute
  <2>1. PICK b \in scenario.bars[now + 1] :
          frame' = [t \in 1 .. (now + 1) |-> IF t <= now THEN frame[t] ELSE b]
    BY <1>1 DEF Minute
  <2>2. now' = now + 1 /\ scenario' = scenario
    BY <1>1 DEF Minute
  <2>. QED
    BY <2>1, <2>2 DEF FrameOK
<1>2. CASE UNCHANGED vars
  BY <1>2 DEF FrameOK, vars
<1>. QED
  BY <1>1, <1>2 DEF Next

LEMMA FrameAlways == Spec => []FrameOK
<1>1. Init => FrameOK
  BY DEF Init, FrameOK
<1>. QED
  BY <1>1, FrameStep, PTL DEF Spec

-----------------------------------------------------------------------------
(* The first and the gaps.                                                  *)

\* First is what it says.
LEMMA FirstIsLeast ==
  ASSUME NEW S \in SUBSET Nat, S # {}
  PROVE  First(S) \in S /\ \A u \in S : First(S) <= u
<1>1. IsWellFoundedOn(OpToRel(<, Nat), Nat)
  BY NatLessThanWellFounded
<1>2. PICK x \in S : \A y \in S : ~(<<y, x>> \in OpToRel(<, Nat))
  BY <1>1, WFMin
<1>3. ASSUME NEW y \in S, y < x PROVE <<y, x>> \in OpToRel(<, Nat)
  BY <1>3 DEF OpToRel
<1>4. \A y \in S : ~(y < x)
  BY <1>2, <1>3
<1>5. \A y \in S : x <= y
  BY <1>4
<1>. QED
  BY <1>5 DEF First

LEMMA FirstIsUnique ==
  ASSUME NEW S \in SUBSET Nat, NEW x \in S, \A y \in S : x <= y
  PROVE  First(S) = x
<1>1. First(S) \in S /\ \A u \in S : First(S) <= u
  BY FirstIsLeast
<1>2. First(S) <= x /\ x <= First(S)
  BY <1>1
<1>3. First(S) \in Nat /\ x \in Nat
  BY <1>1
<1>. QED
  BY <1>2, <1>3

\* A selection without events leaves no missing minute between its bounds.
LEMMA NothingSelected ==
  ASSUME NEW S \in SUBSET Nat, NEW from \in Int, NEW to \in Int, NEW parts,
         Select(GapsOf(S), from, to, parts) = {}
  PROVE  \A t \in S : ~(from <= t /\ t < to)
<1>. SUFFICES ASSUME NEW t \in S, from <= t, t < to PROVE FALSE
  OBVIOUS
<1>. DEFINE g == Touching(S, t)
<1>. DEFINE e == [gap |-> g, minutes |-> g \cap (from .. (to - 1)), parts |-> parts,
                  resolution |-> NoResolution]
<1>1. g \in GapsOf(S)
  BY DEF GapsOf
<1>2. t \in g
  <2>1. (t .. t) \cup (t .. t) \subseteq S
    OBVIOUS
  <2>. QED
    BY <2>1 DEF Touching
<1>3. e.minutes # {}
  BY <1>2
<1>4. e \in Select(GapsOf(S), from, to, parts)
  BY <1>1, <1>3 DEF Select
<1>. QED
  BY <1>4

-----------------------------------------------------------------------------
(* The observed simulator looks at nothing after its exit.                  *)

LEMMA HeldMinutes ==
  ASSUME FrameOK
  PROVE  /\ entry \in Nat /\ limit \in Nat
         /\ Missed \in SUBSET Nat
         /\ Hitting(frame) \in SUBSET Nat
         /\ Gaps(frame) = GapsOf(Missed)
<1>1. scenario.entry \in Nat /\ scenario.hold \in Nat
  BY ScenarioAssumptions DEF FrameOK
<1>2. 1 .. now \subseteq Nat
  BY DEF FrameOK
<1>. QED
  BY <1>1, <1>2 DEF FrameOK, entry, limit, Missed, MissingOpen, Hitting, Holding, Have, Gaps

\* Two frames that agree from the entry to the exit, or to the limit when
\* nothing is hit, end the trade the same way.
LEMMA SameExit ==
  ASSUME FrameOK, NEW f, DOMAIN f = 1 .. now,
         \A t \in 1 .. now : entry <= t /\ t < Cutoff(frame) => f[t] = frame[t]
  PROVE  Observed(f) = Observed(frame)
<1>0. entry \in Nat /\ limit \in Nat /\ Hitting(frame) \in SUBSET Nat
  BY HeldMinutes
<1>1. CASE Hitting(frame) = {}
  <2>1. Cutoff(frame) = limit + 1
    BY <1>1 DEF Cutoff, Observed
  <2>2. \A t \in 1 .. now : entry <= t /\ t <= limit => f[t] = frame[t]
    BY <2>1, <1>0 DEF FrameOK
  <2>3. Holding(f) = Holding(frame)
    BY <2>2 DEF Holding, Have, FrameOK
  <2>4. Hitting(f) = {}
    BY <1>1, <2>2, <2>3 DEF Hitting, Holding, Have, FrameOK
  <2>. QED
    BY <1>1, <2>3, <2>4 DEF Observed
<1>2. CASE Hitting(frame) # {}
  <2>. DEFINE x == First(Hitting(frame))
  <2>1. x \in Hitting(frame) /\ \A u \in Hitting(frame) : x <= u
    BY <1>0, <1>2, FirstIsLeast
  <2>2. Cutoff(frame) = x + 1
    BY <1>2 DEF Cutoff, Observed, Closes
  <2>3. x \in 1 .. now /\ entry <= x /\ x <= limit
    BY <2>1 DEF Hitting, Holding, Have, FrameOK
  <2>4. \A t \in 1 .. now : entry <= t /\ t <= x => f[t] = frame[t]
    BY <2>2, <2>3, <1>0 DEF FrameOK
  <2>5. f[x] = frame[x]
    BY <2>3, <2>4, <1>0 DEF FrameOK
  <2>6. x \in Hitting(f)
    BY <2>1, <2>3, <2>5 DEF Hitting, Holding, Have, FrameOK
  <2>7. ASSUME NEW u \in Hitting(f) PROVE x <= u
    <3>1. u \in 1 .. now /\ entry <= u /\ u <= limit
      BY DEF Hitting, Holding, Have
    <3>2. SUFFICES ASSUME u < x PROVE FALSE
      BY <3>1, <2>3, <1>0 DEF FrameOK
    <3>3. f[u] = frame[u]
      BY <3>1, <3>2, <2>3, <2>4, <1>0 DEF FrameOK
    <3>4. u \in Hitting(frame)
      BY <3>1, <3>3 DEF Hitting, Holding, Have, FrameOK
    <3>. QED
      BY <3>1, <3>2, <3>4, <2>1, <2>3 DEF FrameOK
  <2>8. Hitting(f) \in SUBSET Nat
    BY DEF Hitting, Holding, Have, FrameOK
  <2>9. First(Hitting(f)) = x
    BY <2>6, <2>7, <2>8, FirstIsUnique
  <2>. QED
    BY <1>2, <2>5, <2>6, <2>9 DEF Observed
<1>. QED
  BY <1>1, <1>2

-----------------------------------------------------------------------------
(* An OBSERVED trade has no gap to be managed.                              *)

LEMMA ObservedHasNoGap ==
  ASSUME Trace(frame).source = "OBSERVED"
  PROVE  Managed(frame) = {} /\ Result(Trace(frame)) = Observed(frame)
<1>1. \A events : Undecided(frame, events).source # "OBSERVED"
  BY DEF Undecided, Trade
<1>2. entry \in Have(frame)
  BY <1>1 DEF Trace
<1>3. Deciding(frame) = {}
  BY <1>1, <1>2 DEF Trace, Trade
<1>4. Managed(frame) = {}
  BY <1>2, <1>3 DEF Trace, Trade
<1>5. Trace(frame).outcome = Observed(frame).outcome /\ Trace(frame).exit = Observed(frame).exit
  BY <1>2, <1>3 DEF Trace, Trade
<1>. QED
  BY <1>4, <1>5 DEF Result, Observed

LEMMA ExitIsMinute ==
  ASSUME FrameOK
  PROVE  Cutoff(frame) \in Int
<1>0. entry \in Nat /\ limit \in Nat /\ Hitting(frame) \in SUBSET Nat
  BY HeldMinutes
<1>1. CASE Hitting(frame) = {}
  BY <1>0, <1>1 DEF Cutoff, Observed
<1>2. CASE Hitting(frame) # {}
  <2>1. First(Hitting(frame)) \in Nat
    BY <1>0, <1>2, FirstIsLeast
  <2>. QED
    BY <1>2, <2>1 DEF Cutoff, Observed, Closes
<1>. QED
  BY <1>1, <1>2

\* The result of an OBSERVED trade is the one that every frame without missing
\* minutes would give: the label of gap_execution.py never hides a dependence
\* on a candle that is not there.
THEOREM ObservedHolds == Spec => []ObservedIsCertain
<1>1. ASSUME FrameOK PROVE ObservedIsCertain
  <2>. SUFFICES ASSUME Trace(frame).source = "OBSERVED", NEW f \in Completions
                PROVE  Observed(f) = Result(Trace(frame))
    BY DEF ObservedIsCertain
  <2>1. Managed(frame) = {} /\ Result(Trace(frame)) = Observed(frame)
    BY ObservedHasNoGap
  <2>2. \A t \in Missed : ~(entry <= t /\ t < Cutoff(frame))
    BY <1>1, <2>1, HeldMinutes, ExitIsMinute, NothingSelected DEF Managed
  <2>3. PICK c \in [Missed -> scenario.fill] :
          f = [t \in 1 .. now |-> IF t \in Missed THEN c[t] ELSE frame[t]]
    BY DEF Completions
  <2>4. DOMAIN f = 1 .. now
    BY <2>3
  <2>5. \A t \in 1 .. now : entry <= t /\ t < Cutoff(frame) => f[t] = frame[t]
    BY <2>2, <2>3
  <2>6. Observed(f) = Observed(frame)
    BY <1>1, <2>4, <2>5, SameExit
  <2>. QED
    BY <2>1, <2>6
<1>. QED
  BY <1>1, FrameAlways, PTL

-----------------------------------------------------------------------------
(* Missing minutes, cut to an interval.                                     *)

LEMMA LastIsGreatest ==
  ASSUME NEW n \in Nat, NEW S \in SUBSET (1 .. n), S # {}
  PROVE  Last(S) \in S /\ \A u \in S : u <= Last(S)
<1>. DEFINE below == {n - x : x \in S}
<1>0. \A x \in S : x \in Nat /\ n - x \in Nat
  OBVIOUS
<1>1. below \in SUBSET Nat /\ below # {}
  BY <1>0
<1>2. First(below) \in below /\ \A u \in below : First(below) <= u
  BY <1>1, FirstIsLeast
<1>3. PICK x \in S : First(below) = n - x
  BY <1>2
<1>4. \A u \in S : u <= x
  <2>. TAKE u \in S
  <2>1. n - x <= n - u
    BY <1>2, <1>3
  <2>. QED
    BY <2>1
<1>. QED
  BY <1>4 DEF Last

LEMMA LastIsUnique ==
  ASSUME NEW n \in Nat, NEW S \in SUBSET (1 .. n), NEW x \in S, \A y \in S : y <= x
  PROVE  Last(S) = x
<1>1. Last(S) \in S /\ \A u \in S : u <= Last(S)
  BY LastIsGreatest
<1>2. PICK y \in S : y = Last(S)
  BY <1>1
<1>3. y <= x /\ x <= y /\ x \in Nat /\ y \in Nat
  BY <1>1, <1>2
<1>. QED
  BY <1>2, <1>3

\* Touching is an equivalence on the missing minutes.
LEMMA TouchingSame ==
  ASSUME NEW S \in SUBSET Nat, NEW t \in S, NEW u \in Touching(S, t)
  PROVE  Touching(S, u) = Touching(S, t)
<1>0. u \in S /\ t .. u \subseteq S /\ u .. t \subseteq S
  BY DEF Touching
<1>1. ASSUME NEW a \in S, NEW b \in S, NEW c \in S,
             a .. b \subseteq S, b .. a \subseteq S, b .. c \subseteq S, c .. b \subseteq S
      PROVE  a .. c \subseteq S /\ c .. a \subseteq S
  <2>1. ASSUME NEW w \in a .. c PROVE w \in S
    <3>1. w \in a .. b \/ w \in b .. c
      OBVIOUS
    <3>. QED
      BY <1>1, <3>1
  <2>2. ASSUME NEW w \in c .. a PROVE w \in S
    <3>1. w \in c .. b \/ w \in b .. a
      OBVIOUS
    <3>. QED
      BY <1>1, <3>1
  <2>. QED
    BY <2>1, <2>2
<1>2. ASSUME NEW v \in Touching(S, t) PROVE v \in Touching(S, u)
  <2>1. v \in S /\ t .. v \subseteq S /\ v .. t \subseteq S
    BY DEF Touching
  <2>2. u .. v \subseteq S /\ v .. u \subseteq S
    BY <1>0, <1>1, <2>1
  <2>. QED
    BY <2>1, <2>2 DEF Touching
<1>3. ASSUME NEW v \in Touching(S, u) PROVE v \in Touching(S, t)
  <2>1. v \in S /\ u .. v \subseteq S /\ v .. u \subseteq S
    BY DEF Touching
  <2>2. t .. v \subseteq S /\ v .. t \subseteq S
    BY <1>0, <1>1, <2>1
  <2>. QED
    BY <2>1, <2>2 DEF Touching
<1>. QED
  BY <1>2, <1>3

LEMMA TouchingSelf ==
  ASSUME NEW S \in SUBSET Nat, NEW t \in S
  PROVE  t \in Touching(S, t) /\ Touching(S, t) \subseteq S
<1>1. (t .. t) \cup (t .. t) \subseteq S
  OBVIOUS
<1>. QED
  BY <1>1 DEF Touching

\* A gap contains all minutes between two of its own.
LEMMA GapIsInterval ==
  ASSUME NEW S \in SUBSET Nat, NEW g \in GapsOf(S), NEW a \in g, NEW b \in g,
         NEW t \in Int, a <= t, t <= b
  PROVE  t \in g /\ t \in S
<1>1. PICK s \in S : g = Touching(S, s)
  BY DEF GapsOf
<1>2. a \in S /\ b \in S /\ Touching(S, a) = g
  BY <1>1, TouchingSame, TouchingSelf
<1>3. b \in Touching(S, a)
  BY <1>2
<1>4. a .. b \subseteq S
  BY <1>3 DEF Touching
<1>5. t \in S /\ a .. t \subseteq S /\ t .. a \subseteq S
  BY <1>2, <1>4
<1>. QED
  BY <1>2, <1>5 DEF Touching

\* Two gaps that share a minute are one.
LEMMA GapsApart ==
  ASSUME NEW S \in SUBSET Nat, NEW g \in GapsOf(S), NEW t \in g
  PROVE  g = Touching(S, t) /\ t \in S
<1>1. PICK s \in S : g = Touching(S, s)
  BY DEF GapsOf
<1>. QED
  BY <1>1, TouchingSame, TouchingSelf

Cut(S, from, to) == {u \in S : from <= u /\ u < to}

\* A gap cut to an interval is a gap of the minutes of the interval.
LEMMA TouchingCut ==
  ASSUME NEW S \in SUBSET Nat, NEW from \in Int, NEW to \in Int, NEW t \in Cut(S, from, to)
  PROVE  Touching(S, t) \cap (from .. (to - 1)) = Touching(Cut(S, from, to), t)
<1>. DEFINE T == Cut(S, from, to)
<1>. USE DEF Cut
<1>0. t \in S /\ from <= t /\ t < to
  OBVIOUS
<1>1. ASSUME NEW u \in Touching(S, t), u \in from .. (to - 1) PROVE u \in Touching(T, t)
  <2>1. u \in S /\ t .. u \subseteq S /\ u .. t \subseteq S
    BY DEF Touching
  <2>2. u \in T /\ t .. u \subseteq T /\ u .. t \subseteq T
    BY <1>0, <1>1, <2>1
  <2>. QED
    BY <2>2 DEF Touching
<1>2. ASSUME NEW u \in Touching(T, t) PROVE u \in Touching(S, t) /\ u \in from .. (to - 1)
  <2>1. u \in T /\ t .. u \subseteq T /\ u .. t \subseteq T
    BY DEF Touching
  <2>2. u \in S /\ t .. u \subseteq S /\ u .. t \subseteq S /\ u \in from .. (to - 1)
    BY <2>1
  <2>. QED
    BY <2>2 DEF Touching
<1>. QED
  BY <1>1, <1>2

\* What a selection holds: an event for each gap of the minutes selected.
LEMMA Selected ==
  ASSUME NEW S \in SUBSET Nat, NEW from \in Int, NEW to \in Int, NEW parts, NEW T,
         T = Cut(S, from, to)
  PROVE  /\ \A e \in Select(GapsOf(S), from, to, parts) :
              /\ e.gap \in GapsOf(S) /\ e.minutes \in GapsOf(T)
              /\ e.minutes = e.gap \cap (from .. (to - 1)) /\ e.minutes # {}
              /\ e.resolution = NoResolution
         /\ \A t \in T : \E e \in Select(GapsOf(S), from, to, parts) : e.minutes = Touching(T, t)
<1>1. ASSUME NEW e \in Select(GapsOf(S), from, to, parts)
      PROVE  /\ e.gap \in GapsOf(S) /\ e.minutes \in GapsOf(T)
             /\ e.minutes = e.gap \cap (from .. (to - 1)) /\ e.minutes # {}
             /\ e.resolution = NoResolution
  <2>1. PICK g \in GapsOf(S) :
          /\ e = [gap |-> g, minutes |-> g \cap (from .. (to - 1)), parts |-> parts,
                  resolution |-> NoResolution]
          /\ e.minutes # {}
    BY DEF Select
  <2>2. e.gap = g /\ e.minutes = g \cap (from .. (to - 1)) /\ e.resolution = NoResolution
    BY <2>1
  <2>3. PICK t \in e.minutes : TRUE
    BY <2>1
  <2>4. t \in S /\ g = Touching(S, t) /\ t \in from .. (to - 1)
    BY <2>2, <2>3, GapsApart
  <2>5. t \in T
    BY <2>4 DEF Cut
  <2>6. Touching(S, t) \cap (from .. (to - 1)) = Touching(T, t)
    BY <2>5, TouchingCut
  <2>. QED
    BY <2>1, <2>2, <2>4, <2>5, <2>6 DEF GapsOf
<1>2. ASSUME NEW t \in T
      PROVE  \E e \in Select(GapsOf(S), from, to, parts) : e.minutes = Touching(T, t)
  <2>1. t \in S /\ Touching(S, t) \in GapsOf(S)
    BY DEF GapsOf, Cut
  <2>2. PICK e : e = [gap |-> Touching(S, t), minutes |-> Touching(S, t) \cap (from .. (to - 1)),
                      parts |-> parts, resolution |-> NoResolution]
    OBVIOUS
  <2>3. e.minutes = Touching(T, t)
    <3>1. Touching(S, t) \cap (from .. (to - 1)) = Touching(T, t)
      BY TouchingCut
    <3>. QED
      BY <2>2, <3>1
  <2>4. T \in SUBSET Nat
    BY DEF Cut
  <2>5. e.minutes # {}
    BY <2>3, <2>4, TouchingSelf
  <2>6. e \in Select(GapsOf(S), from, to, parts)
    BY <2>1, <2>2, <2>5 DEF Select
  <2>. QED
    BY <2>3, <2>6
<1>. QED
  BY <1>1, <1>2

\* Merging loses no minute of events that are each a stretch of one gap, and
\* makes none up.
LEMMA MergeReports ==
  ASSUME NEW E,
         \A e \in E : /\ e.minutes \in SUBSET Int /\ e.minutes \subseteq e.gap
                      /\ \A a, b \in e.minutes : \A t \in e.gap :
                           a <= t /\ t <= b => t \in e.minutes,
         \A e, d \in E : e.gap = d.gap => e.minutes = d.minutes
  PROVE  /\ Reported(Merge(E)) = UNION {e.minutes : e \in E}
         /\ Merge(E) = {} <=> E = {}
<1>. DEFINE same(g) == {e \in E : e.gap = g}
            touched(g) == UNION {e.minutes : e \in same(g)}
            minutes(g) == {t \in g : \E a, b \in touched(g) : a <= t /\ t <= b}
            said(g) == {e.resolution : e \in same(g)} \ {NoResolution}
            merged(g) == [gap |-> g, minutes |-> minutes(g),
                          parts |-> UNION {e.parts : e \in same(g)},
                          resolution |-> IF said(g) = {} THEN NoResolution
                                         ELSE CHOOSE r \in said(g) : TRUE]
<1>1. Merge(E) = {merged(g) : g \in {e.gap : e \in E}}
  BY DEF Merge
<1>2. ASSUME NEW e \in E PROVE minutes(e.gap) = e.minutes
  <2>1. touched(e.gap) = e.minutes
    OBVIOUS
  <2>2. \A t \in e.minutes : t \in e.gap /\ t <= t
    OBVIOUS
  <2>. HIDE DEF touched
  <2>. QED
    BY <2>1, <2>2
<1>3. \A g : merged(g).minutes = minutes(g)
  OBVIOUS
<1>. HIDE DEF merged, minutes
<1>4. Reported(Merge(E)) = UNION {e.minutes : e \in E}
  <2>1. Reported(Merge(E)) = UNION {m.minutes : m \in {merged(g) : g \in {e.gap : e \in E}}}
    BY <1>1 DEF Reported
  <2>2. ASSUME NEW t
        PROVE  t \in UNION {m.minutes : m \in {merged(g) : g \in {e.gap : e \in E}}}
                 <=> \E e \in E : t \in merged(e.gap).minutes
    OBVIOUS
  <2>3. \A e \in E : merged(e.gap).minutes = e.minutes
    BY <1>2, <1>3
  <2>. QED
    BY <2>1, <2>2, <2>3
<1>5. Merge(E) = {} <=> E = {}
  <2>1. ASSUME NEW e \in E PROVE merged(e.gap) \in Merge(E)
    BY <1>1
  <2>2. E = {} => Merge(E) = {}
    BY <1>1
  <2>. QED
    BY <2>1, <2>2
<1>. QED
  BY <1>4, <1>5

-----------------------------------------------------------------------------
(* The frame of a trade that was entered: f is the frame of one state or of *)
(* the next, n its last minute.                                             *)

Begun(f, n) ==
  /\ scenario \in Scenarios /\ n \in Nat /\ DOMAIN f = 1 .. n
  /\ entry \in Have(f)

Missing(f) == MissingOpen(Have(f), scenario.closed, DOMAIN f)

\* The minutes that are missing while the position is held.
Uncovered(f) == Cut(Missing(f), entry, Cutoff(f))

LEMMA Numbers ==
  ASSUME scenario \in Scenarios
  PROVE  /\ entry \in Nat /\ 1 <= entry /\ limit \in Nat /\ entry <= limit
         /\ scenario.context \in Nat /\ scenario.context <= entry
BY ScenarioAssumptions DEF entry, limit

LEMMA FrameSets ==
  ASSUME NEW f, NEW n, Begun(f, n)
  PROVE  /\ Have(f) \subseteq 1 .. n /\ Missing(f) \subseteq 1 .. n
         /\ Have(f) \subseteq Nat /\ Missing(f) \in SUBSET Nat
         /\ Have(f) \cap Missing(f) = {}
         /\ Holding(f) = {t \in Have(f) : entry <= t /\ t <= limit}
         /\ entry \in Holding(f) /\ Hitting(f) \subseteq Holding(f)
         /\ Gaps(f) = GapsOf(Missing(f))
<1>1. entry <= limit /\ entry <= entry
  BY Numbers DEF Begun
<1>. QED
  BY <1>1 DEF Begun, Have, Missing, MissingOpen, Holding, Hitting, Gaps

LEMMA ObservedExit ==
  ASSUME NEW f, NEW n, Begun(f, n)
  PROVE  /\ Observed(f).exit \in Holding(f)
         /\ Hitting(f) = {} => /\ Observed(f).outcome = "TIMEOUT" /\ Cutoff(f) = limit + 1
                               /\ \A u \in Holding(f) : u <= Observed(f).exit
         /\ Hitting(f) # {} => /\ Observed(f).outcome \in {"WIN", "LOSS"}
                               /\ Observed(f).outcome = Closes(f[Observed(f).exit])
                               /\ Observed(f).exit \in Hitting(f)
                               /\ Cutoff(f) = Observed(f).exit + 1
                               /\ \A u \in Hitting(f) : Observed(f).exit <= u
         /\ Cutoff(f) \in Nat /\ Cutoff(f) <= limit + 1 /\ entry < Cutoff(f)
<1>0. /\ Holding(f) \in SUBSET (1 .. n) /\ Holding(f) # {} /\ n \in Nat
      /\ Hitting(f) \in SUBSET Nat /\ Hitting(f) \subseteq Holding(f)
      /\ \A u \in Holding(f) : u \in Nat /\ entry <= u /\ u <= limit
      /\ entry \in Nat /\ limit \in Nat /\ entry <= limit
  BY FrameSets, Numbers DEF Begun
<1>1. CASE Hitting(f) = {}
  <2>1. Last(Holding(f)) \in Holding(f) /\ \A u \in Holding(f) : u <= Last(Holding(f))
    BY <1>0, LastIsGreatest
  <2>2. Observed(f).outcome = "TIMEOUT" /\ Observed(f).exit = Last(Holding(f))
    BY <1>0, <1>1 DEF Observed
  <2>3. Cutoff(f) = limit + 1
    BY <2>2 DEF Cutoff
  <2>. QED
    BY <1>0, <1>1, <2>1, <2>2, <2>3
<1>2. CASE Hitting(f) # {}
  <2>1. First(Hitting(f)) \in Hitting(f) /\ \A u \in Hitting(f) : First(Hitting(f)) <= u
    BY <1>0, <1>2, FirstIsLeast
  <2>2. /\ Observed(f).outcome = Closes(f[First(Hitting(f))])
        /\ Observed(f).exit = First(Hitting(f))
    BY <1>2 DEF Observed
  <2>3. Observed(f).outcome \in {"WIN", "LOSS"}
    BY <2>2 DEF Closes
  <2>4. Cutoff(f) = Observed(f).exit + 1
    BY <2>3 DEF Cutoff
  <2>5. Observed(f).exit \in Holding(f)
    BY <1>0, <2>1, <2>2
  <2>. QED
    BY <1>0, <1>2, <2>1, <2>2, <2>3, <2>4, <2>5
<1>. QED
  BY <1>1, <1>2

\* The gaps that are looked at, and each minute that is missing is in one.
LEMMA ManagedEvents ==
  ASSUME NEW f, NEW n, Begun(f, n)
  PROVE  /\ Uncovered(f) \in SUBSET Nat
         /\ \A e \in Managed(f) :
              /\ e.gap \in GapsOf(Missing(f)) /\ e.minutes \in GapsOf(Uncovered(f))
              /\ e.minutes = e.gap \cap (entry .. (Cutoff(f) - 1)) /\ e.minutes # {}
              /\ e.minutes \subseteq Uncovered(f) /\ e.minutes \in SUBSET Nat
              /\ e.resolution = NoResolution
         /\ \A t \in Uncovered(f) : \E e \in Managed(f) :
              e.minutes = Touching(Uncovered(f), t) /\ t \in e.minutes
<1>1. Missing(f) \in SUBSET Nat /\ entry \in Int /\ Cutoff(f) \in Int
  BY FrameSets, ObservedExit, Numbers DEF Begun
<1>2. Uncovered(f) \in SUBSET Nat
  BY <1>1 DEF Uncovered, Cut
<1>3. \E parts : Managed(f) = Select(GapsOf(Missing(f)), entry, Cutoff(f), parts)
  BY FrameSets DEF Managed
<1>4. /\ \A e \in Managed(f) :
              /\ e.gap \in GapsOf(Missing(f)) /\ e.minutes \in GapsOf(Uncovered(f))
              /\ e.minutes = e.gap \cap (entry .. (Cutoff(f) - 1)) /\ e.minutes # {}
              /\ e.resolution = NoResolution
      /\ \A t \in Uncovered(f) : \E e \in Managed(f) : e.minutes = Touching(Uncovered(f), t)
  BY <1>1, <1>3, Selected DEF Uncovered
<1>5. \A g \in GapsOf(Uncovered(f)) : g \subseteq Uncovered(f)
  BY <1>2, GapsApart
<1>. QED
  BY <1>2, <1>4, <1>5, TouchingSelf

\* A candle is before a gap or after it.
LEMMA CandleBesideGap ==
  ASSUME NEW f, NEW n, Begun(f, n), NEW g \in GapsOf(Missing(f)), NEW x \in Have(f)
  PROVE  (\A u \in g : u < x) \/ (\A u \in g : x < u)
<1>. SUFFICES ASSUME NEW u \in g, NEW v \in g, ~(u < x), ~(x < v) PROVE FALSE
  OBVIOUS
<1>1. /\ Missing(f) \in SUBSET Nat /\ x \in Nat /\ x \notin Missing(f)
  BY FrameSets
<1>2. u \in Nat /\ v \in Nat
  BY <1>1, GapsApart
<1>3. v <= x /\ x <= u
  BY <1>1, <1>2
<1>. QED
  BY <1>1, <1>3, GapIsInterval

LEMMA CandleBeside ==
  ASSUME NEW f, NEW n, Begun(f, n), NEW e \in Managed(f), NEW x \in Have(f)
  PROVE  (\A u \in e.minutes : u < x) \/ (\A u \in e.minutes : x < u)
<1>1. e.gap \in GapsOf(Missing(f)) /\ e.minutes \subseteq e.gap
  BY ManagedEvents
<1>. QED
  BY <1>1, CandleBesideGap

LEMMA ResumingFirst ==
  ASSUME NEW f, NEW n, Begun(f, n), NEW e, Resuming(f, e) # {}
  PROVE  /\ First(Resuming(f, e)) \in Have(f) /\ First(Resuming(f, e)) \in Nat
         /\ \A u \in e.minutes : u < First(Resuming(f, e))
         /\ \A x \in Resuming(f, e) : First(Resuming(f, e)) <= x
<1>1. Resuming(f, e) \in SUBSET Nat
  BY FrameSets DEF Resuming
<1>2. First(Resuming(f, e)) \in Resuming(f, e)
      /\ \A x \in Resuming(f, e) : First(Resuming(f, e)) <= x
  BY <1>1, FirstIsLeast
<1>. QED
  BY <1>1, <1>2 DEF Resuming

\* Any candle between a gap and the limit makes the gap decidable.
LEMMA CandleAfterGap ==
  ASSUME NEW f, NEW n, Begun(f, n), NEW e, NEW x \in Have(f), x <= limit,
         \A u \in e.minutes : u < x
  PROVE  ~NoObservation(f, e) /\ First(Resuming(f, e)) <= x
<1>1. x \in Resuming(f, e)
  BY DEF Resuming
<1>2. First(Resuming(f, e)) \in Nat /\ First(Resuming(f, e)) <= x
  BY <1>1, ResumingFirst
<1>3. limit \in Nat /\ x \in Nat
  BY FrameSets, Numbers DEF Begun
<1>. QED
  BY <1>1, <1>2, <1>3 DEF NoObservation

\* When a candle hits a level, every gap before it can be decided.
LEMMA HitAfterGap ==
  ASSUME NEW f, NEW n, Begun(f, n), Hitting(f) # {}, NEW e \in Managed(f)
  PROVE  ~NoObservation(f, e) /\ First(Resuming(f, e)) <= Observed(f).exit
<1>. DEFINE x == Observed(f).exit
<1>1. x \in Have(f) /\ x <= limit /\ x \in Nat /\ Cutoff(f) = x + 1
  BY ObservedExit, FrameSets
<1>2. e.minutes # {} /\ e.minutes \subseteq entry .. (Cutoff(f) - 1)
  BY ManagedEvents
<1>3. ~ \A u \in e.minutes : x < u
  BY <1>1, <1>2
<1>4. \A u \in e.minutes : u < x
  BY <1>1, <1>3, CandleBeside
<1>. QED
  BY <1>1, <1>4, CandleAfterGap

LEMMA Resolutions ==
  ASSUME NEW f, NEW e
  PROVE  /\ NoObservation(f, e) => Resolution(f, e) = Unresolved
         /\ Resolution(f, e) = Unresolved => NoObservation(f, e)
         /\ Resolution(f, e) \in {Unresolved, "TP_INFERRED", "SL_INFERRED", Assumed}
         /\ Resolution(f, e) = "TP_INFERRED" => Target(Reopening(f, e))
         /\ Resolution(f, e) = "SL_INFERRED" => Stop(Reopening(f, e))
<1>1. CASE NoObservation(f, e)
  BY <1>1 DEF Resolution, Unresolved, Assumed
<1>2. CASE ~NoObservation(f, e) /\ Target(Reopening(f, e)) /\ ~Stop(Reopening(f, e))
  BY <1>2 DEF Resolution, Unresolved, Assumed
<1>3. CASE ~NoObservation(f, e) /\ ~Target(Reopening(f, e)) /\ Stop(Reopening(f, e))
  BY <1>3 DEF Resolution, Unresolved, Assumed
<1>4. CASE ~NoObservation(f, e) /\ ~Target(Reopening(f, e)) /\ ~Stop(Reopening(f, e))
  BY <1>4 DEF Resolution, Unresolved, Assumed
<1>5. CASE ~NoObservation(f, e) /\ Target(Reopening(f, e)) /\ Stop(Reopening(f, e))
  BY <1>5 DEF Resolution, Unresolved, Assumed
<1>. QED
  BY <1>1, <1>2, <1>3, <1>4, <1>5

\* A gap that the position does not get over is the first of its kind or later.
LEMMA FirstDecides ==
  ASSUME NEW f, NEW n, Begun(f, n), NEW e \in Managed(f), Resolution(f, e) # Assumed
  PROVE  Deciding(f) # {}
<1>. DEFINE ending == {d \in Managed(f) : Resolution(f, d) # Assumed}
            starts == {First(d.minutes) : d \in ending}
<1>1. \A d \in Managed(f) : d.minutes \in SUBSET Nat /\ First(d.minutes) \in Nat
  BY ManagedEvents, FirstIsLeast
<1>2. starts \in SUBSET Nat /\ starts # {}
  BY <1>1
<1>. HIDE DEF starts
<1>3. First(starts) \in starts /\ \A u \in starts : First(starts) <= u
  BY <1>2, FirstIsLeast
<1>4. PICK d \in ending : First(d.minutes) = First(starts)
  BY <1>3 DEF starts
<1>5. d \in Deciding(f)
  BY <1>3, <1>4 DEF Deciding, starts
<1>. QED
  BY <1>5

-----------------------------------------------------------------------------
(* The three ways a trade ends.                                             *)

\* It cannot be known: the first gap that decides is followed by no candle.
Unknown(f) ==
  \E end \in Deciding(f) :
    /\ Resolution(f, end) = Unresolved
    /\ Trace(f) = Undecided(f, Resolved(f, Managed(f)))

\* The first candle after a gap is beyond a level.
Inferred(f, x) ==
  \E end \in Deciding(f) :
    /\ x = First(Resuming(f, end))
    /\ Resolution(f, end) \in {"TP_INFERRED", "SL_INFERRED"}
    /\ LET won == Resolution(f, end) = "TP_INFERRED"
       IN  Trace(f) = Trade(IF won THEN "WIN" ELSE "LOSS",
                            IF won THEN "GAP_INFERRED_TP" ELSE "GAP_INFERRED_SL", x,
                            Merge(Context(f) \cup
                                  Resolved(f, {e \in Managed(f) : First(e.minutes) < x})),
                            "GAP_RESOLVED")

\* As the candles that are there say.
AsObserved(f) ==
  /\ Deciding(f) = {}
  /\ Trace(f) =
       Trade(Observed(f).outcome,
             IF Managed(f) = {} THEN "OBSERVED" ELSE "GAP_ASSUMED_NO_EXIT",
             Observed(f).exit, Merge(Context(f) \cup Resolved(f, Managed(f))),
             IF Managed(f) = {} THEN Quality(Context(f)) ELSE "GAP_RESOLVED")

LEMMA TraceCases ==
  ASSUME NEW f, NEW n, Begun(f, n)
  PROVE  Unknown(f) \/ (\E x \in Have(f) : Inferred(f, x)) \/ AsObserved(f)
<1>0. entry \in Have(f)
  BY DEF Begun
<1>1. CASE Deciding(f) = {}
  BY <1>0, <1>1 DEF Trace, AsObserved
<1>2. CASE Deciding(f) # {}
  <2>1. PICK end \in Deciding(f) : end = CHOOSE e \in Deciding(f) : TRUE
    BY <1>2
  <2>2. end \in Managed(f) /\ Resolution(f, end) # Assumed
    BY DEF Deciding
  <2>3. CASE Resolution(f, end) = Unresolved
    <3>1. Attached(f, end) = Managed(f)
      BY <2>3, Resolutions DEF Attached
    <3>2. Trace(f) = Undecided(f, Resolved(f, Managed(f)))
      BY <1>0, <1>2, <2>1, <2>3, <3>1 DEF Trace
    <3>. QED
      BY <2>3, <3>2 DEF Unknown
  <2>4. CASE Resolution(f, end) # Unresolved
    <3>1. ~NoObservation(f, end)
      BY <2>4, Resolutions
    <3>2. First(Resuming(f, end)) \in Have(f)
      BY <3>1, ResumingFirst DEF NoObservation
    <3>3. Attached(f, end) = {e \in Managed(f) : First(e.minutes) < First(Resuming(f, end))}
      BY <3>1 DEF Attached
    <3>4. Resolution(f, end) \in {"TP_INFERRED", "SL_INFERRED"}
      BY <2>2, <2>4, Resolutions
    <3>5. Inferred(f, First(Resuming(f, end)))
      BY <1>0, <1>2, <2>1, <2>4, <3>3, <3>4 DEF Trace, Inferred
    <3>. QED
      BY <3>2, <3>5
  <2>. QED
    BY <2>3, <2>4
<1>. QED
  BY <1>1, <1>2

LEMMA UnknownUnhit ==
  ASSUME NEW f, NEW n, Begun(f, n), Unknown(f)
  PROVE  /\ Hitting(f) = {} /\ Cutoff(f) = limit + 1 /\ Managed(f) # {}
         /\ Trace(f) = Undecided(f, Resolved(f, Managed(f)))
<1>1. PICK end \in Deciding(f) : /\ Resolution(f, end) = Unresolved
                                 /\ Trace(f) = Undecided(f, Resolved(f, Managed(f)))
  BY DEF Unknown
<1>2. end \in Managed(f)
  BY DEF Deciding
<1>3. NoObservation(f, end)
  BY <1>1, Resolutions
<1>. QED
  BY <1>1, <1>2, <1>3, HitAfterGap, ObservedExit

\* An inferred exit lies within the holding time, no later than the first hit.
LEMMA InferredExit ==
  ASSUME NEW f, NEW n, Begun(f, n), NEW x \in Have(f), NEW end \in Deciding(f),
         x = First(Resuming(f, end)), Resolution(f, end) # Unresolved
  PROVE  /\ x \in Nat /\ entry < x /\ x <= limit /\ x < Cutoff(f)
         /\ Hitting(f) # {} => x <= Observed(f).exit
         /\ end \in Managed(f) /\ \A u \in end.minutes : u < x
<1>1. end \in Managed(f)
  BY DEF Deciding
<1>2. ~NoObservation(f, end)
  BY Resolutions
<1>3. Resuming(f, end) # {} /\ ~(x > limit)
  BY <1>2 DEF NoObservation
<1>4. x \in Nat /\ \A u \in end.minutes : u < x
  BY <1>3, ResumingFirst
<1>5. PICK u \in end.minutes : u \in Nat /\ entry <= u
  <2>1. end.minutes # {} /\ end.minutes \subseteq entry .. (Cutoff(f) - 1) /\ end.minutes \in SUBSET Nat
    BY <1>1, ManagedEvents
  <2>. QED
    BY <2>1
<1>6. entry \in Nat /\ limit \in Nat
  BY Numbers DEF Begun
<1>7. entry < x /\ x <= limit
  BY <1>3, <1>4, <1>5, <1>6
<1>8. Hitting(f) # {} => x <= Observed(f).exit /\ Observed(f).exit \in Nat
  BY <1>1, HitAfterGap, ObservedExit, FrameSets
<1>9. x < Cutoff(f)
  <2>1. CASE Hitting(f) = {}
    BY <2>1, <1>4, <1>6, <1>7, ObservedExit
  <2>2. CASE Hitting(f) # {}
    BY <2>2, <1>4, <1>8, ObservedExit
  <2>. QED
    BY <2>1, <2>2
<1>. QED
  BY <1>1, <1>4, <1>7, <1>8, <1>9

\* What the selection of trades may expect (Results of RiskSelection).
LEMMA TraceEnds ==
  ASSUME NEW f, NEW n, Begun(f, n)
  PROVE  \/ /\ Trace(f).outcome \in {"WIN", "LOSS", "TIMEOUT"}
            /\ Trace(f).exit \in Have(f) \cap (entry .. limit)
         \/ Trace(f).outcome = "INDETERMINATE" /\ Trace(f).exit = None
<1>0. entry \in Nat /\ limit \in Nat /\ Have(f) \subseteq Nat
  BY Numbers, FrameSets DEF Begun
<1>1. CASE Unknown(f)
  BY <1>1 DEF Unknown, Undecided, Trade
<1>2. ASSUME NEW x \in Have(f), Inferred(f, x)
      PROVE  Trace(f).outcome \in {"WIN", "LOSS"} /\ Trace(f).exit = x /\ x \in entry .. limit
  <2>1. PICK end \in Deciding(f) :
          /\ x = First(Resuming(f, end)) /\ Resolution(f, end) # Unresolved
    BY <1>2 DEF Inferred, Unresolved
  <2>2. x \in entry .. limit
    BY <1>0, <2>1, InferredExit
  <2>3. Trace(f).outcome \in {"WIN", "LOSS"} /\ Trace(f).exit = x
    BY <1>2 DEF Inferred, Trade
  <2>. QED
    BY <2>2, <2>3
<1>3. CASE AsObserved(f)
  <2>1. Trace(f).outcome = Observed(f).outcome /\ Trace(f).exit = Observed(f).exit
    BY <1>3 DEF AsObserved, Trade
  <2>2. Observed(f).outcome \in {"WIN", "LOSS", "TIMEOUT"}
    BY ObservedExit
  <2>3. Observed(f).exit \in Have(f) \cap (entry .. limit)
    BY <1>0, ObservedExit, FrameSets
  <2>. QED
    BY <2>1, <2>2, <2>3
<1>. QED
  BY <1>1, <1>2, <1>3, TraceCases

-----------------------------------------------------------------------------
(* The gaps a trade reports.                                                *)

LEMMA SelectRecord ==
  ASSUME NEW gaps, NEW from, NEW to, NEW parts, NEW e \in Select(gaps, from, to, parts), NEW r
  PROVE  /\ [e EXCEPT !.resolution = r].gap = e.gap
         /\ [e EXCEPT !.resolution = r].minutes = e.minutes
<1>1. PICK g \in gaps : e = [gap |-> g, minutes |-> g \cap (from .. (to - 1)), parts |-> parts,
                             resolution |-> NoResolution]
  BY DEF Select
<1>. QED
  BY <1>1

LEMMA ResolvedEvents ==
  ASSUME NEW f, NEW A \in SUBSET Managed(f)
  PROVE  /\ \A e \in Resolved(f, A) : \E d \in A : e.gap = d.gap /\ e.minutes = d.minutes
         /\ \A d \in A : \E e \in Resolved(f, A) : e.gap = d.gap /\ e.minutes = d.minutes
<1>1. \A d \in A : \A r : /\ [d EXCEPT !.resolution = r].gap = d.gap
                          /\ [d EXCEPT !.resolution = r].minutes = d.minutes
  BY SelectRecord DEF Managed
<1>2. ASSUME NEW e \in Resolved(f, A)
      PROVE  \E d \in A : e.gap = d.gap /\ e.minutes = d.minutes
  <2>1. PICK d \in A : e = [d EXCEPT !.resolution = Resolution(f, d)]
    BY DEF Resolved
  <2>. QED
    BY <1>1, <2>1
<1>3. ASSUME NEW d \in A
      PROVE  \E e \in Resolved(f, A) : e.gap = d.gap /\ e.minutes = d.minutes
  <2>1. [d EXCEPT !.resolution = Resolution(f, d)] \in Resolved(f, A)
    BY DEF Resolved
  <2>. QED
    BY <1>1, <2>1
<1>. QED
  BY <1>2, <1>3

LEMMA ContextEvents ==
  ASSUME NEW f, NEW n, Begun(f, n)
  PROVE  /\ \A e \in Context(f) :
              /\ e.gap \in GapsOf(Missing(f)) /\ e.minutes # {}
              /\ e.minutes = e.gap \cap (scenario.context .. (entry - 1))
         /\ UNION {e.minutes : e \in Context(f)} = Cut(Missing(f), scenario.context, entry)
<1>0. Missing(f) \in SUBSET Nat /\ entry \in Int /\ scenario.context \in Int
  BY FrameSets, Numbers DEF Begun
<1>. DEFINE T == Cut(Missing(f), scenario.context, entry)
<1>1. T \in SUBSET Nat
  BY <1>0 DEF Cut
<1>2. \E parts : Context(f) = Select(GapsOf(Missing(f)), scenario.context, entry, parts)
  BY FrameSets DEF Context
<1>. HIDE DEF T
<1>3. /\ \A e \in Context(f) :
           /\ e.gap \in GapsOf(Missing(f)) /\ e.minutes # {} /\ e.minutes \in GapsOf(T)
           /\ e.minutes = e.gap \cap (scenario.context .. (entry - 1))
      /\ \A t \in T : \E e \in Context(f) : e.minutes = Touching(T, t)
  BY <1>0, <1>2, Selected DEF T
<1>4. \A g \in GapsOf(T) : g \subseteq T
  BY <1>1, GapsApart
<1>5. UNION {e.minutes : e \in Context(f)} = T
  <2>1. ASSUME NEW t \in T PROVE \E e \in Context(f) : t \in e.minutes
    BY <1>1, <1>3, TouchingSelf
  <2>2. ASSUME NEW e \in Context(f) PROVE e.minutes \subseteq T
    BY <1>3, <1>4
  <2>. QED
    BY <2>1, <2>2
<1>. QED
  BY <1>3, <1>5 DEF T

\* The events of a trade are stretches of gaps, at most one for each gap: the
\* candle of the entry keeps those of the setup and of the trade apart.
LEMMA EventsReported ==
  ASSUME NEW f, NEW n, Begun(f, n), NEW A \in SUBSET Managed(f)
  PROVE  /\ Reported(Merge(Context(f) \cup Resolved(f, A))) =
              Cut(Missing(f), scenario.context, entry) \cup UNION {e.minutes : e \in A}
         /\ Merge(Context(f) \cup Resolved(f, A)) = {} <=> Context(f) = {} /\ A = {}
<1>. DEFINE E == Context(f) \cup Resolved(f, A)
<1>0. /\ Missing(f) \in SUBSET Nat /\ entry \in Nat /\ scenario.context \in Nat
      /\ Cutoff(f) \in Nat /\ entry \in Have(f)
  BY FrameSets, Numbers, ObservedExit DEF Begun
<1>1. ASSUME NEW e \in E
      PROVE  /\ e.gap \in GapsOf(Missing(f)) /\ e.minutes # {}
             /\ \/ e.minutes = e.gap \cap (scenario.context .. (entry - 1))
                \/ e.minutes = e.gap \cap (entry .. (Cutoff(f) - 1))
  <2>1. CASE e \in Context(f)
    BY <2>1, ContextEvents
  <2>2. CASE e \in Resolved(f, A)
    <3>1. PICK d \in Managed(f) : e.gap = d.gap /\ e.minutes = d.minutes
      BY <2>2, ResolvedEvents
    <3>. QED
      BY <3>1, ManagedEvents
  <2>. QED
    BY <2>1, <2>2
<1>2. ASSUME NEW e \in E
      PROVE  /\ e.minutes \in SUBSET Int /\ e.minutes \subseteq e.gap
             /\ \A a, b \in e.minutes : \A t \in e.gap : a <= t /\ t <= b => t \in e.minutes
  <2>1. e.gap \in SUBSET Nat
    BY <1>0, <1>1, GapsApart
  <2>. QED
    BY <1>0, <1>1, <2>1
<1>3. ASSUME NEW e \in E, NEW d \in E, e.gap = d.gap PROVE e.minutes = d.minutes
  <2>. SUFFICES ASSUME NEW a \in E, NEW b \in E, a.gap = b.gap,
                       a.minutes = a.gap \cap (scenario.context .. (entry - 1)),
                       b.minutes = b.gap \cap (entry .. (Cutoff(f) - 1))
                PROVE  FALSE
    BY <1>1, <1>3
  <2>1. PICK u \in a.minutes, v \in b.minutes : TRUE
    BY <1>1
  <2>2. u \in a.gap /\ v \in a.gap /\ u < entry /\ entry <= v /\ u \in Int /\ v \in Int
    BY <1>0, <2>1
  <2>3. a.gap \in GapsOf(Missing(f))
    BY <1>1
  <2>4. (\A w \in a.gap : w < entry) \/ (\A w \in a.gap : entry < w)
    BY <1>0, <2>3, CandleBesideGap
  <2>. QED
    BY <1>0, <2>2, <2>4
<1>. HIDE DEF E
<1>4. Reported(Merge(E)) = UNION {e.minutes : e \in E} /\ (Merge(E) = {} <=> E = {})
  BY <1>2, <1>3, MergeReports
<1>5. UNION {e.minutes : e \in E} =
        (UNION {e.minutes : e \in Context(f)}) \cup (UNION {e.minutes : e \in A})
  <2>1. ASSUME NEW e \in Resolved(f, A) PROVE e.minutes \subseteq UNION {d.minutes : d \in A}
    <3>1. PICK d \in A : e.minutes = d.minutes
      BY ResolvedEvents
    <3>. QED
      BY <3>1
  <2>2. ASSUME NEW d \in A PROVE d.minutes \subseteq UNION {e.minutes : e \in Resolved(f, A)}
    <3>1. PICK e \in Resolved(f, A) : e.minutes = d.minutes
      BY ResolvedEvents
    <3>. QED
      BY <3>1
  <2>3. UNION {e.minutes : e \in Resolved(f, A)} = UNION {d.minutes : d \in A}
    BY <2>1, <2>2
  <2>4. UNION {e.minutes : e \in E} =
          (UNION {e.minutes : e \in Context(f)}) \cup (UNION {e.minutes : e \in Resolved(f, A)})
    BY DEF E
  <2>. QED
    BY <2>3, <2>4, Zenon
<1>6. E = {} <=> Context(f) = {} /\ A = {}
  <2>1. Resolved(f, A) = {} <=> A = {}
    BY ResolvedEvents
  <2>. QED
    BY <2>1 DEF E
<1>7. UNION {e.minutes : e \in Context(f)} = Cut(Missing(f), scenario.context, entry)
  BY ContextEvents
<1>8. Reported(Merge(E)) = Cut(Missing(f), scenario.context, entry) \cup UNION {e.minutes : e \in A}
  BY <1>4, <1>5, <1>7, Zenon
<1>9. Merge(E) = {} <=> Context(f) = {} /\ A = {}
  BY <1>4, <1>6, Zenon
<1>. QED
  BY <1>8, <1>9 DEF E

Until(r) == IF r.outcome \in {"INDETERMINATE", "TIMEOUT"} THEN limit ELSE r.exit

LEMMA Accounted ==
  ASSUME NEW f, NEW n, Begun(f, n)
  PROVE  /\ Reported(Trace(f).events) =
              {t \in Missing(f) : scenario.context <= t /\ t <= Until(Trace(f))}
         /\ Trace(f).status = "COMPLETE" <=> Trace(f).events = {}
<1>0. /\ Missing(f) \in SUBSET Nat /\ entry \in Nat /\ scenario.context \in Nat
      /\ scenario.context <= entry /\ limit \in Nat /\ Cutoff(f) \in Nat
      /\ Have(f) \subseteq Nat
  BY FrameSets, Numbers, ObservedExit DEF Begun
<1>1. UNION {e.minutes : e \in Managed(f)} = Uncovered(f)
  BY ManagedEvents
<1>2. ASSUME NEW bound \in Nat, entry <= bound + 1
      PROVE  Cut(Missing(f), scenario.context, entry) \cup Cut(Missing(f), entry, bound + 1)
               = {t \in Missing(f) : scenario.context <= t /\ t <= bound}
  BY <1>0, <1>2 DEF Cut
<1>3. CASE Unknown(f)
  <2>1. /\ Cutoff(f) = limit + 1 /\ Managed(f) # {}
        /\ Trace(f) = Undecided(f, Resolved(f, Managed(f)))
    BY <1>3, UnknownUnhit
  <2>2. /\ Until(Trace(f)) = limit /\ Trace(f).status = "INDETERMINATE"
        /\ Trace(f).events = Merge(Context(f) \cup Resolved(f, Managed(f)))
    BY <2>1 DEF Undecided, Trade, Until
  <2>3. Reported(Trace(f).events) = Cut(Missing(f), scenario.context, entry) \cup Uncovered(f)
        /\ Trace(f).events # {}
    BY <1>1, <2>1, <2>2, EventsReported
  <2>4. entry <= limit + 1
    BY <1>0, Numbers DEF Begun
  <2>. QED
    BY <1>0, <1>2, <2>1, <2>2, <2>3, <2>4 DEF Uncovered
<1>4. ASSUME NEW x \in Have(f), Inferred(f, x)
      PROVE  /\ Reported(Trace(f).events) =
                  {t \in Missing(f) : scenario.context <= t /\ t <= Until(Trace(f))}
             /\ Trace(f).status = "COMPLETE" <=> Trace(f).events = {}
  <2>. DEFINE A == {e \in Managed(f) : First(e.minutes) < x}
  <2>1. PICK end \in Deciding(f) :
          /\ x = First(Resuming(f, end)) /\ Resolution(f, end) # Unresolved
    BY <1>4 DEF Inferred, Unresolved
  <2>2. /\ x \in Nat /\ entry < x /\ x < Cutoff(f) /\ end \in Managed(f)
        /\ \A u \in end.minutes : u < x
    BY <2>1, InferredExit
  <2>3. /\ Until(Trace(f)) = x /\ Trace(f).status = "GAP_RESOLVED"
        /\ Trace(f).events = Merge(Context(f) \cup Resolved(f, A))
    BY <1>4 DEF Inferred, Trade, Until
  <2>4. ASSUME NEW e \in Managed(f)
        PROVE  /\ First(e.minutes) \in e.minutes /\ First(e.minutes) \in Nat
               /\ \A u \in e.minutes : First(e.minutes) <= u /\ u \in Nat
    BY ManagedEvents, FirstIsLeast
  <2>5. end \in A
    BY <2>2, <2>4
  <2>6. UNION {e.minutes : e \in A} = {t \in Uncovered(f) : t < x}
    <3>1. ASSUME NEW e \in A, NEW t \in e.minutes PROVE t \in Uncovered(f) /\ t < x
      <4>1. e \in Managed(f) /\ First(e.minutes) < x
        OBVIOUS
      <4>2. ~ \A u \in e.minutes : x < u
        BY <4>1, <2>2, <2>4
      <4>. QED
        BY <4>1, <4>2, CandleBeside, ManagedEvents
    <3>2. ASSUME NEW t \in Uncovered(f), t < x PROVE \E e \in A : t \in e.minutes
      <4>1. PICK e \in Managed(f) : t \in e.minutes
        BY ManagedEvents
      <4>2. First(e.minutes) < x
        BY <4>1, <2>2, <2>4, <3>2
      <4>. QED
        BY <4>1, <4>2
    <3>. QED
      BY <3>1, <3>2
  <2>7. x \notin Missing(f)
    BY FrameSets
  <2>8. {t \in Uncovered(f) : t < x} = Cut(Missing(f), entry, x + 1)
    BY <1>0, <2>2, <2>7 DEF Uncovered, Cut
  <2>. HIDE DEF A
  <2>9. A \in SUBSET Managed(f)
    BY DEF A
  <2>10. /\ Reported(Trace(f).events) =
              Cut(Missing(f), scenario.context, entry) \cup Cut(Missing(f), entry, x + 1)
         /\ Trace(f).events # {}
    BY <2>3, <2>5, <2>6, <2>8, <2>9, EventsReported
  <2>11. entry <= x + 1
    BY <1>0, <2>2
  <2>. QED
    BY <1>2, <2>2, <2>3, <2>10, <2>11
<1>5. CASE AsObserved(f)
  <2>1. /\ Trace(f).events = Merge(Context(f) \cup Resolved(f, Managed(f)))
        /\ Trace(f).status = IF Managed(f) = {} THEN Quality(Context(f)) ELSE "GAP_RESOLVED"
        /\ Trace(f).outcome = Observed(f).outcome /\ Trace(f).exit = Observed(f).exit
    BY <1>5 DEF AsObserved, Trade
  <2>2. PICK bound \in Nat : bound = Until(Trace(f)) /\ Cutoff(f) = bound + 1 /\ entry <= bound + 1
    <3>1. CASE Hitting(f) = {}
      BY <2>1, <3>1, <1>0, ObservedExit DEF Until
    <3>2. CASE Hitting(f) # {}
      <4>1. Observed(f).exit \in Nat
        BY ObservedExit, FrameSets
      <4>. QED
        BY <2>1, <3>2, <4>1, <1>0, ObservedExit DEF Until
    <3>. QED
      BY <3>1, <3>2
  <2>3. /\ Reported(Trace(f).events) = Cut(Missing(f), scenario.context, entry) \cup Uncovered(f)
        /\ Trace(f).events = {} <=> Context(f) = {} /\ Managed(f) = {}
    BY <1>1, <2>1, EventsReported
  <2>4. Trace(f).status = "COMPLETE" <=> Context(f) = {} /\ Managed(f) = {}
    BY <2>1 DEF Quality
  <2>. QED
    BY <1>2, <2>2, <2>3, <2>4 DEF Uncovered
<1>. QED
  BY <1>3, <1>4, <1>5, TraceCases

-----------------------------------------------------------------------------
(* The states: a trade is entered at a candle.                              *)

EntryThere == Entered => frame[entry] # None

\* Each candle of the frame is one that the provider may send.
Sent == \A t \in 1 .. now : frame[t] \in scenario.bars[t]

TradeOK == FrameOK /\ now <= scenario.horizon /\ EntryThere /\ Sent

LEMMA TradeInit == Init => TradeOK
<1>. SUFFICES ASSUME Init PROVE TradeOK
  OBVIOUS
<1>1. scenario.horizon \in Nat /\ 1 <= entry /\ entry \in Nat
  BY ScenarioAssumptions, Numbers DEF Init
<1>. QED
  BY <1>1 DEF Init, TradeOK, FrameOK, EntryThere, Entered, Sent

LEMMA TradeStep == TradeOK /\ [Next]_vars => TradeOK'
<1>. SUFFICES ASSUME TradeOK, [Next]_vars PROVE TradeOK'
  OBVIOUS
<1>0. FrameOK'
  BY FrameStep DEF TradeOK
<1>1. CASE Minute
  <2>1. PICK b \in scenario.bars[now + 1] :
          /\ now + 1 = entry => b # None
          /\ frame' = [t \in 1 .. (now + 1) |-> IF t <= now THEN frame[t] ELSE b]
    BY <1>1 DEF Minute
  <2>2. now' = now + 1 /\ scenario' = scenario /\ now < scenario.horizon /\ entry' = entry
    BY <1>1 DEF Minute, entry
  <2>3. entry \in Nat /\ 1 <= entry /\ now \in Nat /\ scenario.horizon \in Nat
    BY Numbers, ScenarioAssumptions DEF TradeOK, FrameOK
  <2>4. EntryThere'
    <3>. SUFFICES ASSUME now + 1 >= entry PROVE frame'[entry] # None
      BY <2>2 DEF EntryThere, Entered
    <3>1. frame'[entry] = IF entry <= now THEN frame[entry] ELSE b
      BY <2>1, <2>3
    <3>. QED
      BY <2>1, <2>3, <3>1 DEF TradeOK, EntryThere, Entered
  <2>5. Sent'
    <3>. SUFFICES ASSUME NEW t \in 1 .. (now + 1) PROVE frame'[t] \in scenario.bars[t]
      BY <2>2 DEF Sent
    <3>1. frame'[t] = IF t <= now THEN frame[t] ELSE b
      BY <2>1
    <3>2. CASE t <= now
      BY <2>3, <3>1, <3>2 DEF TradeOK, Sent
    <3>3. CASE ~(t <= now)
      <4>1. t = now + 1
        BY <2>3, <3>3
      <4>. QED
        BY <2>1, <3>1, <3>3, <4>1
    <3>. QED
      BY <3>2, <3>3
  <2>. QED
    BY <1>0, <2>2, <2>3, <2>4, <2>5 DEF TradeOK
<1>2. CASE UNCHANGED vars
  BY <1>0, <1>2 DEF TradeOK, vars, EntryThere, Entered, entry, Sent
<1>. QED
  BY <1>1, <1>2 DEF Next

LEMMA TradeAlways == Spec => []TradeOK
<1>. QED
  BY TradeInit, TradeStep, PTL DEF Spec

LEMMA EnteredBegun ==
  ASSUME TradeOK, Entered
  PROVE  Begun(frame, now)
<1>1. entry \in 1 .. now
  BY Numbers DEF TradeOK, FrameOK, Entered
<1>. QED
  BY <1>1 DEF TradeOK, FrameOK, EntryThere, Begun, Have

\* A trade ends at a candle of the holding time, or has no known end.
THEOREM TypesHold == Spec => []TypeOK
<1>1. ASSUME TradeOK PROVE TypeOK
  <2>1. scenario.horizon \in Nat
    BY <1>1, ScenarioAssumptions DEF TradeOK, FrameOK
  <2>2. Entered => Begun(frame, now)
    BY <1>1, EnteredBegun
  <2>. QED
    BY <1>1, <2>1, <2>2, TraceEnds DEF TypeOK, TradeOK, FrameOK
<1>. QED
  BY <1>1, TradeAlways, PTL

\* No gap of a trade is dropped and none is made up, whatever the calendar and
\* the candles: the events of setup and trade cover exactly the missing minutes
\* up to the end of the trade, although merge_events joins what it is given.
THEOREM GapsAccountedFor == Spec => []GapsAccounted
<1>1. ASSUME TradeOK PROVE GapsAccounted
  <2>. SUFFICES ASSUME Entered PROVE GapsAccounted
    BY DEF GapsAccounted
  <2>1. Begun(frame, now)
    BY <1>1, EnteredBegun
  <2>2. Missing(frame) = Missed
    BY <2>1 DEF Begun, Missing, Missed
  <2>3. /\ Reported(Trace(frame).events) =
              {t \in Missed : scenario.context <= t /\ t <= Until(Trace(frame))}
        /\ Trace(frame).status = "COMPLETE" <=> Trace(frame).events = {}
    BY <2>1, <2>2, Accounted
  <2>. QED
    BY <2>3 DEF GapsAccounted, Until
<1>. QED
  BY <1>1, TradeAlways, PTL

-----------------------------------------------------------------------------
(* Two frames in which a trade ends the same way.                           *)

\* The same candles decide, and each gap is followed by the same one.
Alike(f, g) ==
  /\ Observed(g) = Observed(f)
  /\ Uncovered(g) = Uncovered(f)
  /\ Cut(Missing(g), scenario.context, entry) = Cut(Missing(f), scenario.context, entry)
  /\ \A d \in Managed(f), e \in Managed(g) : e.minutes = d.minutes =>
       /\ Resolution(g, e) = Resolution(f, d)
       /\ Resolution(f, d) # Unresolved => First(Resuming(g, e)) = First(Resuming(f, d))

\* Each gap of one frame is a gap of the other.
LEMMA AlikeManaged ==
  ASSUME NEW f, NEW n, Begun(f, n), NEW g, NEW m, Begun(g, m), Alike(f, g)
  PROVE  /\ \A d \in Managed(f) : \E e \in Managed(g) : e.minutes = d.minutes
         /\ \A e \in Managed(g) : \E d \in Managed(f) : d.minutes = e.minutes
<1>1. /\ Uncovered(f) \in SUBSET Nat /\ Uncovered(g) = Uncovered(f)
      /\ \A d \in Managed(f) : d.minutes \in GapsOf(Uncovered(f))
      /\ \A e \in Managed(g) : e.minutes \in GapsOf(Uncovered(f))
      /\ \A t \in Uncovered(f) : \E d \in Managed(f) : d.minutes = Touching(Uncovered(f), t)
      /\ \A t \in Uncovered(f) : \E e \in Managed(g) : e.minutes = Touching(Uncovered(f), t)
  BY ManagedEvents DEF Alike
<1>2. \A m1 \in GapsOf(Uncovered(f)) : \E t \in Uncovered(f) : m1 = Touching(Uncovered(f), t)
  BY DEF GapsOf
<1>3. ASSUME NEW d \in Managed(f) PROVE \E e \in Managed(g) : e.minutes = d.minutes
  BY <1>1, <1>2
<1>4. ASSUME NEW e \in Managed(g) PROVE \E d \in Managed(f) : d.minutes = e.minutes
  BY <1>1, <1>2
<1>. QED
  BY <1>3, <1>4

LEMMA AlikeDeciding ==
  ASSUME NEW f, NEW n, Begun(f, n), NEW g, NEW m, Begun(g, m), Alike(f, g)
  PROVE  /\ Deciding(f) = {} <=> Deciding(g) = {}
         /\ \A d \in Deciding(f), e \in Deciding(g) :
              /\ Resolution(g, e) = Resolution(f, d)
              /\ Resolution(f, d) # Unresolved => First(Resuming(g, e)) = First(Resuming(f, d))
<1>0. \A d \in Managed(f), e \in Managed(g) : e.minutes = d.minutes =>
       /\ Resolution(g, e) = Resolution(f, d)
       /\ Resolution(f, d) # Unresolved => First(Resuming(g, e)) = First(Resuming(f, d))
  BY DEF Alike
<1>1. ASSUME NEW d \in Deciding(f) PROVE Deciding(g) # {}
  <2>1. d \in Managed(f) /\ Resolution(f, d) # Assumed
    BY DEF Deciding
  <2>2. PICK e \in Managed(g) : e.minutes = d.minutes
    BY <2>1, AlikeManaged
  <2>3. Resolution(g, e) # Assumed
    BY <1>0, <2>1, <2>2
  <2>. QED
    BY <2>3, FirstDecides
<1>2. ASSUME NEW e \in Deciding(g) PROVE Deciding(f) # {}
  <2>1. e \in Managed(g) /\ Resolution(g, e) # Assumed
    BY DEF Deciding
  <2>2. PICK d \in Managed(f) : e.minutes = d.minutes
    BY <2>1, AlikeManaged
  <2>3. Resolution(f, d) # Assumed
    BY <1>0, <2>1, <2>2
  <2>. QED
    BY <2>3, FirstDecides
<1>3. ASSUME NEW d \in Deciding(f), NEW e \in Deciding(g) PROVE e.minutes = d.minutes
  <2>1. /\ d \in Managed(f) /\ Resolution(f, d) # Assumed
        /\ \A c \in Managed(f) : Resolution(f, c) # Assumed => First(d.minutes) <= First(c.minutes)
        /\ e \in Managed(g) /\ Resolution(g, e) # Assumed
        /\ \A c \in Managed(g) : Resolution(g, c) # Assumed => First(e.minutes) <= First(c.minutes)
    BY DEF Deciding
  <2>2. PICK d2 \in Managed(f) : d2.minutes = e.minutes
    BY <2>1, AlikeManaged
  <2>3. PICK e2 \in Managed(g) : e2.minutes = d.minutes
    BY <2>1, AlikeManaged
  <2>4. Resolution(f, d2) # Assumed /\ Resolution(g, e2) # Assumed
    BY <1>0, <2>1, <2>2, <2>3
  <2>5. First(d.minutes) <= First(e.minutes) /\ First(e.minutes) <= First(d.minutes)
    BY <2>1, <2>2, <2>3, <2>4
  <2>6. /\ Uncovered(f) \in SUBSET Nat
        /\ d.minutes \in GapsOf(Uncovered(f)) /\ d.minutes # {} /\ d.minutes \in SUBSET Nat
        /\ e.minutes \in GapsOf(Uncovered(f)) /\ e.minutes # {} /\ e.minutes \in SUBSET Nat
    BY <2>1, <2>2, ManagedEvents
  <2>7. First(d.minutes) \in d.minutes /\ First(e.minutes) \in e.minutes
    BY <2>6, FirstIsLeast
  <2>8. PICK a \in Nat, b \in Nat : a = First(d.minutes) /\ b = First(e.minutes)
    BY <2>6, <2>7
  <2>9. a = b
    BY <2>5, <2>8
  <2>. QED
    BY <2>6, <2>7, <2>8, <2>9, GapsApart
<1>4. ASSUME NEW d \in Deciding(f), NEW e \in Deciding(g)
      PROVE  /\ Resolution(g, e) = Resolution(f, d)
             /\ Resolution(f, d) # Unresolved => First(Resuming(g, e)) = First(Resuming(f, d))
  <2>1. d \in Managed(f) /\ e \in Managed(g)
    BY DEF Deciding
  <2>. QED
    BY <1>0, <1>3, <2>1
<1>. QED
  BY <1>1, <1>2, <1>4

LEMMA AlikeEnds ==
  ASSUME NEW f, NEW n, Begun(f, n), NEW g, NEW m, Begun(g, m), Alike(f, g)
  PROVE  Result(Trace(g)) = Result(Trace(f)) /\ Trace(g).status = Trace(f).status
<1>1. CASE Unknown(f)
  <2>1. PICK d \in Deciding(f) : Resolution(f, d) = Unresolved
    BY <1>1 DEF Unknown
  <2>2. \A e \in Deciding(g) : Resolution(g, e) = Unresolved
    BY <2>1, AlikeDeciding
  <2>3. \A x : ~Inferred(g, x)
    BY <2>2 DEF Inferred, Unresolved
  <2>4. Deciding(g) # {}
    BY <2>1, AlikeDeciding
  <2>5. Unknown(g)
    BY <2>3, <2>4, TraceCases DEF AsObserved
  <2>. QED
    BY <1>1, <2>5 DEF Unknown, Undecided, Trade, Result
<1>2. ASSUME NEW x \in Have(f), Inferred(f, x)
      PROVE  Result(Trace(g)) = Result(Trace(f)) /\ Trace(g).status = Trace(f).status
  <2>1. PICK d \in Deciding(f) :
          /\ x = First(Resuming(f, d)) /\ Resolution(f, d) \in {"TP_INFERRED", "SL_INFERRED"}
          /\ Trace(f).outcome = IF Resolution(f, d) = "TP_INFERRED" THEN "WIN" ELSE "LOSS"
          /\ Trace(f).exit = x /\ Trace(f).status = "GAP_RESOLVED"
    BY <1>2 DEF Inferred, Trade
  <2>2. \A e \in Deciding(g) : Resolution(g, e) = Resolution(f, d) /\ First(Resuming(g, e)) = x
    BY <2>1, AlikeDeciding DEF Unresolved
  <2>3. Deciding(g) # {} /\ ~Unknown(g)
    BY <2>1, <2>2, AlikeDeciding DEF Unknown, Unresolved
  <2>4. PICK y \in Have(g) : Inferred(g, y)
    BY <2>3, TraceCases DEF AsObserved
  <2>5. /\ Trace(g).outcome = IF Resolution(f, d) = "TP_INFERRED" THEN "WIN" ELSE "LOSS"
        /\ Trace(g).exit = x /\ Trace(g).status = "GAP_RESOLVED"
    BY <2>2, <2>4 DEF Inferred, Trade
  <2>. QED
    BY <2>1, <2>5 DEF Result
<1>3. CASE AsObserved(f)
  <2>1. Deciding(g) = {}
    BY <1>3, AlikeDeciding DEF AsObserved
  <2>2. AsObserved(g)
    BY <2>1, TraceCases DEF Unknown, Inferred
  <2>3. Managed(f) = {} <=> Managed(g) = {}
    BY AlikeManaged
  <2>4. Context(f) = {} <=> Context(g) = {}
    <3>1. \A e \in Context(f) : e.minutes # {}
      BY ContextEvents
    <3>2. \A e \in Context(g) : e.minutes # {}
      BY ContextEvents
    <3>3. UNION {e.minutes : e \in Context(f)} = UNION {e.minutes : e \in Context(g)}
      BY ContextEvents DEF Alike
    <3>. QED
      BY <3>1, <3>2, <3>3
  <2>5. Observed(g) = Observed(f)
    BY DEF Alike
  <2>6. /\ Trace(f).outcome = Observed(f).outcome /\ Trace(f).exit = Observed(f).exit
        /\ Trace(f).status = IF Managed(f) = {} THEN Quality(Context(f)) ELSE "GAP_RESOLVED"
    BY <1>3 DEF AsObserved, Trade
  <2>7. /\ Trace(g).outcome = Observed(g).outcome /\ Trace(g).exit = Observed(g).exit
        /\ Trace(g).status = IF Managed(g) = {} THEN Quality(Context(g)) ELSE "GAP_RESOLVED"
    BY <2>2 DEF AsObserved, Trade
  <2>. QED
    BY <2>3, <2>4, <2>5, <2>6, <2>7 DEF Result, Quality
<1>. QED
  BY <1>1, <1>2, <1>3, TraceCases

-----------------------------------------------------------------------------
(* The frame grows by a minute.                                             *)

Grows(f, g, n) ==
  /\ Begun(f, n) /\ DOMAIN g = 1 .. (n + 1)
  /\ \A t \in 1 .. n : g[t] = f[t]

LEMMA GrowsSets ==
  ASSUME NEW f, NEW g, NEW n, Grows(f, g, n)
  PROVE  /\ Begun(g, n + 1)
         /\ \A t \in 1 .. n : (t \in Have(g) <=> t \in Have(f))
                              /\ (t \in Missing(g) <=> t \in Missing(f))
         /\ Have(f) \subseteq Have(g) /\ Have(g) \subseteq Have(f) \cup {n + 1}
         /\ \A from \in Nat, to \in Nat : to <= n + 1 =>
              Cut(Missing(g), from, to) = Cut(Missing(f), from, to)
<1>1. /\ scenario \in Scenarios /\ n \in Nat /\ DOMAIN f = 1 .. n /\ entry \in Have(f)
      /\ DOMAIN g = 1 .. (n + 1) /\ \A t \in 1 .. n : g[t] = f[t]
      /\ 1 .. (n + 1) = 1 .. n \cup {n + 1}
  BY DEF Grows, Begun
<1>2. \A t \in 1 .. n : (t \in Have(g) <=> t \in Have(f))
                        /\ (t \in Missing(g) <=> t \in Missing(f))
  BY <1>1 DEF Have, Missing, MissingOpen
<1>3. /\ Have(f) \subseteq 1 .. n /\ Have(g) \subseteq 1 .. (n + 1)
      /\ Missing(f) \subseteq 1 .. n /\ Missing(g) \subseteq 1 .. (n + 1)
  BY <1>1 DEF Have, Missing, MissingOpen
<1>4. ASSUME NEW from \in Nat, NEW to \in Nat, to <= n + 1
      PROVE  Cut(Missing(g), from, to) = Cut(Missing(f), from, to)
  BY <1>1, <1>2, <1>3, <1>4 DEF Cut
<1>5. Have(f) \subseteq Have(g) /\ Have(g) \subseteq Have(f) \cup {n + 1}
  BY <1>1, <1>2, <1>3
<1>. QED
  BY <1>1, <1>2, <1>4, <1>5 DEF Begun

\* A gap that a candle follows is still followed by the same candle.
LEMMA GrowsResuming ==
  ASSUME NEW f, NEW g, NEW n, Grows(f, g, n), NEW d, NEW e, e.minutes = d.minutes,
         Resuming(f, d) # {}
  PROVE  /\ First(Resuming(g, e)) = First(Resuming(f, d))
         /\ Resolution(g, e) = Resolution(f, d)
<1>. DEFINE x == First(Resuming(f, d))
<1>1. /\ Begun(f, n) /\ n \in Nat /\ Have(f) \subseteq 1 .. n /\ \A t \in 1 .. n : g[t] = f[t]
  BY FrameSets DEF Grows, Begun
<1>2. /\ x \in Have(f) /\ x \in Nat /\ \A u \in d.minutes : u < x
      /\ \A y \in Resuming(f, d) : x <= y
  BY <1>1, ResumingFirst
<1>. HIDE DEF x
<1>3. Have(f) \subseteq Have(g) /\ Have(g) \subseteq Have(f) \cup {n + 1}
  BY GrowsSets
<1>4. x \in Resuming(g, e)
  BY <1>2, <1>3 DEF Resuming
<1>5. ASSUME NEW y \in Resuming(g, e) PROVE x <= y
  <2>1. y \in Have(g) /\ \A u \in d.minutes : u < y
    BY DEF Resuming
  <2>2. CASE y \in Have(f)
    BY <1>2, <2>1, <2>2 DEF Resuming
  <2>3. CASE y = n + 1
    BY <1>1, <1>2, <2>3
  <2>. QED
    BY <1>3, <2>1, <2>2, <2>3
<1>6. Resuming(g, e) \in SUBSET Nat
  BY <1>1, <1>3 DEF Resuming
<1>7. First(Resuming(g, e)) = x
  BY <1>4, <1>5, <1>6, FirstIsUnique
<1>8. Reopening(g, e) = Reopening(f, d)
  BY <1>1, <1>2, <1>7 DEF Reopening, x
<1>9. NoObservation(g, e) <=> NoObservation(f, d)
  BY <1>4, <1>7 DEF NoObservation, x
<1>10. Resolution(g, e) = Resolution(f, d)
  BY <1>8, <1>9 DEF Resolution
<1>. QED
  BY <1>7, <1>10 DEF x

\* When the holding time is over, nothing can be managed any more.
LEMMA GrowsOver ==
  ASSUME NEW f, NEW g, NEW n, Grows(f, g, n), limit <= n, NEW d, NEW e, e.minutes = d.minutes
  PROVE  /\ Resolution(g, e) = Resolution(f, d)
         /\ Resolution(f, d) # Unresolved => First(Resuming(g, e)) = First(Resuming(f, d))
<1>1. CASE Resuming(f, d) # {}
  BY <1>1, GrowsResuming
<1>2. CASE Resuming(f, d) = {}
  <2>1. n \in Nat /\ limit \in Nat
    BY Numbers DEF Grows, Begun
  <2>2. Resuming(g, e) \subseteq {n + 1}
    <3>1. ASSUME NEW y \in Resuming(g, e) PROVE y = n + 1
      <4>1. y \in Have(g) /\ \A u \in d.minutes : u < y
        BY DEF Resuming
      <4>2. y \notin Have(f)
        BY <1>2, <4>1 DEF Resuming
      <4>. QED
        BY <4>1, <4>2, GrowsSets
    <3>. QED
      BY <3>1
  <2>3. NoObservation(g, e)
    <3>1. CASE Resuming(g, e) = {}
      BY <3>1 DEF NoObservation
    <3>2. CASE Resuming(g, e) # {}
      <4>1. Resuming(g, e) \in SUBSET Nat
        BY <2>1, <2>2
      <4>2. First(Resuming(g, e)) \in Resuming(g, e)
        BY <3>2, <4>1, FirstIsLeast
      <4>3. First(Resuming(g, e)) = n + 1
        BY <2>2, <4>2
      <4>. QED
        BY <2>1, <4>3 DEF NoObservation
    <3>. QED
      BY <3>1, <3>2
  <2>4. NoObservation(f, d)
    BY <1>2 DEF NoObservation
  <2>. QED
    BY <2>3, <2>4, Resolutions
<1>. QED
  BY <1>1, <1>2

\* A candle that opens beyond a level has hit it.
LEMMA OpenBeyondHits ==
  ASSUME NEW b, b.l \in Int, b.o \in Int, b.h \in Int, b.l <= b.o, b.o <= b.h
  PROVE  /\ Target(b.o) => HitsTarget(b)
         /\ Stop(b.o) => HitsStop(b)
BY DEF Target, Stop, HitsTarget, HitsStop, Gain

\* The candle an inferred exit is stamped with hits a level, and no candle before.
LEMMA InferredHits ==
  ASSUME TradeOK, Begun(frame, now), NEW x \in Have(frame), NEW end \in Deciding(frame),
         x = First(Resuming(frame, end)), Resolution(frame, end) \in {"TP_INFERRED", "SL_INFERRED"}
  PROVE  x \in Hitting(frame) /\ Observed(frame).exit = x
<1>1. x \in 1 .. now /\ frame[x] # None /\ frame[x] \in scenario.bars[x] /\ x \in 1 .. scenario.horizon
  <2>1. x \in 1 .. now /\ frame[x] # None
    BY DEF Have, Begun
  <2>2. now \in Nat /\ scenario.horizon \in Nat /\ now <= scenario.horizon
    BY ScenarioAssumptions DEF TradeOK, FrameOK
  <2>. QED
    BY <2>1, <2>2 DEF TradeOK, Sent
<1>2. PICK b : b = frame[x]
  OBVIOUS
<1>3. b.l \in Int /\ b.o \in Int /\ b.h \in Int /\ b.l <= b.o /\ b.o <= b.h
  BY <1>1, <1>2, CandleAssumptions DEF TradeOK, FrameOK
<1>4. Target(b.o) \/ Stop(b.o)
  BY <1>2, Resolutions DEF Reopening
<1>5. HitsStop(b) \/ HitsTarget(b)
  BY <1>3, <1>4, OpenBeyondHits
<1>6. /\ x \in Nat /\ entry < x /\ x <= limit
      /\ Hitting(frame) # {} => x <= Observed(frame).exit
  BY InferredExit DEF Unresolved
<1>7. x \in Hitting(frame)
  <2>1. entry <= x
    BY <1>6, Numbers DEF Begun
  <2>. QED
    BY <1>2, <1>5, <1>6, <2>1 DEF Hitting, Holding
<1>8. Observed(frame).exit <= x /\ Observed(frame).exit \in Nat /\ x <= Observed(frame).exit
  BY <1>6, <1>7, ObservedExit, FrameSets
<1>. QED
  BY <1>6, <1>7, <1>8

\* Once a candle has hit, or the holding time is over, a new minute matters to
\* neither simulator.
LEMMA GrowsAlike ==
  ASSUME NEW f, NEW g, NEW n, Grows(f, g, n), Hitting(f) # {} \/ limit <= n
  PROVE  Alike(f, g)
<1>0. /\ Begun(f, n) /\ Begun(g, n + 1) /\ n \in Nat
      /\ entry \in Nat /\ limit \in Nat /\ entry <= limit
      /\ scenario.context \in Nat /\ entry <= n
      /\ Have(f) \subseteq Nat /\ Have(f) \subseteq 1 .. n
      /\ \A t \in 1 .. n : g[t] = f[t]
      /\ Have(f) \subseteq Have(g) /\ Have(g) \subseteq Have(f) \cup {n + 1}
  <2>1. Begun(f, n) /\ scenario \in Scenarios /\ n \in Nat /\ \A t \in 1 .. n : g[t] = f[t]
    BY DEF Grows, Begun
  <2>2. /\ entry \in Nat /\ limit \in Nat /\ entry <= limit /\ scenario.context \in Nat
    BY <2>1, Numbers
  <2>3. entry \in Have(f) /\ Have(f) \subseteq 1 .. n
    BY <2>1, FrameSets DEF Begun
  <2>4. /\ Begun(g, n + 1) /\ Have(f) \subseteq Have(g)
        /\ Have(g) \subseteq Have(f) \cup {n + 1}
    BY GrowsSets
  <2>. QED
    BY <2>1, <2>2, <2>3, <2>4
<1>1. Observed(g) = Observed(f)
  <2>1. CASE Hitting(f) # {}
    <3>1. PICK x : x = First(Hitting(f))
      OBVIOUS
    <3>2. x \in Hitting(f) /\ \A u \in Hitting(f) : x <= u
      BY <1>0, <2>1, <3>1, FirstIsLeast, FrameSets
    <3>3. x \in Have(f) /\ x \in 1 .. n /\ entry <= x /\ x <= limit /\ g[x] = f[x]
      BY <1>0, <3>2, FrameSets
    <3>4. x \in Hitting(g)
      BY <1>0, <3>2, <3>3 DEF Hitting, Holding
    <3>5. ASSUME NEW u \in Hitting(g) PROVE x <= u
      <4>1. CASE u \in Have(f)
        <5>1. u \in Hitting(f)
          BY <1>0, <4>1 DEF Hitting, Holding
        <5>. QED
          BY <3>2, <5>1
      <4>2. CASE u = n + 1
        BY <1>0, <3>3, <4>2
      <4>. QED
        BY <1>0, <4>1, <4>2 DEF Hitting, Holding
    <3>6. Hitting(g) \in SUBSET Nat
      BY <1>0, FrameSets
    <3>7. First(Hitting(g)) = x
      BY <3>4, <3>5, <3>6, FirstIsUnique
    <3>. QED
      BY <2>1, <3>1, <3>3, <3>4, <3>7 DEF Observed
  <2>2. CASE limit <= n
    <3>1. Holding(g) = Holding(f)
      BY <1>0, <2>2 DEF Holding
    <3>2. Hitting(g) = Hitting(f) /\ \A t \in Holding(f) : g[t] = f[t]
      BY <1>0, <3>1 DEF Hitting, Holding
    <3>3. Hitting(f) # {} => First(Hitting(f)) \in Holding(f)
      BY <1>0, FirstIsLeast, FrameSets
    <3>. QED
      BY <3>1, <3>2, <3>3 DEF Observed
  <2>. QED
    BY <2>1, <2>2
<1>2. Cutoff(g) = Cutoff(f) /\ Cutoff(f) \in Nat /\ Cutoff(f) <= n + 1
  <2>1. Cutoff(g) = Cutoff(f)
    BY <1>1 DEF Cutoff
  <2>2. CASE Hitting(f) # {}
    <3>1. Observed(f).exit \in 1 .. n
      BY <1>0, ObservedExit, FrameSets
    <3>. QED
      BY <1>0, <2>1, <2>2, <3>1, ObservedExit
  <2>3. CASE limit <= n
    BY <1>0, <2>1, <2>3, ObservedExit
  <2>. QED
    BY <2>2, <2>3
<1>3. Uncovered(g) = Uncovered(f)
  BY <1>0, <1>2, GrowsSets DEF Uncovered
<1>4. Cut(Missing(g), scenario.context, entry) = Cut(Missing(f), scenario.context, entry)
  <2>1. entry <= n + 1
    BY <1>0
  <2>. QED
    BY <1>0, <2>1, GrowsSets
<1>5. ASSUME NEW d \in Managed(f), NEW e \in Managed(g), e.minutes = d.minutes
      PROVE  /\ Resolution(g, e) = Resolution(f, d)
             /\ Resolution(f, d) # Unresolved => First(Resuming(g, e)) = First(Resuming(f, d))
  <2>1. CASE Hitting(f) # {}
    <3>1. Resuming(f, d) # {}
      BY <1>0, <2>1, HitAfterGap DEF NoObservation
    <3>. QED
      BY <1>5, <3>1, GrowsResuming
  <2>2. CASE limit <= n
    BY <1>5, <2>2, GrowsOver
  <2>. QED
    BY <2>1, <2>2
<1>. QED
  BY <1>1, <1>3, <1>4, <1>5 DEF Alike

\* The end of a trade does not depend on how long after it the frame goes on:
\* what a shorter run decided, a longer one decides alike.
THEOREM EndsAreFinalHolds == Spec => EndsAreFinal
<1>. DEFINE Final ==
       Entered /\ (Trace(frame).outcome \in {"WIN", "LOSS"} \/ now >= limit) =>
         /\ Result(Trace(frame)) = Result(Trace(frame'))
         /\ Reported(Trace(frame).events) = Reported(Trace(frame').events)
         /\ Trace(frame).status = Trace(frame').status
<1>1. ASSUME TradeOK, [Next]_vars PROVE [Final]_vars
  <2>1. CASE UNCHANGED vars
    BY <2>1
  <2>2. ASSUME Minute, Entered, Trace(frame).outcome \in {"WIN", "LOSS"} \/ now >= limit,
               NEW g, g = frame'
        PROVE  /\ Result(Trace(frame)) = Result(Trace(g))
               /\ Reported(Trace(frame).events) = Reported(Trace(g).events)
               /\ Trace(frame).status = Trace(g).status
    <3>1. Begun(frame, now)
      BY <1>1, <2>2, EnteredBegun
    <3>2. Grows(frame, g, now)
      <4>1. PICK b : g = [t \in 1 .. (now + 1) |-> IF t <= now THEN frame[t] ELSE b]
        BY <2>2 DEF Minute
      <4>. QED
        BY <3>1, <4>1 DEF Grows, Begun
    <3>3. now \in Nat /\ limit \in Nat
      BY <3>1, Numbers DEF Begun
    <3>4. Hitting(frame) # {} \/ limit <= now
      <4>. SUFFICES ASSUME Trace(frame).outcome \in {"WIN", "LOSS"} PROVE Hitting(frame) # {}
        BY <2>2, <3>3
      <4>1. ~Unknown(frame)
        BY DEF Unknown, Undecided, Trade
      <4>2. ASSUME NEW x \in Have(frame), Inferred(frame, x) PROVE Hitting(frame) # {}
        BY <1>1, <3>1, <4>2, InferredHits DEF Inferred
      <4>3. CASE AsObserved(frame)
        <5>1. Trace(frame).outcome = Observed(frame).outcome
          BY <4>3 DEF AsObserved, Trade
        <5>. QED
          BY <3>1, <5>1, ObservedExit
      <4>. QED
        BY <3>1, <4>1, <4>2, <4>3, TraceCases
    <3>5. Alike(frame, g) /\ Begun(g, now + 1)
      BY <3>2, <3>4, GrowsAlike, GrowsSets
    <3>6. Result(Trace(g)) = Result(Trace(frame)) /\ Trace(g).status = Trace(frame).status
      BY <3>1, <3>5, AlikeEnds
    <3>7. Until(Trace(g)) = Until(Trace(frame))
      BY <3>6 DEF Result, Until
    <3>8. PICK bound : bound = Until(Trace(frame))
      OBVIOUS
    <3>9. bound \in Nat /\ bound <= now
      <4>1. CASE Trace(frame).outcome \in {"WIN", "LOSS"}
        <5>1. Trace(frame).exit \in 1 .. now
          BY <3>1, <4>1, TraceEnds, FrameSets
        <5>. QED
          BY <3>3, <3>8, <4>1, <5>1 DEF Until
      <4>2. CASE Trace(frame).outcome \notin {"WIN", "LOSS"}
        <5>1. Trace(frame).outcome \in {"INDETERMINATE", "TIMEOUT"}
          BY <3>1, <4>2, TraceEnds
        <5>. QED
          BY <2>2, <3>3, <3>8, <4>2, <5>1 DEF Until
      <4>. QED
        BY <4>1, <4>2
    <3>10. /\ Reported(Trace(frame).events) =
                {t \in Missing(frame) : scenario.context <= t /\ t <= bound}
           /\ Reported(Trace(g).events) =
                {t \in Missing(g) : scenario.context <= t /\ t <= bound}
      BY <3>1, <3>5, <3>7, <3>8, Accounted
    <3>11. {t \in Missing(frame) : scenario.context <= t /\ t <= bound} =
             {t \in Missing(g) : scenario.context <= t /\ t <= bound}
      <4>1. Missing(frame) \subseteq 1 .. now /\ Missing(g) \subseteq 1 .. (now + 1)
        BY <3>1, <3>5, FrameSets
      <4>2. \A t \in 1 .. now : t \in Missing(g) <=> t \in Missing(frame)
        BY <3>2, GrowsSets
      <4>. QED
        BY <3>3, <3>9, <4>1, <4>2
    <3>. QED
      BY <3>6, <3>10, <3>11
  <2>. QED
    BY <1>1, <2>1, <2>2 DEF Next
<1>. QED
  BY <1>1, TradeAlways, PTL DEF Spec, EndsAreFinal

-----------------------------------------------------------------------------
(* What the missing candles could have been.                                *)

LEMMA Fillings ==
  ASSUME scenario \in Scenarios
  PROVE  /\ \E b \in scenario.fill : ~HitsTarget(b) /\ ~HitsStop(b)
         /\ \E b \in scenario.fill : HitsTarget(b) /\ Closes(b) = "WIN"
         /\ \E b \in scenario.fill : HitsStop(b) /\ Closes(b) = "LOSS"
<1>1. PICK q \in scenario.fill : q.l = 0 /\ q.h = 0
  BY CandleAssumptions
<1>2. PICK up \in scenario.fill : up.l = 0 /\ up.h = 1
  BY CandleAssumptions
<1>3. PICK down \in scenario.fill : down.l = -1 /\ down.h = 0
  BY CandleAssumptions
<1>4. ~HitsTarget(q) /\ ~HitsStop(q)
  BY <1>1 DEF HitsTarget, HitsStop, Target, Stop, Gain
<1>5. CASE scenario.direction = "long"
  <2>1. HitsTarget(up) /\ ~HitsStop(up) /\ HitsStop(down) /\ ~HitsTarget(down)
    BY <1>2, <1>3, <1>5 DEF HitsTarget, HitsStop, Target, Stop, Gain
  <2>2. Closes(up) = "WIN" /\ Closes(down) = "LOSS"
    BY <2>1 DEF Closes
  <2>. QED
    BY <1>4, <2>1, <2>2
<1>6. CASE scenario.direction # "long"
  <2>1. HitsTarget(down) /\ ~HitsStop(down) /\ HitsStop(up) /\ ~HitsTarget(up)
    BY <1>2, <1>3, <1>6 DEF HitsTarget, HitsStop, Target, Stop, Gain
  <2>2. Closes(down) = "WIN" /\ Closes(up) = "LOSS"
    BY <2>1 DEF Closes
  <2>. QED
    BY <1>4, <2>1, <2>2
<1>. QED
  BY <1>5, <1>6

\* The missing minutes filled with candles that hit nothing, but for one.
Filled(m, b, q) ==
  [t \in 1 .. now |-> IF t \in Missed THEN IF t = m THEN b ELSE q ELSE frame[t]]

LEMMA FilledIsCompletion ==
  ASSUME NEW m, NEW b \in scenario.fill, NEW q \in scenario.fill
  PROVE  Filled(m, b, q) \in Completions
<1>. DEFINE c == [t \in Missed |-> IF t = m THEN b ELSE q]
<1>1. c \in [Missed -> scenario.fill]
  OBVIOUS
<1>2. Filled(m, b, q) = [t \in 1 .. now |-> IF t \in Missed THEN c[t] ELSE frame[t]]
  BY DEF Filled
<1>. QED
  BY <1>1, <1>2 DEF Completions

\* The minute of that one candle, if it ends the trade.
FilledHits(m, b) ==
  {t \in Cut(Missed, entry, limit + 1) : t = m /\ (HitsTarget(b) \/ HitsStop(b))}

\* What the filled frame f differs in.
FillsOut(f, m, b) ==
  /\ Holding(f) = Holding(frame) \cup Cut(Missed, entry, limit + 1)
  /\ \A t \in Have(frame) : f[t] = frame[t]
  /\ \A t \in Missed : t = m => f[t] = b
  /\ Hitting(f) = Hitting(frame) \cup FilledHits(m, b)

LEMMA FilledSets ==
  ASSUME Begun(frame, now), NEW m, NEW b \in scenario.fill, NEW q \in scenario.fill,
         ~HitsTarget(q), ~HitsStop(q)
  PROVE  FillsOut(Filled(m, b, q), m, b)
<1>. PICK f : f = Filled(m, b, q)
  OBVIOUS
<1>0. /\ Missing(frame) = Missed /\ DOMAIN frame = 1 .. now
      /\ scenario \in Scenarios
  BY DEF Begun, Missing, Missed
<1>1. /\ Missed \subseteq 1 .. now /\ Have(frame) \subseteq 1 .. now
      /\ Have(frame) \cap Missed = {} /\ limit \in Nat
      /\ \A t \in Missed : t \in Nat
  BY <1>0, FrameSets, Numbers
<1>2. None \notin scenario.fill
  BY <1>0, ScenarioAssumptions
<1>3. /\ DOMAIN f = 1 .. now
      /\ \A t \in 1 .. now : f[t] = IF t \in Missed THEN IF t = m THEN b ELSE q ELSE frame[t]
  BY DEF Filled
<1>4. Have(f) = Have(frame) \cup Missed
  BY <1>0, <1>1, <1>2, <1>3 DEF Have
<1>5. \A t \in Missed : t < limit + 1 <=> t <= limit
  BY <1>1
<1>6. Holding(f) = Holding(frame) \cup Cut(Missed, entry, limit + 1)
  BY <1>4, <1>5 DEF Holding, Cut
<1>7. \A t \in Have(frame) : f[t] = frame[t]
  BY <1>1, <1>3
<1>8. \A t \in Missed : f[t] = IF t = m THEN b ELSE q
  BY <1>1, <1>3
<1>9. \A t \in Holding(frame) : t \in Have(frame)
  BY DEF Holding
<1>10. \A t \in Cut(Missed, entry, limit + 1) : t \in Missed
  BY DEF Cut
<1>11. ASSUME NEW t
       PROVE  t \in Hitting(f) <=>
                \/ t \in Hitting(frame)
                \/ t \in Cut(Missed, entry, limit + 1) /\ t = m /\ (HitsTarget(b) \/ HitsStop(b))
  <2>1. t \in Hitting(f) <=> t \in Holding(f) /\ (HitsStop(f[t]) \/ HitsTarget(f[t]))
    BY DEF Hitting
  <2>2. t \in Hitting(frame) <=> t \in Holding(frame) /\ (HitsStop(frame[t]) \/ HitsTarget(frame[t]))
    BY DEF Hitting
  <2>3. CASE t \in Holding(frame)
    <3>1. f[t] = frame[t] /\ t \notin Missed
      BY <1>1, <1>7, <1>9, <2>3
    <3>. QED
      BY <1>6, <1>10, <2>1, <2>2, <2>3, <3>1
  <2>4. CASE t \notin Holding(frame) /\ t \in Cut(Missed, entry, limit + 1)
    <3>1. f[t] = IF t = m THEN b ELSE q
      BY <1>8, <1>10, <2>4
    <3>2. CASE t = m
      BY <1>6, <2>1, <2>2, <2>4, <3>1, <3>2
    <3>3. CASE t # m
      BY <1>6, <2>1, <2>2, <2>4, <3>1, <3>3
    <3>. QED
      BY <3>2, <3>3
  <2>5. CASE t \notin Holding(frame) /\ t \notin Cut(Missed, entry, limit + 1)
    BY <1>6, <2>1, <2>2, <2>5
  <2>. QED
    BY <2>3, <2>4, <2>5
<1>12. Hitting(f) = Hitting(frame) \cup FilledHits(m, b)
  BY <1>11 DEF FilledHits
<1>. QED
  BY <1>6, <1>7, <1>8, <1>12 DEF FillsOut

\* One candle before all others could have ended the trade.
LEMMA OneCandleEnds ==
  ASSUME Begun(frame, now), NEW m \in Missed, entry <= m, m <= limit,
         \A u \in Hitting(frame) : m <= u,
         NEW b \in scenario.fill, HitsTarget(b) \/ HitsStop(b)
  PROVE  \E f \in Completions : Observed(f).outcome = Closes(b) /\ Observed(f).exit = m
<1>1. PICK q \in scenario.fill : ~HitsTarget(q) /\ ~HitsStop(q)
  BY Fillings DEF Begun
<1>2. PICK f : f = Filled(m, b, q)
  OBVIOUS
<1>3. /\ Missing(frame) = Missed /\ Missed \in SUBSET Nat /\ limit \in Nat
      /\ Hitting(frame) \in SUBSET Nat
  <2>1. Missing(frame) = Missed
    BY DEF Begun, Missing, Missed
  <2>. QED
    BY <2>1, FrameSets, Numbers DEF Begun
<1>4. m \in Cut(Missed, entry, limit + 1)
  BY <1>3 DEF Cut
<1>5. f[m] = b /\ Hitting(f) = Hitting(frame) \cup FilledHits(m, b)
  <2>1. FillsOut(f, m, b)
    BY <1>1, <1>2, FilledSets
  <2>. QED
    BY <2>1 DEF FillsOut
<1>6. Hitting(f) = Hitting(frame) \cup {m}
  BY <1>4, <1>5 DEF FilledHits
<1>7. First(Hitting(f)) = m
  <2>1. Hitting(f) \in SUBSET Nat /\ m \in Hitting(f)
    BY <1>3, <1>6
  <2>2. \A u \in Hitting(f) : m <= u
    BY <1>3, <1>6
  <2>. QED
    BY <2>1, <2>2, FirstIsUnique
<1>8. Observed(f).outcome = Closes(b) /\ Observed(f).exit = m
  BY <1>5, <1>6, <1>7 DEF Observed
<1>. QED
  BY <1>1, <1>2, <1>8, FilledIsCompletion

\* Nothing need have happened in the gaps: the trade then ends as it was seen to,
\* at its last candle when nothing was hit and a candle follows every gap.
LEMMA NothingHappened ==
  ASSUME Begun(frame, now), Hitting(frame) # {} \/ Deciding(frame) = {}
  PROVE  \E f \in Completions : Observed(f) = Observed(frame)
<1>1. PICK q \in scenario.fill : ~HitsTarget(q) /\ ~HitsStop(q)
  BY Fillings DEF Begun
<1>2. PICK f : f = Filled(None, q, q)
  OBVIOUS
<1>3. /\ Missing(frame) = Missed /\ Missed \in SUBSET Nat /\ limit \in Nat
      /\ entry \in Nat /\ now \in Nat /\ Missed \subseteq 1 .. now
      /\ Hitting(frame) \in SUBSET Nat /\ Hitting(frame) \subseteq Have(frame)
      /\ Holding(frame) \subseteq Have(frame) /\ Have(frame) \subseteq 1 .. now
      /\ Holding(frame) = {t \in Have(frame) : entry <= t /\ t <= limit}
  <2>1. Missing(frame) = Missed
    BY DEF Begun, Missing, Missed
  <2>. QED
    BY <2>1, FrameSets, Numbers DEF Begun
<1>4. /\ Holding(f) = Holding(frame) \cup Cut(Missed, entry, limit + 1)
      /\ \A t \in Have(frame) : f[t] = frame[t]
      /\ Hitting(f) = Hitting(frame)
  <2>1. FillsOut(f, None, q)
    BY <1>1, <1>2, FilledSets
  <2>2. FilledHits(None, q) = {}
    BY <1>1 DEF FilledHits
  <2>. QED
    BY <2>1, <2>2 DEF FillsOut
<1>5. CASE Hitting(frame) # {}
  <2>1. First(Hitting(frame)) \in Have(frame)
    BY <1>3, <1>5, FirstIsLeast
  <2>2. Observed(f) = Observed(frame)
    BY <1>4, <1>5, <2>1 DEF Observed
  <2>. QED
    BY <1>1, <1>2, <2>2, FilledIsCompletion
<1>6. CASE Hitting(frame) = {} /\ Deciding(frame) = {}
  <2>1. PICK x : x = Observed(frame).exit
    OBVIOUS
  <2>2. /\ x \in Holding(frame) /\ x \in Nat /\ Cutoff(frame) = limit + 1
        /\ \A u \in Holding(frame) : u <= x
    BY <1>3, <1>6, <2>1, ObservedExit
  <2>3. ASSUME NEW t \in Cut(Missed, entry, limit + 1) PROVE t <= x
    <3>1. t \in Uncovered(frame)
      BY <1>3, <2>2 DEF Uncovered
    <3>2. PICK e \in Managed(frame) : t \in e.minutes
      BY <3>1, ManagedEvents
    <3>3. Resolution(frame, e) = Assumed
      BY <1>6, FirstDecides
    <3>4. ~NoObservation(frame, e)
      BY <3>3, Resolutions DEF Assumed, Unresolved
    <3>5. PICK y : y = First(Resuming(frame, e))
      OBVIOUS
    <3>6. y \in Have(frame) /\ y \in Nat /\ t < y /\ ~(y > limit)
      BY <3>2, <3>4, <3>5, ResumingFirst DEF NoObservation
    <3>7. t \in Nat /\ entry <= t
      BY <1>3 DEF Cut
    <3>8. y \in Holding(frame)
      BY <1>3, <3>6, <3>7
    <3>. QED
      BY <2>2, <3>6, <3>7, <3>8
  <2>4. Last(Holding(f)) = x
    <3>1. Holding(f) \in SUBSET (1 .. now)
      BY <1>3, <1>4 DEF Cut
    <3>2. x \in Holding(f) /\ \A u \in Holding(f) : u <= x
      BY <1>4, <2>2, <2>3
    <3>. QED
      BY <1>3, <3>1, <3>2, LastIsUnique
  <2>5. Last(Holding(frame)) = x
    <3>1. Holding(frame) \in SUBSET (1 .. now)
      BY <1>3
    <3>. QED
      BY <1>3, <2>2, <3>1, LastIsUnique
  <2>6. Observed(f) = Observed(frame)
    BY <1>4, <1>6, <2>2, <2>4, <2>5 DEF Observed
  <2>. QED
    BY <1>1, <1>2, <2>6, FilledIsCompletion
<1>. QED
  BY <1>5, <1>6

\* The conventions of gap_execution.py for gaps never claim what the missing
\* candles would contradict, for every frame, calendar, direction and policy.
THEOREM EndsArePossibleHolds == Spec => []EndsArePossible
<1>1. ASSUME TradeOK PROVE EndsArePossible
  <2>. SUFFICES ASSUME Entered, Trace(frame).source # "OBSERVED" PROVE EndsArePossible
    BY DEF EndsArePossible
  <2>. DEFINE r == Trace(frame)
              possible == {Observed(f) : f \in Completions}
  <2>1. Begun(frame, now) /\ Missing(frame) = Missed
    <3>1. Begun(frame, now)
      BY <1>1, EnteredBegun
    <3>. QED
      BY <3>1 DEF Begun, Missing, Missed
  <2>2. /\ scenario \in Scenarios /\ entry \in Nat /\ limit \in Nat /\ Cutoff(frame) \in Nat
        /\ Cutoff(frame) <= limit + 1
    BY <2>1, Numbers, ObservedExit DEF Begun
  <2>3. ASSUME NEW e \in Managed(frame)
        PROVE  \E m \in e.minutes : m \in Missed /\ entry <= m /\ m <= limit
    <3>1. PICK m \in e.minutes : m \in Uncovered(frame) /\ m \in Nat
      BY <2>1, ManagedEvents
    <3>2. m \in Missed /\ entry <= m /\ m < Cutoff(frame)
      BY <2>1, <3>1 DEF Uncovered, Cut
    <3>. QED
      BY <2>2, <3>1, <3>2
  <2>4. CASE Unknown(frame)
    <3>1. Hitting(frame) = {} /\ r.source = "INDETERMINATE"
      <4>1. Hitting(frame) = {} /\ r = Undecided(frame, Resolved(frame, Managed(frame)))
        BY <2>1, <2>4, UnknownUnhit
      <4>2. \A events : Undecided(frame, events).source = "INDETERMINATE"
        BY DEF Undecided, Trade
      <4>. QED
        BY <4>1, <4>2
    <3>2. PICK m \in Missed : entry <= m /\ m <= limit
      BY <2>1, <2>3, <2>4, UnknownUnhit
    <3>3. \E o \in possible : o.outcome = "WIN"
      <4>1. PICK b \in scenario.fill : HitsTarget(b) /\ Closes(b) = "WIN"
        BY <2>2, Fillings
      <4>2. PICK f \in Completions : Observed(f).outcome = "WIN"
        BY <2>1, <3>1, <3>2, <4>1, OneCandleEnds
      <4>. QED
        BY <4>2
    <3>4. \E o \in possible : o.outcome = "LOSS"
      <4>1. PICK b \in scenario.fill : HitsStop(b) /\ Closes(b) = "LOSS"
        BY <2>2, Fillings
      <4>2. PICK f \in Completions : Observed(f).outcome = "LOSS"
        BY <2>1, <3>1, <3>2, <4>1, OneCandleEnds
      <4>. QED
        BY <4>2
    <3>5. {"WIN", "LOSS"} \subseteq {o.outcome : o \in possible}
      BY <3>3, <3>4
    <3>. QED
      BY <3>1, <3>5 DEF EndsArePossible
  <2>5. ASSUME NEW x \in Have(frame), Inferred(frame, x) PROVE EndsArePossible
    <3>1. PICK end \in Deciding(frame) :
            /\ x = First(Resuming(frame, end))
            /\ Resolution(frame, end) \in {"TP_INFERRED", "SL_INFERRED"}
            /\ r.exit = x /\ r.source \in {"GAP_INFERRED_TP", "GAP_INFERRED_SL"}
            /\ r.outcome \in {"WIN", "LOSS"}
      BY <2>5 DEF Inferred, Trade
    <3>2. x \in Hitting(frame) /\ Observed(frame).exit = x
      BY <1>1, <2>1, <3>1, InferredHits
    <3>3. end \in Managed(frame) /\ x \in Nat /\ \A u \in end.minutes : u < x
      BY <2>1, <3>1, InferredExit DEF Unresolved
    <3>4. PICK m \in end.minutes : m \in Missed /\ entry <= m /\ m <= limit /\ m < x
      BY <2>3, <3>3
    <3>5. m \in Nat /\ \A u \in Hitting(frame) : x <= u /\ u \in Nat
      BY <2>1, <3>2, <3>4, ObservedExit, FrameSets
    <3>6. \A u \in Hitting(frame) : m <= u
      BY <3>3, <3>4, <3>5
    <3>7. PICK b \in scenario.fill : (HitsTarget(b) \/ HitsStop(b)) /\ Closes(b) = r.outcome
      BY <2>2, <3>1, Fillings
    <3>8. PICK f \in Completions : Observed(f).outcome = r.outcome /\ Observed(f).exit = m
      BY <2>1, <3>4, <3>6, <3>7, OneCandleEnds
    <3>9. m <= x
      BY <3>3, <3>4, <3>5
    <3>10. \E o \in possible : o.outcome = r.outcome /\ o.exit <= r.exit
      BY <3>1, <3>8, <3>9
    <3>11. \E o \in possible : o.exit = r.exit
      BY <2>1, <3>1, <3>2, NothingHappened
    <3>. QED
      BY <3>1, <3>10, <3>11 DEF EndsArePossible
  <2>6. CASE AsObserved(frame)
    <3>1. r.outcome = Observed(frame).outcome /\ r.exit = Observed(frame).exit
          /\ r.source \in {"OBSERVED", "GAP_ASSUMED_NO_EXIT"}
      BY <2>6 DEF AsObserved, Trade
    <3>2. Result(r) = Observed(frame)
      BY <3>1 DEF Result, Observed
    <3>3. Result(r) \in possible
      BY <2>1, <2>6, <3>2, NothingHappened DEF AsObserved
    <3>. QED
      BY <3>1, <3>3 DEF EndsArePossible
  <2>. QED
    BY <2>1, <2>4, <2>5, <2>6, TraceCases
<1>. QED
  BY <1>1, TradeAlways, PTL
=============================================================================
