------------------------- MODULE SetupQualityProofs -------------------------
(***************************************************************************)
(* Theorems about SetupQuality: first what the catalogue reports of a set  *)
(* of windows, then that reports are final, then that a COMPLETE verdict   *)
(* is the verdict of every market the missing minutes may have had.        *)
(***************************************************************************)
EXTENDS SetupQuality, SetupCausalityProofs

-----------------------------------------------------------------------------
(* What the catalogue reports.                                              *)

Covered(W, t) == \E w \in W : w.from <= t /\ t < w.to

\* Windows between minutes.
Between(W) == \A w \in W : w.from \in Int /\ w.to \in Int

\* The events of a window and those of all of them, before they are merged.
Cut(S, w) == Select(GapsOf(S), w.from, w.to, {w.part})
Events(S, W) == UNION {Cut(S, w) : w \in W}

\* A minute is touched when it is a missing one in some window.
LEMMA EventsIs ==
  ASSUME NEW S \in SUBSET Int, NEW W, Between(W), NEW g, NEW t
  PROVE  (\E e \in Events(S, W) : e.gap = g /\ t \in e.minutes) <=>
           g \in GapsOf(S) /\ t \in g /\ Covered(W, t)
<1>1. \A c \in S : Touching(S, c) \subseteq Int
  BY DEF Touching
<1>2. \A h \in GapsOf(S) : h \subseteq Int
  BY <1>1 DEF GapsOf
<1>. DEFINE event(h, w) == [gap |-> h, minutes |-> h \cap (w.from .. (w.to - 1)),
                            parts |-> {w.part}, resolution |-> NoResolution]
<1>3. ASSUME NEW w \in W, NEW e
      PROVE  e \in Cut(S, w) <=> e.minutes # {} /\ \E h \in GapsOf(S) : e = event(h, w)
  BY DEF Cut, Select
<1>4. ASSUME NEW e \in Events(S, W), e.gap = g, t \in e.minutes
      PROVE  g \in GapsOf(S) /\ t \in g /\ Covered(W, t)
  <2>1. PICK w \in W : e \in Cut(S, w)
    BY <1>4 DEF Events
  <2>2. PICK h \in GapsOf(S) : e = event(h, w)
    BY <2>1, <1>3
  <2>3. h = g /\ t \in g /\ t \in w.from .. (w.to - 1)
    BY <1>4, <2>2
  <2>4. w.from <= t /\ t < w.to
    BY <2>3 DEF Between
  <2>. QED
    BY <2>2, <2>3, <2>4 DEF Covered
<1>5. ASSUME g \in GapsOf(S), t \in g, Covered(W, t)
      PROVE  \E e \in Events(S, W) : e.gap = g /\ t \in e.minutes
  <2>1. PICK w \in W : w.from <= t /\ t < w.to
    BY <1>5 DEF Covered
  <2>2. t \in Int /\ w.from \in Int /\ w.to \in Int
    BY <1>2, <1>5 DEF Between
  <2>3. t \in w.from .. (w.to - 1)
    BY <2>1, <2>2
  <2>4. event(g, w).gap = g /\ t \in event(g, w).minutes
    BY <1>5, <2>3
  <2>5. event(g, w) \in Cut(S, w)
    BY <1>3, <1>5, <2>4
  <2>. QED
    BY <2>4, <2>5 DEF Events
<1>. QED
  BY <1>4, <1>5

\* A gap has every minute between two of its own.
LEMMA GapsAre ==
  ASSUME NEW S \in SUBSET Int, NEW a \in Int, NEW b \in Int, a <= b
  PROVE  (\E g \in GapsOf(S) : a \in g /\ b \in g) <=> a .. b \subseteq S
<1>1. ASSUME NEW g \in GapsOf(S), a \in g, b \in g, NEW t \in a .. b PROVE t \in S
  <2>1. PICK c \in S : g = Touching(S, c)
    BY <1>1 DEF GapsOf
  <2>2. c \in Int /\ t \in Int /\ (a .. c) \subseteq S /\ (c .. b) \subseteq S
    BY <1>1, <2>1 DEF Touching
  <2>3. t \in a .. c \/ t \in c .. b
    BY <1>1, <2>2
  <2>. QED
    BY <2>2, <2>3
<1>2. ASSUME a .. b \subseteq S PROVE \E g \in GapsOf(S) : a \in g /\ b \in g
  <2>1. a \in a .. b /\ b \in a .. b /\ (a .. a) \subseteq a .. b /\ (b .. a) \subseteq a .. b
    OBVIOUS
  <2>2. a \in Touching(S, a) /\ b \in Touching(S, a)
    BY <1>2, <2>1 DEF Touching
  <2>. QED
    BY <1>2, <2>1, <2>2 DEF GapsOf
<1>. QED
  BY <1>1, <1>2

\* What merging reports of the gaps of a set of events.
Touched(E, g) == UNION {e.minutes : e \in {e \in E : e.gap = g}}
Wide(E, g) == {u \in g : \E a, b \in Touched(E, g) : a <= u /\ u <= b}

LEMMA MergeIs ==
  ASSUME NEW E
  PROVE  /\ Merge(E) = {} <=> E = {}
         /\ \A t : t \in Reported(Merge(E)) <=> \E g \in {e.gap : e \in E} : t \in Wide(E, g)
<1>. DEFINE same(g) == {e \in E : e.gap = g}
            said(g) == {e.resolution : e \in same(g)} \ {NoResolution}
            merged(g) == [gap |-> g, minutes |-> Wide(E, g),
                          parts |-> UNION {e.parts : e \in same(g)},
                          resolution |-> IF said(g) = {} THEN NoResolution
                                         ELSE CHOOSE r \in said(g) : TRUE]
<1>1. Merge(E) = {merged(g) : g \in {e.gap : e \in E}}
  BY DEF Merge, Wide, Touched
<1>2. \A g : merged(g).minutes = Wide(E, g)
  OBVIOUS
<1>. HIDE DEF merged
<1>. QED
  BY <1>1, <1>2 DEF Reported

\* The minutes reported of a set of windows: those of a missing stretch from one
\* minute of a window to another.
LEMMA ReportedIs ==
  ASSUME NEW S \in SUBSET Int, NEW W, Between(W), NEW t
  PROVE  t \in Reported(Merge(Events(S, W))) <=>
           /\ t \in Int
           /\ \E a, b \in Int : /\ a <= t /\ t <= b /\ a .. b \subseteq S
                                /\ Covered(W, a) /\ Covered(W, b)
<1>. DEFINE E == Events(S, W)
<1>1. \A g, u : u \in Touched(E, g) <=> g \in GapsOf(S) /\ u \in g /\ Covered(W, u)
  <2>1. \A g, u : u \in Touched(E, g) <=> \E e \in E : e.gap = g /\ u \in e.minutes
    BY DEF Touched
  <2>. QED
    BY <2>1, EventsIs
<1>2. t \in Reported(Merge(E)) <=> \E g \in {e.gap : e \in E} : t \in Wide(E, g)
  BY MergeIs
<1>. HIDE DEF E
<1>3. \A g \in GapsOf(S) : g \subseteq Int
  <2>1. \A c \in S : Touching(S, c) \subseteq Int
    BY DEF Touching
  <2>. QED
    BY <2>1 DEF GapsOf
<1>4. ASSUME NEW g \in {e.gap : e \in E}, t \in Wide(E, g)
      PROVE  /\ t \in Int
             /\ \E a, b \in Int : /\ a <= t /\ t <= b /\ a .. b \subseteq S
                                  /\ Covered(W, a) /\ Covered(W, b)
  <2>1. PICK a \in Touched(E, g), b \in Touched(E, g) : a <= t /\ t <= b
    BY <1>4 DEF Wide
  <2>2. g \in GapsOf(S) /\ a \in g /\ b \in g /\ Covered(W, a) /\ Covered(W, b)
    BY <2>1, <1>1
  <2>3. a \in Int /\ b \in Int /\ t \in Int
    BY <1>3, <1>4, <2>2 DEF Wide
  <2>4. a .. b \subseteq S
    BY <2>1, <2>2, <2>3, GapsAre
  <2>. QED
    BY <2>1, <2>2, <2>3, <2>4
<1>5. ASSUME t \in Int, NEW a \in Int, NEW b \in Int, a <= t, t <= b, a .. b \subseteq S,
             Covered(W, a), Covered(W, b)
      PROVE  \E g \in {e.gap : e \in E} : t \in Wide(E, g)
  <2>1. PICK g \in GapsOf(S) : a \in g /\ b \in g
    BY <1>5, GapsAre
  <2>2. a \in Touched(E, g) /\ b \in Touched(E, g)
    BY <1>1, <1>5, <2>1
  <2>3. g \in {e.gap : e \in E}
    BY <2>2 DEF Touched
  <2>4. t \in g
    <3>1. PICK c \in S : g = Touching(S, c)
      BY <2>1 DEF GapsOf
    <3>2. c \in Int /\ (a .. c) \cup (c .. a) \subseteq S /\ (b .. c) \cup (c .. b) \subseteq S
      BY <2>1, <3>1 DEF Touching
    <3>3. t \in S /\ (t .. c) \subseteq (a .. c) /\ (c .. t) \subseteq (c .. b)
      BY <1>5, <3>2
    <3>. QED
      BY <3>1, <3>2, <3>3 DEF Touching
  <2>. QED
    BY <1>5, <2>2, <2>3, <2>4 DEF Wide
<1>. QED
  BY <1>2, <1>4, <1>5 DEF E

\* Nothing is reported exactly when there is no event, that is when no minute of
\* a window is missing.
LEMMA NothingReported ==
  ASSUME NEW S \in SUBSET Int, NEW W, Between(W)
  PROVE  /\ Merge(Events(S, W)) = {} <=> \A t \in S : ~Covered(W, t)
         /\ Merge(Events(S, W)) = {} <=> Reported(Merge(Events(S, W))) = {}
<1>. DEFINE E == Events(S, W)
<1>1. Merge(E) = {} <=> E = {}
  BY MergeIs
<1>2. ASSUME NEW e \in E PROVE \E t \in S : Covered(W, t)
  <2>1. e.minutes # {}
    <3>1. PICK w \in W : e \in Cut(S, w)
      BY <1>2 DEF Events
    <3>. QED
      BY <3>1 DEF Cut, Select
  <2>2. PICK t : t \in e.minutes
    BY <2>1
  <2>3. e.gap \in GapsOf(S) /\ t \in e.gap /\ Covered(W, t)
    BY <2>2, EventsIs
  <2>4. t \in S
    BY <2>3 DEF GapsOf, Touching
  <2>. QED
    BY <2>3, <2>4
<1>3. ASSUME NEW t \in S, Covered(W, t) PROVE E # {} /\ Reported(Merge(E)) # {}
  <2>1. t \in Int /\ t .. t \subseteq S
    OBVIOUS
  <2>2. t \in Reported(Merge(E))
    BY <1>3, <2>1, ReportedIs
  <2>3. Reported({}) = {}
    BY DEF Reported
  <2>. QED
    BY <1>1, <2>2, <2>3
<1>4. Reported({}) = {}
  BY DEF Reported
<1>. QED
  BY <1>1, <1>2, <1>3, <1>4

\* What is reported up to a minute depends only on what is missing before it.
LEMMA ReportedSame ==
  ASSUME NEW S \in SUBSET Int, NEW R \in SUBSET Int, NEW W, Between(W), NEW at \in Int,
         \A w \in W : w.to <= at, \A t \in Int : t < at => (t \in S <=> t \in R)
  PROVE  Reported(Merge(Events(S, W))) = Reported(Merge(Events(R, W)))
<1>1. ASSUME NEW a \in Int, NEW b \in Int, Covered(W, b), a .. b \subseteq S \/ a .. b \subseteq R
      PROVE  a .. b \subseteq S /\ a .. b \subseteq R
  <2>1. b < at
    BY <1>1 DEF Covered, Between
  <2>2. \A t \in a .. b : t \in Int /\ t < at
    BY <2>1
  <2>. QED
    BY <1>1, <2>2
<1>2. \A t : t \in Reported(Merge(Events(S, W))) <=> t \in Reported(Merge(Events(R, W)))
  <2>1. SUFFICES ASSUME NEW t
                 PROVE t \in Reported(Merge(Events(S, W))) <=> t \in Reported(Merge(Events(R, W)))
    OBVIOUS
  <2>2. t \in Reported(Merge(Events(S, W))) <=>
           /\ t \in Int
           /\ \E a, b \in Int : /\ a <= t /\ t <= b /\ a .. b \subseteq S
                                /\ Covered(W, a) /\ Covered(W, b)
    BY ReportedIs
  <2>3. t \in Reported(Merge(Events(R, W))) <=>
           /\ t \in Int
           /\ \E a, b \in Int : /\ a <= t /\ t <= b /\ a .. b \subseteq R
                                /\ Covered(W, a) /\ Covered(W, b)
    BY ReportedIs
  <2>. QED
    BY <1>1, <2>2, <2>3
<1>. QED
  BY <1>2

LEMMA SelectedIs ==
  ASSUME NEW f, NEW W
  PROVE  Selected(f, W) = Merge(Events(MissingIn(f), W))
  BY DEF Selected, Events, Cut

LEMMA MissingIs ==
  ASSUME NEW f, FrameOK(f)
  PROVE  /\ MissingIn(f) \in SUBSET Int
         /\ \A t : t \in MissingIn(f) <=>
              /\ t \in 1 .. scenario.horizon /\ t \notin scenario.closed
              /\ \A i \in 1 .. Len(f) : f[i].at # t
<1>1. DOMAIN f = 1 .. Len(f)
  BY FrameBars
<1>2. \A t : t \in Have(f) <=> \E i \in 1 .. Len(f) : f[i].at = t
  BY <1>1 DEF Have
<1>. QED
  BY <1>2 DEF MissingIn, MissingOpen

-----------------------------------------------------------------------------
(* Windows of a setup.                                                      *)

\* What is decided at a label has the time of the label.
AtLabel == Final \cup {"DXY_CONFIRMED", "ZONE_WRONG_DIRECTION", "NO_ZONE"}

LEMMA LabelOfTrigger ==
  ASSUME NEW f, FrameOK(f), NEW d, ConfigOK, NEW s, NEW dir, NEW b \in Nat, NEW prev
  PROVE  LET v == Trigger(f, d, s, dir, b, prev)
         IN  v.break = b /\ (v.is = "NO_LABEL" \/ (v.is \in AtLabel /\ v.label \in Nat))
<1>. DEFINE found == Found(f, d, s, dir, b, prev)
            x == Told(found)
<1>1. Labels(Possible(f, dir, b)) /\ DOMAIN found = Possible(f, dir, b)
  BY PossibleLabels DEF Found
<1>2. Trigger(f, d, s, dir, b, prev) =
        IF DOMAIN found = {} THEN Refused("NO_LABEL", b, None)
        ELSE IF found[x] = "SETUP"
          THEN [is |-> "SETUP", break |-> b, label |-> x.label, entry |-> x.entry]
          ELSE Refused(found[x], b, x.label)
  BY TriggerIs
<1>3. ASSUME DOMAIN found # {} PROVE x \in Possible(f, dir, b)
  BY <1>1, <1>3, ToldIs
<1>. HIDE DEF found
<1>4. ASSUME DOMAIN found # {} PROVE x.label \in Nat
  <2>1. CASE config.trigger = "NONE"
    BY <1>3, <1>4, <2>1, PossibleIs
  <2>2. CASE config.trigger # "NONE"
    <3>1. PICK i \in Entries(TriggerFrame(f), config.trigger, dir) : x = Traded(f, TriggerFrame(f), i)
      BY <1>3, <1>4, <2>2, PossibleIs
    <3>2. i \in 1 .. Len(TriggerFrame(f)) /\ i - EntryDelay \in 1 .. (i - 1)
      BY <2>2, TradedAt DEF ConfigOK
    <3>3. Len(TriggerFrame(f)) \in Nat /\ \A j \in 1 .. Len(TriggerFrame(f)) : TriggerFrame(f)[j].at \in Nat
      BY TriggerFrameOK DEF ConfigOK
    <3>4. i - EntryDelay \in 1 .. Len(TriggerFrame(f))
      BY <3>2, <3>3
    <3>. QED
      BY <3>1, <3>3, <3>4 DEF Traded
  <2>. QED
    BY <2>1, <2>2
<1>5. \A r, u, l : /\ Refused(r, u, l).break = u /\ Refused(r, u, l).is = r
                   /\ Refused(r, u, l).label = l
  BY DEF Refused
<1>6. PICK v, r : v = Trigger(f, d, s, dir, b, prev) /\ r = found[x]
  OBVIOUS
<1>7. ASSUME DOMAIN found # {} PROVE r \in AtLabel
  <2>1. found[x] = Judgement(f, d, s, dir, b, prev, x)
    BY <1>1, <1>3, <1>7 DEF found, Found
  <2>. QED
    BY <1>6, <2>1, JudgementOneOf DEF AtLabel
<1>. HIDE DEF x
<1>8. CASE DOMAIN found = {}
  BY <1>2, <1>5, <1>6, <1>8
<1>9. CASE DOMAIN found # {} /\ r = "SETUP"
  <2>1. v = [is |-> "SETUP", break |-> b, label |-> x.label, entry |-> x.entry]
    BY <1>2, <1>6, <1>9
  <2>. QED
    BY <1>4, <1>6, <1>9, <2>1 DEF AtLabel, Final
<1>10. CASE DOMAIN found # {} /\ r # "SETUP"
  <2>1. v = Refused(r, b, x.label)
    BY <1>2, <1>6, <1>10
  <2>. QED
    BY <1>4, <1>5, <1>6, <1>7, <1>10, <2>1
<1>. QED
  BY <1>8, <1>9, <1>10

\* A setup has a break in its session, after the end of the previous one, a label
\* and an entry at a bar.
LEMMA SetupHas ==
  ASSUME SessionsOK, ConfigOK, NEW f, FrameOK(f), NEW d, NEW k \in DOMAIN scenario.sessions, NEW dir,
         Verdict(f, d, k, dir).is = "SETUP"
  PROVE  LET v == Verdict(f, d, k, dir)
         IN  /\ v.break \in Nat /\ v.label \in Nat /\ v.entry \in Nat /\ v.break <= v.entry
             /\ \E m \in 1 .. Len(f) : f[m].at = v.entry
             /\ Reached(f, k, dir) /\ v.break = FirstBreak(f, k, dir)
<1>. DEFINE v == Verdict(f, d, k, dir)
            b == FirstBreak(f, k, dir)
            s == scenario.sessions[k]
            p == Previous(f, k)
<1>1. Reached(f, k, dir) /\ v = Broken(f, d, s, p, dir, b)
  BY VerdictIs
<1>2. b \in Nat
  BY <1>1, FirstBreakIs DEF ConfigOK
<1>3. v = Trigger(f, d, s, dir, b, SessionSlice(d, p))
  BY <1>1, BrokenIs DEF Refused
<1>4. v.label \in Nat /\ v.break = b
  BY <1>2, <1>3, LabelOfTrigger
<1>6. /\ v.entry \in Nat /\ v.break <= v.entry
      /\ \E m \in 1 .. Len(f) : f[m].at = v.entry
  BY SetupIs
<1>. QED
  BY <1>1, <1>2, <1>4, <1>6

\* Windows end at the time the setup is judged at, the dollar's too.
LEMMA WindowsEnd ==
  ASSUME NEW p \in Session, NEW s \in Session, NEW f, NEW v, JudgedAt(v, s) \in Nat,
         v.label \in Optional(Nat), f[Min({WarmBars, Len(f)})].at \in Nat
  PROVE  /\ Between(Windows(f, p, s, v)) /\ \A w \in Windows(f, p, s, v) : w.to <= JudgedAt(v, s)
         /\ Between(DollarWindows(p, s, v)) /\ \A w \in DollarWindows(p, s, v) : w.to <= JudgedAt(v, s)
<1>. DEFINE at == JudgedAt(v, s)
            label == Min({IF v.label = None THEN at ELSE v.label, at})
            warm == f[Min({WarmBars, Len(f)})].at + 1
            window(from, to, part) == [from |-> from, to |-> Bounded(to, at), part |-> part]
            good(w) == w.from \in Int /\ w.to \in Int /\ w.to <= at
<1>1. \A a, b \in Int : Min({a, b}) \in Int /\ Min({a, b}) <= a /\ Min({a, b}) <= b
  <2>. SUFFICES ASSUME NEW a \in Int, NEW b \in Int
                PROVE  Min({a, b}) \in Int /\ Min({a, b}) <= a /\ Min({a, b}) <= b
    OBVIOUS
  <2>1. CASE a <= b
    <3>1. {a, b} \in SUBSET Int /\ a \in {a, b} /\ \A x \in {a, b} : a <= x
      BY <2>1
    <3>2. Min({a, b}) = a
      BY <3>1, MinIs
    <3>. QED
      BY <2>1, <3>2
  <2>2. CASE b <= a
    <3>1. {a, b} \in SUBSET Int /\ b \in {a, b} /\ \A x \in {a, b} : b <= x
      BY <2>2
    <3>2. Min({a, b}) = b
      BY <3>1, MinIs
    <3>. QED
      BY <2>2, <3>2
  <2>. QED
    BY <2>1, <2>2
<1>2. at \in Int /\ label \in Int /\ warm \in Int
  <2>1. at \in Int /\ (IF v.label = None THEN at ELSE v.label) \in Int
    BY DEF Optional
  <2>2. label \in Int
    BY <1>1, <2>1
  <2>. QED
    BY <2>1, <2>2
<1>3. ASSUME NEW from \in Int, NEW to \in Int, NEW part PROVE good(window(from, to, part))
  <2>1. Bounded(to, at) \in Int /\ Bounded(to, at) <= at
    BY <1>1, <1>2 DEF Bounded
  <2>. QED
    BY <2>1
<1>4. /\ p.start \in Int /\ p.end \in Int /\ s.start \in Int /\ s.end \in Int
      /\ p.start + 1 \in Int /\ s.start + 1 \in Int /\ 1 \in Int
  BY DEF Session
<1>5. at - 1 \in Int /\ label + 1 \in Int
  BY <1>2
<1>6. \A w \in Windows(f, p, s, v) : good(w)
  <2>. HIDE DEF good
  <2>1. /\ good(window(p.start, p.end, "SESSION_LIQUIDITY"))
        /\ good(window(s.start, at, "SESSION_LIQUIDITY"))
        /\ good(window(p.start, p.start + 1, "SESSION_OPEN"))
        /\ good(window(s.start, s.start + 1, "SESSION_OPEN"))
        /\ good(window(at - 1, at, "ENTRY"))
    BY <1>2, <1>3, <1>4, <1>5
  <2>2. good(window(1, at, "HTF_ZONE")) /\ good(window(1, label + 1, "TRIGGER"))
    BY <1>2, <1>3, <1>4, <1>5
  <2>3. good(window(label + 1, at, "LABEL_CONFIRMATION")) /\ good(window(1, warm, "WARMUP"))
    BY <1>2, <1>3, <1>4, <1>5
  <2>. HIDE DEF at, label, warm, window
  <2>. QED
    BY <2>1, <2>2, <2>3 DEF Windows, at, label, warm, window
<1>7. \A w \in DollarWindows(p, s, v) : good(w)
  <2>. DEFINE dollar(from, to) == [from |-> from, to |-> Bounded(to, at), part |-> "DXY_DIVERGENCE"]
  <2>1. good(window(p.start, p.end, "DXY_DIVERGENCE")) /\ good(window(s.start, at, "DXY_DIVERGENCE"))
    BY <1>2, <1>3, <1>4
  <2>2. ASSUME NEW w \in DollarWindows(p, s, v)
        PROVE  w = window(p.start, p.end, "DXY_DIVERGENCE") \/ w = window(s.start, at, "DXY_DIVERGENCE")
    BY <2>2 DEF DollarWindows
  <2>. HIDE DEF good
  <2>. QED
    BY <2>1, <2>2
<1>. QED
  BY <1>6, <1>7 DEF Between

-----------------------------------------------------------------------------
(* Reports are final.                                                       *)

LEMMA SmallerIs ==
  ASSUME NEW a \in Nat, NEW b \in Nat
  PROVE  /\ a <= b => Min({a, b}) = a
         /\ b <= a => Min({a, b}) = b
<1>1. ASSUME a <= b PROVE Min({a, b}) = a
  <2>1. {a, b} \in SUBSET Int /\ a \in {a, b} /\ \A x \in {a, b} : a <= x
    BY <1>1
  <2>. QED
    BY <2>1, MinIs
<1>2. ASSUME b <= a PROVE Min({a, b}) = b
  <2>1. {a, b} \in SUBSET Int /\ b \in {a, b} /\ \A x \in {a, b} : b <= x
    BY <1>2
  <2>. QED
    BY <2>1, MinIs
<1>. QED
  BY <1>1, <1>2

\* The warm-up ends at the same time in a frame that goes on, or after the time a
\* setup is judged at in both.
LEMMA WarmSame ==
  ASSUME NEW f, NEW g, NEW t \in Nat, GoesOn(f, g, t), NEW m \in 1 .. Len(f)
  PROVE  LET warm(h) == h[Min({WarmBars, Len(h)})].at
         IN  /\ warm(f) \in Nat /\ warm(g) \in Nat
             /\ Bounded(warm(f) + 1, f[m].at) = Bounded(warm(g) + 1, f[m].at)
<1>1. FrameOK(f) /\ FrameOK(g) /\ More(f, g)
  BY DEF GoesOn
<1>2. /\ Len(f) \in Nat /\ Len(g) \in Nat /\ Len(f) <= Len(g) /\ WarmBars \in Nat /\ WarmBars > 0
      /\ Len(f) > 0
  BY <1>1, FrameBars, WarmAssumption DEF More
<1>3. f[m].at \in Nat /\ f[m].at <= f[Len(f)].at /\ f[Len(f)].at \in Nat
  <2>1. f[m].at \in Nat
    BY <1>1, FrameBars
  <2>. QED
    BY <1>1, <1>2, <2>1, LastBar
<1>4. CASE WarmBars <= Len(f)
  <2>1. Min({WarmBars, Len(f)}) = WarmBars /\ Min({WarmBars, Len(g)}) = WarmBars
    BY <1>2, <1>4, SmallerIs
  <2>2. WarmBars \in 1 .. Len(f)
    BY <1>2, <1>4
  <2>3. f[WarmBars] = g[WarmBars] /\ f[WarmBars].at \in Nat
    BY <1>1, <2>2, FrameBars DEF More
  <2>. QED
    BY <2>1, <2>3
<1>5. CASE Len(f) < WarmBars
  <2>1. Min({WarmBars, Len(f)}) = Len(f)
    BY <1>2, <1>5, SmallerIs
  <2>2. PICK n \in 1 .. Len(g) : n = Min({WarmBars, Len(g)}) /\ Len(f) <= n
    <3>1. CASE WarmBars <= Len(g)
      <4>1. Min({WarmBars, Len(g)}) = WarmBars
        BY <1>2, <3>1, SmallerIs
      <4>2. WarmBars \in 1 .. Len(g) /\ Len(f) <= WarmBars
        BY <1>2, <1>5, <3>1
      <4>. QED
        BY <4>1, <4>2
    <3>2. CASE Len(g) <= WarmBars
      <4>1. Min({WarmBars, Len(g)}) = Len(g)
        BY <1>2, <3>2, SmallerIs
      <4>2. Len(g) \in 1 .. Len(g) /\ Len(f) <= Len(g)
        BY <1>2
      <4>. QED
        BY <4>1, <4>2
    <3>3. WarmBars <= Len(g) \/ Len(g) <= WarmBars
      BY <1>2
    <3>. QED
      BY <3>1, <3>2, <3>3
  <2>3. f[Len(f)] = g[Len(f)] /\ Len(f) \in 1 .. Len(g)
    BY <1>1, <1>2 DEF More
  <2>4. g[n].at \in Nat /\ f[Len(f)].at <= g[n].at
    <3>1. Len(f) < n => g[Len(f)].at < g[n].at
      BY <1>1, <2>2, <2>3, FrameBars
    <3>2. Len(f) = n => g[Len(f)].at = g[n].at
      OBVIOUS
    <3>3. g[n].at \in Nat /\ g[Len(f)].at \in Nat
      BY <1>1, <2>2, <2>3, FrameBars
    <3>. QED
      BY <1>2, <2>2, <2>3, <3>1, <3>2, <3>3
  <2>5. f[m].at <= f[Len(f)].at + 1 /\ f[m].at <= g[n].at + 1
    <3>1. \A x, y, z \in Nat : x <= y /\ y <= z => x <= y + 1 /\ x <= z + 1
      OBVIOUS
    <3>. QED
      BY <1>3, <2>4, <3>1
  <2>6. Bounded(f[Len(f)].at + 1, f[m].at) = f[m].at /\ Bounded(g[n].at + 1, f[m].at) = f[m].at
    <3>1. f[Len(f)].at + 1 \in Nat /\ g[n].at + 1 \in Nat
      BY <1>3, <2>4
    <3>2. Min({f[Len(f)].at + 1, f[m].at}) = f[m].at
      BY <1>3, <2>5, <3>1, SmallerIs
    <3>3. Min({g[n].at + 1, f[m].at}) = f[m].at
      BY <1>3, <2>5, <3>1, SmallerIs
    <3>. QED
      BY <3>2, <3>3 DEF Bounded
  <2>. QED
    BY <1>3, <2>1, <2>2, <2>4, <2>6
<1>. QED
  BY <1>2, <1>4, <1>5

\* A longer frame misses the same minutes up to where it goes on.
LEMMA MissingMore ==
  ASSUME NEW f, NEW g, NEW t \in Nat, GoesOn(f, g, t), NEW u \in Int, u <= t
  PROVE  u \in MissingIn(f) <=> u \in MissingIn(g)
<1>1. FrameOK(f) /\ FrameOK(g) /\ More(f, g) /\ Len(f) \in Nat /\ Len(g) \in Nat
  BY FrameBars DEF GoesOn
<1>2. ASSUME NEW i \in 1 .. Len(g), g[i].at = u PROVE i \in 1 .. Len(f) /\ f[i].at = u
  <2>1. ~(g[i].at > t)
    BY <1>2
  <2>2. i \in 1 .. Len(f)
    BY <1>1, <1>2, <2>1 DEF GoesOn
  <2>. QED
    BY <1>1, <1>2, <2>2 DEF More
<1>3. ASSUME NEW i \in 1 .. Len(f), f[i].at = u PROVE i \in 1 .. Len(g) /\ g[i].at = u
  BY <1>1, <1>3 DEF More
<1>. QED
  BY <1>1, <1>2, <1>3, MissingIs

LEMMA WindowsMore ==
  ASSUME NEW f, NEW g, NEW t \in Nat, GoesOn(f, g, t), NEW m \in 1 .. Len(f),
         NEW p, NEW s, NEW v, JudgedAt(v, s) = f[m].at
  PROVE  Windows(f, p, s, v) = Windows(g, p, s, v)
<1>. DEFINE warm(h) == h[Min({WarmBars, Len(h)})].at + 1
            at == JudgedAt(v, s)
<1>1. Bounded(warm(f), at) = Bounded(warm(g), at)
  BY WarmSame
<1>. HIDE DEF at, warm
<1>. QED
  BY <1>1 DEF Windows, at, warm

\* The gaps of a setup's windows are reported alike in frames that go on.
LEMMA ReportedMore ==
  ASSUME NEW f, NEW g, NEW t \in Nat, GoesOn(f, g, t), NEW W, Between(W),
         NEW at \in Nat, at <= t, \A w \in W : w.to <= at
  PROVE  /\ Reported(Selected(f, W)) = Reported(Selected(g, W))
         /\ Selected(f, W) = {} <=> Selected(g, W) = {}
<1>1. FrameOK(f) /\ FrameOK(g)
  BY DEF GoesOn
<1>2. MissingIn(f) \in SUBSET Int /\ MissingIn(g) \in SUBSET Int
  BY <1>1, MissingIs
<1>3. \A u \in Int : u < at => (u \in MissingIn(f) <=> u \in MissingIn(g))
  <2>. SUFFICES ASSUME NEW u \in Int, u < at PROVE u \in MissingIn(f) <=> u \in MissingIn(g)
    OBVIOUS
  <2>1. u <= t
    OBVIOUS
  <2>. QED
    BY <2>1, MissingMore
<1>4. Reported(Selected(f, W)) = Reported(Selected(g, W))
  BY <1>2, <1>3, ReportedSame, SelectedIs
<1>. QED
  BY <1>2, <1>4, NothingReported, SelectedIs

LEMMA ReportsFinal ==
  ASSUME SessionsOK, ConfigOK, NEW t \in Nat, NEW f, NEW g, GoesOn(f, g, t),
         NEW d, NEW e, GoesOn(d, e, t), NEW x \in Setups(f, d) \cap Setups(g, e), x.v.entry <= t
  PROVE  Reports(f, d, x) = Reports(g, e, x)
<1>1. PICK y \in Considered : x = [of |-> y, v |-> Verdict(f, d, y[1], y[2])] /\ x.v.is = "SETUP"
  BY DEF Setups
<1>. DEFINE k == y[1]
            v == x.v
            s == scenario.sessions[k]
            p == Previous(f, k)
<1>2. /\ k \in DOMAIN scenario.sessions /\ x.of[1] = k /\ v = Verdict(f, d, k, y[2])
      /\ FrameOK(f) /\ FrameOK(g)
  BY <1>1 DEF Considered, GoesOn
<1>3. /\ v.break \in Nat /\ v.label \in Nat /\ v.entry \in Nat /\ v.break <= v.entry
      /\ \E m \in 1 .. Len(f) : f[m].at = v.entry
      /\ Reached(f, k, y[2]) /\ v.break = FirstBreak(f, k, y[2])
  BY <1>1, <1>2, SetupHas
<1>4. PICK m \in 1 .. Len(f) : f[m].at = v.entry
  BY <1>3
<1>5. PICK i \in 1 .. Len(f) : f[i].at = v.break /\ s.start <= f[i].at /\ f[i].at < t + 1
  <2>1. /\ Min(Breaks(f, k, y[2])) \in 1 .. Len(f)
        /\ s.start <= FirstBreak(f, k, y[2])
    BY <1>2, <1>3, FirstBreakIs DEF ConfigOK
  <2>2. v.break < t + 1
    BY <1>3
  <2>. QED
    BY <1>3, <2>1, <2>2 DEF FirstBreak
<1>6. Earlier(f, k) = Earlier(g, k)
  BY <1>2, <1>5, GoesOnSame, EarlierSame
<1>7. p \in Session /\ s \in Session /\ p = scenario.sessions[Max(Earlier(g, k))]
  BY <1>2, <1>3, <1>6, EarlierIs DEF Reached, Previous, SessionsOK
<1>8. JudgedAt(v, s) = v.entry
  BY <1>1 DEF JudgedAt
<1>. DEFINE W == Windows(f, p, s, v)
            D == DollarWindows(p, s, v)
<1>9. W = Windows(g, p, s, v)
  BY <1>4, <1>8, WindowsMore
<1>10. f[Min({WarmBars, Len(f)})].at \in Nat
  BY <1>4, WarmSame
<1>11. /\ Between(W) /\ \A w \in W : w.to <= v.entry
       /\ Between(D) /\ \A w \in D : w.to <= v.entry
  BY <1>3, <1>7, <1>8, <1>10, WindowsEnd DEF Optional
<1>. HIDE DEF W, D, v
<1>12. /\ Reported(Selected(f, W)) = Reported(Selected(g, W))
       /\ Selected(f, W) = {} <=> Selected(g, W) = {}
  BY <1>3, <1>11, ReportedMore DEF v
<1>13. /\ Reported(Selected(d, D)) = Reported(Selected(e, D))
       /\ Selected(d, D) = {} <=> Selected(e, D) = {}
  BY <1>3, <1>11, ReportedMore DEF v
<1>14. SetupEvents(f, d, k, v) = [pair |-> Selected(f, W), dollar |-> Selected(d, D)]
  BY DEF SetupEvents, Previous, W, D
<1>15. SetupEvents(g, e, k, v) = [pair |-> Selected(g, W), dollar |-> Selected(e, D)]
  BY <1>7, <1>9 DEF SetupEvents, D
<1>16. Status(v, SetupEvents(f, d, k, v)) = Status(v, SetupEvents(g, e, k, v))
  BY <1>12, <1>13, <1>14, <1>15 DEF Status, Quality
<1>. QED
  BY <1>2, <1>12, <1>13, <1>14, <1>15, <1>16 DEF Reports, v

\* The minutes that a setup reports and its status stay what they were at its
\* entry, whatever comes after (docs/TRACE.md:48).
THEOREM QualityIsFinalHolds == Spec => QualityIsFinal
<1>1. ASSUME Market, [Next]_vars
      PROVE  config.trace =>
               \A x \in Setups(mid, dxy) \cap Setups(mid', dxy') :
                 x.v.entry <= now => Reports(mid, dxy, x) = Reports(mid', dxy', x)
  <2>1. PICK f, g, d, e, t : f = mid /\ g = mid' /\ d = dxy /\ e = dxy' /\ t = now
    OBVIOUS
  <2>2. GoesOn(f, g, t) /\ GoesOn(d, e, t) /\ SessionsOK /\ ConfigOK /\ t \in Nat
    BY <1>1, <2>1, MarketGoesOn, ScenarioOK DEF Market
  <2>3. \A x \in Setups(f, d) \cap Setups(g, e) : x.v.entry <= t => Reports(f, d, x) = Reports(g, e, x)
    BY <2>2, ReportsFinal
  <2>. QED
    BY <2>1, <2>3
<1>. QED
  BY <1>1, MarketHolds, PTL DEF Spec, QualityIsFinal
-----------------------------------------------------------------------------
(* The frames that the provider would have sent.                            *)

\* The rank of a minute in a set of minutes, and the minute of a rank.
Place(M, t) == Cardinality({u \in M : u <= t})
Nth(M, n) == CHOOSE t \in M : Place(M, t) = n

LEMMA PlacesRise ==
  ASSUME NEW M \in SUBSET Nat, IsFiniteSet(M), NEW t \in M, NEW u \in M, t < u
  PROVE  /\ Place(M, t) \in 1 .. Cardinality(M) /\ Place(M, u) \in 1 .. Cardinality(M)
         /\ Place(M, t) < Place(M, u)
<1>. DEFINE upTo(x) == {y \in M : y <= x}
<1>1. ASSUME NEW x \in M
      PROVE  IsFiniteSet(upTo(x)) /\ Cardinality(upTo(x)) \in 1 .. Cardinality(M)
  <2>1. x \in Nat /\ upTo(x) \in SUBSET M /\ x \in upTo(x)
    OBVIOUS
  <2>. HIDE DEF upTo
  <2>2. IsFiniteSet(upTo(x)) /\ Cardinality(upTo(x)) <= Cardinality(M)
    BY <2>1, FS_Subset
  <2>3. Cardinality(upTo(x)) \in Nat /\ Cardinality(M) \in Nat /\ Cardinality(upTo(x)) # 0
    BY <2>1, <2>2, FS_CardinalityType, FS_EmptySet
  <2>. QED
    BY <2>2, <2>3
<1>2. upTo(t) \in SUBSET upTo(u) /\ upTo(t) # upTo(u)
  <2>1. t \in Nat /\ u \in Nat
    OBVIOUS
  <2>2. ASSUME NEW x \in upTo(t) PROVE x \in upTo(u)
    <3>1. x \in M /\ x \in Nat /\ x <= t
      OBVIOUS
    <3>2. x <= u
      BY <2>1, <3>1
    <3>. QED
      BY <3>1, <3>2
  <2>3. u \in upTo(u) /\ u \notin upTo(t)
    BY <2>1
  <2>. HIDE DEF upTo
  <2>. QED
    BY <2>2, <2>3
<1>. HIDE DEF upTo
<1>3. Cardinality(upTo(t)) <= Cardinality(upTo(u)) /\ Cardinality(upTo(t)) # Cardinality(upTo(u))
  BY <1>1, <1>2, FS_Subset
<1>4. Cardinality(M) \in Nat
  BY FS_CardinalityType
<1>5. Cardinality(upTo(t)) \in 1 .. Cardinality(M) /\ Cardinality(upTo(u)) \in 1 .. Cardinality(M)
  BY <1>1
<1>6. Cardinality(upTo(t)) < Cardinality(upTo(u))
  BY <1>3, <1>4, <1>5
<1>. QED
  BY <1>5, <1>6 DEF Place, upTo

\* Every rank is that of one minute, and later minutes have higher ranks.
LEMMA RankIs ==
  ASSUME NEW M \in SUBSET Nat, IsFiniteSet(M)
  PROVE  /\ Cardinality(M) \in Nat
         /\ \A n \in 1 .. Cardinality(M) : Nth(M, n) \in M
         /\ \A t \in M : \E n \in 1 .. Cardinality(M) : Nth(M, n) = t
         /\ \A n, m \in 1 .. Cardinality(M) : n < m => Nth(M, n) < Nth(M, m)
<1>. DEFINE N == Cardinality(M)
            place == [t \in M |-> Place(M, t)]
<1>1. N \in Nat
  BY FS_CardinalityType
<1>2. \A t \in M : Place(M, t) \in 1 .. N
  <2>. SUFFICES ASSUME NEW t \in M PROVE Place(M, t) \in 1 .. N
    OBVIOUS
  <2>1. {y \in M : y <= t} \in SUBSET M /\ t \in {y \in M : y <= t}
    OBVIOUS
  <2>2. Cardinality({y \in M : y <= t}) <= N /\ IsFiniteSet({y \in M : y <= t})
    BY <2>1, FS_Subset
  <2>3. Cardinality({y \in M : y <= t}) \in Nat /\ Cardinality({y \in M : y <= t}) # 0
    BY <2>1, <2>2, FS_CardinalityType, FS_EmptySet
  <2>. QED
    BY <1>1, <2>2, <2>3 DEF Place
<1>3. \A t, u \in M : t < u => Place(M, t) < Place(M, u)
  BY PlacesRise
<1>4. ASSUME NEW t \in M, NEW u \in M, Place(M, t) = Place(M, u) PROVE t = u
  <2>1. t \in Nat /\ u \in Nat /\ Place(M, t) \in Nat
    BY <1>1, <1>2
  <2>2. ~(t < u) /\ ~(u < t)
    BY <1>3, <1>4, <2>1
  <2>. QED
    BY <2>1, <2>2
<1>5. place \in Injection(M, 1 .. N)
  BY <1>2, <1>4 DEF Injection, IsInjective
<1>6. IsFiniteSet(1 .. N) /\ Cardinality(1 .. N) = N
  <2>1. 1 \in Int /\ N \in Int
    BY <1>1
  <2>2. IsFiniteSet(1 .. N) /\ Cardinality(1 .. N) = IF 1 > N THEN 0 ELSE N - 1 + 1
    BY <2>1, FS_Interval
  <2>. QED
    BY <1>1, <2>2
<1>7. place \in Surjection(M, 1 .. N)
  BY <1>5, <1>6, FS_Injection
<1>8. \A n \in 1 .. N : \E t \in M : Place(M, t) = n
  BY <1>7 DEF Surjection
<1>9. \A n \in 1 .. N : Nth(M, n) \in M /\ Place(M, Nth(M, n)) = n
  BY <1>8 DEF Nth
<1>10. ASSUME NEW t \in M PROVE Nth(M, Place(M, t)) = t
  BY <1>2, <1>4, <1>9
<1>11. ASSUME NEW n \in 1 .. N, NEW m \in 1 .. N, n < m PROVE Nth(M, n) < Nth(M, m)
  <2>1. PICK t, u : t = Nth(M, n) /\ u = Nth(M, m)
    OBVIOUS
  <2>2. t \in M /\ u \in M /\ t \in Nat /\ u \in Nat /\ Place(M, t) = n /\ Place(M, u) = m
    BY <1>9, <2>1
  <2>3. ~(u < t) /\ u # t
    <3>1. n \in Nat /\ m \in Nat
      BY <1>1
    <3>2. u < t => m < n
      BY <1>3, <2>2
    <3>. QED
      BY <1>11, <2>2, <3>1, <3>2
  <2>. QED
    BY <2>1, <2>2, <2>3
<1>. QED
  BY <1>1, <1>2, <1>9, <1>10, <1>11

\* The bar of minute t of a frame that has the candle c[t] in the minutes that f lost.
BarOf(f, c, t) == IF t \in DOMAIN c THEN At(c[t], t) ELSE f[BarAt(f, t)]

LEMMA WithIs ==
  ASSUME NEW f, NEW c
  PROVE  LET M == Have(f) \cup DOMAIN c
         IN  With(f, c) = [n \in 1 .. Cardinality(M) |-> BarOf(f, c, Nth(M, n))]
BY DEF With, BarOf, BarAt, Nth, Place

LEMMA BarOfIs ==
  ASSUME NEW f, FrameOK(f), NEW c, \A t \in DOMAIN c : t \in Nat /\ c[t] \in Candle,
         NEW t \in Have(f) \cup DOMAIN c
  PROVE  BarOf(f, c, t) \in Bars /\ BarOf(f, c, t).at = t
<1>1. CASE t \in DOMAIN c
  <2>1. c[t] \in Candle /\ t \in Nat
    BY <1>1
  <2>2. At(c[t], t) \in Bars /\ At(c[t], t).at = t
    BY <2>1 DEF At, Bars, Candle
  <2>. QED
    BY <1>1, <2>2 DEF BarOf
<1>2. CASE t \notin DOMAIN c
  <2>1. PICK i \in 1 .. Len(f) : f[i].at = t
    BY <1>2, FrameBars DEF Have
  <2>2. BarAt(f, t) = i
    BY <2>1, BarAtIs
  <2>3. f[i] \in Bars
    BY FrameBars
  <2>. QED
    BY <1>2, <2>1, <2>2, <2>3 DEF BarOf
<1>. QED
  BY <1>1, <1>2

\* g has the bars of f, and others only in minutes that f lost.
Fills(f, g) ==
  /\ FrameOK(g)
  /\ \A i \in 1 .. Len(f) : \E j \in 1 .. Len(g) : g[j] = f[i]
  /\ \A j \in 1 .. Len(g) : g[j].at \in Lost(f) \/ \E i \in 1 .. Len(f) : f[i] = g[j]

LEMMA FilledIs ==
  ASSUME NEW f, FrameOK(f), now \in Nat, \A i \in 1 .. Len(f) : f[i].at \in 1 .. now,
         NEW candles, \A t \in 1 .. scenario.horizon : candles[t] \subseteq Optional(Candle),
         NEW g \in Filled(f, candles)
  PROVE  Fills(f, g)
<1>1. PICK c \in Fillings(Lost(f), candles) : g = With(f, c)
  BY DEF Filled
<1>. DEFINE M == Have(f) \cup DOMAIN c
            N == Cardinality(M)
<1>2. /\ DOMAIN c = Lost(f) /\ Lost(f) \subseteq 1 .. now /\ Lost(f) \subseteq 1 .. scenario.horizon
      /\ \A t \in Lost(f) : t \in MissingIn(f) /\ \A i \in 1 .. Len(f) : f[i].at # t
  <2>1. DOMAIN c = Lost(f)
    BY DEF Fillings
  <2>2. ASSUME NEW t \in Lost(f) PROVE t \in 1 .. now /\ t \in 1 .. scenario.horizon
    <3>1. t \in MissingIn(f) /\ t <= now
      BY DEF Lost
    <3>2. t \in 1 .. scenario.horizon
      BY <3>1, MissingIs
    <3>. QED
      BY <3>1, <3>2
  <2>3. \A t \in Lost(f) : t \in MissingIn(f)
    BY DEF Lost
  <2>. QED
    BY <2>1, <2>2, <2>3, MissingIs
<1>3. \A t \in DOMAIN c : t \in Nat /\ c[t] \in Candle
  <2>1. ASSUME NEW t \in Lost(f) PROVE t \in Nat /\ c[t] \in Candle
    <3>1. c[t] \in candles[t] /\ c[t] # None
      BY DEF Fillings
    <3>2. t \in Nat /\ candles[t] \subseteq Optional(Candle)
      BY <1>2
    <3>. QED
      BY <3>1, <3>2 DEF Optional
  <2>. QED
    BY <1>2, <2>1
<1>4. M \in SUBSET (1 .. now) /\ M \in SUBSET Nat
  <2>1. Have(f) \subseteq 1 .. now
    BY FrameBars DEF Have
  <2>. QED
    BY <1>2, <2>1
<1>5. IsFiniteSet(M)
  <2>1. 1 \in Int /\ now \in Int
    OBVIOUS
  <2>2. IsFiniteSet(1 .. now)
    BY <2>1, FS_Interval
  <2>. QED
    BY <1>4, <2>2, FS_Subset
<1>6. /\ N \in Nat
      /\ \A n \in 1 .. N : Nth(M, n) \in M
      /\ \A t \in M : \E n \in 1 .. N : Nth(M, n) = t
      /\ \A n, m \in 1 .. N : n < m => Nth(M, n) < Nth(M, m)
  BY <1>4, <1>5, RankIs
<1>7. g = [n \in 1 .. N |-> BarOf(f, c, Nth(M, n))]
  BY <1>1, WithIs
<1>8. \A t \in M : BarOf(f, c, t) \in Bars /\ BarOf(f, c, t).at = t
  BY <1>3, BarOfIs
<1>9. \A i \in 1 .. Len(f) : f[i].at \in M /\ BarOf(f, c, f[i].at) = f[i]
  <2>. SUFFICES ASSUME NEW i \in 1 .. Len(f) PROVE f[i].at \in M /\ BarOf(f, c, f[i].at) = f[i]
    OBVIOUS
  <2>1. f[i].at \in Have(f) /\ f[i].at \notin DOMAIN c
    BY <1>2, FrameBars DEF Have
  <2>2. BarAt(f, f[i].at) = i
    BY BarAtIs
  <2>. QED
    BY <2>1, <2>2 DEF BarOf
<1>10. \A t \in M : t \in Lost(f) \/ \E i \in 1 .. Len(f) : f[i].at = t
  BY <1>2, FrameBars DEF Have
<1>. HIDE DEF M, N
<1>11. g \in Seq(Bars) /\ Len(g) = N /\ \A n \in 1 .. N : g[n] = BarOf(f, c, Nth(M, n))
  <2>1. \A n \in 1 .. N : g[n] \in Bars
    BY <1>6, <1>7, <1>8
  <2>2. g \in [1 .. N -> Bars]
    BY <1>7, <2>1
  <2>. QED
    BY <1>6, <1>7, <2>2
<1>12. FrameOK(g)
  <2>1. ASSUME NEW i \in 1 .. Len(g), NEW j \in 1 .. Len(g), i < j PROVE g[i].at < g[j].at
    <3>1. g[i].at = Nth(M, i) /\ g[j].at = Nth(M, j)
      BY <1>6, <1>8, <1>11
    <3>. QED
      BY <1>6, <1>11, <2>1, <3>1
  <2>. QED
    BY <1>11, <2>1 DEF FrameOK
<1>13. ASSUME NEW i \in 1 .. Len(f) PROVE \E j \in 1 .. Len(g) : g[j] = f[i]
  BY <1>6, <1>9, <1>11
<1>14. ASSUME NEW j \in 1 .. Len(g)
       PROVE  g[j].at \in Lost(f) \/ \E i \in 1 .. Len(f) : f[i] = g[j]
  <2>1. PICK t \in M : t = Nth(M, j)
    BY <1>6, <1>11
  <2>2. g[j] = BarOf(f, c, t) /\ g[j].at = t
    BY <1>8, <1>11, <2>1
  <2>. QED
    BY <1>9, <1>10, <2>1, <2>2
<1>. QED
  BY <1>12, <1>13, <1>14 DEF Fills

-----------------------------------------------------------------------------
(* Frames that have the same bars in a stretch of minutes.                  *)

\* Every bar of g from minute a to before b is one of f.
Agree(f, g, a, b) ==
  \A j \in 1 .. Len(g) : a <= g[j].at /\ g[j].at < b => \E i \in 1 .. Len(f) : f[i] = g[j]

\* Where no missing minute is reported, nothing is filled in.
LEMMA CompleteAgrees ==
  ASSUME NEW f, FrameOK(f), NEW g, Fills(f, g), NEW W, Between(W), Selected(f, W) = {},
         NEW a \in Nat, NEW b \in Nat, \A t \in Nat : a <= t /\ t < b => Covered(W, t)
  PROVE  Agree(f, g, a, b)
<1>1. MissingIn(f) \in SUBSET Int
  BY MissingIs
<1>2. \A t \in MissingIn(f) : ~Covered(W, t)
  BY <1>1, SelectedIs, NothingReported
<1>3. ASSUME NEW j \in 1 .. Len(g), a <= g[j].at, g[j].at < b PROVE g[j].at \notin Lost(f)
  <2>1. g[j].at \in Nat
    BY FrameBars DEF Fills
  <2>. QED
    BY <1>2, <1>3, <2>1 DEF Lost
<1>. QED
  BY <1>3 DEF Agree, Fills

LEMMA AgreeLess ==
  ASSUME NEW f, NEW g, FrameOK(g), NEW a \in Nat, NEW b \in Nat, Agree(f, g, a, b),
         NEW to \in Nat, to <= b
  PROVE  Agree(f, g, a, to)
<1>1. \A j \in 1 .. Len(g) : g[j].at \in Nat
  BY FrameBars
<1>2. \A j \in 1 .. Len(g) : g[j].at < to => g[j].at < b
  BY <1>1
<1>. QED
  BY <1>2 DEF Agree

\* The bars of a stretch.
BarsIn(f, a, b) == {f[i] : i \in Slice(f, a, b)}

LEMMA BarsSame ==
  ASSUME NEW f, FrameOK(f), NEW g, Fills(f, g), NEW a \in Nat, NEW b \in Nat, Agree(f, g, a, b)
  PROVE  BarsIn(f, a, b) = BarsIn(g, a, b)
<1>1. \A i : i \in Slice(f, a, b) <=> i \in 1 .. Len(f) /\ a <= f[i].at /\ f[i].at < b
  BY SliceIs
<1>2. \A i : i \in Slice(g, a, b) <=> i \in 1 .. Len(g) /\ a <= g[i].at /\ g[i].at < b
  BY SliceIs DEF Fills
<1>3. ASSUME NEW i \in Slice(f, a, b) PROVE \E j \in Slice(g, a, b) : g[j] = f[i]
  <2>1. PICK j \in 1 .. Len(g) : g[j] = f[i]
    BY <1>1 DEF Fills
  <2>2. j \in Slice(g, a, b)
    BY <1>1, <1>2, <2>1
  <2>. QED
    BY <2>1, <2>2
<1>4. ASSUME NEW j \in Slice(g, a, b) PROVE \E i \in Slice(f, a, b) : f[i] = g[j]
  <2>1. PICK i \in 1 .. Len(f) : f[i] = g[j]
    BY <1>2 DEF Agree
  <2>2. i \in Slice(f, a, b)
    BY <1>1, <1>2, <2>1
  <2>. QED
    BY <2>1, <2>2
<1>. QED
  BY <1>3, <1>4 DEF BarsIn

LEMMA HighestOf ==
  ASSUME NEW f, NEW a, NEW b, NEW dir
  PROVE  Highest(f, Slice(f, a, b), dir) = Max({Reach(x, dir) : x \in BarsIn(f, a, b)})
<1>1. {Reach(f[i], dir) : i \in Slice(f, a, b)} = {Reach(x, dir) : x \in BarsIn(f, a, b)}
  BY DEF BarsIn
<1>. QED
  BY <1>1 DEF Highest

\* Whether the dollar index confirms depends on the bars of two stretches, and in
\* the trace mode whether it can be judged depends on whether there are any.
LEMMA NonConfirmOf ==
  ASSUME NEW d, NEW s, NEW p, NEW to, NEW dir
  PROVE  NonConfirm(d, s, to, dir, SessionSlice(d, p)) <=>
           \A x \in BarsIn(d, s.start, to) :
             Reach(x, Opposite(dir)) <= Max({Reach(y, Opposite(dir)) : y \in BarsIn(d, p.start, p.end)})
<1>1. Highest(d, SessionSlice(d, p), Opposite(dir))
        = Max({Reach(y, Opposite(dir)) : y \in BarsIn(d, p.start, p.end)})
  BY HighestOf DEF SessionSlice
<1>2. NonConfirm(d, s, to, dir, SessionSlice(d, p)) <=>
        \A x \in BarsIn(d, s.start, to) :
          Reach(x, Opposite(dir)) <= Highest(d, SessionSlice(d, p), Opposite(dir))
  BY DEF NonConfirm, BarsIn
<1>. QED
  BY <1>1, <1>2

LEMMA UncoveredOf ==
  ASSUME NEW d, NEW s, NEW p, NEW to, config.trace
  PROVE  Uncovered(d, SessionSlice(d, p), s.start, to) <=>
           BarsIn(d, p.start, p.end) = {} \/ BarsIn(d, s.start, to) = {}
BY DEF Uncovered, BarsIn, SessionSlice

LEMMA DollarsAgree ==
  ASSUME NEW d, FrameOK(d), NEW e, Fills(d, e), NEW s \in Session, NEW p \in Session,
         NEW to \in Nat, Agree(d, e, p.start, p.end), Agree(d, e, s.start, to), NEW dir
  PROVE  /\ NonConfirm(d, s, to, dir, SessionSlice(d, p)) <=>
              NonConfirm(e, s, to, dir, SessionSlice(e, p))
         /\ SessionSlice(d, p) = {} <=> SessionSlice(e, p) = {}
         /\ config.trace => (Uncovered(d, SessionSlice(d, p), s.start, to) <=>
                             Uncovered(e, SessionSlice(e, p), s.start, to))
<1>1. p.start \in Nat /\ p.end \in Nat /\ s.start \in Nat
  BY DEF Session
<1>2. BarsIn(d, p.start, p.end) = BarsIn(e, p.start, p.end)
  BY <1>1, BarsSame
<1>3. BarsIn(d, s.start, to) = BarsIn(e, s.start, to)
  BY <1>1, BarsSame
<1>4. SessionSlice(d, p) = {} <=> SessionSlice(e, p) = {}
  BY <1>2 DEF BarsIn, SessionSlice
<1>5. NonConfirm(d, s, to, dir, SessionSlice(d, p)) <=>
        NonConfirm(e, s, to, dir, SessionSlice(e, p))
  <2>. DEFINE same(B, C) ==
                \A x \in B : Reach(x, Opposite(dir)) <= Max({Reach(y, Opposite(dir)) : y \in C})
  <2>1. NonConfirm(d, s, to, dir, SessionSlice(d, p)) <=>
          same(BarsIn(d, s.start, to), BarsIn(d, p.start, p.end))
    BY NonConfirmOf
  <2>2. NonConfirm(e, s, to, dir, SessionSlice(e, p)) <=>
          same(BarsIn(e, s.start, to), BarsIn(e, p.start, p.end))
    BY NonConfirmOf
  <2>. HIDE DEF same
  <2>. QED
    BY <1>2, <1>3, <2>1, <2>2
<1>6. ASSUME config.trace
      PROVE  Uncovered(d, SessionSlice(d, p), s.start, to) <=>
               Uncovered(e, SessionSlice(e, p), s.start, to)
  BY <1>2, <1>3, <1>6, UncoveredOf
<1>. QED
  BY <1>4, <1>5, <1>6

-----------------------------------------------------------------------------
(* The level and its break.                                                 *)

\* Sessions with a bar keep one, and a skipped one is excluded.
LEMMA EarlierFills ==
  ASSUME NEW f, FrameOK(f), NEW g, Fills(f, g), SessionsOK, NEW k \in DOMAIN scenario.sessions,
         Earlier(f, k) # {}, ~Skips(f, k)
  PROVE  Earlier(g, k) # {} /\ Previous(g, k) = Previous(f, k)
<1>. DEFINE m == Max(Earlier(f, k))
<1>1. m \in Earlier(f, k) /\ m \in 1 .. (k - 1) /\ k \in Nat
  BY EarlierIs DEF SessionsOK
<1>2. \A j \in DOMAIN scenario.sessions :
        SessionSlice(f, scenario.sessions[j]) # {} => SessionSlice(g, scenario.sessions[j]) # {}
  <2>. SUFFICES ASSUME NEW j \in DOMAIN scenario.sessions,
                       SessionSlice(f, scenario.sessions[j]) # {}
                PROVE  SessionSlice(g, scenario.sessions[j]) # {}
    OBVIOUS
  <2>1. scenario.sessions[j].start \in Nat /\ scenario.sessions[j].end \in Nat
    BY DEF SessionsOK, Session
  <2>2. PICK i \in 1 .. Len(f) :
          scenario.sessions[j].start <= f[i].at /\ f[i].at < scenario.sessions[j].end
    BY <2>1, SliceIs DEF SessionSlice
  <2>3. PICK n \in 1 .. Len(g) : g[n] = f[i]
    BY DEF Fills
  <2>4. n \in SessionSlice(g, scenario.sessions[j])
    BY <2>1, <2>2, <2>3, SliceIs DEF SessionSlice, Fills
  <2>. QED
    BY <2>4
<1>3. m \in Earlier(g, k)
  BY <1>1, <1>2 DEF Earlier, Active
<1>4. Earlier(g, k) \in SUBSET Int
  BY DEF Earlier, Active, SessionsOK
<1>5. ASSUME NEW j \in Earlier(g, k) PROVE j <= m
  <2>1. j \in Int /\ m \in Int /\ k \in Int /\ j < k
    BY <1>1, <1>4 DEF Earlier
  <2>2. config.previous \in {None, scenario.sessions[j].name}
    BY DEF Earlier
  <2>3. j \notin (m + 1) .. (k - 1)
    BY <2>2 DEF Skips
  <2>. QED
    BY <2>1, <2>3
<1>6. Max(Earlier(g, k)) = m
  BY <1>3, <1>4, <1>5, MaxIs
<1>. QED
  BY <1>3, <1>6 DEF Previous

LEMMA LoadedFills ==
  ASSUME NEW f, FrameOK(f), NEW g, Fills(f, g), Len(f) > 0, NEW p \in Session, Loaded(f, p)
  PROVE  Loaded(g, p)
<1>1. Len(f) \in Nat /\ Len(g) \in Nat /\ FrameOK(g) /\ p.start \in Nat /\ p.end \in Nat
  BY FrameBars DEF Fills, Session
<1>2. 1 \in 1 .. Len(f) /\ Len(f) \in 1 .. Len(f)
  BY <1>1
<1>3. PICK i \in 1 .. Len(g), j \in 1 .. Len(g) : g[i] = f[1] /\ g[j] = f[Len(f)]
  BY <1>2 DEF Fills
<1>4. Len(g) > 0 /\ 1 \in 1 .. Len(g)
  BY <1>1, <1>3
<1>5. g[1].at \in Nat /\ g[i].at \in Nat /\ g[j].at \in Nat /\ g[Len(g)].at \in Nat
  BY <1>1, <1>4, LastBar, FrameBars
<1>6. g[1].at <= g[i].at
  <2>1. 1 < i => g[1].at < g[i].at
    BY <1>1, <1>4, FrameBars
  <2>. QED
    BY <1>1, <1>5, <2>1
<1>7. g[j].at <= g[Len(g)].at
  BY <1>1, <1>4, LastBar
<1>8. CASE f[1].at <= p.start /\ p.end <= f[Len(f)].at + 1
  <2>1. g[i].at <= p.start /\ p.end <= g[j].at + 1
    BY <1>3, <1>8
  <2>2. g[1].at <= p.start
    BY <1>1, <1>5, <1>6, <2>1
  <2>3. p.end <= g[Len(g)].at + 1
    <3>1. \A x, y, z \in Nat : x <= y + 1 /\ y <= z => x <= z + 1
      OBVIOUS
    <3>. QED
      BY <1>1, <1>5, <1>7, <2>1, <3>1
  <2>. QED
    BY <2>2, <2>3 DEF Loaded
<1>9. CASE config.trace /\ 1 <= p.start /\ p.end <= scenario.horizon + 1
  BY <1>9 DEF Loaded
<1>. QED
  BY <1>8, <1>9 DEF Loaded

\* The bars that may break a level, when the frames agree on the session.
LEMMA BreaksFill ==
  ASSUME NEW f, FrameOK(f), NEW g, Fills(f, g), NEW s \in Session, NEW at \in Nat,
         Agree(f, g, s.start, at), NEW level \in Int, NEW dir
  PROVE  /\ \A i \in Breaking(f, s, level, dir) : \E j \in Breaking(g, s, level, dir) : g[j] = f[i]
         /\ \A j \in Breaking(g, s, level, dir) :
              g[j].at < at => \E i \in Breaking(f, s, level, dir) : f[i] = g[j]
<1>1. s.start \in Nat /\ s.end \in Nat /\ FrameOK(g)
  BY DEF Session, Fills
<1>2. \A i : i \in Breaking(f, s, level, dir) <=>
        /\ i \in 1 .. Len(f) /\ s.start <= f[i].at /\ f[i].at < s.end
        /\ Reach(f[i], dir) > level + config.tolerance
  BY <1>1, SliceIs DEF Breaking, SessionSlice
<1>3. \A i : i \in Breaking(g, s, level, dir) <=>
        /\ i \in 1 .. Len(g) /\ s.start <= g[i].at /\ g[i].at < s.end
        /\ Reach(g[i], dir) > level + config.tolerance
  BY <1>1, SliceIs DEF Breaking, SessionSlice
<1>4. ASSUME NEW i \in Breaking(f, s, level, dir)
      PROVE  \E j \in Breaking(g, s, level, dir) : g[j] = f[i]
  <2>1. PICK j \in 1 .. Len(g) : g[j] = f[i]
    BY <1>2 DEF Fills
  <2>. QED
    BY <1>2, <1>3, <2>1
<1>5. ASSUME NEW j \in Breaking(g, s, level, dir), g[j].at < at
      PROVE  \E i \in Breaking(f, s, level, dir) : f[i] = g[j]
  <2>1. PICK i \in 1 .. Len(f) : f[i] = g[j]
    BY <1>3, <1>5 DEF Agree
  <2>. QED
    BY <1>2, <1>3, <2>1
<1>. QED
  BY <1>4, <1>5

\* More bars can only raise the level of a session.
LEMMA LevelFills ==
  ASSUME NEW f, FrameOK(f), NEW g, Fills(f, g), NEW p \in Session, SessionSlice(f, p) # {}, NEW dir
  PROVE  /\ Highest(f, SessionSlice(f, p), dir) \in Int /\ Highest(g, SessionSlice(g, p), dir) \in Int
         /\ Highest(f, SessionSlice(f, p), dir) <= Highest(g, SessionSlice(g, p), dir)
         /\ Agree(f, g, p.start, p.end) =>
              Highest(f, SessionSlice(f, p), dir) = Highest(g, SessionSlice(g, p), dir)
<1>. DEFINE S == SessionSlice(f, p)
            T == SessionSlice(g, p)
<1>1. p.start \in Nat /\ p.end \in Nat /\ FrameOK(g)
  BY DEF Session, Fills
<1>2. /\ \A i : i \in S <=> i \in 1 .. Len(f) /\ p.start <= f[i].at /\ f[i].at < p.end
      /\ \A i : i \in T <=> i \in 1 .. Len(g) /\ p.start <= g[i].at /\ g[i].at < p.end
  BY <1>1, SliceIs DEF SessionSlice
<1>3. Agree(f, g, p.start, p.end) => Highest(f, S, dir) = Highest(g, T, dir)
  <2>. SUFFICES ASSUME Agree(f, g, p.start, p.end) PROVE Highest(f, S, dir) = Highest(g, T, dir)
    OBVIOUS
  <2>1. BarsIn(f, p.start, p.end) = BarsIn(g, p.start, p.end)
    BY <1>1, BarsSame
  <2>2. Highest(f, S, dir) = Max({Reach(x, dir) : x \in BarsIn(f, p.start, p.end)})
    BY HighestOf DEF SessionSlice
  <2>3. Highest(g, T, dir) = Max({Reach(x, dir) : x \in BarsIn(g, p.start, p.end)})
    BY HighestOf DEF SessionSlice
  <2>. QED
    BY <2>1, <2>2, <2>3
<1>. HIDE DEF S, T
<1>4. S \in SUBSET (1 .. Len(f)) /\ T \in SUBSET (1 .. Len(g)) /\ S # {}
  BY <1>2 DEF S
<1>5. PICK i \in S : Highest(f, S, dir) = Reach(f[i], dir)
  BY <1>4, HighestReached
<1>6. PICK j \in 1 .. Len(g) : g[j] = f[i]
  BY <1>4 DEF Fills
<1>7. j \in T
  BY <1>2, <1>6
<1>8. Highest(g, T, dir) \in Int /\ Reach(g[j], dir) <= Highest(g, T, dir)
  BY <1>1, <1>4, <1>7, HighestIs
<1>9. Highest(f, S, dir) \in Int
  BY <1>4, HighestIs
<1>. QED
  BY <1>3, <1>5, <1>6, <1>8, <1>9 DEF S, T

\* The previous session has a bar.
LEMMA PreviousHas ==
  ASSUME NEW f, SessionsOK, NEW k \in DOMAIN scenario.sessions, Earlier(f, k) # {}
  PROVE  Previous(f, k) \in Session /\ SessionSlice(f, Previous(f, k)) # {}
<1>1. Max(Earlier(f, k)) \in Earlier(f, k) /\ Previous(f, k) \in Session
  BY EarlierIs
<1>2. Max(Earlier(f, k)) \in Active(f)
  BY <1>1 DEF Earlier
<1>. QED
  BY <1>1, <1>2 DEF Active, Previous

\* The break is the same in frames that agree on the previous session and on the
\* current one past the break.
LEMMA ReachedFills ==
  ASSUME NEW f, FrameOK(f), NEW g, Fills(f, g), SessionsOK, config.tolerance \in Nat,
         NEW k \in DOMAIN scenario.sessions, NEW dir, Reached(f, k, dir), ~Skips(f, k),
         NEW at \in Nat, FirstBreak(f, k, dir) < at,
         Agree(f, g, Previous(f, k).start, Previous(f, k).end),
         Agree(f, g, scenario.sessions[k].start, at)
  PROVE  /\ Reached(g, k, dir)
         /\ Previous(g, k) = Previous(f, k)
         /\ FirstBreak(g, k, dir) = FirstBreak(f, k, dir)
<1>. DEFINE s == scenario.sessions[k]
            p == Previous(f, k)
            level == Level(f, k, dir)
            F == Breaking(f, s, level, dir)
            G == Breaking(g, s, level, dir)
<1>1. /\ Earlier(f, k) # {} /\ k \in Active(f) /\ s.traded /\ Loaded(f, p)
      /\ s \in Session /\ FrameOK(g)
  BY DEF Reached, SessionsOK, Fills
<1>2. Earlier(g, k) # {} /\ Previous(g, k) = p
  BY <1>1, EarlierFills
<1>3. p \in Session /\ SessionSlice(f, p) # {}
  BY <1>1, PreviousHas
<1>4. level \in Int /\ Level(g, k, dir) = level
  BY <1>2, <1>3, LevelFills DEF Level
<1>5. Breaks(f, k, dir) = F /\ Breaks(g, k, dir) = G
  BY <1>4 DEF Breaks
<1>6. /\ \A i \in F : \E j \in G : g[j] = f[i]
      /\ \A j \in G : g[j].at < at => \E i \in F : f[i] = g[j]
  BY <1>1, <1>4, BreaksFill
<1>7. PICK i \in F : /\ i \in 1 .. Len(f) /\ i = Min(F) /\ FirstBreak(f, k, dir) = f[i].at
                     /\ \A n \in F : i <= n
  BY <1>5, FirstBreakIs DEF FirstBreak
<1>8. Loaded(g, p)
  <2>1. Len(f) > 0
    BY <1>7, FrameBars
  <2>. QED
    BY <1>1, <1>3, <2>1, LoadedFills
<1>9. PICK j \in G : g[j] = f[i]
  BY <1>6, <1>7
<1>10. k \in Active(g)
  BY <1>9 DEF Active, Breaking
<1>. HIDE DEF F, G, level
<1>11. Reached(g, k, dir)
  BY <1>1, <1>2, <1>5, <1>8, <1>9, <1>10 DEF Reached
<1>12. PICK n \in G : /\ n \in 1 .. Len(g) /\ FirstBreak(g, k, dir) = g[n].at
                      /\ \A x \in G : n <= x
  BY <1>1, <1>5, <1>11, FirstBreakIs DEF FirstBreak
<1>13. g[n].at <= g[j].at
  <2>1. n <= j /\ j \in 1 .. Len(g)
    BY <1>1, <1>9, <1>12, SliceIs DEF G, Breaking, SessionSlice, Slice
  <2>2. n < j => g[n].at < g[j].at
    BY <1>1, <1>12, <2>1, FrameBars
  <2>3. g[n].at \in Nat /\ g[j].at \in Nat /\ n \in Nat /\ j \in Nat
    BY <1>1, <1>12, <2>1, FrameBars
  <2>. QED
    BY <2>1, <2>2, <2>3
<1>14. PICK m \in F : f[m] = g[n]
  <2>1. g[n].at < at
    <3>1. g[j].at < at
      BY <1>7, <1>9
    <3>2. g[n].at \in Nat
      BY <1>1, <1>12, FrameBars
    <3>3. g[j].at \in Nat
      BY <1>7, <1>9, FrameBars
    <3>. QED
      BY <1>13, <3>1, <3>2, <3>3
  <2>. QED
    BY <1>6, <2>1
<1>15. f[i].at <= f[m].at
  <2>1. i <= m /\ m \in 1 .. Len(f)
    BY <1>7, <1>14, FrameBars DEF F, Breaking, SessionSlice, Slice
  <2>2. i < m => f[i].at < f[m].at
    BY <1>7, <2>1, FrameBars
  <2>3. f[i].at \in Nat /\ f[m].at \in Nat /\ i \in Nat /\ m \in Nat
    BY <1>7, <2>1, FrameBars
  <2>4. \A x, y \in Nat : x <= y => x < y \/ x = y
    OBVIOUS
  <2>5. \A x, y \in Nat : x < y \/ x = y => x <= y
    OBVIOUS
  <2>6. i < m \/ i = m
    BY <2>1, <2>3, <2>4, Zenon
  <2>. QED
    BY <2>2, <2>3, <2>5, <2>6, Zenon
<1>16. f[i].at \in Nat /\ g[n].at \in Nat
  BY <1>1, <1>7, <1>12, FrameBars
<1>17. g[n].at = f[i].at
  BY <1>9, <1>13, <1>14, <1>15, <1>16
<1>. QED
  BY <1>2, <1>7, <1>11, <1>12, <1>17

-----------------------------------------------------------------------------
(* Refusals that are settled.                                               *)

\* Whether there is a break to look for.
Sought(f, k) ==
  /\ k \in Active(f) /\ scenario.sessions[k].traded /\ Earlier(f, k) # {}
  /\ Loaded(f, Previous(f, k))

LEMMA NoBreakIs ==
  ASSUME SessionsOK, ConfigOK, NEW f, FrameOK(f), NEW d, NEW k \in DOMAIN scenario.sessions, NEW dir
  PROVE  /\ Verdict(f, d, k, dir).is = "NO_PAIR_BREAK" => Sought(f, k) /\ Breaks(f, k, dir) = {}
         /\ Sought(f, k) /\ Breaks(f, k, dir) = {} =>
              Verdict(f, d, k, dir) = Refused("NO_PAIR_BREAK", None, None)
<1>. DEFINE v == Verdict(f, d, k, dir)
            s == scenario.sessions[k]
            p == Previous(f, k)
            b == FirstBreak(f, k, dir)
<1>1. \A r, u, l : Refused(r, u, l).is = r
  BY DEF Refused
<1>2. ASSUME Reached(f, k, dir) PROVE v.is # "NO_PAIR_BREAK"
  <2>1. v = Broken(f, d, s, p, dir, b)
    BY <1>2, VerdictIs
  <2>2. b \in Nat
    BY <1>2, FirstBreakIs DEF ConfigOK
  <2>3. Trigger(f, d, s, dir, b, SessionSlice(d, p)).is # "NO_PAIR_BREAK"
    BY <2>2, LabelOfTrigger DEF AtLabel, Final
  <2>. QED
    BY <1>1, <2>1, <2>3, BrokenIs
<1>3. v = IF k \notin Active(f) \/ ~s.traded \/ Earlier(f, k) = {}
            THEN Refused("NOT_CONSIDERED", None, None)
          ELSE IF ~Loaded(f, p) THEN Refused("PREVIOUS_SESSION_DATA_MISSING", None, None)
          ELSE IF Breaks(f, k, dir) = {} THEN Refused("NO_PAIR_BREAK", None, None)
          ELSE Broken(f, d, s, p, dir, b)
  BY DEF Verdict, Breaks, FirstBreak, Level, Previous
<1>4. Reached(f, k, dir) <=> Sought(f, k) /\ Breaks(f, k, dir) # {}
  BY DEF Reached, Sought
<1>5. ASSUME ~Reached(f, k, dir), v.is = "NO_PAIR_BREAK" PROVE Sought(f, k) /\ Breaks(f, k, dir) = {}
  <2>. HIDE DEF s, p, b
  <2>. QED
    BY <1>1, <1>3, <1>4, <1>5 DEF Sought, s, p
<1>6. ASSUME Sought(f, k), Breaks(f, k, dir) = {} PROVE v = Refused("NO_PAIR_BREAK", None, None)
  BY <1>3, <1>6 DEF Sought
<1>. HIDE DEF v
<1>. QED
  BY <1>2, <1>5, <1>6 DEF v

\* A session without a break has none in a frame that agrees with its session:
\* more bars in the previous one can only raise the level.
LEMMA NoBreakCertain ==
  ASSUME SessionsOK, ConfigOK, NEW f, FrameOK(f), NEW g, Fills(f, g), NEW d, NEW e,
         NEW k \in DOMAIN scenario.sessions, NEW dir, ~Skips(f, k),
         Verdict(f, d, k, dir).is = "NO_PAIR_BREAK",
         Agree(f, g, scenario.sessions[k].start, scenario.sessions[k].end)
  PROVE  Verdict(g, e, k, dir) = Verdict(f, d, k, dir)
<1>. DEFINE s == scenario.sessions[k]
            p == Previous(f, k)
<1>1. Sought(f, k) /\ Breaks(f, k, dir) = {} /\ FrameOK(g) /\ s \in Session
  BY NoBreakIs DEF Fills, SessionsOK
<1>2. Earlier(g, k) # {} /\ Previous(g, k) = p /\ p \in Session /\ SessionSlice(f, p) # {}
  BY <1>1, EarlierFills, PreviousHas DEF Sought
<1>3. /\ Level(f, k, dir) \in Int /\ Level(g, k, dir) \in Int
      /\ Level(f, k, dir) <= Level(g, k, dir)
  BY <1>2, LevelFills DEF Level
<1>4. s.start \in Nat /\ s.end \in Nat /\ config.tolerance \in Nat
  BY <1>1 DEF Session, ConfigOK
<1>5. PICK i \in 1 .. Len(f) : s.start <= f[i].at /\ f[i].at < s.end
  BY <1>1, <1>4, SliceIs DEF Sought, Active, SessionSlice
<1>6. PICK j \in 1 .. Len(g) : g[j] = f[i]
  BY <1>5 DEF Fills
<1>7. k \in Active(g)
  <2>1. j \in SessionSlice(g, s)
    BY <1>1, <1>4, <1>5, <1>6, SliceIs DEF SessionSlice
  <2>. QED
    BY <2>1 DEF Active
<1>8. Loaded(g, p)
  <2>1. Len(f) > 0
    BY <1>5, FrameBars
  <2>. QED
    BY <1>1, <1>2, <2>1, LoadedFills DEF Sought
<1>9. ASSUME NEW n \in Breaks(g, k, dir) PROVE FALSE
  <2>1. /\ n \in 1 .. Len(g) /\ s.start <= g[n].at /\ g[n].at < s.end
        /\ Reach(g[n], dir) > Level(g, k, dir) + config.tolerance
    BY <1>1, <1>4, SliceIs DEF Breaks, Breaking, SessionSlice
  <2>2. PICK m \in 1 .. Len(f) : f[m] = g[n]
    BY <2>1 DEF Agree
  <2>3. Reach(f[m], dir) \in Int /\ Reach(f[m], dir) > Level(g, k, dir) + config.tolerance
    BY <2>1, <2>2, FrameBars, ReachIs
  <2>4. Reach(f[m], dir) > Level(f, k, dir) + config.tolerance
    BY <1>3, <1>4, <2>3
  <2>5. m \in Breaks(f, k, dir)
    BY <1>4, <2>1, <2>2, <2>4, SliceIs DEF Breaks, Breaking, SessionSlice
  <2>. QED
    BY <1>1, <2>5
<1>10. Sought(g, k)
  BY <1>1, <1>2, <1>7, <1>8 DEF Sought
<1>11. Verdict(f, d, k, dir) = Refused("NO_PAIR_BREAK", None, None)
  BY <1>1, NoBreakIs
<1>12. Verdict(g, e, k, dir) = Refused("NO_PAIR_BREAK", None, None)
  <2>1. Breaks(g, k, dir) = {}
    BY <1>9
  <2>. QED
    BY <1>1, <1>10, <2>1, NoBreakIs
<1>. QED
  BY <1>11, <1>12

LEMMA CutoffIs ==
  ASSUME NEW b \in Nat
  PROVE  Cutoff(b) \in Nat /\ Cutoff(b) <= b + 1
BY DEF Cutoff

\* A break that the dollar index confirmed at once.
LEMMA ConfirmedIs ==
  ASSUME SessionsOK, ConfigOK, NEW f, FrameOK(f), NEW d, NEW k \in DOMAIN scenario.sessions, NEW dir,
         None \notin Nat,
         Verdict(f, d, k, dir).is = "DXY_CONFIRMED", Verdict(f, d, k, dir).label = None
  PROVE  LET s == scenario.sessions[k]
             p == Previous(f, k)
             b == FirstBreak(f, k, dir)
         IN  /\ Reached(f, k, dir) /\ ~Missing(d, s, p, b) /\ Confirmed(d, s, p, dir, b)
             /\ Verdict(f, d, k, dir) = Refused("DXY_CONFIRMED", b, None)
<1>. DEFINE v == Verdict(f, d, k, dir)
            s == scenario.sessions[k]
            p == Previous(f, k)
            b == FirstBreak(f, k, dir)
<1>1. Reached(f, k, dir) /\ v = Broken(f, d, s, p, dir, b)
  BY VerdictIs
<1>2. b \in Nat
  BY <1>1, FirstBreakIs DEF ConfigOK
<1>3. v # Trigger(f, d, s, dir, b, SessionSlice(d, p))
  BY <1>2, LabelOfTrigger
<1>4. v = IF Missing(d, s, p, b) THEN Refused("DXY_DATA_MISSING", b, None)
           ELSE IF Confirmed(d, s, p, dir, b) THEN Refused("DXY_CONFIRMED", b, None)
           ELSE Trigger(f, d, s, dir, b, SessionSlice(d, p))
  BY <1>1, BrokenIs
<1>5. Refused("DXY_DATA_MISSING", b, None).is = "DXY_DATA_MISSING"
  BY DEF Refused
<1>. HIDE DEF s, p, b
<1>6. ~Missing(d, s, p, b) /\ Confirmed(d, s, p, dir, b)
  BY <1>3, <1>4, <1>5
<1>. QED
  BY <1>1, <1>4, <1>6 DEF s, p, b

\* What the dollar index says of a break, in frames that agree on the previous
\* session and on the current one up to the break.
LEMMA BrokenAgrees ==
  ASSUME NEW d, FrameOK(d), NEW e, Fills(d, e), NEW s \in Session, NEW p \in Session,
         NEW b \in Nat, Agree(d, e, p.start, p.end), Agree(d, e, s.start, b + 1), NEW dir, config.trace
  PROVE  /\ Missing(d, s, p, b) <=> Missing(e, s, p, b)
         /\ Confirmed(d, s, p, dir, b) <=> Confirmed(e, s, p, dir, b)
<1>1. b + 1 \in Nat /\ s.start \in Nat /\ FrameOK(e)
  BY DEF Session, Fills
<1>2. Uncovered(d, SessionSlice(d, p), s.start, b + 1) <=>
        Uncovered(e, SessionSlice(e, p), s.start, b + 1)
  BY <1>1, DollarsAgree
<1>3. Cutoff(b) \in Nat /\ Agree(d, e, s.start, Cutoff(b))
  BY <1>1, CutoffIs, AgreeLess
<1>4. NonConfirm(d, s, Cutoff(b), dir, SessionSlice(d, p)) <=>
        NonConfirm(e, s, Cutoff(b), dir, SessionSlice(e, p))
  BY <1>3, DollarsAgree
<1>. QED
  BY <1>2, <1>4 DEF Missing, Confirmed

LEMMA ConfirmedCertain ==
  ASSUME SessionsOK, ConfigOK, config.trace, None \notin Nat,
         NEW f, FrameOK(f), NEW g, Fills(f, g), NEW d, FrameOK(d), NEW e, Fills(d, e),
         NEW k \in DOMAIN scenario.sessions, NEW dir, ~Skips(f, k),
         Verdict(f, d, k, dir).is = "DXY_CONFIRMED", Verdict(f, d, k, dir).label = None,
         LET s == scenario.sessions[k]
             p == Previous(f, k)
             at == Verdict(f, d, k, dir).break + 1
         IN  /\ Agree(f, g, p.start, p.end) /\ Agree(f, g, s.start, at)
             /\ Agree(d, e, p.start, p.end) /\ Agree(d, e, s.start, at)
  PROVE  Verdict(g, e, k, dir) = Verdict(f, d, k, dir)
<1>. DEFINE s == scenario.sessions[k]
            p == Previous(f, k)
            b == FirstBreak(f, k, dir)
<1>1. /\ Reached(f, k, dir) /\ ~Missing(d, s, p, b) /\ Confirmed(d, s, p, dir, b)
      /\ Verdict(f, d, k, dir) = Refused("DXY_CONFIRMED", b, None)
  BY ConfirmedIs
<1>2. b = Verdict(f, d, k, dir).break
  BY <1>1 DEF Refused
<1>3. b \in Nat /\ b + 1 \in Nat /\ b < b + 1 /\ p \in Session /\ s \in Session
  BY <1>1, FirstBreakIs DEF ConfigOK, SessionsOK
<1>4. /\ Agree(f, g, p.start, p.end) /\ Agree(f, g, s.start, b + 1)
      /\ Agree(d, e, p.start, p.end) /\ Agree(d, e, s.start, b + 1)
  BY <1>2
<1>5. Reached(g, k, dir) /\ Previous(g, k) = p /\ FirstBreak(g, k, dir) = b
  BY <1>1, <1>3, <1>4, ReachedFills DEF ConfigOK
<1>6. ~Missing(e, s, p, b) /\ Confirmed(e, s, p, dir, b)
  BY <1>1, <1>3, <1>4, BrokenAgrees
<1>7. Verdict(g, e, k, dir) = Broken(g, e, s, p, dir, b)
  BY <1>5, VerdictIs
<1>. HIDE DEF s, p, b
<1>8. Broken(g, e, s, p, dir, b) = Refused("DXY_CONFIRMED", b, None)
  BY <1>6, BrokenIs
<1>. QED
  BY <1>1, <1>7, <1>8

-----------------------------------------------------------------------------
(* Setups.                                                                  *)

\* The dollar index matters to a label only through its confirmation.
Confirming(d, s, dir, prev, x) ==
  /\ config.divergence /\ config.invalidate /\ prev # {}
  /\ ~NonConfirm(d, s, x.entry, dir, prev)

LEMMA JudgementDollar ==
  ASSUME NEW f, NEW d, NEW e, NEW s, NEW dir, NEW b, NEW prev, NEW other, NEW x,
         Confirming(d, s, dir, prev, x) <=> Confirming(e, s, dir, other, x)
  PROVE  Judgement(f, d, s, dir, b, prev, x) = Judgement(f, e, s, dir, b, other, x)
<1>. DEFINE zone(match) == ZoneFound(f, Zones(f), x.entry, f[BarAt(f, x.entry)].o, dir, match)
<1>1. \A h, o : Judgement(f, h, s, dir, b, o, x) =
        IF config.delay # None /\ x.entry - b > config.delay THEN "LABEL_TOO_LATE"
        ELSE IF x.entry >= s.end THEN "ENTRY_OUTSIDE_SESSION"
        ELSE IF Confirming(h, s, dir, o, x) THEN "DXY_CONFIRMED"
        ELSE IF zone(config.zoneDirection) THEN "SETUP"
        ELSE IF zone(FALSE) THEN "ZONE_WRONG_DIRECTION" ELSE "NO_ZONE"
  BY DEF Judgement, BarAt, Confirming
<1>. HIDE DEF zone
<1>. QED
  BY <1>1

LEMMA ConfirmingAgrees ==
  ASSUME NEW d, FrameOK(d), NEW e, Fills(d, e), NEW s \in Session, NEW p \in Session, NEW dir,
         NEW at \in Nat,
         config.divergence => Agree(d, e, p.start, p.end) /\ Agree(d, e, s.start, at),
         NEW x, x.entry \in Nat, x.entry <= at
  PROVE  Confirming(d, s, dir, SessionSlice(d, p), x) <=> Confirming(e, s, dir, SessionSlice(e, p), x)
<1>. SUFFICES ASSUME config.divergence
              PROVE  Confirming(d, s, dir, SessionSlice(d, p), x) <=>
                       Confirming(e, s, dir, SessionSlice(e, p), x)
  BY DEF Confirming
<1>1. s.start \in Nat /\ FrameOK(e)
  BY DEF Session, Fills
<1>2. Agree(d, e, s.start, x.entry)
  BY <1>1, AgreeLess
<1>3. /\ NonConfirm(d, s, x.entry, dir, SessionSlice(d, p)) <=>
           NonConfirm(e, s, x.entry, dir, SessionSlice(e, p))
      /\ SessionSlice(d, p) = {} <=> SessionSlice(e, p) = {}
  BY <1>2, DollarsAgree
<1>. QED
  BY <1>3 DEF Confirming

\* A label that is accepted is accepted whatever the dollar index does later.
LEMMA TriggerDollar ==
  ASSUME ConfigOK, NEW f, FrameOK(f), NEW d, FrameOK(d), NEW e, Fills(d, e),
         NEW s \in Session, NEW p \in Session, NEW dir, NEW b \in Nat, NEW at \in Nat,
         config.divergence => Agree(d, e, p.start, p.end) /\ Agree(d, e, s.start, at),
         Trigger(f, d, s, dir, b, SessionSlice(d, p)).is = "SETUP",
         Trigger(f, d, s, dir, b, SessionSlice(d, p)).entry = at
  PROVE  Trigger(f, e, s, dir, b, SessionSlice(e, p)) = Trigger(f, d, s, dir, b, SessionSlice(d, p))
<1>. DEFINE F == Found(f, d, s, dir, b, SessionSlice(d, p))
            G == Found(f, e, s, dir, b, SessionSlice(e, p))
            x == Told(F)
<1>1. /\ DOMAIN F = Possible(f, dir, b) /\ DOMAIN G = Possible(f, dir, b)
      /\ Labels(Possible(f, dir, b))
      /\ \A y \in Possible(f, dir, b) : y.entry \in Nat
  BY PossibleLabels DEF Found, Labels
<1>2. ASSUME NEW y \in Possible(f, dir, b), y.entry <= at PROVE F[y] = G[y]
  <2>1. Confirming(d, s, dir, SessionSlice(d, p), y) <=> Confirming(e, s, dir, SessionSlice(e, p), y)
    BY <1>1, <1>2, ConfirmingAgrees
  <2>2. Judgement(f, d, s, dir, b, SessionSlice(d, p), y) = Judgement(f, e, s, dir, b, SessionSlice(e, p), y)
    BY <2>1, JudgementDollar
  <2>. QED
    BY <2>2 DEF Found
<1>3. Trigger(f, d, s, dir, b, SessionSlice(d, p)) =
        IF DOMAIN F = {} THEN Refused("NO_LABEL", b, None)
        ELSE IF F[x] = "SETUP"
          THEN [is |-> "SETUP", break |-> b, label |-> x.label, entry |-> x.entry]
          ELSE Refused(F[x], b, x.label)
  BY TriggerIs
<1>4. Trigger(f, e, s, dir, b, SessionSlice(e, p)) =
        IF DOMAIN G = {} THEN Refused("NO_LABEL", b, None)
        ELSE IF G[Told(G)] = "SETUP"
          THEN [is |-> "SETUP", break |-> b, label |-> Told(G).label, entry |-> Told(G).entry]
          ELSE Refused(G[Told(G)], b, Told(G).label)
  BY TriggerIs
<1>6. PICK v : v = Trigger(f, d, s, dir, b, SessionSlice(d, p))
  OBVIOUS
<1>. HIDE DEF F, G, x
<1>7. /\ DOMAIN F # {} /\ F[x] = "SETUP"
      /\ v = [is |-> "SETUP", break |-> b, label |-> x.label, entry |-> x.entry]
  <2>1. PICK r : r = F[x]
    OBVIOUS
  <2>2. v = IF DOMAIN F = {} THEN Refused("NO_LABEL", b, None)
            ELSE IF r = "SETUP"
              THEN [is |-> "SETUP", break |-> b, label |-> x.label, entry |-> x.entry]
              ELSE Refused(r, b, x.label)
    BY <1>3, <1>6, <2>1
  <2>3. v.is = "SETUP"
    BY <1>6
  <2>4. DOMAIN F # {} /\ r = "SETUP"
    BY <2>2, <2>3 DEF Refused
  <2>. QED
    BY <2>1, <2>2, <2>4
<1>8. x \in Possible(f, dir, b) /\ \A y \in DOMAIN F : F[y] \in Final => x.entry <= y.entry
  BY <1>1, <1>7, ToldIs DEF x, Final
<1>9. x.entry = at
  BY <1>6, <1>7
<1>10. G[x] = "SETUP"
  BY <1>1, <1>2, <1>7, <1>8, <1>9
<1>11. \A y \in DOMAIN G : G[y] \in Final => x.entry <= y.entry
  <2>. SUFFICES ASSUME NEW y \in Possible(f, dir, b), G[y] \in Final, ~(x.entry <= y.entry)
                PROVE  FALSE
    BY <1>1
  <2>1. y.entry <= at
    BY <1>1, <1>9
  <2>2. F[y] \in Final
    BY <1>2, <2>1
  <2>. QED
    BY <1>1, <1>8, <2>2
<1>12. Told(G) = x
  BY <1>1, <1>8, <1>10, <1>11, ToldFirst DEF Final
<1>. QED
  BY <1>1, <1>4, <1>6, <1>7, <1>10, <1>12

\* A setup depends on the dollar's bars of the previous session and of the current
\* one up to its entry.
LEMMA DollarCertain ==
  ASSUME SessionsOK, ConfigOK, config.trace, NEW f, FrameOK(f), NEW d, FrameOK(d), NEW e, Fills(d, e),
         NEW k \in DOMAIN scenario.sessions, NEW dir,
         Verdict(f, d, k, dir).is = "SETUP",
         LET v == Verdict(f, d, k, dir)
             p == Previous(f, k)
             s == scenario.sessions[k]
         IN  /\ v.break < v.entry
             /\ config.divergence => Agree(d, e, p.start, p.end) /\ Agree(d, e, s.start, v.entry)
  PROVE  Verdict(f, e, k, dir) = Verdict(f, d, k, dir)
<1>. DEFINE s == scenario.sessions[k]
            p == Previous(f, k)
            b == FirstBreak(f, k, dir)
            v == Verdict(f, d, k, dir)
            at == v.entry
<1>1. /\ Reached(f, k, dir) /\ b \in Nat /\ at \in Nat /\ b = v.break
  BY SetupHas
<1>2. p \in Session /\ s \in Session
  BY <1>1, PreviousHas DEF Reached, SessionsOK
<1>3. config.divergence => Agree(d, e, p.start, p.end) /\ Agree(d, e, s.start, at)
  OBVIOUS
<1>4. b + 1 \in Nat /\ b + 1 <= at
  BY <1>1
<1>5. v = Broken(f, d, s, p, dir, b) /\ Verdict(f, e, k, dir) = Broken(f, e, s, p, dir, b)
  BY <1>1, VerdictIs
<1>6. v.is = "SETUP"
  OBVIOUS
<1>. HIDE DEF s, p, b, v, at
<1>7. /\ ~Missing(d, s, p, b) /\ ~Confirmed(d, s, p, dir, b)
      /\ v = Trigger(f, d, s, dir, b, SessionSlice(d, p))
  BY <1>5, <1>6, BrokenIs DEF Refused
<1>8. ~Missing(e, s, p, b) /\ ~Confirmed(e, s, p, dir, b)
  <2>1. CASE config.divergence
    <3>1. s.start \in Nat /\ FrameOK(e)
      BY <1>2 DEF Session, Fills
    <3>2. Agree(d, e, s.start, b + 1)
      BY <1>1, <1>3, <1>4, <2>1, <3>1, AgreeLess
    <3>. QED
      BY <1>1, <1>2, <1>3, <1>7, <2>1, <3>2, BrokenAgrees
  <2>2. CASE ~config.divergence
    BY <2>2 DEF Missing, Confirmed
  <2>. QED
    BY <2>1, <2>2
<1>9. Verdict(f, e, k, dir) = Trigger(f, e, s, dir, b, SessionSlice(e, p))
  BY <1>5, <1>8, BrokenIs
<1>10. Trigger(f, e, s, dir, b, SessionSlice(e, p)) = Trigger(f, d, s, dir, b, SessionSlice(d, p))
  BY <1>1, <1>2, <1>3, <1>6, <1>7, TriggerDollar DEF at
<1>. QED
  BY <1>7, <1>9, <1>10 DEF v

\* Frames that agree from the first minute on have the same bars at the same places.
LEMMA PrefixSame ==
  ASSUME NEW f, FrameOK(f), NEW g, Fills(f, g), NEW t \in Nat, Agree(f, g, 0, t)
  PROVE  SameBefore(f, g, t)
<1>1. /\ Len(f) \in Nat /\ Len(g) \in Nat /\ FrameOK(g)
      /\ \A i \in 1 .. Len(f) : f[i].at \in Nat
      /\ \A i \in 1 .. Len(g) : g[i].at \in Nat
  BY FrameBars DEF Fills
<1>. DEFINE bad == {i \in 1 .. Len(f) : f[i].at < t /\ ~(i \in 1 .. Len(g) /\ g[i] = f[i])}
<1>2. bad = {}
  <2>. SUFFICES ASSUME bad # {} PROVE FALSE
    OBVIOUS
  <2>1. bad \in SUBSET Nat
    BY <1>1
  <2>2. PICK i \in bad : \A n \in bad : i <= n
    BY <2>1, LeastNatural
  <2>3. i \in 1 .. Len(f) /\ f[i].at < t /\ f[i].at \in Nat
    BY <1>1
  <2>4. \A n \in 1 .. Len(f) : f[n].at < f[i].at => n \in 1 .. Len(g) /\ g[n] = f[n] /\ n < i
    <3>. SUFFICES ASSUME NEW n \in 1 .. Len(f), f[n].at < f[i].at
                  PROVE  n \in 1 .. Len(g) /\ g[n] = f[n] /\ n < i
      OBVIOUS
    <3>1. n < i
      <4>1. i < n => f[i].at < f[n].at
        BY <2>3, FrameBars
      <4>2. f[n].at \in Nat /\ n \in Nat /\ i \in Nat
        BY <1>1, <2>3
      <4>. QED
        BY <2>3, <4>1, <4>2
    <3>2. n \notin bad
      BY <2>1, <2>2, <3>1
    <3>3. f[n].at < t
      BY <1>1, <2>3
    <3>. QED
      BY <3>1, <3>2, <3>3
  <2>5. PICK j \in 1 .. Len(g) : g[j] = f[i]
    BY <2>3 DEF Fills
  <2>6. ~(j < i)
    <3>. SUFFICES ASSUME j < i PROVE FALSE
      OBVIOUS
    <3>1. j \in 1 .. Len(f) /\ f[j].at < f[i].at
      BY <1>1, <2>3, FrameBars
    <3>2. g[j] = f[j]
      BY <2>4, <3>1
    <3>. QED
      BY <2>3, <2>5, <3>1, <3>2
  <2>7. ~(i < j)
    <3>. SUFFICES ASSUME i < j PROVE FALSE
      OBVIOUS
    <3>1. i \in 1 .. Len(g) /\ g[i].at < g[j].at
      BY <1>1, <2>3, FrameBars
    <3>2. g[i].at \in Nat /\ g[i].at < t /\ 0 <= g[i].at
      BY <1>1, <2>3, <2>5, <3>1
    <3>3. PICK n \in 1 .. Len(f) : f[n] = g[i]
      BY <3>1, <3>2 DEF Agree
    <3>4. f[n].at < f[i].at
      BY <2>5, <3>1, <3>3
    <3>5. n \in 1 .. Len(g) /\ g[n] = g[i] /\ n < i
      BY <2>4, <3>3, <3>4
    <3>6. g[n].at < g[i].at
      BY <1>1, <3>1, <3>5, FrameBars
    <3>. QED
      BY <3>2, <3>5, <3>6
  <2>8. i \in 1 .. Len(g) /\ g[i] = f[i]
    BY <1>1, <2>3, <2>5, <2>6, <2>7
  <2>. QED
    BY <2>8
<1>3. \A i \in 1 .. Len(f) : f[i].at < t => i \in 1 .. Len(g) /\ g[i] = f[i]
  BY <1>2
<1>4. ASSUME NEW j \in 1 .. Len(g), g[j].at < t PROVE j \in 1 .. Len(f) /\ f[j] = g[j]
  <2>1. PICK i \in 1 .. Len(f) : f[i] = g[j]
    BY <1>1, <1>4 DEF Agree
  <2>2. i \in 1 .. Len(g) /\ g[i] = g[j]
    BY <1>3, <1>4, <2>1
  <2>3. ~(i < j) /\ ~(j < i)
    <3>1. i < j => g[i].at < g[j].at
      BY <1>1, <2>2, FrameBars
    <3>2. j < i => g[j].at < g[i].at
      BY <1>1, <2>2, FrameBars
    <3>3. g[j].at \in Nat
      BY <1>1
    <3>. QED
      BY <2>2, <3>1, <3>2, <3>3
  <2>4. i = j
    BY <1>1, <2>1, <2>3
  <2>. QED
    BY <2>1, <2>4
<1>. QED
  BY <1>3, <1>4 DEF SameBefore

\* A filled frame does not end sooner.
LEMMA FillsEnds ==
  ASSUME NEW f, FrameOK(f), NEW g, Fills(f, g), Len(f) > 0, NEW t \in Nat, NEW span \in Positive,
         Ends(f, t, span)
  PROVE  Ends(g, t, span)
<1>1. f[Len(f)].at \in Nat /\ Len(f) \in 1 .. Len(f) /\ Len(f) \in Nat /\ FrameOK(g)
  BY FrameBars, LastBar DEF Fills
<1>2. PICK j \in 1 .. Len(g) : g[j] = f[Len(f)]
  BY <1>1 DEF Fills
<1>3. Len(g) > 0
  BY <1>1, <1>2, FrameBars
<1>4. g[j].at <= g[Len(g)].at /\ g[Len(g)].at \in Nat
  BY <1>1, <1>2, <1>3, LastBar
<1>5. Bin(t, span) \in Nat
  BY BinBounds
<1>6. f[Len(f)].at <= g[Len(g)].at
  BY <1>2, <1>4
<1>. QED
  BY <1>1, <1>4, <1>5, <1>6 DEF Ends, Positive

\* A sequence with the times of another, and more, is not shorter.
LEMMA LengthFills ==
  ASSUME NEW F, NEW G, Len(F) \in Nat, Len(G) \in Nat,
         \A i \in 1 .. Len(F) : F[i].at \in Nat,
         \A i, j \in 1 .. Len(F) : i < j => F[i].at < F[j].at,
         \A i \in 1 .. Len(F) : \E j \in 1 .. Len(G) : G[j].at = F[i].at
  PROVE  Len(F) <= Len(G)
<1>. DEFINE place == [i \in 1 .. Len(F) |-> CHOOSE j \in 1 .. Len(G) : G[j].at = F[i].at]
<1>1. \A i \in 1 .. Len(F) : place[i] \in 1 .. Len(G) /\ G[place[i]].at = F[i].at
  OBVIOUS
<1>2. place \in [1 .. Len(F) -> 1 .. Len(G)] /\ DOMAIN place = 1 .. Len(F)
  BY <1>1
<1>. HIDE DEF place
<1>3. ASSUME NEW i \in 1 .. Len(F), NEW j \in 1 .. Len(F), place[i] = place[j] PROVE i = j
  <2>1. F[i].at = F[j].at
    BY <1>1, <1>3
  <2>2. F[i].at \in Nat /\ F[j].at \in Nat
    OBVIOUS
  <2>3. ~(i < j)
    <3>1. i < j => F[i].at < F[j].at
      OBVIOUS
    <3>. QED
      BY <2>1, <2>2, <3>1
  <2>4. ~(j < i)
    <3>1. j < i => F[j].at < F[i].at
      OBVIOUS
    <3>. QED
      BY <2>1, <2>2, <3>1
  <2>. QED
    BY <2>3, <2>4
<1>4. place \in Injection(1 .. Len(F), 1 .. Len(G))
  BY <1>2, <1>3 DEF Injection, IsInjective
<1>5. 1 \in Int /\ Len(F) \in Int /\ Len(G) \in Int
  OBVIOUS
<1>6. IsFiniteSet(1 .. Len(G)) /\ Cardinality(1 .. Len(G)) = Len(G)
  <2>1. IsFiniteSet(1 .. Len(G)) /\ Cardinality(1 .. Len(G)) = IF 1 > Len(G) THEN 0 ELSE Len(G) - 1 + 1
    BY <1>5, FS_Interval
  <2>. QED
    BY <2>1
<1>7. Cardinality(1 .. Len(F)) = Len(F)
  <2>1. Cardinality(1 .. Len(F)) = IF 1 > Len(F) THEN 0 ELSE Len(F) - 1 + 1
    BY <1>5, FS_Interval
  <2>. QED
    BY <2>1
<1>. QED
  BY <1>4, <1>6, <1>7, FS_Injection

\* A candle of a bar.
LEMMA CandleOfBar ==
  ASSUME NEW f, FrameOK(f), NEW span \in Positive, NEW n \in 1 .. Len(f)
  PROVE  LET G == Grouped(f, span)
             R == Resample(f, span)
         IN  \E q \in 1 .. Len(G) :
               /\ \A i \in 1 .. Len(G) : G[i].at = Bin(f[n].at, span) <=> i = q
               /\ q \in 1 .. Len(R) <=> Ends(f, f[n].at, span)
<1>. DEFINE G == Grouped(f, span)
            t == Bin(f[n].at, span)
<1>1. PICK q \in 1 .. Len(G) : Around(G, q, f[n].at, span)
  BY AroundBar
<1>2. FrameOK(G)
  BY GroupedShaped DEF Shaped
<1>3. Len(G) \in Nat /\ \A i \in 1 .. Len(G) : G[i].at \in Nat
  BY <1>2, FrameBars
<1>4. t \in Nat /\ span \in Nat /\ span > 0
  <2>1. f[n].at \in Nat
    BY FrameBars
  <2>2. t \in Nat
    BY <2>1, BinBounds, Zenon
  <2>. QED
    BY <2>2 DEF Positive
<1>5. /\ G[q].at = t
      /\ \A i \in 1 .. (q - 1) : G[i].at + span <= t
      /\ \A i \in (q + 1) .. Len(G) : t + span <= G[i].at
  BY <1>1 DEF Around
<1>6. q \in 1 .. Len(Resample(f, span)) <=> Ends(f, f[n].at, span)
  BY <1>1, <1>3, ResampleAround
<1>. HIDE DEF G, t
<1>7. ASSUME NEW i \in 1 .. Len(G), G[i].at = t PROVE i = q
  <2>1. i \notin 1 .. (q - 1)
    BY <1>3, <1>4, <1>5, <1>7
  <2>2. i \notin (q + 1) .. Len(G)
    BY <1>3, <1>4, <1>5, <1>7
  <2>. QED
    BY <1>1, <1>3, <2>1, <2>2
<1>. QED
  BY <1>5, <1>6, <1>7 DEF G, t

\* More bars have no fewer candles that have ended.
LEMMA TriggerFills ==
  ASSUME NEW f, FrameOK(f), NEW g, Fills(f, g), ConfigOK
  PROVE  /\ Len(TriggerFrame(f)) \in Nat /\ Len(TriggerFrame(g)) \in Nat
         /\ Len(TriggerFrame(f)) <= Len(TriggerFrame(g))
<1>. DEFINE span == config.span
            R(h) == Resample(h, span)
<1>1. span \in Positive /\ FrameOK(g)
  BY DEF ConfigOK, Fills
<1>2. \A i \in 1 .. Len(f) : \E j \in 1 .. Len(g) : g[j].at = f[i].at
  BY DEF Fills
<1>3. Len(f) <= Len(g) /\ Len(f) \in Nat /\ Len(g) \in Nat
  BY <1>1, <1>2, FrameBars, LengthFills
<1>4. /\ Len(R(f)) \in Nat /\ Len(R(f)) <= Len(Grouped(f, span)) /\ Len(Grouped(f, span)) \in Nat
      /\ \A i \in 1 .. Len(R(f)) : R(f)[i] = Grouped(f, span)[i] /\ i \in 1 .. Len(Grouped(f, span))
  <2>1. /\ R(f) \in Seq(Bars) /\ Len(R(f)) <= Len(Grouped(f, span))
        /\ \A i \in 1 .. Len(R(f)) : R(f)[i] = Grouped(f, span)[i]
    BY <1>1, ResampleIs
  <2>2. FrameOK(Grouped(f, span))
    BY <1>1, GroupedShaped DEF Shaped
  <2>3. Len(R(f)) \in Nat /\ Len(Grouped(f, span)) \in Nat
    BY <2>1, <2>2, FrameBars
  <2>. QED
    BY <2>1, <2>3
<1>5. /\ Len(R(g)) \in Nat
      /\ \A i \in 1 .. Len(R(g)) : R(g)[i] = Grouped(g, span)[i]
  BY <1>1, ResampleIs
<1>6. Shaped(Grouped(f, span), f, Len(f), span)
  BY <1>1, GroupedShaped
<1>. HIDE DEF R, span
<1>7. ASSUME NEW i \in 1 .. Len(R(f)) PROVE \E j \in 1 .. Len(R(g)) : R(g)[j].at = R(f)[i].at
  <2>1. PICK n \in 1 .. Len(f) : Grouped(f, span)[i].at = Bin(f[n].at, span)
    BY <1>4, <1>6 DEF Shaped
  <2>2. PICK q \in 1 .. Len(Grouped(f, span)) :
          /\ \A x \in 1 .. Len(Grouped(f, span)) : Grouped(f, span)[x].at = Bin(f[n].at, span) <=> x = q
          /\ q \in 1 .. Len(R(f)) <=> Ends(f, f[n].at, span)
    BY <1>1, CandleOfBar DEF R
  <2>3. i = q /\ Ends(f, f[n].at, span)
    BY <1>4, <2>1, <2>2
  <2>4. PICK j \in 1 .. Len(g) : g[j] = f[n]
    BY DEF Fills
  <2>5. Ends(g, g[j].at, span)
    <3>1. f[n].at \in Nat /\ Len(f) > 0
      BY FrameBars
    <3>. QED
      BY <1>1, <2>3, <2>4, <3>1, FillsEnds
  <2>6. PICK r \in 1 .. Len(Grouped(g, span)) :
          /\ \A x \in 1 .. Len(Grouped(g, span)) : Grouped(g, span)[x].at = Bin(g[j].at, span) <=> x = r
          /\ r \in 1 .. Len(R(g)) <=> Ends(g, g[j].at, span)
    BY <1>1, CandleOfBar DEF R
  <2>7. r \in 1 .. Len(R(g)) /\ R(g)[r].at = Bin(g[j].at, span)
    BY <1>5, <2>5, <2>6
  <2>. QED
    BY <1>4, <2>1, <2>4, <2>7
<1>8. Len(R(f)) <= Len(R(g))
  <2>1. FrameOK(Grouped(f, span))
    BY <1>6 DEF Shaped
  <2>2. \A i \in 1 .. Len(R(f)) : R(f)[i].at \in Nat
    BY <1>4, <2>1, FrameBars
  <2>3. \A i, j \in 1 .. Len(R(f)) : i < j => R(f)[i].at < R(f)[j].at
    BY <1>4, <2>1, FrameBars
  <2>. QED
    BY <1>4, <1>5, <1>7, <2>2, <2>3, LengthFills
<1>. QED
  BY <1>3, <1>4, <1>5, <1>8 DEF TriggerFrame, R, span

\* Frames that agree before a bar of the first agree on it.
LEMMA MeetAt ==
  ASSUME NEW f, FrameOK(f), NEW g, Fills(f, g), NEW m \in 1 .. Len(f), Agree(f, g, 0, f[m].at)
  PROVE  SameBefore(f, g, f[m].at) /\ Meet(f, g, m) /\ f[m] = g[m]
<1>. DEFINE t == f[m].at
<1>1. /\ Len(f) \in Nat /\ Len(g) \in Nat /\ FrameOK(g) /\ t \in Nat
      /\ \A i \in 1 .. Len(f) : f[i].at \in Nat
      /\ \A i \in 1 .. Len(g) : g[i].at \in Nat
      /\ \A i, j \in 1 .. Len(f) : i < j => f[i].at < f[j].at
      /\ \A i, j \in 1 .. Len(g) : i < j => g[i].at < g[j].at
  BY FrameBars DEF Fills
<1>2. SameBefore(f, g, t)
  BY <1>1, PrefixSame
<1>3. ASSUME NEW j \in 1 .. Len(g), g[j].at < t + 1 PROVE \E i \in 1 .. Len(f) : f[i] = g[j]
  <2>1. CASE g[j].at < t
    <3>1. 0 <= g[j].at
      BY <1>1
    <3>. QED
      BY <2>1, <3>1, Zenon DEF Agree
  <2>2. CASE g[j].at = t
    <3>1. PICK i \in 1 .. Len(g) : g[i] = f[m]
      BY DEF Fills
    <3>2. g[i].at = g[j].at
      BY <2>2, <3>1
    <3>3. ~(i < j) /\ ~(j < i)
      BY <1>1, <3>2
    <3>. QED
      BY <1>1, <3>1, <3>3
  <2>. QED
    BY <1>1, <1>3, <2>1, <2>2
<1>4. Agree(f, g, 0, t + 1)
  BY <1>3 DEF Agree
<1>5. SameBefore(f, g, t + 1)
  BY <1>1, <1>4, PrefixSame
<1>6. ASSUME NEW i \in 1 .. Len(f), i <= m PROVE i \in 1 .. Len(g) /\ f[i] = g[i]
  <2>1. f[i].at <= t
    BY <1>1, <1>6
  <2>2. f[i].at < t + 1
    BY <1>1, <2>1
  <2>. QED
    BY <1>5, <2>2 DEF SameBefore
<1>7. m \in 1 .. Len(g) /\ f[m] = g[m]
  BY <1>1, <1>6
<1>8. \A i \in 1 .. (m - 1) : f[i] = g[i]
  BY <1>1, <1>6
<1>. QED
  BY <1>2, <1>7, <1>8 DEF Meet

\* The candle of a label that is accepted has ended, and there are enough candles.
LEMMA SetupEnded ==
  ASSUME SessionsOK, ConfigOK, NEW f, FrameOK(f), NEW d, NEW k \in DOMAIN scenario.sessions, NEW dir,
         Verdict(f, d, k, dir).is = "SETUP", config.trigger # "NONE"
  PROVE  Ends(f, Verdict(f, d, k, dir).entry, config.span) /\ Len(TriggerFrame(f)) >= MinBars
<1>. DEFINE s == scenario.sessions[k]
            p == Previous(f, k)
            b == FirstBreak(f, k, dir)
            prev == SessionSlice(d, p)
            F == Found(f, d, s, dir, b, prev)
            x == Told(F)
<1>1. Reached(f, k, dir) /\ b \in Nat
  BY SetupHas
<1>2. Verdict(f, d, k, dir) = Broken(f, d, s, p, dir, b)
  BY <1>1, VerdictIs
<1>3. PICK v : v = Verdict(f, d, k, dir) /\ v.is = "SETUP"
  OBVIOUS
<1>. HIDE DEF s, p, b, prev, F, x
<1>4. v = Trigger(f, d, s, dir, b, prev)
  BY <1>2, <1>3, BrokenIs DEF Refused, prev
<1>5. v = IF DOMAIN F = {} THEN Refused("NO_LABEL", b, None)
          ELSE IF F[x] = "SETUP"
            THEN [is |-> "SETUP", break |-> b, label |-> x.label, entry |-> x.entry]
            ELSE Refused(F[x], b, x.label)
  BY <1>4, TriggerIs DEF F, x
<1>6. DOMAIN F # {} /\ F[x] = "SETUP" /\ v.entry = x.entry
  BY <1>3, <1>5 DEF Refused
<1>7. DOMAIN F = Possible(f, dir, b)
  BY DEF F, Found
<1>8. x \in Possible(f, dir, b)
  BY <1>1, <1>6, <1>7, PossibleLabels, ToldIs DEF x
<1>. QED
  BY <1>1, <1>3, <1>6, <1>8, PossibleEnded

\* A setup depends on the bars before its entry, and on the opening of that one.
LEMMA PrefixCertain ==
  ASSUME SessionsOK, ConfigOK, MinBars \in Nat, NEW f, FrameOK(f), NEW g, Fills(f, g), NEW d, FrameOK(d),
         NEW k \in DOMAIN scenario.sessions, NEW dir,
         Verdict(f, d, k, dir).is = "SETUP", Verdict(f, d, k, dir).break < Verdict(f, d, k, dir).entry,
         Agree(f, g, 0, Verdict(f, d, k, dir).entry)
  PROVE  Verdict(g, d, k, dir) = Verdict(f, d, k, dir)
<1>1. PICK v : v = Verdict(f, d, k, dir)
  OBVIOUS
<1>2. v.entry \in Nat /\ \E m \in 1 .. Len(f) : f[m].at = v.entry
  BY <1>1, SetupHas
<1>3. PICK m \in 1 .. Len(f) : f[m].at = v.entry
  BY <1>2
<1>4. FrameOK(g) /\ Len(f) \in Nat /\ Len(f) > 0
  BY FrameBars DEF Fills
<1>5. SameBefore(f, g, f[m].at) /\ Meet(f, g, m) /\ f[m] = g[m]
  BY <1>1, <1>3, MeetAt
<1>6. PassedAlike(f, g, f[m].at)
  BY <1>4, <1>5, PassedSame DEF PassedAlike
<1>7. LabelsMeet(f, g, m)
  <2>. SUFFICES ASSUME config.trigger # "NONE"
                PROVE  /\ Ends(f, f[m].at, config.span) /\ Ends(g, f[m].at, config.span)
                       /\ Len(TriggerFrame(f)) >= MinBars /\ Len(TriggerFrame(g)) >= MinBars
    BY DEF LabelsMeet
  <2>1. Ends(f, f[m].at, config.span) /\ Len(TriggerFrame(f)) >= MinBars
    BY <1>1, <1>3, SetupEnded
  <2>2. Ends(g, f[m].at, config.span)
    BY <1>2, <1>3, <1>4, <2>1, FillsEnds DEF ConfigOK
  <2>3. Len(TriggerFrame(g)) >= MinBars
    BY <2>1, TriggerFills
  <2>. QED
    BY <2>1, <2>2, <2>3
<1>8. SameBefore(d, d, f[m].at)
  BY DEF SameBefore
<1>9. f[m].at \in Nat /\ f[m].at <= f[m].at /\ v.entry <= f[m].at /\ v.break < f[m].at
  BY <1>1, <1>2, <1>3
<1>. QED
  BY <1>1, <1>4, <1>5, <1>6, <1>7, <1>8, <1>9, VerdictSame

\* The first bar from t on is that of the fuller frame if the two agree up to it.
LEMMA FirstTimeFills ==
  ASSUME NEW f, FrameOK(f), NEW g, Fills(f, g), NEW t \in Nat, Times(f, t) # {},
         NEW a \in Nat, a <= t, Agree(f, g, a, Min(Times(f, t)))
  PROVE  Times(g, t) # {} /\ Min(Times(g, t)) = Min(Times(f, t))
<1>1. /\ FrameOK(g)
      /\ \A i \in 1 .. Len(f) : f[i].at \in Nat
      /\ \A i \in 1 .. Len(g) : g[i].at \in Nat
  BY FrameBars DEF Fills
<1>2. PICK i \in 1 .. Len(f) : /\ Min(Times(f, t)) = f[i].at /\ f[i].at >= t
                               /\ \A n \in 1 .. Len(f) : f[n].at >= t => f[i].at <= f[n].at
  BY FirstTime
<1>3. PICK n \in 1 .. Len(g) : g[n] = f[i]
  BY DEF Fills
<1>4. Times(g, t) # {}
  <2>1. g[n].at \in Times(g, t)
    BY <1>1, <1>2, <1>3, TimesAre
  <2>. QED
    BY <2>1
<1>5. PICK j \in 1 .. Len(g) : /\ Min(Times(g, t)) = g[j].at /\ g[j].at >= t
                               /\ \A r \in 1 .. Len(g) : g[r].at >= t => g[j].at <= g[r].at
  BY <1>1, <1>4, FirstTime
<1>6. g[j].at <= f[i].at
  BY <1>2, <1>3, <1>5
<1>7. ~(g[j].at < f[i].at)
  <2>. SUFFICES ASSUME g[j].at < f[i].at PROVE FALSE
    OBVIOUS
  <2>1. a <= g[j].at
    BY <1>1, <1>5
  <2>2. PICK r \in 1 .. Len(f) : f[r] = g[j]
    BY <1>2, <2>1, Zenon DEF Agree
  <2>3. f[i].at <= f[r].at
    BY <1>2, <1>5, <2>2
  <2>. QED
    BY <1>1, <2>2, <2>3
<1>. QED
  BY <1>1, <1>2, <1>4, <1>5, <1>6, <1>7

\* Without a trigger and without zones a setup depends on the bars of its previous
\* session and of its own up to its entry.
LEMMA PlainTrigger ==
  ASSUME ConfigOK, config.trigger = "NONE", config.timeframes = {},
         NEW f, FrameOK(f), NEW g, Fills(f, g), NEW d, NEW s, NEW dir, NEW b \in Nat, NEW prev,
         Trigger(f, d, s, dir, b, prev).is = "SETUP", NEW a \in Nat, a <= b,
         Agree(f, g, a, Trigger(f, d, s, dir, b, prev).entry)
  PROVE  Trigger(g, d, s, dir, b, prev) = Trigger(f, d, s, dir, b, prev)
<1>. DEFINE F(h) == Found(h, d, s, dir, b, prev)
            first(h) == [entry |-> Min(Times(h, b + 1)), label |-> b]
<1>1. \A h : Possible(h, dir, b) = IF Times(h, b + 1) # {} THEN {first(h)} ELSE {}
  BY PossibleIs
<1>2. \A h, x : Judgement(h, d, s, dir, b, prev, x) =
        IF config.delay # None /\ x.entry - b > config.delay THEN "LABEL_TOO_LATE"
        ELSE IF x.entry >= s.end THEN "ENTRY_OUTSIDE_SESSION"
        ELSE IF Confirming(d, s, dir, prev, x) THEN "DXY_CONFIRMED"
        ELSE "SETUP"
  BY DEF Judgement, Confirming, ZoneFound
<1>3. \A h : DOMAIN F(h) = Possible(h, dir, b) /\ F(h) = [x \in Possible(h, dir, b) |-> Judgement(h, d, s, dir, b, prev, x)]
  BY DEF Found
<1>4. \A h : Trigger(h, d, s, dir, b, prev) =
        IF DOMAIN F(h) = {} THEN Refused("NO_LABEL", b, None)
        ELSE IF F(h)[Told(F(h))] = "SETUP"
          THEN [is |-> "SETUP", break |-> b, label |-> Told(F(h)).label, entry |-> Told(F(h)).entry]
          ELSE Refused(F(h)[Told(F(h))], b, Told(F(h)).label)
  BY TriggerIs
<1>5. PICK v : v = Trigger(f, d, s, dir, b, prev)
  OBVIOUS
<1>. HIDE DEF F, first
<1>6. DOMAIN F(f) # {} /\ F(f)[Told(F(f))] = "SETUP" /\ v.entry = Told(F(f)).entry
  <2>1. PICK x : x = Told(F(f))
    OBVIOUS
  <2>2. PICK r : r = F(f)[x]
    OBVIOUS
  <2>3. v = IF DOMAIN F(f) = {} THEN Refused("NO_LABEL", b, None)
            ELSE IF r = "SETUP"
              THEN [is |-> "SETUP", break |-> b, label |-> x.label, entry |-> x.entry]
              ELSE Refused(r, b, x.label)
    BY <1>4, <1>5, <2>1, <2>2
  <2>4. v.is = "SETUP"
    BY <1>5
  <2>5. DOMAIN F(f) # {} /\ r = "SETUP"
    BY <2>3, <2>4 DEF Refused
  <2>6. v.entry = x.entry
    BY <2>3, <2>5
  <2>. QED
    BY <2>1, <2>2, <2>5, <2>6
<1>7. Times(f, b + 1) # {} /\ DOMAIN F(f) = {first(f)}
  BY <1>1, <1>3, <1>6
<1>8. Told(F(f)) = first(f)
  <2>1. Told(F(f)) \in DOMAIN F(f)
    <3>1. Labels(DOMAIN F(f))
      BY <1>3, PossibleLabels
    <3>. QED
      BY <1>6, <3>1, ToldIs
  <2>. QED
    BY <1>7, <2>1
<1>9. v.entry = Min(Times(f, b + 1))
  BY <1>6, <1>8 DEF first
<1>10. Times(g, b + 1) # {} /\ Min(Times(g, b + 1)) = Min(Times(f, b + 1))
  <2>1. b + 1 \in Nat /\ a <= b + 1
    OBVIOUS
  <2>. QED
    BY <1>5, <1>7, <1>9, <2>1, FirstTimeFills
<1>11. Possible(g, dir, b) = Possible(f, dir, b)
  BY <1>1, <1>7, <1>10 DEF first
<1>12. F(g) = F(f)
  <2>1. \A x : Judgement(g, d, s, dir, b, prev, x) = Judgement(f, d, s, dir, b, prev, x)
    BY <1>2
  <2>. QED
    BY <1>3, <1>11, <2>1
<1>. QED
  BY <1>4, <1>12

LEMMA PlainCertain ==
  ASSUME SessionsOK, ConfigOK, config.trigger = "NONE", config.timeframes = {},
         NEW f, FrameOK(f), NEW g, Fills(f, g), NEW d,
         NEW k \in DOMAIN scenario.sessions, NEW dir, ~Skips(f, k),
         Verdict(f, d, k, dir).is = "SETUP", Verdict(f, d, k, dir).break < Verdict(f, d, k, dir).entry,
         Agree(f, g, Previous(f, k).start, Previous(f, k).end),
         Agree(f, g, scenario.sessions[k].start, Verdict(f, d, k, dir).entry)
  PROVE  Verdict(g, d, k, dir) = Verdict(f, d, k, dir)
<1>. DEFINE s == scenario.sessions[k]
            p == Previous(f, k)
            b == FirstBreak(f, k, dir)
            v == Verdict(f, d, k, dir)
<1>1. Reached(f, k, dir) /\ v.break = b /\ v.entry \in Nat
  BY SetupHas
<1>2. b \in Nat /\ s.start <= b /\ s.start \in Nat
  BY <1>1, FirstBreakIs DEF ConfigOK, SessionsOK, Session
<1>3. Reached(g, k, dir) /\ Previous(g, k) = p /\ FirstBreak(g, k, dir) = b
  BY <1>1, ReachedFills DEF ConfigOK
<1>4. v = Broken(f, d, s, p, dir, b) /\ Verdict(g, d, k, dir) = Broken(g, d, s, p, dir, b)
  BY <1>1, <1>3, VerdictIs
<1>5. v.is = "SETUP" /\ Agree(f, g, s.start, v.entry)
  OBVIOUS
<1>. HIDE DEF s, p, b, v
<1>6. /\ ~Missing(d, s, p, b) /\ ~Confirmed(d, s, p, dir, b)
      /\ v = Trigger(f, d, s, dir, b, SessionSlice(d, p))
  BY <1>4, <1>5, BrokenIs DEF Refused
<1>7. Verdict(g, d, k, dir) = Trigger(g, d, s, dir, b, SessionSlice(d, p))
  BY <1>4, <1>6, BrokenIs
<1>8. Trigger(g, d, s, dir, b, SessionSlice(d, p)) = v
  BY <1>2, <1>5, <1>6, PlainTrigger
<1>. QED
  BY <1>7, <1>8 DEF v

\* The minutes up to the time a setup is judged at are in one of its windows: those
\* of the previous session and of its own, and all of them for a label or a zone.
LEMMA WindowsCover ==
  ASSUME NEW p \in Session, NEW s \in Session, NEW f, NEW v, JudgedAt(v, s) \in Nat,
         v.label \in Optional(Nat), NEW t \in Nat, t < JudgedAt(v, s)
  PROVE  LET own == (p.start <= t /\ t < p.end) \/ s.start <= t
         IN  /\ own => Covered(Windows(f, p, s, v), t)
             /\ own /\ NeedsDollar(v) => Covered(DollarWindows(p, s, v), t)
             /\ (NeedsZone(v) \/ NeedsLabel(v)) /\ t >= 1 => Covered(Windows(f, p, s, v), t)
<1>. DEFINE at == JudgedAt(v, s)
            label == Min({IF v.label = None THEN at ELSE v.label, at})
            window(from, to, part) == [from |-> from, to |-> Bounded(to, at), part |-> part]
            W == Windows(f, p, s, v)
            D == DollarWindows(p, s, v)
<1>1. /\ window(p.start, p.end, "SESSION_LIQUIDITY") \in W
      /\ window(s.start, at, "SESSION_LIQUIDITY") \in W
      /\ NeedsZone(v) => window(1, at, "HTF_ZONE") \in W
      /\ NeedsLabel(v) => /\ window(1, label + 1, "TRIGGER") \in W
                          /\ window(label + 1, at, "LABEL_CONFIRMATION") \in W
  BY DEF Windows
<1>2. NeedsDollar(v) => /\ window(p.start, p.end, "DXY_DIVERGENCE") \in D
                        /\ window(s.start, at, "DXY_DIVERGENCE") \in D
  BY DEF DollarWindows
<1>3. at \in Nat /\ label \in Nat /\ t < at
  <2>1. at \in Nat /\ (IF v.label = None THEN at ELSE v.label) \in Nat
    BY DEF Optional
  <2>2. \A a, b \in Nat : Min({a, b}) \in Nat
    BY SmallerIs
  <2>. QED
    BY <2>1, <2>2
<1>4. p.start \in Nat /\ p.end \in Nat /\ s.start \in Nat
  BY DEF Session
<1>5. ASSUME NEW from, NEW to \in Nat, NEW part, from <= t, t < to,
             NEW V, window(from, to, part) \in V
      PROVE  Covered(V, t)
  <2>1. Bounded(to, at) = to \/ Bounded(to, at) = at
    BY <1>3, SmallerIs DEF Bounded
  <2>2. t < window(from, to, part).to /\ window(from, to, part).from = from
    BY <1>3, <1>5, <2>1
  <2>. QED
    BY <1>5, <2>2 DEF Covered
<1>. HIDE DEF at, label, window, W, D
<1>6. p.start <= t /\ t < p.end => Covered(W, t) /\ (NeedsDollar(v) => Covered(D, t))
  BY <1>1, <1>2, <1>4, <1>5
<1>7. s.start <= t => Covered(W, t) /\ (NeedsDollar(v) => Covered(D, t))
  BY <1>1, <1>2, <1>3, <1>5
<1>8. NeedsZone(v) /\ t >= 1 => Covered(W, t)
  BY <1>1, <1>3, <1>5
<1>9. ASSUME NeedsLabel(v), t >= 1 PROVE Covered(W, t)
  <2>1. label + 1 \in Nat
    BY <1>3
  <2>2. CASE t < label + 1
    <3>1. 1 <= t
      BY <1>9
    <3>. QED
      BY <1>1, <1>5, <1>9, <2>1, <2>2, <3>1
  <2>3. CASE label + 1 <= t
    BY <1>1, <1>3, <1>5, <1>9, <2>3
  <2>. QED
    BY <2>1, <2>2, <2>3
<1>. QED
  BY <1>6, <1>7, <1>8, <1>9 DEF W, D

\* The bars that a warm-up ends at are there as soon as there is one.
LEMMA WarmBar ==
  ASSUME NEW f, FrameOK(f), Len(f) > 0
  PROVE  f[Min({WarmBars, Len(f)})].at \in Nat
<1>1. Len(f) \in Nat /\ WarmBars \in Nat /\ WarmBars > 0
  BY WarmAssumption, FrameBars
<1>2. \/ Min({WarmBars, Len(f)}) = WarmBars /\ WarmBars <= Len(f)
      \/ Min({WarmBars, Len(f)}) = Len(f)
  BY <1>1, SmallerIs
<1>3. Min({WarmBars, Len(f)}) \in 1 .. Len(f)
  BY <1>1, <1>2
<1>. QED
  BY <1>3, FrameBars

\* What COMPLETE says of frames that are filled in: they keep the bars of the
\* previous session and those up to the time the verdict is given at.
LEMMA CompleteFrames ==
  ASSUME NEW f, FrameOK(f), Len(f) > 0, NEW g, Fills(f, g), NEW d, FrameOK(d), NEW e, Fills(d, e),
         NEW k, NEW v, v.label \in Optional(Nat),
         Status(v, SetupEvents(f, d, k, v)) = "COMPLETE",
         NEW p \in Session, p = Previous(f, k), NEW s \in Session, s = scenario.sessions[k],
         NEW at \in Nat, at = JudgedAt(v, s)
  PROVE  /\ Agree(f, g, s.start, at)
         /\ p.end <= at => Agree(f, g, p.start, p.end)
         /\ NeedsZone(v) \/ NeedsLabel(v) => Agree(f, g, 0, at)
         /\ NeedsDollar(v) => Agree(d, e, s.start, at)
         /\ NeedsDollar(v) /\ p.end <= at => Agree(d, e, p.start, p.end)
<1>. DEFINE W == Windows(f, p, s, v)
            D == DollarWindows(p, s, v)
<1>1. Selected(f, W) = {} /\ Selected(d, D) = {}
  BY DEF Status, Quality, SetupEvents, Previous
<1>2. Between(W) /\ Between(D)
  BY WarmBar, WindowsEnd
<1>3. p.start \in Nat /\ p.end \in Nat /\ s.start \in Nat
  BY DEF Session
<1>4. ASSUME NEW t \in Nat, t < at
      PROVE  LET own == (p.start <= t /\ t < p.end) \/ s.start <= t
             IN  /\ own => Covered(W, t)
                 /\ own /\ NeedsDollar(v) => Covered(D, t)
                 /\ (NeedsZone(v) \/ NeedsLabel(v)) /\ t >= 1 => Covered(W, t)
  BY <1>4, WindowsCover
<1>. HIDE DEF W, D
<1>5. Agree(f, g, s.start, at)
  <2>1. \A t \in Nat : s.start <= t /\ t < at => Covered(W, t)
    BY <1>4
  <2>. QED
    BY <1>1, <1>2, <1>3, <2>1, CompleteAgrees
<1>6. ASSUME p.end <= at PROVE Agree(f, g, p.start, p.end)
  <2>1. \A t \in Nat : p.start <= t /\ t < p.end => Covered(W, t)
    BY <1>3, <1>4, <1>6
  <2>. QED
    BY <1>1, <1>2, <1>3, <2>1, CompleteAgrees
<1>7. ASSUME NeedsZone(v) \/ NeedsLabel(v) PROVE Agree(f, g, 0, at)
  <2>1. \A t \in Nat : 1 <= t /\ t < at => Covered(W, t)
    BY <1>4, <1>7
  <2>2. Agree(f, g, 1, at)
    BY <1>1, <1>2, <2>1, CompleteAgrees
  <2>3. ASSUME NEW j \in 1 .. Len(g), g[j].at < at PROVE \E i \in 1 .. Len(f) : f[i] = g[j]
    <3>1. g[j].at \in Nat
      BY FrameBars DEF Fills
    <3>2. CASE 1 <= g[j].at
      BY <2>2, <2>3, <3>2, Zenon DEF Agree
    <3>3. CASE ~(1 <= g[j].at)
      <4>1. g[j].at \notin 1 .. scenario.horizon
        BY <3>3
      <4>2. g[j].at \notin Lost(f)
        BY <4>1, MissingIs DEF Lost
      <4>. QED
        BY <4>2 DEF Fills
    <3>. QED
      BY <3>2, <3>3
  <2>. QED
    BY <2>3 DEF Agree
<1>8. ASSUME NeedsDollar(v) PROVE Agree(d, e, s.start, at)
  <2>1. \A t \in Nat : s.start <= t /\ t < at => Covered(D, t)
    BY <1>4, <1>8
  <2>. QED
    BY <1>1, <1>2, <1>3, <2>1, CompleteAgrees
<1>9. ASSUME NeedsDollar(v), p.end <= at PROVE Agree(d, e, p.start, p.end)
  <2>1. \A t \in Nat : p.start <= t /\ t < p.end => Covered(D, t)
    BY <1>3, <1>4, <1>9
  <2>. QED
    BY <1>1, <1>2, <1>3, <2>1, CompleteAgrees
<1>. QED
  BY <1>5, <1>6, <1>7, <1>8, <1>9

-----------------------------------------------------------------------------
(* A verdict that is COMPLETE.                                              *)

LEMMA SetupCertain ==
  ASSUME SessionsOK, ConfigOK, config.trace,
         NEW f, FrameOK(f), NEW g, Fills(f, g), NEW d, FrameOK(d), NEW e, Fills(d, e),
         NEW k \in DOMAIN scenario.sessions, NEW dir, ~Skips(f, k),
         Verdict(f, d, k, dir).is = "SETUP", Verdict(f, d, k, dir).break < Verdict(f, d, k, dir).entry,
         LET v == Verdict(f, d, k, dir) IN Status(v, SetupEvents(f, d, k, v)) = "COMPLETE"
  PROVE  Verdict(g, e, k, dir) = Verdict(f, d, k, dir)
<1>. DEFINE s == scenario.sessions[k]
            p == Previous(f, k)
            v == Verdict(f, d, k, dir)
            at == v.entry
<1>1. /\ at \in Nat /\ v.label \in Nat /\ v.break < at /\ v.is = "SETUP"
      /\ Reached(f, k, dir) /\ v.break = FirstBreak(f, k, dir)
      /\ \E m \in 1 .. Len(f) : f[m].at = at
  BY SetupHas
<1>2. Len(f) > 0 /\ FrameOK(g) /\ FrameOK(e)
  BY <1>1, FrameBars DEF Fills
<1>3. p \in Session /\ s \in Session /\ p.end <= at
  <2>1. p \in Session /\ p.end <= FirstBreak(f, k, dir) /\ FirstBreak(f, k, dir) \in Nat
    BY <1>1, FirstBreakIs DEF ConfigOK
  <2>2. p.end \in Nat /\ s \in Session
    BY <2>1 DEF Session, SessionsOK
  <2>. QED
    BY <1>1, <2>1, <2>2
<1>4. JudgedAt(v, s) = at
  BY <1>1 DEF JudgedAt
<1>5. Status(v, SetupEvents(f, d, k, v)) = "COMPLETE"
  OBVIOUS
<1>6. /\ Agree(f, g, p.start, p.end) /\ Agree(f, g, s.start, at)
      /\ NeedsZone(v) \/ NeedsLabel(v) => Agree(f, g, 0, at)
      /\ NeedsDollar(v) => Agree(d, e, p.start, p.end) /\ Agree(d, e, s.start, at)
  <2>. HIDE DEF v, p, s, at
  <2>1. v.label \in Optional(Nat)
    BY <1>1 DEF Optional
  <2>. QED
    BY <1>1, <1>2, <1>3, <1>4, <1>5, <2>1, CompleteFrames DEF p, s
<1>7. config.divergence => NeedsDollar(v)
  BY <1>1 DEF NeedsDollar
<1>8. Verdict(f, e, k, dir) = v
  BY <1>1, <1>6, <1>7, DollarCertain
<1>9. CASE config.trigger # "NONE" \/ config.timeframes # {}
  <2>1. NeedsZone(v) \/ NeedsLabel(v)
    BY <1>1, <1>9 DEF NeedsZone, NeedsLabel
  <2>2. MinBars \in Nat
    BY LabelAssumptions
  <2>. QED
    BY <1>1, <1>2, <1>6, <1>8, <2>1, <2>2, PrefixCertain
<1>10. CASE config.trigger = "NONE" /\ config.timeframes = {}
  BY <1>1, <1>6, <1>8, <1>10, PlainCertain
<1>. QED
  BY <1>9, <1>10

LEMMA RefusalCertain ==
  ASSUME SessionsOK, ConfigOK, config.trace, None \notin Nat,
         NEW f, FrameOK(f), NEW g, Fills(f, g), NEW d, FrameOK(d), NEW e, Fills(d, e),
         NEW k \in DOMAIN scenario.sessions, NEW dir, ~Skips(f, k),
         LET v == Verdict(f, d, k, dir)
         IN  /\ v.is = "NO_PAIR_BREAK" \/ (v.is = "DXY_CONFIRMED" /\ v.label = None)
             /\ Status(v, SetupEvents(f, d, k, v)) = "COMPLETE"
  PROVE  Verdict(g, e, k, dir) = Verdict(f, d, k, dir)
<1>. DEFINE s == scenario.sessions[k]
            p == Previous(f, k)
            b == FirstBreak(f, k, dir)
            v == Verdict(f, d, k, dir)
<1>1. k \in Active(f) /\ Earlier(f, k) # {}
  BY NoBreakIs, ConfirmedIs DEF Sought, Reached
<1>2. Len(f) > 0
  <2>1. PICK i : i \in SessionSlice(f, s)
    BY <1>1 DEF Active
  <2>2. i \in 1 .. Len(f) /\ Len(f) \in Nat
    BY <2>1, FrameBars DEF SessionSlice, Slice
  <2>. QED
    BY <2>2
<1>3. p \in Session /\ s \in Session /\ s.start \in Nat /\ s.end \in Nat
  BY <1>1, PreviousHas DEF SessionsOK, Session
<1>4. Status(v, SetupEvents(f, d, k, v)) = "COMPLETE"
  OBVIOUS
<1>5. CASE v.is = "NO_PAIR_BREAK"
  <2>1. v = Refused("NO_PAIR_BREAK", None, None)
    BY <1>5, NoBreakIs
  <2>2. JudgedAt(v, s) = s.end /\ v.label \in Optional(Nat)
    BY <2>1 DEF JudgedAt, Refused, Optional
  <2>3. Agree(f, g, s.start, s.end)
    <3>. HIDE DEF v, p, s
    <3>. QED
      BY <1>2, <1>3, <1>4, <2>2, CompleteFrames DEF p, s
  <2>. QED
    BY <1>5, <2>3, NoBreakCertain
<1>6. CASE v.is = "DXY_CONFIRMED" /\ v.label = None
  <2>1. /\ Reached(f, k, dir) /\ Confirmed(d, s, p, dir, b)
        /\ v = Refused("DXY_CONFIRMED", b, None)
    BY <1>6, ConfirmedIs
  <2>2. b \in Nat /\ p.end <= b /\ p.end \in Nat
    BY <1>3, <2>1, FirstBreakIs DEF ConfigOK, Session
  <2>3. v.break = b /\ b # None /\ v.label = None /\ v.is = "DXY_CONFIRMED"
    BY <2>1, <2>2 DEF Refused
  <2>4. JudgedAt(v, s) = b + 1 /\ v.label \in Optional(Nat) /\ NeedsDollar(v)
    <3>1. config.divergence
      BY <2>1 DEF Confirmed
    <3>. QED
      BY <2>3, <3>1 DEF JudgedAt, Optional, NeedsDollar
  <2>5. /\ Agree(f, g, p.start, p.end) /\ Agree(f, g, s.start, b + 1)
        /\ Agree(d, e, p.start, p.end) /\ Agree(d, e, s.start, b + 1)
    <3>. HIDE DEF v, p, s, b
    <3>1. b + 1 \in Nat /\ p.end <= b + 1
      BY <2>2
    <3>. QED
      BY <1>2, <1>3, <1>4, <2>4, <3>1, CompleteFrames DEF p, s
  <2>. QED
    BY <1>6, <2>3, <2>5, ConfirmedCertain
<1>. QED
  BY <1>5, <1>6

\* COMPLETE is certain: whatever the missing candles were, the verdict is the one
\* that was given (docs/TRACE.md:31).
THEOREM CompleteIsCertainHolds == Spec => []CompleteIsCertain
<1>1. ASSUME Market PROVE CompleteIsCertain
  <2>. SUFFICES ASSUME NEW y \in Considered,
                       LET v == Verdict(mid, dxy, y[1], y[2])
                       IN  /\ Judged(mid, dxy, y) /\ Firm(v) /\ ~Skips(mid, y[1])
                           /\ Status(v, SetupEvents(mid, dxy, y[1], v)) = "COMPLETE",
                       NEW f \in Filled(mid, scenario.bars), NEW d \in Filled(dxy, scenario.dollars)
                PROVE  Verdict(f, d, y[1], y[2]) = Verdict(mid, dxy, y[1], y[2])
    BY DEF CompleteIsCertain
  <2>1. SessionsOK /\ ConfigOK /\ config.trace /\ y[1] \in DOMAIN scenario.sessions
    BY <1>1, ScenarioOK DEF Market, Considered, Judged
  <2>2. /\ None \notin Nat
        /\ \A t \in 1 .. scenario.horizon : /\ scenario.bars[t] \subseteq Optional(Candle)
                                            /\ scenario.dollars[t] \subseteq Optional(Candle)
    <3>1. None \notin Int /\ MarketData(scenario)
      BY <1>1, ScenarioAssumptions DEF Market
    <3>. QED
      BY <3>1 DEF MarketData
  <2>3. Fills(mid, f)
    BY <1>1, <2>2, FilledIs DEF Market
  <2>4. Fills(dxy, d)
    BY <1>1, <2>2, FilledIs DEF Market
  <2>5. FrameOK(mid) /\ FrameOK(dxy)
    BY <1>1 DEF Market
  <2>6. PICK v : v = Verdict(mid, dxy, y[1], y[2])
    OBVIOUS
  <2>7. Firm(v) /\ ~Skips(mid, y[1]) /\ Status(v, SetupEvents(mid, dxy, y[1], v)) = "COMPLETE"
    BY <2>6
  <2>8. CASE v.is = "SETUP" /\ v.break < v.entry
    BY <2>1, <2>3, <2>4, <2>5, <2>6, <2>7, <2>8, SetupCertain
  <2>9. CASE v.is = "NO_PAIR_BREAK" \/ (v.is = "DXY_CONFIRMED" /\ v.label = None)
    BY <2>1, <2>2, <2>3, <2>4, <2>5, <2>6, <2>7, <2>9, RefusalCertain
  <2>. QED
    BY <2>7, <2>8, <2>9 DEF Firm
<1>. QED
  BY <1>1, MarketHolds, PTL
=============================================================================
