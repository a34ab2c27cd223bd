--------------------------- MODULE SetupCausality ---------------------------
(***************************************************************************)
(* How one pair's candles become setups: _build_candidates of              *)
(* app/research/engine.py.                                                 *)
(*                                                                         *)
(* The state is what a backtest reads: the pair's frame and the dollar     *)
(* index's, which grow by one minute at a time.  The engine computes its   *)
(* setups from the whole frames at once; nothing in it knows which minute  *)
(* it decides about.  So Verdict is a function of the frames, and the      *)
(* properties compare its value on a frame with its value on the frame as  *)
(* it was, or could have been.                                             *)
(*                                                                         *)
(* Prices are levels, minutes are numbers.                                 *)
(***************************************************************************)
EXTENDS LabelEvents, HigherFrames

CONSTANTS
  Scenarios,  \* what may happen and how the strategy is configured
  None        \* no bar, no limit

(***************************************************************************)
(* A scenario is a record of                                               *)
(*   horizon    the minutes of the period, which the market may reach      *)
(*   bars       for each minute the candles it may bring to the pair:      *)
(*              open, high, low, close and indicators, or None             *)
(*   dollars    the same for the dollar index                              *)
(*   sessions   in order of start: name, start, excluded end, whether the  *)
(*              trade date is a weekday of the period                      *)
(*   config     the parts of StrategyConfig that are used below; spans     *)
(*              maps the timeframes of zones to their minutes              *)
(***************************************************************************)

(* What the models of app/research/config.py accept.                        *)

Positive == Nat \ {0}
Optional(S) == S \cup {None}

DivergenceConfig(c) ==
  /\ c.directions \subseteq Directions
  /\ c.divergence => c.directions # {}
  /\ c.tolerance \in Nat

ZoneConfig(c) ==
  /\ c.timeframes \subseteq DOMAIN c.spans
  /\ \A tf \in c.timeframes : c.spans[tf] \in Positive
  /\ c.adr.percent \in 0 .. 100 /\ {c.adr.day, c.adr.length} \subseteq Positive
  /\ c.distance \in Nat /\ c.retests \in Optional(Nat) /\ c.expiry \in Optional(Positive)

TriggerConfig(c) ==
  /\ c.trigger \in {"NONE", "FAST", "CONFIRMED", "CUSTOM"}
  /\ c.span \in Positive /\ c.delay \in Optional(Positive)

\* Two sessions at least, and a named previous session is one of them.
StrategyConfig(s) ==
  LET names == {s.sessions[k].name : k \in DOMAIN s.sessions}
  IN  /\ DivergenceConfig(s.config) /\ ZoneConfig(s.config) /\ TriggerConfig(s.config)
      /\ Cardinality(names) >= 2
      /\ s.config.previous \in Optional(names)

\* build_session_instances: sorted by their start, which comes before their end.
Session == [name : STRING, start : Nat, end : Nat, traded : BOOLEAN]
SessionInstances(s) ==
  /\ s.sessions \in Seq(Session)
  /\ \A k \in DOMAIN s.sessions :
       /\ s.sessions[k].start < s.sessions[k].end
       /\ \A j \in 1 .. (k - 1) : s.sessions[j].start <= s.sessions[k].start

\* Candles of both frames, with the values of their indicators.
Candle == [o : Int, h : Int, l : Int, c : Int, ind : [Indicators -> Int]]
MarketData(s) ==
  /\ s.horizon \in Nat
  /\ \A t \in 1 .. s.horizon : s.bars[t] \cup s.dollars[t] \subseteq Optional(Candle)

ASSUME ScenarioAssumptions ==
  /\ None \notin Int
  /\ \A s \in Scenarios : StrategyConfig(s) /\ SessionInstances(s) /\ MarketData(s)

VARIABLES
  scenario,
  now,      \* the last minute that has closed
  mid,      \* the pair's frame
  dxy       \* the dollar index's frame

vars == <<scenario, now, mid, dxy>>
config == scenario.config

Init ==
  /\ scenario \in Scenarios
  /\ now = 0
  /\ mid = <<>>
  /\ dxy = <<>>

\* A minute closes.  Missing minutes are not filled.
At(b, t) == [at |-> t, o |-> b.o, h |-> b.h, l |-> b.l, c |-> b.c, ind |-> b.ind]

Extend(f, b) == IF b = None THEN f ELSE Append(f, At(b, now + 1))

Minute ==
  /\ now < scenario.horizon
  /\ now' = now + 1
  /\ \E b \in scenario.bars[now + 1] : mid' = Extend(mid, b)
  /\ \E b \in scenario.dollars[now + 1] : dxy' = Extend(dxy, b)
  /\ UNCHANGED scenario

Next == Minute
Spec == Init /\ [][Next]_vars

-----------------------------------------------------------------------------
(* Sessions and the levels of the previous one.                             *)

Slice(f, from, to) == {i \in DOMAIN f : from <= f[i].at /\ f[i].at < to}
SessionSlice(f, s) == Slice(f, s.start, s.end)

\* Sessions without a candle are skipped.
Active(f) == {k \in DOMAIN scenario.sessions : SessionSlice(f, scenario.sessions[k]) # {}}

Earlier(f, k) ==
  {j \in Active(f) :
     j < k /\ config.previous \in {None, scenario.sessions[j].name}}

\* The extremum of a set of bars on the side a direction looks at.
Highest(f, S, dir) == Max({Reach(f[i], dir) : i \in S})
Opposite(dir) == IF dir = "short" THEN "long" ELSE "short"

\* The previous session is fully inside the loaded candles; in the trace mode it
\* is enough that it is inside the period that was asked for.
Loaded(f, s) ==
  \/ f[1].at <= s.start /\ s.end <= f[Len(f)].at + 1
  \/ config.trace /\ 1 <= s.start /\ s.end <= scenario.horizon + 1

-----------------------------------------------------------------------------
(* The break and the dollar index.                                          *)

Breaking(f, s, level, dir) ==
  {i \in SessionSlice(f, s) : Reach(f[i], dir) > level + config.tolerance}

\* No bar at all, or two bars of the slice more than a minute apart.
HasGap(d, from, to) ==
  LET S == Slice(d, from, to)
  IN  S = {} \/ \E i \in S : i + 1 \in S /\ d[i + 1].at > d[i].at + 1

\* The dollar index cannot be judged; the trace mode accepts gaps between bars.
Uncovered(d, prev, from, to) ==
  \/ prev = {} \/ Slice(d, from, to) = {}
  \/ ~config.trace /\ HasGap(d, from, to)

\* Mutant: only the last dollar candle is looked at.
NonConfirm_last(d, s, to, dir, prev) ==
  \A i \in Slice(d, s.start, to) :
    i = Max(Slice(d, s.start, to)) =>
      Reach(d[i], Opposite(dir)) <= Highest(d, prev, Opposite(dir))

\* The dollar index has not confirmed before `to': for a short break of the
\* pair its lows stay at or above those of the previous session.
NonConfirm(d, s, to, dir, prev) ==
  \A i \in Slice(d, s.start, to) :
    Reach(d[i], Opposite(dir)) <= Highest(d, prev, Opposite(dir))

\* Mutant: intrabar reads one minute too many.
Cutoff_late(t) == IF config.intrabar THEN t + 2 ELSE t

\* Intrabar includes the candle of the break, interbar stops before it.
Cutoff(t) == IF config.intrabar THEN t + 1 ELSE t

-----------------------------------------------------------------------------
(* Zones.                                                                   *)

Zones(f) == UNION {BuildZones(f, tf, config.spans[tf], config.adr) : tf \in config.timeframes}

\* The first candle that passes the zone; the time is that of its opening.
Hits(f, z) ==
  LET far == Seen(z.dir, IF z.dir = "short" THEN z.top ELSE z.bottom)
      passes(b) == far < (IF config.wick THEN Reach(b, z.dir) ELSE Seen(z.dir, b.c))
  IN  {f[i].at : i \in {j \in DOMAIN f : f[j].at >= z.formed /\ passes(f[j])}}

Retests(f, z, t) ==
  LET inside(i) == f[i].h >= z.bottom /\ f[i].l <= z.top
      S == Slice(f, z.formed, t)
  IN  Cardinality({i \in S : inside(i) /\ ~(i - 1 \in S /\ inside(i - 1))})

Distance(z, price) ==
  IF price < z.bottom THEN z.bottom - price
  ELSE IF price > z.top THEN price - z.top ELSE 0

EligibleZone(f, z, t, price, dir, match) ==
  /\ match => z.dir = dir
  /\ z.formed <= t
  /\ \A h \in Hits(f, z) : t < h
  /\ config.expiry # None => t < z.formed + config.spans[z.tf] * config.expiry
  /\ Distance(z, price) <= config.distance
  /\ config.retests # None => Retests(f, z, t) <= config.retests

\* At least one timeframe, or all of them, have an eligible zone.
ZoneFound(f, zones, t, price, dir, match) ==
  LET has(tf) == \E z \in zones : z.tf = tf /\ EligibleZone(f, z, t, price, dir, match)
  IN  \/ config.timeframes = {}
      \/ IF config.allZones THEN \A tf \in config.timeframes : has(tf)
                            ELSE \E tf \in config.timeframes : has(tf)

-----------------------------------------------------------------------------
(* The verdict on a session and a direction.                                *)

\* The frame whose labels trigger a trade.
TriggerFrame(f) == IF config.span = 1 THEN f ELSE Resample(f, config.span)

\* Bars from a label to its entry.
EntryDelay == IF config.trigger = "FAST" THEN 2 ELSE RightBars + 1

\* The times at which the trade could be entered, each with that of its label:
\* the first bar after that of the break, or the first bar of the candle in which
\* a label is entered, not before the break.
Possible(f, dir, break) ==
  LET g == TriggerFrame(f)
      from(t) == {f[i].at : i \in {j \in DOMAIN f : f[j].at >= t}}
  IN  IF config.trigger = "NONE"
        THEN {[entry |-> Min(from(t + 1)), label |-> t] : t \in {u \in {break} : from(u + 1) # {}}}
        ELSE {x \in {[entry |-> Min(from(g[i].at)), label |-> g[i - EntryDelay].at] :
                       i \in Entries(g, config.trigger, dir)} :
                x.entry >= break}

Refused(reason, break, label) == [is |-> reason, break |-> break, label |-> label]

\* What is found at a label, of a break at `break' when the extrema of the
\* previous session are those of `prev' in the dollar's frame.
Judgement(f, d, s, dir, break, prev, x) ==
  LET confirmed == /\ config.divergence /\ config.invalidate /\ prev # {}
                   /\ ~NonConfirm(d, s, x.entry, dir, prev)
      open == f[CHOOSE i \in DOMAIN f : f[i].at = x.entry].o
      zone(match) == ZoneFound(f, Zones(f), x.entry, open, dir, match)
  IN  IF config.delay # None /\ x.entry - break > config.delay THEN "LABEL_TOO_LATE"
      ELSE IF x.entry >= s.end THEN "ENTRY_OUTSIDE_SESSION"
      ELSE IF confirmed THEN "DXY_CONFIRMED"
      ELSE IF zone(config.zoneDirection) THEN "SETUP"
      ELSE IF zone(FALSE) THEN "ZONE_WRONG_DIRECTION" ELSE "NO_ZONE"

\* The loop over the labels stops at the first that is too late, outside the
\* session or accepted; otherwise the last one says why the setup was refused.
Told(found) ==
  LET final == {x \in DOMAIN found :
                  found[x] \in {"LABEL_TOO_LATE", "ENTRY_OUTSIDE_SESSION", "SETUP"}}
  IN  IF final # {} THEN CHOOSE x \in final : \A y \in final : x.entry <= y.entry
      ELSE CHOOSE x \in DOMAIN found : \A y \in DOMAIN found : y.entry <= x.entry

Outcome(found, break) ==
  IF found = <<>> THEN Refused("NO_LABEL", break, None)
  ELSE LET x == Told(found)
       IN  IF found[x] # "SETUP" THEN Refused(found[x], break, x.label)
           ELSE [is |-> "SETUP", break |-> break, label |-> x.label, entry |-> x.entry]

Trigger(f, d, s, dir, break, prev) ==
  Outcome([x \in Possible(f, dir, break) |-> Judgement(f, d, s, dir, break, prev, x)], break)

\* A break of the previous session's level.
Broken(f, d, s, p, dir, break) ==
  LET prev == SessionSlice(d, p)
      uncovered == Uncovered(d, prev, s.start, break + 1)
  IN  IF config.divergence /\ uncovered /\ (config.rejectGaps \/ config.trace)
        THEN Refused("DXY_DATA_MISSING", break, None)
      ELSE IF /\ config.divergence /\ ~uncovered
              /\ ~NonConfirm(d, s, Cutoff(break), dir, prev)
        THEN Refused("DXY_CONFIRMED", break, None)
      ELSE Trigger(f, d, s, dir, break, prev)

\* Session k of the list, one direction.  Without any break the code records one
\* refusal for the session, and none for a direction when the other one breaks.
Verdict(f, d, k, dir) ==
  LET s == scenario.sessions[k]
      p == scenario.sessions[Max(Earlier(f, k))]
      level == Highest(f, SessionSlice(f, p), dir)
      breaking == Breaking(f, s, level, dir)
  IN  IF k \notin Active(f) \/ ~s.traded \/ Earlier(f, k) = {}
        THEN Refused("NOT_CONSIDERED", None, None)
      ELSE IF ~Loaded(f, p) THEN Refused("PREVIOUS_SESSION_DATA_MISSING", None, None)
      ELSE IF breaking = {} THEN Refused("NO_PAIR_BREAK", None, None)
      ELSE Broken(f, d, s, p, dir, f[Min(breaking)].at)

\* The setups of a backtest over the two frames.
Considered == (DOMAIN scenario.sessions) \X config.directions
Setups(f, d) ==
  {x \in {[of |-> y, v |-> Verdict(f, d, y[1], y[2])] : y \in Considered} : x.v.is = "SETUP"}

-----------------------------------------------------------------------------
(* Properties.                                                              *)

\* A backtest over a longer period finds the setups of a shorter one again: no
\* setup appears, moves or vanishes once the candle of its entry has closed.
\* (Labels are not looked for in a frame that is too short: build_label_events.)
Closed(t) == mid # <<>> /\ (t \div config.span + 1) * config.span <= mid[Len(mid)].at + 1
SettledSetups ==
  [][config.trigger = "NONE" \/ Len(TriggerFrame(mid)) >= MinBars =>
       LET old == Setups(mid, dxy)
           new == Setups(mid', dxy')
       IN  \A x \in (old \ new) \cup (new \ old) : ~Closed(x.v.entry)]_vars

\* A zone is never redrawn: once it can be used, its levels and its time stay
\* whatever follows (docs/LOOKAHEAD_AUDIT.md:30).
ZonesStay == [][Zones(mid) \subseteq Zones(mid')]_vars

\* A refusal that was not for want of a break, a label or a zone is for good:
\* later labels of the session do not revive the setup.
Pending == {"NOT_CONSIDERED", "PREVIOUS_SESSION_DATA_MISSING", "NO_PAIR_BREAK",
            "NO_LABEL", "NO_ZONE", "ZONE_WRONG_DIRECTION", "SETUP"}
RefusedForGood ==
  [][\A y \in Considered :
       Verdict(mid, dxy, y[1], y[2]).is \notin Pending =>
         Verdict(mid', dxy', y[1], y[2]).is # "SETUP"]_vars

\* The same candles, but for what follows the opening of the last minute.
Before(f) == IF f # <<>> /\ f[Len(f)].at = now THEN SubSeq(f, 1, Len(f) - 1) ELSE f
Otherwise(f, others) ==
  {Append(Before(f), At(b, now)) :
     b \in {o \in others \ {None} : f[Len(f)].o = o.o}}
LastMinutes ==
  IF mid = <<>> \/ mid[Len(mid)].at < now THEN {}
  ELSE Otherwise(mid, scenario.bars[now]) \X
         {IF b = None THEN Before(dxy) ELSE Append(Before(dxy), At(b, now)) :
            b \in scenario.dollars[now]}

\* Setups entered at the last minute, which one of two pairs of frames has.
Entered(f, d) == {x \in Setups(f, d) : x.v.entry = now}
Differing(f, d, g, e) ==
  (Entered(f, d) \ Entered(g, e)) \cup (Entered(g, e) \ Entered(f, d))

\* No look-ahead: what is entered at the opening of a minute does not depend on
\* what the minute brings (docs/LOOKAHEAD_AUDIT.md).
NoPeeking == \A w \in LastMinutes : Differing(mid, dxy, w[1], w[2]) = {}

\* What does hold: a setup depends on the rest of its minute of entry only when
\* the level breaks in that very minute, or a zone is passed in it.
OnlyTwoPeeks ==
  \A w \in LastMinutes :
    \A x \in Differing(mid, dxy, w[1], w[2]) :
      \/ x.v.break = now
      \/ \E z \in Zones(mid) \cup Zones(w[1]) : now \in Hits(mid, z) \cup Hits(w[1], z)

\* "Cassure M1 | clôture de sa bougie | l'entrée est postérieure"
\* (docs/LOOKAHEAD_AUDIT.md:11).
EntryAfterBreak == \A x \in Setups(mid, dxy) : x.v.break < x.v.entry
=============================================================================
