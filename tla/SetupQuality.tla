---------------------------- MODULE SetupQuality ----------------------------
(***************************************************************************)
(* What the trace mode says about the minutes a setup or a refusal may     *)
(* have missed: setup_events and annotate_candidate of                     *)
(* app/research/data_quality.py, and the end of _build_candidates.         *)
(*                                                                         *)
(* Scenarios in the trace mode also have a field closed: the minutes of    *)
(* the period at which the market is scheduled to be closed.               *)
(***************************************************************************)
EXTENDS SetupCausality, GapCatalog

CONSTANT WarmBars  \* bars of the loaded history that count as warm-up

ASSUME WarmAssumption == WarmBars \in Nat \ {0}

Have(f) == {f[i].at : i \in DOMAIN f}

\* The catalogue is that of the whole period.
MissingIn(f) == MissingOpen(Have(f), scenario.closed, 1 .. scenario.horizon)

\* The time a setup or a refusal is judged at: its entry, or a minute after the
\* last of its label and its break, or the end of its session.
JudgedAt(v, s) ==
  IF v.is = "SETUP" THEN v.entry
  ELSE IF v.label # None THEN v.label + 1
  ELSE IF v.break # None THEN v.break + 1
  ELSE s.end

\* The conditions that a reason rests on besides the levels and the break.
NeedsLabel(v) ==
  /\ config.trigger # "NONE"
  /\ v.is \in {"SETUP", "NO_LABEL", "LABEL_TOO_LATE", "NO_ZONE", "ZONE_WRONG_DIRECTION",
               "ENTRY_OUTSIDE_SESSION"}
NeedsZone(v) ==
  config.timeframes # {} /\ v.is \in {"SETUP", "NO_ZONE", "ZONE_WRONG_DIRECTION"}
NeedsDollar(v) == config.divergence /\ v.is # "NO_PAIR_BREAK"

\* Mutant: a window may end after the time the setup is judged at.
Bounded_not(to, at) == to

\* Every window ends at the time the setup is judged at.
Bounded(to, at) == Min({to, at})

\* Windows of the pair's frame that v depends on, p and s being the previous and
\* the current session; the last is the minute before the entry, uncut.
Windows(f, p, s, v) ==
  LET at == JudgedAt(v, s)
      label == Min({IF v.label = None THEN at ELSE v.label, at})
      warm == f[Min({WarmBars, Len(f)})].at + 1
      window(from, to, part) == [from |-> from, to |-> Bounded(to, at), part |-> part]
  IN  {window(p.start, p.end, "SESSION_LIQUIDITY"),
       window(s.start, at, "SESSION_LIQUIDITY"),
       window(p.start, p.start + 1, "SESSION_OPEN"),
       window(s.start, s.start + 1, "SESSION_OPEN"),
       window(at - 1, at, "ENTRY")}
      \cup (IF NeedsZone(v) THEN {window(1, at, "HTF_ZONE")} ELSE {})
      \cup (IF NeedsLabel(v)
              THEN {window(1, label + 1, "TRIGGER"), window(label + 1, at, "LABEL_CONFIRMATION"),
                    window(1, warm, "WARMUP")}
              ELSE {})

\* Mutant: the last minute before the entry is forgotten.
DollarWindows_early(p, s, v) ==
  LET at == JudgedAt(v, s) - 1
      window(from, to) == [from |-> from, to |-> Bounded(to, at), part |-> "DXY_DIVERGENCE"]
  IN  IF NeedsDollar(v) THEN {window(p.start, p.end), window(s.start, at)} ELSE {}

\* Windows of the dollar's frame.
DollarWindows(p, s, v) ==
  LET at == JudgedAt(v, s)
      window(from, to) == [from |-> from, to |-> Bounded(to, at), part |-> "DXY_DIVERGENCE"]
  IN  IF NeedsDollar(v) THEN {window(p.start, p.end), window(s.start, at)} ELSE {}

Selected(f, windows) ==
  Merge(UNION {Select(GapsOf(MissingIn(f)), w.from, w.to, {w.part}) : w \in windows})

\* The events of the verdict v on session k.
SetupEvents(f, d, k, v) ==
  LET p == scenario.sessions[Max(Earlier(f, k))]
      s == scenario.sessions[k]
  IN  [pair |-> Selected(f, Windows(f, p, s, v)),
       dollar |-> Selected(d, DollarWindows(p, s, v))]

\* annotate_candidate for a setup, quality_fields for a refusal.
Status(v, events) ==
  IF v.is \in {"DXY_DATA_MISSING", "PREVIOUS_SESSION_DATA_MISSING"} THEN "INDETERMINATE"
  ELSE Quality(events.pair \cup events.dollar)

-----------------------------------------------------------------------------
(* Properties, of scenarios in the trace mode.                              *)

Judged(f, d, y) == config.trace /\ Verdict(f, d, y[1], y[2]).is # "NOT_CONSIDERED"

\* A session between the previous and the current one has no candle at all: the
\* code takes an earlier one for the previous session, without an event.
Skips(f, k) ==
  \E j \in (Max(Earlier(f, k)) + 1) .. (k - 1) :
    config.previous \in {None, scenario.sessions[j].name}

\* The frame f with a candle c[t] in each minute t of the domain of c.
With(f, c) ==
  LET minutes == Have(f) \cup DOMAIN c
      nth(n) == CHOOSE t \in minutes : Cardinality({u \in minutes : u <= t}) = n
      bar(t) == IF t \in DOMAIN c THEN At(c[t], t) ELSE f[CHOOSE i \in DOMAIN f : f[i].at = t]
  IN  [n \in 1 .. Cardinality(minutes) |-> bar(nth(n))]

\* The frames that the provider would have sent with nothing missing.
Lost(f) == {t \in MissingIn(f) : t <= now}
Fillings(S, candles) ==
  {c \in [S -> UNION {candles[t] : t \in S}] : \A t \in S : c[t] \in candles[t] \ {None}}
Filled(f, candles) == {With(f, c) : c \in Fillings(Lost(f), candles)}

\* What is settled at the break or, for a setup, before its entry.  An entry in
\* the minute of its break is the one of EntryAfterBreak.
Firm(v) ==
  \/ v.is = "SETUP" /\ v.break < v.entry
  \/ v.is = "NO_PAIR_BREAK"
  \/ v.is = "DXY_CONFIRMED" /\ v.label = None

\* COMPLETE: no gap in what was looked at (docs/TRACE.md:31).  A setup, or a
\* refusal for want of a break or because the dollar index confirmed it, is
\* COMPLETE only when every candle that is missing could have been anything
\* without a change of the verdict.
CompleteIsCertain ==
  \A y \in Considered :
    LET v == Verdict(mid, dxy, y[1], y[2])
    IN  /\ Judged(mid, dxy, y) /\ Firm(v) /\ ~Skips(mid, y[1])
        /\ Status(v, SetupEvents(mid, dxy, y[1], v)) = "COMPLETE"
        => \A f \in Filled(mid, scenario.bars) : \A d \in Filled(dxy, scenario.dollars) :
             Verdict(f, d, y[1], y[2]) = v

\* A gap after the entry does not degrade the setup afterwards
\* (docs/TRACE.md:48), and one before it is not forgotten: the minutes that a
\* setup reports and its status stay what they were at its entry.
Reports(f, d, x) ==
  LET e == SetupEvents(f, d, x.of[1], x.v)
  IN  [pair |-> Reported(e.pair), dollar |-> Reported(e.dollar), status |-> Status(x.v, e)]
QualityIsFinal ==
  [][config.trace =>
       \A x \in Setups(mid, dxy) \cap Setups(mid', dxy') :
         x.v.entry <= now => Reports(mid, dxy, x) = Reports(mid', dxy', x)]_vars
=============================================================================
