----------------------------- MODULE TraceExit -----------------------------
(***************************************************************************)
(* How a trade ends when minutes are missing: simulate_trace_trade of      *)
(* app/research/gap_execution.py, the observed simulator of                *)
(* app/backtest.py it reinterprets, and the gap catalogue it asks.         *)
(*                                                                         *)
(* The state is the frame a backtest of one trade reads, which grows by    *)
(* one minute at a time: a candle, a minute of open market that is         *)
(* missing, or a scheduled closure.  Both simulators run over the whole    *)
(* frame at once; Trace is their result as a function of it.               *)
(*                                                                         *)
(* Prices are those of the side the position is closed on (bid for a long, *)
(* ask for a short), as three levels: -1 and 1 are the levels of the stop  *)
(* and the target of a long position, 0 is between; of a short position    *)
(* the stop is at 1.                                                       *)
(***************************************************************************)
EXTENDS GapCatalog

CONSTANTS
  Scenarios,  \* what may happen and how the simulator is configured
  None        \* no candle, no time

(***************************************************************************)
(* A scenario is a record of                                               *)
(*   horizon    the minutes that may pass (bound)                          *)
(*   closed     the minutes at which the market is closed                  *)
(*   bars       for each minute the candles it may bring, or None          *)
(*   fill       the candles a missing minute may have had                  *)
(*   direction  of the trade                                               *)
(*   entry      the minute at whose open the trade is entered              *)
(*   context    the first minute the setup depends on                      *)
(*   hold       settings.max_hold_minutes                                  *)
(*   policy     settings.same_bar_policy                                   *)
(***************************************************************************)

ASSUME ScenarioAssumptions ==
  \A s \in Scenarios :
    /\ s.horizon \in Nat /\ s.entry \in Nat \ {0} /\ s.hold \in Nat
    /\ s.context \in Nat /\ s.context <= s.entry
    /\ None \notin s.fill

\* A candle opens between its extremes (app/data/validation.py:288), and a missing
\* one may have hit nothing, a level above or a level below.
ASSUME CandleAssumptions ==
  \A s \in Scenarios :
    /\ \A t \in 1 .. s.horizon : \A b \in s.bars[t] :
         b # None => b.l \in Int /\ b.o \in Int /\ b.h \in Int /\ b.l <= b.o /\ b.o <= b.h
    /\ \E b \in s.fill : b.l = 0 /\ b.h = 0
    /\ \E b \in s.fill : b.l = 0 /\ b.h = 1
    /\ \E b \in s.fill : b.l = -1 /\ b.h = 0

VARIABLES
  scenario,
  now,      \* the last minute that has closed
  frame     \* minute -> candle or None

vars == <<scenario, now, frame>>

entry == scenario.entry
limit == scenario.entry + scenario.hold

Init ==
  /\ scenario \in Scenarios
  /\ now = 0
  /\ frame = <<>>

\* A trade is entered at a candle: _build_candidates takes its time from the
\* index of the frame.
Minute ==
  /\ now < scenario.horizon
  /\ now' = now + 1
  /\ \E b \in scenario.bars[now + 1] :
       /\ now + 1 = entry => b # None
       /\ frame' = [t \in 1 .. (now + 1) |-> IF t <= now THEN frame[t] ELSE b]
  /\ UNCHANGED scenario

Next == Minute
Spec == Init /\ [][Next]_vars

-----------------------------------------------------------------------------
(* _simulate_observed_trade: the candles that are there.                    *)

Have(f) == {t \in DOMAIN f : f[t] # None}

First(S) == CHOOSE t \in S : \A u \in S : t <= u
Last(S) == CHOOSE t \in S : \A u \in S : u <= t

\* As the position sees a price: the target is above it.
Gain(v) == IF scenario.direction = "long" THEN v ELSE -v
Target(v) == Gain(v) >= 1
Stop(v) == Gain(v) <= -1

HitsTarget(b) == Target(b.l) \/ Target(b.h)
HitsStop(b) == Stop(b.l) \/ Stop(b.h)

\* A candle that hits both.
Closes(b) ==
  IF HitsStop(b) /\ ~(HitsTarget(b) /\ scenario.policy = "tp_first") THEN "LOSS" ELSE "WIN"

Holding(f) == {t \in Have(f) : entry <= t /\ t <= limit}
Hitting(f) == {t \in Holding(f) : HitsStop(f[t]) \/ HitsTarget(f[t])}

Observed(f) ==
  IF Hitting(f) # {}
    THEN [outcome |-> Closes(f[First(Hitting(f))]), exit |-> First(Hitting(f))]
    ELSE [outcome |-> "TIMEOUT",
          exit |-> IF Holding(f) = {} THEN entry ELSE Last(Holding(f))]

-----------------------------------------------------------------------------
(* simulate_trace_trade.                                                    *)

\* The catalogue of a run that was asked for the frame's minutes.
Gaps(f) == GapsOf(MissingOpen(Have(f), scenario.closed, DOMAIN f))

\* The setup's own gaps: minutes before the entry.
Context(f) == Select(Gaps(f), scenario.context, entry, {"CONTEXT"})

\* Mutant: the gaps looked at end with the last candle.
Cutoff_at_exit(f) == Observed(f).exit + 1

\* Mutant: gaps after the exit count as well.
Cutoff_at_limit(f) == limit + 1

\* The position was held to the exit, or to the limit.
Cutoff(f) == IF Observed(f).outcome = "TIMEOUT" THEN limit + 1 ELSE Observed(f).exit + 1

Managed(f) ==
  Select(Gaps(f), entry, Cutoff(f), {"TRADE_MANAGEMENT", "STOP_LOSS", "TAKE_PROFIT"})

\* The candles from which a position could be managed again after a gap.
Resuming(f, e) == {t \in Have(f) : \A u \in e.minutes : u < t}

\* Mutant: a candle after the holding limit will do.
NoObservation_ever(f, e) == Resuming(f, e) = {}

\* No next candle in the loaded holding window.
NoObservation(f, e) == Resuming(f, e) = {} \/ First(Resuming(f, e)) > limit

\* The next candle opens beyond a level.
Reopening(f, e) == f[First(Resuming(f, e))].o

\* What the loop over the gaps finds at one of them.
Resolution(f, e) ==
  CASE NoObservation(f, e) -> Unresolved
    [] ~NoObservation(f, e) /\ Target(Reopening(f, e)) -> "TP_INFERRED"
    [] ~NoObservation(f, e) /\ Stop(Reopening(f, e)) -> "SL_INFERRED"
    [] OTHER -> Assumed

\* The first gap that the position does not get over ends it.
Deciding(f) ==
  {e \in Managed(f) :
     /\ Resolution(f, e) # Assumed
     /\ \A d \in Managed(f) : Resolution(f, d) # Assumed => First(e.minutes) <= First(d.minutes)}

Resolved(f, events) == {[e EXCEPT !.resolution = Resolution(f, e)] : e \in events}

\* Mutant: gaps that share the first real open are forgotten.
Attached_one(f, end) == {e \in Managed(f) : First(e.minutes) <= First(end.minutes)}

\* Gaps before the deciding one, itself, and those before the next candle, which
\* share its resolution.
Attached(f, end) ==
  {e \in Managed(f) : NoObservation(f, end) \/ First(e.minutes) < First(Resuming(f, end))}

Trade(outcome, source, exit, events, status) ==
  [outcome |-> outcome, source |-> source, exit |-> exit, events |-> events,
   status |-> status]

Undecided(f, events) ==
  Trade("INDETERMINATE", "INDETERMINATE", None, Merge(Context(f) \cup events), "INDETERMINATE")

Trace(f) ==
  LET seen == Observed(f)
      all == Managed(f)
  IN  IF entry \notin Have(f) THEN Undecided(f, {})
      ELSE IF Deciding(f) # {}
        THEN LET end == CHOOSE e \in Deciding(f) : TRUE
                 events == Resolved(f, Attached(f, end))
                 won == Resolution(f, end) = "TP_INFERRED"
             IN  IF Resolution(f, end) = Unresolved THEN Undecided(f, events)
                 ELSE Trade(IF won THEN "WIN" ELSE "LOSS",
                            IF won THEN "GAP_INFERRED_TP" ELSE "GAP_INFERRED_SL",
                            First(Resuming(f, end)), Merge(Context(f) \cup events),
                            "GAP_RESOLVED")
      ELSE Trade(seen.outcome, IF all = {} THEN "OBSERVED" ELSE "GAP_ASSUMED_NO_EXIT",
                 seen.exit, Merge(Context(f) \cup Resolved(f, all)),
                 IF all = {} THEN Quality(Context(f)) ELSE "GAP_RESOLVED")

-----------------------------------------------------------------------------
(* Properties.                                                              *)

Entered == now >= entry

\* Types of the frame, and a trade is one that the selection of trades expects
\* (Results of RiskSelection): an exit between entry and limit, or none.
TypeOK ==
  /\ scenario \in Scenarios
  /\ now \in 0 .. scenario.horizon
  /\ DOMAIN frame = 1 .. now
  /\ Entered =>
       \/ /\ Trace(frame).outcome \in {"WIN", "LOSS", "TIMEOUT"}
          /\ Trace(frame).exit \in Have(frame) \cap (entry .. limit)
       \/ Trace(frame).outcome = "INDETERMINATE" /\ Trace(frame).exit = None

\* The frames that the provider would have sent with nothing missing.
Missed == MissingOpen(Have(frame), scenario.closed, 1 .. now)
Completions ==
  {[t \in 1 .. now |-> IF t \in Missed THEN c[t] ELSE frame[t]] :
     c \in [Missed -> scenario.fill]}

Result(r) == [outcome |-> r.outcome, exit |-> r.exit]

\* An OBSERVED trade rests on nothing that is missing: whatever the missing
\* candles were, the trade ends the same way, and no gap is attached to it.
ObservedIsCertain ==
  Entered /\ Trace(frame).source = "OBSERVED" =>
    \A f \in Completions : Observed(f) = Result(Trace(frame))

\* The conventions for gaps claim nothing the missing candles contradict.  An
\* end is unknown only when they could have decided it either way; a trade that
\* is assumed to have stayed open ends as it would have with some candles in the
\* gaps; an inferred result was reached by the time it is stamped with, which is
\* a time at which the position could still have been open.
EndsArePossible ==
  Entered /\ Trace(frame).source # "OBSERVED" =>
    LET r == Trace(frame)
        possible == {Observed(f) : f \in Completions}
    IN  CASE r.source = "INDETERMINATE" -> {"WIN", "LOSS"} \subseteq {o.outcome : o \in possible}
          [] r.source = "GAP_ASSUMED_NO_EXIT" -> Result(r) \in possible
          [] OTHER -> /\ \E o \in possible : o.outcome = r.outcome /\ o.exit <= r.exit
                      /\ \E o \in possible : o.exit = r.exit

\* No gap is dropped (docs/TRACE.md:45) and none is made up: the minutes a trade
\* reports are those missing in its context and while it was held; scheduled
\* closures are not gaps (docs/TRACE.md:46), nor is what follows an inferred exit.
GapsAccounted ==
  Entered =>
    LET r == Trace(frame)
        until == CASE r.outcome = "INDETERMINATE" -> limit
                   [] r.outcome = "TIMEOUT" -> limit
                   [] OTHER -> r.exit
    IN  /\ Reported(r.events) = {t \in Missed : scenario.context <= t /\ t <= until}
        /\ r.status = "COMPLETE" <=> r.events = {}

\* A trade whose end is decided does not change when more minutes are loaded:
\* once it is won or lost, or its holding time is over.
EndsAreFinal ==
  [][Entered /\ (Trace(frame).outcome \in {"WIN", "LOSS"} \/ now >= limit) =>
       /\ Result(Trace(frame)) = Result(Trace(frame'))
       /\ Reported(Trace(frame).events) = Reported(Trace(frame').events)
       /\ Trace(frame).status = Trace(frame').status]_vars
=============================================================================
