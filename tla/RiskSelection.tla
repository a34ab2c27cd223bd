--------------------------- MODULE RiskSelection ---------------------------
(***************************************************************************)
(* Which setups become trades: _apply_risk of app/research/engine.py.      *)
(*                                                                         *)
(* The setups of all pairs are sorted by trade date, entry time and pair   *)
(* priority, then taken or refused one after the other, each time from the *)
(* trades already simulated.  The trade date is the label of the session;  *)
(* an overnight session bears the date it ends on, so that a setup may be  *)
(* sorted after one that enters later than it does.                        *)
(*                                                                         *)
(* Here the sorted list is revealed one setup at a time: any setup that    *)
(* does not sort before the previous one may come next.  The simulation of *)
(* a trade is a choice among the outcomes and exit times it can return.    *)
(* Times and risks are integers: the rounding of floats is not modelled.   *)
(***************************************************************************)
EXTENDS Naturals, Sequences, FiniteSets, FiniteSetsExt

CONSTANTS
  Sessions,    \* session instances: trade date, start and (excluded) end
  Ranks,       \* places in pair_priority
  Configs,     \* risk configurations
  MaxHold,     \* max_hold_minutes
  NoExit,      \* the exit time of a trade whose end cannot be known
  MaxSetups    \* bound: setups considered

RiskConfig ==
  [first : Nat, second : Nat, budget : Nat, perDay : Nat \ {0},
   stopAfterWin : BOOLEAN, secondAfterLoss : BOOLEAN, onePosition : BOOLEAN,
   trace : BOOLEAN]

ASSUME RiskAssumptions ==
  /\ Sessions \subseteq [day : Nat, start : Nat, end : Nat]
  /\ Ranks \subseteq Nat
  /\ Configs \subseteq RiskConfig
  /\ \A k \in Configs : k.first <= k.budget /\ k.second <= k.budget
  /\ MaxHold \in Nat /\ MaxSetups \in Nat
  /\ NoExit \notin Nat

VARIABLES
  config,   \* the risk settings of the run
  last,     \* the setup considered last
  trades,   \* trades taken, in order
  refused   \* setups refused, with the reason

vars == <<config, last, trades, refused>>

Setups == [day : Nat, entry : Nat, rank : Ranks]
NoSetup == [day |-> 0, entry |-> 0, rank |-> 0]
\* _build_candidates keeps an entry only before the end of its session.
Offered ==
  {[day |-> w.day, entry |-> t, rank |-> r] :
     w \in Sessions, t \in UNION {v.start .. (v.end - 1) : v \in Sessions}, r \in Ranks}
InSession(c) == \E w \in Sessions : w.day = c.day /\ w.start <= c.entry /\ c.entry < w.end

\* The sort key (trade_date, entry_time, rank).
SortsBefore(a, b) ==
  \/ a.day < b.day
  \/ a.day = b.day /\ a.entry < b.entry
  \/ a.day = b.day /\ a.entry = b.entry /\ a.rank < b.rank

Init ==
  /\ config \in Configs
  /\ last = NoSetup
  /\ trades = <<>>
  /\ refused = <<>>

-----------------------------------------------------------------------------
(* The questions asked of a setup, in the order they are asked.             *)

DayTrades(c) == {i \in DOMAIN trades : trades[i].day = c.day}

\* Mutant: only the trades of the day are looked at.
Unknown_same_day(c) == \E i \in DayTrades(c) : trades[i].outcome = "INDETERMINATE"

\* A previous position whose end is unknown: nothing more can be decided.
Unknown(c) == \E i \in DOMAIN trades : trades[i].outcome = "INDETERMINATE"

DayFull(c) == Cardinality(DayTrades(c)) >= config.perDay

DayWon(c) ==
  config.stopAfterWin /\ \E i \in DayTrades(c) : trades[i].outcome = "WIN"

\* Mutant: the first trade of the day decides.
DayLost_first(c) ==
  /\ DayTrades(c) # {} /\ ~config.secondAfterLoss
  /\ trades[Min(DayTrades(c))].outcome = "LOSS"

\* day_trades[-1]
DayLost(c) ==
  /\ DayTrades(c) # {} /\ ~config.secondAfterLoss
  /\ trades[Max(DayTrades(c))].outcome = "LOSS"

DayClosed(c) == DayFull(c) \/ DayWon(c) \/ DayLost(c)

\* Mutant: the list is taken to be chronological, and only an entry inside the
\* last position is refused.
StillOpen_inside(c) ==
  /\ config.onePosition /\ trades # <<>>
  /\ trades[Len(trades)].entry <= c.entry /\ c.entry <= trades[Len(trades)].exit

\* Only the last trade is looked at; an exit in the same minute is not yet out.
StillOpen(c) ==
  /\ config.onePosition /\ trades # <<>>
  /\ c.entry <= trades[Len(trades)].exit

Risk(c) == IF DayTrades(c) = {} THEN config.first ELSE config.second

RiskOf(list, places) == MapThenSumSet(LAMBDA i : list[i].risk, places)
UsedRisk(c) == RiskOf(trades, DayTrades(c))

\* Mutant: the budget is compared before the risk of this trade is added.
OverBudget_before(c) == UsedRisk(c) > config.budget

OverBudget(c) == UsedRisk(c) + Risk(c) > config.budget

-----------------------------------------------------------------------------
(* The simulation (app/backtest.py, and gap_execution.py in trace mode): a  *)
(* stop or a target is hit, or the holding time ends, at a candle between   *)
(* the entry and the holding limit; in trace mode the end may be unknown.   *)

Results(c) ==
  [outcome : {"WIN", "LOSS", "TIMEOUT"}, exit : c.entry .. (c.entry + MaxHold)]
    \cup (IF config.trace THEN {[outcome |-> "INDETERMINATE", exit |-> NoExit]} ELSE {})

Refuse(c, reason) ==
  /\ refused' = Append(refused, [setup |-> c, reason |-> reason])
  /\ UNCHANGED trades

Take(c) ==
  /\ \E r \in Results(c) :
       trades' = Append(trades, [day |-> c.day, entry |-> c.entry, risk |-> Risk(c),
                                 outcome |-> r.outcome, exit |-> r.exit])
  /\ UNCHANGED refused

\* One turn of the loop.
Consider(c) ==
  /\ InSession(c)
  /\ ~SortsBefore(c, last)
  /\ \/ Unknown(c) /\ Refuse(c, "POSITION_INDETERMINATE")
     \/ ~Unknown(c) /\ DayClosed(c) /\ Refuse(c, "DAILY_LIMIT_REACHED")
     \/ ~Unknown(c) /\ ~DayClosed(c) /\ StillOpen(c) /\ Refuse(c, "POSITION_ALREADY_OPEN")
     \/ /\ ~Unknown(c) /\ ~DayClosed(c) /\ ~StillOpen(c) /\ OverBudget(c)
        /\ Refuse(c, "DAILY_LIMIT_REACHED")
     \/ ~Unknown(c) /\ ~DayClosed(c) /\ ~StillOpen(c) /\ ~OverBudget(c) /\ Take(c)
  /\ last' = c
  /\ UNCHANGED config

Next ==
  /\ Len(trades) + Len(refused) < MaxSetups
  /\ \E c \in Offered : Consider(c)

Spec == Init /\ [][Next]_vars

-----------------------------------------------------------------------------
(* Properties.                                                              *)

Outcomes == {"WIN", "LOSS", "TIMEOUT", "INDETERMINATE"}
Trades == [day : Nat, entry : Nat, risk : Nat, outcome : Outcomes,
           exit : Nat \cup {NoExit}]

\* With one position at a time, each trade of the run is out before any later
\* one of the list is entered, across days and pairs, so that no two are open in
\* the same minute, although a setup is compared with the last trade only and
\* may come after one that enters later than it does (engine.py:590, 612).
NoOverlap ==
  config.onePosition =>
    \A i, j \in DOMAIN trades : i < j => trades[i].exit < trades[j].entry

\* After a trade whose end is unknown the run takes no other (engine.py:599).
NothingAfterUnknown ==
  \A i \in DOMAIN trades : trades[i].outcome = "INDETERMINATE" => i = Len(trades)

\* Why: trades end after they began and in a known minute, but for the last.
Settled ==
  \A i \in DOMAIN trades :
    IF trades[i].outcome = "INDETERMINATE"
      THEN i = Len(trades)
      ELSE trades[i].exit \in Nat /\ trades[i].entry <= trades[i].exit

TradesOf(d) == {i \in DOMAIN trades : trades[i].day = d}
Days == {trades[i].day : i \in DOMAIN trades}

\* A day never risks more than its budget, nor more trades than its limit.
DailyBudget ==
  \A d \in Days :
    /\ Cardinality(TradesOf(d)) <= config.perDay
    /\ RiskOf(trades, TradesOf(d)) <= config.budget

\* No trade follows a win of the same day when trading stops after a win, nor
\* directly a loss when a second trade after a loss is not allowed.
DailyStops ==
  \A i, j \in DOMAIN trades :
    i < j /\ trades[i].day = trades[j].day =>
      /\ config.stopAfterWin => trades[i].outcome # "WIN"
      /\ ~config.secondAfterLoss /\ j = i + 1 => trades[i].outcome # "LOSS"

\* "Equity/risk | après sorties antérieures" (docs/LOOKAHEAD_AUDIT.md): the
\* equity a trade starts from compounds the results of all trades before it in
\* the list, so each of them should be out when it enters.
EquityAfterExits ==
  \A i, j \in DOMAIN trades :
    i < j /\ trades[i].outcome # "INDETERMINATE" => trades[i].exit <= trades[j].entry
=============================================================================
