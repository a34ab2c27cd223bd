--------------------------- MODULE MCCandleImport ---------------------------
(***************************************************************************)
(* A day of two minutes and one of one minute, each in a month of its own. *)
(* The provider always serves the first minute of each day.                *)
(***************************************************************************)
EXTENDS CandleImport

MCMinutes == 0..2
MCDays == 0..1
MCMonths == 0..1
MCDayOf == [m \in MCMinutes |-> IF m <= 1 THEN 0 ELSE 1]
MCMonthOf == [d \in MCDays |-> d]
MCArchive == {0, 2}
MCWindows == {0..2}
\* Any export; or a backtest, with the minute 0 left to the provider.
MCPlans ==
  {[exported |-> 0..2, backtests |-> FALSE], [exported |-> 1..2, backtests |-> TRUE]}
MCJoint == [q \in Quotes \X Quotes |-> CHOOSE v \in Values : TRUE]
=============================================================================
