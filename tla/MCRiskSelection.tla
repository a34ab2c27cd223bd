-------------------------- MODULE MCRiskSelection --------------------------
(***************************************************************************)
(* Two trade dates, the second with an overnight session that starts two   *)
(* minutes before the last session of the first date ends: after a setup   *)
(* of the first date at minute 2, one of the second may enter at minute 1. *)
(***************************************************************************)
EXTENDS RiskSelection

MCSessions ==
  {[day |-> 1, start |-> 0, end |-> 3], [day |-> 2, start |-> 1, end |-> 4]}

Config(perDay, budget, win, loss, one, trace) ==
  [first |-> 2, second |-> 1, budget |-> budget, perDay |-> perDay, stopAfterWin |-> win,
   secondAfterLoss |-> loss, onePosition |-> one, trace |-> trace]

\* A third trade of the day is refused by the limit, by the budget or by none;
\* both stops, one of them or none.
MCConfigs ==
  {Config(k[1], k[2], s[1], s[2], o, t) :
     k \in {<<2, 4>>, <<3, 3>>, <<3, 4>>},
     s \in {<<TRUE, FALSE>>, <<FALSE, TRUE>>, <<FALSE, FALSE>>}, o, t \in BOOLEAN}
MCConcurrent == {Config(2, 3, TRUE, TRUE, FALSE, FALSE)}
=============================================================================
