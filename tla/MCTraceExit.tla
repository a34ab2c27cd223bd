---------------------------- MODULE MCTraceExit ----------------------------
(***************************************************************************)
(* Trades of both directions and policies that enter at the second minute  *)
(* and are held for four, over candles that touch, cross or reopen beyond  *)
(* each level, with a scheduled closure inside or after the holding time.  *)
(***************************************************************************)
EXTENDS TraceExit

Bar(o, l, h) == [o |-> o, l |-> l, h |-> h]
Quiet == Bar(0, 0, 0)
Candles == {Quiet, Bar(0, -1, 0), Bar(0, -1, 1), Bar(1, -1, 1), Bar(-1, -1, 0)}

Held(direction, policy, closed, context) ==
  [horizon |-> 7, closed |-> closed,
   bars |-> [t \in 1 .. 7 |->
               IF t \in closed THEN {None}
               ELSE IF t \in {1, 2} THEN {Quiet, None}
               ELSE IF t = 7 THEN {Bar(1, 1, 1), None} ELSE Candles \cup {None}],
   fill |-> {Quiet, Bar(0, -1, 0), Bar(0, 0, 1)},
   direction |-> direction, entry |-> 2, context |-> context, hold |-> 4,
   policy |-> policy]

MCScenarios ==
  {Held("long", "stop_first", {}, 1), Held("short", "tp_first", {}, 2),
   Held("long", "tp_first", {4}, 1), Held("short", "stop_first", {4, 5}, 1),
   Held("long", "stop_first", {6}, 1)}
=============================================================================
