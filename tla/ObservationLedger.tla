------------------------- MODULE ObservationLedger -------------------------
(***************************************************************************)
(* What the candle cache promises, whoever writes it and however often a  *)
(* writer dies: a ledger of real observations that only grows.            *)
(*                                                                         *)
(*   - a candle enters the ledger once, for a minute that has no candle    *)
(*     and is already closed, and never changes or leaves afterwards;      *)
(*   - a minute is recorded as absent at the provider only while the       *)
(*     ledger has no candle for it, and the record is kept.                *)
(*                                                                         *)
(* CandleStore (downloads, repairs, two-file writes) implements this when  *)
(* one process writes the cache.                                           *)
(***************************************************************************)
EXTENDS Naturals

CONSTANTS
  Minutes,      \* the M1 slots of one instrument, as natural numbers
  Values,       \* what an observed candle can hold
  NoBar         \* no candle stored for the minute

VARIABLES
  now,          \* the minute in progress
  stored,       \* minute -> candle or NoBar
  absent        \* minutes with evidence of absence at the provider

vars == <<now, stored, absent>>

Init ==
  /\ now = 0
  /\ stored = [m \in Minutes |-> NoBar]
  /\ absent = {}

Elapse ==
  /\ now' = now + 1
  /\ UNCHANGED <<stored, absent>>

\* Any number of new observations enter together; the others stay as they are.
Record ==
  /\ stored' \in [Minutes -> Values \cup {NoBar}]
  /\ \A m \in Minutes :
       stored'[m] # stored[m] => stored[m] = NoBar /\ m < now
  /\ UNCHANGED <<now, absent>>

Attest ==
  /\ absent' \in SUBSET Minutes
  /\ absent \subseteq absent'
  /\ \A m \in absent' \ absent : stored[m] = NoBar /\ m < now
  /\ UNCHANGED <<now, stored>>

Next == Elapse \/ Record \/ Attest

Spec == Init /\ [][Next]_vars
=============================================================================
