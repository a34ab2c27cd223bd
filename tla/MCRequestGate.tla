--------------------------- MODULE MCRequestGate ---------------------------
(***************************************************************************)
(* Three workers of two calls; a backoff below the interval, one equal to  *)
(* it and one above, as 0.5, 1 and 2 seconds are to an interval of one.    *)
(***************************************************************************)
EXTENDS RequestGate

MCBackoff == [a \in 0..2 |-> 2 ^ a]
=============================================================================
