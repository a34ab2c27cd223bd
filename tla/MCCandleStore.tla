--------------------------- MODULE MCCandleStore ---------------------------
(***************************************************************************)
(* A small instance of CandleStore: a day of two minutes and a day of one  *)
(* minute in the first month, a day of one minute in the second, so that   *)
(* days share a Parquet file and a command crosses a month boundary.       *)
(***************************************************************************)
EXTENDS CandleStore, TLC

MCMinutes == 0..3
MCDays == 0..2
MCMonths == 0..1
MCDayOf == [m \in MCMinutes |-> IF m <= 1 THEN 0 ELSE m - 1]
MCMonthOf == [d \in MCDays |-> IF d = 2 THEN 1 ELSE 0]
\* The second minute of the first day is a scheduled closure.
MCOpen == {0, 2, 3}
MCArchive == {0}
MCListed == {0, 3}
\* Everything, and a window that leaves out the ends of the first and last month.
MCWindows == {0..3, 1..2}
Interchangeable == Permutations(Values)
=============================================================================
