---------------------------- MODULE LabelEvents ----------------------------
(***************************************************************************)
(* Divergence labels on a frame of candles: build_label_events of          *)
(* app/m1_divergence.py.                                                   *)
(*                                                                         *)
(* A frame is a sequence of bars in order of time; a minute without data   *)
(* has no bar, as in the data frames of the code, and positions count bars *)
(* and not minutes.  A short label looks at highs and a long one at lows;  *)
(* the second is the first on prices and indicators with their signs       *)
(* changed, which is how Seen writes both at once.  Positions start at 1.  *)
(***************************************************************************)
EXTENDS Integers, Sequences, FiniteSets, FiniteSetsExt

CONSTANTS
  LeftBars, RightBars,  \* trigger.left_bars, trigger.right_bars
  MinBars,              \* bars below which no label is looked for
  Indicators,           \* the indicators in use
  Required,             \* those that must diverge
  MinDivergent,         \* how many must diverge
  CheckCutThrough       \* whether an indicator's line must be clear too

\* What the configuration accepts: only indicators in use can be required.
IndicatorSelection ==
  /\ Required \subseteq Indicators
  /\ MinDivergent \in 1 .. Cardinality(Indicators)

ASSUME LabelAssumptions ==
  /\ LeftBars \in Nat \ {0} /\ RightBars \in Nat \ {0} /\ MinBars \in Nat
  /\ IndicatorSelection
  /\ CheckCutThrough \in BOOLEAN

Directions == {"short", "long"}
Seen(dir, v) == IF dir = "short" THEN v ELSE -v
Reach(b, dir) == Seen(dir, IF dir = "short" THEN b.h ELSE b.l)

\* _ph, _pl: no bar of either side reaches further, some bar on the left less far.
\* The last bar of the right side has to be there.
Pivot(f, i, dir) ==
  LET side == (i - LeftBars) .. (i + RightBars)
  IN  /\ side \subseteq DOMAIN f
      /\ \A j \in side : Reach(f[j], dir) <= Reach(f[i], dir)
      /\ \E j \in (i - LeftBars) .. (i - 1) : Reach(f[j], dir) < Reach(f[i], dir)

\* Pivots whose right bars are past when bar i closes.
KnownPivots(f, i, dir) == {c \in 1 .. (i - RightBars) : Pivot(f, c, dir)}

\* No value strictly between two positions is above the line that joins `old'
\* at the first to `new' at the second (both multiplied by the distance).
Clear(value, first, second, old, new) ==
  LET n == second - first
  IN  \A k \in 1 .. (n - 1) : n * value[second - k] <= n * new - k * (new - old)

Diverges(f, i, c, dir, name) ==
  LET v == [j \in DOMAIN f |-> Seen(dir, f[j].ind[name])]
  IN  /\ v[i] < v[c]
      /\ CheckCutThrough => Clear(v, c, i, v[c], v[i])

\* A label at bar i, seen when bar i closes.
Label(f, i, dir) ==
  /\ Len(f) >= MinBars
  /\ i > LeftBars /\ i > RightBars
  /\ KnownPivots(f, i, dir) # {}
  /\ LET c == Max(KnownPivots(f, i, dir))
         diverged == {name \in Indicators : Diverges(f, i, c, dir, name)}
         close == [j \in DOMAIN f |-> Seen(dir, f[j].c)]
     IN  /\ \A j \in (i - LeftBars) .. i : Reach(f[j], dir) <= Reach(f[i], dir)
         /\ Reach(f[c], dir) < Reach(f[i], dir)
         /\ Clear(close, c, i, Reach(f[c], dir), Reach(f[i], dir))
         /\ Cardinality(diverged) >= MinDivergent /\ Required \subseteq diverged

\* Mutant: entered while the next bar, which may replace the label, is open.
FastEntry_next(f, i, dir) ==
  IF Label(f, i, dir) /\ i + 1 \in DOMAIN f /\ ~Label(f, i + 1, dir) THEN {i + 1} ELSE {}

\* a_entry_index: two bars later, unless the next bar has a label as well.
FastEntry(f, i, dir) ==
  IF Label(f, i, dir) /\ i + 2 \in DOMAIN f /\ ~Label(f, i + 1, dir) THEN {i + 2} ELSE {}

\* Mutant: entered at the centre of the pivot.
ConfirmedEntry_centre(f, i, dir) ==
  IF Label(f, i, dir) /\ Pivot(f, i, dir) THEN {i} ELSE {}

\* b_entry_index: the bar after the one that confirms the label as a pivot.
ConfirmedEntry(f, i, dir) ==
  IF Label(f, i, dir) /\ Pivot(f, i, dir) /\ i + RightBars + 1 \in DOMAIN f
    THEN {i + RightBars + 1} ELSE {}

\* The positions at which the labels of a direction may be traded.
Entries(f, mode, dir) ==
  UNION {IF mode = "FAST" THEN FastEntry(f, i, dir) ELSE ConfirmedEntry(f, i, dir) :
           i \in DOMAIN f}
=============================================================================
