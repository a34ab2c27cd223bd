----------------------------- MODULE GapCatalog -----------------------------
(***************************************************************************)
(* Gaps of a loaded frame and their selection: validate_market_data of     *)
(* app/data/validation.py, GapCatalog and merge_events of app/data/gaps.py *)
(* and quality_fields of app/research/data_quality.py.                     *)
(*                                                                         *)
(* Minutes are numbers and a gap is the set of its minutes, which is also  *)
(* what its gap_id identifies.  An event ties a gap to what it affects: the *)
(* minutes of the gap that are concerned, the components, and how a trade  *)
(* got over it.                                                            *)
(***************************************************************************)
EXTENDS Integers

\* Minutes of open market among those requested that have no candle.
MissingOpen(have, closed, requested) == requested \ (have \cup closed)

\* Missing minutes are one gap when no other minute lies between them.
Touching(S, t) == {u \in S : (t .. u) \cup (u .. t) \subseteq S}
GapsOf(S) == {Touching(S, t) : t \in S}

Unresolved == "UNRESOLVED"
Assumed == "ASSUMED_NO_EXIT"
NoResolution == "NONE"

\* GapCatalog.select: gaps cut to [from, to), those that are empty left out.
Select(gaps, from, to, parts) ==
  {e \in {[gap |-> g, minutes |-> g \cap (from .. (to - 1)), parts |-> parts,
           resolution |-> NoResolution] : g \in gaps} : e.minutes # {}}

\* merge_events: one event per gap, from the first affected minute to the last.
\* At most one of the events of a gap tells how it was resolved: the trade's.
Merge(events) ==
  {LET same == {e \in events : e.gap = g}
       touched == UNION {e.minutes : e \in same}
       said == {e.resolution : e \in same} \ {NoResolution}
   IN  [gap |-> g,
        minutes |-> {t \in g : \E a, b \in touched : a <= t /\ t <= b},
        parts |-> UNION {e.parts : e \in same},
        resolution |-> IF said = {} THEN NoResolution ELSE CHOOSE r \in said : TRUE] :
     g \in {e.gap : e \in events}}

\* The minutes a set of events reports.
Reported(events) == UNION {e.minutes : e \in events}

\* quality_fields, when the caller does not impose a status.
Quality(events) == IF events = {} THEN "COMPLETE" ELSE "DEGRADED"
=============================================================================
