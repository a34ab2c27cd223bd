-------------------------- MODULE MCSetupCausality --------------------------
(***************************************************************************)
(* Scenarios of SetupCausality: a session of one minute gives the level,   *)
(* the next one breaks it.  Labels, the dollar index, zones, longer trigger *)
(* candles and the trace mode each have scenarios of their own, in which   *)
(* the other parts of the market are quiet, so that every order of their   *)
(* events fits in a few minutes.                                           *)
(***************************************************************************)
EXTENDS SetupQuality, TLC

Bar(o, h, l, c, i) == [o |-> o, h |-> h, l |-> l, c |-> c, ind |-> [rsi |-> i]]
High(h, i) == Bar(0, h, 0, 0, i)
Quiet == High(0, 0)
Mirrored(b) == Bar(-b.o, -b.l, -b.h, -b.c, -b.ind.rsi)

Two(end) ==
  <<[name |-> "ASIA", start |-> 1, end |-> 2, traded |-> TRUE],
    [name |-> "BLUE", start |-> 2, end |-> end, traded |-> TRUE]>>

Plain ==
  [previous |-> None, directions |-> {"short"}, tolerance |-> 0,
   divergence |-> FALSE, intrabar |-> FALSE, invalidate |-> TRUE, rejectGaps |-> TRUE,
   trigger |-> "NONE", delay |-> None, span |-> 1, timeframes |-> {}, allZones |-> FALSE,
   zoneDirection |-> TRUE, distance |-> 0, retests |-> None, wick |-> TRUE, expiry |-> None,
   spans |-> [H2 |-> 1, H4 |-> 2], adr |-> [day |-> 4, length |-> 1, percent |-> 15],
   trace |-> FALSE]

Every(horizon, S) == [t \in 1 .. horizon |-> S]

\* A peak that may be a pivot, a higher one with a lower indicator, a break.
Peaks == {High(0, 0), High(1, 1), High(2, 0), High(3, 0)}
Labelled(mode, delay) ==
  [horizon |-> 7,
   bars |-> [Every(7, Peaks) EXCEPT ![1] = {High(2, 0), High(1, 1)}, ![7] = {Quiet, High(3, 0)}],
   dollars |-> Every(7, {None}), sessions |-> Two(8),
   config |-> [Plain EXCEPT !.trigger = mode, !.delay = delay]]

\* Two labels after a break, and a dollar index that may confirm before either.
Relabelled ==
  [horizon |-> 9,
   bars |-> <<{High(0, 0)}, {High(0, 0)}, {High(1, 1)}, {High(0, 0)}, {High(2, 0), High(1, 0)},
              {High(0, -1), None}, {High(2, -1), High(3, -1)}, {High(0, 0)}, {High(0, 0)}>>,
   dollars |-> [t \in 1 .. 9 |-> IF t \in 5 .. 8 THEN {Bar(1, 1, 1, 1, 0), Bar(1, 1, 0, 1, 0)}
                                                ELSE {Bar(1, 1, 1, 1, 0)}],
   sessions |-> Two(10),
   config |-> [Plain EXCEPT !.trigger = "FAST", !.divergence = TRUE]]

\* The pair breaks its level, the dollar index may confirm, both may miss minutes.
Confirmed(intrabar, reject) ==
  [horizon |-> 5, bars |-> [Every(5, {High(1, 0), High(2, 0), None}) EXCEPT ![1] = {High(1, 0)}],
   dollars |-> [Every(5, {Bar(1, 1, 1, 1, 0), Bar(1, 1, 0, 1, 0), None})
                  EXCEPT ![1] = {Bar(1, 1, 1, 1, 0)}],
   sessions |-> Two(5),
   config |-> [Plain EXCEPT !.divergence = TRUE, !.intrabar = intrabar, !.rejectGaps = reject]]

Mirror(s) ==
  [s EXCEPT !.bars = [t \in DOMAIN @ |-> {IF b = None THEN None ELSE Mirrored(b) : b \in @[t]}],
            !.dollars = [t \in DOMAIN @ |-> {IF b = None THEN None ELSE Mirrored(b) : b \in @[t]}],
            !.config.directions = {"long"}]

\* The first day's range is 5.  Its last candles and the fourth minute leave a gap:
\* a short zone from 2 to 3 on H2, usable from the fifth minute.  With the fifth
\* they may leave one on H4: a long zone from 1 to 2, usable from the sixth.  The
\* candles that follow are below the short zone, inside it, or pass it by their
\* wick or their close.
Around == {Bar(1, 1, 1, 1, 0), Bar(2, 2, 1, 2, 0), Bar(2, 4, 2, 2, 0), Bar(2, 4, 2, 4, 0)}
Zoned(tfs, all, match, retests, wick) ==
  [horizon |-> 8, bars |-> <<{Bar(0, 1, 0, 1, 0)}, {Bar(3, 5, 3, 5, 0)}, {Bar(5, 5, 4, 4, 0)}, {Bar(2, 2, 2, 2, 0)},
              Around, Around, Around, Around>>,
   dollars |-> Every(8, {None}),
   sessions |-> <<[name |-> "ASIA", start |-> 1, end |-> 2, traded |-> TRUE],
                  [name |-> "BLUE", start |-> 5, end |-> 9, traded |-> TRUE]>>,
   config |-> [Plain EXCEPT !.timeframes = tfs, !.allZones = all, !.zoneDirection = match,
                            !.retests = retests, !.wick = wick, !.expiry = 3]]

\* A session that begins before the previous one ends, and one inside it.
Overlapping ==
  [horizon |-> 7, bars |-> [Every(7, {High(1, 0), High(2, 0), None}) EXCEPT ![7] = {High(3, 0)}],
   dollars |-> [t \in 1 .. 7 |-> IF t \in 4 .. 5 THEN {Bar(1, 1, 1, 1, 0), Bar(1, 1, 0, 1, 0)}
                                                ELSE {Bar(1, 1, 1, 1, 0)}],
   sessions |-> <<[name |-> "ASIA", start |-> 1, end |-> 4, traded |-> TRUE],
                  [name |-> "BLUE", start |-> 2, end |-> 8, traded |-> TRUE],
                  [name |-> "NY", start |-> 3, end |-> 5, traded |-> TRUE]>>,
   config |-> [Plain EXCEPT !.divergence = TRUE]]

\* Triggers on candles of two minutes: a pivot, a label in the fourth candle after
\* the first, an entry in the sixth; minutes of the last candles may be missing.
Wide ==
  [horizon |-> 13,
   bars |-> <<{High(0, 0)}, {High(0, 0)}, {Quiet}, {High(1, 1)}, {High(0, 1)}, {High(0, 0)}, {Quiet},
              {High(2, 0), High(1, 0)}, {Quiet, None}, {High(0, -1), High(3, -1)}, {None},
              {Quiet, None}, {Quiet, None}>>,
   dollars |-> Every(13, {None}), sessions |-> Two(14),
   config |-> [Plain EXCEPT !.trigger = "FAST", !.span = 2]]

\* The trace mode: sessions of one minute, the last of which may be missing, and
\* an unfinished one; then labels, then zones, with candles missing before the entry.
Dollar(v) == Bar(v, v, v, v, 0)
Traced(closed) ==
  [horizon |-> 5, closed |-> closed,
   bars |-> [t \in 1 .. 5 |->
               IF t \in closed THEN {None}
               ELSE CASE t \in {1, 5} -> {High(2, 0), None}
                      [] t = 2 -> {High(1, 0), None}
                      [] OTHER -> {High(1, 0), High(2, 0), None}],
   dollars |-> <<{Dollar(1)}, {Dollar(1), None}, {Dollar(1), Dollar(0), None},
                 {Dollar(1), Dollar(0), None}, {Dollar(1), None}>>,
   sessions |-> <<[name |-> "ASIA", start |-> 1, end |-> 2, traded |-> TRUE],
                  [name |-> "BLUE", start |-> 2, end |-> 3, traded |-> TRUE],
                  [name |-> "NY", start |-> 3, end |-> 6, traded |-> TRUE]>>,
   config |-> [Plain EXCEPT !.divergence = TRUE, !.intrabar = TRUE, !.trace = TRUE]]
TracedLabels ==
  [horizon |-> 9, closed |-> {},
   bars |-> <<{High(0, 0)}, {High(0, 0), None}, {High(1, 1)}, {High(0, 0), None},
              {High(2, 0), High(1, 0), None}, {High(0, -1)}, {High(0, 0), None},
              {High(0, 0), None}, {High(0, 0), None}>>,
   dollars |-> Every(9, {None}), sessions |-> Two(9),
   config |-> [Plain EXCEPT !.trigger = "FAST", !.delay = 4, !.trace = TRUE]]
TracedZones ==
  [Zoned({"H2"}, FALSE, TRUE, None, TRUE) EXCEPT
     !.bars = [t \in 1 .. 8 |-> IF t = 7 THEN {None}
                                ELSE (@[t] \ {Bar(2, 4, 2, 4, 0)})
                                     \cup (IF t \in {2, 4} THEN {} ELSE {None})],
     !.config.trace = TRUE]
  @@ [closed |-> {7}]

MCScenarios ==
  {Labelled("FAST", None), Labelled("CONFIRMED", 3), Relabelled, Wide, Overlapping,
    Confirmed(FALSE, TRUE), Confirmed(TRUE, FALSE), Mirror(Confirmed(TRUE, TRUE)),
    Zoned({"H2"}, FALSE, TRUE, None, FALSE), Zoned({"H2"}, FALSE, TRUE, 0, TRUE),
    Zoned({"H2", "H4"}, TRUE, FALSE, None, FALSE), Zoned({"H2", "H4"}, FALSE, TRUE, 1, TRUE),
    Traced({}), Traced({4}), TracedLabels, TracedZones}

MCAtBreak == {Labelled("FAST", None)}
MCAtZone == {Zoned({"H2"}, FALSE, TRUE, None, TRUE)}
=============================================================================
