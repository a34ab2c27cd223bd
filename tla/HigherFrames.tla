---------------------------- MODULE HigherFrames ----------------------------
(***************************************************************************)
(* Candles of a longer timeframe and the zones they form:                  *)
(* resample_market_data of app/data/resampler.py, daily_adr_series and     *)
(* build_zones of app/zones.py.                                            *)
(*                                                                         *)
(* A frame is a sequence of bars in order of time.  A candle of `span'     *)
(* minutes begins at a multiple of span, a day at a multiple of its length *)
(* (the code anchors both to local midnight; the days of 23 and 25 hours   *)
(* at a change of clocks are left out).                                    *)
(***************************************************************************)
EXTENDS Integers, Sequences, FiniteSetsExt

\* First open, last close, extrema.
Joined(c, b) ==
  [c EXCEPT !.h = Max({@, b.h}), !.l = Min({@, b.l}), !.c = b.c, !.ind = b.ind]

\* Whether bar n is the first of its candle.
Begins(f, n, span) == n = 1 \/ f[n - 1].at \div span # f[n].at \div span

\* The candles of the bars before the n-th, and the n-th.
Joining(candles, f, n, span) ==
  IF Begins(f, n, span) THEN Append(candles, [f[n] EXCEPT !.at = (@ \div span) * span])
  ELSE [candles EXCEPT ![Len(candles)] = Joined(@, f[n])]

\* The bars of a frame in candles; a candle without a bar does not exist.
Grouped(f, span) ==
  LET candles[n \in 0 .. Len(f)] ==
        IF n = 0 THEN <<>> ELSE Joining(candles[n - 1], f, n, span)
  IN  candles[Len(f)]

\* Mutant: the last candle is kept while it is in progress.
Resample_unfinished(f, span) == Grouped(f, span)

\* The last candle counts once the minute that ends it is there.
Resample(f, span) ==
  LET candles == Grouped(f, span)
      last == Len(candles)
  IN  IF last > 0 /\ candles[last].at + span > f[Len(f)].at + 1
        THEN SubSeq(candles, 1, last - 1) ELSE candles

\* The sum of the ranges of the `length' days with data before that of minute t:
\* the average daily range times length, or 0 when there are fewer days.
RecentRanges(days, t, day, length) ==
  LET past == {n \in DOMAIN days : days[n].at < (t \div day) * day}
      recent == {n \in past : n + length > Cardinality(past)}
      range == [n \in recent |-> days[n].h - days[n].l]
  IN  IF Cardinality(past) < length THEN 0 ELSE MapThenSumSet(LAMBDA n : range[n], recent)

Shape(b) == IF b.o < b.c THEN "up" ELSE IF b.o > b.c THEN "down" ELSE "doji"

\* The third of three candles leaves a gap to the first, wider than pct percent
\* of the average daily range, around a middle one of the right shape.
Imbalance(h, i, shape, width, ranges, c) ==
  /\ width > 0
  /\ Shape(h[i - 1]) = shape
  /\ ~(Shape(h[i - 2]) = "doji" /\ Shape(h[i]) = "doji")
  /\ ranges > 0 /\ 100 * width * c.length > c.percent * ranges

\* The zones of a frame, usable from the end of their third candle.  c holds the
\* settings of the average daily range.
BuildZones(f, tf, span, c) ==
  LET h == Resample(f, span)
      days == Grouped(f, c.day)
      formed(i, shape, width) ==
        Imbalance(h, i, shape, width, RecentRanges(days, h[i].at, c.day, c.length), c)
      zone(i, dir, bottom, top) ==
        [tf |-> tf, dir |-> dir, bottom |-> bottom, top |-> top, formed |-> h[i].at + span]
  IN  {zone(i, "short", h[i].h, h[i - 2].l) :
         i \in {j \in 3 .. Len(h) : formed(j, "down", h[j - 2].l - h[j].h)}}
      \cup
      {zone(i, "long", h[i - 2].h, h[i].l) :
         i \in {j \in 3 .. Len(h) : formed(j, "up", h[j].l - h[j - 2].h)}}
=============================================================================
