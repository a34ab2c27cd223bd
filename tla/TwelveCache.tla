---------------------------- MODULE TwelveCache ----------------------------
(***************************************************************************)
(* The cache of the Twelve Data provider (app/data_twelvedata.py): one     *)
(* file per instrument, extended at its two ends by each request and       *)
(* rewritten whole.  The file is what the cache knows; there is no record  *)
(* of what was asked for.                                                  *)
(*                                                                         *)
(* A candle is abstracted to its minute: which of two candles of a minute  *)
(* stays is left out, as the properties do not look at prices.             *)
(***************************************************************************)
EXTENDS Integers, FiniteSetsExt

CONSTANTS
  Readers,   \* threads that ask for candles: the worker and the scheduler
  Horizon,   \* bound: minutes are 0 .. Horizon
  Served     \* those the provider always returns once they are closed

VARIABLES
  clock,     \* the minute in progress
  file,      \* minutes of the candles in the Parquet file
  request    \* what each reader asks for and the copy of the file it has read

vars == <<clock, file, request>>

Minutes == 0 .. Horizon
NoRequest == [from |-> 0, to |-> 0, cached |-> {}]

Init ==
  /\ clock = 0
  /\ file = {}
  /\ request = [r \in Readers |-> NoRequest]

Tick ==
  /\ clock < Horizon
  /\ clock' = clock + 1
  /\ UNCHANGED <<file, request>>

\* _fetch_chunks: nothing when the range is empty.
Replies(from, to) ==
  {S \in SUBSET {m \in from .. (to - 1) : m <= clock} :
     \A m \in Served : from <= m /\ m < to /\ m < clock => m \in S}

\* CandleCache.get reads the file.
Ask(r, from, to) ==
  /\ request[r] = NoRequest
  /\ from < to
  /\ request' = [request EXCEPT ![r] = [from |-> from, to |-> to, cached |-> file]]
  /\ UNCHANGED <<clock, file>>

\* Where the older part ends, if one is fetched, and where the newer one begins.
OlderEnd(q) ==
  IF q.cached = {} THEN q.to ELSE IF Min(q.cached) > q.from THEN Min(q.cached) ELSE q.from
NewerStart(q, older) ==
  LET known == IF q.cached = {} THEN older ELSE q.cached
  IN  IF known = {} THEN q.from ELSE Max({q.from, Max(known) - 2})

\* The two ends are fetched and the file is written, if there is anything to write.
Answer(r) ==
  LET q == request[r]
  IN  /\ q # NoRequest
      /\ \E older \in Replies(q.from, OlderEnd(q)) :
           \E newer \in Replies(NewerStart(q, older), q.to) :
             LET out == q.cached \cup older \cup newer
             IN  file' = IF out = {} THEN file ELSE out
      /\ request' = [request EXCEPT ![r] = NoRequest]
      /\ UNCHANGED clock

\* A call fails: nothing is written.
Fails(r) ==
  /\ request[r] # NoRequest
  /\ request' = [request EXCEPT ![r] = NoRequest]
  /\ UNCHANGED <<clock, file>>

Next ==
  \/ Tick
  \/ \E r \in Readers :
       \/ \E from, to \in 0 .. (Horizon + 1) : Ask(r, from, to)
       \/ Answer(r) \/ Fails(r)

Spec == Init /\ [][Next]_vars

\* "Reprend 2 minutes pour éviter une coupure au bord du cache" (line 155): the
\* file has no hole, so that no request gets candles with minutes missing that
\* the provider would have served.
NoCut == \A m \in Served : (\E a, b \in file : a < m /\ m < b) => m \in file
=============================================================================
