---------------------------- MODULE RequestGate ----------------------------
(***************************************************************************)
(* The request gate of a Dukascopy client: DukascopyClient._get_json of    *)
(* app/data/dukascopy.py, called by every worker thread of a download.     *)
(*                                                                         *)
(* A worker takes the client's lock for one attempt, sleeps inside it      *)
(* until the gate is open, sends, and keeps the lock until it has the      *)
(* response.  A retriable failure moves the gate for every worker.  Times  *)
(* are counted down: `gate' is how far _next_request_at is ahead of the    *)
(* clock.  The provider is a choice among responses and delays.            *)
(***************************************************************************)
EXTENDS Integers

CONSTANTS
  Workers,      \* threads that share the client
  Interval,     \* request_interval_seconds
  Retries,      \* attempts per call
  Backoff,      \* attempt -> backoff_seconds * 2^attempt
  RetryAfter,   \* delays a response may ask for (0: no header)
  MaxCalls      \* bound: calls of a worker

ASSUME GateAssumptions ==
  /\ Interval \in Nat /\ Retries \in Nat \ {0} /\ MaxCalls \in Nat
  /\ Backoff \in [0 .. (Retries - 1) -> Nat]
  /\ RetryAfter \subseteq Nat

VARIABLES
  pc,       \* what each worker does next
  attempt,  \* the attempt of its call
  calls,    \* calls it has made
  locked,   \* _request_lock
  gate,     \* time until _next_request_at
  since,    \* history: time since the last request was sent, up to Interval
  asked     \* history: what is left of the longest Retry-After received

vars == <<pc, attempt, calls, locked, gate, since, asked>>

Longest(a, b) == IF a >= b THEN a ELSE b
Shortest(a, b) == IF a <= b THEN a ELSE b
Down(t) == Longest(t - 1, 0)

Init ==
  /\ pc = [w \in Workers |-> "idle"]
  /\ attempt = [w \in Workers |-> 0]
  /\ calls = [w \in Workers |-> 0]
  /\ locked = FALSE
  /\ gate = 0 /\ since = Interval /\ asked = 0

Goto(w, step) == pc' = [pc EXCEPT ![w] = step]

Call(w) ==
  /\ pc[w] = "idle" /\ calls[w] < MaxCalls
  /\ Goto(w, "lock")
  /\ attempt' = [attempt EXCEPT ![w] = 0]
  /\ calls' = [calls EXCEPT ![w] = @ + 1]
  /\ UNCHANGED <<locked, gate, since, asked>>

Acquire(w) ==
  /\ pc[w] = "lock" /\ ~locked
  /\ locked' = TRUE
  /\ Goto(w, "gate")
  /\ UNCHANGED <<attempt, calls, gate, since, asked>>

\* The loop of sleeps ends when the gate is open; the gate closes again before
\* the request leaves, so that the interval runs from send to send.
Send(w) ==
  /\ pc[w] = "gate" /\ gate = 0
  /\ gate' = Interval
  /\ since' = 0
  /\ Goto(w, "flight")
  /\ UNCHANGED <<attempt, calls, locked, asked>>

\* Mutant: an attempt ends without leaving the lock.
Answer_keeps_lock(w) ==
  /\ pc[w] = "flight"
  /\ Goto(w, "idle")
  /\ UNCHANGED <<attempt, calls, locked, gate, since, asked>>

\* A payload, or an HTTP error that no retry can help: the call ends.
Answer(w) ==
  /\ pc[w] = "flight"
  /\ locked' = FALSE
  /\ Goto(w, "idle")
  /\ UNCHANGED <<attempt, calls, gate, since, asked>>

\* Mutant: the cooldown replaces the interval.
Cooldown_replaces(a, delay) == Longest(Backoff[a], delay)

\* The gate never moves closer.
Cooldown(a, delay) == Longest(gate, Longest(Backoff[a], delay))

\* Mutant: one attempt too many.
FailRetriably_once_more(w) ==
  /\ pc[w] = "flight"
  /\ locked' = FALSE
  /\ \E delay \in RetryAfter :
       /\ gate' = Cooldown(attempt[w], delay)
       /\ asked' = Longest(asked, delay)
  /\ IF attempt[w] + 1 <= Retries
       THEN /\ attempt' = [attempt EXCEPT ![w] = @ + 1]
            /\ Goto(w, "lock")
       ELSE UNCHANGED attempt /\ Goto(w, "idle")
  /\ UNCHANGED <<calls, since>>

\* A network error, a bad payload, 408, 429 or 5xx.  The cooldown counts after
\* the last attempt too: it holds for the workers that wait.
FailRetriably(w) ==
  /\ pc[w] = "flight"
  /\ locked' = FALSE
  /\ \E delay \in RetryAfter :
       /\ gate' = Cooldown(attempt[w], delay)
       /\ asked' = Longest(asked, delay)
  /\ IF attempt[w] + 1 < Retries
       THEN /\ attempt' = [attempt EXCEPT ![w] = @ + 1]
            /\ Goto(w, "lock")
       ELSE UNCHANGED attempt /\ Goto(w, "idle")
  /\ UNCHANGED <<calls, since>>

\* Time passes, also while a response is awaited.
Tick ==
  /\ gate' = Down(gate)
  /\ since' = Shortest(since + 1, Interval)
  /\ asked' = Down(asked)
  /\ UNCHANGED <<pc, attempt, calls, locked>>

Step(w) == Call(w) \/ Acquire(w) \/ Send(w) \/ Answer(w) \/ FailRetriably(w)

Next == Tick \/ \E w \in Workers : Step(w)

Spec == Init /\ [][Next]_vars

\* Time goes on, every attempt is answered or times out, and a worker that can
\* take the lock, and goes on being able to, takes it.
FairSpec ==
  /\ Spec
  /\ WF_vars(Tick)
  /\ \A w \in Workers :
       WF_vars(Acquire(w)) /\ WF_vars(Send(w)) /\ WF_vars(Answer(w) \/ FailRetriably(w))

-----------------------------------------------------------------------------
(* Properties.                                                              *)

\* Types of the workers and of the clocks.
TypeOK ==
  /\ pc \in [Workers -> {"idle", "lock", "gate", "flight"}]
  /\ attempt \in [Workers -> 0 .. (Retries - 1)]
  /\ calls \in [Workers -> 0 .. MaxCalls]
  /\ locked \in BOOLEAN
  /\ gate \in Nat /\ since \in 0 .. Interval /\ asked \in Nat

Inside(w) == pc[w] \in {"gate", "flight"}

\* One request in flight per client, the sleeping sender included, and the
\* lock is held exactly then (docs/CURRENT_STATE.md).
OneInFlight ==
  /\ locked <=> \E w \in Workers : Inside(w)
  /\ \A v, w \in Workers : Inside(v) /\ Inside(w) => v = w

\* Two requests leave at least Interval apart, whichever workers send them,
\* and none leaves before every Retry-After received so far has run out.
SpacedAndPatient ==
  [][\A w \in Workers :
       pc[w] # "flight" /\ pc'[w] = "flight" => since >= Interval /\ asked = 0]_vars

\* Why: the gate is never nearer than what is left of either.
GateCovers == gate + since >= Interval /\ gate >= asked

\* Every call ends: no worker waits for ever behind the lock or the gate.
CallsEnd == \A w \in Workers : pc[w] # "idle" ~> pc[w] = "idle"
=============================================================================
