------------------------- MODULE RequestGateProofs -------------------------
(***************************************************************************)
(* RequestGate for every number of workers, interval, backoff and delay.   *)
(***************************************************************************)
EXTENDS RequestGate, TLAPS

LEMMA InitHolds == Init => TypeOK /\ OneInFlight /\ GateCovers
<1>. SUFFICES ASSUME Init PROVE TypeOK /\ OneInFlight /\ GateCovers
  OBVIOUS
<1>1. 0 \in 0 .. (Retries - 1) /\ 0 \in 0 .. MaxCalls /\ Interval \in 0 .. Interval
  BY GateAssumptions
<1>2. TypeOK
  BY <1>1 DEF Init, TypeOK
<1>3. OneInFlight
  BY DEF Init, OneInFlight, Inside
<1>4. GateCovers
  BY GateAssumptions DEF Init, GateCovers
<1>. QED
  BY <1>2, <1>3, <1>4

LEMMA TypeStep == TypeOK /\ [Next]_vars => TypeOK'
<1>. SUFFICES ASSUME TypeOK, [Next]_vars PROVE TypeOK'
  OBVIOUS
<1>. USE GateAssumptions DEF TypeOK, Goto
<1>1. CASE Tick
  BY <1>1 DEF Tick, Down, Longest, Shortest
<1>2. ASSUME NEW w \in Workers, Call(w) PROVE TypeOK'
  BY <1>2 DEF Call
<1>3. ASSUME NEW w \in Workers, Acquire(w) PROVE TypeOK'
  BY <1>3 DEF Acquire
<1>4. ASSUME NEW w \in Workers, Send(w) PROVE TypeOK'
  BY <1>4 DEF Send
<1>5. ASSUME NEW w \in Workers, Answer(w) PROVE TypeOK'
  BY <1>5 DEF Answer
<1>6. ASSUME NEW w \in Workers, FailRetriably(w) PROVE TypeOK'
  <2>1. attempt[w] \in 0 .. (Retries - 1) /\ Backoff[attempt[w]] \in Nat
    OBVIOUS
  <2>2. gate' \in Nat /\ asked' \in Nat
    BY <1>6, <2>1 DEF FailRetriably, Cooldown, Longest
  <2>3. attempt' \in [Workers -> 0 .. (Retries - 1)]
    <3>1. attempt[w] + 1 < Retries => attempt[w] + 1 \in 0 .. (Retries - 1)
      BY <2>1
    <3>2. attempt' = attempt \/ (attempt[w] + 1 < Retries
                                 /\ attempt' = [attempt EXCEPT ![w] = attempt[w] + 1])
      BY <1>6 DEF FailRetriably
    <3>. QED
      BY <3>1, <3>2
  <2>. QED
    BY <1>6, <2>2, <2>3 DEF FailRetriably
<1>7. CASE UNCHANGED vars
  BY <1>7 DEF vars
<1>. QED
  BY <1>1, <1>2, <1>3, <1>4, <1>5, <1>6, <1>7 DEF Next, Step

LEMMA FlightStep == TypeOK /\ OneInFlight /\ [Next]_vars => OneInFlight'
<1>. SUFFICES ASSUME TypeOK, OneInFlight, [Next]_vars PROVE OneInFlight'
  OBVIOUS
<1>. USE DEF OneInFlight, Inside, TypeOK, Goto
<1>1. CASE UNCHANGED <<pc, locked>>
  BY <1>1
<1>2. ASSUME NEW w \in Workers, Call(w) PROVE OneInFlight'
  BY <1>2 DEF Call
<1>3. ASSUME NEW w \in Workers, Acquire(w) PROVE OneInFlight'
  BY <1>3 DEF Acquire
<1>4. ASSUME NEW w \in Workers, Send(w) PROVE OneInFlight'
  BY <1>4 DEF Send
<1>5. ASSUME NEW w \in Workers, Answer(w) PROVE OneInFlight'
  BY <1>5 DEF Answer
<1>6. ASSUME NEW w \in Workers, FailRetriably(w) PROVE OneInFlight'
  BY <1>6 DEF FailRetriably
<1>. QED
  BY <1>1, <1>2, <1>3, <1>4, <1>5, <1>6 DEF Next, Step, Tick, vars

LEMMA GateStep == TypeOK /\ GateCovers /\ [Next]_vars => GateCovers'
<1>. SUFFICES ASSUME TypeOK, GateCovers, [Next]_vars PROVE GateCovers'
  OBVIOUS
<1>. USE GateAssumptions DEF TypeOK, GateCovers
<1>1. CASE UNCHANGED <<gate, since, asked>>
  BY <1>1
<1>2. CASE Tick
  BY <1>2 DEF Tick, Down, Longest, Shortest
<1>3. ASSUME NEW w \in Workers, Send(w) PROVE GateCovers'
  BY <1>3 DEF Send
<1>4. ASSUME NEW w \in Workers, FailRetriably(w) PROVE GateCovers'
  <2>1. Backoff[attempt[w]] \in Nat
    OBVIOUS
  <2>2. PICK delay \in RetryAfter : gate' = Cooldown(attempt[w], delay)
                                    /\ asked' = Longest(asked, delay)
    BY <1>4 DEF FailRetriably
  <2>3. delay \in Nat /\ since' = since
    BY <1>4 DEF FailRetriably
  <2>. QED
    BY <2>1, <2>2, <2>3 DEF Cooldown, Longest
<1>. QED
  BY <1>1, <1>2, <1>3, <1>4 DEF Next, Step, Call, Acquire, Answer, vars

\* Workers and clocks keep their types.
THEOREM TypeCorrect == Spec => []TypeOK
BY InitHolds, TypeStep, PTL DEF Spec

\* One request in flight per client, and the lock is released after each.
THEOREM OneRequest == Spec => []OneInFlight
BY InitHolds, FlightStep, TypeCorrect, PTL DEF Spec

\* Requests are spaced and no Retry-After is cut short, by any worker.
THEOREM SpacingHolds == Spec => SpacedAndPatient
<1>1. TypeOK /\ GateCovers /\ [Next]_vars =>
        [\A w \in Workers :
           pc[w] # "flight" /\ pc'[w] = "flight" => since >= Interval /\ asked = 0]_vars
  <2>. SUFFICES ASSUME TypeOK, GateCovers, Next, NEW w \in Workers,
                       pc[w] # "flight", pc'[w] = "flight"
                PROVE  since >= Interval /\ asked = 0
    OBVIOUS
  <2>1. PICK v \in Workers : Step(v)
    BY DEF Next, Tick
  <2>2. Send(v)
    BY <2>1 DEF Step, Call, Acquire, Answer, FailRetriably, Goto, TypeOK
  <2>. QED
    BY <2>2, GateAssumptions DEF Send, GateCovers, TypeOK
<1>2. TypeOK /\ GateCovers /\ [Next]_vars => GateCovers'
  BY GateStep
<1>. QED
  BY <1>1, <1>2, InitHolds, TypeCorrect, PTL DEF Spec, SpacedAndPatient
=============================================================================
