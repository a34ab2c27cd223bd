------------------------- MODULE RunLifecycleProofs -------------------------
(***************************************************************************)
(* RunLifecycle's types, its lock, its published result, who holds a run,  *)
(* what a poll may see and the journal of runs, for every set of runs and  *)
(* requests and for any number of restarts.                                *)
(***************************************************************************)
EXTENDS RunLifecycle, TLAPS

\* What the types rest on: a request that will insert or submit still owes a
\* run, and the worker reports on the run it has taken.
RunSteps == {"report", "save_output", "save_latest", "complete", "fail"}
Strengthening ==
  /\ \A h \in Handlers :
       /\ handler[h].pc # "idle" => handler[h].left >= 1
       /\ handler[h].pc = "submit" => handler[h].run \in Runs
  /\ wpc \in RunSteps => current \in Runs
  /\ wpc = "report" => stage <= Len(StagesOf(current))

Inv == TypeOK /\ Strengthening

LEMMA StagesLen == Len(ResearchStages) = 9 /\ Len(LegacyStages) = 3
BY DEF ResearchStages, LegacyStages

LEMMA StagesOfLen ==
  ASSUME NEW r
  PROVE  /\ Len(StagesOf(r)) \in Nat /\ 1 <= Len(StagesOf(r)) /\ Len(StagesOf(r)) <= 9
         /\ r \in LegacyPresets => Len(StagesOf(r)) = 3 /\ StagesOf(r) = LegacyStages
         /\ r \notin LegacyPresets => Len(StagesOf(r)) = 9 /\ StagesOf(r) = ResearchStages
<1>1. CASE r \in LegacyPresets
  <2>1. StagesOf(r) = LegacyStages
    BY <1>1 DEF StagesOf
  <2>2. Len(StagesOf(r)) = 3
    BY <2>1, StagesLen
  <2>. QED
    BY <1>1, <2>1, <2>2
<1>2. CASE r \notin LegacyPresets
  <2>1. StagesOf(r) = ResearchStages
    BY <1>2 DEF StagesOf
  <2>2. Len(StagesOf(r)) = 9
    BY <2>1, StagesLen
  <2>. QED
    BY <1>2, <2>1, <2>2
<1>. QED
  BY <1>1, <1>2

LEMMA ReportType ==
  ASSUME NEW s \in {"NONE", "QUEUED"} \cup InProgress \cup Terminal, NEW p \in 0..100
  PROVE  Report(s, p) \in Rows
BY DEF Report, Rows

LEMMA InProgressNames ==
  {"LOADING_DATA", "VALIDATING_DATA", "BUILDING_SESSIONS", "BUILDING_ZONES",
   "CALCULATING_INDICATORS", "GENERATING_SETUPS", "SIMULATING_TRADES",
   "CALCULATING_STATISTICS", "SAVING_RESULTS"} \subseteq InProgress
<1>1. DOMAIN ResearchStages = 1..9
  BY DEF ResearchStages
<1>2. /\ ResearchStages[1].status = "LOADING_DATA"
      /\ ResearchStages[2].status = "VALIDATING_DATA"
      /\ ResearchStages[3].status = "BUILDING_SESSIONS"
      /\ ResearchStages[4].status = "BUILDING_ZONES"
      /\ ResearchStages[5].status = "CALCULATING_INDICATORS"
      /\ ResearchStages[6].status = "GENERATING_SETUPS"
      /\ ResearchStages[7].status = "SIMULATING_TRADES"
      /\ ResearchStages[8].status = "CALCULATING_STATISTICS"
      /\ ResearchStages[9].status = "SAVING_RESULTS"
  BY DEF ResearchStages, Report
<1>3. \A i \in 1..9 : ResearchStages[i].status \in InProgress
  BY <1>1 DEF InProgress
<1>4. /\ 1 \in 1..9 /\ 2 \in 1..9 /\ 3 \in 1..9 /\ 4 \in 1..9 /\ 5 \in 1..9
      /\ 6 \in 1..9 /\ 7 \in 1..9 /\ 8 \in 1..9 /\ 9 \in 1..9
  OBVIOUS
<1>. QED
  BY <1>2, <1>3, <1>4

\* Every progress report is a legal row.
LEMMA StagesType ==
  ASSUME NEW r \in Runs, NEW i \in Nat, 1 <= i, i <= Len(StagesOf(r))
  PROVE  StagesOf(r)[i] \in Rows
<1>0. {10, 22, 32, 42, 52, 62, 76, 85, 88, 95} \subseteq 0..100
  OBVIOUS
<1>. HIDE DEF Rows
<1>1. CASE r \in LegacyPresets
  <2>1. i = 1 \/ i = 2 \/ i = 3
    <3>1. Len(StagesOf(r)) = 3
      BY <1>1, StagesOfLen
    <3>. QED
      BY <3>1
  <2>2. /\ LegacyStages[1] = Report("LOADING_DATA", 10)
        /\ LegacyStages[2] = Report("CALCULATING_STATISTICS", 85)
        /\ LegacyStages[3] = Report("SAVING_RESULTS", 95)
    BY DEF LegacyStages
  <2>3. /\ LegacyStages[1] \in Rows /\ LegacyStages[2] \in Rows
        /\ LegacyStages[3] \in Rows
    BY <1>0, <2>2, ReportType, InProgressNames
  <2>. QED
    BY <1>1, <2>1, <2>3, StagesOfLen
<1>2. CASE r \notin LegacyPresets
  <2>1. i = 1 \/ i = 2 \/ i = 3 \/ i = 4 \/ i = 5 \/ i = 6 \/ i = 7 \/ i = 8 \/ i = 9
    BY <1>2, StagesOfLen
  <2>2. /\ ResearchStages[1] = Report("LOADING_DATA", 10)
        /\ ResearchStages[2] = Report("VALIDATING_DATA", 22)
        /\ ResearchStages[3] = Report("BUILDING_SESSIONS", 32)
        /\ ResearchStages[4] = Report("BUILDING_ZONES", 42)
        /\ ResearchStages[5] = Report("CALCULATING_INDICATORS", 52)
        /\ ResearchStages[6] = Report("GENERATING_SETUPS", 62)
        /\ ResearchStages[7] = Report("SIMULATING_TRADES", 76)
        /\ ResearchStages[8] = Report("CALCULATING_STATISTICS", 88)
        /\ ResearchStages[9] = Report("SAVING_RESULTS", 95)
    BY DEF ResearchStages
  <2>3. /\ ResearchStages[1] \in Rows /\ ResearchStages[2] \in Rows
        /\ ResearchStages[3] \in Rows /\ ResearchStages[4] \in Rows
        /\ ResearchStages[5] \in Rows /\ ResearchStages[6] \in Rows
        /\ ResearchStages[7] \in Rows /\ ResearchStages[8] \in Rows
        /\ ResearchStages[9] \in Rows
    BY <1>0, <2>2, ReportType, InProgressNames
  <2>. QED
    BY <1>2, <2>1, <2>3, StagesOfLen
<1>. QED
  BY <1>1, <1>2

LEMMA RowTypes == NoRow \in Rows /\ Queued \in Rows
                  /\ Report("COMPLETED", 100) \in Rows /\ Report("FAILED", 100) \in Rows
BY DEF NoRow, Queued, Report, Rows, Terminal

LEMMA InvInit == Init => Inv
<1>. SUFFICES ASSUME Init PROVE Inv
  OBVIOUS
<1>1. row \in [Runs -> Rows]
  BY RowTypes DEF Init
<1>2. handler \in [Handlers -> [pc : {"idle", "create", "submit"},
                                run : Runs \cup {Nothing}, left : 0..MaxBatch]]
  BY RunAssumptions DEF Init, Idle
<1>3. stage \in 1..Len(ResearchStages)
  BY StagesLen DEF Init
<1>4. Strengthening
  BY DEF Init, Strengthening, Idle, RunSteps
<1>5. queue \in Seq(Jobs) /\ boots \in 0..MaxBoots
  BY RunAssumptions DEF Init
<1>. QED
  BY <1>1, <1>2, <1>3, <1>4, <1>5 DEF Init, Inv, TypeOK

LEMMA InvStep == Inv /\ [Next]_vars => Inv'
<1>. SUFFICES ASSUME Inv, [Next]_vars PROVE Inv'
  OBVIOUS
<1>. USE RunAssumptions
<1>a. MaxBatch \in Nat /\ MaxBoots \in Nat
  OBVIOUS
<1>b. Idle \in [pc : {"idle", "create", "submit"}, run : Runs \cup {Nothing}, left : 0..MaxBatch]
  BY <1>a DEF Idle
<1>c. 1 \in 1..Len(ResearchStages)
  BY StagesLen
<1>1. CASE Boot
  <2>1. queue' \in Seq(Jobs)
    <3>1. <<>> \in Seq(Jobs) /\ Legacy \in Jobs
      BY DEF Jobs
    <3>2. <<Legacy>> \in Seq(Jobs)
      BY <3>1
    <3>. QED
      BY <1>1, <3>1, <3>2 DEF Boot
  <2>. QED
    BY <1>1, <1>a, <2>1 DEF Boot, Inv, TypeOK, Strengthening, tables, worker, legacyVars
<1>2. CASE Shutdown
  BY <1>2 DEF Shutdown, Inv, TypeOK, Strengthening, tables, worker, legacyVars
<1>3. CASE Exit
  BY <1>3 DEF Exit, Inv, TypeOK, Strengthening, tables, worker, legacyVars
<1>4. CASE Crash
  <2>1. TypeOK'
    <3>1. handler' \in [Handlers -> [pc : {"idle", "create", "submit"},
                                     run : Runs \cup {Nothing}, left : 0..MaxBatch]]
      BY <1>4, <1>b DEF Crash
    <3>2. lost' \subseteq Runs
      BY <1>4 DEF Crash, Unended
    <3>3. queue' \in Seq(Jobs)
      BY <1>4 DEF Crash
    <3>. QED
      BY <1>4, <1>c, <3>1, <3>2, <3>3 DEF Crash, Inv, TypeOK, tables
  <2>2. Strengthening'
    BY <1>4 DEF Crash, Strengthening, Idle, RunSteps
  <2>. QED
    BY <2>1, <2>2 DEF Inv
<1>5. CASE AskLegacy
  BY <1>5 DEF AskLegacy, Inv, TypeOK, Strengthening, Jobs, tables, process, worker, legacyVars
<1>6. ASSUME NEW h \in Handlers, HandlerStep(h) PROVE Inv'
  <2>1. ASSUME NEW n \in 1..MaxBatch, Ask(h, n) PROVE Inv'
    BY <2>1, <1>a DEF Ask, Inv, TypeOK, Strengthening, tables, process, worker, legacyVars
  <2>2. ASSUME NEW r \in Runs, CreateRun(h, r) PROVE Inv'
    <3>1. row' \in [Runs -> Rows]
      BY <2>2, RowTypes DEF CreateRun, Inv, TypeOK
    <3>. DEFINE next == [handler[h] EXCEPT !.pc = "submit", !.run = r]
    <3>2. handler' = [handler EXCEPT ![h] = next]
      BY <2>2 DEF CreateRun, Inv, TypeOK
    <3>3. /\ next \in [pc : {"idle", "create", "submit"},
                       run : Runs \cup {Nothing}, left : 0..MaxBatch]
          /\ next.left >= 1 /\ next.run = r
      BY <2>2 DEF CreateRun, Inv, TypeOK, Strengthening
    <3>. HIDE DEF next
    <3>4. TypeOK'
      <4>1. handler' \in [Handlers -> [pc : {"idle", "create", "submit"},
                                       run : Runs \cup {Nothing}, left : 0..MaxBatch]]
        BY <3>2, <3>3 DEF Inv, TypeOK
      <4>. QED
        BY <2>2, <3>1, <4>1 DEF CreateRun, Inv, TypeOK, process, worker, legacyVars
    <3>5. Strengthening'
      BY <2>2, <3>2, <3>3 DEF CreateRun, Inv, TypeOK, Strengthening, worker
    <3>. QED
      BY <3>4, <3>5 DEF Inv
  <2>3. CASE Refuse(h)
    <3>1. TypeOK'
      BY <2>3, <1>b DEF Refuse, Inv, TypeOK, tables, process, worker, legacyVars
    <3>2. Strengthening'
      BY <2>3 DEF Refuse, Inv, TypeOK, Strengthening, Idle, worker
    <3>. QED
      BY <3>1, <3>2 DEF Inv
  <2>4. CASE Submit(h)
    <3>1. handler[h].run \in Runs /\ handler[h].left \in 1..MaxBatch
      BY <2>4, <1>a DEF Submit, Inv, TypeOK, Strengthening
    <3>2. queue' \in Seq(Jobs)
      BY <2>4, <3>1 DEF Submit, Inv, TypeOK, Jobs
    <3>. DEFINE next == IF handler[h].left = 1 THEN Idle
                        ELSE [pc |-> "create", run |-> Nothing, left |-> handler[h].left - 1]
    <3>3. /\ next \in [pc : {"idle", "create", "submit"},
                       run : Runs \cup {Nothing}, left : 0..MaxBatch]
          /\ next.pc # "idle" => next.left >= 1
          /\ next.pc # "submit"
      BY <3>1, <1>a, <1>b DEF Idle
    <3>4. handler' = [handler EXCEPT ![h] = next]
      BY <2>4 DEF Submit
    <3>. HIDE DEF next
    <3>5. TypeOK'
      BY <2>4, <3>2, <3>3, <3>4 DEF Submit, Inv, TypeOK, tables, process, worker, legacyVars
    <3>6. Strengthening'
      BY <2>4, <3>3, <3>4 DEF Submit, Inv, TypeOK, Strengthening, worker
    <3>. QED
      BY <3>5, <3>6 DEF Inv
  <2>. QED
    BY <1>6, <2>1, <2>2, <2>3, <2>4 DEF HandlerStep
<1>7. ASSUME NEW c \in Callers,
             Acquire(c) \/ AlreadyRunning(c) \/ SaveLegacy(c) \/ Release(c)
      PROVE  Inv'
  <2>1. CASE Acquire(c)
    BY <2>1 DEF Acquire, Inv, TypeOK, Strengthening, tables, process, worker
  <2>2. (JobDone \/ UNCHANGED worker) /\ UNCHANGED <<handler, queue>> =>
          /\ current' \in Jobs \cup {Nothing}
          /\ wpc' \in {"idle", "report", "save_output", "save_latest", "complete",
                       "fail", "execute"}
          /\ stage' \in 1..Len(ResearchStages)
          /\ Strengthening'
    BY <1>c DEF JobDone, worker, Inv, TypeOK, Strengthening, RunSteps
  <2>3. CASE AlreadyRunning(c)
    BY <2>2, <2>3 DEF AlreadyRunning, Free, Inv, TypeOK, tables, process, legacyVars
  <2>4. CASE SaveLegacy(c)
    BY <2>4 DEF SaveLegacy, Inv, TypeOK, Strengthening, Jobs, process, worker
  <2>5. CASE Release(c)
    BY <2>2, <2>5 DEF Release, Free, Inv, TypeOK, tables, process
  <2>. QED
    BY <1>7, <2>1, <2>3, <2>4, <2>5
<1>8. CASE WorkerStep
  <2>1. CASE TakeJob
    <3>1. Head(queue) \in Jobs /\ Tail(queue) \in Seq(Jobs)
      BY <2>1 DEF TakeJob, Inv, TypeOK
    <3>2. wpc' = "report" => current' \in Runs /\ stage' <= Len(StagesOf(current'))
      <4>1. CASE Head(queue) = Legacy
        BY <2>1, <4>1 DEF TakeJob
      <4>2. CASE Head(queue) # Legacy
        BY <2>1, <3>1, <4>2, StagesOfLen DEF TakeJob, Jobs
      <4>. QED
        BY <4>1, <4>2
    <3>3. wpc' \in {"execute", "report"}
      BY <2>1 DEF TakeJob
    <3>4. TypeOK'
      BY <2>1, <1>c, <3>1, <3>3 DEF TakeJob, Inv, TypeOK, tables, process, legacyVars
    <3>5. Strengthening'
      BY <2>1, <3>2, <3>3 DEF TakeJob, Inv, Strengthening, RunSteps
    <3>. QED
      BY <3>4, <3>5 DEF Inv
  <2>2. CASE ReportProgress
    <3>1. current \in Runs /\ stage \in Nat /\ 1 <= stage /\ stage <= Len(StagesOf(current))
      BY <2>2, StagesLen DEF ReportProgress, Inv, TypeOK, Strengthening, RunSteps
    <3>2. row' \in [Runs -> Rows]
      BY <2>2, <3>1, StagesType DEF ReportProgress, SetRow, Inv, TypeOK
    <3>3. Len(StagesOf(current)) <= 9 /\ Len(StagesOf(current)) \in Nat
      BY StagesOfLen
    <3>4. stage' \in 1..9 /\ (wpc' = "report" => stage' <= Len(StagesOf(current)))
          /\ wpc' \in {"report", "save_output"}
      BY <2>2, <3>1, <3>3 DEF ReportProgress
    <3>5. TypeOK'
      BY <2>2, <3>2, <3>4, StagesLen
         DEF ReportProgress, Inv, TypeOK, process, legacyVars
    <3>6. Strengthening'
      BY <2>2, <3>1, <3>4 DEF ReportProgress, Inv, Strengthening, RunSteps
    <3>. QED
      BY <3>5, <3>6 DEF Inv
  <2>3. CASE SaveRunOutput
    BY <2>3 DEF SaveRunOutput, Inv, TypeOK, Strengthening, RunSteps, process, legacyVars
  <2>4. CASE SaveResult
    BY <2>4 DEF SaveResult, Inv, TypeOK, Strengthening, RunSteps, process, legacyVars
  <2>5. CASE Complete
    BY <2>5, <1>c, RowTypes DEF Complete, SetRow, JobDone, Inv, TypeOK, Strengthening, RunSteps, process, legacyVars
  <2>6. CASE Raise
    BY <2>6 DEF Raise, Inv, TypeOK, Strengthening, RunSteps, tables, process, legacyVars
  <2>7. CASE Fail
    BY <2>7, <1>c, RowTypes DEF Fail, SetRow, JobDone, Inv, TypeOK, Strengthening, RunSteps, process, legacyVars
  <2>8. CASE FailFails
    BY <2>8, <1>c DEF FailFails, JobDone, Inv, TypeOK, Strengthening, RunSteps, tables, process, legacyVars
  <2>. QED
    BY <1>8, <2>1, <2>2, <2>3, <2>4, <2>5, <2>6, <2>7, <2>8, <1>7 DEF WorkerStep, Callers
<1>9. CASE SchedulerStep
  BY <1>7, <1>9 DEF SchedulerStep, Callers
<1>10. CASE UNCHANGED vars
  BY <1>10 DEF vars, tables, process, worker, legacyVars, Inv, TypeOK, Strengthening
<1>. QED
  BY <1>1, <1>2, <1>3, <1>4, <1>5, <1>6, <1>8, <1>9, <1>10 DEF Next

\* The tables and what the threads hold keep their types.
THEOREM TypeCorrect == Spec => []TypeOK
BY InvInit, InvStep, PTL DEF Spec, Inv

-----------------------------------------------------------------------------
(* The lock.                                                                *)

LEMMA LockStep == TypeOK /\ ExecuteExclusive /\ [Next]_vars => ExecuteExclusive'
<1>. SUFFICES ASSUME TypeOK, ExecuteExclusive, [Next]_vars PROVE ExecuteExclusive'
  OBVIOUS
<1>1. CASE UNCHANGED legacyVars
  BY <1>1 DEF legacyVars, ExecuteExclusive
<1>2. CASE Crash
  BY <1>2 DEF Crash, ExecuteExclusive
<1>3. ASSUME NEW c \in Callers, Acquire(c) PROVE ExecuteExclusive'
  BY <1>3 DEF Acquire, Called, ExecuteExclusive, TypeOK
<1>4. ASSUME NEW c \in Callers, SaveLegacy(c) PROVE ExecuteExclusive'
  BY <1>4 DEF SaveLegacy, ExecuteExclusive, TypeOK
<1>5. ASSUME NEW c \in Callers, Release(c) PROVE ExecuteExclusive'
  BY <1>5 DEF Release, ExecuteExclusive, TypeOK
<1>6. \/ UNCHANGED legacyVars \/ Crash
      \/ \E c \in Callers : Acquire(c) \/ SaveLegacy(c) \/ Release(c)
  BY DEF Next, vars, Callers, Boot, Shutdown, Exit, AskLegacy, HandlerStep, Ask,
         CreateRun, Refuse, Submit, WorkerStep, SchedulerStep, TakeJob, ReportProgress,
         SaveRunOutput, SaveResult, Complete, Raise, Fail, FailFails, AlreadyRunning
<1>. QED
  BY <1>1, <1>2, <1>3, <1>4, <1>5, <1>6

\* The worker and the scheduler are never inside execute() together, and the
\* lock is held exactly while one of them is, whatever raises, is refused or
\* crashes.  Runs of LegacyPresets do not take the lock and are not covered.
THEOREM ExecuteExcludes == Spec => []ExecuteExclusive
<1>1. Init => ExecuteExclusive
  BY DEF Init, ExecuteExclusive
<1>. QED
  BY <1>1, LockStep, TypeCorrect, PTL DEF Spec

-----------------------------------------------------------------------------
(* What is shown as the latest result.                                      *)

Publishing == LatestIsStored /\ (wpc = "save_latest" => current \in output)

LEMMA PublishingStep == Publishing /\ [Next]_vars => Publishing'
<1>. SUFFICES ASSUME Publishing, [Next]_vars PROVE Publishing'
  OBVIOUS
<1>1. CASE SaveRunOutput
  BY <1>1 DEF SaveRunOutput, Publishing, LatestIsStored
<1>2. CASE SaveResult
  BY <1>2 DEF SaveResult, Publishing, LatestIsStored
<1>3. ASSUME NEW c \in Callers, SaveLegacy(c) PROVE Publishing'
  BY <1>3, RunAssumptions DEF SaveLegacy, Publishing, LatestIsStored, worker
<1>4. CASE UNCHANGED <<latest, output>> /\ (wpc' # "save_latest" \/ UNCHANGED worker)
  BY <1>4 DEF Publishing, LatestIsStored, worker
<1>5. \/ SaveRunOutput \/ SaveResult \/ \E c \in Callers : SaveLegacy(c)
      \/ UNCHANGED <<latest, output>> /\ (wpc' # "save_latest" \/ UNCHANGED worker)
  BY DEF Next, vars, tables, worker, Callers, Boot, Shutdown, Exit, Crash, AskLegacy,
         HandlerStep, Ask, CreateRun, Refuse, Submit, WorkerStep, SchedulerStep,
         TakeJob, ReportProgress, Complete, Raise, Fail, FailFails, JobDone, Free,
         Acquire, AlreadyRunning, Release
<1>. QED
  BY <1>1, <1>2, <1>3, <1>4, <1>5

\* The latest result is never that of a run whose own output is not stored.
THEOREM LatestStored == Spec => []LatestIsStored
<1>1. Init => Publishing
  BY RunAssumptions DEF Init, Publishing, LatestIsStored
<1>2. Publishing => LatestIsStored
  BY DEF Publishing
<1>. QED
  BY <1>1, <1>2, PublishingStep, PTL DEF Spec

-----------------------------------------------------------------------------
(* Who holds a run.  OneHolder counts places; here each place has a name.   *)

Requests(r) == {h \in Handlers : handler[h].run = r}

Nowhere(r) == Requests(r) = {} /\ Waiting(r) = {} /\ current # r
InRequest(r) == (\E h \in Handlers : Requests(r) = {h}) /\ Waiting(r) = {} /\ current # r
InQueue(r) == Requests(r) = {} /\ (\E i \in DOMAIN queue : Waiting(r) = {i}) /\ current # r
InWorker(r) == Requests(r) = {} /\ Waiting(r) = {} /\ current = r

PlacedAt(r) ==
  IF r \in Unended \ lost THEN InRequest(r) \/ InQueue(r) \/ InWorker(r) ELSE Nowhere(r)

Placed == \A r \in Runs : PlacedAt(r)

LEMMA HoldersSplit ==
  ASSUME NEW r
  PROVE  /\ \A h : <<"handler", h>> \in Holders(r) <=> h \in Requests(r)
         /\ \A i : <<"queue", i>> \in Holders(r) <=> i \in Waiting(r)
         /\ \A x : <<"worker", x>> \in Holders(r) <=> x = r /\ current = r
         /\ \A x \in Holders(r) :
              \/ \E h \in Requests(r) : x = <<"handler", h>>
              \/ \E i \in Waiting(r) : x = <<"queue", i>>
              \/ x = <<"worker", r>> /\ current = r
<1>1. \A a, b, c, d : <<a, b>> = <<c, d>> => a = c /\ b = d
  OBVIOUS
<1>2. "handler" # "queue" /\ "handler" # "worker" /\ "queue" # "worker"
  OBVIOUS
<1>. QED
  BY <1>1, <1>2, Zenon DEF Holders, Requests

LEMMA PlacedIsOneHolder == Placed <=> OneHolder
<1>1. ASSUME NEW r \in Runs PROVE Holders(r) = {} <=> Nowhere(r)
  BY HoldersSplit DEF Nowhere
<1>2. ASSUME NEW r \in Runs
      PROVE  (\E x \in Holders(r) : Holders(r) = {x}) <=> InRequest(r) \/ InQueue(r) \/ InWorker(r)
  <2>0. \A a, b, c, d : <<a, b>> = <<c, d>> => a = c /\ b = d
    OBVIOUS
  <2>1. ASSUME NEW x \in Holders(r), Holders(r) = {x}
        PROVE  InRequest(r) \/ InQueue(r) \/ InWorker(r)
    <3>1. ASSUME NEW h \in Requests(r), x = <<"handler", h>> PROVE InRequest(r)
      <4>1. \A g \in Requests(r) : g = h
        BY <2>0, <2>1, <3>1, HoldersSplit, Zenon
      <4>2. Waiting(r) = {} /\ current # r
        BY <2>0, <2>1, <3>1, HoldersSplit, Zenon
      <4>. QED
        BY <4>1, <4>2 DEF InRequest, Requests
    <3>2. ASSUME NEW i \in Waiting(r), x = <<"queue", i>> PROVE InQueue(r)
      <4>1. \A j \in Waiting(r) : j = i
        BY <2>0, <2>1, <3>2, HoldersSplit, Zenon
      <4>2. Requests(r) = {} /\ current # r
        BY <2>0, <2>1, <3>2, HoldersSplit, Zenon
      <4>. QED
        BY <4>1, <4>2 DEF InQueue, Waiting
    <3>3. ASSUME x = <<"worker", r>>, current = r PROVE InWorker(r)
      <4>1. ASSUME NEW h \in Requests(r) PROVE FALSE
        <5>1. <<"handler", h>> \in Holders(r)
          BY HoldersSplit
        <5>2. <<"handler", h>> = <<"worker", r>>
          BY <2>1, <3>3, <5>1
        <5>. QED
          BY <5>2
      <4>2. ASSUME NEW i \in Waiting(r) PROVE FALSE
        <5>1. <<"queue", i>> \in Holders(r)
          BY HoldersSplit
        <5>2. <<"queue", i>> = <<"worker", r>>
          BY <2>1, <3>3, <5>1
        <5>. QED
          BY <5>2
      <4>. QED
        BY <3>3, <4>1, <4>2 DEF InWorker
    <3>. QED
      BY <3>1, <3>2, <3>3, HoldersSplit
  <2>2. ASSUME InRequest(r) PROVE \E x \in Holders(r) : Holders(r) = {x}
    <3>1. PICK h \in Handlers : Requests(r) = {h}
      BY <2>2 DEF InRequest
    <3>2. <<"handler", h>> \in Holders(r)
      BY <3>1, HoldersSplit, Zenon
    <3>3. \A x \in Holders(r) : x = <<"handler", h>>
      BY <2>2, <3>1, HoldersSplit, Zenon DEF InRequest
    <3>. QED
      BY <3>2, <3>3
  <2>3. ASSUME InQueue(r) PROVE \E x \in Holders(r) : Holders(r) = {x}
    <3>1. PICK i \in DOMAIN queue : Waiting(r) = {i}
      BY <2>3 DEF InQueue
    <3>2. <<"queue", i>> \in Holders(r)
      BY <3>1, HoldersSplit, Zenon
    <3>3. \A x \in Holders(r) : x = <<"queue", i>>
      BY <2>3, <3>1, HoldersSplit, Zenon DEF InQueue
    <3>. QED
      BY <3>2, <3>3
  <2>4. ASSUME InWorker(r) PROVE \E x \in Holders(r) : Holders(r) = {x}
    <3>1. <<"worker", r>> \in Holders(r)
      BY <2>4, HoldersSplit, Zenon DEF InWorker
    <3>2. \A x \in Holders(r) : x = <<"worker", r>>
      BY <2>4, HoldersSplit, Zenon DEF InWorker
    <3>. QED
      BY <3>1, <3>2
  <2>. QED
    BY <2>1, <2>2, <2>3, <2>4
<1>. QED
  BY <1>1, <1>2 DEF Placed, PlacedAt, OneHolder

-----------------------------------------------------------------------------
(* What the argument about OneHolder needs besides.  A run that is asked    *)
(* for or waits has only been queued; the worker holds something exactly    *)
(* while it is busy; a process that is down has no thread and no queue; and *)
(* the row of the run at work says how far the worker is.                   *)

Owing ==
  \A h \in Handlers :
    /\ handler[h].run \in Runs => handler[h].pc = "submit" /\ row[handler[h].run] = Queued
    /\ handler[h].pc # "submit" => handler[h].run = Nothing

Waits == \A i \in DOMAIN queue : queue[i] \in Runs => row[queue[i]] = Queued

Taken ==
  /\ wpc = "idle" <=> current = Nothing
  /\ wpc = "execute" <=> current = Legacy
  /\ caller["worker"] # "out" => wpc = "execute"

Phases ==
  /\ phase # "up" => \A h \in Handlers : handler[h] = Idle
  /\ phase = "down" => queue = <<>> /\ wpc = "idle"

Reported ==
  /\ wpc = "report" =>
       row[current] = IF stage = 1 THEN Queued ELSE StagesOf(current)[stage - 1]
  /\ wpc \in {"save_output", "save_latest", "complete"} => row[current].status \in InProgress
  /\ wpc \in {"save_latest", "complete"} => current \in output

LostRemain == lost \subseteq Unended

Holding == Placed /\ LostRemain /\ Owing /\ Waits /\ Taken /\ Phases /\ Reported

\* The statuses of a run at work are none of the others.
LEMMA InProgressApart ==
  InProgress \cap {"NONE", "QUEUED", "COMPLETED", "FAILED"} = {}
<1>1. DOMAIN ResearchStages = 1..9
  BY DEF ResearchStages
<1>2. /\ ResearchStages[1].status = "LOADING_DATA"
      /\ ResearchStages[2].status = "VALIDATING_DATA"
      /\ ResearchStages[3].status = "BUILDING_SESSIONS"
      /\ ResearchStages[4].status = "BUILDING_ZONES"
      /\ ResearchStages[5].status = "CALCULATING_INDICATORS"
      /\ ResearchStages[6].status = "GENERATING_SETUPS"
      /\ ResearchStages[7].status = "SIMULATING_TRADES"
      /\ ResearchStages[8].status = "CALCULATING_STATISTICS"
      /\ ResearchStages[9].status = "SAVING_RESULTS"
  BY DEF ResearchStages, Report
<1>3. ASSUME NEW i \in 1..9
      PROVE  ResearchStages[i].status \notin {"NONE", "QUEUED", "COMPLETED", "FAILED"}
  <2>1. i = 1 \/ i = 2 \/ i = 3 \/ i = 4 \/ i = 5 \/ i = 6 \/ i = 7 \/ i = 8 \/ i = 9
    OBVIOUS
  <2>. QED
    BY <1>2, <2>1
<1>. QED
  BY <1>1, <1>3 DEF InProgress

\* Every report is of a run at work, and none goes back.
LEMMA StagesRise ==
  ASSUME NEW r \in Runs, NEW i \in Nat, 1 <= i, i <= Len(StagesOf(r))
  PROVE  /\ StagesOf(r)[i].status \in InProgress
         /\ 0 <= StagesOf(r)[i].pct /\ StagesOf(r)[i].pct \in Nat
         /\ i > 1 => StagesOf(r)[i - 1].pct <= StagesOf(r)[i].pct
<1>1. CASE r \in LegacyPresets
  <2>1. i = 1 \/ i = 2 \/ i = 3
    <3>1. Len(StagesOf(r)) = 3
      BY <1>1, StagesOfLen
    <3>. QED
      BY <3>1
  <2>2. /\ LegacyStages[1] = Report("LOADING_DATA", 10)
        /\ LegacyStages[2] = Report("CALCULATING_STATISTICS", 85)
        /\ LegacyStages[3] = Report("SAVING_RESULTS", 95)
    BY DEF LegacyStages
  <2>3. LegacyStages[i].status \in InProgress
    BY <2>1, <2>2, InProgressNames DEF Report
  <2>4. 0 <= LegacyStages[i].pct /\ LegacyStages[i].pct \in Nat
    BY <2>1, <2>2 DEF Report
  <2>5. i > 1 => LegacyStages[i - 1].pct <= LegacyStages[i].pct
    BY <2>1, <2>2 DEF Report
  <2>. QED
    BY <1>1, <2>3, <2>4, <2>5, StagesOfLen
<1>2. CASE r \notin LegacyPresets
  <2>1. i = 1 \/ i = 2 \/ i = 3 \/ i = 4 \/ i = 5 \/ i = 6 \/ i = 7 \/ i = 8 \/ i = 9
    BY <1>2, StagesOfLen
  <2>2. /\ ResearchStages[1] = Report("LOADING_DATA", 10)
        /\ ResearchStages[2] = Report("VALIDATING_DATA", 22)
        /\ ResearchStages[3] = Report("BUILDING_SESSIONS", 32)
        /\ ResearchStages[4] = Report("BUILDING_ZONES", 42)
        /\ ResearchStages[5] = Report("CALCULATING_INDICATORS", 52)
        /\ ResearchStages[6] = Report("GENERATING_SETUPS", 62)
        /\ ResearchStages[7] = Report("SIMULATING_TRADES", 76)
        /\ ResearchStages[8] = Report("CALCULATING_STATISTICS", 88)
        /\ ResearchStages[9] = Report("SAVING_RESULTS", 95)
    BY DEF ResearchStages
  <2>. HIDE DEF ResearchStages
  <2>3. ResearchStages[i].status \in InProgress
    BY <2>1, <2>2, InProgressNames DEF Report
  <2>4. 0 <= ResearchStages[i].pct /\ ResearchStages[i].pct \in Nat
    BY <2>1, <2>2 DEF Report
  <2>5. i > 1 => ResearchStages[i - 1].pct <= ResearchStages[i].pct
    <3>. DEFINE p(j) == ResearchStages[j].pct
    <3>1. /\ p(1) = 10 /\ p(2) = 22 /\ p(3) = 32 /\ p(4) = 42 /\ p(5) = 52
          /\ p(6) = 62 /\ p(7) = 76 /\ p(8) = 88 /\ p(9) = 95
      BY <2>2 DEF Report
    <3>2. i > 1 => (i = 2 /\ i - 1 = 1) \/ (i = 3 /\ i - 1 = 2) \/ (i = 4 /\ i - 1 = 3) \/
                   (i = 5 /\ i - 1 = 4) \/ (i = 6 /\ i - 1 = 5) \/ (i = 7 /\ i - 1 = 6) \/
                   (i = 8 /\ i - 1 = 7) \/ (i = 9 /\ i - 1 = 8)
      BY <2>1
    <3>. HIDE DEF p
    <3>3. i > 1 => p(i - 1) <= p(i)
      BY <3>1, <3>2
    <3>. QED
      BY <3>3 DEF p
  <2>. QED
    BY <1>2, <2>3, <2>4, <2>5, StagesOfLen
<1>. QED
  BY <1>1, <1>2

LEMMA RowStatus ==
  /\ NoRow.status = "NONE" /\ Queued.status = "QUEUED"
  /\ \A s, p : Report(s, p).status = s /\ Report(s, p).pct = p
  BY DEF NoRow, Queued, Report

\* The run at work is held by the worker alone and still has to be ended.
LEMMA AtWork ==
  ASSUME Placed, current \in Runs
  PROVE  InWorker(current) /\ current \in Unended /\ current \notin lost
  BY DEF Placed, PlacedAt, Nowhere, InRequest, InQueue, InWorker

\* The run of a request is held by it alone.
LEMMA InOneRequest ==
  ASSUME Placed, NEW h \in Handlers, handler[h].run \in Runs
  PROVE  /\ Requests(handler[h].run) = {h}
         /\ Waiting(handler[h].run) = {} /\ current # handler[h].run
         /\ handler[h].run \in Unended \ lost
<1>1. h \in Requests(handler[h].run)
  BY DEF Requests
<1>. QED
  BY <1>1 DEF Placed, PlacedAt, Nowhere, InRequest, InQueue, InWorker

\* A run that waits is in one place of the queue.
LEMMA InOnePlace ==
  ASSUME Placed, NEW i \in DOMAIN queue, queue[i] \in Runs
  PROVE  /\ Requests(queue[i]) = {} /\ Waiting(queue[i]) = {i} /\ current # queue[i]
         /\ queue[i] \in Unended \ lost
<1>1. i \in Waiting(queue[i])
  BY DEF Waiting
<1>. QED
  BY <1>1 DEF Placed, PlacedAt, Nowhere, InRequest, InQueue, InWorker

\* A run whose places do not change is still where it should be.
LEMMA StaysPlaced ==
  ASSUME NEW r, PlacedAt(r),
         (r \in Unended \ lost)' <=> r \in Unended \ lost,
         Requests(r)' = Requests(r), Waiting(r)' = Waiting(r),
         (current = r)' <=> current = r
  PROVE  PlacedAt(r)'
BY DEF PlacedAt, Nowhere, InRequest, InQueue, InWorker, Waiting, Requests

\* A job at the end of the queue.
LEMMA Enqueued ==
  ASSUME queue \in Seq(Jobs), NEW x \in Jobs, queue' = Append(queue, x)
  PROVE  /\ DOMAIN queue' = DOMAIN queue \cup {Len(queue) + 1}
         /\ \A i \in DOMAIN queue : queue'[i] = queue[i]
         /\ queue'[Len(queue) + 1] = x
         /\ \A r : r # x => Waiting(r)' = Waiting(r)
         /\ Waiting(x)' = Waiting(x) \cup {Len(queue) + 1}
<1>1. Len(queue) \in Nat /\ DOMAIN queue = 1..Len(queue) /\ DOMAIN queue' = 1..(Len(queue) + 1)
  OBVIOUS
<1>2. /\ DOMAIN queue' = DOMAIN queue \cup {Len(queue) + 1}
      /\ \A i \in DOMAIN queue : queue'[i] = queue[i]
      /\ queue'[Len(queue) + 1] = x
  BY <1>1
<1>. QED
  BY <1>2 DEF Waiting

\* The first job leaves the queue and the others move up.
LEMMA Dequeued ==
  ASSUME queue \in Seq(Jobs), queue # <<>>, queue' = Tail(queue)
  PROVE  /\ 1 \in DOMAIN queue /\ queue[1] = Head(queue)
         /\ \A i \in DOMAIN queue' : i + 1 \in DOMAIN queue /\ queue'[i] = queue[i + 1]
         /\ \A r : Waiting(r) = {} => Waiting(r)' = {}
         /\ \A r : Waiting(r) = {1} => Waiting(r)' = {}
         /\ \A r, i : Waiting(r) = {i} /\ i # 1 => Waiting(r)' = {i - 1}
<1>1. Len(queue) \in Nat /\ DOMAIN queue = 1..Len(queue) /\ Len(queue) # 0
  OBVIOUS
<1>2. DOMAIN queue' = 1..(Len(queue) - 1) /\ \A i \in DOMAIN queue' : queue'[i] = queue[i + 1]
  BY <1>1
<1>3. 1 \in DOMAIN queue /\ queue[1] = Head(queue)
  BY <1>1
<1>4. \A i \in DOMAIN queue' : i + 1 \in DOMAIN queue
  BY <1>1, <1>2
<1>5. \A i \in DOMAIN queue : i # 1 => i - 1 \in DOMAIN queue' /\ i - 1 + 1 = i
  BY <1>1, <1>2
<1>6. \A i \in DOMAIN queue' : i \in Nat /\ i + 1 # 1 /\ i + 1 - 1 = i
  BY <1>1, <1>2
<1>7. ASSUME NEW r, NEW i \in Waiting(r)' PROVE i + 1 \in Waiting(r) /\ i + 1 # 1
  BY <1>2, <1>4, <1>6, <1>7 DEF Waiting
<1>8. ASSUME NEW r, NEW i \in Waiting(r), i # 1 PROVE i - 1 \in Waiting(r)'
  BY <1>2, <1>5, <1>8 DEF Waiting
<1>9. ASSUME NEW r, NEW i, Waiting(r) = {i}, i # 1 PROVE Waiting(r)' = {i - 1}
  <2>1. i - 1 \in Waiting(r)'
    BY <1>8, <1>9
  <2>2. ASSUME NEW j \in Waiting(r)' PROVE j = i - 1
    <3>1. j + 1 = i
      BY <1>7, <1>9
    <3>2. j \in DOMAIN queue'
      BY DEF Waiting
    <3>3. j \in Nat
      BY <1>6, <3>2
    <3>. QED
      BY <3>1, <3>3
  <2>. QED
    BY <2>1, <2>2
<1>10. \A r : Waiting(r) = {} => Waiting(r)' = {}
  BY <1>7
<1>11. \A r : Waiting(r) = {1} => Waiting(r)' = {}
  BY <1>7
<1>. QED
  BY <1>2, <1>3, <1>4, <1>9, <1>10, <1>11

LEMMA HoldingInit == Init => Holding
<1>. SUFFICES ASSUME Init PROVE Holding
  OBVIOUS
<1>1. Unended = {}
  BY RowStatus, InProgressApart DEF Init, Unended
<1>2. Placed
  BY <1>1, RunAssumptions DEF Init, Placed, PlacedAt, Nowhere, Requests, Waiting, Idle
<1>3. LostRemain /\ Owing /\ Waits /\ Taken /\ Phases /\ Reported
  BY RunAssumptions DEF Init, LostRemain, Owing, Waits, Taken, Phases, Reported, Idle, Callers
<1>. QED
  BY <1>2, <1>3 DEF Holding

\* A step of a thread that holds what it held, and writes no row.
LEMMA HoldsOn ==
  ASSUME Holding, UNCHANGED <<row, lost, handler, queue, current>>
  PROVE  Placed' /\ LostRemain' /\ Owing' /\ Waits'
<1>1. Placed'
  BY StaysPlaced DEF Holding, Placed, Unended, Requests, Waiting
<1>. QED
  BY <1>1 DEF Holding, LostRemain, Owing, Waits, Unended

\* A row the worker writes is not one that a request or the queue holds.
LEMMA WritesItsRow ==
  ASSUME Inv, Holding, current \in Runs, NEW x, SetRow(current, x),
         UNCHANGED <<handler, queue, lost>>
  PROVE  /\ row' = [row EXCEPT ![current] = x] /\ row'[current] = x
         /\ \A r \in Runs \ {current} : row'[r] = row[r] /\ (r \in Unended' <=> r \in Unended)
         /\ LostRemain' /\ Owing' /\ Waits'
<1>1. row' = [row EXCEPT ![current] = x] /\ row \in [Runs -> Rows]
  BY DEF SetRow, Inv, TypeOK
<1>2. /\ row'[current] = x
      /\ \A r \in Runs \ {current} : row'[r] = row[r] /\ (r \in Unended' <=> r \in Unended)
  BY <1>1 DEF Unended
<1>3. LostRemain'
  BY <1>2, AtWork DEF Holding, LostRemain, Inv, TypeOK
<1>4. Owing'
  BY <1>2, InOneRequest DEF Holding, Owing
<1>5. Waits'
  BY <1>2, InOnePlace DEF Holding, Waits
<1>. QED
  BY <1>1, <1>2, <1>3, <1>4, <1>5

\* The worker lets go of the run it ended or gave up.
LEMMA LetsGo ==
  ASSUME Inv, Holding, current \in Runs, JobDone, UNCHANGED <<handler, queue>>,
         current \notin (Unended \ lost)',
         \A r \in Runs \ {current} : (r \in Unended \ lost)' <=> r \in Unended \ lost
  PROVE  Placed'
<1>1. ASSUME NEW r \in Runs, r # current PROVE PlacedAt(r)'
  <2>1. Requests(r)' = Requests(r) /\ Waiting(r)' = Waiting(r)
    BY DEF Requests, Waiting
  <2>2. current' # r
    BY RunAssumptions DEF JobDone
  <2>. QED
    BY <1>1, <2>1, <2>2, StaysPlaced DEF Holding, Placed
<1>2. ASSUME NEW r \in Runs, r = current PROVE PlacedAt(r)'
  <2>1. Requests(r) = {} /\ Waiting(r) = {}
    BY <1>2, AtWork DEF Holding, InWorker
  <2>2. Requests(r)' = {} /\ Waiting(r)' = {}
    BY <2>1 DEF Requests, Waiting
  <2>3. current' # r
    BY RunAssumptions DEF JobDone
  <2>. QED
    BY <1>2, <2>2, <2>3 DEF PlacedAt, Nowhere
<1>. QED
  BY <1>1, <1>2 DEF Placed

\* The steps of the process.
LEMMA HoldsProcess == Inv /\ Holding /\ (Boot \/ Shutdown \/ Exit \/ Crash) => Holding'
<1>. SUFFICES ASSUME Inv, Holding, Boot \/ Shutdown \/ Exit \/ Crash PROVE Holding'
  OBVIOUS
<1>1. CASE Boot
  <2>1. queue = <<>> /\ wpc = "idle" /\ \A h \in Handlers : handler[h] = Idle
    BY <1>1 DEF Boot, Holding, Phases
  <2>2. \A i \in DOMAIN queue' : queue'[i] = Legacy
    BY <1>1 DEF Boot
  <2>3. \A r \in Runs : Waiting(r) = {} /\ Waiting(r)' = {} /\ Requests(r)' = Requests(r)
    BY <1>1, <2>1, <2>2, RunAssumptions DEF Boot, Waiting, Requests
  <2>4. Placed'
    BY <1>1, <2>3, StaysPlaced DEF Boot, tables, worker, Holding, Placed, Unended
  <2>5. LostRemain' /\ Owing' /\ Waits' /\ Taken' /\ Phases' /\ Reported'
    BY <1>1, <2>1, <2>2, RunAssumptions
       DEF Boot, tables, worker, legacyVars, Holding, LostRemain, Owing, Waits, Taken,
           Phases, Reported, Unended
  <2>. QED
    BY <2>4, <2>5 DEF Holding
<1>2. CASE Shutdown \/ Exit
  <2>1. Placed' /\ LostRemain' /\ Owing' /\ Waits'
    BY <1>2, HoldsOn DEF Shutdown, Exit, tables, worker
  <2>2. Taken' /\ Phases' /\ Reported'
    BY <1>2 DEF Shutdown, Exit, tables, worker, legacyVars, Holding, Taken, Phases, Reported
  <2>. QED
    BY <2>1, <2>2 DEF Holding
<1>3. CASE Crash
  <2>1. ASSUME NEW r \in Runs PROVE PlacedAt(r)'
    <3>1. r \notin (Unended \ lost)'
      BY <1>3 DEF Crash, tables, Unended
    <3>2. Nowhere(r)'
      BY <1>3, RunAssumptions DEF Crash, Nowhere, Requests, Waiting, Idle
    <3>. QED
      BY <3>1, <3>2 DEF PlacedAt
  <2>2. LostRemain' /\ Owing' /\ Waits' /\ Taken' /\ Phases' /\ Reported'
    BY <1>3, RunAssumptions
       DEF Crash, tables, LostRemain, Owing, Waits, Taken, Phases, Reported, Unended, Idle, Callers
  <2>. QED
    BY <2>1, <2>2 DEF Holding, Placed
<1>. QED
  BY <1>1, <1>2, <1>3

\* The steps of a request.
LEMMA HoldsRequest ==
  ASSUME Inv, Holding, NEW h \in Handlers, HandlerStep(h)
  PROVE  Holding'
<1>0. UNCHANGED <<phase, boots, current, wpc, stage, caller, locked, lost>>
  BY DEF HandlerStep, Ask, CreateRun, Refuse, Submit, process, worker, legacyVars
<1>a. phase = "up"
  BY DEF HandlerStep, Ask, CreateRun, Refuse, Submit, Holding, Phases, Idle
<1>b. handler \in [Handlers -> [pc : {"idle", "create", "submit"},
                                run : Runs \cup {Nothing}, left : 0..MaxBatch]]
  BY DEF Inv, TypeOK
<1>1. CASE (\E n \in 1..MaxBatch : Ask(h, n)) \/ Refuse(h)
  <2>1. handler[h].run = Nothing /\ handler'[h].run = Nothing /\ handler'[h].pc # "submit"
    BY <1>1, <1>b DEF Ask, Refuse, Idle, Holding, Owing
  <2>2. \A g \in Handlers \ {h} : handler'[g] = handler[g]
    BY <1>1, <1>b DEF Ask, Refuse
  <2>3. UNCHANGED <<row, queue, output>>
    BY <1>1 DEF Ask, Refuse, tables
  <2>4. Placed'
    <3>1. \A r \in Runs : Requests(r)' = Requests(r) /\ Waiting(r)' = Waiting(r)
      BY <2>1, <2>2, <2>3, RunAssumptions DEF Requests, Waiting
    <3>. QED
      BY <1>0, <2>3, <3>1, StaysPlaced DEF Holding, Placed, Unended
  <2>5. LostRemain' /\ Owing' /\ Waits' /\ Taken' /\ Phases' /\ Reported'
    BY <1>0, <1>a, <2>1, <2>2, <2>3, RunAssumptions
       DEF Holding, LostRemain, Owing, Waits, Taken, Phases, Reported, Unended
  <2>. QED
    BY <2>4, <2>5 DEF Holding
<1>2. ASSUME NEW r \in Runs, CreateRun(h, r) PROVE Holding'
  <2>1. /\ handler[h].run = Nothing /\ handler'[h].run = r /\ handler'[h].pc = "submit"
        /\ \A g \in Handlers \ {h} : handler'[g] = handler[g]
        /\ row'[r] = Queued /\ \A q \in Runs \ {r} : row'[q] = row[q]
        /\ UNCHANGED <<queue, output>>
    BY <1>2, <1>b DEF CreateRun, Holding, Owing, Inv, TypeOK
  <2>2. r \notin Unended /\ r \in Unended' /\ r \notin lost
    BY <1>2, <2>1, RowStatus, InProgressApart DEF CreateRun, Unended, Holding, LostRemain
  <2>3. Requests(r) = {} /\ Waiting(r) = {} /\ current # r
    BY <2>2 DEF Holding, Placed, PlacedAt, Nowhere
  <2>4. PlacedAt(r)'
    <3>1. Requests(r)' = {h} /\ Waiting(r)' = {} /\ current' # r
      BY <1>0, <2>1, <2>3 DEF Requests, Waiting
    <3>. QED
      BY <1>0, <2>2, <3>1 DEF PlacedAt, InRequest
  <2>5. ASSUME NEW q \in Runs \ {r} PROVE PlacedAt(q)'
    <3>1. Requests(q)' = Requests(q) /\ Waiting(q)' = Waiting(q)
      BY <2>1, RunAssumptions DEF Requests, Waiting
    <3>. QED
      BY <1>0, <2>1, <3>1, StaysPlaced DEF Holding, Placed, Unended
  <2>6. LostRemain'
    BY <1>0, <2>1, <2>2 DEF Holding, LostRemain, Unended
  <2>7. Owing'
    BY <2>1, <2>3, RunAssumptions DEF Holding, Owing, Requests
  <2>8. Waits'
    BY <2>1, <2>3 DEF Holding, Waits, Waiting
  <2>9. Taken' /\ Phases' /\ Reported'
    <3>1. wpc \in RunSteps => row'[current] = row[current]
      BY <2>1, <2>3 DEF Inv, Strengthening
    <3>. QED
      BY <1>0, <1>a, <2>1, <3>1 DEF Holding, Taken, Phases, Reported, RunSteps
  <2>. QED
    BY <2>4, <2>5, <2>6, <2>7, <2>8, <2>9 DEF Holding, Placed
<1>3. CASE Submit(h)
  <2>1. PICK r \in Runs : r = handler[h].run /\ row[r] = Queued
    BY <1>3 DEF Submit, Inv, Strengthening, Holding, Owing
  <2>2. Requests(r) = {h} /\ Waiting(r) = {} /\ current # r /\ r \in Unended \ lost
    BY <2>1, InOneRequest DEF Holding
  <2>3. /\ handler'[h].run = Nothing /\ handler'[h].pc # "submit"
        /\ \A g \in Handlers \ {h} : handler'[g] = handler[g]
        /\ UNCHANGED <<row, output>>
    BY <1>3, <1>b DEF Submit, Idle, tables
  <2>4. queue \in Seq(Jobs) /\ r \in Jobs /\ queue' = Append(queue, r)
    BY <1>3, <2>1 DEF Submit, Inv, TypeOK, Jobs
  <2>5. /\ DOMAIN queue' = DOMAIN queue \cup {Len(queue) + 1}
        /\ \A i \in DOMAIN queue : queue'[i] = queue[i]
        /\ queue'[Len(queue) + 1] = r
        /\ \A q : q # r => Waiting(q)' = Waiting(q)
        /\ Waiting(r)' = {Len(queue) + 1}
    BY <2>2, <2>4, Enqueued
  <2>6. ASSUME NEW q \in Runs, q = r PROVE PlacedAt(q)'
    <3>1. Requests(q)' = {}
      BY <2>2, <2>3, <2>6, RunAssumptions DEF Requests
    <3>2. Waiting(q)' = {Len(queue) + 1} /\ Len(queue) + 1 \in DOMAIN queue'
      BY <2>5, <2>6 DEF Waiting
    <3>3. q \in (Unended \ lost)' /\ current' # q
      BY <1>0, <2>2, <2>3, <2>6 DEF Unended
    <3>. QED
      BY <3>1, <3>2, <3>3 DEF PlacedAt, InQueue
  <2>7. ASSUME NEW q \in Runs, q # r PROVE PlacedAt(q)'
    <3>1. Requests(q)' = Requests(q)
      BY <2>1, <2>3, <2>7, RunAssumptions DEF Requests
    <3>2. Waiting(q)' = Waiting(q)
      BY <2>5, <2>7
    <3>. QED
      BY <1>0, <2>3, <3>1, <3>2, StaysPlaced DEF Holding, Placed, Unended
  <2>8. LostRemain' /\ Taken' /\ Phases' /\ Reported'
    BY <1>0, <1>a, <2>3 DEF Holding, LostRemain, Taken, Phases, Reported, Unended
  <2>9. Owing' /\ Waits'
    BY <2>1, <2>3, <2>5, RunAssumptions DEF Holding, Owing, Waits
  <2>. QED
    BY <2>6, <2>7, <2>8, <2>9 DEF Holding, Placed
<1>. QED
  BY <1>1, <1>2, <1>3 DEF HandlerStep

\* A legacy job takes the last place of the queue.
LEMMA HoldsAskLegacy == Inv /\ Holding /\ AskLegacy => Holding'
<1>. SUFFICES ASSUME Inv, Holding, AskLegacy PROVE Holding'
  OBVIOUS
<1>0. UNCHANGED <<row, output, phase, handler, current, wpc, stage, caller, lost>> /\ phase = "up"
  BY DEF AskLegacy, tables, process, worker, legacyVars
<1>1. queue \in Seq(Jobs) /\ Legacy \in Jobs /\ queue' = Append(queue, Legacy)
  BY DEF AskLegacy, Inv, TypeOK, Jobs
<1>2. /\ \A i \in DOMAIN queue' : (i \in DOMAIN queue /\ queue'[i] = queue[i]) \/ queue'[i] = Legacy
      /\ \A r \in Runs : Waiting(r)' = Waiting(r)
  BY <1>1, Enqueued, RunAssumptions
<1>3. Placed'
  BY <1>0, <1>2, StaysPlaced DEF Holding, Placed, Unended, Requests
<1>4. LostRemain' /\ Owing' /\ Waits' /\ Taken' /\ Phases' /\ Reported'
  BY <1>0, <1>2, RunAssumptions
     DEF Holding, LostRemain, Owing, Waits, Taken, Phases, Reported, Unended
<1>. QED
  BY <1>3, <1>4 DEF Holding

\* The worker takes the first job of the queue.
LEMMA HoldsTakeJob == Inv /\ Holding /\ TakeJob => Holding'
<1>. SUFFICES ASSUME Inv, Holding, TakeJob PROVE Holding'
  OBVIOUS
<1>0. /\ UNCHANGED <<row, output, phase, handler, caller, lost>> /\ phase # "down"
      /\ current = Nothing /\ wpc = "idle" /\ stage' = 1
  BY DEF TakeJob, tables, process, legacyVars, Holding, Taken
<1>1. queue \in Seq(Jobs) /\ queue # <<>> /\ queue' = Tail(queue)
  BY DEF TakeJob, Inv, TypeOK
<1>2. /\ 1 \in DOMAIN queue /\ queue[1] = Head(queue)
      /\ \A i \in DOMAIN queue' : i + 1 \in DOMAIN queue /\ queue'[i] = queue[i + 1]
      /\ \A r : Waiting(r) = {} => Waiting(r)' = {}
      /\ \A r : Waiting(r) = {1} => Waiting(r)' = {}
      /\ \A r, i : Waiting(r) = {i} /\ i # 1 => Waiting(r)' = {i - 1}
  BY <1>1, Dequeued
<1>3. /\ current' = queue[1] /\ queue[1] \in Jobs
      /\ wpc' = IF queue[1] = Legacy THEN "execute" ELSE "report"
  <2>1. Head(queue) \in Jobs
    BY <1>1
  <2>. QED
    BY <1>2, <2>1 DEF TakeJob
<1>4. \A r : Requests(r)' = Requests(r)
  BY <1>0 DEF Requests
<1>5. \A r \in Runs : r \in (Unended \ lost)' <=> r \in Unended \ lost
  BY <1>0 DEF Unended
<1>6. ASSUME NEW r \in Runs, r = queue[1] PROVE PlacedAt(r)'
  <2>1. Requests(r) = {} /\ Waiting(r) = {1} /\ r \in Unended \ lost
    BY <1>2, <1>6, InOnePlace DEF Holding
  <2>2. Requests(r)' = {} /\ Waiting(r)' = {} /\ current' = r
    BY <1>2, <1>3, <1>4, <1>6, <2>1
  <2>. QED
    BY <1>5, <2>1, <2>2 DEF PlacedAt, InWorker
<1>7. ASSUME NEW r \in Runs, r # queue[1] PROVE PlacedAt(r)'
  <2>1. PlacedAt(r) /\ current # r /\ current' # r
    BY <1>0, <1>3, <1>7, RunAssumptions DEF Holding, Placed
  <2>2. CASE \E i \in DOMAIN queue : Waiting(r) = {i}
    <3>1. PICK i \in DOMAIN queue : Waiting(r) = {i}
      BY <2>2
    <3>2. i # 1
      BY <1>7, <3>1 DEF Waiting
    <3>3. Waiting(r)' = {i - 1}
      BY <1>2, <3>1, <3>2
    <3>4. i - 1 \in DOMAIN queue'
      BY <3>3 DEF Waiting
    <3>. QED
      BY <1>4, <1>5, <2>1, <3>1, <3>3, <3>4 DEF PlacedAt, Nowhere, InRequest, InQueue, InWorker
  <2>3. CASE Waiting(r) = {}
    BY <1>2, <1>4, <1>5, <2>1, <2>3 DEF PlacedAt, Nowhere, InRequest, InQueue, InWorker
  <2>. QED
    BY <2>1, <2>2, <2>3 DEF PlacedAt, Nowhere, InRequest, InQueue, InWorker
<1>8. LostRemain' /\ Owing'
  BY <1>0 DEF Holding, LostRemain, Owing, Unended
<1>9. Waits'
  BY <1>0, <1>2 DEF Holding, Waits
<1>10. Taken'
  BY <1>0, <1>3, RunAssumptions DEF Holding, Taken, Jobs
<1>11. Phases'
  BY <1>0 DEF Holding, Phases
<1>12. Reported'
  <2>1. CASE queue[1] = Legacy
    BY <1>3, <2>1 DEF Reported
  <2>2. CASE queue[1] # Legacy
    <3>1. row[queue[1]] = Queued
      BY <1>2, <1>3, <2>2 DEF Holding, Waits, Jobs
    <3>. QED
      BY <1>0, <1>3, <2>2, <3>1 DEF Reported
  <2>. QED
    BY <2>1, <2>2
<1>. QED
  BY <1>6, <1>7, <1>8, <1>9, <1>10, <1>11, <1>12 DEF Holding, Placed

\* The worker's steps on a run.
LEMMA HoldsWork ==
  Inv /\ Holding /\ (ReportProgress \/ SaveRunOutput \/ SaveResult \/ Raise) => Holding'
<1>. SUFFICES ASSUME Inv, Holding,
                     ReportProgress \/ SaveRunOutput \/ SaveResult \/ Raise
              PROVE  Holding'
  OBVIOUS
<1>0. /\ UNCHANGED <<phase, handler, queue, current, caller, lost>>
      /\ wpc \in RunSteps /\ current \in Runs /\ current # Nothing /\ current # Legacy
  BY RunAssumptions
     DEF ReportProgress, SaveRunOutput, SaveResult, Raise, tables, process, legacyVars, Inv,
         Strengthening, RunSteps
<1>1. Taken' /\ Phases'
  BY <1>0 DEF ReportProgress, SaveRunOutput, SaveResult, Raise, Holding, Taken, Phases, RunSteps
<1>2. CASE SaveRunOutput \/ SaveResult \/ Raise
  <2>1. Placed' /\ LostRemain' /\ Owing' /\ Waits'
    BY <1>0, <1>2, HoldsOn DEF SaveRunOutput, SaveResult, Raise, tables
  <2>2. Reported'
    BY <1>0, <1>2 DEF SaveRunOutput, SaveResult, Raise, tables, Holding, Reported
  <2>. QED
    BY <1>1, <2>1, <2>2 DEF Holding
<1>3. CASE ReportProgress
  <2>1. stage \in Nat /\ 1 <= stage /\ stage <= Len(StagesOf(current))
    BY <1>3, StagesLen DEF ReportProgress, Inv, TypeOK, Strengthening
  <2>2. StagesOf(current)[stage].status \in InProgress
    BY <1>0, <2>1, StagesRise
  <2>3. /\ row'[current] = StagesOf(current)[stage]
        /\ \A r \in Runs \ {current} : r \in Unended' <=> r \in Unended
        /\ LostRemain' /\ Owing' /\ Waits'
    BY <1>0, <1>3, WritesItsRow DEF ReportProgress
  <2>4. current \in Unended' /\ current \in Unended /\ current \notin lost
    BY <1>0, <2>2, <2>3, AtWork DEF Unended, Holding
  <2>5. Placed'
    BY <1>0, <2>3, <2>4, StaysPlaced DEF Holding, Placed, Requests, Waiting
  <2>6. Reported'
    <3>1. CASE wpc' = "report"
      <4>1. stage' = stage + 1 /\ stage' # 1 /\ stage' - 1 = stage
        BY <1>3, <2>1, <3>1 DEF ReportProgress
      <4>. QED
        BY <1>0, <2>3, <3>1, <4>1 DEF Reported
    <3>2. CASE wpc' = "save_output"
      BY <1>0, <2>2, <2>3, <3>2 DEF Reported
    <3>. QED
      BY <1>3, <3>1, <3>2 DEF ReportProgress
  <2>. QED
    BY <1>1, <2>3, <2>5, <2>6 DEF Holding
<1>. QED
  BY <1>2, <1>3

\* The worker ends a run or gives it up.
LEMMA HoldsEnd == Inv /\ Holding /\ (Complete \/ Fail \/ FailFails) => Holding'
<1>. SUFFICES ASSUME Inv, Holding, Complete \/ Fail \/ FailFails PROVE Holding'
  OBVIOUS
<1>0. /\ UNCHANGED <<phase, handler, queue, caller>> /\ JobDone
      /\ wpc \in RunSteps /\ current \in Runs /\ current # Nothing /\ current # Legacy
  BY RunAssumptions
     DEF Complete, Fail, FailFails, tables, process, legacyVars, Inv, Strengthening, RunSteps
<1>1. Taken' /\ Phases' /\ Reported'
  BY <1>0, RunAssumptions DEF JobDone, Holding, Taken, Phases, Reported, RunSteps
<1>2. CASE Complete \/ Fail
  <2>1. PICK s \in Terminal : SetRow(current, Report(s, 100)) /\ UNCHANGED lost
    BY <1>2 DEF Complete, Fail, Terminal
  <2>2. /\ row'[current] = Report(s, 100)
        /\ \A r \in Runs \ {current} : r \in Unended' <=> r \in Unended
        /\ LostRemain' /\ Owing' /\ Waits'
    BY <1>0, <2>1, WritesItsRow
  <2>3. row'[current].status \notin {"QUEUED"} \cup InProgress
    BY <2>1, <2>2, RowStatus, InProgressApart DEF Terminal
  <2>4. current \notin (Unended \ lost)'
    BY <2>3 DEF Unended
  <2>5. Placed'
    BY <1>0, <2>1, <2>2, <2>4, LetsGo
  <2>. QED
    BY <1>1, <2>2, <2>5 DEF Holding
<1>3. CASE FailFails
  <2>1. row' = row /\ lost' = lost \cup {current}
    BY <1>3 DEF FailFails, tables
  <2>2. Placed'
    BY <1>0, <2>1, LetsGo DEF Unended
  <2>3. LostRemain' /\ Owing' /\ Waits'
    BY <1>0, <2>1, AtWork DEF Holding, LostRemain, Owing, Waits, Unended
  <2>. QED
    BY <1>1, <2>2, <2>3 DEF Holding
<1>. QED
  BY <1>2, <1>3

\* Either caller's steps in execute().
LEMMA HoldsLegacy ==
  ASSUME Inv, Holding, NEW c \in Callers,
         Acquire(c) \/ AlreadyRunning(c) \/ SaveLegacy(c) \/ Release(c)
  PROVE  Holding'
<1>0. UNCHANGED <<row, output, phase, handler, queue, lost>>
  BY DEF Acquire, AlreadyRunning, SaveLegacy, Release, tables, process
<1>1. CASE UNCHANGED worker
  <2>1. Placed' /\ LostRemain' /\ Owing' /\ Waits'
    BY <1>0, <1>1, HoldsOn DEF worker
  <2>2. caller'["worker"] # "out" => wpc' = "execute"
    BY <1>1 DEF Acquire, AlreadyRunning, SaveLegacy, Release, Called, worker, legacyVars,
                Holding, Taken, Inv, TypeOK, Callers
  <2>3. Taken' /\ Phases' /\ Reported'
    BY <1>0, <1>1, <2>2 DEF worker, Holding, Taken, Phases, Reported
  <2>. QED
    BY <2>1, <2>3 DEF Holding
<1>2. CASE c = "worker" /\ JobDone
  <2>1. wpc = "execute" /\ caller'["worker"] = "out"
    BY <1>2 DEF Acquire, AlreadyRunning, SaveLegacy, Release, Called, JobDone, worker,
                legacyVars, Holding, Taken, Inv, TypeOK, Callers
  <2>2. current = Legacy
    BY <2>1 DEF Holding, Taken
  <2>3. Placed'
    <3>1. ASSUME NEW r \in Runs PROVE PlacedAt(r)'
      <4>1. current # r /\ current' # r
        BY <1>2, <2>2, RunAssumptions DEF JobDone
      <4>. QED
        BY <1>0, <4>1, StaysPlaced DEF Holding, Placed, Unended, Requests, Waiting
    <3>. QED
      BY <3>1 DEF Placed
  <2>4. LostRemain' /\ Owing' /\ Waits' /\ Taken' /\ Phases' /\ Reported'
    BY <1>0, <1>2, <2>1, RunAssumptions
       DEF JobDone, Holding, LostRemain, Owing, Waits, Taken, Phases, Reported, Unended
  <2>. QED
    BY <2>3, <2>4 DEF Holding
<1>. QED
  BY <1>1, <1>2 DEF Acquire, AlreadyRunning, SaveLegacy, Release, Free

LEMMA HoldingStep == Inv /\ Holding /\ [Next]_vars => Holding'
<1>. SUFFICES ASSUME Inv, Holding, [Next]_vars PROVE Holding'
  OBVIOUS
<1>1. CASE WorkerStep
  BY <1>1, HoldsTakeJob, HoldsWork, HoldsEnd, HoldsLegacy DEF WorkerStep, Callers
<1>2. CASE SchedulerStep
  BY <1>2, HoldsLegacy DEF SchedulerStep, Callers
<1>3. CASE UNCHANGED vars
  <2>1. Placed' /\ LostRemain' /\ Owing' /\ Waits'
    BY <1>3, HoldsOn DEF vars, tables, worker
  <2>2. Taken' /\ Phases' /\ Reported'
    BY <1>3 DEF vars, tables, process, worker, legacyVars, Holding, Taken, Phases, Reported
  <2>. QED
    BY <2>1, <2>2 DEF Holding
<1>. QED
  BY <1>1, <1>2, <1>3, HoldsProcess, HoldsRequest, HoldsAskLegacy DEF Next

LEMMA HoldingAlways == Spec => [](Inv /\ Holding)
BY InvInit, InvStep, HoldingInit, HoldingStep, PTL DEF Spec

\* A run that is queued or in progress is held in exactly one place, by a
\* request, the queue or the worker, unless a crash or a failed update lost it;
\* any other run is held nowhere, and so is never executed again.
THEOREM OneHolderHolds == Spec => []OneHolder
<1>1. Holding => OneHolder
  BY PlacedIsOneHolder DEF Holding
<1>. QED
  BY <1>1, HoldingAlways, PTL

-----------------------------------------------------------------------------
(* What a poll of the run shows.                                            *)

LEMMA ForwardStep ==
  Inv /\ Holding /\ [Next]_vars =>
    \A r \in Runs :
      /\ row'[r].pct >= row[r].pct
      /\ row[r].status \in Terminal => row'[r] = row[r]
<1>. SUFFICES ASSUME Inv, Holding, [Next]_vars, NEW r \in Runs
              PROVE  /\ row'[r].pct >= row[r].pct
                     /\ row[r].status \in Terminal => row'[r] = row[r]
  OBVIOUS
<1>0. row[r] \in Rows /\ row[r].pct \in 0..100
  BY DEF Inv, TypeOK, Rows
<1>1. CASE row'[r] = row[r]
  BY <1>0, <1>1
<1>2. ASSUME NEW h \in Handlers, CreateRun(h, r)
      PROVE  row'[r].pct >= row[r].pct /\ row[r].status \notin Terminal
  BY <1>2, RowStatus DEF CreateRun, NoRow, Queued, Report, Terminal, Inv, TypeOK
<1>3. CASE ReportProgress /\ current = r
  <2>1. stage \in Nat /\ 1 <= stage /\ stage <= Len(StagesOf(r))
    BY <1>3, StagesLen DEF ReportProgress, Inv, TypeOK, Strengthening
  <2>2. row'[r] = StagesOf(r)[stage]
    BY <1>3 DEF ReportProgress, SetRow, Inv, TypeOK
  <2>3. row[r] = IF stage = 1 THEN Queued ELSE StagesOf(r)[stage - 1]
    BY <1>3 DEF ReportProgress, Holding, Reported
  <2>4. row'[r].pct >= row[r].pct
    <3>1. CASE stage = 1
      BY <2>1, <2>2, <2>3, <3>1, StagesRise DEF Queued, Report
    <3>2. CASE stage > 1
      BY <1>0, <2>1, <2>2, <2>3, <3>2, StagesRise
    <3>. QED
      BY <2>1, <3>1, <3>2
  <2>5. row[r].status \notin Terminal
    BY <1>3, AtWork, InProgressApart DEF Holding, Unended, Terminal
  <2>. QED
    BY <2>4, <2>5
<1>4. CASE (Complete \/ Fail) /\ current = r
  <2>1. row'[r].pct = 100
    BY <1>4 DEF Complete, Fail, SetRow, Report, Inv, TypeOK
  <2>2. row[r].status \notin Terminal
    BY <1>4, AtWork, InProgressApart DEF Holding, Unended, Terminal
  <2>. QED
    BY <1>0, <2>1, <2>2
<1>5. \/ row' = row
      \/ \E h \in Handlers, q \in Runs : CreateRun(h, q)
      \/ ReportProgress \/ Complete \/ Fail
  BY DEF Next, vars, tables, Boot, Shutdown, Exit, Crash, AskLegacy, HandlerStep, Ask,
         Refuse, Submit, WorkerStep, SchedulerStep, TakeJob, SaveRunOutput, SaveResult,
         Raise, FailFails, Acquire, AlreadyRunning, SaveLegacy, Release
<1>6. ASSUME NEW h \in Handlers, NEW q \in Runs, CreateRun(h, q), q # r PROVE row'[r] = row[r]
  BY <1>6 DEF CreateRun, Inv, TypeOK
<1>7. (ReportProgress \/ Complete \/ Fail) /\ current # r => row'[r] = row[r]
  BY DEF ReportProgress, Complete, Fail, SetRow, Inv, TypeOK
<1>. QED
  BY <1>1, <1>2, <1>3, <1>4, <1>5, <1>6, <1>7

\* No poll of a run ever sees its progress go back, nor its terminal status
\* change, although update_run_progress asks nothing about what it replaces:
\* it follows from the one holder and from the order of the reports.
THEOREM ProgressForward == Spec => ProgressOnlyForward
BY ForwardStep, HoldingAlways, PTL DEF Spec, ProgressOnlyForward

-----------------------------------------------------------------------------
(* The journal of runs.                                                     *)

StatusNow == [r \in Runs |-> StatusOf(r)]

LEMMA StatusMeans ==
  ASSUME NEW r
  PROVE  /\ row[r].status = "NONE" => StatusOf(r) = "absent"
         /\ row[r].status = "QUEUED" => StatusOf(r) = "queued"
         /\ row[r].status \in InProgress => StatusOf(r) = "running"
         /\ row[r].status = "COMPLETED" => StatusOf(r) = "completed"
         /\ row[r].status = "FAILED" => StatusOf(r) = "failed"
         /\ row'[r].status = "QUEUED" => StatusOf(r)' = "queued"
         /\ row'[r].status \in InProgress => StatusOf(r)' = "running"
         /\ row'[r].status = "COMPLETED" => StatusOf(r)' = "completed"
         /\ row'[r].status = "FAILED" => StatusOf(r)' = "failed"
<1>. "NONE" \notin InProgress /\ "QUEUED" \notin InProgress
     /\ "COMPLETED" \notin InProgress /\ "FAILED" \notin InProgress
  BY InProgressApart
<1>. QED
  BY DEF StatusOf

\* A row that changes moves one run of the journal.
LEMMA MovesOne ==
  ASSUME Inv, NEW r \in Runs, NEW x, row' = [row EXCEPT ![r] = x], NEW s, StatusOf(r)' = s
  PROVE  StatusNow' = [StatusNow EXCEPT ![r] = s]
<1>1. \A q \in Runs \ {r} : row'[q] = row[q]
  BY DEF Inv, TypeOK
<1>2. \A q \in Runs \ {r} : StatusOf(q)' = StatusOf(q)
  BY <1>1 DEF StatusOf
<1>. QED
  BY <1>2 DEF StatusNow

LEMMA JournalInit == Init => Journal!Init
<1>. SUFFICES ASSUME Init PROVE Journal!Init
  OBVIOUS
<1>1. \A r \in Runs : StatusOf(r) = "absent"
  BY StatusMeans, RowStatus DEF Init
<1>. QED
  BY <1>1 DEF Init, Journal!Init

LEMMA JournalStep == Inv /\ Holding /\ [Next]_vars => [Journal!Next]_(Journal!journal)
<1>. SUFFICES ASSUME Inv, Holding, [Next]_vars PROVE [Journal!Next]_(Journal!journal)
  OBVIOUS
<1>1. CASE UNCHANGED tables
  <2>1. StatusNow' = StatusNow /\ output' = output /\ latest' = latest
    BY <1>1 DEF tables, StatusNow, StatusOf
  <2>. QED
    BY <2>1 DEF StatusNow, Journal!journal
<1>2. ASSUME NEW h \in Handlers, NEW r \in Runs, CreateRun(h, r) PROVE Journal!Next
  <2>1. StatusOf(r) = "absent" /\ StatusOf(r)' = "queued"
    BY <1>2, StatusMeans, RowStatus DEF CreateRun, Inv, TypeOK
  <2>2. StatusNow' = [StatusNow EXCEPT ![r] = "queued"] /\ UNCHANGED <<output, latest>>
    BY <1>2, <2>1, MovesOne DEF CreateRun
  <2>3. Journal!Queue(r)
    BY <2>1, <2>2 DEF StatusNow, Journal!Queue, Journal!Move
  <2>. QED
    BY <2>3 DEF Journal!Next
<1>3. CASE ReportProgress
  <2>1. PICK r \in Runs : r = current
    BY <1>3 DEF ReportProgress, Inv, Strengthening, RunSteps
  <2>2. stage \in Nat /\ 1 <= stage /\ stage <= Len(StagesOf(r))
    BY <1>3, <2>1, StagesLen DEF ReportProgress, Inv, TypeOK, Strengthening
  <2>3. row' = [row EXCEPT ![r] = StagesOf(r)[stage]] /\ row'[r].status \in InProgress
    BY <1>3, <2>1, <2>2, StagesRise DEF ReportProgress, SetRow, Inv, TypeOK
  <2>4. StatusOf(r)' = "running"
    BY <2>3, StatusMeans
  <2>5. StatusNow' = [StatusNow EXCEPT ![r] = "running"] /\ UNCHANGED <<output, latest>>
    BY <1>3, <2>3, <2>4, MovesOne DEF ReportProgress
  <2>6. CASE row[r].status = "QUEUED"
    <3>1. Journal!Start(r)
      BY <2>5, <2>6, StatusMeans DEF StatusNow, Journal!Start, Journal!Move
    <3>. QED
      BY <3>1 DEF Journal!Next
  <2>7. CASE row[r].status \in InProgress
    <3>1. StatusNow' = StatusNow
      BY <2>5, <2>7, StatusMeans DEF StatusNow
    <3>. QED
      BY <2>5, <3>1 DEF StatusNow, Journal!journal
  <2>. QED
    BY <2>1, <2>6, <2>7, AtWork DEF Holding, Unended
<1>4. CASE SaveRunOutput
  <2>1. PICK r \in Runs : r = current
    BY <1>4 DEF SaveRunOutput, Inv, Strengthening, RunSteps
  <2>2. StatusOf(r) = "running"
    BY <1>4, <2>1, StatusMeans DEF SaveRunOutput, Holding, Reported
  <2>3. StatusNow' = StatusNow /\ output' = output \cup {r} /\ latest' = latest
    BY <1>4, <2>1 DEF SaveRunOutput, StatusNow, StatusOf
  <2>4. Journal!Publish(r)
    BY <2>2, <2>3 DEF StatusNow, Journal!Publish
  <2>. QED
    BY <2>4 DEF Journal!Next
<1>5. CASE SaveResult
  <2>1. PICK r \in Runs : r = current
    BY <1>5 DEF SaveResult, Inv, Strengthening, RunSteps
  <2>2. StatusOf(r) = "running" /\ r \in output
    BY <1>5, <2>1, StatusMeans DEF SaveResult, Holding, Reported
  <2>3. StatusNow' = StatusNow /\ output' = output /\ latest' = r
    BY <1>5, <2>1 DEF SaveResult, StatusNow, StatusOf
  <2>4. Journal!Show(r)
    BY <2>2, <2>3 DEF StatusNow, Journal!Show
  <2>. QED
    BY <2>4 DEF Journal!Next
<1>6. CASE Complete \/ Fail
  <2>1. PICK r \in Runs : r = current
    BY <1>6 DEF Complete, Fail, Inv, Strengthening, RunSteps
  <2>2. StatusOf(r) \in {"queued", "running"}
    BY <2>1, AtWork, StatusMeans DEF Holding, Unended
  <2>3. CASE Complete
    <3>1. StatusOf(r) = "running" /\ r \in output
      BY <2>1, <2>3, StatusMeans DEF Complete, Holding, Reported
    <3>2. row' = [row EXCEPT ![r] = Report("COMPLETED", 100)] /\ UNCHANGED <<output, latest>>
      BY <2>1, <2>3 DEF Complete, SetRow
    <3>3. StatusOf(r)' = "completed"
      BY <3>2, StatusMeans, RowStatus DEF Inv, TypeOK
    <3>4. StatusNow' = [StatusNow EXCEPT ![r] = "completed"]
      BY <3>2, <3>3, MovesOne
    <3>5. Journal!Complete(r)
      BY <3>1, <3>2, <3>4 DEF StatusNow, Journal!Complete, Journal!Move
    <3>. QED
      BY <3>5 DEF Journal!Next
  <2>4. CASE Fail
    <3>1. row' = [row EXCEPT ![r] = Report("FAILED", 100)] /\ UNCHANGED <<output, latest>>
      BY <2>1, <2>4 DEF Fail, SetRow
    <3>2. StatusOf(r)' = "failed"
      BY <3>1, StatusMeans, RowStatus DEF Inv, TypeOK
    <3>3. StatusNow' = [StatusNow EXCEPT ![r] = "failed"]
      BY <3>1, <3>2, MovesOne
    <3>4. Journal!Fail(r)
      BY <2>2, <3>1, <3>3 DEF StatusNow, Journal!Fail, Journal!Move
    <3>. QED
      BY <3>4 DEF Journal!Next
  <2>. QED
    BY <1>6, <2>3, <2>4
<1>7. ASSUME NEW c \in Callers, SaveLegacy(c) PROVE Journal!Next
  <2>1. StatusNow' = StatusNow /\ output' = output /\ latest' = Legacy
    BY <1>7 DEF SaveLegacy, StatusNow, StatusOf
  <2>2. Journal!Show(Legacy)
    BY <2>1 DEF StatusNow, Journal!Show
  <2>. QED
    BY <2>2 DEF Journal!Next
<1>. QED
  BY <1>1, <1>2, <1>3, <1>4, <1>5, <1>6, <1>7
     DEF Next, vars, tables, Callers, Boot, Shutdown, Exit, Crash, AskLegacy, HandlerStep, Ask,
         Refuse, Submit, WorkerStep, SchedulerStep, TakeJob, Raise, FailFails, Acquire,
         AlreadyRunning, Release

\* The tables keep the journal's promise, for every set of runs and whatever
\* crashes: a run goes from queued to running to one end, is completed only
\* once its result is published, and only published results are shown.
THEOREM JournalImplemented == Spec => ImplementsJournal
BY JournalInit, JournalStep, HoldingAlways, PTL DEF Spec, ImplementsJournal, Journal!Spec
=============================================================================
