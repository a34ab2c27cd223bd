---------------------------- MODULE RunLifecycle ----------------------------
(***************************************************************************)
(* The server process (app/main.py), the runs it executes (app/jobs.py)    *)
(* and what it leaves in SQLite (app/storage.py).                          *)
(*                                                                         *)
(* Request handlers run in a thread pool.  They insert a QUEUED row, then  *)
(* submit the run to an executor with one worker thread.  execute(), the   *)
(* legacy backtest of POST /run and of the cron trigger, is called by the  *)
(* same worker or by the scheduler's thread, under a lock that refuses     *)
(* instead of waiting.  A research run whose preset takes the legacy       *)
(* engine does not ask for that lock and may run beside it.  Each storage  *)
(* call is a committed transaction and one action here; the backtest       *)
(* itself is what happens between two of them.  The queue and the lock are *)
(* in memory only.                                                         *)
(***************************************************************************)
EXTENDS Naturals, Sequences, FiniteSets

CONSTANTS
  Runs,           \* research runs that may be asked for
  LegacyPresets,  \* those whose preset takes the legacy engine
  Handlers,       \* concurrent requests
  Legacy,         \* a call of execute(), as a job and as a result
  Nothing,        \* no job, no result
  MaxBatch,       \* bound: runs asked for by one request
  MaxLegacy,      \* bound: legacy jobs waiting in the queue
  MaxBoots,       \* bound: starts of the process
  Faults          \* whether the process may crash and a FAILED update fail

ASSUME RunAssumptions ==
  /\ LegacyPresets \subseteq Runs
  /\ Legacy \notin Runs /\ Nothing \notin Runs /\ Legacy # Nothing
  /\ {MaxBatch, MaxLegacy, MaxBoots} \subseteq Nat
  /\ Faults \in BOOLEAN

VARIABLES
  row,        \* backtest_runs: status and progress, or no row
  output,     \* runs whose trades and result are stored
  latest,     \* state['latest']
  phase,      \* the process: down, up, draining (after shutdown)
  boots,      \* starts so far
  handler,    \* each request: what it does next, for which run, how many left
  queue,      \* the executor's queue
  current,    \* the job the worker thread has taken
  wpc,        \* what the worker does next
  stage,      \* the next progress report of the run
  caller,     \* where each caller of execute() is
  locked,     \* _LEGACY_LOCK
  lost        \* history: runs no thread will ever end

tables == <<row, output, latest>>
process == <<phase, boots>>
worker == <<current, wpc, stage>>
legacyVars == <<caller, locked>>
vars == <<tables, process, handler, queue, worker, legacyVars, lost>>

Callers == {"worker", "scheduler"}
Jobs == Runs \cup {Legacy}

Report(s, pct) == [status |-> s, pct |-> pct]
NoRow == Report("NONE", 0)
Queued == Report("QUEUED", 0)

\* run_research_backtest's progress calls, then execute_research_run's own.
ResearchStages ==
  <<Report("LOADING_DATA", 10), Report("VALIDATING_DATA", 22),
    Report("BUILDING_SESSIONS", 32), Report("BUILDING_ZONES", 42),
    Report("CALCULATING_INDICATORS", 52), Report("GENERATING_SETUPS", 62),
    Report("SIMULATING_TRADES", 76), Report("CALCULATING_STATISTICS", 88),
    Report("SAVING_RESULTS", 95)>>
LegacyStages ==
  <<Report("LOADING_DATA", 10), Report("CALCULATING_STATISTICS", 85),
    Report("SAVING_RESULTS", 95)>>
StagesOf(r) == IF r \in LegacyPresets THEN LegacyStages ELSE ResearchStages

Terminal == {"COMPLETED", "FAILED"}
InProgress == {ResearchStages[i].status : i \in DOMAIN ResearchStages}
Rows == [status : {"NONE", "QUEUED"} \cup InProgress \cup Terminal, pct : 0..100]
Unended == {r \in Runs : row[r].status \in {"QUEUED"} \cup InProgress}

Waiting(j) == {i \in DOMAIN queue : queue[i] = j}

Idle == [pc |-> "idle", run |-> Nothing, left |-> 0]

Init ==
  /\ row = [r \in Runs |-> NoRow]
  /\ output = {}
  /\ latest = Nothing
  /\ phase = "down"
  /\ boots = 0
  /\ handler = [h \in Handlers |-> Idle]
  /\ queue = <<>>
  /\ current = Nothing
  /\ wpc = "idle"
  /\ stage = 1
  /\ caller = [c \in Callers |-> "out"]
  /\ locked = FALSE
  /\ lost = {}

-----------------------------------------------------------------------------
(* The process: lifespan of the application, and crashes.                   *)

\* Start-up creates tables and presets and may submit one legacy run; it does
\* not look at the rows an earlier process left unended.
Boot ==
  /\ phase = "down" /\ boots < MaxBoots
  /\ phase' = "up" /\ boots' = boots + 1
  /\ queue' \in {<<>>, <<Legacy>>}
  /\ UNCHANGED <<tables, handler, worker, legacyVars, lost>>

\* Mutant: cancel_futures=True.
Shutdown_cancels ==
  /\ phase = "up"
  /\ \A h \in Handlers : handler[h] = Idle
  /\ phase' = "draining"
  /\ queue' = <<>>
  /\ UNCHANGED <<tables, boots, handler, worker, legacyVars, lost>>

\* The server stops once its requests are answered: the scheduler fires no
\* more, and shutdown(wait=False, cancel_futures=False) leaves the queue to
\* the worker, which the interpreter joins before it exits.
Shutdown ==
  /\ phase = "up"
  /\ \A h \in Handlers : handler[h] = Idle
  /\ phase' = "draining"
  /\ UNCHANGED <<tables, boots, handler, queue, worker, legacyVars, lost>>

Exit ==
  /\ phase = "draining"
  /\ queue = <<>> /\ wpc = "idle" /\ \A c \in Callers : caller[c] = "out"
  /\ phase' = "down"
  /\ UNCHANGED <<tables, boots, handler, queue, worker, legacyVars, lost>>

Crash ==
  /\ Faults /\ phase # "down"
  /\ phase' = "down"
  /\ handler' = [h \in Handlers |-> Idle]
  /\ queue' = <<>>
  /\ current' = Nothing /\ wpc' = "idle" /\ stage' = 1
  /\ caller' = [c \in Callers |-> "out"] /\ locked' = FALSE
  /\ lost' = Unended
  /\ UNCHANGED <<tables, boots>>

-----------------------------------------------------------------------------
(* Requests.  POST /backtests asks for one run; walk-forward and            *)
(* sensitivity ask for several, one after the other.                        *)

Ask(h, n) ==
  /\ phase = "up" /\ handler[h] = Idle
  /\ handler' = [handler EXCEPT ![h] = [pc |-> "create", run |-> Nothing, left |-> n]]
  /\ UNCHANGED <<tables, process, queue, worker, legacyVars, lost>>

\* create_run: the row is committed before the executor hears of the run.
CreateRun(h, r) ==
  /\ handler[h].pc = "create"
  /\ row[r] = NoRow
  /\ row' = [row EXCEPT ![r] = Queued]
  /\ handler' = [handler EXCEPT ![h].pc = "submit", ![h].run = r]
  /\ UNCHANGED <<output, latest, process, queue, worker, legacyVars, lost>>

\* The next configuration is refused, or the insert fails: the runs the
\* request already queued stay queued.
Refuse(h) ==
  /\ handler[h].pc = "create"
  /\ handler' = [handler EXCEPT ![h] = Idle]
  /\ UNCHANGED <<tables, process, queue, worker, legacyVars, lost>>

Submit(h) ==
  /\ handler[h].pc = "submit"
  /\ queue' = Append(queue, handler[h].run)
  /\ handler' = [handler EXCEPT ![h] =
       IF @.left = 1 THEN Idle
                     ELSE [pc |-> "create", run |-> Nothing, left |-> @.left - 1]]
  /\ UNCHANGED <<tables, process, worker, legacyVars, lost>>

\* POST /run: the legacy job is submitted with no check of what is running.
AskLegacy ==
  /\ phase = "up"
  /\ Cardinality(Waiting(Legacy)) < MaxLegacy
  /\ queue' = Append(queue, Legacy)
  /\ UNCHANGED <<tables, process, handler, worker, legacyVars, lost>>

-----------------------------------------------------------------------------
(* The worker thread.                                                       *)

\* Mutant: the worker takes nothing after shutdown.
TakeJob_only_up ==
  /\ phase = "up"
  /\ wpc = "idle" /\ queue # <<>>
  /\ current' = Head(queue)
  /\ queue' = Tail(queue)
  /\ wpc' = IF Head(queue) = Legacy THEN "execute" ELSE "report"
  /\ stage' = 1
  /\ UNCHANGED <<tables, process, handler, legacyVars, lost>>

TakeJob ==
  /\ phase # "down"
  /\ wpc = "idle" /\ queue # <<>>
  /\ current' = Head(queue)
  /\ queue' = Tail(queue)
  /\ wpc' = IF Head(queue) = Legacy THEN "execute" ELSE "report"
  /\ stage' = 1
  /\ UNCHANGED <<tables, process, handler, legacyVars, lost>>

\* update_run_progress asks no question about the status it replaces.
SetRow(r, report) == row' = [row EXCEPT ![r] = report]

\* Mutant: reports counted from zero.
JobDone_from_zero == current' = Nothing /\ wpc' = "idle" /\ stage' = 0

JobDone == current' = Nothing /\ wpc' = "idle" /\ stage' = 1

ReportProgress ==
  /\ wpc = "report"
  /\ SetRow(current, StagesOf(current)[stage])
  /\ IF stage < Len(StagesOf(current))
       THEN stage' = stage + 1 /\ UNCHANGED wpc
       ELSE wpc' = "save_output" /\ UNCHANGED stage
  /\ UNCHANGED <<output, latest, process, handler, queue, current, legacyVars, lost>>

\* Mutant: the result is published before it is stored.
SaveRunOutput_publishes_first ==
  /\ wpc = "save_output"
  /\ latest' = current
  /\ wpc' = "save_latest"
  /\ UNCHANGED <<row, output, process, handler, queue, current, stage, legacyVars, lost>>

\* save_run_output: trades, rejected setups, statistics and result replace
\* whatever the run had, in one transaction.
SaveRunOutput ==
  /\ wpc = "save_output"
  /\ output' = output \cup {current}
  /\ wpc' = "save_latest"
  /\ UNCHANGED <<row, latest, process, handler, queue, current, stage, legacyVars, lost>>

SaveResult ==
  /\ wpc = "save_latest"
  /\ latest' = current
  /\ wpc' = "complete"
  /\ UNCHANGED <<row, output, process, handler, queue, current, stage, legacyVars, lost>>

Complete ==
  /\ wpc = "complete"
  /\ SetRow(current, Report("COMPLETED", 100))
  /\ JobDone
  /\ UNCHANGED <<output, latest, process, handler, queue, legacyVars, lost>>

\* The backtest or any of the transactions above raises.
Raise ==
  /\ wpc \in {"report", "save_output", "save_latest", "complete"}
  /\ wpc' = "fail"
  /\ UNCHANGED <<tables, process, handler, queue, current, stage, legacyVars, lost>>

\* Mutant: the handler reports and the run goes on to save what it has.
Fail_goes_on ==
  /\ wpc = "fail"
  /\ SetRow(current, Report("FAILED", 100))
  /\ wpc' = "save_output"
  /\ UNCHANGED <<output, latest, process, handler, queue, current, stage, legacyVars, lost>>

Fail ==
  /\ wpc = "fail"
  /\ SetRow(current, Report("FAILED", 100))
  /\ JobDone
  /\ UNCHANGED <<output, latest, process, handler, queue, legacyVars, lost>>

\* The update to FAILED raises too: the future swallows the exception.
FailFails ==
  /\ Faults /\ wpc = "fail"
  /\ JobDone
  /\ lost' = lost \cup {current}
  /\ UNCHANGED <<tables, process, handler, queue, legacyVars>>

-----------------------------------------------------------------------------
(* execute(), called by the worker for a Legacy job or by the scheduler.    *)

Free(c) == IF c = "worker" THEN JobDone ELSE UNCHANGED worker

\* The worker has taken a legacy job, or the cron trigger fires; the trigger
\* has max_instances=1 and coalesce.
Called(c) ==
  /\ caller[c] = "out"
  /\ IF c = "worker" THEN wpc = "execute" ELSE phase = "up"

Acquire(c) ==
  /\ Called(c) /\ ~locked
  /\ locked' = TRUE
  /\ caller' = [caller EXCEPT ![c] = "backtest"]
  /\ UNCHANGED <<tables, process, handler, queue, worker, lost>>

\* Mutant: the acquisition is inside the try block, so its refusal releases.
AlreadyRunning_releases(c) ==
  /\ Called(c) /\ locked
  /\ Free(c)
  /\ locked' = FALSE
  /\ UNCHANGED <<tables, process, handler, queue, caller, lost>>

AlreadyRunning(c) ==
  /\ Called(c) /\ locked
  /\ Free(c)
  /\ UNCHANGED <<tables, process, handler, queue, legacyVars, lost>>

SaveLegacy(c) ==
  /\ caller[c] = "backtest"
  /\ latest' = Legacy
  /\ caller' = [caller EXCEPT ![c] = "release"]
  /\ UNCHANGED <<row, output, process, handler, queue, worker, locked, lost>>

\* The finally block, after a save or after an exception.
Release(c) ==
  /\ caller[c] \in {"backtest", "release"}
  /\ locked' = FALSE
  /\ caller' = [caller EXCEPT ![c] = "out"]
  /\ Free(c)
  /\ UNCHANGED <<tables, process, handler, queue, lost>>

-----------------------------------------------------------------------------
WorkerStep ==
  \/ TakeJob \/ ReportProgress \/ SaveRunOutput \/ SaveResult \/ Complete
  \/ Raise \/ Fail \/ FailFails
  \/ Acquire("worker") \/ AlreadyRunning("worker")
  \/ SaveLegacy("worker") \/ Release("worker")

SchedulerStep ==
  \/ Acquire("scheduler") \/ AlreadyRunning("scheduler")
  \/ SaveLegacy("scheduler") \/ Release("scheduler")

HandlerStep(h) ==
  \/ \E n \in 1..MaxBatch : Ask(h, n)
  \/ \E r \in Runs : CreateRun(h, r)
  \/ Refuse(h)
  \/ Submit(h)

Next ==
  \/ Boot \/ Shutdown \/ Exit \/ Crash
  \/ AskLegacy
  \/ \E h \in Handlers : HandlerStep(h)
  \/ WorkerStep
  \/ SchedulerStep

Spec == Init /\ [][Next]_vars

\* A thread that has something to do is scheduled again: the worker, a handler
\* between its insert and its submit, and the scheduler's thread once inside.
Fairness ==
  /\ WF_vars(WorkerStep)
  /\ \A h \in Handlers : WF_vars(Submit(h))
  /\ WF_vars(Release("scheduler"))
  /\ WF_vars(Exit)

FairSpec == Spec /\ Fairness

-----------------------------------------------------------------------------
(* Properties.                                                              *)

\* Types of the tables and of what the threads hold.
TypeOK ==
  /\ row \in [Runs -> Rows]
  /\ output \subseteq Runs
  /\ latest \in Jobs \cup {Nothing}
  /\ phase \in {"down", "up", "draining"}
  /\ boots \in 0..MaxBoots
  /\ handler \in [Handlers -> [pc : {"idle", "create", "submit"},
                               run : Runs \cup {Nothing}, left : 0..MaxBatch]]
  /\ queue \in Seq(Jobs)
  /\ current \in Jobs \cup {Nothing}
  /\ wpc \in {"idle", "report", "save_output", "save_latest", "complete", "fail",
              "execute"}
  /\ stage \in 1..Len(ResearchStages)
  /\ caller \in [Callers -> {"out", "backtest", "release"}]
  /\ locked \in BOOLEAN
  /\ lost \subseteq Runs

\* What will end a run: a request about to submit it, its places in the
\* queue, the worker.
Holders(r) ==
  {<<"handler", h>> : h \in {g \in Handlers : handler[g].run = r}}
    \cup {<<"queue", i>> : i \in Waiting(r)}
    \cup (IF current = r THEN {<<"worker", r>>} ELSE {})

\* A run that is queued or in progress is held in exactly one place, unless a
\* crash or a failed update left it behind for ever; any other run is held
\* nowhere, so no run is executed twice.
OneHolder ==
  \A r \in Runs :
    IF r \in Unended \ lost
      THEN \E x \in Holders(r) : Holders(r) = {x}
      ELSE Holders(r) = {}

\* The worker and the scheduler are never inside execute() together, and its
\* lock is held exactly while one of them is: neither a refusal nor an
\* exception leaves it held by nobody or takes it from its holder.  This says
\* nothing of runs of LegacyPresets, which reach the legacy engine without
\* the lock (engine.py:686) while the scheduler may be inside.
ExecuteExclusive ==
  /\ locked <=> \E c \in Callers : caller[c] # "out"
  /\ \A c, d \in Callers : caller[c] # "out" /\ caller[d] # "out" => c = d

\* GET /result never shows a research run whose own page has no result yet.
LatestIsStored == latest \in Runs => latest \in output

\* Who polls a run never sees its progress go back, nor a terminal status
\* change, although no update checks the status it replaces.
ProgressOnlyForward ==
  [][\A r \in Runs :
       /\ row'[r].pct >= row[r].pct
       /\ row[r].status \in Terminal => row'[r] = row[r]]_vars

\* Every accepted run ends, whatever raises, unless the process crashes or the
\* update to FAILED fails too; a shutdown lets the queue drain.
EveryRunEnds ==
  \A r \in Runs : r \in Unended ~> row[r].status \in Terminal \/ r \in lost

\* After a shutdown the process does exit.
ShutdownExits == phase = "draining" ~> phase = "down"

StatusOf(r) ==
  CASE row[r].status = "NONE" -> "absent"
    [] row[r].status = "QUEUED" -> "queued"
    [] row[r].status \in InProgress -> "running"
    [] row[r].status = "COMPLETED" -> "completed"
    [] row[r].status = "FAILED" -> "failed"

\* The tables implement the journal of runs.
Journal == INSTANCE RunJournal WITH
             NoResult <- Nothing, published <- output,
             status <- [r \in Runs |-> StatusOf(r)]
ImplementsJournal == Journal!Spec
=============================================================================
