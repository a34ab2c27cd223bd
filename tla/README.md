# A TLA+ model of RiseUp (backTestingTrade)

RiseUp is a local laboratory for Forex strategies. Command-line programs fill a
cache of one-minute BID/ASK candles; a web server queues backtests, runs them
one after the other over the cached candles, and keeps runs, trades and refused
setups in SQLite. This directory holds TLA+ specifications of its stateful
parts, the configurations with which TLC checks them, and proofs checked by TLAPS.

File and line references are to the repository (`app/...` stands for `src/app/...`).

## 1. The system

| Component | State | Operations | Talks to |
|---|---|---|---|
| Candle cache, `app/data/cache.py` | a Parquet file per instrument and month, `manifest.json`, metadata, staged import sides | `read`, `write_day`, `write_import_side`, `status` | files only; each write is a temporary file and a rename |
| Historical download, `app/data/dukascopy.py`, `provider_missing.py`, `scripts/download_history.py` | the cache, `provider_missing/*.json`; in memory the days to fetch | `download`, `repair_gaps`, `_fetch_confirmed_day`, `get`, `data_revision` | the request gate, the cache |
| Request gate, `DukascopyClient._get_json` | a lock, `_next_request_at` | one HTTP attempt, retry, `Retry-After` | the provider, the worker threads of a download |
| CSV import, `app/data/csv_import.py` | staged BID and ASK sides | `import_file` | `write_import_side`, `write_day` |
| Market validation, `app/data/validation.py`, `gaps.py` | none; a gap catalogue per run | calendar, coverage report, gap merging | every reader of candles |
| Server and scheduler, `app/main.py` | executor with one worker thread, scheduler | start-up, shutdown | `jobs.py` |
| Jobs, `app/jobs.py` | `_LEGACY_LOCK`, the executor's queue | `enqueue_research_run`, `execute_research_run`, `execute` | storage, engines |
| Storage, `app/storage.py` | SQLite: runs, trades, rejected setups, statistics, presets, `state['latest']` | one committed transaction per call | jobs, API |
| API, `app/api.py` | none of its own | POST of backtests, walk-forward, sensitivity, legacy run, presets; GETs, exports | storage, executor |
| Research engine, `app/research/engine.py` | the frames of one run | sessions, breaks, DXY, labels, zones, `_apply_risk` | provider, simulator |
| Strategy helpers: `sessions.py`, `zones.py`, `m1_divergence.py`, `indicators.py`, `dxy.py`, `data/resampler.py` | none | pure functions over frames | research and legacy engines |
| Trade simulation, `app/backtest.py`, `research/gap_execution.py` | none | `simulate_trade`, TRACE reinterpretation of exits | `_apply_risk` |
| Legacy engine, `app/backtest.py` | the day's trades and the equity of one run | `run_backtest` | jobs, golden file |
| Twelve Data, `app/data_twelvedata.py` | a file per symbol, a credit limiter | `get` | the legacy and research engines |
| Presets, `app/research/presets.py`, `storage.py` | a table | seeding, save, duplicate, delete | API, start-up |
| Walk-forward windows, `research/windows.py` | none | date arithmetic | API |
| Analysis, exports, reports, user interface | none | statistics and formatting | reads only |

How they interact: command-line processes write the cache while the server may
be reading it, with no coordination but atomic renames. In the server, request
handlers run in a thread pool and share SQLite, the executor's queue and the
legacy lock with the worker thread and the scheduler's thread. Within a run
everything is sequential: candles are read, setups are generated for each pair,
and all setups are then judged in one sorted list.

What is hard, component by component, and what makes it correct:

- **Cache and download.** Three files are renamed one at a time and a process
  may die between two of them; the provider revises its data, serves a minute on
  one side only and includes the minute in progress. Correct means: what is
  stored is a closed, real observation for ever; a day that is skipped needs no
  download; evidence of absence is never about a minute that has a candle; the
  revision recorded with a result is that of the candles it was computed from.
- **Request gate.** Workers sleep and wait for the network with the lock held
  and move a shared deadline. Correct means: one request at a time, spaced and
  after every `Retry-After`, and no call that never ends.
- **Server and runs.** Row, queue, worker, lock and `latest` are updated in
  separate steps by several threads, and the queue is not persisted. Correct
  means: a run has exactly one thing that will end it, its status only advances,
  its result is stored before it is shown, and `execute` never runs twice at a time.
  (The legacy engine itself may: a run with a legacy preset calls it in the worker
  without the lock, `app/research/engine.py:686`.)
- **Risk and position selection.** One pass over a list that is not always in
  chronological order, looking at the last trade and at the trades of a day.
  Correct means: no two positions overlap, budgets and stops hold at the end for
  the day as a whole, and nothing is decided after a position of unknown end.
- **Setup generation.** Information has a time at which it becomes usable
  (`docs/LOOKAHEAD_AUDIT.md`). Correct means: no decision uses a candle that had
  not closed when the entry was priced, and a backtest over a longer period
  finds the setups of a shorter one again.
- **Missing minutes.** In the trace mode a run goes on over gaps: exits are
  reinterpreted, and setups and refusals are marked with the gaps they may hang
  on. Correct means: what is called observed or complete does not depend on any
  candle that is missing, what is inferred is possible, no gap that mattered is
  left out, and neither changes when later minutes are loaded.
- **CSV import and readers.** A third writer of the cache with its own idea of a
  complete day, and backtests that read months one by one and ask for the revision
  of their data much later. Correct means: both imported sides end up as candles in
  whatever order and however often an import dies, the guarantees of the cache are
  weakened for imported days only, and the revision names what was read.

`PROJECT.json` lists the hazards one by one, at the line where each bites.

## 2. Modules

| Module | Role |
|---|---|
| `ObservationLedger` | abstract: a store of observations and of evidence of absence that only grows |
| `CandleStore` | the cache and the commands that write it; implements the ledger |
| `MCCandleStore` | its instance for TLC |
| `CandleStoreProofs` | its theorems |
| `CandleImport`, `MCCandleImport`, `CandleImportProofs` | extends `CandleStore` with CSV imports and a backtest that reads the cache; instance and theorems |
| `RunJournal` | abstract: what a client of the API is promised about a run |
| `RunLifecycle` | server process, requests, queue, worker, scheduler, tables; implements the journal |
| `RunLifecycleProofs` | its theorems; TLC runs `RunLifecycle` itself |
| `RiskSelection` | `_apply_risk` |
| `MCRiskSelection`, `RiskSelectionProofs` | its instance and its theorems |
| `LabelEvents` | divergence labels of a frame of candles: `build_label_events` |
| `HigherFrames` | resampling and the formation of zones |
| `SetupCausality` | `_build_candidates`: from candles to setups and refusals; uses `LabelEvents` and `HigherFrames` |
| `GapCatalog` | gaps of a frame, their selection, merging and quality |
| `SetupQuality` | what the trace mode says of a setup; composes `SetupCausality` and `GapCatalog` |
| `MCSetupCausality`, `SetupCausalityProofs`, `SetupQualityProofs` | markets for both; theorems about each |
| `TraceExit`, `MCTraceExit`, `TraceExitProofs` | how a trade ends, with and without gaps; instance and theorems |
| `TwelveCache` | the two-ended cache of Twelve Data |
| `RequestGate` | `_get_json` |
| `MCRequestGate`, `RequestGateProofs` | its instance and its theorems |

Definitions whose comment begins with *Mutant* are deliberate errors next to the
definition they would replace. No specification uses them: they record which
mistake each property would catch.

### CandleStore

One instrument. `candles` stands for all its Parquet files, `manifest` for its
entry in `manifest.json` (complete days, partial days, digest of each month),
`confirmed` for `provider_missing/*.json`. A price is a member of `Values`; a
digest is the contents it is the digest of; a day is the set of its minutes.

A process of `Procs` runs one command at a time: `StartDownload` or
`StartRepair` reads the wall clock once, as `download` and `repair_gaps` do.
`pc` then follows the code: choose a month (`ScanMonth`), fetch a day
(`FetchDownload`, `FetchRepair`, `FetchConfirmed`), and `write_day` as four
steps: read the month's file, rename the new file, read the manifest, rename
the manifest. A confirmed day ends with three more: read the cache again
(`RereadCache`), read the month's evidence file (`LoadEvidence`), rename the new one
(`RenameEvidence`). `Recover` ends a repaired month. Every rename is a step of its
own, apart from the reads before it, so a death (`Die`), another process or a reader
can come in between. Two reads are one step in `ScanMonth` (the cache, then the
evidence), `LoadManifest` (the manifest, `app/data/cache.py:157`, then the file it
digests, `:173`) and `Recover`: a writer between the two reads would be seen, but
with one writer there is none. `FetchFails` is every exception of a fetch.

The reply of the provider (`RepliesFor`) is external: any set of minutes up to
the current one, on both sides or one, with any values, with two exceptions for a
day that is over. Minutes of `Archive` are always served whole; that set exists so
that "needs no download" has a meaning. Minutes of `Listed` are those the provider
has, although a reply may show one side of them or neither: of the two observations
of a confirming repair, one at least shows something (`ShowListed`). That set exists
so that "confirmed absent" has a meaning.

Left out: `ask`/`bid` arithmetic, OHLC checks (a day that fails them is a
`FetchFails`), metadata, concurrency of the fetches of one download (days of a
month are taken in any order, which is what `as_completed` shows), `status`.

### CandleImport

`sides` are the files of `.import_sides`, one per side and month. An import goes
through the steps of `import_file`: staging month by month (`StageMonth`), joining a
month from both sides (`JoinMonth`), and one `write_day` per day (`ImportDay`), for
which it shares `pc`, `task` and the four steps of `CandleStore`, so that downloads
and repairs, deaths and imports meet on the same disk. A file is any set of minutes
up to the one in progress (`Exports`): parsing, time zones and the checks of
`read_dukascopy_csv` are abstracted to that result. `reader` is a backtest: it reads the months one
at a time, its policy accepts or refuses what it has read (`Refuses`), and it asks
for `DataRevision` at its end.

### RunLifecycle

`row`, `output` and `latest` are the tables; each storage call is one committed
transaction and one action. `handler[h]` is a request between its insert and its
submit; walk-forward and sensitivity are requests with several runs left. The
worker (`wpc`, `current`, `stage`) takes a job, makes the progress reports of
the engine in order, saves the output, publishes it and completes, and may raise
at any of these. `caller` and `locked` are `execute` and `_LEGACY_LOCK`; a run of
`LegacyPresets` is a run like any other and does not take the lock. `lost`
is a history variable: runs that a crash or a failed FAILED update left behind.
`phase` is the process; after `Shutdown` it drains, because the interpreter joins
the executor's thread before it exits.

### RiskSelection

One action, one turn of the loop of `_apply_risk`. The sorted list is revealed
one setup at a time: the next may be any that does not sort before the previous.
A setup lies inside a session, as `_build_candidates` ensures, and sessions may
overlap, as the configuration allows. The simulation is the set of results it
can return.

### RequestGate

Times are counted down, so that the state space is finite without a bound on the
clock: `gate` is `_next_request_at - now`. `since` and `asked` are history
variables with which the property is stated independently of the gate.

### SetupCausality, LabelEvents and HigherFrames

The engine has no steps here: it turns the whole frames of a period into setups
at once. `Verdict` is that function, for a session and a direction, in the
order of the code: previous session and its levels (`Earlier`, `Loaded`), break
(`Breaking`), dollar index (`Broken`), labels or the bar after the break
(`Possible`), and the loop over the labels with its delays, the second look at
the dollar index and the zones (`Judgement` of one label, `Outcome` of all). The state
is what the function is applied to: `Minute` closes a minute, which may bring a candle
to the pair, to the dollar index, to both or to neither. A property then compares the
verdict on the frames with the verdict after one more minute, or on frames that differ
in their last minute only.

`LabelEvents` holds the labels. A long label is a short one with the signs of
prices and indicators changed, which `Seen` writes once for both. `HigherFrames`
joins minutes to longer candles and drops the last one while it is in progress
(`Resample`); labels may be looked for in these (`TriggerFrame`), and zones form
from three of them (`BuildZones`), measured against the average daily range.

What a scenario may configure is what the models of `research/config.py` accept
(`StrategyConfig`, `IndicatorSelection`), and TLC checks it of every scenario.

Merged: the two limits on the delay (the smaller one counts), `allow_touched`
(a limit of no retest), the expiry in bars (a life in minutes), several trigger
timeframes (one at a time). Given: the instants of sessions and the values of
indicators. Left out: undefined (NaN) indicators, entry prices and the wording of
refusals.

### GapCatalog and SetupQuality

A gap is the set of its minutes. `Windows` and `DollarWindows` list the intervals
whose gaps a setup is said to depend on, each cut at the time the setup is judged
at (`Bounded`); `SetupEvents` selects and merges. Selection cuts a gap to a window
and merging keeps one event per gap, from the first to the last affected minute.

### TraceExit

One trade over a frame that grows by a minute at a time: a candle, a missing
minute or a scheduled closure. `Observed` is the simulator that ignores gaps,
`Trace` the one that asks the catalogue for the gaps up to that exit or up to the
limit (`Cutoff`), decides each at the next real open (`Resolution`) and stops at the
first that ends the trade (`Deciding`). Prices are three levels relative to stop and
target, on the side the position is closed on. The properties quantify over
`Completions`: every way to fill what is missing.

### TwelveCache

The file as a set of minutes, extended at both ends by `Answer` from the copy that
`Ask` has read; two readers may interleave. The credit limiter and prices are left out.

## 3. The runs

| Run | Result | What it asks |
|---|---|---|
| `CandleStore` | pass, about 675,000 states | every property of the cache, with deaths at any step |
| `CandleImport` | pass, about 874,000 | imports, downloads and repairs on one cache: what may an import loosen or lose? Does the revision of a backtest cover its data, and can a strict one be repeated? |
| `CandleStoreRevision` | violation | is the revision recorded with a backtest that of its candles? (finding 1) |
| `RunLifecycle` | pass, about 234,000 | safety of runs with crashes, restarts and failed updates; refinement of the journal; does every run end and the process exit? |
| `RiskSelection` | pass, about 3,030,000 | 36 configurations over every list of four setups |
| `RiskConcurrent` | violation | with concurrent positions, is equity known at entry? (finding 2) |
| `SetupCausality` | pass, about 50,000 | do setups, zones and quality stay what they were as the market goes on, what do setups read of their own minute, and does COMPLETE mean that nothing missing mattered? |
| `SetupAtBreak` | violation | is a trade entered after the break that motivates it? (finding 3) |
| `SetupAtZone` | violation | is a trade at the open of a minute independent of that minute? (finding 4) |
| `TraceExit` | pass, about 20,000 | what may a trade's end and its gaps claim, against every candle that is missing? |
| `TwelveCache` | violation | does the file stay without holes? (finding 5) |
| `RequestGate` | pass, about 91,000 | spacing, exclusion, termination |

Bounds, and why they are enough:

- *CandleStore.* Four minutes in three days and two months: two minutes of a
  day so that a day can be partly served; two days of a month so that they share
  a Parquet file and a digest; two months so that a command crosses one. One
  minute of scheduled closure, one the provider always serves, one it has but may
  show on one side or in one observation only; one window that cuts the first and
  the last month. Two values tell "kept" from "replaced". `Horizon = 4` lets every day
  end while commands run. One process: two are a known defect of the design
  (section 6); that only closed minutes are stored holds for any number, and is proved.
- *RunLifecycle.* Two runs, one of each engine; two requests, so that inserts
  and submits interleave; batches of two; a legacy job waiting while another
  runs in the worker and the scheduler fires; two boots, so that a second
  process meets rows left by the first.
- *RiskSelection.* Two trade dates whose sessions overlap by two minutes, so that
  the sorted list need not be chronological: after a setup of the first date at minute
  2, one of the second may enter at minute 1 (the mutant `StillOpen_inside` is caught
  by that only); four setups are the shortest list in which a day can
  reach a limit of three; a first risk of 2, a second of 1, budgets of 3 and 4 and
  limits of 2 and 3 let a third trade of a day be refused by the limit, by the
  budget, by a stop or by none.
- *CandleImport.* Three minutes, one day of two and one of one, each in its own
  month: a file can cover a day in part, span two months, or repeat minutes of an
  earlier one. One quote is enough, since what matters is which minutes have both
  sides; two values of downloaded candles still tell "kept" from "replaced". A
  permissive limit of one minute separates the three policies. A behaviour is bounded to
  one of two `Plans`: exports of any minutes without a backtest, or a backtest while
  exports leave the first minute, which the provider always serves, to downloads and
  repairs; it still reads months that any of the three writers changes under it.
- *SetupCausality.* Sixteen markets of five to thirteen minutes. Labels with one bar on
  each side of a pivot, all sequences of four kinds of candle in seven minutes:
  enough for a pivot, two labels in a row or apart, and an entry at, before and
  after the break. The dollar index confirms, is silent or misses minutes, at,
  before and after the break, with both cut-offs and both gap behaviours, and
  once with every sign changed. Zones form from candles of one and two minutes, of
  both directions, one that expires, with candles below, inside and through them by
  wick or close. Labels on candles of two minutes. Sessions that overlap and contain
  each other. In the trace mode, minutes of the pair and of the dollar index are
  missing before, at and after the break and the entry, and minutes are closed.
- *TraceExit.* A trade entered in the second of seven minutes and held for four:
  two separate gaps, or one that passes the limit, with a candle in between, all
  fit. Both directions, both policies, closures inside and at the end of the
  holding time, candles that touch, cross and reopen beyond each level.
- *RequestGate.* Three workers: one in flight, two behind it. Backoffs below,
  equal to and above the interval; a `Retry-After` longer than the interval.

Deadlock is checked for the cache, the import and the gate. It is off for `RunLifecycle` (the process is
down for good after its last boot), for `RiskSelection` (the list ends), for
`SetupCausality` and `TraceExit` (a market ends at its horizon) and for `TwelveCache`
(which is to be refuted).

Symmetry: the values of candles are interchangeable; the symmetry is used in runs
without liveness properties only.

## 4. Properties

`CandleStore`: `OnlyClosedMinutes` (the clip at the command's start keeps the
candle in progress out of a store that never overwrites),
`CompleteDaysNeedNoDownload` (what `completed_days` promises to every later
download, across deaths), `RepairStaysInWindow`, `EvidenceIsAbsence` (no minute with
a candle, and none that the provider has on one side or showed in one of the two
observations, is confirmed absent),
`RepairRenewsDigest` (a repair mends what an earlier death left),
`RevisionIsExact` (refuted), `RevisionLagsOnlyAfterDeath` (what does hold of it),
and `ImplementsLedger` (which includes that observations are permanent).

`CandleImport`: `OnlyImportsLoosen` says exactly how far an import weakens the two
promises above: an unfinished candle, or a complete day that lacks minutes, only
where both imported sides have a minute. `ImportsAreWhole` (what was imported on both sides
is in the cache when the month is done), `ObservationsPermanent`,
`RevisionCoversTheData` (the revision recorded at a run's end contains every candle it
read at its start), `StrictIsRepeatable` (later writes, whole or cut short, never turn
an accepted strict run into a refused one).

`RunLifecycle`: `OneHolder` relates the row to the request, the queue and the
worker: an unended run is in exactly one of them or lost, an ended one in none.
`ExecuteExclusive` (one caller inside `execute`, and the lock held exactly then),
`LatestIsStored`, `ProgressOnlyForward` (nothing in
`update_run_progress` enforces it), `EveryRunEnds` (every accepted run is ended or
lost, and `OneHolder` says when it can be lost), `ShutdownExits`, and
`ImplementsJournal`.

`RiskSelection`: `NoOverlap` (each trade is out before any later one of the list
is entered), `NothingAfterUnknown`, `DailyBudget`, `DailyStops`.

`SetupCausality`: `SettledSetups` (no setup appears, moves or vanishes once the
candle of its entry has closed), `ZonesStay`, `RefusedForGood`, `NoPeeking` and `EntryAfterBreak`
(refuted), and `OnlyTwoPeeks`, what does hold: a setup depends on the rest of its
minute of entry through the break or through a zone, and in no other way.
`CompleteIsCertain`: a verdict that is settled and marked COMPLETE is the same for
every way to fill the missing minutes, unless a whole session is missing (`Skips`: the
code then takes an earlier session for the previous one, without an event).
`QualityIsFinal`: gaps after the entry change nothing, gaps before it stay.

`TraceExit`: `ObservedIsCertain` (no completion of the missing minutes ends an
OBSERVED trade otherwise), `EndsArePossible` (an inferred or assumed end is that of
some completion, and an unknown end is open either way), `GapsAccounted`, `EndsAreFinal`.

`RequestGate`: `OneInFlight`, `SpacedAndPatient`, `CallsEnd`.

## 5. Fairness

- `RunLifecycle`: weak fairness of the worker thread, of a request between its
  insert and its submit, of the scheduler's thread inside `execute`, and of the exit
  of a drained process. These are threads of a live process with something to do;
  a backtest is assumed to return or raise. Nothing is assumed about requests
  arriving, the scheduler firing or the server being stopped. A crash, and an
  update to FAILED that fails, do leave a run unended for ever: these runs are
  in `lost`, and liveness claims the rest.
- `RequestGate`: time passes; an attempt is answered or times out
  (`timeout_seconds` bounds it); a worker takes a lock that stays free. No
  strong fairness of the lock is needed because a download makes a bounded number
  of calls (`MaxCalls`) of a bounded number of attempts.

## 6. What is proved, and what is not

All proofs are checked by TLAPS for every value of the constants allowed by the
assumptions named in the modules.

- **CandleStore.** `TypeCorrect`. `ClosedOnDisk`: `OnlyClosedMinutes` for any
  number of processes and deaths. It is not inductive alone: a process may hold an
  open candle in memory. `ClosedInMemory` adds that no frame or copy of a month
  held by a process has a candle of a minute that is not closed, and that the
  time a command started is not later than the clock. `Scoped`, which also holds for
  any number, says what each process carries: minutes about to be recorded absent are
  `Unserved`, a repair holds only open minutes of its window, an idle process holds nothing.

  The rest assumes `OneWriter` (at most one process), because with two processes it is
  false: the second rename drops what the first one added, a limit of the design that
  `docs/CURRENT_STATE.md:71` states. The invariant behind it is
  `SeenIsCurrent`: the copy of the month that `write_day` extends is still what is on
  disk. It gives `ObservationsStay` (`ObservationsPermanent`) and `RepairInWindow`
  (`RepairStaysInWindow`). `EvidenceHolds` is `EvidenceIsAbsence`: `Attesting` says that
  after the re-read the minutes still to be recorded have no candle, which a second
  writer could change before the rename. With `Renewing` it gives `CompleteDaysAreComplete`,
  `RepairRenews` and `LagsOnlyAfterDeath`: a write that will call its day complete
  has a frame that, with the file, serves the day; the manifest
  held for the last rename is the one to be written; a recovery writes a day of its
  month; and a digest never has a candle its file lacks. `LedgerImplemented`: every
  step is a step or a stutter of `ObservationLedger`.

  `Renewing`, `HeldClosed` and what they rest on are stated over a set S of excused
  minutes, the one place where the cache's own guarantees and those that
  remain after imports differ: S is empty in `CandleStoreProofs`.
- **CandleImport.** With `OneWriter`, all five properties of the run:
  `ImportsKeepObservations`, `ImportsLoosen`, `StrictRepeats`, `RevisionNamesTheData`,
  `ImportsWhole`. S is `Paired`, the minutes imported on both sides, which only grows. A step
  of an import is either a step of `CandleStore` taken with an import's task, whose
  lemmas then apply as they stand, or one of the import's own. `Importing` is what makes that true: an import
  looks like a download to the steps of a write, it is never idle, and its days
  have minutes of `Paired` only. `Whole` says where each minute of the joined
  month is: still to do, in the frame of the write under way, or on disk.
  `Reading` says that what a backtest has read is on disk as it was read.
- **RunLifecycle.** `TypeCorrect`; `ExecuteExcludes`: the lock is held exactly
  while one caller is inside `execute`, an invariant that is inductive with the types
  alone; `LatestStored`: through `Publishing`, that a worker about
  to publish or complete has stored its output. `OneHolderHolds`, `ProgressForward`
  and `JournalImplemented` share one invariant, `Holding`. Its centre is `Placed`: each
  run is in one request, at one position of the queue, with the worker, or nowhere,
  and it is nowhere exactly when it is ended or lost. The other conjuncts are what
  the steps need: a run that waits has only been queued (`Owing`, `Waits`), so that the
  worker's first report finds it so; the row of the run at work says how far the worker
  is (`Reported`), so that no report goes back; a process that is down has neither
  queue nor threads (`Phases`), so that a boot loses nothing it should not.
- **RiskSelection.** `OnePositionHolds` and `UnknownEndsTheRun`. Non-overlap
  needs the whole history: each trade ends after it begins (`Settled`), each begins
  after the previous one ended, so all the ends before the last are earlier than
  the last; comparing with the last trade is enough although the list is not
  chronological. `DailyBudgetHolds` and `DailyStopsHolds`: the sums of a day's risks are a
  fold over a set of positions, about which the lemmas `RiskOfEmpty` to
  `RiskOfAdd` say what a new trade changes; a second risk is admitted only where
  the sum leaves room for it, and the first fits by `RiskAssumptions`.
- **TraceExit.** All five properties of the run, for every frame, calendar, direction,
  limit and policy that `TradeOK` allows: the frame is made of what the scenario may
  send, and an entered trade has the candle of its entry. `ObservedHolds`: an OBSERVED trade
  has no managed gap (`ObservedHasNoGap`), so that no minute before its cutoff is
  missing, and two frames that agree up to the cutoff have the same first hit.
  `EndsArePossibleHolds` constructs completions: one leaves every missing minute out,
  others put one candle that touches the stop, the target or both into a
  managed gap (`Filled`), and the first hit of each is computed from that of the frame.
  `EndsAreFinalHolds`: the frame grows at its end only (`Grows`), and the end of a
  trade that is won, lost or past its limit is a function of the part before
  its cutoff. `GapsAccountedFor`: the gaps of a trade's context and of its holding time,
  cut and merged by the catalogue, cover exactly the missing open minutes of both.
  The proofs found two assumptions the model had left unsaid: what is a candle
  (`CandleAssumptions`), and that the context a scenario looks back to begins
  before its entry.
- **SetupCausality.** All four properties that the code keeps, for every market, session
  table and configuration that `ScenarioAssumptions` and `LabelAssumptions` allow.
  `OnlyTwoPeeksHolds`: two pairs of frames are compared that `Meet` at a bar: the same
  before it, and the same time and opening there. The candles of any longer timeframe are
  then `Alike` (`GroupedMeet`, by the first bar at which they would not be), so that a
  label that can be entered by that bar is a label of both (`EntriesLike`,
  `PossibleMeet`). The break is decided at the same stage (`ReachedSame`): the previous session is over
  when its level is passed, because its own bars reach no further than their highest. The dollar
  index gives the same answers (`BrokenSame`), the same zones have formed (`ZonesMeet`),
  and the loop over the labels stops at the same one (`ToldIs`, `TriggerSame`); that is
  `VerdictSame`. The two exceptions of the property are exactly the places where these lemmas
  need more than the opening. `SettledSetupsHolds`: a frame that goes on (`GoesOn`) meets the longer
  one at the first bar after the entry's candle. `RefusedForGoodHolds`: a label that decided
  stays possible and stays the one that decides (`ConfirmedLater`, `TriggerRefused`).
  `ZonesStayHolds`: a candle that has ended is never regrouped (`ResampleMore`).
- **SetupQuality.** `QualityIsFinalHolds`. Merging and selecting do not matter to what is
  reported: it is the minutes of a missing stretch from one minute of a window to
  another (`ReportedIs`). All windows of a setup end at its entry (`WindowsEnd`), where the
  warm-up counts the same bars or is cut alike (`WarmSame`); before it a longer frame misses
  the same minutes (`MissingMore`) and has the same previous session.
  `CompleteIsCertainHolds`: a frame that is filled in keeps every bar and gets others in
  lost minutes only (`FilledIs`), none of them in a window when nothing is reported
  (`CompleteFrames`), so that the two frames `Agree` on the windows of the verdict. More
  bars elsewhere change nothing. The previous session is the same one (`EarlierFills`), its
  level too, and the first break passes it in both frames (`ReachedFills`); for a refusal
  for want of a break the level could only have risen (`NoBreakCertain`). The dollar
  index is looked at in two stretches (`DollarsAgree`), and a label that is accepted ends
  the search before anything later counts (`TriggerDollar`). A label or a zone needs every
  bar from the first minute on: `Agree` is then having the same bars at the same places
  (`PrefixSame`), to which `VerdictSame` of `SetupCausalityProofs` applies. The conditions
  of the property are used: `~Skips` for the previous session, `Firm` for a break that
  comes before the minute of the entry.
- **RequestGate.** `TypeCorrect`, `OneRequest`, `SpacingHolds`. The invariant is
  `GateCovers`: the gate is never nearer than what is left of the interval or of
  any `Retry-After`.

Every invariant named here was first checked by TLC on the run's instance.

Checked by TLC only: the liveness properties `EveryRunEnds`, `ShutdownExits` and
`CallsEnd`, which are out of the prover's reach. Every safety property of a passing run is
the statement of a theorem.

### Findings

1. **The revision of a backtest may be that of other data.** `data_revision`
   hashes the digest in the manifest, not the file (`app/data/dukascopy.py:577`).
   After a death between the two renames it returns the revision of the previous
   contents, until the month is written or repaired again.
2. **Equity at entry with concurrent positions.** With
   `one_position_at_a_time = False`, `_apply_risk` compounds the result of a trade
   before its exit (`app/research/engine.py:626`), where
   `docs/LOOKAHEAD_AUDIT.md:23` says that equity comes after earlier exits.
3. **An entry at the open of the break candle.** `bisect_left` over the entry times
   (`app/research/engine.py:437`) keeps a label that is entered in the minute of
   the break, at its open, when the break is not known yet.
   `docs/LOOKAHEAD_AUDIT.md:11` says that the entry comes after the close of that candle.
4. **A zone is invalid before it is passed.** `invalidated_at` is the open of the
   candle that passes the zone (`app/zones.py:45`) and an entry at that open is
   refused (`app/research/engine.py:220`): the candle's later high or close decides
   about a trade at its open. `docs/LOOKAHEAD_AUDIT.md:9` makes a candle usable at
   its close, and `:30` says that no zone is invalidated retroactively.

5. **A hole in the Twelve Data cache stays.** A request that begins after the last
   candle of the file fetches from its own start (`app/data_twelvedata.py:156`); the
   minutes between are never fetched again, since later requests extend the file at
   its two ends, and are missing from every later answer. The comment at `:155` says
   that going back two minutes avoids a cut at the edge of the cache.

### Not modelled

Floating point (prices, indicators, risk sums, statistics, the weights of the
synthetic dollar index) has no counterpart in TLC or the provers; where a decision
rests on it the model chooses, or uses integers. Exports, reports, the user
interface and parsing of the environment have no state. The market calendar and the
clock arithmetic of sessions are pure functions of dates and time zones, and are given.
Presets are rows nothing else depends on; walk-forward windows are date
arithmetic. The legacy engine is frozen by a golden file. Aggregate quality and
coverage reports only count. Days of 23 and 25 hours, at a change of clocks, are left
out of longer candles. Where neither level is broken the code records one refusal for
the session (`app/research/engine.py:382`) and the model one for each direction. The credit limiter of Twelve Data, and the checks of
prices within a candle, are left out.

## 7. Plan

What is left, in order of importance:

1. The credit limiter, whose fixed window may be entered twice within a minute.
2. The daily money of the legacy engine, and presets.

## 8. Running

    tlc -config CandleStore.cfg MCCandleStore      # each run: its .cfg and its MC module
    tlapm CandleStoreProofs.tla                    # each *Proofs module
