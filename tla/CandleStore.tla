---------------------------- MODULE CandleStore ----------------------------
(***************************************************************************)
(* The Dukascopy candle cache of one instrument (app/data/cache.py) and    *)
(* the two command-line operations that write it, DukascopyProvider        *)
(* .download and .repair_gaps (app/data/dukascopy.py).                     *)
(*                                                                         *)
(* A month of candles is one Parquet file, replaced by an atomic rename.   *)
(* A manifest, a second file with its own atomic rename, says which days   *)
(* are complete and holds the digest of each Parquet file.  A third file   *)
(* holds the minutes whose absence at the provider was confirmed.  Nothing *)
(* makes the three renames one transaction, and nothing coordinates two    *)
(* processes (docs/CURRENT_STATE.md says so).                              *)
(*                                                                         *)
(* Prices are abstracted to members of Values, a digest to the contents it *)
(* is the digest of, and a day to the set of its minutes.  Every rename is *)
(* an action of its own, apart from the reads that precede it, so that     *)
(* another process, a reader or a crash can come in between.  Two reads    *)
(* are one action where nothing is written from the first alone: the cache *)
(* and the evidence in ScanMonth, the manifest and the file it digests in  *)
(* LoadManifest and Recover.  With one writer the two cannot be told apart. *)
(***************************************************************************)
EXTENDS Naturals

CONSTANTS
  Procs,        \* processes that may run download_history.py
  Minutes,      \* the M1 slots the model looks at
  Days, Months, \* UTC days and months, in order
  DayOf,        \* minute -> day
  MonthOf,      \* day -> month
  OpenMinutes,  \* minutes of open market: not a weekend, closure or holiday
  Archive,      \* minutes the provider always serves once their day is over
  Listed,       \* minutes it has, though a reply may show one side or neither
  Values,       \* candle contents
  NoBar,        \* no candle
  OneSided,     \* the provider returned the minute on BID or on ASK only
  Windows,      \* the time windows the operator asks for, as sets of minutes
  Horizon       \* bound: the clock stops here

ASSUME StoreAssumptions ==
  /\ Minutes \subseteq Nat /\ Days \subseteq Nat /\ Months \subseteq Nat
  /\ Days # {}
  /\ DayOf \in [Minutes -> Days] /\ MonthOf \in [Days -> Months]
  /\ Archive \subseteq Listed /\ Listed \subseteq OpenMinutes /\ OpenMinutes \subseteq Minutes
  /\ NoBar \notin Values /\ OneSided \notin Values /\ NoBar # OneSided
  /\ Windows \subseteq SUBSET Minutes
  /\ Horizon \in Nat

VARIABLES
  clock,      \* the minute in progress: minutes below it are closed
  candles,    \* the Parquet files: minute -> candle or NoBar
  manifest,   \* manifest.json
  confirmed,  \* provider_missing/*.json: minutes confirmed absent
  pc,         \* what each process does next
  job,        \* the arguments of each process's command
  months,     \* repair: months still to visit, the current one included
  work,       \* minutes of the days still to fetch (repair: the missing ones)
  task,       \* the day being written
  seen,       \* write_day's in-memory copy of the month's Parquet file
  held        \* write_day's in-memory copy of the next manifest

disk == <<candles, manifest, confirmed>>
memory == <<pc, job, months, work, task, seen, held>>
vars == <<clock, disk, memory>>

Bars == Values \cup {NoBar}
Frames == [Minutes -> Bars]
Replies == [Minutes -> Bars \cup {OneSided}]
Steps == {"idle", "scan", "fetch", "load", "parquet", "index", "commit",
          "evidence", "confirm", "attest", "recover"}
Manifests ==
  [completed : SUBSET Days, partial : SUBSET Days, digest : [Months -> Frames]]
Jobs == [kind : {"download", "repair"}, window : SUBSET Minutes, now : Nat,
         confirm : BOOLEAN, recheck : BOOLEAN]
Tasks == [day : Days, frame : Frames, complete : BOOLEAN,
          absent : SUBSET Minutes,   \* minutes the provider did not have
         records : SUBSET Minutes,  \* the evidence file of the month to come
         recovery : BOOLEAN]

Month(m) == MonthOf[DayOf[m]]
MinutesOf(d) == {m \in Minutes : DayOf[m] = d}
DayEnded(d, t) == \A m \in MinutesOf(d) : m < t
Today(d, t) == ~DayEnded(d, t) /\ \E m \in MinutesOf(d) : m <= t
EmptyFrame == [m \in Minutes |-> NoBar]
Stored(f) == {m \in Minutes : f[m] # NoBar}
\* The Parquet file of a month: no file is the same as no candle.
Partition(mon, f) == [m \in Minutes |-> IF Month(m) = mon THEN f[m] ELSE NoBar]
NoManifest == [completed |-> {}, partial |-> {},
               digest |-> [mon \in Months |-> EmptyFrame]]
NoJob == [kind |-> "download", window |-> {}, now |-> 0,
          confirm |-> FALSE, recheck |-> FALSE]
NoTask == [day |-> CHOOSE d \in Days : TRUE, frame |-> EmptyFrame,
           complete |-> FALSE, absent |-> {}, records |-> {}, recovery |-> FALSE]

Init ==
  /\ clock = 0
  /\ candles = EmptyFrame
  /\ manifest = NoManifest
  /\ confirmed = {}
  /\ pc = [p \in Procs |-> "idle"]
  /\ job = [p \in Procs |-> NoJob]
  /\ months = [p \in Procs |-> {}]
  /\ work = [p \in Procs |-> {}]
  /\ task = [p \in Procs |-> NoTask]
  /\ seen = [p \in Procs |-> EmptyFrame]
  /\ held = [p \in Procs |-> NoManifest]

-----------------------------------------------------------------------------
(* The provider.  A reply is one of many: a minute may be there, be there   *)
(* on one side only or be missing, and a price may be revised between two   *)
(* calls.  It may hold the minute in progress, never a later one.  The fetch *)
(* took place between t, the start of the command, and the clock.           *)

RepliesFor(d, t) ==
  {r \in Replies :
     /\ \A m \in Minutes : r[m] # NoBar => DayOf[m] = d /\ m <= clock
     /\ DayEnded(d, t) => \A m \in Archive \cap MinutesOf(d) : r[m] \in Values}

\* Two replies in a row about a day that is over: one has each listed minute,
\* on one side at least.
ShowListed(d, t, r1, r2) ==
  DayEnded(d, t) => \A m \in Listed \cap MinutesOf(d) : r1[m] # NoBar \/ r2[m] # NoBar

\* Mutants of Clip: an inclusive bound; an outer join.
Clip_keeps_open_candle(r, t) ==
  [m \in Minutes |-> IF r[m] \in Values /\ m <= t THEN r[m] ELSE NoBar]
Clip_keeps_lone_side(r, t) ==
  [m \in Minutes |-> IF m < t THEN r[m] ELSE NoBar]

\* fetch_day keeps the minutes closed at t, combine_bid_ask those of both sides.
Clip(r, t) ==
  [m \in Minutes |-> IF r[m] \in Values /\ m < t THEN r[m] ELSE NoBar]

\* _fetch_day raises when one whole side is empty and the other is not.
BothSidesServed(r, t) ==
  LET lone == {m \in Minutes : r[m] = OneSided /\ m < t}
  IN  lone = {} \/ Stored(Clip(r, t)) # {} \/ \E m, n \in lone : m # n

\* Two observations of a day in turn: on a common minute the second one stays.
Overlay(f, g) == [m \in Minutes |-> IF g[m] # NoBar THEN g[m] ELSE f[m]]

Only(f, S) == [m \in Minutes |-> IF m \in S THEN f[m] ELSE NoBar]

-----------------------------------------------------------------------------
(* Starting a command.  The command reads the wall clock once, here.        *)

Quiesce(p) ==
  /\ pc' = [pc EXCEPT ![p] = "idle"]
  /\ job' = [job EXCEPT ![p] = NoJob]
  /\ months' = [months EXCEPT ![p] = {}]
  /\ work' = [work EXCEPT ![p] = {}]
  /\ task' = [task EXCEPT ![p] = NoTask]
  /\ seen' = [seen EXCEPT ![p] = EmptyFrame]
  /\ held' = [held EXCEPT ![p] = NoManifest]

\* download(): the days of the window that began, without the completed ones
\* unless forced; today's candles are always asked for again.
Planned(w, force, t) ==
  {d \in Days :
     /\ \E m \in w \cap MinutesOf(d) : m < t
     /\ force \/ d \notin manifest.completed \/ Today(d, t)}

StartDownload(p, w, force) ==
  /\ pc[p] = "idle"
  /\ Planned(w, force, clock) # {}
  /\ pc' = [pc EXCEPT ![p] = "fetch"]
  /\ job' = [job EXCEPT ![p] = [NoJob EXCEPT !.window = w, !.now = clock]]
  /\ work' = [work EXCEPT ![p] =
                {m \in Minutes : DayOf[m] \in Planned(w, force, clock)}]
  /\ UNCHANGED <<clock, disk, months, task, seen, held>>

\* repair_gaps(): ConfirmationPolicy refuses a recheck without a confirmation.
StartRepair(p, w, confirm, recheck) ==
  LET closed == {m \in w : m < clock}
  IN  /\ pc[p] = "idle"
      /\ closed # {}
      /\ recheck => confirm
      /\ pc' = [pc EXCEPT ![p] = "scan"]
      /\ job' = [job EXCEPT ![p] = [kind |-> "repair", window |-> closed,
                   now |-> clock, confirm |-> confirm, recheck |-> recheck]]
      /\ months' = [months EXCEPT ![p] = {Month(m) : m \in closed}]
      /\ UNCHANGED <<clock, disk, work, task, seen, held>>

-----------------------------------------------------------------------------
(* Choosing the next day.                                                   *)

\* repair, start of a month: the open minutes of the window that have no
\* candle on disk, without those confirmed absent unless rechecked.
Missing(p, mon) ==
  {m \in job[p].window \cap OpenMinutes :
     /\ Month(m) = mon
     /\ candles[m] = NoBar
     /\ job[p].recheck \/ m \notin confirmed}

FirstMonth(p) == CHOOSE mon \in months[p] : \A n \in months[p] : mon <= n

ScanMonth(p) ==
  /\ pc[p] = "scan"
  /\ IF months[p] = {}
       THEN Quiesce(p)
       ELSE /\ work' = [work EXCEPT ![p] = Missing(p, FirstMonth(p))]
            /\ pc' = [pc EXCEPT ![p] = "fetch"]
            /\ UNCHANGED <<job, months, task, seen, held>>
  /\ UNCHANGED <<clock, disk>>

PendingDays(p) == {DayOf[m] : m \in work[p]}

\* download() takes the days of the first month in the order their fetches end,
\* repair_gaps() takes the days of its month in order.
DueDays(p) ==
  {d \in PendingDays(p) :
     \A e \in PendingDays(p) :
       IF job[p].kind = "repair" THEN d <= e ELSE MonthOf[d] <= MonthOf[e]}

NothingDue(p) ==
  /\ pc[p] = "fetch"
  /\ work[p] = {}
  /\ IF job[p].kind = "repair"
       THEN /\ pc' = [pc EXCEPT ![p] = "recover"]
            /\ UNCHANGED <<job, months, work, task, seen, held>>
       ELSE Quiesce(p)
  /\ UNCHANGED <<clock, disk>>

\* The day leaves the list of work and becomes the day being written.
Begin(p, d, frame, complete, absent) ==
  /\ task' = [task EXCEPT ![p] =
                [day |-> d, frame |-> frame, complete |-> complete,
                 absent |-> absent, records |-> {}, recovery |-> FALSE]]
  /\ work' = [work EXCEPT ![p] = @ \ MinutesOf(d)]
  /\ pc' = [pc EXCEPT ![p] = "load"]
  /\ UNCHANGED <<clock, disk, job, months, seen, held>>

-----------------------------------------------------------------------------
(* Fetching a day.  `now` is the time read when the command started.        *)

\* Mutant: a day counts as complete as soon as it has begun.
DownloadComplete_started(d, t) == \E m \in MinutesOf(d) : m < t

\* download(): a day is complete when it was over, whatever the reply holds.
DownloadComplete(d, t) == DayEnded(d, t)

FetchDownload(p) ==
  /\ pc[p] = "fetch" /\ job[p].kind = "download"
  /\ \E d \in DueDays(p) : \E r \in RepliesFor(d, job[p].now) :
       /\ BothSidesServed(r, job[p].now)
       /\ Begin(p, d, Clip(r, job[p].now), DownloadComplete(d, job[p].now), {})

\* repair_gaps(): the candles of the day on disk and the additions together
\* leave no open minute without a candle.
RepairComplete(d, t, additions) ==
  /\ DayEnded(d, t)
  /\ MinutesOf(d) \cap OpenMinutes \subseteq Stored(Overlay(additions, candles))

Targets(p, d) == work[p] \cap MinutesOf(d)

\* Mutant: the whole downloaded day is kept.
Additions_whole_day(frame, targets) == frame

\* Only observations of the missing minutes are kept from the whole day.
Additions(frame, targets) == Only(frame, targets)

FetchRepair(p) ==
  /\ pc[p] = "fetch" /\ job[p].kind = "repair" /\ ~job[p].confirm
  /\ \E d \in DueDays(p) : \E r \in RepliesFor(d, job[p].now) :
       LET add == Additions(Clip(r, job[p].now), Targets(p, d))
       IN  /\ BothSidesServed(r, job[p].now)
           /\ Begin(p, d, add, RepairComplete(d, job[p].now, add), {})

\* Mutant: a minute without a candle is missing, also if one side has it.
NotOnWire_lone_side(r, S) == {m \in S : r[m] \notin Values}

\* Not on BID nor on ASK of the reply.
NotOnWire(r, S) == {m \in S : r[m] = NoBar}

\* _fetch_confirmed_day raises unless the UTC day was over.
MayConfirm(d, t) == DayEnded(d, t)

\* _fetch_confirmed_day: at most two observations of a day that is over; the
\* second is made only if a target is still missing, and an unmatched side is
\* neither a candle nor evidence of absence.
FetchConfirmed(p) ==
  /\ pc[p] = "fetch" /\ job[p].kind = "repair" /\ job[p].confirm
  /\ \E d \in DueDays(p) : \E r1, r2 \in RepliesFor(d, job[p].now) :
       LET once == NotOnWire(r1, Targets(p, d))
           twice == NotOnWire(r2, once)
           t == clock + 1   \* the endpoint of a past day is not clipped
           observed == IF once = {} THEN Clip(r1, t)
                                    ELSE Overlay(Clip(r1, t), Clip(r2, t))
           add == Additions(observed, Targets(p, d))
       IN  /\ MayConfirm(d, job[p].now)
           /\ IF once = {} THEN r2 = r1 ELSE ShowListed(d, job[p].now, r1, r2)
           /\ Begin(p, d, add, RepairComplete(d, job[p].now, add), twice)

-----------------------------------------------------------------------------
(* write_day.                                                               *)

LoadPartition(p) ==
  /\ pc[p] = "load"
  /\ seen' = [seen EXCEPT ![p] = Partition(MonthOf[task[p].day], candles)]
  /\ pc' = [pc EXCEPT ![p] = "parquet"]
  /\ UNCHANGED <<clock, disk, job, months, work, task, held>>

\* Mutant: a candle of the reply replaces the stored one.
Incoming_replaces(frame, existing) == frame

\* What the day adds to the month as it was read: existing candles always win.
Incoming(frame, existing) == Only(frame, Minutes \ Stored(existing))

\* The Parquet file is rewritten only when the day brings a new candle.
RenameParquet(p) ==
  LET mon == MonthOf[task[p].day]
      incoming == Incoming(task[p].frame, seen[p])
      combined == Overlay(seen[p], incoming)
  IN  /\ pc[p] = "parquet"
      /\ candles' = IF Stored(incoming) = {} THEN candles
                    ELSE [m \in Minutes |->
                            IF Month(m) = mon THEN combined[m] ELSE candles[m]]
      /\ seen' = [seen EXCEPT ![p] = EmptyFrame]
      /\ pc' = [pc EXCEPT ![p] = "index"]
      /\ UNCHANGED <<clock, manifest, confirmed, job, months, work, task, held>>

\* Mutant: the digest of the month is not renewed.
NextManifest_stale_digest(d, complete) ==
  [completed |-> IF complete THEN manifest.completed \cup {d}
                             ELSE manifest.completed \ {d},
   partial |-> IF complete THEN manifest.partial \ {d} ELSE manifest.partial \cup {d},
   digest |-> manifest.digest]

\* The manifest after the day; the digest is that of the file now on disk.
NextManifest(d, complete) ==
  [completed |-> IF complete THEN manifest.completed \cup {d}
                             ELSE manifest.completed \ {d},
   partial |-> IF complete THEN manifest.partial \ {d} ELSE manifest.partial \cup {d},
   digest |-> [manifest.digest EXCEPT ![MonthOf[d]] = Partition(MonthOf[d], candles)]]

LoadManifest(p) ==
  /\ pc[p] = "index"
  /\ held' = [held EXCEPT ![p] = NextManifest(task[p].day, task[p].complete)]
  /\ pc' = [pc EXCEPT ![p] = "commit"]
  /\ UNCHANGED <<clock, disk, job, months, work, task, seen>>

\* After the write: a recovery ends its month, a confirming repair saves its
\* evidence, anything else goes to its next day.
RenameManifest(p) ==
  /\ pc[p] = "commit"
  /\ manifest' = held[p]
  /\ held' = [held EXCEPT ![p] = NoManifest]
  /\ IF task[p].recovery
       THEN /\ months' = [months EXCEPT ![p] = @ \ {FirstMonth(p)}]
            /\ task' = [task EXCEPT ![p] = NoTask]
            /\ pc' = [pc EXCEPT ![p] = "scan"]
       ELSE /\ pc' = [pc EXCEPT ![p] =
                        IF job[p].confirm THEN "evidence" ELSE "fetch"]
            /\ task' = [task EXCEPT ![p] = IF job[p].confirm THEN @ ELSE NoTask]
            /\ UNCHANGED months
  /\ UNCHANGED <<clock, candles, confirmed, job, work, seen>>

\* _save_missing_confirmations: the cache is read again, and a minute that has
\* a candle by now is not confirmed absent.
Attested(absent) == absent \ Stored(candles)

RereadCache(p) ==
  LET absent == Attested(task[p].absent)
  IN  /\ pc[p] = "evidence"
      /\ task' = [task EXCEPT ![p] = IF absent = {} THEN NoTask
                                    ELSE [@ EXCEPT !.absent = absent]]
      /\ pc' = [pc EXCEPT ![p] = IF absent = {} THEN "fetch" ELSE "confirm"]
      /\ UNCHANGED <<clock, disk, job, months, work, seen, held>>

\* The evidence file of a month.
EvidenceOf(mon) == {m \in confirmed : Month(m) = mon}

\* save_confirmations adds the records to those the month's file has.
LoadEvidence(p) ==
  /\ pc[p] = "confirm"
  /\ task' = [task EXCEPT ![p].records = EvidenceOf(MonthOf[task[p].day]) \cup task[p].absent]
  /\ pc' = [pc EXCEPT ![p] = "attest"]
  /\ UNCHANGED <<clock, disk, job, months, work, seen, held>>

RenameEvidence(p) ==
  /\ pc[p] = "attest"
  /\ confirmed' = (confirmed \ EvidenceOf(MonthOf[task[p].day])) \cup task[p].records
  /\ task' = [task EXCEPT ![p] = NoTask]
  /\ pc' = [pc EXCEPT ![p] = "fetch"]
  /\ UNCHANGED <<clock, candles, manifest, job, months, work, seen, held>>

-----------------------------------------------------------------------------
(* End of a month of repair: if the digest in the manifest is not that of   *)
(* the Parquet file, an empty write_day of the file's first day renews it.  *)

\* Mutant: a month the manifest has never seen is left alone.
NeedsRecovery_only_if_indexed(mon) ==
  /\ Stored(manifest.digest[mon]) # {}
  /\ manifest.digest[mon] # Partition(mon, candles)

NeedsRecovery(mon) ==
  /\ Stored(Partition(mon, candles)) # {}
  /\ manifest.digest[mon] # Partition(mon, candles)

FirstStoredDay(mon) ==
  LET days == {DayOf[m] : m \in Stored(Partition(mon, candles))}
  IN  CHOOSE d \in days : \A e \in days : d <= e

Recover(p) ==
  LET mon == FirstMonth(p)
  IN  /\ pc[p] = "recover"
      /\ IF NeedsRecovery(mon)
           THEN LET d == FirstStoredDay(mon)
                IN  /\ task' = [task EXCEPT ![p] =
                          [day |-> d, frame |-> EmptyFrame,
                           complete |-> d \in manifest.completed,
                           absent |-> {}, records |-> {}, recovery |-> TRUE]]
                    /\ pc' = [pc EXCEPT ![p] = "load"]
                    /\ UNCHANGED months
           ELSE /\ months' = [months EXCEPT ![p] = @ \ {mon}]
                /\ pc' = [pc EXCEPT ![p] = "scan"]
                /\ UNCHANGED task
      /\ UNCHANGED <<clock, disk, job, work, seen, held>>

\* data_revision: what identifies a month's data in the record of a backtest.
\* The prices are the manifest's digest, not one of the file itself.
DataRevision(mon) ==
  [prices |-> manifest.digest[mon], evidence |-> EvidenceOf(mon)]

-----------------------------------------------------------------------------
(* What can go wrong.                                                       *)

\* A fetch exhausts its retries, returns one side only or invalid candles, or
\* asks for evidence about a day in progress: the exception ends the command.
FetchFails(p) ==
  /\ pc[p] = "fetch"
  /\ work[p] # {}
  /\ Quiesce(p)
  /\ UNCHANGED <<clock, disk>>

\* The process dies, or a rename fails: what is on disk stays as it is.
Die(p) ==
  /\ pc[p] # "idle"
  /\ Quiesce(p)
  /\ UNCHANGED <<clock, disk>>

Tick ==
  /\ clock < Horizon
  /\ clock' = clock + 1
  /\ UNCHANGED <<disk, memory>>

Write(p) ==
  \/ LoadPartition(p)
  \/ RenameParquet(p)
  \/ LoadManifest(p)
  \/ RenameManifest(p)
  \/ RereadCache(p)
  \/ LoadEvidence(p)
  \/ RenameEvidence(p)

Work(p) ==
  \/ ScanMonth(p)
  \/ NothingDue(p)
  \/ FetchDownload(p)
  \/ FetchRepair(p)
  \/ FetchConfirmed(p)
  \/ Write(p)
  \/ Recover(p)
  \/ FetchFails(p)

Command(p) ==
  \/ \E w \in Windows, force \in BOOLEAN : StartDownload(p, w, force)
  \/ \E w \in Windows, confirm, recheck \in BOOLEAN :
       StartRepair(p, w, confirm, recheck)

Next ==
  \/ Tick
  \/ \E p \in Procs : Command(p) \/ Work(p) \/ Die(p)

Spec == Init /\ [][Next]_vars

-----------------------------------------------------------------------------
(* Properties.                                                              *)

\* Types of the files and of what the processes hold.
TypeOK ==
  /\ clock \in Nat
  /\ candles \in Frames
  /\ manifest \in Manifests
  /\ confirmed \subseteq Minutes
  /\ pc \in [Procs -> Steps]
  /\ job \in [Procs -> Jobs]
  /\ months \in [Procs -> SUBSET Months]
  /\ work \in [Procs -> SUBSET Minutes]
  /\ task \in [Procs -> Tasks]
  /\ seen \in [Procs -> Frames]
  /\ held \in [Procs -> Manifests]

\* No candle of a minute still in progress is ever on disk: the clip at the
\* time the command started is never later than the clock (fetch_day).
OnlyClosedMinutes == \A m \in Minutes : candles[m] # NoBar => m < clock

\* Why: what a process is about to write is closed too.  (Inductive.)
ClosedInMemory ==
  /\ OnlyClosedMinutes
  /\ \A p \in Procs :
       /\ job[p].now <= clock
       /\ \A m \in Minutes : task[p].frame[m] # NoBar => m < clock
       /\ \A m \in Minutes : seen[p][m] # NoBar => m < clock

\* A day the manifest calls complete can be skipped by every later download:
\* it is over, and everything the provider reliably serves for it is on disk.
\* (The manifest is renamed after the Parquet file, never before it.)
CompleteDaysNeedNoDownload ==
  \A d \in manifest.completed :
    /\ DayEnded(d, clock)
    /\ Archive \cap MinutesOf(d) \subseteq Stored(candles)

\* write_day never changes nor drops an observation on disk, whatever the
\* provider returns later, forced or not (cache.py:153).
ObservationsPermanent ==
  [][\A m \in Minutes : candles[m] # NoBar => candles'[m] = candles[m]]_vars

\* Why, with one writer: the copy write_day extends is still what is on disk.
SeenIsCurrent ==
  \A p \in Procs :
    pc[p] = "parquet" => seen[p] = Partition(MonthOf[task[p].day], candles)

\* A repair adds only minutes that were missing in the requested window; the
\* rest of the day it downloaded is not stored.
RepairStaysInWindow ==
  [][\A p \in Procs : pc[p] = "parquet" /\ job[p].kind = "repair" =>
       \A m \in Minutes : candles'[m] # candles[m] =>
         m \in job[p].window \cap OpenMinutes]_vars

\* A minute is confirmed absent only while the cache has no candle for it, and
\* never one the provider has: neither a reply with one side of the minute only
\* nor a single reply without it is evidence.
EvidenceIsAbsence ==
  [][\A m \in confirmed' \ confirmed :
       candles[m] = NoBar /\ m \in OpenMinutes \ Listed
       /\ DayEnded(DayOf[m], clock)]_vars

\* When a repair is done with a month, the digest in the manifest is that of
\* the month's file, whatever an earlier crash left behind.
RepairRenewsDigest ==
  [][\A p \in Procs : \A mon \in months[p] \ months'[p] :
       pc'[p] = "scan" =>
         manifest'.digest[mon] = Partition(mon, candles)']_vars

\* A write of the month is between its two renames.
BetweenRenames(p, mon) == pc[p] \in {"index", "commit"} /\ MonthOf[task[p].day] = mon

RevisionStale(mon) ==
  /\ DataRevision(mon).prices # Partition(mon, candles)
  /\ \A p \in Procs : ~BetweenRenames(p, mon)

\* data_revision hashes the exact partitions (docstring, dukascopy.py:562): when
\* no write of the month is under way, the price part of the revision is the
\* digest of the candles a backtest would read.
RevisionIsExact == \A mon \in Months : ~RevisionStale(mon)

\* What does hold: whatever commands fill the cache and however they fail, only
\* a death between the two renames lets a month's revision fall behind its file.
RevisionLagsOnlyAfterDeath ==
  [][\A mon \in Months :
       ~RevisionStale(mon) /\ RevisionStale(mon)' =>
         \E p \in Procs : BetweenRenames(p, mon) /\ pc'[p] = "idle"]_vars

\* The cache is the ledger of observations.
Ledger == INSTANCE ObservationLedger WITH
            now <- clock, stored <- candles, absent <- confirmed
ImplementsLedger == Ledger!Spec
=============================================================================
