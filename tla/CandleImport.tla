---------------------------- MODULE CandleImport ----------------------------
(***************************************************************************)
(* The candle cache with its third writer and its reader: the import of    *)
(* CSV exports (app/data/csv_import.py, scripts/import_dukascopy_csv.py)   *)
(* and a research backtest (app/research/engine.py).                       *)
(*                                                                         *)
(* An export holds one side, BID or ASK.  The importer keeps what it has   *)
(* read of each side in files of their own, one per month, and writes the  *)
(* minutes that both sides have to the cache with write_day, the steps     *)
(* load, parquet, index and commit of CandleStore.  A backtest reads the   *)
(* months one after the other when it starts, and asks for the revision of *)
(* its data when it ends.                                                  *)
(***************************************************************************)
EXTENDS CandleStore, FiniteSets

CONSTANTS
  Quotes,   \* contents of a candle of one side
  Joint,    \* the candle made of a BID and an ASK quote
  Plans,    \* bound: the minutes exports may hold, and whether backtests run
  GapLimit  \* validation.permissive_gap_limit_minutes

ASSUME ImportAssumptions ==
  /\ Joint \in [Quotes \X Quotes -> Values]
  /\ NoBar \notin Quotes 
  /\ Plans \subseteq [exported : SUBSET Minutes, backtests : BOOLEAN]
  /\ GapLimit \in Nat

VARIABLES
  plan,     \* what a behaviour is bounded to
  sides,    \* .import_sides/: side -> minute -> quote or NoBar
  csv,      \* the import each process is at, or NoCsv
  reader    \* the backtest in progress, or NoRun

importVars == <<plan, sides, csv, reader>>
allVars == <<vars, importVars>>

Sides == {"BID", "ASK"}
SideFrames == [Minutes -> Quotes \cup {NoBar}]
NoCsv == [step |-> "none", side |-> "BID", file |-> EmptyFrame, joined |-> EmptyFrame]
NoRun == [step |-> "none", todo |-> {}, data |-> EmptyFrame, strict |-> FALSE]

ImportInit ==
  /\ Init
  /\ plan \in Plans
  /\ sides = [s \in Sides |-> EmptyFrame]
  /\ csv = [p \in Procs |-> NoCsv]
  /\ reader = NoRun

MonthsOf(f) == {Month(m) : m \in Stored(f)}

-----------------------------------------------------------------------------
(* The import of a file.                                                    *)

\* What read_dukascopy_csv may return: quotes in minutes up to the one in
\* progress, one per minute, the last of a minute that is there twice.  A file
\* without a row has no months, and one it refuses changes nothing.
Exports ==
  {f \in SideFrames : Stored(f) # {} /\ \A m \in Stored(f) : m \in plan.exported /\ m <= clock}

\* import_file, up to the staging.
StartImport(p, side, file) ==
  /\ pc[p] = "idle"
  /\ csv' = [csv EXCEPT ![p] = [NoCsv EXCEPT !.step = "stage", !.side = side, !.file = file]]
  /\ months' = [months EXCEPT ![p] = MonthsOf(file)]
  /\ pc' = [pc EXCEPT ![p] = "scan"]
  /\ UNCHANGED <<clock, disk, job, work, task, seen, held, plan, sides, reader>>

\* write_import_side, one month: the quotes of the file replace those of the
\* side.  After the last month the wall clock is read, and the months are
\* visited again.
StageMonth(p) ==
  LET mon == FirstMonth(p)
      last == months[p] = {mon}
  IN  /\ csv[p].step = "stage"
      /\ sides' = [sides EXCEPT ![csv[p].side] = Overlay(@, Partition(mon, csv[p].file))]
      /\ months' = [months EXCEPT ![p] = IF last THEN MonthsOf(csv[p].file) ELSE @ \ {mon}]
      /\ csv' = [csv EXCEPT ![p].step = IF last THEN "join" ELSE @]
      /\ job' = [job EXCEPT ![p].now = IF last THEN clock ELSE @]
      /\ UNCHANGED <<clock, disk, pc, work, task, seen, held, plan, reader>>

\* combine_bid_ask: the minutes that both sides have.
Pair(bid, ask) ==
  [m \in Minutes |-> IF m \in Stored(bid) \cap Stored(ask) THEN Joint[bid[m], ask[m]] ELSE NoBar]

\* Mutant: only the minutes of the file that is being imported are joined.
JoinedMonth_file_only(p, mon) ==
  Partition(mon, Only(Pair(sides["BID"], sides["ASK"]), Stored(csv[p].file)))

JoinedMonth(p, mon) == Partition(mon, Pair(sides["BID"], sides["ASK"]))

\* A month is joined; one without any candle of the other side has no work.
JoinMonth(p) ==
  /\ csv[p].step = "join" /\ months[p] # {}
  /\ LET frame == JoinedMonth(p, FirstMonth(p))
     IN  /\ csv' = [csv EXCEPT ![p].step = "days", ![p].joined = frame]
         /\ work' = [work EXCEPT ![p] = Stored(frame)]
  /\ pc' = [pc EXCEPT ![p] = "fetch"]
  /\ UNCHANGED <<clock, disk, job, months, task, seen, held, plan, sides, reader>>

\* Mutant: every day of an import counts as complete.
ImportComplete_always(d, t) == TRUE

\* A day of an import is complete when it was over, whatever the files hold of it.
ImportComplete(d, t) == DayEnded(d, t)

\* The days of the month in order, each written by write_day.
ImportDay(p) ==
  /\ csv[p].step = "days" /\ pc[p] = "fetch" /\ work[p] # {}
  /\ LET d == CHOOSE e \in PendingDays(p) : \A o \in PendingDays(p) : e <= o
     IN  Begin(p, d, Only(csv[p].joined, MinutesOf(d)), ImportComplete(d, job[p].now), {})
  /\ UNCHANGED importVars

MonthImported(p) ==
  /\ csv[p].step = "days" /\ pc[p] = "fetch" /\ work[p] = {}
  /\ months' = [months EXCEPT ![p] = @ \ {FirstMonth(p)}]
  /\ csv' = [csv EXCEPT ![p].step = "join", ![p].joined = EmptyFrame]
  /\ pc' = [pc EXCEPT ![p] = "scan"]
  /\ UNCHANGED <<clock, disk, job, work, task, seen, held, plan, sides, reader>>

\* The end of the file, or the death of its process at any step.
StopImport(p) ==
  /\ csv[p].step # "none"
  /\ csv' = [csv EXCEPT ![p] = NoCsv]
  /\ Quiesce(p)
  /\ UNCHANGED <<clock, disk, plan, sides, reader>>

Import(p) ==
  \/ \E side \in Sides, file \in Exports : StartImport(p, side, file)
  \/ StageMonth(p) \/ JoinMonth(p) \/ ImportDay(p) \/ MonthImported(p)
  \/ csv[p].step # "none" /\ Write(p) /\ UNCHANGED importVars
  \/ StopImport(p)

-----------------------------------------------------------------------------
(* A backtest over all months, in the server or in another process.         *)

StartRun ==
  /\ plan.backtests /\ reader = NoRun
  /\ reader' = [NoRun EXCEPT !.step = "read", !.todo = Months]
  /\ UNCHANGED <<vars, plan, sides, csv>>

\* validate_market_data: minutes of open market of the period without a candle.
MissingIn(data) == OpenMinutes \ Stored(data)

Policies == {"strict", "permissive", "trace"}

\* Mutant: the strict policy allows what the permissive one does.
Refuses_lenient(policy, data) ==
  policy # "trace" /\ Cardinality(MissingIn(data)) > GapLimit

\* apply_policy, and the run's own limit in the permissive mode.
Refuses(policy, data) ==
  \/ policy = "strict" /\ MissingIn(data) # {}
  \/ policy = "permissive" /\ Cardinality(MissingIn(data)) > GapLimit

\* PartitionedParquetStore.read: the file of the next month.  After the last one
\* the policy of the run, of which nothing depended so far, accepts or refuses it.
ReadMonth ==
  /\ reader.step = "read"
  /\ LET mon == CHOOSE n \in reader.todo : \A o \in reader.todo : n <= o
         data == Overlay(reader.data, Partition(mon, candles))
     IN  IF reader.todo # {mon}
           THEN reader' = [reader EXCEPT !.todo = @ \ {mon}, !.data = data]
           ELSE \E policy \in Policies :
                  reader' = IF Refuses(policy, data) THEN NoRun
                            ELSE [step |-> "run", todo |-> {}, data |-> data,
                                  strict |-> policy = "strict"]
  /\ UNCHANGED <<vars, plan, sides, csv>>

\* The backtest is done and records DataRevision of the months as they are now.
EndRun ==
  /\ reader.step = "run"
  /\ reader' = NoRun
  /\ UNCHANGED <<vars, plan, sides, csv>>

-----------------------------------------------------------------------------
Other(p) ==
  /\ csv[p].step = "none"
  /\ Command(p) \/ Work(p) \/ Die(p)
  /\ UNCHANGED importVars

ImportNext ==
  \/ Tick /\ UNCHANGED importVars
  \/ \E p \in Procs : Other(p) \/ Import(p)
  \/ StartRun \/ ReadMonth \/ EndRun

ImportSpec == ImportInit /\ [][ImportNext]_allVars

-----------------------------------------------------------------------------
(* Properties.                                                              *)

\* Minutes that both sides' files have.
Paired == Stored(Pair(sides["BID"], sides["ASK"]))

\* An import is the only way for the manifest to call a day complete that lacks
\* candles the provider serves, and for an unfinished candle to enter the cache:
\* both need a minute with two imported sides (csv_import.py:139).
OnlyImportsLoosen ==
  /\ \A m \in Stored(candles) : m >= clock => m \in Paired
  /\ \A d \in manifest.completed :
       /\ DayEnded(d, clock)
       /\ Archive \cap MinutesOf(d) \subseteq Stored(candles) \/ Paired \cap MinutesOf(d) # {}

\* When an import is done with a month, every minute that was ever imported on
\* both sides has a candle: whichever side came first, in however many files,
\* and wherever earlier imports died.
ImportsAreWhole ==
  [][\A p \in Procs : \A mon \in months[p] \ months'[p] :
       csv[p].step = "days" /\ pc'[p] = "scan" =>
         Stored(Partition(mon, Pair(sides["BID"], sides["ASK"]))) \subseteq Stored(candles')]_allVars

\* A result's revision (read at the end, engine.py:826) names every candle the
\* backtest has read at its start, as it was then: what downloads, repairs and
\* imports did meanwhile only adds to it, unless a write is under way or a death
\* has left the digest behind.
RevisionCoversTheData ==
  [][reader.step = "run" /\ reader' = NoRun =>
       \A m \in Stored(reader.data) :
         \/ RevisionStale(Month(m))
         \/ \E p \in Procs : BetweenRenames(p, Month(m))
         \/ DataRevision(Month(m)).prices[m] = reader.data[m]]_allVars

\* A strict backtest can be repeated: if it was accepted once, it is accepted
\* whenever it reads the cache again.
StrictIsRepeatable == reader.strict => MissingIn(candles) = {}
=============================================================================
