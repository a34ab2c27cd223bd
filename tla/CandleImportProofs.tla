------------------------- MODULE CandleImportProofs -------------------------
(***************************************************************************)
(* Theorems about CandleImport.  Every step of a download, a repair, a     *)
(* write and a death is a step of CandleStore, whose lemmas apply with     *)
(* S = Paired, the minutes that both sides' files have: what an import may *)
(* add although it is not closed, and what may excuse a complete day.      *)
(* Left are the five steps of an import of its own and the reader's.       *)
(***************************************************************************)
EXTENDS CandleImport, CandleStoreProofs

ImportTypeOK ==
  /\ TypeOK
  /\ sides \in [Sides -> SideFrames]
  /\ csv \in [Procs -> [step : {"none", "stage", "join", "days"}, side : Sides,
                        file : SideFrames, joined : Frames]]
  /\ reader \in [step : {"none", "read", "run"}, todo : SUBSET Months,
                 data : Frames, strict : BOOLEAN]

\* Where a process is that imports: it is never idle, so that its end is a death
\* of CandleStore, and it looks like a download to the steps of a write.
ImportingAt(p) ==
  /\ pc[p] = "idle" => job[p] = NoJob
  /\ csv[p].step # "none" =>
       job[p].kind = "download" /\ ~job[p].confirm /\ ~task[p].recovery
  /\ csv[p].step \in {"stage", "join"} => pc[p] = "scan"
  /\ csv[p].step = "days" => /\ pc[p] \in {"fetch", "load", "parquet", "index", "commit"}
                             /\ work[p] \subseteq Stored(csv[p].joined)
                             /\ Stored(csv[p].joined) \subseteq Paired

Importing == \A p \in Procs : ImportingAt(p)

\* An import has the minutes of its month that both sides have, and each of
\* them is still to do, about to be written, or on disk.
WholeAt(p) ==
  csv[p].step = "days" =>
    /\ Stored(csv[p].joined) = Stored(JoinedMonth(p, FirstMonth(p)))
    /\ \A m \in Stored(csv[p].joined) :
         \/ m \in work[p] \cup Stored(candles)
         \/ pc[p] \in {"load", "parquet"} /\ DayOf[m] = task[p].day /\ m \in Stored(task[p].frame)

Whole == \A p \in Procs : WholeAt(p)

\* What a backtest has read is on disk, as it was read.
Reading ==
  /\ \A m \in Stored(reader.data) : candles[m] = reader.data[m]
  /\ reader.strict => MissingIn(reader.data) = {}

-----------------------------------------------------------------------------
(* The two sides.                                                           *)

LEMMA PairOps ==
  ASSUME NEW bid \in SideFrames, NEW ask \in SideFrames
  PROVE  /\ Pair(bid, ask) \in Frames
         /\ Stored(Pair(bid, ask)) = Stored(bid) \cap Stored(ask)
<1>1. ASSUME NEW m \in Stored(bid) \cap Stored(ask)
      PROVE  m \in Minutes /\ Joint[bid[m], ask[m]] \in Values
  <2>1. m \in Minutes /\ bid[m] \in Quotes /\ ask[m] \in Quotes
    BY DEF Stored, SideFrames
  <2>2. <<bid[m], ask[m]>> \in Quotes \X Quotes
    BY <2>1
  <2>. QED
    BY <2>1, <2>2, ImportAssumptions
<1>2. Pair(bid, ask) \in Frames
  BY <1>1 DEF Pair, Frames, Bars
<1>3. ASSUME NEW m \in Minutes
      PROVE  Pair(bid, ask)[m] # NoBar <=> m \in Stored(bid) \cap Stored(ask)
  BY <1>1, StoreAssumptions DEF Pair
<1>4. Stored(Pair(bid, ask)) = {m \in Minutes : m \in Stored(bid) \cap Stored(ask)}
  BY <1>3 DEF Stored
<1>5. Stored(bid) \cap Stored(ask) \subseteq Minutes
  BY DEF Stored
<1>. QED
  BY <1>2, <1>4, <1>5

LEMMA SideOps ==
  ASSUME NEW f \in SideFrames, NEW g \in SideFrames, NEW mon
  PROVE  /\ EmptyFrame \in SideFrames
         /\ Overlay(f, g) \in SideFrames /\ Partition(mon, f) \in SideFrames
  BY DEF SideFrames, EmptyFrame, Overlay, Partition

LEMMA PairedIs ==
  ASSUME ImportTypeOK
  PROVE  Paired = Stored(sides["BID"]) \cap Stored(sides["ASK"])
  BY PairOps DEF Paired, ImportTypeOK, Sides

\* What an export stages only adds to the minutes that both sides have.
LEMMA Staged ==
  ASSUME ImportTypeOK, NEW p \in Procs, StageMonth(p)
  PROVE  sides' \in [Sides -> SideFrames] /\ Paired \subseteq Paired'
<1>. DEFINE side == csv[p].side
            new == Overlay(sides[side], Partition(FirstMonth(p), csv[p].file))
<1>1. side \in Sides /\ csv[p].file \in SideFrames /\ sides[side] \in SideFrames
  BY DEF ImportTypeOK
<1>2. new \in SideFrames /\ Stored(sides[side]) \subseteq Stored(new)
  <2>1. Partition(FirstMonth(p), csv[p].file) \in SideFrames
    BY <1>1, SideOps
  <2>2. new \in SideFrames
    BY <1>1, <2>1, SideOps
  <2>3. Stored(new) = Stored(sides[side]) \cup Stored(Partition(FirstMonth(p), csv[p].file))
    BY StoredOps
  <2>. QED
    BY <2>2, <2>3
<1>3. sides' = [sides EXCEPT ![side] = new]
  BY DEF StageMonth
<1>. HIDE DEF new, side
<1>4. sides' \in [Sides -> SideFrames]
  BY <1>1, <1>2, <1>3 DEF ImportTypeOK
<1>5. \A s \in Sides : Stored(sides[s]) \subseteq Stored(sides'[s])
  BY <1>1, <1>2, <1>3 DEF ImportTypeOK
<1>6. Paired' = Stored(sides'["BID"]) \cap Stored(sides'["ASK"])
  BY <1>4, PairOps DEF Paired, Sides
<1>. QED
  BY <1>4, <1>5, <1>6, PairedIs DEF Sides

-----------------------------------------------------------------------------
(* The steps of an import, and all others.                                  *)

\* The steps that are not steps of CandleStore.
Fresh(p) ==
  \/ \E side \in Sides, file \in Exports : StartImport(p, side, file)
  \/ StageMonth(p) \/ JoinMonth(p) \/ ImportDay(p) \/ MonthImported(p)

\* Such a step starts an import or belongs to one.
LEMMA FreshOf ==
  ASSUME NEW p \in Procs, Fresh(p)
  PROVE  pc[p] = "idle" \/ csv[p].step # "none"
<1>1. CASE \E side \in Sides, file \in Exports : StartImport(p, side, file)
  BY <1>1 DEF StartImport
<1>2. CASE StageMonth(p)
  BY <1>2 DEF StageMonth
<1>3. CASE JoinMonth(p) \/ ImportDay(p) \/ MonthImported(p)
  BY <1>3 DEF JoinMonth, ImportDay, MonthImported
<1>. QED
  BY <1>1, <1>2, <1>3 DEF Fresh

\* The end of an import is the death of a process of CandleStore.
LEMMA ImportShape ==
  ASSUME ImportTypeOK, Importing, [ImportNext]_allVars
  PROVE  ([Next]_vars /\ UNCHANGED sides) \/ \E p \in Procs : Fresh(p)
<1>1. CASE Tick /\ UNCHANGED importVars
  BY <1>1 DEF Next, importVars
<1>2. ASSUME NEW p \in Procs, Other(p) PROVE [Next]_vars /\ UNCHANGED sides
  BY <1>2 DEF Other, Next, importVars
<1>3. ASSUME NEW p \in Procs, Import(p)
      PROVE  ([Next]_vars /\ UNCHANGED sides) \/ Fresh(p)
  <2>1. CASE Fresh(p)
    BY <2>1
  <2>2. CASE Write(p) /\ UNCHANGED importVars
    BY <2>2 DEF Next, Work, importVars
  <2>3. CASE StopImport(p)
    <3>1. Die(p)
      BY <2>3 DEF StopImport, Die, Importing, ImportingAt, ImportTypeOK
    <3>. QED
      BY <2>3, <3>1 DEF Next, StopImport
  <2>. QED
    BY <1>3, <2>1, <2>2, <2>3 DEF Import, Fresh
<1>4. CASE StartRun \/ ReadMonth \/ EndRun
  BY <1>4 DEF StartRun, ReadMonth, EndRun
<1>5. CASE UNCHANGED allVars
  BY <1>5 DEF allVars, importVars
<1>. QED
  BY <1>1, <1>2, <1>3, <1>4, <1>5 DEF ImportNext

\* The day an import takes next.
LEMMA NextDay ==
  ASSUME TypeOK, NEW p \in Procs, work[p] # {}
  PROVE  \E d \in Days :
           /\ d = CHOOSE e \in PendingDays(p) : \A o \in PendingDays(p) : e <= o
           /\ \E m \in work[p] : DayOf[m] = d
<1>1. work[p] \subseteq Minutes
  BY DEF TypeOK
<1>2. PendingDays(p) \in SUBSET Days /\ PendingDays(p) # {}
  <2>1. PICK m \in work[p] : TRUE
    OBVIOUS
  <2>2. DayOf[m] \in PendingDays(p)
    BY <2>1 DEF PendingDays
  <2>3. \A d \in PendingDays(p) : d \in Days
    BY <1>1, StoreAssumptions DEF PendingDays
  <2>. QED
    BY <2>2, <2>3
<1>3. PendingDays(p) \in SUBSET Nat
  BY <1>2, StoreAssumptions
<1>4. \E d \in PendingDays(p) : \A o \in PendingDays(p) : d <= o
  BY <1>2, <1>3, LeastNatural
<1>5. PICK d : d = CHOOSE e \in PendingDays(p) : \A o \in PendingDays(p) : e <= o
  OBVIOUS
<1>6. d \in PendingDays(p)
  BY <1>4, <1>5
<1>. QED
  BY <1>2, <1>5, <1>6 DEF PendingDays

\* The write that an import begins with, when the time it has read is not later
\* than now.
LEMMA DayImported ==
  ASSUME ImportTypeOK, Importing, Punctual, NEW p \in Procs, ImportDay(p)
  PROVE  \E d \in Days, frame \in Frames, complete \in BOOLEAN :
           /\ Begin(p, d, frame, complete, {})
           /\ frame = Only(csv[p].joined, MinutesOf(d))
           /\ Stored(frame) = Stored(csv[p].joined) \cap MinutesOf(d)
           /\ Stored(frame) \subseteq Paired
           /\ complete => Served(d, frame, Paired)
<1>1. PICK d \in Days :
        /\ d = CHOOSE e \in PendingDays(p) : \A o \in PendingDays(p) : e <= o
        /\ \E m \in work[p] : DayOf[m] = d
  BY NextDay DEF ImportDay, ImportTypeOK
<1>2. PICK frame : frame = Only(csv[p].joined, MinutesOf(d))
  OBVIOUS
<1>3. csv[p].joined \in Frames /\ csv[p].step = "days"
  BY DEF ImportTypeOK, ImportDay
<1>4. frame \in Frames
  BY <1>2, <1>3, FrameOps
<1>5. Stored(frame) = Stored(csv[p].joined) \cap MinutesOf(d)
  BY <1>2, StoredOps
<1>6. /\ Stored(csv[p].joined) \subseteq Paired
      /\ work[p] \subseteq Paired /\ work[p] \subseteq Minutes
  BY <1>3 DEF Importing, ImportingAt, ImportTypeOK, TypeOK
<1>7. Paired \cap MinutesOf(d) # {}
  BY <1>1, <1>6 DEF MinutesOf
<1>8. DayEnded(d, job[p].now) => DayEnded(d, clock)
  BY EndedStays DEF ImportTypeOK, TypeOK, Jobs, Punctual
<1>9. ImportComplete(d, job[p].now) \in BOOLEAN
  BY DEF ImportComplete, DayEnded
<1>10. ImportComplete(d, job[p].now) => Served(d, frame, Paired)
  BY <1>7, <1>8 DEF ImportComplete, Served
<1>11. Begin(p, d, frame, ImportComplete(d, job[p].now), {})
  BY <1>1, <1>2 DEF ImportDay
<1>. QED
  BY <1>2, <1>4, <1>5, <1>6, <1>9, <1>10, <1>11

-----------------------------------------------------------------------------
(* Types, and where an import is.                                           *)

LEMMA MonthsOfType ==
  ASSUME NEW f
  PROVE  MonthsOf(f) \in SUBSET Months
<1>1. ASSUME NEW m \in Stored(f) PROVE Month(m) \in Months
  BY StoreAssumptions DEF Month, Stored
<1>. QED
  BY <1>1 DEF MonthsOf

LEMMA JoinedMonthType ==
  ASSUME ImportTypeOK, NEW p, NEW mon
  PROVE  /\ JoinedMonth(p, mon) \in Frames
         /\ Stored(JoinedMonth(p, mon)) = {m \in Paired : Month(m) = mon}
<1>1. Pair(sides["BID"], sides["ASK"]) \in Frames
  BY PairOps DEF ImportTypeOK, Sides
<1>2. JoinedMonth(p, mon) \in Frames
  BY <1>1, FrameOps DEF JoinedMonth
<1>3. PICK f : f = Pair(sides["BID"], sides["ASK"])
  OBVIOUS
<1>4. JoinedMonth(p, mon) = Partition(mon, f) /\ Paired = Stored(f)
  BY <1>3 DEF JoinedMonth, Paired
<1>. QED
  BY <1>2, <1>4, StoredOps

\* What a step of an import changes, and what it leaves alone.
LEMMA FreshChanges ==
  ASSUME ImportTypeOK, Importing, NEW p \in Procs, Fresh(p)
  PROVE  /\ clock' = clock /\ candles' = candles /\ manifest' = manifest /\ confirmed' = confirmed
         /\ seen' = seen /\ held' = held
         /\ pc[p] \in {"idle", "scan", "fetch"} /\ pc'[p] \in {"scan", "fetch", "load"}
         /\ Paired \subseteq Paired'
         /\ \A q \in Procs : q # p =>
              /\ pc'[q] = pc[q] /\ job'[q] = job[q] /\ months'[q] = months[q]
              /\ work'[q] = work[q] /\ task'[q] = task[q] /\ csv'[q] = csv[q]
<1>1. ASSUME NEW side \in Sides, NEW file \in Exports, StartImport(p, side, file)
      PROVE  /\ UNCHANGED <<clock, candles, manifest, confirmed, seen, held, sides, job, work, task>>
             /\ pc[p] = "idle" /\ pc'[p] = "scan"
             /\ \A q \in Procs : q # p => pc'[q] = pc[q] /\ months'[q] = months[q] /\ csv'[q] = csv[q]
  BY <1>1 DEF StartImport, disk, ImportTypeOK, TypeOK
<1>2. CASE StageMonth(p)
  <2>1. /\ UNCHANGED <<clock, candles, manifest, confirmed, seen, held, pc, work, task>>
        /\ pc[p] = "scan" /\ pc'[p] = "scan"
        /\ \A q \in Procs : q # p => job'[q] = job[q] /\ months'[q] = months[q] /\ csv'[q] = csv[q]
    BY <1>2 DEF StageMonth, disk, ImportTypeOK, TypeOK, Importing, ImportingAt
  <2>. QED
    BY <1>2, <2>1, Staged
<1>3. CASE JoinMonth(p)
  <2>1. /\ UNCHANGED <<clock, candles, manifest, confirmed, seen, held, sides, job, months, task>>
        /\ pc[p] = "scan" /\ pc'[p] = "fetch"
        /\ \A q \in Procs : q # p => pc'[q] = pc[q] /\ work'[q] = work[q] /\ csv'[q] = csv[q]
    BY <1>3 DEF JoinMonth, disk, ImportTypeOK, TypeOK, Importing, ImportingAt
  <2>. QED
    BY <2>1 DEF Paired
<1>4. CASE ImportDay(p)
  <2>1. /\ UNCHANGED <<clock, candles, manifest, confirmed, seen, held, sides, job, months, csv>>
        /\ pc[p] = "fetch" /\ pc'[p] = "load"
        /\ \A q \in Procs : q # p => pc'[q] = pc[q] /\ work'[q] = work[q] /\ task'[q] = task[q]
    BY <1>4 DEF ImportDay, Begin, disk, importVars, ImportTypeOK, TypeOK
  <2>. QED
    BY <2>1 DEF Paired
<1>5. CASE MonthImported(p)
  <2>1. /\ UNCHANGED <<clock, candles, manifest, confirmed, seen, held, sides, job, work, task>>
        /\ pc[p] = "fetch" /\ pc'[p] = "scan"
        /\ \A q \in Procs : q # p => pc'[q] = pc[q] /\ months'[q] = months[q] /\ csv'[q] = csv[q]
    BY <1>5 DEF MonthImported, disk, ImportTypeOK, TypeOK
  <2>. QED
    BY <2>1 DEF Paired
<1>6. CASE \E side \in Sides, file \in Exports : StartImport(p, side, file)
  BY <1>1, <1>6 DEF Paired
<1>. QED
  BY <1>2, <1>3, <1>4, <1>5, <1>6 DEF Fresh

\* A backtest that has read nothing.
LEMMA RunTypes ==
  ASSUME NEW r, r = NoRun \/ r = [NoRun EXCEPT !.step = "read", !.todo = Months]
  PROVE  /\ r \in [step : {"none", "read", "run"}, todo : SUBSET Months, data : Frames,
                   strict : BOOLEAN]
         /\ r.data = EmptyFrame /\ ~r.strict
<1>1. EmptyFrame \in Frames
  BY DEF EmptyFrame, Frames, Bars
<1>2. CASE r = NoRun
  BY <1>1, <1>2 DEF NoRun
<1>3. CASE r = [NoRun EXCEPT !.step = "read", !.todo = Months]
  <2>1. r = [step |-> "read", todo |-> Months, data |-> EmptyFrame, strict |-> FALSE]
    BY <1>3 DEF NoRun
  <2>. QED
    BY <1>1, <2>1
<1>. QED
  BY <1>2, <1>3

\* Every other step keeps the types of the imports, and the reader's.
LEMMA StayTypes ==
  ASSUME ImportTypeOK, [ImportNext]_allVars, [Next]_vars, UNCHANGED sides,
         \A p \in Procs : ~Fresh(p)
  PROVE  ImportTypeOK'
<1>0. EmptyFrame \in Frames /\ EmptyFrame \in SideFrames
  BY DEF EmptyFrame, Frames, Bars, SideFrames
<1>1. TypeOK'
  BY TypeStep DEF ImportTypeOK
<1>2. csv' \in [Procs -> [step : {"none", "stage", "join", "days"}, side : Sides,
                          file : SideFrames, joined : Frames]]
  <2>1. csv' = csv \/ \E p \in Procs : csv' = [csv EXCEPT ![p] = NoCsv]
    BY DEF ImportNext, Import, Other, StopImport, StartRun, ReadMonth, EndRun, Fresh, allVars,
           importVars
  <2>2. NoCsv \in [step : {"none", "stage", "join", "days"}, side : Sides,
                   file : SideFrames, joined : Frames]
    BY <1>0 DEF NoCsv, Sides
  <2>. QED
    BY <2>1, <2>2 DEF ImportTypeOK
<1>3. reader' \in [step : {"none", "read", "run"}, todo : SUBSET Months, data : Frames,
                   strict : BOOLEAN]
  <2>1. CASE reader' = reader
    BY <2>1 DEF ImportTypeOK
  <2>2. CASE StartRun \/ EndRun
    <3>1. reader' = NoRun \/ reader' = [NoRun EXCEPT !.step = "read", !.todo = Months]
      BY <2>2 DEF StartRun, EndRun
    <3>. QED
      BY <3>1, RunTypes
  <2>3. CASE ReadMonth
    <3>1. PICK mon : mon = CHOOSE n \in reader.todo : \A o \in reader.todo : n <= o
      OBVIOUS
    <3>2. PICK data \in Frames : data = Overlay(reader.data, Partition(mon, candles))
      BY FrameOps DEF ImportTypeOK, TypeOK
    <3>3. \/ reader' = [reader EXCEPT !.todo = @ \ {mon}, !.data = data]
          \/ reader' = NoRun
          \/ \E policy \in Policies :
               reader' = [step |-> "run", todo |-> {}, data |-> data,
                          strict |-> policy = "strict"]
      BY <2>3, <3>1, <3>2 DEF ReadMonth
    <3>4. CASE reader' = [reader EXCEPT !.todo = @ \ {mon}, !.data = data]
      <4>1. reader.todo \ {mon} \in SUBSET Months
        BY DEF ImportTypeOK
      <4>. QED
        BY <3>4, <4>1 DEF ImportTypeOK
    <3>5. ASSUME NEW policy \in Policies,
                 reader' = [step |-> "run", todo |-> {}, data |-> data,
                            strict |-> policy = "strict"]
          PROVE  reader' \in [step : {"none", "read", "run"}, todo : SUBSET Months,
                              data : Frames, strict : BOOLEAN]
      <4>1. (policy = "strict") \in BOOLEAN
        OBVIOUS
      <4>. QED
        BY <3>5, <4>1
    <3>. QED
      BY <3>3, <3>4, <3>5, RunTypes
  <2>4. reader' = reader \/ StartRun \/ ReadMonth \/ EndRun
    <3>1. ASSUME NEW p \in Procs, Import(p) PROVE reader' = reader
      BY <3>1 DEF Import, StartImport, StageMonth, JoinMonth, ImportDay, MonthImported,
           StopImport, importVars
    <3>. QED
      BY <3>1 DEF ImportNext, Other, allVars, importVars
  <2>. QED
    BY <2>1, <2>2, <2>3, <2>4
<1>. QED
  BY <1>1, <1>2, <1>3 DEF ImportTypeOK

LEMMA FreshTypes ==
  ASSUME ImportTypeOK, Importing, Punctual, NEW p \in Procs, Fresh(p)
  PROVE  ImportTypeOK'
<1>0. reader' = reader
  BY DEF Fresh, StartImport, StageMonth, JoinMonth, ImportDay, MonthImported, importVars
<1>1. ASSUME NEW side \in Sides, NEW file \in Exports, StartImport(p, side, file)
      PROVE  ImportTypeOK'
  <2>1. file \in SideFrames /\ EmptyFrame \in Frames /\ EmptyFrame \in SideFrames
    BY DEF Exports, EmptyFrame, Frames, Bars, SideFrames
  <2>2. csv'[p] \in [step : {"none", "stage", "join", "days"}, side : Sides,
                     file : SideFrames, joined : Frames]
    BY <1>1, <2>1 DEF StartImport, NoCsv, ImportTypeOK
  <2>3. csv' \in [Procs -> [step : {"none", "stage", "join", "days"}, side : Sides,
                            file : SideFrames, joined : Frames]]
    BY <1>1, <2>2 DEF StartImport, ImportTypeOK
  <2>4. months' \in [Procs -> SUBSET Months] /\ pc' \in [Procs -> Steps]
    BY <1>1, MonthsOfType DEF StartImport, ImportTypeOK, TypeOK, Steps
  <2>. QED
    BY <1>0, <1>1, <2>3, <2>4 DEF StartImport, ImportTypeOK, TypeOK, disk
<1>2. CASE StageMonth(p)
  <2>1. job' \in [Procs -> Jobs]
    <3>1. job[p] \in Jobs /\ clock \in Nat
      BY DEF ImportTypeOK, TypeOK
    <3>2. PICK now : now = IF months[p] = {FirstMonth(p)} THEN clock ELSE job[p].now
      OBVIOUS
    <3>3. job' = [job EXCEPT ![p].now = now]
      BY <1>2, <3>2 DEF StageMonth
    <3>4. [job[p] EXCEPT !.now = now] \in Jobs
      BY <3>1, <3>2 DEF Jobs
    <3>. QED
      BY <3>3, <3>4 DEF ImportTypeOK, TypeOK
  <2>2. months' \in [Procs -> SUBSET Months]
    <3>1. MonthsOf(csv[p].file) \in SUBSET Months /\ months[p] \in SUBSET Months
      BY MonthsOfType DEF ImportTypeOK, TypeOK
    <3>. DEFINE rest == IF months[p] = {FirstMonth(p)} THEN MonthsOf(csv[p].file)
                                                   ELSE months[p] \ {FirstMonth(p)}
    <3>2. months' = [months EXCEPT ![p] = rest] /\ rest \in SUBSET Months
      BY <1>2, <3>1 DEF StageMonth
    <3>. HIDE DEF rest
    <3>. QED
      BY <3>2 DEF ImportTypeOK, TypeOK
  <2>3. csv' \in [Procs -> [step : {"none", "stage", "join", "days"}, side : Sides,
                            file : SideFrames, joined : Frames]]
    BY <1>2 DEF StageMonth, ImportTypeOK
  <2>. QED
    BY <1>0, <1>2, <2>1, <2>2, <2>3, Staged DEF StageMonth, ImportTypeOK, TypeOK, disk
<1>3. CASE JoinMonth(p)
  <2>1. PICK frame \in Frames : frame = JoinedMonth(p, FirstMonth(p))
    BY JoinedMonthType
  <2>2. work' = [work EXCEPT ![p] = Stored(frame)]
    BY <1>3, <2>1 DEF JoinMonth
  <2>a. PICK new : new = [csv[p] EXCEPT !.step = "days", !.joined = frame]
    OBVIOUS
  <2>b. csv' = [csv EXCEPT ![p] = new]
    BY <1>3, <2>1, <2>a DEF JoinMonth
  <2>c. new \in [step : {"none", "stage", "join", "days"}, side : Sides,
                       file : SideFrames, joined : Frames]
    BY <2>a DEF ImportTypeOK
  <2>3. csv' \in [Procs -> [step : {"none", "stage", "join", "days"}, side : Sides,
                            file : SideFrames, joined : Frames]]
    BY <2>b, <2>c DEF ImportTypeOK
  <2>4. work' \in [Procs -> SUBSET Minutes]
    BY <2>2 DEF ImportTypeOK, TypeOK, Stored
  <2>5. pc' \in [Procs -> Steps]
    BY <1>3 DEF JoinMonth, ImportTypeOK, TypeOK, Steps
  <2>6. TypeOK'
    BY <1>3, <2>4, <2>5 DEF JoinMonth, ImportTypeOK, TypeOK, disk
  <2>. QED
    BY <1>3, <2>3, <2>6 DEF JoinMonth, ImportTypeOK
<1>4. CASE ImportDay(p)
  <2>1. PICK d \in Days, frame \in Frames, complete \in BOOLEAN : Begin(p, d, frame, complete, {})
    BY <1>4, DayImported
  <2>2. TypeOK'
    BY <2>1, BeginType DEF ImportTypeOK
  <2>. QED
    BY <1>0, <1>4, <2>2 DEF ImportDay, importVars, ImportTypeOK
<1>5. CASE MonthImported(p)
  <2>1. EmptyFrame \in Frames
    BY DEF EmptyFrame, Frames, Bars
  <2>a. PICK new : new = [csv[p] EXCEPT !.step = "join", !.joined = EmptyFrame]
    OBVIOUS
  <2>b. csv' = [csv EXCEPT ![p] = new]
    BY <1>5, <2>a DEF MonthImported
  <2>c. new \in [step : {"none", "stage", "join", "days"}, side : Sides,
                       file : SideFrames, joined : Frames]
    BY <2>1, <2>a DEF ImportTypeOK
  <2>2. csv' \in [Procs -> [step : {"none", "stage", "join", "days"}, side : Sides,
                            file : SideFrames, joined : Frames]]
    BY <2>b, <2>c DEF ImportTypeOK
  <2>3. pc' \in [Procs -> Steps]
    BY <1>5 DEF MonthImported, ImportTypeOK, TypeOK, Steps
  <2>4. months' \in [Procs -> SUBSET Months]
    BY <1>5 DEF MonthImported, ImportTypeOK, TypeOK
  <2>5. TypeOK'
    BY <1>5, <2>3, <2>4 DEF MonthImported, ImportTypeOK, TypeOK, disk
  <2>. QED
    BY <1>5, <2>2, <2>5 DEF MonthImported, ImportTypeOK
<1>. QED
  BY <1>1, <1>2, <1>3, <1>4, <1>5 DEF Fresh

\* A step of an import leaves the process where ImportingAt says.
LEMMA FreshImporting ==
  ASSUME ImportTypeOK, Importing, Punctual, Scoped, NEW p \in Procs, Fresh(p)
  PROVE  ImportingAt(p)'
<1>0. ImportingAt(p) /\ ScopedAt(p)
  BY DEF Importing, Scoped
<1>1. ASSUME NEW side \in Sides, NEW file \in Exports, StartImport(p, side, file)
      PROVE  ImportingAt(p)'
  <2>1. pc[p] = "idle" /\ job[p] = NoJob /\ task[p] = NoTask
    BY <1>0, <1>1 DEF StartImport, ImportingAt, ScopedAt
  <2>2. pc'[p] = "scan" /\ job'[p] = NoJob /\ task'[p] = NoTask /\ csv'[p].step = "stage"
    BY <1>1, <2>1 DEF StartImport, ImportTypeOK, TypeOK
  <2>3. NoJob.kind = "download" /\ ~NoJob.confirm /\ ~NoTask.recovery
    BY DEF NoJob, NoTask
  <2>. QED
    BY <2>2, <2>3 DEF ImportingAt
<1>2. CASE StageMonth(p)
  <2>1. /\ csv[p].step = "stage" /\ csv'[p].step \in {"stage", "join"}
        /\ job'[p].kind = job[p].kind /\ job'[p].confirm = job[p].confirm
        /\ UNCHANGED <<pc, task>>
    BY <1>2 DEF StageMonth, ImportTypeOK, TypeOK, Jobs
  <2>. QED
    BY <1>0, <2>1 DEF ImportingAt
<1>3. CASE JoinMonth(p)
  <2>1. PICK frame \in Frames : frame = JoinedMonth(p, FirstMonth(p))
    BY JoinedMonthType
  <2>2. /\ csv' = [csv EXCEPT ![p].step = "days", ![p].joined = frame]
        /\ work' = [work EXCEPT ![p] = Stored(frame)]
        /\ pc' = [pc EXCEPT ![p] = "fetch"] /\ UNCHANGED <<job, task, sides>>
        /\ csv[p].step = "join"
    BY <1>3, <2>1 DEF JoinMonth
  <2>3. /\ csv'[p].joined = frame /\ csv'[p].step = "days" /\ work'[p] = Stored(frame)
        /\ pc'[p] = "fetch"
    BY <2>2 DEF ImportTypeOK, TypeOK
  <2>4. Stored(frame) \subseteq Paired
    BY <2>1, JoinedMonthType
  <2>5. Paired' = Paired
    BY <2>2 DEF Paired
  <2>6. Stored(csv[p].joined)' = Stored(frame)
    BY <2>3
  <2>. QED
    BY <1>0, <2>2, <2>3, <2>4, <2>5, <2>6 DEF ImportingAt
<1>4. CASE ImportDay(p)
  <2>1. PICK d \in Days, frame \in Frames, complete \in BOOLEAN : Begin(p, d, frame, complete, {})
    BY <1>4, DayImported
  <2>2. /\ csv[p].step = "days" /\ UNCHANGED <<csv, job, sides>> /\ pc'[p] = "load"
        /\ work'[p] \subseteq work[p] /\ ~task'[p].recovery
    BY <1>4, <2>1 DEF ImportDay, Begin, importVars, ImportTypeOK, TypeOK
  <2>3. Paired' = Paired
    BY <2>2 DEF Paired
  <2>. QED
    BY <1>0, <2>2, <2>3 DEF ImportingAt
<1>5. CASE MonthImported(p)
  <2>1. /\ csv[p].step = "days" /\ csv'[p].step = "join" /\ pc'[p] = "scan"
        /\ UNCHANGED <<job, task>>
    BY <1>5 DEF MonthImported, ImportTypeOK, TypeOK
  <2>. QED
    BY <1>0, <2>1 DEF ImportingAt
<1>. QED
  BY <1>1, <1>2, <1>3, <1>4, <1>5 DEF Fresh

\* A command, or a step of one, that ends leaves an idle process without a job.
LEMMA IdleAfter ==
  ASSUME TypeOK, NEW p \in Procs, Command(p) \/ Work(p) \/ Die(p), pc'[p] = "idle"
  PROVE  job'[p] = NoJob
<1>1. Quiesce(p) => job'[p] = NoJob
  BY DEF Quiesce, TypeOK
<1>2. Command(p) => pc'[p] # "idle"
  BY DEF Command, StartDownload, StartRepair, TypeOK
<1>3. Work(p) => Quiesce(p)
  <2>1. Write(p) \/ Recover(p) => pc'[p] # "idle"
    BY DEF Write, LoadPartition, RenameParquet, LoadManifest, RenameManifest,
           RereadCache, LoadEvidence, RenameEvidence, Recover, TypeOK
  <2>2. FetchDownload(p) \/ FetchRepair(p) \/ FetchConfirmed(p) => pc'[p] # "idle"
    BY DEF FetchDownload, FetchRepair, FetchConfirmed, Begin, TypeOK
  <2>3. ScanMonth(p) \/ NothingDue(p) \/ FetchFails(p) => Quiesce(p)
    BY DEF ScanMonth, NothingDue, FetchFails, TypeOK
  <2>. QED
    BY <2>1, <2>2, <2>3 DEF Work
<1>. QED
  BY <1>1, <1>2, <1>3 DEF Die

LEMMA ImportingStep ==
  ASSUME ImportTypeOK, Importing, Punctual, Scoped, [ImportNext]_allVars
  PROVE  Importing'
<1>1. ASSUME NEW q \in Procs, pc'[q] = pc[q], job'[q] = job[q], work'[q] = work[q],
             task'[q] = task[q], csv'[q] = csv[q], Paired \subseteq Paired'
      PROVE  ImportingAt(q)'
  BY <1>1 DEF Importing, ImportingAt
<1>2. CASE UNCHANGED <<memory, sides, csv>>
  <2>1. Paired' = Paired
    BY <1>2 DEF Paired
  <2>. QED
    BY <1>1, <1>2, <2>1 DEF memory, Importing
<1>3. ASSUME NEW p \in Procs, Fresh(p) PROVE Importing'
  BY <1>1, <1>3, FreshChanges, FreshImporting DEF Importing
<1>4. ASSUME NEW p \in Procs, Command(p) \/ Work(p) \/ Die(p), UNCHANGED sides,
             \A q \in Procs : q # p => csv'[q] = csv[q], ImportingAt(p)'
      PROVE  Importing'
  <2>1. Paired' = Paired
    BY <1>4 DEF Paired
  <2>2. ASSUME NEW q \in Procs, q # p PROVE ImportingAt(q)'
    BY <1>1, <1>4, <2>1, <2>2, Apart DEF ImportTypeOK
  <2>. QED
    BY <1>4, <2>2 DEF Importing
<1>5. ASSUME NEW p \in Procs, Other(p) PROVE Importing'
  <2>1. csv[p].step = "none" /\ csv' = csv /\ sides' = sides
    BY <1>5 DEF Other, importVars
  <2>2. ImportingAt(p)'
    BY <1>5, <2>1, IdleAfter DEF ImportingAt, Other, ImportTypeOK
  <2>. QED
    BY <1>4, <1>5, <2>1, <2>2 DEF Other
<1>6. ASSUME NEW p \in Procs, csv[p].step # "none", Write(p), UNCHANGED importVars
      PROVE  Importing'
  <2>0. ImportingAt(p) /\ csv[p].step = "days" /\ sides' = sides /\ csv' = csv
    <3>1. csv[p].step \in {"stage", "join", "days"}
      BY <1>6 DEF ImportTypeOK
    <3>. QED
      BY <1>6, <3>1 DEF Importing, ImportingAt, Write, LoadPartition, RenameParquet,
            LoadManifest, RenameManifest, RereadCache, LoadEvidence, RenameEvidence, importVars
  <2>1. /\ pc'[p] \in {"fetch", "parquet", "index", "commit"} /\ UNCHANGED <<job, work>>
        /\ ~task'[p].recovery
    BY <1>6, <2>0, NullTask
       DEF ImportingAt, Write, LoadPartition, RenameParquet, LoadManifest, RenameManifest,
           RereadCache, LoadEvidence, RenameEvidence, ImportTypeOK, TypeOK
  <2>2. Paired' = Paired
    BY <2>0 DEF Paired
  <2>3. ImportingAt(p)'
    BY <2>0, <2>1, <2>2 DEF ImportingAt
  <2>. QED
    BY <1>4, <1>6, <2>0, <2>3 DEF Work
<1>7. ASSUME NEW p \in Procs, StopImport(p) PROVE Importing'
  <2>1. Die(p)
    BY <1>7 DEF StopImport, Die, Importing, ImportingAt, ImportTypeOK
  <2>2. /\ csv'[p].step = "none" /\ sides' = sides /\ job'[p] = NoJob
        /\ \A q \in Procs : q # p => csv'[q] = csv[q]
    BY <1>7 DEF StopImport, NoCsv, Quiesce, ImportTypeOK, TypeOK
  <2>. QED
    BY <1>4, <2>1, <2>2 DEF ImportingAt
<1>8. CASE Tick /\ UNCHANGED importVars
  BY <1>2, <1>8 DEF Tick, importVars
<1>9. CASE StartRun \/ ReadMonth \/ EndRun \/ UNCHANGED allVars
  BY <1>2, <1>9 DEF StartRun, ReadMonth, EndRun, allVars, vars, importVars
<1>. QED
  BY <1>3, <1>5, <1>6, <1>7, <1>8, <1>9 DEF ImportNext, Import, Fresh

-----------------------------------------------------------------------------
(* The invariants of CandleStore.                                           *)

LEMMA MoreExcused ==
  ASSUME NEW S, NEW T, S \subseteq T
  PROVE  /\ HeldClosed(S)' => HeldClosed(T)'
         /\ Renewing(S)' => Renewing(T)'
<1>1. HeldClosed(S)' => HeldClosed(T)'
  BY DEF HeldClosed, StoredClosed
<1>2. \A d : Done(d, S)' => Done(d, T)'
  BY DEF Done
<1>3. \A d, f : Served(d, f, S)' => Served(d, f, T)'
  BY DEF Served
<1>4. CompletedDone(S)' => CompletedDone(T)'
  BY <1>2 DEF CompletedDone
<1>5. \A p \in Procs : RenewingAt(p, S)' => RenewingAt(p, T)'
  <2>. SUFFICES ASSUME NEW p \in Procs, RenewingAt(p, S)' PROVE RenewingAt(p, T)'
    OBVIOUS
  <2>1. Done(task[p].day, S)' => Done(task[p].day, T)'
    BY DEF Done
  <2>2. Served(task[p].day, task[p].frame, S)' => Served(task[p].day, task[p].frame, T)'
    BY DEF Served
  <2>. QED
    BY <2>1, <2>2 DEF RenewingAt
<1>. QED
  BY <1>1, <1>4, <1>5 DEF Renewing

\* What a process holds to write changes only when an import begins with a day.
LEMMA FreshHolds ==
  ASSUME ImportTypeOK, Importing, NEW p \in Procs, Fresh(p), ~ImportDay(p)
  PROVE  /\ task' = task /\ pc'[p] \in {"scan", "fetch"}
         /\ job'[p].now \in {job[p].now, clock}
         /\ job'[p].kind = job[p].kind
<1>1. ASSUME NEW side \in Sides, NEW file \in Exports, StartImport(p, side, file)
      PROVE  task' = task /\ pc'[p] = "scan" /\ job' = job
  BY <1>1 DEF StartImport, ImportTypeOK, TypeOK
<1>2. CASE StageMonth(p)
  BY <1>2 DEF StageMonth, ImportTypeOK, TypeOK, Jobs, Importing, ImportingAt
<1>3. CASE JoinMonth(p) \/ MonthImported(p)
  BY <1>3 DEF JoinMonth, MonthImported, ImportTypeOK, TypeOK
<1>. QED
  BY <1>1, <1>2, <1>3 DEF Fresh

LEMMA ImportClosedStep ==
  ASSUME ImportTypeOK, Importing, HeldClosed(Paired), [ImportNext]_allVars
  PROVE  HeldClosed(Paired)'
<1>1. PICK S : S = Paired
  OBVIOUS
<1>2. PICK T : T = Paired'
  OBVIOUS
<1>3. HeldClosed(S) /\ Punctual
  BY <1>1 DEF HeldClosed, StoredClosed, Punctual
<1>4. HeldClosed(S)' /\ S \subseteq T
  <2>1. CASE [Next]_vars /\ UNCHANGED sides
    <3>1. Paired' = Paired
      BY <2>1 DEF Paired
    <3>. QED
      BY <1>1, <1>2, <1>3, <2>1, <3>1, ClosedStep DEF ImportTypeOK
  <2>2. ASSUME NEW p \in Procs, Fresh(p) PROVE HeldClosed(S)' /\ S \subseteq T
    <3>1. S \subseteq T
      BY <1>1, <1>2, <2>2, FreshChanges
    <3>2. CASE ImportDay(p)
      <4>1. PICK d \in Days, frame \in Frames, complete \in BOOLEAN :
              Begin(p, d, frame, complete, {}) /\ Stored(frame) \subseteq Paired
        BY <1>3, <3>2, DayImported
      <4>2. \A m \in Minutes : frame[m] # NoBar => m < clock \/ m \in S
        BY <1>1, <4>1 DEF Stored
      <4>. QED
        BY <1>3, <3>1, <4>1, <4>2, ClosedBegin DEF ImportTypeOK
    <3>3. CASE ~ImportDay(p)
      <4>1. /\ task' = task /\ candles' = candles /\ seen' = seen /\ clock' = clock
            /\ \A q \in Procs : q # p => job'[q] = job[q]
            /\ job'[p].now \in {job[p].now, clock} /\ clock \in Nat
        BY <2>2, <3>3, FreshChanges, FreshHolds DEF ImportTypeOK, TypeOK
      <4>2. \A q \in Procs : job'[q].now <= clock'
        BY <1>3, <4>1 DEF Punctual
      <4>. QED
        BY <1>3, <3>1, <4>1, <4>2 DEF HeldClosed, StoredClosed
    <3>. QED
      BY <3>2, <3>3
  <2>. QED
    BY <2>1, <2>2, ImportShape
<1>5. HeldClosed(T)'
  BY <1>4, MoreExcused
<1>. QED
  BY <1>2, <1>5 DEF HeldClosed, StoredClosed

LEMMA ImportScopedStep ==
  ASSUME ImportTypeOK, Importing, Punctual, Scoped, [ImportNext]_allVars
  PROVE  Scoped'
<1>1. CASE [Next]_vars
  BY <1>1, ScopedStep DEF ImportTypeOK
<1>2. ASSUME NEW p \in Procs, Fresh(p) PROVE Scoped'
  <2>0. /\ clock' = clock /\ pc'[p] # "idle" /\ ScopedAt(p)
        /\ \A q \in Procs : q # p =>
             /\ pc'[q] = pc[q] /\ job'[q] = job[q] /\ months'[q] = months[q]
             /\ work'[q] = work[q] /\ task'[q] = task[q]
    BY <1>2, FreshChanges DEF Scoped
  <2>1. job[p].kind = "download"
    BY <1>2, FreshOf, NullTask DEF Importing, ImportingAt
  <2>2. job'[p].kind = "download" /\ task'[p].absent \subseteq task[p].absent
    <3>1. CASE ImportDay(p)
      <4>1. PICK d \in Days, frame \in Frames, complete \in BOOLEAN :
              Begin(p, d, frame, complete, {})
        BY <3>1, DayImported
      <4>. QED
        BY <2>1, <4>1 DEF Begin, ImportTypeOK, TypeOK
    <3>2. CASE ~ImportDay(p)
      BY <1>2, <2>1, <3>2, FreshHolds
    <3>. QED
      BY <3>1, <3>2
  <2>3. ScopedAt(p)'
    BY <2>0, <2>2 DEF ScopedAt, Unserved
  <2>4. ASSUME NEW q \in Procs, q # p PROVE ScopedAt(q)'
    BY <2>0, <2>4 DEF Scoped, ScopedAt, Unserved
  <2>. QED
    BY <2>3, <2>4 DEF Scoped
<1>. QED
  BY <1>1, <1>2, ImportShape

-----------------------------------------------------------------------------
(* With one writer.                                                         *)

LEMMA ImportSeenStep ==
  ASSUME OneWriter, ImportTypeOK, Importing, SeenIsCurrent, [ImportNext]_allVars
  PROVE  SeenIsCurrent'
<1>1. CASE [Next]_vars
  BY <1>1, SeenStep DEF ImportTypeOK
<1>2. ASSUME NEW p \in Procs, Fresh(p) PROVE SeenIsCurrent'
  <2>1. pc'[p] # "parquet"
    BY <1>2, FreshChanges
  <2>. QED
    BY <2>1 DEF SeenIsCurrent, OneWriter
<1>. QED
  BY <1>1, <1>2, ImportShape

LEMMA ImportPermanentStep ==
  ASSUME ImportTypeOK, Importing, SeenIsCurrent, [ImportNext]_allVars,
         NEW m \in Minutes, candles[m] # NoBar
  PROVE  candles'[m] = candles[m]
  BY ImportShape, PermanentStep, FreshChanges DEF ImportTypeOK

LEMMA ImportRenewingStep ==
  ASSUME OneWriter, ImportTypeOK, Importing, Punctual, Scoped, SeenIsCurrent,
         Renewing(Paired), [ImportNext]_allVars
  PROVE  Renewing(Paired)'
<1>1. PICK S : S = Paired
  OBVIOUS
<1>2. PICK T : T = Paired'
  OBVIOUS
<1>3. Renewing(S)
  BY <1>1 DEF Renewing, CompletedDone, Done, RenewingAt, Served
<1>4. Renewing(S)' /\ S \subseteq T
  <2>1. CASE [Next]_vars /\ UNCHANGED sides
    <3>1. Paired' = Paired
      BY <2>1 DEF Paired
    <3>. QED
      BY <1>1, <1>2, <1>3, <2>1, <3>1, RenewingStep DEF ImportTypeOK
  <2>2. ASSUME NEW p \in Procs, Fresh(p) PROVE Renewing(S)' /\ S \subseteq T
    <3>1. S \subseteq T
      BY <1>1, <1>2, <2>2, FreshChanges
    <3>2. CASE ImportDay(p)
      <4>1. PICK d \in Days, frame \in Frames, complete \in BOOLEAN :
              Begin(p, d, frame, complete, {}) /\ (complete => Served(d, frame, Paired))
        BY <3>2, DayImported
      <4>2. complete => Served(d, frame, S)
        BY <1>1, <4>1 DEF Served
      <4>. QED
        BY <1>3, <3>1, <4>1, <4>2, RenewingBegin DEF ImportTypeOK
    <3>3. CASE ~ImportDay(p)
      <4>1. /\ task' = task /\ candles' = candles /\ manifest' = manifest /\ clock' = clock
            /\ pc'[p] \in {"scan", "fetch"}
        BY <2>2, <3>3, FreshChanges, FreshHolds
      <4>2. ~task[p].recovery
        BY <2>2, FreshOf, NullTask DEF Importing, ImportingAt, Scoped, ScopedAt
      <4>3. RenewingAt(p, S)'
        BY <4>1, <4>2 DEF RenewingAt
      <4>4. CompletedDone(S)' /\ DigestBehind'
        BY <1>3, <4>1 DEF Renewing, CompletedDone, Done, DigestBehind
      <4>. QED
        BY <3>1, <4>3, <4>4 DEF Renewing, OneWriter
    <3>. QED
      BY <3>2, <3>3
  <2>. QED
    BY <2>1, <2>2, ImportShape
<1>5. Renewing(T)'
  BY <1>4, MoreExcused
<1>. QED
  BY <1>2, <1>5 DEF Renewing, CompletedDone, Done, RenewingAt, Served

LEMMA WholeStep ==
  ASSUME OneWriter, ImportTypeOK, Importing, Punctual, SeenIsCurrent, Whole,
         [ImportNext]_allVars, NEW p \in Procs, csv'[p].step = "days"
  PROVE  WholeAt(p)'
<1>0. WholeAt(p) /\ ImportingAt(p)
  BY DEF Whole, Importing
<1>a. ASSUME NEW m \in Stored(candles) PROVE m \in Stored(candles')
  BY <1>a, ImportPermanentStep DEF Stored
<1>b. ASSUME UNCHANGED <<sides, csv, months, work>>,
             \A m \in Stored(csv[p].joined) :
               \/ m \in work[p] \cup Stored(candles')
               \/ pc'[p] \in {"load", "parquet"} /\ DayOf[m] = task'[p].day
                  /\ m \in Stored(task'[p].frame)
      PROVE  WholeAt(p)'
  <2>1. Stored(csv[p].joined)' = Stored(csv[p].joined)
    BY <1>b
  <2>2. Stored(JoinedMonth(p, FirstMonth(p)))' = Stored(JoinedMonth(p, FirstMonth(p)))
    BY <1>b DEF JoinedMonth, FirstMonth
  <2>. QED
    BY <1>0, <1>b, <2>1, <2>2 DEF WholeAt
<1>1. CASE UNCHANGED <<memory, sides, csv, candles>>
  <2>1. csv[p].step = "days"
    BY <1>1
  <2>. QED
    BY <1>0, <1>1, <1>b, <2>1 DEF WholeAt, memory
<1>2. ASSUME NEW q \in Procs, Other(q) PROVE FALSE
  BY <1>2 DEF Other, importVars, OneWriter
<1>3. CASE JoinMonth(p)
  <2>1. PICK frame \in Frames : frame = JoinedMonth(p, FirstMonth(p))
    BY JoinedMonthType
  <2>2. /\ csv' = [csv EXCEPT ![p].step = "days", ![p].joined = frame]
        /\ work' = [work EXCEPT ![p] = Stored(frame)]
        /\ UNCHANGED <<sides, months>>
    BY <1>3, <2>1 DEF JoinMonth
  <2>3. csv'[p].joined = frame /\ work'[p] = Stored(frame)
    BY <2>2 DEF ImportTypeOK, TypeOK
  <2>4. JoinedMonth(p, FirstMonth(p))' = frame
    BY <2>1, <2>2 DEF JoinedMonth, FirstMonth
  <2>5. Stored(csv[p].joined)' = Stored(frame) /\ Stored(JoinedMonth(p, FirstMonth(p)))' = Stored(frame)
    BY <2>3, <2>4
  <2>. QED
    BY <2>3, <2>5 DEF WholeAt
<1>4. CASE ImportDay(p)
  <2>1. PICK d \in Days, frame \in Frames, complete \in BOOLEAN :
          /\ Begin(p, d, frame, complete, {})
          /\ Stored(frame) = Stored(csv[p].joined) \cap MinutesOf(d)
    BY <1>4, DayImported
  <2>2. /\ csv[p].step = "days" /\ pc[p] = "fetch" /\ UNCHANGED <<csv, sides, months, candles>>
        /\ pc'[p] = "load" /\ work'[p] = work[p] \ MinutesOf(d)
        /\ task'[p].day = d /\ task'[p].frame = frame
    BY <1>4, <2>1 DEF ImportDay, Begin, importVars, disk, ImportTypeOK, TypeOK
  <2>3. Stored(csv[p].joined)' = Stored(csv[p].joined)
    BY <2>2
  <2>4. Stored(JoinedMonth(p, FirstMonth(p)))' = Stored(JoinedMonth(p, FirstMonth(p)))
    BY <2>2 DEF JoinedMonth, FirstMonth
  <2>5. ASSUME NEW m \in Stored(csv[p].joined), m \in MinutesOf(d)
        PROVE  DayOf[m] = d /\ m \in Stored(frame)
    BY <2>1, <2>5 DEF MinutesOf
  <2>6. Stored(task[p].frame)' = Stored(frame) /\ Stored(candles)' = Stored(candles)
    BY <2>2
  <2>. QED
    BY <1>0, <2>2, <2>3, <2>4, <2>5, <2>6 DEF WholeAt
<1>5. ASSUME Write(p), UNCHANGED importVars PROVE WholeAt(p)'
  <2>0. csv[p].step = "days" /\ UNCHANGED <<sides, csv>>
    BY <1>5 DEF importVars
  <2>1. CASE LoadPartition(p)
    <3>1. pc[p] = "load" /\ pc'[p] = "parquet" /\ UNCHANGED <<candles, months, work, task>>
      BY <2>1 DEF LoadPartition, disk, ImportTypeOK, TypeOK
    <3>. QED
      BY <1>0, <1>b, <2>0, <3>1 DEF WholeAt
  <2>2. CASE RenameParquet(p)
    <3>1. UNCHANGED <<months, work, task>>
      BY <2>2 DEF RenameParquet
    <3>2. ASSUME NEW m \in Stored(task[p].frame), DayOf[m] = task[p].day PROVE m \in Stored(candles')
      BY <2>2, <3>2, DayWritten DEF ImportTypeOK
    <3>. QED
      BY <1>0, <1>a, <1>b, <2>0, <3>1, <3>2 DEF WholeAt
  <2>3. CASE LoadManifest(p)
    <3>1. pc[p] = "index" /\ UNCHANGED <<candles, months, work, task>>
      BY <2>3 DEF LoadManifest, disk
    <3>. QED
      BY <1>0, <1>b, <2>0, <3>1 DEF WholeAt
  <2>4. CASE RenameManifest(p)
    <3>1. pc[p] = "commit" /\ UNCHANGED <<candles, months, work>>
      BY <1>0, <2>0, <2>4 DEF RenameManifest, ImportingAt
    <3>. QED
      BY <1>0, <1>b, <2>0, <3>1 DEF WholeAt
  <2>5. CASE RereadCache(p) \/ LoadEvidence(p) \/ RenameEvidence(p)
    BY <1>0, <2>0, <2>5 DEF RereadCache, LoadEvidence, RenameEvidence, ImportingAt
  <2>. QED
    BY <1>5, <2>1, <2>2, <2>3, <2>4, <2>5 DEF Write
<1>6. ASSUME NEW q \in Procs, Import(q), ~JoinMonth(p), ~ImportDay(p),
             ~(Write(p) /\ UNCHANGED importVars)
      PROVE  FALSE
  <2>0. q = p
    BY DEF OneWriter
  <2>1. ASSUME NEW side \in Sides, NEW file \in Exports, StartImport(p, side, file) PROVE FALSE
    BY <2>1 DEF StartImport, ImportTypeOK
  <2>2. CASE StageMonth(p)
    BY <2>2 DEF StageMonth, ImportTypeOK
  <2>3. CASE MonthImported(p) \/ StopImport(p)
    BY <2>3 DEF MonthImported, StopImport, NoCsv, ImportTypeOK
  <2>. QED
    BY <1>6, <2>0, <2>1, <2>2, <2>3 DEF Import
<1>7. CASE Tick /\ UNCHANGED importVars
  BY <1>1, <1>7 DEF Tick, disk, importVars
<1>8. CASE StartRun \/ ReadMonth \/ EndRun \/ UNCHANGED allVars
  BY <1>1, <1>8 DEF StartRun, ReadMonth, EndRun, allVars, vars, disk, importVars
<1>. QED
  BY <1>2, <1>3, <1>4, <1>5, <1>6, <1>7, <1>8 DEF ImportNext

LEMMA ReadingStep ==
  ASSUME ImportTypeOK, Importing, SeenIsCurrent, Reading, [ImportNext]_allVars
  PROVE  Reading'
<1>1. CASE reader' = reader
  BY <1>1, ImportPermanentStep DEF Reading, Stored, MissingIn
<1>2. CASE reader' = NoRun \/ reader' = [NoRun EXCEPT !.step = "read", !.todo = Months]
  <2>1. reader'.data = EmptyFrame /\ ~reader'.strict
    BY <1>2, RunTypes
  <2>. QED
    BY <2>1 DEF Reading, Stored, EmptyFrame
<1>3. CASE ReadMonth
  <2>1. PICK mon : mon = CHOOSE n \in reader.todo : \A o \in reader.todo : n <= o
    OBVIOUS
  <2>2. PICK data : data = Overlay(reader.data, Partition(mon, candles))
    OBVIOUS
  <2>3. \A m \in Stored(data) : candles[m] = data[m]
    BY <2>2 DEF Reading, Stored, Overlay, Partition
  <2>4. /\ candles' = candles
        /\ \/ reader' = [reader EXCEPT !.todo = @ \ {mon}, !.data = data]
           \/ \E policy \in Policies :
                reader' = IF Refuses(policy, data) THEN NoRun
                          ELSE [step |-> "run", todo |-> {}, data |-> data,
                                strict |-> policy = "strict"]
    BY <1>3, <2>1, <2>2 DEF ReadMonth, vars, disk
  <2>5. CASE reader' = [reader EXCEPT !.todo = @ \ {mon}, !.data = data]
    <3>1. reader'.data = data /\ reader'.strict = reader.strict
      BY <2>5 DEF ImportTypeOK
    <3>2. Stored(reader.data) \subseteq Stored(data)
      BY <2>2, StoredOps
    <3>3. MissingIn(data) \subseteq MissingIn(reader.data)
      BY <3>2 DEF MissingIn
    <3>4. MissingIn(reader'.data) = MissingIn(data) /\ Stored(reader'.data) = Stored(data)
      BY <3>1
    <3>. QED
      BY <2>3, <2>4, <3>1, <3>3, <3>4 DEF Reading
  <2>6. ASSUME NEW policy \in Policies, ~Refuses(policy, data),
               reader' = [step |-> "run", todo |-> {}, data |-> data,
                          strict |-> policy = "strict"]
        PROVE  Reading'
    <3>1. reader'.data = data /\ (reader'.strict <=> policy = "strict")
      BY <2>6
    <3>2. reader'.strict => MissingIn(data) = {}
      BY <2>6, <3>1 DEF Refuses
    <3>3. MissingIn(reader'.data) = MissingIn(data) /\ Stored(reader'.data) = Stored(data)
      BY <3>1
    <3>. QED
      BY <2>3, <2>4, <3>1, <3>2, <3>3 DEF Reading
  <2>. QED
    BY <1>2, <2>4, <2>5, <2>6
<1>4. \/ reader' = reader \/ ReadMonth
      \/ reader' = NoRun \/ reader' = [NoRun EXCEPT !.step = "read", !.todo = Months]
  <2>1. ASSUME NEW p \in Procs, Import(p) PROVE reader' = reader
    BY <2>1 DEF Import, StartImport, StageMonth, JoinMonth, ImportDay, MonthImported, StopImport,
         importVars
  <2>. QED
    BY <2>1 DEF ImportNext, Other, StartRun, EndRun, allVars, importVars
<1>. QED
  BY <1>1, <1>2, <1>3, <1>4

LEMMA ImportInitially ==
  ASSUME ImportInit
  PROVE  /\ ImportTypeOK /\ Importing /\ HeldClosed(Paired) /\ Scoped
         /\ SeenIsCurrent /\ Renewing(Paired) /\ Whole /\ Reading
<1>0. /\ \A p \in Procs : /\ pc[p] = "idle" /\ job[p] = NoJob /\ csv[p] = NoCsv
                          /\ task[p] = NoTask /\ work[p] = {} /\ months[p] = {}
                          /\ seen[p] = EmptyFrame
      /\ candles = EmptyFrame /\ manifest = NoManifest /\ reader = NoRun /\ clock = 0
  BY DEF ImportInit, Init
<1>1. TypeOK
  <2>1. EmptyFrame \in Frames
    BY DEF EmptyFrame, Frames, Bars
  <2>. QED
    BY <2>1, NullTypes DEF ImportInit, Init, TypeOK, Steps
<1>2. ImportTypeOK
  <2>1. EmptyFrame \in Frames /\ EmptyFrame \in SideFrames
    BY DEF EmptyFrame, Frames, Bars, SideFrames
  <2>2. NoCsv \in [step : {"none", "stage", "join", "days"}, side : Sides,
                   file : SideFrames, joined : Frames]
    BY <2>1 DEF NoCsv, Sides
  <2>3. NoRun \in [step : {"none", "read", "run"}, todo : SUBSET Months, data : Frames,
                   strict : BOOLEAN]
    BY <2>1 DEF NoRun
  <2>. QED
    BY <1>1, <2>1, <2>2, <2>3 DEF ImportInit, ImportTypeOK
<1>3. \A m \in Minutes : EmptyFrame[m] = NoBar /\ NoTask.frame[m] = NoBar
  BY DEF EmptyFrame, NoTask
<1>4. Importing /\ Whole
  BY <1>0 DEF Importing, ImportingAt, Whole, WholeAt, NoCsv
<1>5. HeldClosed(Paired)
  BY <1>0, <1>3 DEF HeldClosed, StoredClosed, NoJob
<1>6. Scoped /\ SeenIsCurrent
  BY <1>0, NullTask DEF Scoped, ScopedAt, SeenIsCurrent
<1>7. Renewing(Paired)
  <2>1. CompletedDone(Paired)
    BY <1>0 DEF CompletedDone, NoManifest
  <2>2. \A mon \in Months : manifest.digest[mon] = EmptyFrame
    BY <1>0 DEF NoManifest
  <2>3. DigestBehind
    BY <2>2, StoredOps DEF DigestBehind
  <2>4. \A p \in Procs : RenewingAt(p, Paired)
    BY <1>0, NullTask DEF RenewingAt
  <2>. QED
    BY <2>1, <2>3, <2>4 DEF Renewing
<1>8. Reading
  BY <1>0, <1>3 DEF Reading, NoRun, Stored
<1>. QED
  BY <1>2, <1>4, <1>5, <1>6, <1>7, <1>8

-----------------------------------------------------------------------------
(* Theorems.                                                                *)

LEMMA ImportTypeStep ==
  ASSUME ImportTypeOK, Importing, Punctual, [ImportNext]_allVars
  PROVE  ImportTypeOK'
  BY ImportShape, FreshTypes, StayTypes

LEMMA PunctualIs == HeldClosed(Paired) => Punctual
  BY DEF HeldClosed, Punctual

LEMMA ImportAlways ==
  ImportSpec => [](ImportTypeOK /\ Importing /\ HeldClosed(Paired) /\ Scoped)
  BY PunctualIs, ImportInitially, ImportTypeStep, ImportingStep, ImportClosedStep,
     ImportScopedStep, PTL DEF ImportSpec

LEMMA OneImportAlways ==
  ASSUME OneWriter
  PROVE  ImportSpec => [](SeenIsCurrent /\ Renewing(Paired) /\ Whole /\ Reading)
<1>1. OneWriter /\ ImportTypeOK /\ Importing /\ Punctual /\ SeenIsCurrent /\ Whole
        /\ [ImportNext]_allVars => Whole'
  <2>. SUFFICES ASSUME OneWriter, ImportTypeOK, Importing, Punctual, SeenIsCurrent, Whole,
                       [ImportNext]_allVars, NEW p \in Procs
                PROVE  WholeAt(p)'
    BY DEF Whole
  <2>1. CASE csv'[p].step = "days"
    BY <2>1, WholeStep
  <2>2. CASE csv'[p].step # "days"
    BY <2>2 DEF WholeAt
  <2>. QED
    BY <2>1, <2>2
<1>. QED
  BY <1>1, OneWriter, PunctualIs, ImportInitially, ImportAlways, ImportSeenStep,
     ImportRenewingStep, ReadingStep, PTL DEF ImportSpec

\* With one process writing, an observation on disk never changes, whatever is
\* downloaded, repaired or imported, in whatever order and wherever it dies.
THEOREM ImportsKeepObservations == ASSUME OneWriter PROVE ImportSpec => ObservationsPermanent
<1>1. ImportTypeOK /\ Importing /\ SeenIsCurrent /\ [ImportNext]_allVars
        => [\A m \in Minutes : candles[m] # NoBar => candles'[m] = candles[m]]_vars
  BY ImportPermanentStep
<1>. QED
  BY <1>1, OneWriter, ImportAlways, OneImportAlways, PTL DEF ImportSpec, ObservationsPermanent

\* With one process writing, only a minute imported on both sides lets the
\* cache hold a candle that is not closed, or the manifest call a day complete
\* that lacks what the provider serves.
THEOREM ImportsLoosen == ASSUME OneWriter PROVE ImportSpec => []OnlyImportsLoosen
<1>1. HeldClosed(Paired) /\ Renewing(Paired) /\ ImportTypeOK => OnlyImportsLoosen
  <2>. SUFFICES ASSUME HeldClosed(Paired), Renewing(Paired), ImportTypeOK
                PROVE  OnlyImportsLoosen
    OBVIOUS
  <2>1. ASSUME NEW m \in Stored(candles), m >= clock PROVE m \in Paired
    <3>1. m \in Minutes /\ m \in Nat /\ clock \in Nat /\ candles[m] # NoBar
      BY StoreAssumptions DEF Stored, ImportTypeOK, TypeOK
    <3>2. m < clock \/ m \in Paired
      BY <3>1 DEF HeldClosed, StoredClosed
    <3>. QED
      BY <2>1, <3>1, <3>2
  <2>. QED
    BY <2>1 DEF OnlyImportsLoosen, Renewing, CompletedDone, Done
<1>. QED
  BY <1>1, OneWriter, ImportAlways, OneImportAlways, PTL

\* With one process writing, what a strict backtest was accepted with stays in
\* the cache, so that it is accepted again.
THEOREM StrictRepeats == ASSUME OneWriter PROVE ImportSpec => []StrictIsRepeatable
<1>1. ImportTypeOK /\ Reading => StrictIsRepeatable
  <2>. SUFFICES ASSUME ImportTypeOK, Reading PROVE StrictIsRepeatable
    OBVIOUS
  <2>1. Stored(reader.data) \subseteq Stored(candles)
    BY DEF Reading, Stored
  <2>. QED
    BY <2>1 DEF Reading, StrictIsRepeatable, MissingIn
<1>. QED
  BY <1>1, OneWriter, ImportAlways, OneImportAlways, PTL

LEMMA RevisionStep ==
  ASSUME Reading, NEW m \in Stored(reader.data),
         ~RevisionStale(Month(m)), \A p \in Procs : ~BetweenRenames(p, Month(m))
  PROVE  DataRevision(Month(m)).prices[m] = reader.data[m]
<1>1. DataRevision(Month(m)).prices = Partition(Month(m), candles)
  BY DEF RevisionStale
<1>2. m \in Minutes /\ candles[m] = reader.data[m]
  BY DEF Reading, Stored
<1>. QED
  BY <1>1, <1>2 DEF Partition

\* With one process writing, the revision recorded at the end of a backtest
\* names every candle it read at its start, as it was read.
THEOREM RevisionNamesTheData == ASSUME OneWriter PROVE ImportSpec => RevisionCoversTheData
<1>1. Reading =>
        [reader.step = "run" /\ reader' = NoRun =>
           \A m \in Stored(reader.data) :
             \/ RevisionStale(Month(m))
             \/ \E p \in Procs : BetweenRenames(p, Month(m))
             \/ DataRevision(Month(m)).prices[m] = reader.data[m]]_allVars
  BY RevisionStep
<1>. QED
  BY <1>1, OneWriter, OneImportAlways, PTL DEF RevisionCoversTheData

\* Only MonthImported takes a month off the list of an import that joins.
LEMMA MonthDone ==
  ASSUME ImportTypeOK, Importing, [ImportNext]_allVars, NEW p \in Procs,
         NEW mon \in months[p] \ months'[p], csv[p].step = "days", pc'[p] = "scan"
  PROVE  MonthImported(p)
<1>0. ImportingAt(p)
  BY DEF Importing
<1>1. ASSUME NEW q \in Procs, q # p, Fresh(q) \/ Command(q) \/ Work(q) \/ Die(q) PROVE FALSE
  BY <1>1, Apart, FreshChanges DEF ImportTypeOK
<1>2. ASSUME NEW q \in Procs, Other(q) PROVE FALSE
  BY <1>1, <1>2 DEF Other
<1>3. ASSUME NEW q \in Procs, Import(q), ~MonthImported(p) PROVE FALSE
  <2>1. CASE q # p
    <3>1. StopImport(q) => Die(q)
      BY DEF StopImport, Die, Importing, ImportingAt, ImportTypeOK
    <3>. QED
      BY <1>1, <1>3, <2>1, <3>1 DEF Import, Fresh, Work
  <2>2. CASE q = p
    <3>1. ASSUME NEW side, NEW file, StartImport(p, side, file) PROVE FALSE
      BY <1>0, <3>1 DEF StartImport, ImportingAt
    <3>2. CASE StageMonth(p) \/ JoinMonth(p)
      BY <3>2 DEF StageMonth, JoinMonth
    <3>3. CASE ImportDay(p)
      BY <3>3 DEF ImportDay, Begin
    <3>4. CASE Write(p)
      BY <1>0, <3>4 DEF ImportingAt, Write, LoadPartition, RenameParquet, LoadManifest,
           RenameManifest, RereadCache, LoadEvidence, RenameEvidence
    <3>5. CASE StopImport(p)
      BY <3>5 DEF StopImport, Quiesce, ImportTypeOK, TypeOK
    <3>. QED
      BY <1>3, <2>2, <3>1, <3>2, <3>3, <3>4, <3>5 DEF Import
  <2>. QED
    BY <2>1, <2>2
<1>4. CASE Tick \/ StartRun \/ ReadMonth \/ EndRun \/ UNCHANGED allVars
  BY <1>4 DEF Tick, StartRun, ReadMonth, EndRun, allVars, vars, memory
<1>. QED
  BY <1>2, <1>3, <1>4 DEF ImportNext

\* With one process writing, an import that is done with a month has written
\* every minute that was ever imported on both sides.
THEOREM ImportsWhole == ASSUME OneWriter PROVE ImportSpec => ImportsAreWhole
<1>1. ASSUME ImportTypeOK, Importing, Whole, [ImportNext]_allVars, NEW p \in Procs,
             NEW mon \in months[p] \ months'[p], csv[p].step = "days", pc'[p] = "scan"
      PROVE  Stored(Partition(mon, Pair(sides["BID"], sides["ASK"]))) \subseteq Stored(candles')
  <2>1. MonthImported(p)
    BY <1>1, MonthDone
  <2>2. work[p] = {} /\ pc[p] = "fetch" /\ mon = FirstMonth(p) /\ candles' = candles
    BY <1>1, <2>1 DEF MonthImported, disk, ImportTypeOK, TypeOK
  <2>3. Stored(JoinedMonth(p, mon)) \subseteq Stored(candles)
    BY <1>1, <2>2 DEF Whole, WholeAt
  <2>. QED
    BY <2>2, <2>3 DEF JoinedMonth
<1>2. ImportTypeOK /\ Importing /\ Whole /\ [ImportNext]_allVars =>
        [\A p \in Procs : \A mon \in months[p] \ months'[p] :
           csv[p].step = "days" /\ pc'[p] = "scan" =>
             Stored(Partition(mon, Pair(sides["BID"], sides["ASK"]))) \subseteq Stored(candles')]_allVars
  BY <1>1
<1>. QED
  BY <1>2, OneWriter, ImportAlways, OneImportAlways, PTL DEF ImportSpec, ImportsAreWhole
=============================================================================
