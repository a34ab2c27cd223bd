------------------------- MODULE CandleStoreProofs -------------------------
(***************************************************************************)
(* Theorems about CandleStore, for every set of processes, minutes, days,  *)
(* months and windows that StoreAssumptions allows.                        *)
(***************************************************************************)
EXTENDS CandleStore, WellFoundedInduction, TLAPS

-----------------------------------------------------------------------------
(* Frames.                                                                  *)

LEMMA FrameOps ==
  ASSUME NEW f \in Frames, NEW g \in Frames, NEW S, NEW mon
  PROVE  /\ EmptyFrame \in Frames
         /\ Only(f, S) \in Frames
         /\ Overlay(f, g) \in Frames
         /\ Partition(mon, f) \in Frames
         /\ Stored(f) \subseteq Minutes
  BY SMTT(30) DEF Frames, Bars, EmptyFrame, Only, Overlay, Partition, Stored

LEMMA ClipType ==
  ASSUME NEW r, NEW t
  PROVE  Clip(r, t) \in Frames
  BY DEF Frames, Bars, Clip

LEMMA NullTypes ==
  /\ NoManifest \in Manifests
  /\ NoJob \in Jobs
  /\ NoTask \in Tasks
<1>1. EmptyFrame \in Frames
  BY DEF EmptyFrame, Frames, Bars
<1>2. (CHOOSE d \in Days : TRUE) \in Days
  BY StoreAssumptions
<1>. QED
  BY <1>1, <1>2 DEF NoManifest, Manifests, NoJob, Jobs, NoTask, Tasks

\* A nonempty set of naturals has a least element.
LEMMA LeastNatural ==
  ASSUME NEW S \in SUBSET Nat, S # {}
  PROVE  \E x \in S : \A y \in S : x <= y
<1>1. IsWellFoundedOn(OpToRel(<, Nat), Nat)
  BY NatLessThanWellFounded
<1>2. PICK x \in S : \A y \in S : ~(<<y, x>> \in OpToRel(<, Nat))
  BY <1>1, WFMin
<1>3. ASSUME NEW y \in S, y < x PROVE <<y, x>> \in OpToRel(<, Nat)
  BY <1>3 DEF OpToRel
<1>4. \A y \in S : ~(y < x)
  BY <1>2, <1>3
<1>5. \A y \in S : x <= y
  BY <1>4
<1>. QED
  BY <1>5

LEMMA FirstStoredDayType ==
  ASSUME candles \in Frames, NEW mon, Stored(Partition(mon, candles)) # {}
  PROVE  FirstStoredDay(mon) \in Days
<1>. DEFINE days == {DayOf[m] : m \in Stored(Partition(mon, candles))}
<1>. DEFINE kept == Stored(Partition(mon, candles))
<1>1. kept \subseteq Minutes
  BY DEF Stored
<1>2. DayOf \in [Minutes -> Days] /\ Days \subseteq Nat
  BY StoreAssumptions
<1>3. days \subseteq Days /\ days # {}
  BY <1>1, <1>2
<1>4. \E d \in days : \A e \in days : d <= e
  BY <1>2, <1>3, LeastNatural
<1>. QED
  BY <1>3, <1>4 DEF FirstStoredDay

-----------------------------------------------------------------------------
(* Types.                                                                   *)

LEMMA QuiesceType ==
  ASSUME TypeOK, NEW p \in Procs, Quiesce(p), UNCHANGED <<clock, disk>>
  PROVE  TypeOK'
  BY NullTypes, FrameOps DEF TypeOK, Quiesce, disk, Steps

LEMMA BeginType ==
  ASSUME TypeOK, NEW p \in Procs, NEW d \in Days, NEW frame \in Frames,
         NEW complete \in BOOLEAN, NEW absent \in SUBSET Minutes,
         Begin(p, d, frame, complete, absent)
  PROVE  TypeOK'
  BY DEF TypeOK, Begin, disk, Steps, Tasks

LEMMA NextManifestType ==
  ASSUME TypeOK, NEW d \in Days, NEW complete \in BOOLEAN
  PROVE  NextManifest(d, complete) \in Manifests
<1>1. Partition(MonthOf[d], candles) \in Frames
  BY FrameOps DEF TypeOK
<1>. QED
  BY <1>1 DEF TypeOK, Manifests, NextManifest

LEMMA TypeStep == TypeOK /\ [Next]_vars => TypeOK'
<1>. SUFFICES ASSUME TypeOK, [Next]_vars PROVE TypeOK'
  OBVIOUS
<1>1. CASE Tick
  BY <1>1 DEF Tick, TypeOK, disk, memory
<1>2. ASSUME NEW p \in Procs, Command(p) PROVE TypeOK'
  <2>1. ASSUME NEW w \in Windows, NEW force \in BOOLEAN, StartDownload(p, w, force)
        PROVE  TypeOK'
    BY <2>1, StoreAssumptions, NullTypes
       DEF StartDownload, TypeOK, Steps, Jobs, NoJob, disk
  <2>2. ASSUME NEW w \in Windows, NEW confirm \in BOOLEAN, NEW recheck \in BOOLEAN,
               StartRepair(p, w, confirm, recheck)
        PROVE  TypeOK'
    <3>. DEFINE closed == {m \in w : m < clock}
    <3>1. closed \subseteq Minutes
      BY StoreAssumptions
    <3>2. {Month(m) : m \in closed} \subseteq Months
      BY <3>1, StoreAssumptions DEF Month
    <3>. QED
      BY <2>2, <3>1, <3>2 DEF StartRepair, TypeOK, Steps, Jobs, disk
  <2>. QED
    BY <1>2, <2>1, <2>2 DEF Command
<1>3. ASSUME NEW p \in Procs, Work(p) PROVE TypeOK'
  <2>1. CASE ScanMonth(p)
    <3>1. CASE months[p] = {}
      BY <2>1, <3>1, QuiesceType DEF ScanMonth
    <3>2. CASE months[p] # {}
      <4>1. Missing(p, FirstMonth(p)) \subseteq Minutes
        BY StoreAssumptions DEF Missing
      <4>. QED
        BY <2>1, <3>2, <4>1 DEF ScanMonth, TypeOK, Steps, disk
    <3>. QED
      BY <3>1, <3>2
  <2>2. CASE NothingDue(p)
    <3>1. CASE job[p].kind = "repair"
      BY <2>2, <3>1 DEF NothingDue, TypeOK, Steps, disk
    <3>2. CASE job[p].kind # "repair"
      BY <2>2, <3>2, QuiesceType DEF NothingDue
    <3>. QED
      BY <3>1, <3>2
  <2>3. CASE FetchDownload(p)
    <3>0. PICK d \in DueDays(p) : \E r \in RepliesFor(d, job[p].now) :
            Begin(p, d, Clip(r, job[p].now), DownloadComplete(d, job[p].now), {})
      BY <2>3 DEF FetchDownload
    <3>1. PICK r \in RepliesFor(d, job[p].now) :
            Begin(p, d, Clip(r, job[p].now), DownloadComplete(d, job[p].now), {})
      BY <3>0
    <3>2. d \in Days
      BY StoreAssumptions DEF DueDays, PendingDays, TypeOK
    <3>3. DownloadComplete(d, job[p].now) \in BOOLEAN
      BY DEF DownloadComplete, DayEnded
    <3>. QED
      BY <3>1, <3>2, <3>3, BeginType, ClipType
  <2>4. CASE FetchRepair(p)
    <3>0. PICK d \in DueDays(p) : \E r \in RepliesFor(d, job[p].now) :
            LET add == Additions(Clip(r, job[p].now), Targets(p, d))
            IN  Begin(p, d, add, RepairComplete(d, job[p].now, add), {})
      BY <2>4 DEF FetchRepair
    <3>1. PICK r \in RepliesFor(d, job[p].now) :
            LET add == Additions(Clip(r, job[p].now), Targets(p, d))
            IN  Begin(p, d, add, RepairComplete(d, job[p].now, add), {})
      BY <3>0
    <3>. DEFINE add == Additions(Clip(r, job[p].now), Targets(p, d))
    <3>2. d \in Days
      BY StoreAssumptions DEF DueDays, PendingDays, TypeOK
    <3>3. add \in Frames
      BY FrameOps, ClipType DEF Additions
    <3>4. RepairComplete(d, job[p].now, add) \in BOOLEAN
      BY DEF RepairComplete, DayEnded
    <3>. QED
      BY <3>1, <3>2, <3>3, <3>4, BeginType
  <2>5. CASE FetchConfirmed(p)
    <3>0. PICK d \in DueDays(p) : \E r1, r2 \in RepliesFor(d, job[p].now) :
            LET once == NotOnWire(r1, Targets(p, d))
                twice == NotOnWire(r2, once)
                t == clock + 1
                observed == IF once = {} THEN Clip(r1, t)
                                         ELSE Overlay(Clip(r1, t), Clip(r2, t))
                add == Additions(observed, Targets(p, d))
            IN  Begin(p, d, add, RepairComplete(d, job[p].now, add), twice)
      BY <2>5 DEF FetchConfirmed
    <3>1. PICK r1 \in RepliesFor(d, job[p].now), r2 \in RepliesFor(d, job[p].now) :
            LET once == NotOnWire(r1, Targets(p, d))
                twice == NotOnWire(r2, once)
                t == clock + 1
                observed == IF once = {} THEN Clip(r1, t)
                                         ELSE Overlay(Clip(r1, t), Clip(r2, t))
                add == Additions(observed, Targets(p, d))
            IN  Begin(p, d, add, RepairComplete(d, job[p].now, add), twice)
      BY <3>0
    <3>. DEFINE once == NotOnWire(r1, Targets(p, d))
                twice == NotOnWire(r2, once)
                t == clock + 1
                observed == IF once = {} THEN Clip(r1, t)
                                         ELSE Overlay(Clip(r1, t), Clip(r2, t))
                add == Additions(observed, Targets(p, d))
    <3>2. d \in Days
      BY StoreAssumptions DEF DueDays, PendingDays, TypeOK
    <3>3. observed \in Frames
      BY FrameOps, ClipType
    <3>4. add \in Frames
      BY <3>3, FrameOps DEF Additions
    <3>5. RepairComplete(d, job[p].now, add) \in BOOLEAN
      BY DEF RepairComplete, DayEnded
    <3>6. twice \subseteq Minutes
      BY DEF NotOnWire, Targets, MinutesOf
    <3>. QED
      BY <3>1, <3>2, <3>4, <3>5, <3>6, BeginType
  <2>6. CASE Write(p)
    <3>1. CASE LoadPartition(p)
      <4>1. Partition(MonthOf[task[p].day], candles) \in Frames
        BY FrameOps DEF TypeOK
      <4>. QED
        BY <3>1, <4>1 DEF LoadPartition, TypeOK, Steps, disk
    <3>2. CASE RenameParquet(p)
      <4>. DEFINE mon == MonthOf[task[p].day]
                  incoming == Incoming(task[p].frame, seen[p])
                  combined == Overlay(seen[p], incoming)
      <4>1. combined \in Frames
        BY FrameOps DEF TypeOK, Tasks, Incoming
      <4>2. candles' \in Frames
        BY <3>2, <4>1 DEF RenameParquet, TypeOK, Frames
      <4>. QED
        BY <3>2, <4>2, FrameOps DEF RenameParquet, TypeOK, Steps
    <3>3. CASE LoadManifest(p)
      <4>1. NextManifest(task[p].day, task[p].complete) \in Manifests
        BY NextManifestType DEF TypeOK, Tasks
      <4>. QED
        BY <3>3, <4>1 DEF LoadManifest, TypeOK, Steps, disk
    <3>4. CASE RenameManifest(p)
      <4>1. manifest' \in Manifests /\ held' \in [Procs -> Manifests]
        BY <3>4, NullTypes DEF RenameManifest, TypeOK
      <4>2. months' \in [Procs -> SUBSET Months]
        BY <3>4 DEF RenameManifest, TypeOK
      <4>3. task' \in [Procs -> Tasks]
        BY <3>4, NullTypes DEF RenameManifest, TypeOK
      <4>4. pc' \in [Procs -> Steps]
        BY <3>4 DEF RenameManifest, TypeOK, Steps
      <4>. QED
        BY <3>4, <4>1, <4>2, <4>3, <4>4 DEF RenameManifest, TypeOK
    <3>5. CASE RereadCache(p)
      <4>1. PICK absent \in SUBSET Minutes : absent = Attested(task[p].absent)
        BY DEF Attested, TypeOK, Tasks
      <4>2. PICK new \in Tasks : /\ new = IF absent = {} THEN NoTask ELSE [task[p] EXCEPT !.absent = absent]
                                /\ task' = [task EXCEPT ![p] = new]
        BY <3>5, <4>1, NullTypes DEF RereadCache, TypeOK, Tasks
      <4>. QED
        BY <3>5, <4>1, <4>2 DEF RereadCache, TypeOK, Steps, disk
    <3>6. CASE LoadEvidence(p)
      <4>1. EvidenceOf(MonthOf[task[p].day]) \cup task[p].absent \in SUBSET Minutes
        BY DEF EvidenceOf, TypeOK, Tasks
      <4>. QED
        BY <3>6, <4>1 DEF LoadEvidence, TypeOK, Steps, Tasks, disk
    <3>7. CASE RenameEvidence(p)
      BY <3>7, NullTypes DEF RenameEvidence, TypeOK, Steps, Tasks
    <3>. QED
      BY <2>6, <3>1, <3>2, <3>3, <3>4, <3>5, <3>6, <3>7 DEF Write
  <2>7. CASE Recover(p)
    <3>. DEFINE mon == FirstMonth(p)
    <3>1. CASE NeedsRecovery(mon)
      <4>1. FirstStoredDay(mon) \in Days
        BY <3>1, FirstStoredDayType DEF NeedsRecovery, TypeOK
      <4>2. (FirstStoredDay(mon) \in manifest.completed) \in BOOLEAN
        OBVIOUS
      <4>. DEFINE new == [day |-> FirstStoredDay(mon), frame |-> EmptyFrame,
                          complete |-> FirstStoredDay(mon) \in manifest.completed,
                          absent |-> {}, records |-> {}, recovery |-> TRUE]
      <4>a. EmptyFrame \in Frames
        BY DEF EmptyFrame, Frames, Bars
      <4>b. new \in Tasks
        BY <4>1, <4>2, <4>a DEF Tasks
      <4>c. task' = [task EXCEPT ![p] = new]
        BY <2>7, <3>1 DEF Recover
      <4>3. task' \in [Procs -> Tasks]
        BY <4>b, <4>c DEF TypeOK
      <4>. QED
        BY <2>7, <3>1, <4>3 DEF Recover, TypeOK, Steps, disk
    <3>2. CASE ~NeedsRecovery(mon)
      BY <2>7, <3>2 DEF Recover, TypeOK, Steps, disk
    <3>. QED
      BY <3>1, <3>2
  <2>8. CASE FetchFails(p)
    BY <2>8, QuiesceType DEF FetchFails
  <2>. QED
    BY <1>3, <2>1, <2>2, <2>3, <2>4, <2>5, <2>6, <2>7, <2>8 DEF Work
<1>4. ASSUME NEW p \in Procs, Die(p) PROVE TypeOK'
  BY <1>4, QuiesceType DEF Die
<1>5. CASE UNCHANGED vars
  BY <1>5 DEF vars, disk, memory, TypeOK
<1>. QED
  BY <1>1, <1>2, <1>3, <1>4, <1>5 DEF Next

\* The files and what the processes hold in memory keep their types.
THEOREM TypeCorrect == Spec => []TypeOK
<1>1. Init => TypeOK
  <2>1. EmptyFrame \in Frames
    BY DEF EmptyFrame, Frames, Bars
  <2>. QED
    BY <2>1, NullTypes DEF Init, TypeOK, Steps
<1>. QED
  BY <1>1, TypeStep, PTL DEF Spec

\* The three steps that save evidence change of a task what it is about to record.
LEMMA EvidenceKeeps ==
  ASSUME TypeOK, NEW p \in Procs, RereadCache(p) \/ LoadEvidence(p) \/ RenameEvidence(p),
         NEW q \in Procs
  PROVE  \/ task'[q] = NoTask
         \/ /\ task'[q].frame = task[q].frame /\ task'[q].day = task[q].day
            /\ task'[q].absent \subseteq task[q].absent
            /\ task'[q].recovery = task[q].recovery
<1>1. CASE RereadCache(p)
  <2>1. PICK less \in SUBSET Minutes : less = Attested(task[p].absent) /\ less \subseteq task[p].absent
    BY DEF Attested, TypeOK, Tasks
  <2>2. PICK new : /\ new = NoTask \/ new = [task[p] EXCEPT !.absent = less]
                   /\ task' = [task EXCEPT ![p] = new]
    BY <1>1, <2>1 DEF RereadCache
  <2>3. task[p] \in Tasks /\ task'[q] = IF q = p THEN new ELSE task[q]
    BY <2>2 DEF TypeOK
  <2>. QED
    BY <2>1, <2>2, <2>3 DEF Tasks
<1>2. CASE LoadEvidence(p)
  BY <1>2 DEF LoadEvidence, TypeOK, Tasks
<1>3. CASE RenameEvidence(p)
  BY <1>3 DEF RenameEvidence, TypeOK
<1>. QED
  BY <1>1, <1>2, <1>3

-----------------------------------------------------------------------------
(* No candle in progress is stored, however many processes write.  The      *)
(* lemmas leave out the minutes of a set S, so that they also serve where   *)
(* there is another way into the cache (CandleImport): here it is empty.    *)

StoredClosed(S) == \A m \in Minutes : candles[m] # NoBar => m < clock \/ m \in S

HeldClosed(S) ==
  /\ StoredClosed(S)
  /\ \A p \in Procs :
       /\ job[p].now <= clock
       /\ \A m \in Minutes : task[p].frame[m] # NoBar => m < clock \/ m \in S
       /\ \A m \in Minutes : seen[p][m] # NoBar => m < clock \/ m \in S

LEMMA ClosedQuiesce ==
  ASSUME NEW S, TypeOK, HeldClosed(S), NEW p \in Procs, Quiesce(p), UNCHANGED <<clock, disk>>
  PROVE  HeldClosed(S)'
<1>1. NoJob.now = 0 /\ \A m \in Minutes : NoTask.frame[m] = NoBar /\ EmptyFrame[m] = NoBar
  BY DEF NoJob, NoTask, EmptyFrame
<1>2. StoredClosed(S)'
  BY DEF HeldClosed, StoredClosed, disk
<1>3. ASSUME NEW q \in Procs
      PROVE  /\ job'[q].now <= clock
             /\ \A m \in Minutes : task'[q].frame[m] # NoBar => m < clock \/ m \in S
             /\ \A m \in Minutes : seen'[q][m] # NoBar => m < clock \/ m \in S
  <2>1. CASE q = p
    BY <1>1, <2>1 DEF TypeOK, Quiesce
  <2>2. CASE q # p
    BY <2>2 DEF TypeOK, HeldClosed, Quiesce
  <2>. QED
    BY <2>1, <2>2
<1>4. clock' = clock
  OBVIOUS
<1>. QED
  BY <1>2, <1>3, <1>4 DEF HeldClosed

LEMMA ClosedBegin ==
  ASSUME NEW S, TypeOK, HeldClosed(S), NEW p \in Procs, NEW d, NEW frame, NEW complete,
         NEW absent, Begin(p, d, frame, complete, absent),
         \A m \in Minutes : frame[m] # NoBar => m < clock \/ m \in S
  PROVE  HeldClosed(S)'
  BY DEF TypeOK, HeldClosed, StoredClosed, Begin, disk

LEMMA ClosedOverlay ==
  ASSUME NEW f, NEW g, NEW t, NEW S,
         \A m \in Minutes : f[m] # NoBar => m < t \/ m \in S,
         \A m \in Minutes : g[m] # NoBar => m < t \/ m \in S
  PROVE  \A m \in Minutes : Overlay(f, g)[m] # NoBar => m < t \/ m \in S
  BY DEF Overlay

LEMMA ClosedOnly ==
  ASSUME NEW f, NEW T, NEW t, NEW S, \A m \in Minutes : f[m] # NoBar => m < t \/ m \in S
  PROVE  \A m \in Minutes : Only(f, T)[m] # NoBar => m < t \/ m \in S
  BY DEF Only

LEMMA ClosedStep ==
  ASSUME NEW S, TypeOK, HeldClosed(S), [Next]_vars
  PROVE  HeldClosed(S)'
<1>. USE StoreAssumptions
<1>1. CASE Tick
  <2>1. clock \in Nat /\ clock' = clock + 1 /\ Minutes \subseteq Nat
    BY <1>1 DEF Tick, TypeOK
  <2>2. UNCHANGED <<candles, job, task, seen>>
    BY <1>1 DEF Tick, disk, memory
  <2>3. \A m \in Minutes : m < clock => m < clock'
    BY <2>1
  <2>4. \A p \in Procs : job[p].now <= clock'
    BY <2>1 DEF TypeOK, Jobs, HeldClosed
  <2>. QED
    BY <2>2, <2>3, <2>4 DEF HeldClosed, StoredClosed
<1>2. ASSUME NEW p \in Procs, Command(p) PROVE HeldClosed(S)'
  <2>1. ASSUME NEW w \in Windows, NEW force \in BOOLEAN, StartDownload(p, w, force)
        PROVE  HeldClosed(S)'
    BY <2>1 DEF StartDownload, TypeOK, NoJob, HeldClosed, StoredClosed, disk
  <2>2. ASSUME NEW w \in Windows, NEW confirm \in BOOLEAN, NEW recheck \in BOOLEAN,
               StartRepair(p, w, confirm, recheck)
        PROVE  HeldClosed(S)'
    BY <2>2 DEF StartRepair, TypeOK, HeldClosed, StoredClosed, disk
  <2>. QED
    BY <1>2, <2>1, <2>2 DEF Command
<1>3. ASSUME NEW p \in Procs, Work(p) PROVE HeldClosed(S)'
  <2>0. job[p].now <= clock /\ job[p].now \in Nat /\ clock \in Nat
    BY DEF HeldClosed, TypeOK, Jobs
  <2>1. CASE ScanMonth(p)
    <3>1. CASE months[p] = {}
      BY <2>1, <3>1, ClosedQuiesce DEF ScanMonth
    <3>2. CASE months[p] # {}
      BY <2>1, <3>2 DEF ScanMonth, HeldClosed, StoredClosed, disk
    <3>. QED
      BY <3>1, <3>2
  <2>2. CASE NothingDue(p)
    <3>1. CASE job[p].kind = "repair"
      BY <2>2, <3>1 DEF NothingDue, HeldClosed, StoredClosed, disk
    <3>2. CASE job[p].kind # "repair"
      BY <2>2, <3>2, ClosedQuiesce DEF NothingDue
    <3>. QED
      BY <3>1, <3>2
  <2>3. ASSUME NEW r
        PROVE  \A m \in Minutes : Clip(r, job[p].now)[m] # NoBar => m < clock \/ m \in S
    BY <2>0, StoreAssumptions DEF Clip
  <2>4. CASE FetchDownload(p)
    <3>1. PICK d \in DueDays(p) : \E r \in RepliesFor(d, job[p].now) :
            Begin(p, d, Clip(r, job[p].now), DownloadComplete(d, job[p].now), {})
      BY <2>4 DEF FetchDownload
    <3>. QED
      BY <2>3, <3>1, ClosedBegin
  <2>5. CASE FetchRepair(p)
    <3>1. PICK d \in DueDays(p) : \E r \in RepliesFor(d, job[p].now) :
            LET add == Additions(Clip(r, job[p].now), Targets(p, d))
            IN  Begin(p, d, add, RepairComplete(d, job[p].now, add), {})
      BY <2>5 DEF FetchRepair
    <3>2. ASSUME NEW r
          PROVE  \A m \in Minutes :
                   Additions(Clip(r, job[p].now), Targets(p, d))[m] # NoBar => m < clock \/ m \in S
      BY <2>3, ClosedOnly DEF Additions
    <3>. QED
      BY <3>1, <3>2, ClosedBegin
  <2>6. CASE FetchConfirmed(p)
    <3>1. PICK d \in DueDays(p) : \E r1, r2 \in RepliesFor(d, job[p].now) :
            LET once == NotOnWire(r1, Targets(p, d))
                twice == NotOnWire(r2, once)
                t == clock + 1
                observed == IF once = {} THEN Clip(r1, t)
                                         ELSE Overlay(Clip(r1, t), Clip(r2, t))
                add == Additions(observed, Targets(p, d))
            IN  /\ MayConfirm(d, job[p].now)
                /\ Begin(p, d, add, RepairComplete(d, job[p].now, add), twice)
      BY <2>6 DEF FetchConfirmed
    <3>2. MayConfirm(d, job[p].now)
      BY <3>1
    <3>3. ASSUME NEW r \in RepliesFor(d, job[p].now), NEW t
          PROVE  \A m \in Minutes : Clip(r, t)[m] # NoBar => m < clock \/ m \in S
      <4>1. ASSUME NEW m \in Minutes, Clip(r, t)[m] # NoBar PROVE m < clock
        <5>1. r[m] # NoBar
          BY <4>1 DEF Clip
        <5>2. DayOf[m] = d
          BY <5>1 DEF RepliesFor
        <5>3. m < job[p].now
          BY <3>2, <5>2 DEF MayConfirm, DayEnded, MinutesOf
        <5>. QED
          BY <2>0, <5>3, StoreAssumptions
      <4>. QED
        BY <4>1
    <3>4. PICK r1 \in RepliesFor(d, job[p].now), r2 \in RepliesFor(d, job[p].now) :
            LET once == NotOnWire(r1, Targets(p, d))
                twice == NotOnWire(r2, once)
                t == clock + 1
                observed == IF once = {} THEN Clip(r1, t)
                                         ELSE Overlay(Clip(r1, t), Clip(r2, t))
                add == Additions(observed, Targets(p, d))
            IN  Begin(p, d, add, RepairComplete(d, job[p].now, add), twice)
      BY <3>1
    <3>. DEFINE once == NotOnWire(r1, Targets(p, d))
                t == clock + 1
                observed == IF once = {} THEN Clip(r1, t)
                                         ELSE Overlay(Clip(r1, t), Clip(r2, t))
    <3>5. \A m \in Minutes : observed[m] # NoBar => m < clock \/ m \in S
      BY <3>3, ClosedOverlay
    <3>6. \A m \in Minutes : Additions(observed, Targets(p, d))[m] # NoBar => m < clock \/ m \in S
      BY <3>5, ClosedOnly DEF Additions
    <3>. QED
      BY <3>4, <3>6, ClosedBegin
  <2>7. CASE Write(p)
    <3>1. CASE LoadPartition(p)
      BY <3>1 DEF LoadPartition, TypeOK, HeldClosed, StoredClosed, Partition, disk
    <3>2. CASE RenameParquet(p)
      <4>. DEFINE incoming == Incoming(task[p].frame, seen[p])
                  combined == Overlay(seen[p], incoming)
      <4>0. /\ \A m \in Minutes : task[p].frame[m] # NoBar => m < clock \/ m \in S
            /\ \A m \in Minutes : seen[p][m] # NoBar => m < clock \/ m \in S
        BY DEF HeldClosed
      <4>1. \A m \in Minutes : combined[m] # NoBar => m < clock \/ m \in S
        <5>1. \A m \in Minutes : incoming[m] # NoBar => m < clock \/ m \in S
          BY <4>0, ClosedOnly DEF Incoming
        <5>. HIDE DEF incoming
        <5>. QED
          BY <4>0, <5>1, ClosedOverlay
      <4>2. StoredClosed(S)'
        BY <3>2, <4>1 DEF RenameParquet, HeldClosed, StoredClosed
      <4>3. \A m \in Minutes : EmptyFrame[m] = NoBar
        BY DEF EmptyFrame
      <4>. QED
        BY <3>2, <4>2, <4>3 DEF RenameParquet, TypeOK, HeldClosed
    <3>3. CASE LoadManifest(p)
      BY <3>3 DEF LoadManifest, HeldClosed, StoredClosed, disk
    <3>4. \A m \in Minutes : NoTask.frame[m] = NoBar
      BY DEF NoTask, EmptyFrame
    <3>5. CASE RenameManifest(p)
      BY <3>4, <3>5 DEF RenameManifest, TypeOK, HeldClosed, StoredClosed
    <3>6. CASE RereadCache(p) \/ LoadEvidence(p) \/ RenameEvidence(p)
      <4>1. ASSUME NEW q \in Procs PROVE task'[q].frame = task[q].frame \/ task'[q] = NoTask
        BY <3>6, EvidenceKeeps
      <4>. QED
        BY <3>4, <3>6, <4>1 DEF RereadCache, LoadEvidence, RenameEvidence, HeldClosed, StoredClosed, disk
    <3>. QED
      BY <2>7, <3>1, <3>2, <3>3, <3>5, <3>6 DEF Write
  <2>8. CASE Recover(p)
    <3>1. \A m \in Minutes : EmptyFrame[m] = NoBar
      BY DEF EmptyFrame
    <3>2. ASSUME NEW q \in Procs PROVE \A m \in Minutes : task'[q].frame[m] # NoBar => m < clock \/ m \in S
      <4>. DEFINE d == FirstStoredDay(FirstMonth(p))
                  new == [day |-> d, frame |-> EmptyFrame,
                          complete |-> d \in manifest.completed,
                          absent |-> {}, records |-> {}, recovery |-> TRUE]
      <4>1. UNCHANGED task \/ task' = [task EXCEPT ![p] = new]
        BY <2>8 DEF Recover
      <4>2. new.frame = EmptyFrame
        OBVIOUS
      <4>3. \A m \in Minutes : task[q].frame[m] # NoBar => m < clock \/ m \in S
        BY DEF HeldClosed
      <4>. HIDE DEF new
      <4>4. task' = [task EXCEPT ![p] = new] =>
              task'[q] = (IF q = p THEN new ELSE task[q])
        BY DEF TypeOK
      <4>. QED
        BY <3>1, <4>1, <4>2, <4>3, <4>4
    <3>. QED
      BY <2>8, <3>2 DEF Recover, HeldClosed, StoredClosed, disk
  <2>9. CASE FetchFails(p)
    BY <2>9, ClosedQuiesce DEF FetchFails
  <2>. QED
    BY <1>3, <2>1, <2>2, <2>4, <2>5, <2>6, <2>7, <2>8, <2>9 DEF Work
<1>4. ASSUME NEW p \in Procs, Die(p) PROVE HeldClosed(S)'
  BY <1>4, ClosedQuiesce DEF Die
<1>5. CASE UNCHANGED vars
  BY <1>5 DEF vars, disk, memory, HeldClosed, StoredClosed
<1>. QED
  BY <1>1, <1>2, <1>3, <1>4, <1>5 DEF Next
LEMMA ClosedNone == (ClosedInMemory <=> HeldClosed({})) /\ (ClosedInMemory <=> HeldClosed({}))'
  BY DEF ClosedInMemory, HeldClosed, OnlyClosedMinutes, StoredClosed

LEMMA ClosedInMemoryStep == TypeOK /\ ClosedInMemory /\ [Next]_vars => ClosedInMemory'
  BY ClosedNone, ClosedStep

\* The candle in progress never reaches the disk (fetch_day's clip).
THEOREM ClosedOnDisk == Spec => []OnlyClosedMinutes
<1>1. Init => ClosedInMemory
  <2>1. \A m \in Minutes : EmptyFrame[m] = NoBar /\ NoTask.frame[m] = NoBar
    BY DEF EmptyFrame, NoTask
  <2>. QED
    BY <2>1 DEF Init, ClosedInMemory, OnlyClosedMinutes, NoJob
<1>2. ClosedInMemory => OnlyClosedMinutes
  BY DEF ClosedInMemory
<1>. QED
  BY <1>1, <1>2, ClosedInMemoryStep, TypeCorrect, PTL DEF Spec

-----------------------------------------------------------------------------
(* With one writer, an observation on disk stays.                           *)

OneWriter == \A p, q \in Procs : p = q

LEMMA SeenStep == OneWriter /\ TypeOK /\ SeenIsCurrent /\ [Next]_vars => SeenIsCurrent'
<1>. SUFFICES ASSUME OneWriter, TypeOK, SeenIsCurrent, [Next]_vars PROVE SeenIsCurrent'
  OBVIOUS
<1>1. SUFFICES ASSUME NEW q \in Procs, pc'[q] = "parquet"
               PROVE  seen'[q] = Partition(MonthOf[task'[q].day], candles')
  BY DEF SeenIsCurrent, Partition
<1>2. CASE LoadPartition(q)
  BY <1>2 DEF LoadPartition, TypeOK, Partition, disk
<1>3. CASE pc[q] = "parquet" /\ UNCHANGED <<candles, seen, task>>
  BY <1>3 DEF SeenIsCurrent, Partition
<1>4. LoadPartition(q) \/ (pc[q] = "parquet" /\ UNCHANGED <<candles, seen, task>>)
  <2>1. CASE Tick
    BY <1>1, <2>1 DEF Tick, disk, memory
  <2>2. CASE UNCHANGED vars
    BY <1>1, <2>2 DEF vars, disk, memory
  <2>3. ASSUME NEW p \in Procs, Command(p) \/ Work(p) \/ Die(p)
        PROVE  LoadPartition(q)
    <3>1. p = q
      BY DEF OneWriter
    <3>. QED
      BY <1>1, <2>3, <3>1
         DEF Command, Work, Write, Die, TypeOK, StartDownload, StartRepair, Quiesce, Begin,
             ScanMonth, NothingDue, FetchDownload, FetchRepair, FetchConfirmed,
             RenameParquet, LoadManifest, RenameManifest, RereadCache, LoadEvidence, RenameEvidence, Recover, FetchFails
  <2>. QED
    BY <2>1, <2>2, <2>3 DEF Next
<1>. QED
  BY <1>2, <1>3, <1>4

LEMMA PermanentStep ==
  ASSUME TypeOK, SeenIsCurrent, [Next]_vars, NEW m \in Minutes, candles[m] # NoBar
  PROVE  candles'[m] = candles[m]
<1>1. CASE UNCHANGED candles
  BY <1>1
<1>2. ASSUME NEW p \in Procs, RenameParquet(p) PROVE candles'[m] = candles[m]
  <2>. DEFINE mon == MonthOf[task[p].day]
              incoming == Incoming(task[p].frame, seen[p])
  <2>1. CASE Month(m) = mon
    <3>1. seen[p][m] = candles[m]
      BY <1>2, <2>1 DEF RenameParquet, SeenIsCurrent, Partition
    <3>2. incoming[m] = NoBar
      BY <3>1 DEF Incoming, Only, Stored
    <3>3. Overlay(seen[p], incoming)[m] = candles[m]
      BY <3>1, <3>2 DEF Overlay
    <3>. QED
      BY <1>2, <2>1, <3>3 DEF RenameParquet
  <2>2. CASE Month(m) # mon
    BY <1>2, <2>2 DEF RenameParquet
  <2>. QED
    BY <2>1, <2>2
<1>3. UNCHANGED candles \/ \E p \in Procs : RenameParquet(p)
  <2>1. CASE Tick
    BY <2>1 DEF Tick, disk
  <2>2. CASE UNCHANGED vars
    BY <2>2 DEF vars, disk
  <2>3. ASSUME NEW p \in Procs, Command(p) \/ Work(p) \/ Die(p), ~RenameParquet(p)
        PROVE  UNCHANGED candles
    BY <2>3 DEF Command, Work, Write, Die, StartDownload, StartRepair, Begin,
             ScanMonth, NothingDue, FetchDownload, FetchRepair, FetchConfirmed,
             LoadPartition, LoadManifest, RenameManifest, RereadCache, LoadEvidence, RenameEvidence, Recover,
             FetchFails, disk
  <2>. QED
    BY <2>1, <2>2, <2>3 DEF Next
<1>. QED
  BY <1>1, <1>2, <1>3

\* With one process writing, whatever it is asked, whatever the provider
\* answers and wherever it dies, an observation on disk never changes.
THEOREM ObservationsStay == ASSUME OneWriter PROVE Spec => ObservationsPermanent
<1>1. Init => SeenIsCurrent
  BY DEF Init, SeenIsCurrent
<1>2. TypeOK /\ SeenIsCurrent /\ [Next]_vars => SeenIsCurrent'
  BY OneWriter, SeenStep
<1>3. TypeOK /\ SeenIsCurrent /\ [Next]_vars
        => [\A m \in Minutes : candles[m] # NoBar => candles'[m] = candles[m]]_vars
  BY PermanentStep
<1>. QED
  BY <1>1, <1>2, <1>3, TypeCorrect, PTL DEF Spec, ObservationsPermanent

-----------------------------------------------------------------------------
(* What a fetch brings, whoever else writes meanwhile.                      *)

\* No command began later than now.
Punctual == \A p \in Procs : job[p].now <= clock

\* The day is over, and what the provider always serves of it is in f or on disk,
\* unless the day has a minute of S.
Served(d, f, S) ==
  /\ DayEnded(d, clock)
  /\ \/ Archive \cap MinutesOf(d) \subseteq Stored(f) \cup Stored(candles)
     \/ S \cap MinutesOf(d) # {}

\* The minutes looked at had no candle, and are now known to be absent.
Unserved(m) == m \in OpenMinutes \ Listed /\ DayEnded(DayOf[m], clock)

\* A repair holds nothing but minutes it was asked for; an idle process holds
\* nothing; what is about to become evidence is evidence.
ScopedAt(p) ==
  /\ pc[p] = "idle" => work[p] = {} /\ months[p] = {} /\ task[p] = NoTask
  /\ job[p].kind = "repair" =>
       work[p] \cup Stored(task[p].frame) \subseteq job[p].window \cap OpenMinutes
  /\ \A m \in task[p].absent : Unserved(m)

Scoped == \A p \in Procs : ScopedAt(p)

LEMMA EndedStays ==
  ASSUME NEW d, NEW t \in Nat, NEW u \in Nat, t <= u, DayEnded(d, t)
  PROVE  DayEnded(d, u)
  BY StoreAssumptions DEF DayEnded, MinutesOf

LEMMA StoredOps ==
  ASSUME NEW f, NEW g, NEW S, NEW mon
  PROVE  /\ Stored(EmptyFrame) = {}
         /\ Stored(Only(f, S)) = Stored(f) \cap S
         /\ Stored(Overlay(f, g)) = Stored(f) \cup Stored(g)
         /\ Stored(Partition(mon, f)) = {m \in Stored(f) : Month(m) = mon}
  BY DEF Stored, EmptyFrame, Only, Overlay, Partition

LEMMA Fetched ==
  ASSUME TypeOK, Punctual, Scoped, NEW p \in Procs,
         FetchDownload(p) \/ FetchRepair(p) \/ FetchConfirmed(p)
  PROVE  \E d \in Days, frame \in Frames, complete \in BOOLEAN, absent \in SUBSET Minutes :
           /\ Begin(p, d, frame, complete, absent) /\ pc[p] = "fetch"
           /\ complete => Served(d, frame, {})
           /\ job[p].kind = "repair" => Stored(frame) \subseteq work[p]
           /\ \A m \in absent : Unserved(m)
<1>0. /\ job[p].now \in Nat /\ clock \in Nat /\ job[p].now <= clock /\ work[p] \subseteq Minutes
      /\ candles \in Frames
  BY DEF TypeOK, Jobs, Punctual
<1>1. \A d \in DueDays(p) : d \in Days
  BY StoreAssumptions DEF DueDays, PendingDays, TypeOK
<1>2. ASSUME NEW d, DayEnded(d, job[p].now) PROVE DayEnded(d, clock)
  BY <1>0, <1>2, EndedStays
<1>3. ASSUME NEW d, NEW add \in Frames, RepairComplete(d, job[p].now, add) PROVE Served(d, add, {})
  <2>1. DayEnded(d, clock)
    BY <1>2, <1>3 DEF RepairComplete
  <2>2. MinutesOf(d) \cap OpenMinutes \subseteq Stored(add) \cup Stored(candles)
    BY <1>3, StoredOps DEF RepairComplete
  <2>. QED
    BY <2>1, <2>2, StoreAssumptions DEF Served
<1>4. CASE FetchDownload(p)
  <2>0. PICK d \in DueDays(p) : \E r \in RepliesFor(d, job[p].now) :
          Begin(p, d, Clip(r, job[p].now), DownloadComplete(d, job[p].now), {})
    BY <1>4 DEF FetchDownload
  <2>1. PICK r \in RepliesFor(d, job[p].now) :
          Begin(p, d, Clip(r, job[p].now), DownloadComplete(d, job[p].now), {})
    BY <2>0
  <2>2. ASSUME DayEnded(d, job[p].now) PROVE Served(d, Clip(r, job[p].now), {})
    <3>1. ASSUME NEW m \in Archive \cap MinutesOf(d) PROVE m \in Stored(Clip(r, job[p].now))
      <4>1. r[m] \in Values /\ r[m] # NoBar /\ m \in Minutes
        BY <2>2, StoreAssumptions DEF RepliesFor, MinutesOf
      <4>2. m < job[p].now
        BY <2>2 DEF DayEnded
      <4>. QED
        BY <4>1, <4>2 DEF Clip, Stored
    <3>. QED
      BY <1>2, <2>2, <3>1 DEF Served
  <2>3. DownloadComplete(d, job[p].now) \in BOOLEAN
    BY DEF DownloadComplete, DayEnded
  <2>4. DownloadComplete(d, job[p].now) => Served(d, Clip(r, job[p].now), {})
    BY <2>2 DEF DownloadComplete
  <2>5. pc[p] = "fetch" /\ job[p].kind # "repair" /\ d \in Days
    BY <1>1, <1>4 DEF FetchDownload
  <2>. QED
    BY <2>1, <2>3, <2>4, <2>5, ClipType
<1>5. CASE FetchRepair(p)
  <2>0. PICK d \in DueDays(p) : \E r \in RepliesFor(d, job[p].now) :
          LET add == Additions(Clip(r, job[p].now), Targets(p, d))
          IN  Begin(p, d, add, RepairComplete(d, job[p].now, add), {})
    BY <1>5 DEF FetchRepair
  <2>1. PICK r \in RepliesFor(d, job[p].now) :
          LET add == Additions(Clip(r, job[p].now), Targets(p, d))
          IN  Begin(p, d, add, RepairComplete(d, job[p].now, add), {})
    BY <2>0
  <2>. DEFINE add == Additions(Clip(r, job[p].now), Targets(p, d))
  <2>2. add \in Frames /\ Stored(add) \subseteq work[p]
    BY FrameOps, ClipType, StoredOps DEF Additions, Targets
  <2>3. RepairComplete(d, job[p].now, add) \in BOOLEAN
    BY DEF RepairComplete, DayEnded
  <2>4. pc[p] = "fetch" /\ d \in Days
    BY <1>1, <1>5 DEF FetchRepair
  <2>5. Begin(p, d, add, RepairComplete(d, job[p].now, add), {})
    BY <2>1
  <2>. HIDE DEF add
  <2>. QED
    BY <1>3, <2>2, <2>3, <2>4, <2>5
<1>6. CASE FetchConfirmed(p)
  <2>0. PICK d \in DueDays(p) : \E r1, r2 \in RepliesFor(d, job[p].now) :
          LET once == NotOnWire(r1, Targets(p, d))
              twice == NotOnWire(r2, once)
              t == clock + 1
              observed == IF once = {} THEN Clip(r1, t)
                                       ELSE Overlay(Clip(r1, t), Clip(r2, t))
              add == Additions(observed, Targets(p, d))
          IN  /\ MayConfirm(d, job[p].now)
              /\ once # {} => ShowListed(d, job[p].now, r1, r2)
              /\ Begin(p, d, add, RepairComplete(d, job[p].now, add), twice)
    BY <1>6 DEF FetchConfirmed
  <2>1. PICK r1 \in RepliesFor(d, job[p].now), r2 \in RepliesFor(d, job[p].now) :
          LET once == NotOnWire(r1, Targets(p, d))
              twice == NotOnWire(r2, once)
              t == clock + 1
              observed == IF once = {} THEN Clip(r1, t)
                                       ELSE Overlay(Clip(r1, t), Clip(r2, t))
              add == Additions(observed, Targets(p, d))
          IN  /\ MayConfirm(d, job[p].now)
              /\ once # {} => ShowListed(d, job[p].now, r1, r2)
              /\ Begin(p, d, add, RepairComplete(d, job[p].now, add), twice)
    BY <2>0
  <2>. DEFINE once == NotOnWire(r1, Targets(p, d))
              twice == NotOnWire(r2, once)
              t == clock + 1
              observed == IF once = {} THEN Clip(r1, t)
                                       ELSE Overlay(Clip(r1, t), Clip(r2, t))
              add == Additions(observed, Targets(p, d))
  <2>2. observed \in Frames
    BY FrameOps, ClipType
  <2>a. ASSUME NEW f \in Frames
        PROVE  /\ Additions(f, Targets(p, d)) \in Frames
               /\ Stored(Additions(f, Targets(p, d))) \subseteq work[p]
    BY FrameOps, StoredOps DEF Additions, Targets
  <2>3. add \in Frames /\ Stored(add) \subseteq work[p]
    BY <2>2, <2>a
  <2>4. RepairComplete(d, job[p].now, add) \in BOOLEAN
    BY DEF RepairComplete, DayEnded
  <2>5. pc[p] = "fetch" /\ d \in Days /\ job[p].kind = "repair"
    BY <1>1, <1>6 DEF FetchConfirmed
  <2>6. DayEnded(d, job[p].now)
    BY <2>1 DEF MayConfirm
  <2>b. once # {} => ShowListed(d, job[p].now, r1, r2)
    BY <2>1
  <2>7. ASSUME NEW m \in twice PROVE Unserved(m)
    <3>1. /\ r1[m] = NoBar /\ r2[m] = NoBar /\ m \in once
          /\ m \in work[p] /\ DayOf[m] = d /\ m \in MinutesOf(d)
      BY DEF NotOnWire, Targets, MinutesOf
    <3>2. m \notin Listed
      BY <2>6, <2>b, <3>1 DEF ShowListed
    <3>3. m \in OpenMinutes
      BY <2>5, <3>1 DEF Scoped, ScopedAt
    <3>. QED
      BY <1>2, <2>6, <3>1, <3>2, <3>3 DEF Unserved
  <2>8. twice \in SUBSET Minutes
    BY <1>0 DEF NotOnWire, Targets
  <2>9. Begin(p, d, add, RepairComplete(d, job[p].now, add), twice)
    BY <2>1
  <2>. HIDE DEF add, twice, once
  <2>. QED
    BY <1>3, <2>3, <2>4, <2>5, <2>7, <2>8, <2>9
<1>. QED
  BY <1>4, <1>5, <1>6

\* A step of one process leaves the clock and the memory of the others alone.
LEMMA Apart ==
  ASSUME TypeOK, NEW p \in Procs, NEW q \in Procs, q # p, Command(p) \/ Work(p) \/ Die(p)
  PROVE  /\ clock' = clock
         /\ pc'[q] = pc[q] /\ job'[q] = job[q] /\ months'[q] = months[q]
         /\ work'[q] = work[q] /\ task'[q] = task[q]
         /\ seen'[q] = seen[q] /\ held'[q] = held[q]
<1>1. CASE Quiesce(p) /\ UNCHANGED clock
  BY <1>1 DEF Quiesce, TypeOK
<1>2. CASE \E d, frame, complete, absent : Begin(p, d, frame, complete, absent)
  BY <1>2 DEF Begin, TypeOK
<1>3. CASE Command(p)
  BY <1>3 DEF Command, StartDownload, StartRepair, TypeOK
<1>4. CASE ScanMonth(p) \/ NothingDue(p)
  BY <1>1, <1>4 DEF ScanMonth, NothingDue, TypeOK
<1>5. CASE FetchDownload(p) \/ FetchRepair(p) \/ FetchConfirmed(p)
  BY <1>2, <1>5 DEF FetchDownload, FetchRepair, FetchConfirmed
<1>6. CASE Write(p)
  BY <1>6 DEF Write, LoadPartition, RenameParquet, LoadManifest, RenameManifest,
              RereadCache, LoadEvidence, RenameEvidence, TypeOK
<1>7. CASE Recover(p)
  BY <1>7 DEF Recover, TypeOK
<1>8. CASE FetchFails(p) \/ Die(p)
  BY <1>1, <1>8 DEF FetchFails, Die
<1>. QED
  BY <1>3, <1>4, <1>5, <1>6, <1>7, <1>8 DEF Work

LEMMA NullTask ==
  /\ NoTask.absent = {} /\ Stored(NoTask.frame) = {}
  /\ NoTask.recovery = FALSE /\ NoTask.complete = FALSE
  /\ NoJob.kind = "download"
  BY DEF NoTask, NoJob, Stored, EmptyFrame

\* A process that stops, for whatever reason, holds nothing.
LEMMA ScopedQuiesce ==
  ASSUME TypeOK, NEW p \in Procs, Quiesce(p)
  PROVE  ScopedAt(p)'
  BY NullTask DEF Quiesce, ScopedAt, TypeOK

LEMMA ScopedWork ==
  ASSUME TypeOK, Punctual, Scoped, NEW p \in Procs, Command(p) \/ Work(p) \/ Die(p)
  PROVE  ScopedAt(p)'
<1>0. ScopedAt(p)
  BY DEF Scoped
<1>1. CASE Quiesce(p)
  BY <1>1, ScopedQuiesce
<1>2. CASE pc[p] # "idle" /\ pc'[p] # "idle" /\ UNCHANGED <<clock, job, work, task>>
  BY <1>0, <1>2 DEF ScopedAt, Unserved
<1>3. CASE pc'[p] # "idle" /\ UNCHANGED <<clock, job, work>> /\ task' = [task EXCEPT ![p] = NoTask]
  BY <1>0, <1>3, NullTask DEF ScopedAt, TypeOK
<1>4. CASE Command(p)
  <2>1. pc[p] = "idle" /\ work[p] = {} /\ task[p] = NoTask /\ pc'[p] # "idle"
    BY <1>0, <1>4 DEF Command, StartDownload, StartRepair, ScopedAt, TypeOK
  <2>2. task' = task /\ (work' = work \/ job'[p].kind = "download")
    <3>1. ASSUME NEW w, NEW force, StartDownload(p, w, force)
          PROVE  task' = task /\ job'[p].kind = "download"
      BY <3>1, NullTask DEF StartDownload, TypeOK
    <3>2. ASSUME NEW w, NEW confirm, NEW recheck, StartRepair(p, w, confirm, recheck)
          PROVE  task' = task /\ work' = work
      BY <3>2 DEF StartRepair
    <3>. QED
      BY <1>4, <3>1, <3>2 DEF Command
  <2>. QED
    BY <2>1, <2>2, NullTask DEF ScopedAt
<1>5. CASE ScanMonth(p) \/ NothingDue(p)
  <2>1. CASE ScanMonth(p) /\ months[p] # {}
    <3>1. work'[p] \subseteq job[p].window \cap OpenMinutes
      BY <2>1 DEF ScanMonth, Missing, TypeOK
    <3>. QED
      BY <1>0, <2>1, <3>1 DEF ScanMonth, ScopedAt, Unserved, TypeOK
  <2>2. CASE NothingDue(p) /\ ~Quiesce(p)
    BY <1>2, <2>2 DEF NothingDue, TypeOK
  <2>. QED
    BY <1>1, <1>5, <2>1, <2>2 DEF ScanMonth
<1>6. CASE FetchDownload(p) \/ FetchRepair(p) \/ FetchConfirmed(p)
  <2>1. PICK d \in Days, frame \in Frames, complete \in BOOLEAN, absent \in SUBSET Minutes :
          /\ Begin(p, d, frame, complete, absent)
          /\ job[p].kind = "repair" => Stored(frame) \subseteq work[p]
          /\ \A m \in absent : Unserved(m)
    BY <1>6, Fetched
  <2>2. /\ task'[p].frame = frame /\ task'[p].absent = absent /\ pc'[p] # "idle"
        /\ work'[p] \subseteq work[p] /\ job' = job /\ clock' = clock
    BY <2>1 DEF Begin, TypeOK
  <2>. QED
    BY <1>0, <2>1, <2>2 DEF ScopedAt, Unserved
<1>7. CASE Write(p)
  <2>1. CASE LoadPartition(p) \/ RenameParquet(p) \/ LoadManifest(p)
    BY <1>2, <2>1 DEF LoadPartition, RenameParquet, LoadManifest, TypeOK
  <2>2. CASE RenameManifest(p)
    <3>1. UNCHANGED task \/ task' = [task EXCEPT ![p] = NoTask]
      BY <2>2 DEF RenameManifest, TypeOK
    <3>2. pc[p] # "idle" /\ pc'[p] # "idle" /\ UNCHANGED <<clock, job, work>>
      BY <2>2 DEF RenameManifest, TypeOK
    <3>. QED
      BY <1>2, <1>3, <3>1, <3>2
  <2>3. CASE RereadCache(p) \/ LoadEvidence(p) \/ RenameEvidence(p)
    <3>1. pc[p] # "idle" /\ pc'[p] # "idle" /\ UNCHANGED <<clock, job, work>>
      BY <2>3 DEF RereadCache, LoadEvidence, RenameEvidence, TypeOK
    <3>2. \/ task'[p] = NoTask
          \/ task'[p].frame = task[p].frame /\ task'[p].absent \subseteq task[p].absent
      BY <2>3, EvidenceKeeps
    <3>. QED
      BY <1>0, <3>1, <3>2, NullTask DEF ScopedAt, Unserved
  <2>. QED
    BY <1>7, <2>1, <2>2, <2>3 DEF Write
<1>8. CASE Recover(p)
  <2>1. /\ pc[p] # "idle" /\ pc'[p] # "idle" /\ UNCHANGED <<clock, job, work>>
    BY <1>8 DEF Recover, TypeOK
  <2>2. CASE NeedsRecovery(FirstMonth(p))
    <3>. DEFINE new == [day |-> FirstStoredDay(FirstMonth(p)), frame |-> EmptyFrame,
                        complete |-> FirstStoredDay(FirstMonth(p)) \in manifest.completed,
                        absent |-> {}, records |-> {}, recovery |-> TRUE]
    <3>1. task' = [task EXCEPT ![p] = new]
      BY <1>8, <2>2 DEF Recover
    <3>2. new.absent = {} /\ Stored(new.frame) = {}
      BY StoredOps
    <3>. HIDE DEF new
    <3>3. task'[p].absent = {} /\ Stored(task'[p].frame) = {}
      BY <3>1, <3>2 DEF TypeOK
    <3>. QED
      BY <1>0, <2>1, <3>3 DEF ScopedAt
  <2>3. CASE ~NeedsRecovery(FirstMonth(p))
    BY <1>2, <1>8, <2>1, <2>3 DEF Recover
  <2>. QED
    BY <2>2, <2>3
<1>. QED
  BY <1>1, <1>4, <1>5, <1>6, <1>7, <1>8 DEF Work, FetchFails, Die

LEMMA ScopedStep == TypeOK /\ Punctual /\ Scoped /\ [Next]_vars => Scoped'
<1>. SUFFICES ASSUME TypeOK, Punctual, Scoped, [Next]_vars PROVE Scoped'
  OBVIOUS
<1>1. ASSUME clock' \in Nat, clock <= clock', NEW q \in Procs,
             pc'[q] = pc[q], job'[q] = job[q], months'[q] = months[q], work'[q] = work[q], task'[q] = task[q]
      PROVE  ScopedAt(q)'
  <2>1. \A d : DayEnded(d, clock) => DayEnded(d, clock')
    BY <1>1, EndedStays DEF TypeOK
  <2>. QED
    BY <1>1, <2>1 DEF Scoped, ScopedAt, Unserved
<1>2. CASE Tick
  <2>1. clock' \in Nat /\ clock <= clock'
    BY <1>2 DEF Tick, TypeOK
  <2>. QED
    BY <1>1, <1>2, <2>1 DEF Tick, memory, Scoped
<1>3. ASSUME NEW p \in Procs, Command(p) \/ Work(p) \/ Die(p) PROVE Scoped'
  <2>1. ASSUME NEW q \in Procs, q # p PROVE ScopedAt(q)'
    <3>1. clock' = clock /\ clock' \in Nat /\ clock <= clock'
      BY <1>3, <2>1, Apart DEF TypeOK
    <3>. QED
      BY <1>1, <1>3, <2>1, <3>1, Apart
  <2>. QED
    BY <1>3, <2>1, ScopedWork DEF Scoped
<1>4. CASE UNCHANGED vars
  <2>1. clock' \in Nat /\ clock <= clock'
    BY <1>4 DEF vars, TypeOK
  <2>. QED
    BY <1>1, <1>4, <2>1 DEF vars, memory, Scoped
<1>. QED
  BY <1>2, <1>3, <1>4 DEF Next

LEMMA ScopedAlways == Spec => [](TypeOK /\ ClosedInMemory /\ Scoped)
<1>1. Init => ClosedInMemory
  <2>1. \A m \in Minutes : EmptyFrame[m] = NoBar /\ NoTask.frame[m] = NoBar
    BY DEF EmptyFrame, NoTask
  <2>. QED
    BY <2>1 DEF Init, ClosedInMemory, OnlyClosedMinutes, NoJob
<1>2. Init => Scoped
  BY NullTask DEF Init, Scoped, ScopedAt
<1>3. ClosedInMemory => Punctual
  BY DEF ClosedInMemory, Punctual
<1>. QED
  BY <1>1, <1>2, <1>3, ClosedInMemoryStep, ScopedStep, TypeCorrect, PTL DEF Spec

\* With one writer: between the look at the cache and the rename of the evidence
\* no candle lands, and the file is still the one that is being extended.
AttestingAt(p) ==
  /\ pc[p] \in {"confirm", "attest"} => task[p].absent \cap Stored(candles) = {}
  /\ pc[p] = "attest" => task[p].records = EvidenceOf(MonthOf[task[p].day]) \cup task[p].absent

Attesting == \A p \in Procs : AttestingAt(p)

LEMMA AttestingStep == OneWriter /\ TypeOK /\ Attesting /\ [Next]_vars => Attesting'
<1>. SUFFICES ASSUME OneWriter, TypeOK, Attesting, [Next]_vars, NEW p \in Procs
              PROVE  AttestingAt(p)'
  BY DEF Attesting
<1>0. AttestingAt(p)
  BY DEF Attesting
<1>1. CASE RereadCache(p)
  <2>. DEFINE absent == Attested(task[p].absent)
  <2>1. pc'[p] \in {"fetch", "confirm"} /\ candles' = candles
    BY <1>1 DEF RereadCache, TypeOK, disk
  <2>2. ASSUME pc'[p] = "confirm" PROVE task'[p].absent = absent
    BY <1>1, <2>2 DEF RereadCache, TypeOK, Tasks
  <2>3. absent \cap Stored(candles) = {}
    BY DEF Attested
  <2>4. Stored(candles)' = Stored(candles)
    BY <2>1 DEF Stored
  <2>. HIDE DEF absent
  <2>. QED
    BY <2>1, <2>2, <2>3, <2>4 DEF AttestingAt
<1>2. CASE LoadEvidence(p)
  <2>1. /\ pc[p] = "confirm" /\ candles' = candles /\ confirmed' = confirmed
        /\ task'[p].absent = task[p].absent /\ task'[p].day = task[p].day
        /\ task'[p].records = EvidenceOf(MonthOf[task[p].day]) \cup task[p].absent
    BY <1>2 DEF LoadEvidence, TypeOK, Tasks, disk
  <2>. QED
    BY <1>0, <2>1 DEF AttestingAt, EvidenceOf, Stored
<1>3. CASE pc'[p] \notin {"confirm", "attest"}
  BY <1>3 DEF AttestingAt
<1>4. CASE UNCHANGED <<candles, confirmed, pc, task>>
  BY <1>0, <1>4 DEF AttestingAt, EvidenceOf, Stored
<1>5. CASE Tick \/ UNCHANGED vars
  BY <1>4, <1>5 DEF Tick, vars, disk, memory
<1>6. ASSUME Command(p) \/ Work(p) \/ Die(p), ~RereadCache(p), ~LoadEvidence(p)
      PROVE  pc'[p] \notin {"confirm", "attest"}
  <2>1. CASE Quiesce(p)
    BY <2>1 DEF Quiesce, TypeOK
  <2>2. CASE \E d, frame, complete, absent : Begin(p, d, frame, complete, absent)
    BY <2>2 DEF Begin, TypeOK
  <2>. QED
    BY <1>6, <2>1, <2>2
       DEF Command, Work, Write, Die, StartDownload, StartRepair, ScanMonth, NothingDue,
           FetchDownload, FetchRepair, FetchConfirmed, LoadPartition, RenameParquet,
           LoadManifest, RenameManifest, RenameEvidence, Recover, FetchFails, TypeOK
<1>. QED
  BY <1>1, <1>2, <1>3, <1>5, <1>6 DEF Next, OneWriter

\* Only the rename of an evidence file changes the evidence.
LEMMA EvidenceChange ==
  ASSUME [Next]_vars, confirmed' # confirmed
  PROVE  \E p \in Procs : RenameEvidence(p)
<1>1. CASE Tick \/ UNCHANGED vars
  BY <1>1 DEF Tick, vars, disk
<1>2. ASSUME NEW p \in Procs, Command(p) \/ Work(p) \/ Die(p), ~RenameEvidence(p)
      PROVE  UNCHANGED confirmed
  BY <1>2 DEF Command, Work, Write, Die, StartDownload, StartRepair, Begin,
           ScanMonth, NothingDue, FetchDownload, FetchRepair, FetchConfirmed,
           LoadPartition, RenameParquet, LoadManifest, RenameManifest, RereadCache,
           LoadEvidence, Recover, FetchFails, disk
<1>. QED
  BY <1>1, <1>2 DEF Next

\* The file that is renamed has all that was there and what is attested.
LEMMA EvidenceAdded ==
  ASSUME TypeOK, Attesting, NEW p \in Procs, RenameEvidence(p)
  PROVE  /\ confirmed' = confirmed \cup task[p].absent
         /\ task[p].absent \cap Stored(candles) = {}
<1>1. AttestingAt(p) /\ pc[p] = "attest"
  BY DEF Attesting, RenameEvidence
<1>2. confirmed' = (confirmed \ EvidenceOf(MonthOf[task[p].day])) \cup task[p].records
  BY DEF RenameEvidence
<1>3. EvidenceOf(MonthOf[task[p].day]) \subseteq confirmed
  BY DEF EvidenceOf
<1>. QED
  BY <1>1, <1>2, <1>3 DEF AttestingAt

LEMMA EvidenceStep ==
  ASSUME TypeOK, Scoped, Attesting, [Next]_vars, NEW m \in confirmed' \ confirmed
  PROVE  /\ candles[m] = NoBar /\ m \in OpenMinutes \ Listed
         /\ DayEnded(DayOf[m], clock)
<1>1. PICK p \in Procs : RenameEvidence(p)
  BY EvidenceChange
<1>2. m \in task[p].absent /\ m \notin Stored(candles) /\ m \in Minutes
  BY <1>1, EvidenceAdded DEF TypeOK, Tasks
<1>. QED
  BY <1>2 DEF Scoped, ScopedAt, Unserved, Stored

\* With one process writing, whatever the provider answers and wherever the
\* process dies, a minute is recorded as absent only if it is an open minute of a
\* day that is over, has no candle in the cache, and is not one the provider has.
\* (With two, a candle may land between the look at the cache and the rename.)
THEOREM EvidenceHolds == ASSUME OneWriter PROVE Spec => EvidenceIsAbsence
<1>1. TypeOK /\ Scoped /\ Attesting /\ [Next]_vars =>
        [\A m \in confirmed' \ confirmed :
           candles[m] = NoBar /\ m \in OpenMinutes \ Listed
           /\ DayEnded(DayOf[m], clock)]_vars
  BY EvidenceStep
<1>2. Init => Attesting
  BY DEF Init, Attesting, AttestingAt
<1>3. TypeOK /\ Attesting /\ [Next]_vars => Attesting'
  BY OneWriter, AttestingStep
<1>. QED
  BY <1>1, <1>2, <1>3, ScopedAlways, PTL DEF Spec, EvidenceIsAbsence

-----------------------------------------------------------------------------
(* The manifest, with one writer: what it says complete is complete, and    *)
(* the digest it holds is renewed by the write that changes the file.       *)

\* The day is over and needs no download, unless it has a minute of S.
Done(d, S) ==
  /\ DayEnded(d, clock)
  /\ \/ Archive \cap MinutesOf(d) \subseteq Stored(candles)
     \/ S \cap MinutesOf(d) # {}

\* CompleteDaysNeedNoDownload, when S is empty.
CompletedDone(S) == \A d \in manifest.completed : Done(d, S)

\* What the write under way will let the manifest say is true when it says it;
\* a recovery writes a day of the month it recovers.
RenewingAt(p, S) ==
  /\ pc[p] \in {"load", "parquet"} /\ task[p].complete => Served(task[p].day, task[p].frame, S)
  /\ pc[p] \in {"index", "commit"} /\ task[p].complete => Done(task[p].day, S)
  /\ pc[p] = "commit" => held[p] = NextManifest(task[p].day, task[p].complete)
  /\ task[p].recovery => /\ pc[p] \in {"load", "parquet", "index", "commit"}
                         /\ MonthOf[task[p].day] = FirstMonth(p)

\* A digest never holds a candle that the file has not.
DigestBehind ==
  \A mon \in Months : Stored(manifest.digest[mon]) \subseteq Stored(Partition(mon, candles))

Renewing(S) == CompletedDone(S) /\ DigestBehind /\ \A p \in Procs : RenewingAt(p, S)

LEMMA Grows ==
  ASSUME TypeOK, SeenIsCurrent, [Next]_vars
  PROVE  /\ Stored(candles) \subseteq Stored(candles')
         /\ \A mon : Stored(Partition(mon, candles)) \subseteq Stored(Partition(mon, candles'))
         /\ \A d : DayEnded(d, clock) => DayEnded(d, clock)'
         /\ \A d, S : Done(d, S) => Done(d, S)'
         /\ \A d, f, S : Served(d, f, S) => Served(d, f, S)'
<1>1. Stored(candles) \subseteq Stored(candles')
  BY PermanentStep DEF Stored
<1>2. clock' \in Nat /\ clock \in Nat /\ clock <= clock'
  <2>1. CASE Tick
    BY <2>1 DEF Tick, TypeOK
  <2>2. CASE UNCHANGED vars
    BY <2>2 DEF vars, TypeOK
  <2>3. ASSUME NEW p \in Procs, Command(p) \/ Work(p) \/ Die(p) PROVE clock' = clock
    BY <2>3 DEF Command, Work, Write, Die, StartDownload, StartRepair, Begin, ScanMonth,
             NothingDue, FetchDownload, FetchRepair, FetchConfirmed, LoadPartition,
             RenameParquet, LoadManifest, RenameManifest, RereadCache, LoadEvidence, RenameEvidence, Recover, FetchFails
  <2>. QED
    BY <2>1, <2>2, <2>3 DEF Next, TypeOK
<1>3. \A d : DayEnded(d, clock) => DayEnded(d, clock)'
  BY <1>2, EndedStays
<1>4. \A mon : Stored(Partition(mon, candles)) \subseteq Stored(Partition(mon, candles'))
  BY <1>1 DEF Stored, Partition
<1>. QED
  BY <1>1, <1>3, <1>4 DEF Done, Served

\* Whatever leaves the manifest alone keeps what it says true.
LEMMA ManifestKept ==
  ASSUME NEW S, TypeOK, SeenIsCurrent, Renewing(S), [Next]_vars, manifest' = manifest
  PROVE  CompletedDone(S)' /\ DigestBehind'
<1>1. CompletedDone(S)'
  BY Grows DEF Renewing, CompletedDone, Done
<1>2. DigestBehind'
  BY Grows DEF Renewing, DigestBehind
<1>. QED
  BY <1>1, <1>2

\* The day a recovery writes is a day of its month.
LEMMA RecoveryDay ==
  ASSUME candles \in Frames, NEW mon, Stored(Partition(mon, candles)) # {}
  PROVE  MonthOf[FirstStoredDay(mon)] = mon
<1>. DEFINE days == {DayOf[m] : m \in Stored(Partition(mon, candles))}
<1>1. \A m \in Stored(Partition(mon, candles)) : Month(m) = mon /\ DayOf[m] \in Days
  BY StoreAssumptions DEF Stored, Partition
<1>2. days \in SUBSET Nat /\ days # {}
  <2>1. PICK m \in Stored(Partition(mon, candles)) : TRUE
    OBVIOUS
  <2>2. DayOf[m] \in days
    BY <2>1
  <2>3. days \subseteq Days
    BY <1>1
  <2>4. Days \subseteq Nat
    BY StoreAssumptions
  <2>. HIDE DEF days
  <2>. QED
    BY <2>2, <2>3, <2>4
<1>. HIDE DEF days
<1>3. \E d \in days : \A e \in days : d <= e
  BY <1>2, LeastNatural
<1>4. FirstStoredDay(mon) \in days
  BY <1>3 DEF FirstStoredDay, days
<1>. QED
  BY <1>1, <1>4 DEF days, Month

\* The file that is renamed has the candles of the day being written.
LEMMA DayWritten ==
  ASSUME TypeOK, SeenIsCurrent, NEW p \in Procs, RenameParquet(p),
         NEW m \in Stored(task[p].frame), DayOf[m] = task[p].day
  PROVE  m \in Stored(candles')
<1>. DEFINE mon == MonthOf[task[p].day]
            incoming == Incoming(task[p].frame, seen[p])
<1>1. m \in Minutes /\ Month(m) = mon /\ task[p].frame[m] # NoBar /\ pc[p] = "parquet"
  BY DEF Stored, Month, RenameParquet
<1>2. CASE candles[m] # NoBar
  BY <1>1, <1>2, PermanentStep DEF Stored, Next, Work, Write
<1>3. CASE candles[m] = NoBar
  <2>1. seen[p][m] = NoBar
    BY <1>1, <1>3 DEF SeenIsCurrent, Partition
  <2>2. incoming[m] = task[p].frame[m]
    BY <1>1, <2>1 DEF Incoming, Only, Stored
  <2>3. Overlay(seen[p], incoming)[m] # NoBar /\ Stored(incoming) # {}
    BY <1>1, <2>2 DEF Overlay, Stored
  <2>. HIDE DEF incoming
  <2>4. candles'[m] = Overlay(seen[p], incoming)[m]
    BY <1>1, <2>3 DEF RenameParquet, incoming
  <2>. QED
    BY <1>1, <2>3, <2>4 DEF Stored
<1>. QED
  BY <1>2, <1>3

\* A day that a write begins with.
LEMMA RenewingBegin ==
  ASSUME NEW S, OneWriter, TypeOK, Renewing(S), NEW p \in Procs,
         NEW d \in Days, NEW frame \in Frames, NEW complete \in BOOLEAN, NEW absent,
         Begin(p, d, frame, complete, absent), complete => Served(d, frame, S)
  PROVE  Renewing(S)'
<1>1. /\ task'[p].day = d /\ task'[p].frame = frame /\ task'[p].complete = complete
      /\ ~task'[p].recovery /\ pc'[p] = "load"
      /\ manifest' = manifest /\ candles' = candles /\ clock' = clock
  BY DEF Begin, TypeOK, disk
<1>2. CompletedDone(S)' /\ DigestBehind'
  BY <1>1 DEF Renewing, CompletedDone, Done, DigestBehind
<1>3. RenewingAt(p, S)'
  BY <1>1 DEF RenewingAt, Served
<1>. QED
  BY <1>2, <1>3 DEF Renewing, OneWriter

LEMMA RenewingWork ==
  ASSUME NEW S, OneWriter, TypeOK, Punctual, Scoped, SeenIsCurrent, Renewing(S), [Next]_vars,
         NEW p \in Procs, Work(p)
  PROVE  CompletedDone(S)' /\ DigestBehind' /\ RenewingAt(p, S)'
<1>0. RenewingAt(p, S) /\ task[p] \in Tasks
  BY DEF Renewing, TypeOK
<1>a. CASE manifest' = manifest /\ ~task'[p].recovery /\ pc'[p] \in {"idle", "scan", "fetch", "evidence", "confirm", "attest", "recover"}
  BY <1>a, ManifestKept DEF RenewingAt
<1>b. CASE /\ manifest' = manifest /\ task' = task
           /\ pc[p] \in {"scan", "fetch", "recover"}
           /\ pc'[p] \in {"idle", "scan", "fetch", "evidence", "confirm", "attest", "recover"}
  BY <1>0, <1>a, <1>b DEF RenewingAt
<1>c. CASE Quiesce(p) /\ UNCHANGED disk
  BY <1>a, <1>c, NullTask DEF Quiesce, TypeOK, disk
<1>1. CASE ScanMonth(p) \/ NothingDue(p) \/ FetchFails(p)
  BY <1>1, <1>b, <1>c DEF ScanMonth, NothingDue, FetchFails, TypeOK, disk
<1>2. CASE FetchDownload(p) \/ FetchRepair(p) \/ FetchConfirmed(p)
  <2>1. PICK d \in Days, frame \in Frames, complete \in BOOLEAN, absent \in SUBSET Minutes :
          Begin(p, d, frame, complete, absent) /\ (complete => Served(d, frame, S))
    BY <1>2, Fetched DEF Served
  <2>. QED
    BY <2>1, RenewingBegin DEF Renewing
<1>3. CASE LoadPartition(p)
  <2>1. /\ pc[p] = "load" /\ pc'[p] = "parquet" /\ manifest' = manifest /\ task' = task
        /\ months' = months
    BY <1>3 DEF LoadPartition, TypeOK, disk
  <2>2. task[p].complete => Served(task[p].day, task[p].frame, S)'
    BY <1>0, <2>1, Grows DEF RenewingAt
  <2>. QED
    BY <1>0, <2>1, <2>2, ManifestKept DEF RenewingAt, FirstMonth, Served
<1>4. CASE RenameParquet(p)
  <2>1. /\ pc[p] = "parquet" /\ pc'[p] = "index" /\ manifest' = manifest /\ task' = task
        /\ months' = months
    BY <1>4 DEF RenameParquet, TypeOK
  <2>2. ASSUME NEW m \in Stored(task[p].frame), DayOf[m] = task[p].day
        PROVE  m \in Stored(candles')
    BY <1>4, <2>2, DayWritten
  <2>3. ASSUME task[p].complete PROVE Done(task[p].day, S)'
    <3>1. Served(task[p].day, task[p].frame, S)
      BY <1>0, <2>1, <2>3 DEF RenewingAt
    <3>2. DayEnded(task[p].day, clock')
      BY <3>1, Grows DEF Served
    <3>3. \/ Archive \cap MinutesOf(task[p].day) \subseteq Stored(candles')
          \/ S \cap MinutesOf(task[p].day) # {}
      BY <2>2, <3>1, Grows DEF Served, MinutesOf
    <3>. QED
      BY <2>1, <3>2, <3>3 DEF Done
  <2>. QED
    BY <1>0, <2>1, <2>3, ManifestKept DEF RenewingAt, FirstMonth
<1>5. CASE LoadManifest(p)
  <2>1. /\ pc[p] = "index" /\ pc'[p] = "commit" /\ manifest' = manifest /\ candles' = candles
        /\ task' = task /\ months' = months
        /\ held'[p] = NextManifest(task[p].day, task[p].complete)
    BY <1>5 DEF LoadManifest, TypeOK, disk
  <2>2. task[p].complete => Done(task[p].day, S)'
    BY <1>0, <2>1, Grows DEF RenewingAt
  <2>3. NextManifest(task[p].day, task[p].complete)' = NextManifest(task[p].day, task[p].complete)
    BY <2>1 DEF NextManifest
  <2>. QED
    BY <1>0, <2>1, <2>2, <2>3, ManifestKept DEF RenewingAt, FirstMonth, Done
<1>6. CASE RenameManifest(p)
  <2>1. /\ pc[p] = "commit" /\ manifest' = held[p] /\ candles' = candles
        /\ pc'[p] \in {"scan", "fetch", "evidence"}
        /\ task'[p] = NoTask \/ (task'[p] = task[p] /\ ~task[p].recovery)
    BY <1>6 DEF RenameManifest, TypeOK
  <2>2. manifest' = NextManifest(task[p].day, task[p].complete)
    BY <1>0, <2>1 DEF RenewingAt
  <2>3. CompletedDone(S)'
    <3>1. ASSUME NEW d \in manifest'.completed PROVE Done(d, S)
      <4>1. d \in manifest.completed \/ (d = task[p].day /\ task[p].complete)
        BY <2>2, <3>1 DEF NextManifest
      <4>2. d \in manifest.completed => Done(d, S)
        BY DEF Renewing, CompletedDone, Done
      <4>3. task[p].complete => Done(task[p].day, S)
        BY <1>0, <2>1 DEF RenewingAt
      <4>. QED
        BY <4>1, <4>2, <4>3
    <3>. QED
      BY <3>1, Grows DEF CompletedDone, Done
  <2>4. DigestBehind'
    <3>1. ASSUME NEW mon \in Months
          PROVE  Stored(manifest'.digest[mon]) \subseteq Stored(Partition(mon, candles))
      <4>1. manifest'.digest[mon] = manifest.digest[mon] \/ manifest'.digest[mon] = Partition(mon, candles)
        BY <2>2 DEF NextManifest, TypeOK, Manifests
      <4>. QED
        BY <4>1 DEF Renewing, DigestBehind
    <3>. QED
      BY <2>1, <3>1 DEF DigestBehind
  <2>5. RenewingAt(p, S)'
    BY <2>1, NullTask DEF RenewingAt
  <2>. QED
    BY <2>3, <2>4, <2>5
<1>7. CASE RereadCache(p) \/ LoadEvidence(p) \/ RenameEvidence(p)
  <2>1. /\ pc[p] \in {"evidence", "confirm", "attest"} /\ manifest' = manifest
        /\ pc'[p] \in {"fetch", "confirm", "attest"}
    BY <1>7 DEF RereadCache, LoadEvidence, RenameEvidence, TypeOK, disk
  <2>2. ~task[p].recovery
    BY <1>0, <2>1 DEF RenewingAt
  <2>3. ~task'[p].recovery
    BY <1>7, <2>2, EvidenceKeeps, NullTask
  <2>. QED
    BY <2>1, <2>3, <1>a
<1>8. CASE Recover(p)
  <2>. DEFINE mon == FirstMonth(p)
  <2>1. CASE NeedsRecovery(mon)
    <3>1. PICK d \in Days : d = FirstStoredDay(mon) /\ MonthOf[d] = mon
      BY <2>1, FirstStoredDayType, RecoveryDay DEF NeedsRecovery, TypeOK
    <3>2. PICK new : new = [day |-> d, frame |-> EmptyFrame, complete |-> d \in manifest.completed,
                            absent |-> {}, records |-> {}, recovery |-> TRUE]
      OBVIOUS
    <3>3. /\ task' = [task EXCEPT ![p] = new] /\ pc'[p] = "load" /\ manifest' = manifest
          /\ months' = months
      BY <1>8, <2>1, <3>1, <3>2 DEF Recover, TypeOK, disk
    <3>4. task'[p] = new /\ new.day = d /\ (new.complete <=> d \in manifest.completed)
      BY <3>2, <3>3 DEF TypeOK
    <3>5. d \in manifest.completed => Done(d, S)'
      BY Grows DEF Renewing, CompletedDone, Done
    <3>6. (task[p].complete => Served(task[p].day, task[p].frame, S))'
      BY <3>4, <3>5 DEF Done, Served
    <3>7. (MonthOf[task[p].day] = FirstMonth(p))'
      BY <3>1, <3>3, <3>4 DEF FirstMonth
    <3>. QED
      BY <3>3, <3>6, <3>7, ManifestKept DEF RenewingAt
  <2>2. CASE ~NeedsRecovery(mon)
    BY <1>8, <1>b, <2>2 DEF Recover, TypeOK, disk
  <2>. QED
    BY <2>1, <2>2
<1>. QED
  BY <1>1, <1>2, <1>3, <1>4, <1>5, <1>6, <1>7, <1>8 DEF Work, Write

LEMMA RenewingStep ==
  ASSUME NEW S, OneWriter, TypeOK, Punctual, Scoped, SeenIsCurrent, Renewing(S), [Next]_vars
  PROVE  Renewing(S)'
<1>1. CASE Tick \/ UNCHANGED vars
  <2>1. UNCHANGED <<disk, memory>>
    BY <1>1 DEF Tick, vars
  <2>2. ASSUME NEW p \in Procs PROVE RenewingAt(p, S)'
    <3>1. RenewingAt(p, S)
      BY DEF Renewing
    <3>2. NextManifest(task[p].day, task[p].complete)' = NextManifest(task[p].day, task[p].complete)
      BY <2>1 DEF NextManifest, disk, memory
    <3>3. Served(task[p].day, task[p].frame, S) => Served(task[p].day, task[p].frame, S)'
      BY <2>1, Grows DEF Served, disk, memory
    <3>4. Done(task[p].day, S) => Done(task[p].day, S)'
      BY <2>1, Grows DEF Done, disk, memory
    <3>. QED
      BY <2>1, <3>1, <3>2, <3>3, <3>4 DEF RenewingAt, FirstMonth, disk, memory
  <2>. QED
    BY <2>1, <2>2, ManifestKept DEF Renewing, disk
<1>2. ASSUME NEW p \in Procs, Command(p) \/ Die(p) PROVE Renewing(S)'
  <2>1. manifest' = manifest /\ pc'[p] \in {"idle", "scan", "fetch"} /\ ~task'[p].recovery
    <3>1. CASE Die(p)
      BY <3>1, NullTask DEF Die, Quiesce, TypeOK, disk
    <3>2. CASE Command(p)
      <4>1. pc[p] = "idle" /\ task' = task /\ manifest' = manifest /\ pc'[p] \in {"scan", "fetch"}
        BY <3>2 DEF Command, StartDownload, StartRepair, TypeOK, disk
      <4>. QED
        BY <4>1, NullTask DEF Scoped, ScopedAt
    <3>. QED
      BY <1>2, <3>1, <3>2
  <2>2. RenewingAt(p, S)'
    BY <2>1 DEF RenewingAt
  <2>. QED
    BY <2>1, <2>2, ManifestKept DEF Renewing, OneWriter
<1>3. ASSUME NEW p \in Procs, Work(p) PROVE Renewing(S)'
  BY <1>3, RenewingWork DEF Renewing, OneWriter
<1>. QED
  BY <1>1, <1>2, <1>3 DEF Next

LEMMA OneWriterAlways ==
  ASSUME OneWriter
  PROVE  Spec => [](TypeOK /\ ClosedInMemory /\ Scoped /\ SeenIsCurrent /\ Renewing({}))
<1>1. Init => SeenIsCurrent
  BY DEF Init, SeenIsCurrent
<1>2. Init => Renewing({})
  <2>. SUFFICES ASSUME Init PROVE Renewing({})
    OBVIOUS
  <2>1. CompletedDone({})
    BY DEF Init, CompletedDone, NoManifest
  <2>2. DigestBehind
    <3>1. \A mon \in Months : manifest.digest[mon] = EmptyFrame
      BY DEF Init, NoManifest
    <3>. QED
      BY <3>1, StoredOps DEF DigestBehind
  <2>3. \A p \in Procs : RenewingAt(p, {})
    BY NullTask DEF Init, RenewingAt
  <2>. QED
    BY <2>1, <2>2, <2>3 DEF Renewing
<1>3. TypeOK /\ SeenIsCurrent /\ [Next]_vars => SeenIsCurrent'
  BY OneWriter, SeenStep
<1>4. TypeOK /\ ClosedInMemory /\ Scoped /\ SeenIsCurrent /\ Renewing({}) /\ [Next]_vars => Renewing({})'
  BY OneWriter, RenewingStep DEF ClosedInMemory, Punctual
<1>. QED
  BY <1>1, <1>2, <1>3, <1>4, ScopedAlways, PTL DEF Spec

\* With one process writing, a day the manifest calls complete is over and has
\* on disk all that the provider always serves for it, wherever the process
\* dies: a later download may skip it.
THEOREM CompleteDaysAreComplete == ASSUME OneWriter PROVE Spec => []CompleteDaysNeedNoDownload
<1>1. Renewing({}) => CompleteDaysNeedNoDownload
  BY DEF Renewing, CompletedDone, Done, CompleteDaysNeedNoDownload
<1>. QED
  BY <1>1, OneWriter, OneWriterAlways, PTL

-----------------------------------------------------------------------------
(* Action properties of one writer.                                         *)

\* Only the rename of a Parquet file changes the candles.
LEMMA CandlesChange ==
  ASSUME [Next]_vars, candles' # candles
  PROVE  \E p \in Procs : RenameParquet(p)
<1>1. CASE Tick \/ UNCHANGED vars
  BY <1>1 DEF Tick, vars, disk
<1>2. ASSUME NEW p \in Procs, Command(p) \/ Work(p) \/ Die(p), ~RenameParquet(p)
      PROVE  UNCHANGED candles
  BY <1>2 DEF Command, Work, Write, Die, StartDownload, StartRepair, Begin,
           ScanMonth, NothingDue, FetchDownload, FetchRepair, FetchConfirmed,
           LoadPartition, LoadManifest, RenameManifest, RereadCache, LoadEvidence, RenameEvidence, Recover,
           FetchFails, disk
<1>. QED
  BY <1>1, <1>2 DEF Next

LEMMA WindowStep ==
  ASSUME OneWriter, TypeOK, Scoped, SeenIsCurrent, [Next]_vars, NEW p \in Procs,
         pc[p] = "parquet", job[p].kind = "repair", NEW m \in Minutes, candles'[m] # candles[m]
  PROVE  m \in job[p].window \cap OpenMinutes
<1>1. RenameParquet(p)
  BY CandlesChange DEF OneWriter
<1>. DEFINE mon == MonthOf[task[p].day]
            incoming == Incoming(task[p].frame, seen[p])
<1>2. Month(m) = mon /\ candles'[m] = Overlay(seen[p], incoming)[m]
  BY <1>1 DEF RenameParquet
<1>3. seen[p][m] = candles[m]
  BY <1>2 DEF SeenIsCurrent, Partition
<1>4. m \in Stored(task[p].frame)
  BY <1>2, <1>3 DEF Incoming, Only, Overlay, Stored
<1>. QED
  BY <1>4 DEF Scoped, ScopedAt

\* With one process writing, a repair stores nothing outside the open minutes
\* of the window it was asked for, although it downloads whole days.
THEOREM RepairInWindow == ASSUME OneWriter PROVE Spec => RepairStaysInWindow
<1>1. TypeOK /\ Scoped /\ SeenIsCurrent /\ [Next]_vars =>
        [\A p \in Procs : pc[p] = "parquet" /\ job[p].kind = "repair" =>
           \A m \in Minutes : candles'[m] # candles[m] =>
             m \in job[p].window \cap OpenMinutes]_vars
  BY OneWriter, WindowStep
<1>. QED
  BY <1>1, OneWriter, OneWriterAlways, PTL DEF Spec, RepairStaysInWindow

LEMMA RenewsStep ==
  ASSUME OneWriter, TypeOK, Scoped, Renewing({}), [Next]_vars, NEW p \in Procs,
         NEW mon \in months[p] \ months'[p], pc'[p] = "scan"
  PROVE  manifest'.digest[mon] = Partition(mon, candles)'
<1>0. RenewingAt(p, {}) /\ mon \in Months /\ candles \in Frames
  BY DEF Renewing, TypeOK
<1>1. CASE RenameManifest(p)
  <2>1. /\ task[p].recovery /\ mon = FirstMonth(p) /\ candles' = candles
        /\ manifest' = NextManifest(task[p].day, task[p].complete)
    BY <1>0, <1>1 DEF RenameManifest, RenewingAt, TypeOK
  <2>2. MonthOf[task[p].day] = mon
    BY <1>0, <2>1 DEF RenewingAt
  <2>. QED
    BY <1>0, <2>1, <2>2 DEF NextManifest, TypeOK, Manifests
<1>2. CASE Recover(p)
  <2>1. mon = FirstMonth(p) /\ ~NeedsRecovery(mon) /\ manifest' = manifest /\ candles' = candles
    BY <1>2 DEF Recover, TypeOK, disk
  <2>2. CASE manifest.digest[mon] = Partition(mon, candles)
    BY <2>1, <2>2
  <2>3. CASE Stored(Partition(mon, candles)) = {}
    <3>1. Stored(manifest.digest[mon]) = {}
      BY <1>0, <2>3 DEF Renewing, DigestBehind
    <3>2. manifest.digest[mon] \in Frames /\ Partition(mon, candles) \in Frames
      BY <1>0, FrameOps DEF TypeOK, Manifests
    <3>3. ASSUME NEW f \in Frames, Stored(f) = {} PROVE f = EmptyFrame
      BY <3>3 DEF Frames, Stored, EmptyFrame
    <3>4. manifest.digest[mon] = EmptyFrame
      BY <3>1, <3>2, <3>3
    <3>5. Partition(mon, candles) = EmptyFrame
      BY <2>3, <3>2, <3>3
    <3>. QED
      BY <2>1, <3>4, <3>5
  <2>. QED
    BY <2>1, <2>2, <2>3 DEF NeedsRecovery
<1>3. RenameManifest(p) \/ Recover(p)
  <2>1. CASE Tick \/ UNCHANGED vars
    BY <2>1 DEF Tick, vars, memory
  <2>2. ASSUME Quiesce(p) PROVE FALSE
    BY <2>2 DEF Quiesce, TypeOK
  <2>3. ASSUME Command(p) PROVE FALSE
    <3>1. ASSUME NEW w, NEW force, StartDownload(p, w, force) PROVE FALSE
      BY <3>1 DEF StartDownload
    <3>2. ASSUME NEW w, NEW confirm, NEW recheck, StartRepair(p, w, confirm, recheck) PROVE FALSE
      BY <3>2 DEF StartRepair, Scoped, ScopedAt
    <3>. QED
      BY <2>3, <3>1, <3>2 DEF Command
  <2>4. ASSUME Work(p), ~RenameManifest(p), ~Recover(p) PROVE FALSE
    BY <2>2, <2>4 DEF Work, Write, ScanMonth, NothingDue, Begin, FetchDownload, FetchRepair,
         FetchConfirmed, LoadPartition, RenameParquet, LoadManifest, RereadCache, LoadEvidence, RenameEvidence, FetchFails
  <2>. QED
    BY <2>1, <2>2, <2>3, <2>4 DEF Next, OneWriter, Die
<1>. QED
  BY <1>1, <1>2, <1>3

\* With one process writing, a repair that is done with a month leaves it with a
\* digest of the file now on disk, whatever an earlier death left behind.
THEOREM RepairRenews == ASSUME OneWriter PROVE Spec => RepairRenewsDigest
<1>1. TypeOK /\ Scoped /\ Renewing({}) /\ [Next]_vars =>
        [\A p \in Procs : \A mon \in months[p] \ months'[p] :
           pc'[p] = "scan" => manifest'.digest[mon] = Partition(mon, candles)']_vars
  BY OneWriter, RenewsStep
<1>. QED
  BY <1>1, OneWriter, OneWriterAlways, PTL DEF Spec, RepairRenewsDigest

\* Only the rename of the manifest changes it.
LEMMA ManifestChange ==
  ASSUME [Next]_vars, manifest' # manifest
  PROVE  \E p \in Procs : RenameManifest(p)
<1>1. CASE Tick \/ UNCHANGED vars
  BY <1>1 DEF Tick, vars, disk
<1>2. ASSUME NEW p \in Procs, Command(p) \/ Work(p) \/ Die(p), ~RenameManifest(p)
      PROVE  UNCHANGED manifest
  BY <1>2 DEF Command, Work, Write, Die, StartDownload, StartRepair, Begin,
           ScanMonth, NothingDue, FetchDownload, FetchRepair, FetchConfirmed,
           LoadPartition, RenameParquet, LoadManifest, RereadCache, LoadEvidence, RenameEvidence, Recover,
           FetchFails, disk
<1>. QED
  BY <1>1, <1>2 DEF Next

\* The manifest a write renames differs in the digest of its own month only.
LEMMA DigestRenewed ==
  ASSUME TypeOK, Renewing({}), NEW p \in Procs, RenameManifest(p), NEW mon \in Months
  PROVE  /\ candles' = candles
         /\ manifest'.digest[mon] = IF mon = MonthOf[task[p].day] THEN Partition(mon, candles)
                                                                 ELSE manifest.digest[mon]
<1>1. manifest' = NextManifest(task[p].day, task[p].complete) /\ candles' = candles
  BY DEF RenameManifest, Renewing, RenewingAt
<1>. QED
  BY <1>1 DEF NextManifest, TypeOK, Manifests

LEMMA LagStep ==
  ASSUME OneWriter, TypeOK, Renewing({}), [Next]_vars, NEW mon \in Months,
         ~RevisionStale(mon), RevisionStale(mon)'
  PROVE  \E p \in Procs : BetweenRenames(p, mon) /\ pc'[p] = "idle"
<1>0. /\ manifest'.digest[mon] # Partition(mon, candles')
      /\ \A p \in Procs : ~BetweenRenames(p, mon)'
  BY DEF RevisionStale, DataRevision
<1>1. ASSUME NEW p \in Procs, BetweenRenames(p, mon), pc'[p] # "idle" PROVE FALSE
  <2>1. pc[p] \in {"index", "commit"} /\ MonthOf[task[p].day] = mon
    BY <1>1 DEF BetweenRenames
  <2>2. CASE Tick \/ UNCHANGED vars
    BY <1>0, <2>1, <2>2 DEF Tick, vars, memory, BetweenRenames
  <2>3. ASSUME Quiesce(p) PROVE FALSE
    BY <1>1, <2>3 DEF Quiesce, TypeOK
  <2>4. CASE LoadManifest(p)
    BY <1>0, <2>1, <2>4 DEF LoadManifest, BetweenRenames, TypeOK
  <2>5. CASE RenameManifest(p)
    BY <1>0, <2>1, <2>5, DigestRenewed
  <2>6. ASSUME Command(p) \/ Work(p) \/ Die(p), ~LoadManifest(p), ~RenameManifest(p) PROVE FALSE
    BY <2>1, <2>3, <2>6
       DEF Command, Work, Write, Die, StartDownload, StartRepair, ScanMonth, NothingDue, Begin,
           FetchDownload, FetchRepair, FetchConfirmed, LoadPartition, RenameParquet,
           RereadCache, LoadEvidence, RenameEvidence, Recover, FetchFails
  <2>. QED
    BY <2>2, <2>4, <2>5, <2>6 DEF Next, OneWriter
<1>2. ASSUME \A p \in Procs : ~BetweenRenames(p, mon) PROVE FALSE
  <2>1. manifest.digest[mon] = Partition(mon, candles)
    BY <1>2 DEF RevisionStale, DataRevision
  <2>2. ASSUME NEW p \in Procs, RenameParquet(p) PROVE FALSE
    <3>1. MonthOf[task[p].day] # mon /\ manifest' = manifest
      BY <1>0, <2>2 DEF RenameParquet, BetweenRenames, TypeOK
    <3>2. Partition(mon, candles') = Partition(mon, candles)
      BY <2>2, <3>1 DEF RenameParquet, Partition
    <3>. QED
      BY <1>0, <2>1, <3>1, <3>2
  <2>3. ASSUME NEW p \in Procs, RenameManifest(p) PROVE FALSE
    <3>1. MonthOf[task[p].day] # mon
      BY <1>2, <2>3 DEF RenameManifest, BetweenRenames
    <3>. QED
      BY <1>0, <2>1, <2>3, <3>1, DigestRenewed
  <2>. QED
    BY <1>0, <2>1, <2>2, <2>3, CandlesChange, ManifestChange
<1>. QED
  BY <1>1, <1>2

\* With one process writing, the revision a backtest records for a month falls
\* behind the month's file only when a write dies between its two renames.
THEOREM LagsOnlyAfterDeath == ASSUME OneWriter PROVE Spec => RevisionLagsOnlyAfterDeath
<1>1. TypeOK /\ Renewing({}) /\ [Next]_vars =>
        [\A mon \in Months :
           ~RevisionStale(mon) /\ RevisionStale(mon)' =>
             \E p \in Procs : BetweenRenames(p, mon) /\ pc'[p] = "idle"]_vars
  BY OneWriter, LagStep
<1>. QED
  BY <1>1, OneWriter, OneWriterAlways, PTL DEF Spec, RevisionLagsOnlyAfterDeath

-----------------------------------------------------------------------------
(* The ledger of observations.                                              *)

LEMMA LedgerStep ==
  ASSUME TypeOK, ClosedInMemory, Scoped, SeenIsCurrent, Attesting, [Next]_vars
  PROVE  [Ledger!Next]_(Ledger!vars)
<1>1. CASE UNCHANGED <<clock, candles, confirmed>>
  BY <1>1 DEF Ledger!vars
<1>2. CASE Tick
  BY <1>2 DEF Tick, disk, Ledger!Next, Ledger!Elapse
<1>3. ASSUME NEW p \in Procs, RenameParquet(p) PROVE Ledger!Record
  <2>1. candles' \in [Minutes -> Values \cup {NoBar}]
    BY TypeStep DEF TypeOK, Frames, Bars
  <2>2. clock' = clock /\ confirmed' = confirmed
    BY <1>3 DEF RenameParquet
  <2>3. ASSUME NEW m \in Minutes, candles'[m] # candles[m] PROVE candles[m] = NoBar /\ m < clock
    <3>1. candles[m] = NoBar
      BY <2>3, PermanentStep
    <3>2. OnlyClosedMinutes'
      BY ClosedInMemoryStep DEF ClosedInMemory
    <3>. QED
      BY <2>2, <2>3, <3>1, <3>2 DEF OnlyClosedMinutes
  <2>. QED
    BY <2>1, <2>2, <2>3 DEF Ledger!Record
<1>4. ASSUME NEW p \in Procs, RenameEvidence(p) PROVE Ledger!Attest
  <2>1. confirmed' \in SUBSET Minutes
    BY TypeStep DEF TypeOK
  <2>2. clock' = clock /\ candles' = candles /\ confirmed \subseteq confirmed'
    BY <1>4, EvidenceAdded DEF RenameEvidence
  <2>3. ASSUME NEW m \in confirmed' \ confirmed PROVE candles[m] = NoBar /\ m < clock
    <3>1. candles[m] = NoBar /\ DayEnded(DayOf[m], clock)
      BY EvidenceStep
    <3>. QED
      BY <2>1, <3>1 DEF DayEnded, MinutesOf
  <2>. QED
    BY <2>1, <2>2, <2>3 DEF Ledger!Attest
<1>5. ASSUME NEW p \in Procs, Command(p) \/ Work(p) \/ Die(p),
             ~RenameParquet(p), ~RenameEvidence(p)
      PROVE  UNCHANGED <<clock, candles, confirmed>>
  BY <1>5 DEF Command, Work, Write, Die, StartDownload, StartRepair, Begin,
           ScanMonth, NothingDue, FetchDownload, FetchRepair, FetchConfirmed,
           LoadPartition, LoadManifest, RenameManifest, RereadCache, LoadEvidence,
           Recover, FetchFails, disk
<1>6. CASE UNCHANGED vars
  BY <1>1, <1>6 DEF vars, disk
<1>. QED
  BY <1>1, <1>2, <1>3, <1>4, <1>5, <1>6 DEF Next, Ledger!Next

\* With one process writing, the cache is the ledger of observations: candles
\* enter once, for closed minutes, and never change; evidence of absence is
\* only added, about minutes without a candle.
THEOREM LedgerImplemented == ASSUME OneWriter PROVE Spec => ImplementsLedger
<1>1. Init => Ledger!Init
  BY DEF Init, EmptyFrame, Ledger!Init
<1>2. TypeOK /\ ClosedInMemory /\ Scoped /\ SeenIsCurrent /\ Attesting /\ [Next]_vars
        => [Ledger!Next]_(Ledger!vars)
  BY LedgerStep
<1>3. Init => Attesting
  BY DEF Init, Attesting, AttestingAt
<1>4. TypeOK /\ Attesting /\ [Next]_vars => Attesting'
  BY OneWriter, AttestingStep
<1>. QED
  BY <1>1, <1>2, <1>3, <1>4, OneWriter, OneWriterAlways, PTL DEF Spec, ImplementsLedger, Ledger!Spec
=============================================================================
