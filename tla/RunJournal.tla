----------------------------- MODULE RunJournal -----------------------------
(***************************************************************************)
(* What a client of the API is promised about research runs: a run is      *)
(* queued, may run, and ends once, as completed or as failed.  Its result  *)
(* is published while it runs, and a run is completed only after its       *)
(* result was published.  `latest' shows a published result or a legacy    *)
(* one.  A run may also stay where it is for ever: nothing here resumes a  *)
(* run that a crash left behind.                                           *)
(***************************************************************************)
CONSTANTS Runs, Legacy, NoResult

VARIABLES status, published, latest

journal == <<status, published, latest>>

Init ==
  /\ status = [r \in Runs |-> "absent"]
  /\ published = {}
  /\ latest = NoResult

Move(r, from, to) ==
  /\ status[r] \in from
  /\ status' = [status EXCEPT ![r] = to]
  /\ UNCHANGED <<published, latest>>

Queue(r) == Move(r, {"absent"}, "queued")
Start(r) == Move(r, {"queued"}, "running")
Complete(r) == r \in published /\ Move(r, {"running"}, "completed")
Fail(r) == Move(r, {"queued", "running"}, "failed")

Publish(r) ==
  /\ status[r] = "running"
  /\ published' = published \cup {r}
  /\ UNCHANGED <<status, latest>>

Show(x) ==
  /\ x = Legacy \/ (x \in published /\ status[x] = "running")
  /\ latest' = x
  /\ UNCHANGED <<status, published>>

Next ==
  \/ \E r \in Runs : Queue(r) \/ Start(r) \/ Publish(r) \/ Complete(r) \/ Fail(r)
  \/ \E x \in Runs \cup {Legacy} : Show(x)

Spec == Init /\ [][Next]_journal
=============================================================================
