------------------------------- MODULE BatchRun -------------------------------
(***************************************************************************)
(* A batch: several tasks of one run, executed one after the other in one  *)
(* worktree, each in a turn of the runtime.  The store journals every turn *)
(* (run_task_turns), the server is told of every finished one (a           *)
(* checkpoint), and a single snapshot of the worktree goes for review.     *)
(*                                                                         *)
(* The daemon may die between any two of these, an answer may be lost, and *)
(* the user may edit the worktree (`changes path` shows where it is).  A   *)
(* tree is the set of what has been written into it: the whole or a part   *)
(* of a turn's work, or an edit.                                           *)
(*                                                                         *)
(* How a run is claimed, leased and recovered is in RunSupervisor; here it *)
(* has at most one execution at a time.                                    *)
(***************************************************************************)
EXTENDS Naturals, Sequences

CONSTANTS
  N,          \* the number of tasks
  MaxTurns,   \* bound: turns of the runtime
  MaxRev,     \* bound: turn revisions of a task
  MaxFaults,  \* bound: calls that fail or whose answer is lost
  MaxDeaths,  \* bound: deaths of the daemon
  MaxEdits    \* bound: edits by the user

ASSUME BatchAssumption ==
  /\ N \in Nat \ {0} /\ MaxRev \in Nat \ {0}
  /\ MaxFaults \in Nat /\ MaxDeaths \in Nat /\ MaxEdits \in Nat
  /\ MaxTurns \in Nat /\ MaxTurns >= N + MaxFaults + MaxDeaths

Ordinals == 1..N
Turns    == 1..MaxTurns
Work     == ({"part", "whole"} \X Turns) \cup ({"edit"} \X (1..MaxEdits))

VARIABLES
  srv,    \* the server: the state of the run
  cur,    \* the server: current_task_ordinal
  mem,    \* the server: the tasks of the run
  rows,   \* run_task_turns, by task and turn revision
  pend,   \* pending_result: the turns it reports, by task
  cset,   \* the state of the change set
  ref,    \* refs/tb-agent/runs/<run>: the tree of the snapshot
  tree,   \* the worktree
  pc,     \* where _execute_batch is
  turns, edits, faults, deaths

server == <<srv, cur, mem>>
store  == <<rows, pend, cset>>
bounds == <<turns, edits, faults, deaths>>
vars   == <<srv, cur, mem, rows, pend, cset, ref, tree, pc, turns, edits, faults,
            deaths>>

-----------------------------------------------------------------------------
(* Data *)

NoTurn == 0
NoRow  == [state |-> "none", turn |-> NoTurn, tree |-> {}]

\* "leased" is claimed or running; "waiting" a run paused on a question, a
\* blocker or a failure that may be retried.
RunState == {"queued", "leased", "waiting", "review"}
RowState == {"none", "running", "result_saved", "checkpoint_acknowledged"}
Steps    == {"down", "off", "load", "turn", "result", "checkpoint", "report",
             "snapshot", "complete"}

Init ==
  /\ srv = "queued" /\ cur = 1
  /\ mem = [k \in Ordinals |-> [state |-> "pending", rev |-> 1, tree |-> {}]]
  /\ rows = [k \in Ordinals |-> [v \in 1..MaxRev |-> NoRow]]
  /\ pend = <<>> /\ cset = "executing" /\ ref = <<>> /\ tree = {}
  /\ pc = "off"
  /\ turns = 0 /\ edits = 0 /\ faults = 0 /\ deaths = 0

Fault == faults < MaxFaults /\ faults' = faults + 1
Row(k) == rows[k][mem[k].rev]

-----------------------------------------------------------------------------
(* Leases, see RunSupervisor *)

\* A saved result is not computed again: the loop over the tasks is skipped.
Entry == IF pend = <<>> THEN "load" ELSE "snapshot"

ClaimRun ==
  /\ pc \in {"off", "down"} /\ srv = "queued"
  /\ srv' = "leased" /\ pc' = Entry
  /\ UNCHANGED <<cur, mem, store, ref, tree, bounds>>

\* _recover_workers, after a restart.
RecoverRun ==
  /\ pc = "down" /\ srv = "leased" /\ pc' = Entry
  /\ UNCHANGED <<server, store, ref, tree, bounds>>

\* Nobody renews the lease.  The server may give the interrupted turn a new
\* revision.
LeaseExpires ==
  /\ pc \in {"off", "down"} /\ srv = "leased" /\ srv' = "queued"
  /\ \/ UNCHANGED mem
     \/ /\ mem[cur].state = "pending" /\ mem[cur].rev < MaxRev
        /\ mem' = [mem EXCEPT ![cur].rev = @ + 1]
  /\ UNCHANGED <<cur, store, ref, tree, pc, bounds>>

\* The user answers or retries; the turn has a new revision, or the same.
ResumeRun ==
  /\ srv = "waiting" /\ srv' = "queued"
  /\ \/ UNCHANGED mem
     \/ /\ mem[cur].state = "pending" /\ mem[cur].rev < MaxRev
        /\ mem' = [mem EXCEPT ![cur].rev = @ + 1]
  /\ UNCHANGED <<cur, store, ref, tree, pc, bounds>>

-----------------------------------------------------------------------------
(* _execute_batch *)

\* acknowledge_task_turn for every earlier task the server has completed.
AcknowledgeEarlier ==
  [k \in Ordinals |-> [v \in 1..MaxRev |->
     IF /\ k < cur /\ mem[k].state = "completed" /\ mem[k].rev = v
        /\ rows[k][v].state = "result_saved"
     THEN [rows[k][v] EXCEPT !.state = "checkpoint_acknowledged"]
     ELSE rows[k][v]]]

\* Slip: an acknowledged turn is not found.
SavedOnly(k) == Row(k).state = "result_saved"

\* task_turn_result
Saved(k) == Row(k).state \in {"result_saved", "checkpoint_acknowledged"}

\* The saved turn's tree, else the last checkpoint's, else the base.
CheckpointTree(k) ==
  IF Saved(k) THEN Row(k).tree ELSE IF k > 1 THEN mem[k - 1].tree ELSE {}

\* begin_task_turn
BegunTurn(k) ==
  [AcknowledgeEarlier EXCEPT ![k][mem[k].rev].state =
     IF @ = "none" THEN "running" ELSE @]

\* Slip: a worktree that is not as expected is taken as it is.
LoadTaskUnrestored ==
  /\ pc = "load"
  /\ UNCHANGED tree
  /\ IF Saved(cur)
     THEN pc' = "checkpoint" /\ rows' = AcknowledgeEarlier /\ UNCHANGED turns
     ELSE /\ turns < MaxTurns /\ turns' = turns + 1
          /\ pc' = "turn" /\ rows' = BegunTurn(cur)
  /\ UNCHANGED <<server, pend, cset, ref, edits, faults, deaths>>

\* Slip: a task that is completed already is no current task.
LoadTaskPending ==
  /\ pc = "load" /\ mem[cur].state = "pending"
  /\ tree' = CheckpointTree(cur)
  /\ IF Saved(cur)
     THEN pc' = "checkpoint" /\ rows' = AcknowledgeEarlier /\ UNCHANGED turns
     ELSE /\ turns < MaxTurns /\ turns' = turns + 1
          /\ pc' = "turn" /\ rows' = BegunTurn(cur)
  /\ UNCHANGED <<server, pend, cset, ref, edits, faults, deaths>>

\* The head of the loop: acknowledge, bring the worktree to the checkpoint, and
\* start the turn unless its result was saved.
LoadTask ==
  /\ pc = "load"
  /\ tree' = CheckpointTree(cur)
  /\ IF Saved(cur)
     THEN pc' = "checkpoint" /\ rows' = AcknowledgeEarlier /\ UNCHANGED turns
     ELSE /\ turns < MaxTurns /\ turns' = turns + 1
          /\ pc' = "turn" /\ rows' = BegunTurn(cur)
  /\ UNCHANGED <<server, pend, cset, ref, edits, faults, deaths>>

\* The runtime writes.
WorkOnTask ==
  /\ pc = "turn" /\ tree' = tree \cup {<<"part", turns>>}
  /\ UNCHANGED <<server, store, ref, pc, bounds>>

TurnSucceeds ==
  /\ pc = "turn" /\ pc' = "result"
  /\ tree' = (tree \ {<<"part", turns>>}) \cup {<<"whole", turns>>}
  /\ UNCHANGED <<server, store, ref, bounds>>

\* The bound on turns is a bound on pauses: what may still be interrupted has
\* turns left.
RoomToPause == turns + (MaxFaults - faults) + (MaxDeaths - deaths) + (N - cur) < MaxTurns

\* A question, a blocker or a failure, with what was written until then.
PauseRun ==
  /\ pc = "turn" /\ RoomToPause /\ pc' = "off" /\ srv' = "waiting"
  /\ UNCHANGED <<cur, mem, store, ref, tree, bounds>>

\* Slip: the result is kept in memory until the server has acknowledged it.
SaveTurnLater ==
  /\ pc = "result" /\ pc' = "checkpoint"
  /\ UNCHANGED <<server, store, ref, tree, bounds>>

\* save_task_turn_result
SaveTurn ==
  /\ pc = "result" /\ pc' = "checkpoint"
  /\ Row(cur).state \in {"running", "result_saved"}
  /\ rows' = [rows EXCEPT ![cur][mem[cur].rev] =
                [state |-> "result_saved", turn |-> turns, tree |-> tree]]
  /\ UNCHANGED <<server, pend, cset, ref, tree, bounds>>

\* checkpoint_task on the server, which answers a repeated one alike.
TakesCheckpoint ==
  /\ srv = "leased"
  /\ mem' = [mem EXCEPT ![cur].state = "completed", ![cur].tree = Row(cur).tree]
  /\ cur' = IF cur < N THEN cur + 1 ELSE cur

\* Its answer, acknowledge_task_turn, and on to the next task or the report.
Checkpoint ==
  /\ pc = "checkpoint" /\ TakesCheckpoint
  /\ rows' = IF Saved(cur)
             THEN [rows EXCEPT ![cur][mem[cur].rev].state = "checkpoint_acknowledged"]
             ELSE rows
  /\ pc' = IF cur' > cur THEN "load" ELSE "report"
  /\ UNCHANGED <<srv, pend, cset, ref, tree, bounds>>

CheckpointLost ==
  /\ pc = "checkpoint" /\ TakesCheckpoint /\ Fault
  /\ pc' = "off"
  /\ UNCHANGED <<srv, store, ref, tree, turns, edits, deaths>>

\* Slip: results are looked for in the state they were saved in.
NewestSaved(k) ==
  LET saved == {v \in 1..MaxRev : rows[k][v].state = "result_saved"}
  IN  IF saved = {} THEN NoTurn
      ELSE rows[k][CHOOSE v \in saved : \A u \in saved : u <= v].turn

\* task_turn_results: the newest acknowledged turn of each task.
Newest(k) ==
  LET acked == {v \in 1..MaxRev : rows[k][v].state = "checkpoint_acknowledged"}
  IN  IF acked = {} THEN NoTurn
      ELSE rows[k][CHOOSE v \in acked : \A u \in acked : u <= v].turn

SaveReport ==
  /\ pc = "report" /\ pc' = "snapshot"
  /\ pend' = <<[k \in Ordinals |-> Newest(k)]>>
  /\ UNCHANGED <<server, rows, cset, ref, tree, bounds>>

\* create_snapshot: an existing ref of this run is taken as it is.
CreateSnapshot ==
  /\ pc = "snapshot" /\ cset = "snapshotting" /\ ref = <<>>
  /\ ref' = <<tree>>
  /\ UNCHANGED <<server, store, tree, pc, bounds>>

\* The change set goes on, one transaction after the other.
AdvanceChangeSet ==
  /\ pc = "snapshot"
  /\ \/ cset = "executing" /\ cset' = "snapshotting" /\ UNCHANGED pc
     \/ cset = "snapshotting" /\ ref # <<>> /\ cset' = "snapshot_ready" /\ UNCHANGED pc
     \/ cset = "snapshot_ready" /\ cset' = "review_ready" /\ UNCHANGED pc
     \/ cset = "review_ready" /\ pc' = "complete" /\ UNCHANGED cset
  /\ UNCHANGED <<server, rows, pend, ref, tree, bounds>>

Complete ==
  /\ pc = "complete" /\ srv = "leased" /\ srv' = "review"
  /\ pend' = <<>> /\ pc' = "off"
  /\ UNCHANGED <<cur, mem, rows, cset, ref, tree, bounds>>

\* A call fails before it reaches the server, and with it the execution.
Abandon ==
  /\ pc \in {"load", "turn", "checkpoint", "complete"} /\ Fault /\ pc' = "off"
  /\ UNCHANGED <<server, store, ref, tree, turns, edits, deaths>>

\* A worktree that is being restored may have lost some of what was in it.
Interrupted == IF pc = "load" THEN SUBSET tree ELSE {tree}

\* git or a file fails: the run is reported as failed, which the user may retry.
FailLocally ==
  /\ pc \in {"load", "turn", "result", "snapshot"} /\ Fault
  /\ pc' = "off" /\ srv' = "waiting" /\ tree' \in Interrupted
  /\ UNCHANGED <<cur, mem, store, ref, turns, edits, deaths>>

-----------------------------------------------------------------------------

DaemonDies ==
  /\ pc # "down" /\ deaths < MaxDeaths /\ deaths' = deaths + 1
  /\ pc' = "down" /\ tree' \in Interrupted
  /\ UNCHANGED <<server, store, ref, turns, edits, faults>>

EditWorktree ==
  /\ edits < MaxEdits /\ edits' = edits + 1
  /\ tree' = tree \cup {<<"edit", edits'>>}
  /\ UNCHANGED <<server, store, ref, pc, turns, faults, deaths>>

Execute ==
  \/ LoadTask \/ TurnSucceeds \/ PauseRun \/ SaveTurn \/ Checkpoint \/ SaveReport
  \/ CreateSnapshot \/ AdvanceChangeSet \/ Complete

Next ==
  \/ ClaimRun \/ RecoverRun \/ LeaseExpires \/ ResumeRun
  \/ Execute \/ WorkOnTask \/ CheckpointLost \/ Abandon \/ FailLocally
  \/ DaemonDies \/ EditWorktree

Spec == Init /\ [][Next]_vars

\* An execution goes on, a runtime ends its turn, and the daemon's loop and the
\* server see to the leases.
FairSpec ==
  /\ Spec
  /\ WF_vars(Execute) /\ WF_vars(ClaimRun) /\ WF_vars(RecoverRun \/ LeaseExpires)

-----------------------------------------------------------------------------
(* Properties *)

TypeOK ==
  /\ srv \in RunState /\ cur \in Ordinals
  /\ mem \in [Ordinals -> [state : {"pending", "completed"}, rev : 1..MaxRev,
                           tree : SUBSET Work]]
  /\ rows \in [Ordinals -> [1..MaxRev ->
                 [state : RowState, turn : 0..MaxTurns, tree : SUBSET Work]]]
  /\ pend = <<>> \/ pend \in [1..1 -> [Ordinals -> Turns]]
  /\ cset \in {"executing", "snapshotting", "snapshot_ready", "review_ready"}
  /\ ref = <<>> \/ ref \in [1..1 -> SUBSET Work]
  /\ tree \in SUBSET Work /\ pc \in Steps
  /\ turns \in 0..MaxTurns /\ edits \in 0..MaxEdits
  /\ faults \in 0..MaxFaults /\ deaths \in 0..MaxDeaths

\* What turns have written, without the user's edits.
Written(t) == {w \in t : w[1] # "edit"}

\* The turn a task was completed with.
CompletedTurn(k) == Row(k).turn

\* CHANGELOG.md: "Persist each task result and tree checkpoint before
\* advancing": what the server has of a completed task, the store has.
PersistedBeforeAdvancing ==
  \A k \in Ordinals : mem[k].state = "completed" =>
    Saved(k) /\ Row(k).tree = mem[k].tree

\* CHANGELOG.md: "daemon restarts resume without rerunning acknowledged turns".
CompletedNotRerun ==
  [][turns' # turns => mem[cur].state = "pending"]_vars

\* The snapshot that goes for review holds the whole work of the reported
\* turns, and nothing of any other turn.
SnapshotIsReportedWork ==
  ref # <<>> => Written(ref[1]) = {<<"whole", CompletedTurn(k)>> : k \in Ordinals}

\* A batch comes to review, or waits for its user.
BatchSettles == srv \in {"queued", "leased"} ~> srv \in {"review", "waiting"}
=============================================================================
