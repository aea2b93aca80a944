------------------------------- MODULE Handoff -------------------------------
(***************************************************************************)
(* The review, acceptance and hand-off of one retained change set.         *)
(*                                                                         *)
(* A finished run leaves an immutable snapshot commit.  The user may       *)
(* validate it (`changes test`), edit the worktree it was taken from, and  *)
(* accept or reject it in the browser.  Once the server has bound an       *)
(* acceptance, a reconciler - the daemon's polling loop, or the            *)
(* `changes apply` command, which runs the same code in its own process    *)
(* without the daemon lock - advances the run-owned branch from its base   *)
(* to the snapshot and tells the server.                                   *)
(*                                                                         *)
(* Steps are cut at every await on the server, at every SQLite transaction *)
(* and at every Git command: two reconcilers, the validation command and   *)
(* the user interleave between any two of them, and a reconciler may die   *)
(* there.                                                                  *)
(*                                                                         *)
(* There is one snapshot per run (create_snapshot reuses the ref it finds) *)
(* so the commit and tree of a binding are left out of it: a binding is    *)
(* the pair <validation revision, change-set revision>.                    *)
(***************************************************************************)
EXTENDS Naturals

CONSTANTS
  Daemon,       \* the polling daemon of the profile
  Terminals,    \* processes running `tb-agent changes apply`
  OtherProfile, \* another profile's process working on the same repository
  Nobody,       \* the value of "lock" when the repository lock is free
  ServerMayRefuse, \* does the server decline what it may also grant?
  MaxVal,       \* bound: validation revisions begun
  MaxFaults,    \* bound: lost messages, deaths and lock collisions
  MaxEdits,     \* bound: edits by the user of the worktree or the branch
  MaxRetries    \* bound: retries requested in the browser

Procs == {Daemon} \cup Terminals

ASSUME ProcAssumption ==
  /\ Daemon \notin Terminals
  /\ OtherProfile \notin Procs
  /\ Nobody \notin Procs \cup {OtherProfile}

ASSUME BoundAssumption ==
  ServerMayRefuse \in BOOLEAN /\
  MaxVal \in Nat /\ MaxFaults \in Nat /\ MaxEdits \in Nat /\ MaxRetries \in Nat

VARIABLES
  cs,     \* the change_sets row
  vruns,  \* validation_runs: state of each revision
  row,    \* the handoffs row
  branch, \* state of the run_branches row
  ref,    \* where the run-owned branch points in Git
  clean,  \* does the worktree's tree equal the snapshot's tree?
  ports,  \* is the run's port reservation still held?
  lock,   \* holder of <git common dir>/tb-agent/repository.lock
  srv,    \* the run as Tether Brain knows it
  pc,     \* where each reconciler is
  loc,    \* its in-memory copy of the change set ("local")
  rem,    \* its in-memory copy of the server's run ("remote_run")
  head,   \* its in-memory "current_head"
  ack,    \* does the response it got ask for an acknowledgement?
  test,   \* the `changes test` command
  faults, edits,
  moved   \* history: a reconciler's update-ref has moved the branch

localVars == <<cs, vruns, row, branch, ports>>
procVars  == <<pc, loc, rem, head, ack>>
envVars   == <<clean, test, faults, edits>>
vars == <<cs, vruns, row, branch, ref, clean, ports, lock, srv,
          pc, loc, rem, head, ack, test, faults, edits, moved>>

-----------------------------------------------------------------------------
(* Data *)

Binding   == [val : 0..MaxVal, rev : Nat]
NoBinding == [val |-> 0, rev |-> 0]   \* revisions of change sets start at 1

CsState == {"review_ready", "validating", "superseded", "rejected",
            "accepted", "applied"}
RunState == {"none", "running", "passed", "failed"}
ValStatus == RunState \cup {"not_run", "snapshot_invalidated"}
ChangeSet == [state : CsState, val : 0..MaxVal, rev : Nat,
              status : ValStatus, acc : Nat]

\* "none" stands for the absent row.  "due" abstracts next_retry_at: it is
\* FALSE from the scheduling of a retry until that time has come.
RowState == {"none", "applying", "applied", "blocked",
             "retry_requested", "retry_scheduled"}
Row == [state : RowState, val : 0..MaxVal, rev : Nat, due : BOOLEAN,
        consumed : Nat]
NoRow == [state |-> "none", val |-> 0, rev |-> 0, due |-> TRUE, consumed |-> 0]

SrvState == {"review", "rejected", "superseded", "accepted", "applying",
             "handoff_blocked", "awaiting_acknowledgement", "completed"}
Server == [state : SrvState, val : 0..MaxVal, status : ValStatus, rev : Nat,
           acc : Binding, retry : Nat]
Remote == [state : SrvState, retry : Nat]

TestType == [pc : {"idle", "report", "cancel", "running", "finished"},
             val : 0..MaxVal, rev : Nat]

\* What /handoffs lists, and what `changes apply` agrees to work on.
Pending == {"accepted", "applying", "handoff_blocked",
            "awaiting_acknowledgement"}

PcState == {"idle", "supersede", "fetch", "prepare", "accept", "bind", "filter",
            "start", "decide", "apply", "lock", "begin", "move", "move_failed",
            "promote", "finish", "report_blocked", "complete", "settle",
            "ack", "release", "terminal", "exit", "request", "down"}

InitialChangeSet ==
  [state |-> "review_ready", val |-> 0, rev |-> 1, status |-> "not_run",
   acc |-> 0]

InitialRemote == [state |-> "review", retry |-> 0]

NoTest == [pc |-> "idle", val |-> 0, rev |-> 0]

\* The run has executed and its result was acknowledged: the snapshot exists,
\* the change set awaits review and its ports are still reserved.
Init ==
  /\ cs = InitialChangeSet
  /\ vruns = [v \in 1..MaxVal |-> "none"]
  /\ row = NoRow
  /\ branch = "base" /\ ref = "base" /\ clean = TRUE /\ ports = TRUE
  /\ lock = Nobody
  /\ srv = [state |-> "review", val |-> 0, status |-> "not_run", rev |-> 1,
            acc |-> NoBinding, retry |-> 0]
  /\ pc = [p \in Procs |-> "idle"]
  /\ loc = [p \in Procs |-> InitialChangeSet]
  /\ rem = [p \in Procs |-> InitialRemote]
  /\ head = [p \in Procs |-> "base"]
  /\ ack = [p \in Procs |-> FALSE]
  /\ test = NoTest
  /\ faults = 0 /\ edits = 0 /\ moved = FALSE

-----------------------------------------------------------------------------
(* Helpers *)

Goto(p, l) == pc' = [pc EXCEPT ![p] = l]

\* After its hand-offs the daemon goes on with the rest of its loop; the
\* command ends.
AfterHandoffs(p) == IF p = Daemon THEN "terminal" ELSE "exit"

\* The locals of a pass are gone when it ends.
Forget(p) ==
  /\ loc' = [loc EXCEPT ![p] = InitialChangeSet]
  /\ rem' = [rem EXCEPT ![p] = InitialRemote]
  /\ head' = [head EXCEPT ![p] = "base"]
  /\ ack' = [ack EXCEPT ![p] = FALSE]

\* A lost message, a death or a lock collision; all of them are bounded.
Fault == faults < MaxFaults /\ faults' = faults + 1

\* Slip: the next validation revision is stored instead of the current one.
ScheduledRowNextRevision(recoverable) ==
  IF row.state = "none"
  THEN [NoRow EXCEPT !.state = "retry_scheduled", !.val = cs.val + 1, !.rev = cs.rev]
  ELSE row

\* Slip: an applied row is rescheduled like any other.
ScheduledRowAnyState(recoverable) ==
  [row EXCEPT !.state = IF recoverable THEN "retry_scheduled" ELSE "blocked",
              !.val = cs.val, !.rev = cs.rev]

\* _record_handoff_failure and schedule_handoff_retry.
ScheduledRow(recoverable) ==
  LET next == IF recoverable THEN "retry_scheduled" ELSE "blocked"
  IN  IF row.state = "none"
      THEN [NoRow EXCEPT !.state = next, !.val = cs.val, !.rev = cs.rev,
                         !.due = ~recoverable]
      ELSE [row EXCEPT
              !.state = IF @ \in {"applying", "applied", "blocked"} THEN @ ELSE next,
              !.due = ~recoverable]

\* INSERT .. SELECT accepted_snapshot_commit FROM change_sets violates NOT NULL
\* when the change set was never accepted here; sqlite3.IntegrityError is
\* caught by none of the callers, so the process ends.
RecordFailure(p, recoverable) ==
  IF cs.acc = 0
  THEN UNCHANGED row /\ Goto(p, "down")
  ELSE row' = ScheduledRow(recoverable) /\ Goto(p, AfterHandoffs(p))

\* transition_change_set(.., "superseded", increment_revision=True)
Superseded == [cs EXCEPT !.state = "superseded", !.rev = @ + 1,
                         !.status = "snapshot_invalidated"]

\* Slip: any change set whose worktree differs is superseded.
MustSupersedeAnyState == cs.state # "superseded" /\ ~clean

MustSupersede == cs.state = "review_ready" /\ ~clean

-----------------------------------------------------------------------------
(* The daemon's loop around the hand-offs *)

\* _reconcile_change_set_integrity: local half.
ReconcileIntegrity(p) ==
  /\ p = Daemon /\ pc[p] = "idle"
  /\ cs' = IF MustSupersede THEN Superseded ELSE cs
  /\ Goto(p, IF cs'.state = "superseded" /\ cs'.status = "snapshot_invalidated"
             THEN "supersede" ELSE "fetch")
  /\ UNCHANGED <<vruns, row, branch, ref, ports, lock, srv, loc, rem, head, ack,
                 envVars, moved>>

\* The server supersedes a run under review.  What it does with one that left
\* review in the meantime is its own business: it supersedes an accepted run
\* and ignores the request in a later state, or it refuses.
SupersededOnServer ==
  IF srv.state \in {"review", "accepted"}
  THEN [srv EXCEPT !.state = "superseded", !.rev = cs.rev] ELSE srv

\* _reconcile_change_set_integrity: api.supersede_change_set and ports.release.
\* A refusal (AgentApiError, not recoverable) leaves run_forever.
PostSupersede(p) ==
  /\ pc[p] = "supersede"
  /\ \/ /\ srv.state \in {"review", "accepted", "superseded"} \/ ~ServerMayRefuse
        /\ srv' = SupersededOnServer /\ ports' = FALSE
        /\ Goto(p, "fetch") /\ UNCHANGED faults
     \/ /\ srv.state \notin {"review", "superseded"} /\ ServerMayRefuse
        /\ Goto(p, "down") /\ UNCHANGED <<srv, ports, faults>>
     \/ /\ Fault /\ Goto(p, "idle") /\ UNCHANGED ports
        /\ srv' \in {srv, SupersededOnServer}
  /\ UNCHANGED <<cs, vruns, row, branch, ref, clean, lock, loc, rem, head, ack,
                 test, edits, moved>>

\* _reconcile_terminal_resources, for the reservation of this run.
ReconcileTerminalResources(p) ==
  /\ pc[p] = "terminal"
  /\ \/ /\ ports /\ srv.state \in {"rejected", "superseded", "completed"}
        /\ cs' = IF srv.state # "completed" /\ cs.state = "review_ready"
                 THEN [cs EXCEPT !.state = srv.state] ELSE cs
        /\ ports' = FALSE
     \/ /\ ~(ports /\ srv.state \in {"rejected", "superseded", "completed"})
        /\ UNCHANGED <<cs, ports>>
  /\ Goto(p, "idle") /\ Forget(p)
  /\ UNCHANGED <<vruns, row, branch, ref, lock, srv, envVars, moved>>

-----------------------------------------------------------------------------
(* tb-agent changes apply *)

\* command_changes_apply reads the run from the server ...
ApplyCommand(p) ==
  /\ p \in Terminals /\ pc[p] = "idle"
  /\ srv.state \in Pending
  /\ Goto(p, IF srv.state = "handoff_blocked" THEN "request" ELSE "fetch")
  /\ UNCHANGED <<localVars, ref, lock, srv, loc, rem, head, ack, envVars, moved>>

\* ... and asks for a retry; "Only a blocked handoff can be retried".
RequestHandoffRetry(p) ==
  /\ pc[p] = "request"
  /\ row' = IF row.state = "blocked"
            THEN [row EXCEPT !.state = "retry_requested"] ELSE row
  /\ Goto(p, IF row.state = "blocked" THEN "fetch" ELSE "idle")
  /\ UNCHANGED <<cs, vruns, branch, ref, ports, lock, srv, loc, rem, head, ack,
                 envVars, moved>>

\* After its pass over the hand-offs the command prints the run's state.
EndCommand(p) ==
  /\ pc[p] = "exit"
  /\ Goto(p, "idle") /\ Forget(p)
  /\ UNCHANGED <<localVars, ref, lock, srv, envVars, moved>>

-----------------------------------------------------------------------------
(* _reconcile_handoff, cut at its awaits and transactions *)

\* _reconcile_handoffs: api.pending_handoffs.  A failure of this call ends the
\* pass, for the command and for the daemon's loop alike.
PendingHandoffs(p) ==
  /\ pc[p] = "fetch"
  /\ \/ /\ srv.state \in Pending
        /\ rem' = [rem EXCEPT ![p] = [state |-> srv.state, retry |-> srv.retry]]
        /\ Goto(p, "prepare") /\ UNCHANGED faults
     \/ /\ srv.state \notin Pending
        /\ Goto(p, AfterHandoffs(p)) /\ UNCHANGED <<rem, faults>>
     \/ /\ Fault /\ Goto(p, "idle") /\ UNCHANGED rem
  /\ UNCHANGED <<localVars, ref, clean, lock, srv, loc, head, ack, test, edits,
                 moved>>

\* consume_remote_handoff_retry; it changes nothing when there is no row.
Consumed(retry) ==
  IF row.state # "none" /\ retry > row.consumed
  THEN [row EXCEPT !.consumed = retry, !.due = TRUE,
          !.state = IF @ \in {"retry_scheduled", "blocked"}
                    THEN "retry_requested" ELSE @]
  ELSE row

\* The change set is read, a browser retry consumed and next_retry_at looked at.
PrepareHandoff(p) ==
  /\ pc[p] = "prepare"
  /\ loc' = [loc EXCEPT ![p] = cs]
  /\ row' = Consumed(rem[p].retry)
  /\ \/ /\ ~row'.due
        /\ Goto(p, AfterHandoffs(p)) /\ UNCHANGED cs
     \/ /\ row'.due /\ rem[p].state = "awaiting_acknowledgement"
        /\ cs' = IF cs.state = "accepted" THEN [cs EXCEPT !.state = "applied"]
                 ELSE cs
        /\ Goto(p, "ack")
     \/ /\ row'.due /\ rem[p].state # "awaiting_acknowledgement"
        /\ Goto(p, IF cs.state = "review_ready" THEN "accept" ELSE "filter")
        /\ UNCHANGED cs
  /\ UNCHANGED <<vruns, branch, ref, ports, lock, srv, rem, head, ack,
                 envVars, moved>>

\* accept_change_set reads the row in a connection of its own and compares the
\* binding; a mismatch is a RuntimeError, which is only logged.
CompareBinding(p) ==
  /\ pc[p] = "accept"
  /\ loc' = [loc EXCEPT ![p] = cs]
  /\ Goto(p, IF [val |-> cs.val, rev |-> cs.rev] = srv.acc
             THEN "bind" ELSE AfterHandoffs(p))
  /\ UNCHANGED <<localVars, ref, lock, srv, rem, head, ack, envVars, moved>>

Accepted(rev) == [cs EXCEPT !.state = "accepted", !.acc = rev]

\* ... and transition_change_set, in a transaction of its own.  It checks the
\* state and the change-set revision again, but not the validation revision.
AcceptChangeSet(p) ==
  /\ pc[p] = "bind"
  /\ \/ /\ cs.rev = loc[p].rev
        /\ cs.state = "review_ready" \/ cs = Accepted(loc[p].rev)
        /\ cs' = Accepted(loc[p].rev)
        /\ loc' = [loc EXCEPT ![p] = cs']
        /\ Goto(p, "filter")
     \/ /\ \/ cs.rev # loc[p].rev
           \/ cs.state # "review_ready" /\ cs # Accepted(loc[p].rev)
        /\ Goto(p, AfterHandoffs(p)) /\ UNCHANGED <<cs, loc>>
  /\ UNCHANGED <<vruns, row, branch, ref, ports, lock, srv, rem, head, ack,
                 envVars, moved>>

\* Slip: a hand-off the server shows as applying is somebody else's.
FilterHandoffInProgress(p) ==
  /\ pc[p] = "filter"
  /\ Goto(p, IF rem[p].state \in {"applying", "handoff_blocked"}
             THEN AfterHandoffs(p) ELSE "start")
  /\ UNCHANGED <<localVars, ref, lock, srv, loc, rem, head, ack, envVars, moved>>

\* What the row and the fetched state of the run allow.
FilterHandoff(p) ==
  /\ pc[p] = "filter"
  /\ Goto(p,
       CASE rem[p].state = "handoff_blocked"
              /\ row.state \notin {"retry_requested", "applied"} -> AfterHandoffs(p)
         [] row.state = "blocked" /\ rem[p].state = "applying" -> "report_blocked"
         [] row.state = "blocked" /\ rem[p].state = "accepted" -> AfterHandoffs(p)
         [] row.state # "blocked" /\ rem[p].state = "applying" -> "decide"
         [] OTHER -> "start")
  /\ UNCHANGED <<localVars, ref, lock, srv, loc, rem, head, ack, envVars, moved>>

\* api.start_handoff.  The server may also answer "handoff_blocked".
StartHandoff(p) ==
  /\ pc[p] = "start"
  /\ \/ /\ srv.state \in {"accepted", "applying", "handoff_blocked"}
        /\ srv' = [srv EXCEPT !.state = "applying"]
        /\ Goto(p, "decide") /\ UNCHANGED <<row, faults>>
     \/ /\ srv.state \in {"accepted", "handoff_blocked"}
        /\ ServerMayRefuse /\ Fault
        /\ srv' = [srv EXCEPT !.state = "handoff_blocked"]
        /\ Goto(p, AfterHandoffs(p)) /\ UNCHANGED row
     \/ /\ srv.state \notin {"accepted", "applying", "handoff_blocked"}
        /\ RecordFailure(p, FALSE) /\ UNCHANGED <<srv, faults>>
     \/ /\ Fault /\ RecordFailure(p, TRUE)
        /\ \/ UNCHANGED srv
           \/ /\ srv.state \in {"accepted", "handoff_blocked"}
              /\ srv' = [srv EXCEPT !.state = "applying"]
  /\ UNCHANGED <<cs, vruns, branch, ref, clean, ports, lock, loc, rem, head, ack,
                 test, edits, moved>>

\* Slip: an interrupted hand-off is taken for a finished one.
DecideHandoffBegun(p) ==
  /\ pc[p] = "decide"
  /\ Goto(p, IF row.state \in {"applying", "applied"} THEN "complete"
             ELSE IF loc[p].state = "accepted" THEN "apply" ELSE AfterHandoffs(p))
  /\ UNCHANGED <<localVars, ref, lock, srv, loc, rem, head, ack, envVars, moved>>

\* An applied row is only reported again; otherwise the snapshot is applied,
\* provided the copy of the change set taken above is accepted.
DecideHandoff(p) ==
  /\ pc[p] = "decide"
  /\ Goto(p, CASE row.state = "applied" -> "complete"
               [] row.state # "applied" /\ loc[p].state = "accepted" -> "apply"
               [] OTHER -> AfterHandoffs(p))
  /\ UNCHANGED <<localVars, ref, lock, srv, loc, rem, head, ack, envVars, moved>>

-----------------------------------------------------------------------------
(* apply_accepted_snapshot *)

\* The binding of the copy, and the worktree.
CheckAccepted(p) ==
  /\ pc[p] = "apply"
  /\ Goto(p, IF loc[p].acc = loc[p].rev /\ clean THEN "lock" ELSE "report_blocked")
  /\ UNCHANGED <<localVars, ref, lock, srv, loc, rem, head, ack, envVars, moved>>

\* Slip: the row is not read again under the lock.
LockRepositoryStaleRow(p) ==
  /\ pc[p] = "lock" /\ lock = Nobody /\ ref # "other"
  /\ lock' = p /\ head' = [head EXCEPT ![p] = ref]
  /\ Goto(p, "begin")
  /\ UNCHANGED <<localVars, ref, srv, loc, rem, ack, envVars, moved>>

\* Slip: a row left applying is recovered without looking at the branch.
LockRepositoryTrustsRow(p) ==
  /\ pc[p] = "lock" /\ lock = Nobody /\ ref # "other"
  /\ lock' = p /\ head' = [head EXCEPT ![p] = ref]
  /\ Goto(p, IF row.state = "applying" THEN "promote" ELSE "begin")
  /\ UNCHANGED <<localVars, ref, srv, loc, rem, ack, envVars, moved>>

\* ProfileLock.acquire does not wait.  With the lock held, the row and the
\* branch are read.
LockRepository(p) ==
  /\ pc[p] = "lock"
  /\ \/ /\ lock # Nobody
        /\ Goto(p, "report_blocked") /\ UNCHANGED <<lock, head>>
     \/ /\ lock = Nobody
        /\ IF row.state \in {"applied", "blocked"} \/ ref = "other"
           THEN /\ Goto(p, IF row.state = "applied" THEN "complete"
                           ELSE "report_blocked")
                /\ UNCHANGED <<lock, head>>
           ELSE /\ lock' = p
                /\ head' = [head EXCEPT ![p] = ref]
                /\ Goto(p, CASE row.state # "applying" -> "begin"
                             [] row.state = "applying" /\ ref = "base" -> "move"
                             [] OTHER -> "promote")
  /\ UNCHANGED <<localVars, ref, srv, loc, rem, ack, envVars, moved>>

\* begin_handoff: insert, or take over a row that awaits a retry; then compare
\* the identity of the row with the accepted revision.
BegunRow(p) ==
  CASE row.state = "none" ->
         [NoRow EXCEPT !.state = "applying", !.val = loc[p].val, !.rev = loc[p].rev]
    [] row.state \in {"retry_requested", "retry_scheduled"} ->
         [row EXCEPT !.state = "applying", !.due = TRUE]
    [] OTHER -> row

BeginHandoff(p) ==
  /\ pc[p] = "begin"
  /\ row' = BegunRow(p)
  /\ IF row'.val = loc[p].val /\ row'.rev = loc[p].rev
     THEN /\ Goto(p, IF head[p] = "base" THEN "move" ELSE "promote")
          /\ UNCHANGED lock
     ELSE lock' = Nobody /\ Goto(p, "report_blocked")
  /\ UNCHANGED <<cs, vruns, branch, ref, ports, srv, loc, rem, head, ack,
                 envVars, moved>>

\* Slip: update-ref without the old value.
UpdateRefBlindly(p) ==
  /\ pc[p] = "move"
  /\ ref' = "snapshot" /\ moved' = TRUE /\ Goto(p, "promote")
  /\ UNCHANGED <<localVars, lock, srv, loc, rem, head, ack, envVars>>

\* Slip: the journal is written before the branch row.
UpdateRefThenFinish(p) ==
  /\ pc[p] = "move"
  /\ IF ref = "base"
     THEN ref' = "snapshot" /\ moved' = TRUE /\ Goto(p, "finish")
     ELSE Goto(p, "move_failed") /\ UNCHANGED <<ref, moved>>
  /\ UNCHANGED <<localVars, lock, srv, loc, rem, head, ack, envVars>>

\* git update-ref <branch> <snapshot> <base>: a compare-and-swap.
UpdateRef(p) ==
  /\ pc[p] = "move"
  /\ IF ref = "base"
     THEN ref' = "snapshot" /\ moved' = TRUE /\ Goto(p, "promote")
     ELSE Goto(p, "move_failed") /\ UNCHANGED <<ref, moved>>
  /\ UNCHANGED <<localVars, lock, srv, loc, rem, head, ack, envVars>>

\* finish_handoff(state="blocked"); it raises unless the row is applying, and
\* either way the lock is released and the error reaches the server.
BlockHandoff(p) ==
  /\ pc[p] = "move_failed"
  /\ row' = IF row.state = "applying" THEN [row EXCEPT !.state = "blocked", !.due = TRUE]
            ELSE row
  /\ lock' = Nobody
  /\ Goto(p, "report_blocked")
  /\ UNCHANGED <<cs, vruns, branch, ref, ports, srv, loc, rem, head, ack,
                 envVars, moved>>

PromoteRunBranch(p) ==
  /\ pc[p] = "promote"
  /\ branch' = "accepted"
  /\ Goto(p, "finish")
  /\ UNCHANGED <<cs, vruns, row, ref, ports, lock, srv, loc, rem, head, ack,
                 envVars, moved>>

\* finish_handoff(state="applied"), then the lock is released.
FinishHandoff(p) ==
  /\ pc[p] = "finish"
  /\ row' = IF row.state = "applying" THEN [row EXCEPT !.state = "applied", !.due = TRUE]
            ELSE row
  /\ lock' = Nobody
  /\ Goto(p, IF row'.state = "applied" THEN "complete" ELSE "report_blocked")
  /\ UNCHANGED <<cs, vruns, branch, ref, ports, srv, loc, rem, head, ack,
                 envVars, moved>>

-----------------------------------------------------------------------------
(* Reporting the outcome *)

\* api.complete_handoff(status="blocked").
ReportBlocked(p) ==
  /\ pc[p] = "report_blocked"
  /\ \/ /\ srv.state \in {"applying", "handoff_blocked"}
        /\ srv' = [srv EXCEPT !.state = "handoff_blocked"]
        /\ Goto(p, AfterHandoffs(p)) /\ UNCHANGED <<row, faults>>
     \/ /\ srv.state \notin {"applying", "handoff_blocked"}
        /\ RecordFailure(p, FALSE) /\ UNCHANGED <<srv, faults>>
     \/ /\ Fault /\ RecordFailure(p, TRUE)
        /\ \/ UNCHANGED srv
           \/ /\ srv.state = "applying"
              /\ srv' = [srv EXCEPT !.state = "handoff_blocked"]
  /\ UNCHANGED <<cs, vruns, branch, ref, clean, ports, lock, loc, rem, head, ack,
                 test, edits, moved>>

\* api.complete_handoff(status="applied").  The server completes the run or
\* first asks for an acknowledgement, and answers a repeated report alike.
CompletedStates == {"awaiting_acknowledgement", "completed"}

ReportApplied(p) ==
  /\ pc[p] = "complete"
  /\ \/ \E s \in CompletedStates :
          /\ srv.state = "applying" \/ srv.state = s
          /\ srv' = [srv EXCEPT !.state = s]
          /\ ack' = [ack EXCEPT ![p] = s = "awaiting_acknowledgement"]
          /\ Goto(p, "settle") /\ UNCHANGED <<row, faults>>
     \/ /\ srv.state \notin CompletedStates \cup {"applying"}
        /\ RecordFailure(p, FALSE) /\ UNCHANGED <<srv, ack, faults>>
     \/ /\ Fault /\ RecordFailure(p, TRUE) /\ UNCHANGED ack
        /\ \/ UNCHANGED srv
           \/ /\ srv.state = "applying"
              /\ \E s \in CompletedStates : srv' = [srv EXCEPT !.state = s]
  /\ UNCHANGED <<cs, vruns, branch, ref, clean, ports, lock, loc, rem, head,
                 test, edits, moved>>

\* transition_change_set(accepted -> applied), tolerant of having been done.
SettleChangeSet(p) ==
  /\ pc[p] = "settle"
  /\ cs' = IF loc[p].state = "accepted" /\ cs.state = "accepted"
           THEN [cs EXCEPT !.state = "applied"] ELSE cs
  /\ Goto(p, IF ack[p] /\ (loc[p].state = "accepted" => cs'.state = "applied")
             THEN "ack" ELSE AfterHandoffs(p))
  /\ UNCHANGED <<vruns, row, branch, ref, ports, lock, srv, loc, rem, head, ack,
                 envVars, moved>>

\* api.acknowledge_handoff
AcknowledgeHandoff(p) ==
  /\ pc[p] = "ack"
  /\ \/ /\ srv.state \in CompletedStates
        /\ srv' = [srv EXCEPT !.state = "completed"]
        /\ Goto(p, "release") /\ UNCHANGED <<row, faults>>
     \/ /\ Fault /\ RecordFailure(p, TRUE)
        /\ \/ UNCHANGED srv
           \/ /\ srv.state \in CompletedStates
              /\ srv' = [srv EXCEPT !.state = "completed"]
  /\ UNCHANGED <<cs, vruns, branch, ref, clean, ports, lock, loc, rem, head, ack,
                 test, edits, moved>>

\* ports.release
ReleasePorts(p) ==
  /\ pc[p] = "release"
  /\ ports' = FALSE
  /\ Goto(p, AfterHandoffs(p))
  /\ UNCHANGED <<cs, vruns, row, branch, ref, lock, srv, loc, rem, head, ack,
                 envVars, moved>>

-----------------------------------------------------------------------------
(* tb-agent changes test *)

\* Slip: a second validation takes the number of the first one.
BeginValidationSameRevision ==
  /\ test.pc = "idle" /\ cs.state = "review_ready" /\ clean /\ MaxVal > 0
  /\ cs' = [cs EXCEPT !.state = "validating", !.val = 1, !.status = "running"]
  /\ vruns' = [vruns EXCEPT ![1] = "running"]
  /\ test' = [pc |-> "report", val |-> 1, rev |-> cs.rev]
  /\ UNCHANGED <<row, branch, ref, clean, ports, lock, srv, procVars, faults,
                 edits, moved>>

\* require_change_set and refresh_snapshot_state, then begin_validation.
BeginValidation ==
  /\ test.pc = "idle"
  /\ \/ /\ MustSupersede
        /\ cs' = Superseded /\ UNCHANGED <<vruns, test>>
     \/ /\ cs.state = "review_ready" /\ clean /\ cs.val < MaxVal
        /\ cs' = [cs EXCEPT !.state = "validating", !.val = @ + 1,
                            !.status = "running"]
        /\ vruns' = [vruns EXCEPT ![cs.val + 1] = "running"]
        /\ test' = [pc |-> "report", val |-> cs.val + 1, rev |-> cs.rev]
  /\ UNCHANGED <<row, branch, ref, clean, ports, lock, srv, procVars, faults,
                 edits, moved>>

\* The server takes a report on the revision under review, and refuses it once
\* the run is accepted, rejected or superseded.
TakesReport == srv.state = "review" /\ srv.rev = test.rev /\ srv.val <= test.val
Reported(status) == [srv EXCEPT !.val = test.val, !.status = status]

\* on_started: api.report_change_set_validation(.., "running")
ReportStarted ==
  /\ test.pc = "report"
  /\ \/ /\ TakesReport /\ srv' = Reported("running")
        /\ test' = [test EXCEPT !.pc = "running"] /\ UNCHANGED faults
     \/ /\ ~TakesReport
        /\ test' = [test EXCEPT !.pc = "cancel"] /\ UNCHANGED <<srv, faults>>
     \/ /\ Fault /\ test' = [test EXCEPT !.pc = "cancel"]
        /\ UNCHANGED srv \/ (TakesReport /\ srv' = Reported("running"))
  /\ UNCHANGED <<localVars, ref, clean, lock, procVars, edits, moved>>

\* cancel_validation_start
CancelValidationStart ==
  /\ test.pc = "cancel"
  /\ test' = NoTest
  /\ IF cs.state = "validating" /\ cs.val = test.val
     THEN /\ vruns' = [vruns EXCEPT ![test.val] = "none"]
          /\ cs' = [cs EXCEPT !.state = "review_ready", !.val = test.val - 1,
                      !.status = IF test.val = 1 THEN "not_run"
                                 ELSE vruns[test.val - 1]]
     ELSE UNCHANGED <<cs, vruns>>
  /\ UNCHANGED <<row, branch, ref, clean, ports, lock, srv, procVars, faults,
                 edits, moved>>

\* The command ran in a detached checkout of the snapshot: finish_validation.
FinishValidation ==
  /\ test.pc = "running"
  /\ IF cs.state = "validating" /\ cs.val = test.val
     THEN \E s \in {"passed", "failed"} :
            /\ vruns' = [vruns EXCEPT ![test.val] = s]
            /\ cs' = [cs EXCEPT !.state = "review_ready", !.status = s]
            /\ test' = [test EXCEPT !.pc = "finished"]
     ELSE test' = NoTest /\ UNCHANGED <<cs, vruns>>
  /\ UNCHANGED <<row, branch, ref, clean, ports, lock, srv, procVars, faults,
                 edits, moved>>

\* api.report_change_set_validation with the outcome of this revision.
ReportFinished ==
  /\ test.pc = "finished"
  /\ test' = NoTest
  /\ \/ IF TakesReport THEN srv' = Reported(vruns[test.val]) ELSE UNCHANGED srv
     \/ UNCHANGED srv
  /\ UNCHANGED <<localVars, ref, clean, lock, procVars, faults, edits, moved>>

\* `git worktree add` fails, or the command is interrupted.
ValidationDies ==
  /\ test.pc # "idle" /\ Fault
  /\ test' = NoTest
  /\ UNCHANGED <<localVars, ref, clean, lock, srv, procVars, edits, moved>>

-----------------------------------------------------------------------------
(* Deaths, time, other processes and the user *)

\* Memory is lost and the kernel drops the lock; SQLite and Git keep theirs.
ReconcilerDies(p) ==
  /\ pc[p] \notin {"idle", "down"} /\ Fault
  /\ Goto(p, "idle")
  /\ lock' = IF lock = p THEN Nobody ELSE lock
  /\ Forget(p)
  /\ UNCHANGED <<localVars, ref, clean, srv, test, edits, moved>>

\* The service manager, or the user, starts it again.
RestartReconciler(p) ==
  /\ pc[p] = "down"
  /\ Goto(p, "idle") /\ Forget(p)
  /\ UNCHANGED <<localVars, ref, lock, srv, envVars, moved>>

RetryTimeComes ==
  /\ ~row.due
  /\ row' = [row EXCEPT !.due = TRUE]
  /\ UNCHANGED <<cs, vruns, branch, ref, ports, lock, srv, procVars, envVars,
                 moved>>

OtherProfileLocks ==
  /\ lock = Nobody /\ Fault /\ lock' = OtherProfile
  /\ UNCHANGED <<localVars, ref, clean, srv, procVars, test, edits, moved>>

OtherProfileUnlocks ==
  /\ lock = OtherProfile /\ lock' = Nobody
  /\ UNCHANGED <<localVars, ref, srv, procVars, envVars, moved>>

\* Browser acceptance binds what the server knows of the run.
Accept ==
  /\ srv.state = "review"
  /\ srv' = [srv EXCEPT !.state = "accepted",
                        !.acc = [val |-> srv.val, rev |-> srv.rev]]
  /\ UNCHANGED <<localVars, ref, lock, procVars, envVars, moved>>

Reject ==
  /\ srv.state = "review"
  /\ srv' = [srv EXCEPT !.state = "rejected"]
  /\ UNCHANGED <<localVars, ref, lock, procVars, envVars, moved>>

RetryInBrowser ==
  /\ srv.state = "handoff_blocked" /\ srv.retry < MaxRetries
  /\ srv' = [srv EXCEPT !.retry = @ + 1]
  /\ UNCHANGED <<localVars, ref, lock, procVars, envVars, moved>>

Edit == edits < MaxEdits /\ edits' = edits + 1

\* The worktree is edited, or brought back to the snapshot's tree.
EditWorktree ==
  /\ Edit /\ clean' = ~clean
  /\ UNCHANGED <<localVars, ref, lock, srv, procVars, test, faults, moved>>

\* The user commits to the run's branch, or puts it back on its base.
EditBranch ==
  /\ Edit /\ ref' \in {"base", "other"} \ {ref}
  /\ UNCHANGED <<localVars, clean, lock, srv, procVars, test, faults, moved>>

-----------------------------------------------------------------------------

\* What a reconciler does of its own accord, once running.
Reconcile(p) ==
  \/ ReconcileIntegrity(p) \/ PostSupersede(p) \/ RequestHandoffRetry(p)
  \/ EndCommand(p)
  \/ PendingHandoffs(p) \/ PrepareHandoff(p)
  \/ CompareBinding(p) \/ AcceptChangeSet(p) \/ FilterHandoff(p)
  \/ StartHandoff(p) \/ DecideHandoff(p)
  \/ CheckAccepted(p) \/ LockRepository(p) \/ BeginHandoff(p) \/ UpdateRef(p)
  \/ BlockHandoff(p) \/ PromoteRunBranch(p) \/ FinishHandoff(p)
  \/ ReportBlocked(p) \/ ReportApplied(p) \/ SettleChangeSet(p)
  \/ AcknowledgeHandoff(p) \/ ReleasePorts(p)
  \/ ReconcileTerminalResources(p)

Validate ==
  \/ BeginValidation \/ ReportStarted \/ CancelValidationStart
  \/ FinishValidation \/ ReportFinished \/ ValidationDies

User ==
  \/ Accept \/ Reject \/ RetryInBrowser \/ EditWorktree \/ EditBranch

Next ==
  \/ \E p \in Procs : \/ Reconcile(p) \/ ApplyCommand(p)
                      \/ ReconcilerDies(p) \/ RestartReconciler(p)
  \/ Validate \/ User
  \/ RetryTimeComes \/ OtherProfileLocks \/ OtherProfileUnlocks

Spec == Init /\ [][Next]_vars

\* A running process takes its next step, a service manager restarts a daemon
\* that ended, clocks advance and another profile lets go of the lock.  No user
\* ever has to act, and no message has to be lost.
Fairness ==
  /\ \A p \in Procs : WF_vars(Reconcile(p)) /\ WF_vars(RestartReconciler(p))
  /\ WF_vars(RetryTimeComes) /\ WF_vars(OtherProfileUnlocks)

FairSpec == Spec /\ Fairness

-----------------------------------------------------------------------------
(* Properties *)

TypeOK ==
  /\ cs \in ChangeSet
  /\ vruns \in [1..MaxVal -> RunState]
  /\ row \in Row
  /\ branch \in {"base", "accepted"} /\ ref \in {"base", "snapshot", "other"}
  /\ clean \in BOOLEAN /\ ports \in BOOLEAN /\ moved \in BOOLEAN
  /\ lock \in Procs \cup {OtherProfile, Nobody}
  /\ srv \in Server
  /\ pc \in [Procs -> PcState]
  /\ loc \in [Procs -> ChangeSet]
  /\ rem \in [Procs -> Remote]
  /\ head \in [Procs -> {"base", "snapshot"}]
  /\ ack \in [Procs -> BOOLEAN]
  /\ test \in TestType /\ (test.pc # "idle" => test.val # 0)
  /\ faults \in Nat /\ edits \in Nat

Bound == {"accepted", "applied"}

\* Only an acceptance bound in the browser, and bound locally to the same
\* change-set revision, ever advances the run-owned branch; a superseded or
\* rejected change set never does.  The run_branches row says "accepted" only
\* after Git moved.
OnlyAcceptedAdvances ==
  /\ moved => cs.state \in Bound /\ srv.acc # NoBinding /\ cs.acc = srv.acc.rev
  /\ branch = "accepted" => moved

\* Whatever was lost, repeated or interrupted, the server counts a hand-off as
\* applied only if the local journal and the run-owned branch say so too.
ServerNeverAhead ==
  srv.state \in CompletedStates => row.state = "applied" /\ branch = "accepted"

\* The handoffs row is for the accepted revision and for the validation
\* revision the change set had when it was accepted, whichever of
\* begin_handoff and schedule_handoff_retry inserted it.
RowIsForAcceptedRevision ==
  row.state # "none" => /\ cs.state \in Bound /\ row.rev = srv.acc.rev
                        /\ row.val = cs.val

Critical == {"begin", "move", "move_failed", "promote", "finish"}

\* Between reading the branch and recording the outcome a reconciler holds the
\* repository lock, so neither another profile nor another reconciler works on
\* run refs at that time.
CriticalHoldsLock ==
  \A p \in Procs : pc[p] \in Critical => lock = p

\* A validation the server shows as passed has passed here, under the same
\* revision, in spite of cancelled starts and of the reuse of their revisions.
PassedMeansPassed ==
  srv.status = "passed" => vruns[srv.val] = "passed"

\* A branch the user has put on another commit is never moved to the snapshot.
UserBranchKept ==
  [][ref = "other" => ref' # "snapshot"]_vars

\* Once recorded as applied a snapshot is not applied again: the record stays
\* and no later pass, of whatever process, moves the branch.
AppliedOnce ==
  [][row.state = "applied" =>
       row'.state = "applied" /\ (ref' = "snapshot" => ref = "snapshot")]_vars

\* A change set that left review stays out of it, and a bound one stays bound
\* to the same revision.
BoundForGood ==
  [][cs.state \in Bound => cs'.state \in Bound /\ cs'.acc = cs.acc]_vars

\* The inductive invariant behind the safety properties above.
\* What the server has bound: a run in review has no acceptance, and every
\* state reached through an acceptance has one.
ServerInv ==
  /\ srv.rev > 0
  /\ srv.state = "review" => srv.acc = NoBinding
  /\ srv.state \in Pending \cup {"completed"} => srv.acc.rev > 0

\* A change set is bound exactly when it has an accepted revision, which is its
\* own and the server's; a copy of a bound change set stays accurate.
BindingInv ==
  /\ cs.rev > 0
  /\ cs.state \in Bound => cs.acc = cs.rev /\ cs.acc = srv.acc.rev
  /\ cs.state \notin Bound => cs.acc = 0
  /\ row.state # "none" => cs.state \in Bound /\ row.val = cs.val /\ row.rev = cs.rev
  /\ \A p \in Procs :
       /\ loc[p].rev > 0
       /\ loc[p].state \in Bound => /\ cs.state \in Bound
                                    /\ loc[p].val = cs.val /\ loc[p].rev = cs.rev
       /\ pc[p] = "bind" => loc[p].rev = srv.acc.rev
       /\ pc[p] \in {"apply", "lock"} \cup Critical => loc[p].state = "accepted"

\* The order of the effects: Git, the branch row, the journal, the server.
OrderInv ==
  /\ moved => cs.state \in Bound
  /\ ref = "snapshot" \/ branch = "accepted" => moved
  /\ row.state = "applied" => branch = "accepted"
  /\ srv.state \in CompletedStates => row.state = "applied"
  /\ \A p \in Procs :
       /\ head[p] = "snapshot" \/ pc[p] = "promote" => moved
       /\ pc[p] = "finish" => branch = "accepted"
       /\ pc[p] = "complete" => row.state = "applied"
       /\ pc[p] \in Critical => lock = p /\ row.state # "applied"

\* The command validates the newest revision until it is done with it, and a
\* revision that passed on the server is older than one under validation: neither
\* a cancelled start nor the next one can touch it.
ValidationInv ==
  /\ test.pc # "idle" => test.val = cs.val
  /\ test.pc = "finished" => cs.state # "validating"
  /\ srv.status = "passed" => /\ srv.val \in 1..cs.val
                              /\ vruns[srv.val] = "passed"
                              /\ cs.state = "validating" => srv.val # cs.val

HandoffInv == ServerInv /\ BindingInv /\ OrderInv /\ ValidationInv

\* The hand-off implements Promotion.
Promise == INSTANCE Promotion WITH
  verdict  <- IF srv.acc # NoBinding THEN "accepted"
              ELSE IF srv.state = "review" THEN "open" ELSE "withdrawn",
  branch   <- ref,
  advanced <- moved,
  journal  <- row.state = "applied",
  reported <- srv.state \in CompletedStates

\* The branch moves, the journal records and the server learns in this order,
\* each at most once, only for an accepted run and never over a user's commit.
KeepsPromise == Promise!Spec

\* The daemon brings an accepted run to an end the user can see, unless the
\* user's edit of the worktree has superseded the change set here.
AcceptedIsSettled ==
  srv.state \in {"accepted", "applying", "awaiting_acknowledgement"}
    ~> \/ srv.state \in {"completed", "handoff_blocked", "superseded"}
       \/ cs.state = "superseded"

\* README.md: "Browser acceptance binds the run ID, snapshot commit, snapshot
\* tree, validation revision, and change-set revision.  Only that accepted
\* binding may advance the run-owned feature branch."
AcceptedBindingAdvances ==
  moved => [val |-> cs.val, rev |-> cs.rev] = srv.acc

=============================================================================
