# Formal verification of tb-agent

`tb-agent` (package `tether_agent`) is the local worker of Tether Brain. It
claims runs from the Tether Brain server, executes them with a coding runtime in
isolated Git worktrees, keeps the result as an immutable snapshot commit, and,
after the user has accepted it in the browser, advances a run-owned branch to
that snapshot, optionally publishing it. Everything that must survive a crash is
in one SQLite store per profile and in Git refs.

This directory holds TLA+ models of the parts of that program whose correctness
depends on order, crashes and lost messages, the TLC configurations that check
them, and proofs of the main theorems with TLAPS. File names below are relative
to `src/src/tether_agent/` unless they start with `README`, `CHANGELOG` or
`tests`.

    cd tla
    tlc -workers 2 -config HandoffReview.cfg MCHandoff      # one run
    tlapm HandoffProofs.tla        # the proofs; likewise for the other ...Proofs modules

## 1. Inventory

| component | state it keeps | operations | what is hard |
|---|---|---|---|
| Polling loop (`daemon.py` `run_forever`) | `active_tasks`, `slot_by_run`, `recovery_attempted` in memory; `runs` in the store | reap, recover, reconcile, claim, idle | interleaves with executions at every `await`; dies anywhere |
| Execution (`_execute`) | `runs.pending_result`, change set | context, runtime, save result, complete | lease lost meanwhile; answer lost; result must be neither lost nor recomputed |
| Batch execution (`_execute_batch`) | `run_task_turns`, worktree tree, `refs/tb-agent/runs/<run>` | acknowledge, restore tree, turn, checkpoint, report, snapshot | journal, server, and worktree each a step ahead or behind after a crash |
| Hand-off (`daemon.py` `_reconcile_handoff`, `handoff.py`, `changes.py`) | `change_sets`, `handoffs`, `run_branches`, `validation_runs`, the branch in Git, `repository.lock` | supersede, validate, accept, begin, update-ref, promote, finish, block, retry, report, acknowledge | daemon and `changes apply` in two processes, user and other profiles at the same repository; Git, store and server are not one transaction |
| Port reservations (`ports.py`) | `port_reservations` | allocate, release | who releases, and when |
| Plan questions (`_execute_plan`, `_wait_for_plan_answer`) | thread id, question, bound base, planning worktree | bind, open, ask, consume, suspend, resume, judge | an answer races the suspension; the branch moves between leases; five ways out with a worktree that may be dirty |
| Publication (`publication.py`, `_reconcile_publication*`) | `publications` | push, open, merge, clean | daemon and CLI without a lock; answers lost |
| Maintenance and profile mutation (`profile.py`, `locking.py`) | lock files, control row, `config.toml` | request, grant, mutate, roll back | daemon writes while a command rolls back |
| Credentials (`oauth.py`, `state.py`) | keyring, credential row, rotation id | enrol, refresh, replace | two processes rotate one refresh token |
| Worktrees (`worktrees.py`) | worktree rows, directories | create, clean up | retention against late use |
| Run branches, snapshots (`branches.py`, `snapshots.py`) | refs | create, promote, restore | compare-and-swap of refs |
| Migration (`migration.py`) | legacy environment, backup | migrate, roll back | one command, no concurrency |
| Runtime (`runtime.py`, `codex_contract.py`) | child process | thread, turn, interrupt | protocol over pipes |
| API, config, paths, services, secure files, CLI formatting | - | parsing, I/O | single commands |

How they interact: the polling loop starts executions and runs the reconcilers of
hand-offs and publications in its own coroutine, one after the other. Every
component shares the SQLite store (short `BEGIN IMMEDIATE` transactions) and
nothing else in memory but `active_tasks` and `slot_by_run`. The `tb-agent
changes ...` commands run the same reconcilers in their own process, against the
same store, without the daemon lock; the repository lock is all that orders
their Git work. The server is reached over HTTP: a call can fail before it
arrives, or succeed and lose its answer.

What makes each component correct:

* supervisor: one execution per run, distinct slots, no more executions than the
  capacity, saved results delivered and never recomputed, ended runs tidied up;
* batch: a completed turn is never run again, a turn starts from exactly the last
  checkpoint, report and snapshot are the turns the server has;
* hand-off: the branch moves only for the accepted binding, once, never over a
  user's commit; the server is never told more than the journal says; an accepted
  run is settled in the end;
* ports: held while the run may still need them, released in the end;
* publication: nothing local is removed before the pull request is merged, a
  report of "cleaned" is true, the store follows the server, a publication settles;
* maintenance: nothing executes while a command changes the profile, a
  maintenance ends, and the daemon ends up with the configuration on disk;
* credentials: the stored credential stays usable whatever is lost or dies, is
  never mixed with another login's, and is not brought back once deleted;
* plans: made at the commit the server was told of, resumed with the answer, given
  up only when the lease is over, and never at the price of somebody's edits.

`PROJECT.json` lists the components with their status, and under `hazards` the
lines at which this code is exposed to what tests hardly reach.

## 2. Modules

| module | models | used by |
|---|---|---|
| `Promotion` | the promise of the hand-off, abstractly: verdict, branch, journal, report | refined by `Handoff` |
| `Handoff` | review, validation, acceptance and hand-off of one change set by any number of processes | `MCHandoff`, `HandoffProofs` |
| `HandoffProofs` | TLAPS proofs about `Handoff` | - |
| `RunSupervisor` | `run_forever` and its execution tasks, for several runs | `MCRunSupervisor`, `RunSupervisorProofs` |
| `RunSupervisorProofs` | TLAPS proofs about `RunSupervisor` | - |
| `BatchRun` | `_execute_batch` for one run of N tasks | `MCBatchRun`, `BatchRunProofs` |
| `BatchRunProofs` | TLAPS proofs about `BatchRun` | - |
| `NaturalLemmas` | a lemma about sets of natural numbers | the two proofs above |
| `Profile` | one profile and its credential: the daemon and the commands that change it | `MCProfile`, `ProfileProofs` |
| `ProfileProofs` | TLAPS proofs about `Profile` | - |
| `Publication` | publication and cleanup of one run branch by two processes | `MCPublication`, `PublicationProofs` |
| `PublicationProofs` | TLAPS proofs about `Publication` | - |
| `PlanQuestions` | `_execute_plan` for one run over several leases | `MCPlanQuestions`, `PlanQuestionsProofs` |
| `PlanQuestionsProofs` | TLAPS proofs about `PlanQuestions` | - |
| `MC...` | instances for TLC | the `.cfg` files |

Operators whose comment begins with "Slip:" are deliberately wrong variants of
the definition that follows them, each a plausible slip in the code. No
specification uses them; putting one in place of its definition makes the
property it is listed with in `PROJECT.json` fail, which shows that the property
depends on that line of the code.

### Handoff

State: the rows of the store (`cs` the `change_sets` row, `vruns` the
`validation_runs`, `row` the `handoffs` row, `branch` the `run_branches` state,
`ports`), Git (`ref` where the branch points, `clean` whether the worktree equals
the snapshot), `lock` the repository lock, `srv` the server's run, and for every
process its place (`pc`) and its in-memory copies (`loc`, `rem`, `head`, `ack`),
which go stale as they do in the code. A binding is the pair of validation and
change-set revision: there is one snapshot per run, so commit and tree add nothing.

Every `await`, transaction and Git command is a step. `_reconcile_integrity` is
`ReconcileIntegrity`/`PostSupersede`; `_reconcile_handoffs` and
`_reconcile_handoff` are `PendingHandoffs`, `PrepareHandoff`, `CompareBinding`,
`AcceptChangeSet`, `FilterHandoff`, `StartHandoff`, `DecideHandoff`;
`apply_accepted_snapshot` is `CheckAccepted`, `LockRepository`, `BeginHandoff`,
`UpdateRef`, `BlockHandoff`, `PromoteRunBranch`, `FinishHandoff`; the reports are
`ReportBlocked`, `ReportApplied`, `SettleChangeSet`, `AcknowledgeHandoff`,
`ReleasePorts`; `_reconcile_terminal_resources` is
`ReconcileTerminalResources`. `changes apply` is `ApplyCommand`,
`RequestHandoffRetry`, `EndCommand`; `changes test` is `BeginValidation`,
`ReportStarted`, `CancelValidationStart`, `FinishValidation`, `ReportFinished`,
`ValidationDies`. The environment is the user (`Accept`, `Reject`,
`RetryInBrowser`, `EditWorktree`, `EditBranch`), deaths and restarts, the retry
clock and another profile at the lock.

Merged steps: `PrepareHandoff` does the several reads and idempotent writes
before acceptance in one step; `refresh_snapshot_state`'s read and transition are
one step. Left out: the wording of errors, the retry delays (`due` says whether
the time has come), and the content of validations.

`Promotion` abstracts all of it to five facts. `KeepsPromise` is the refinement
mapping.

### RunSupervisor

State: `srv` the server's runs with their lease generation, `claim` (lease token,
generation, slot of the `runs` row), `pend`, `port`, `capacity`, the place of the
loop and the rows it still has to visit (`loop`, `todo`, `free`), `recovered`,
`active`, `slotOf`, and the execution tasks themselves: a task outlives its
entry in `active_tasks` when that is overwritten, as an asyncio task does.
`LeaseActive`, `InspectLease` and `RecoverWorker` are `_recover_workers`;
`ClaimRun` the claim with `ports.allocate`; `SaveClaim`, `PrepareRun`,
`WaitForUser`, `FailRun`, `SaveResult`, `CompleteRun` the outcomes of `_execute`
and `_execute_plan`; `ReconcilePending`, `ReconcileIdle`, `ReconcileTerminal` the
reconcilers; `OperationFails`, `ReconcileSkips`, `ClaimLost`, `OutcomeLost`,
`DiesTelling` and `DaemonDies` the failures at each.

Abstractions: `leased` is claimed, gathering_context or running under a lease in
force; `rejected` is rejected or superseded. Registration, catalogues and the
control plane loop are left out; the maintenance handshake is in Profile.

### BatchRun

State: `srv`, `cur`, `mem` the server's run and its tasks, `rows`
(`run_task_turns`), `pend`, `cset`, `ref`, and `tree`, the worktree as the set of
what has been written into it: parts or wholes of turns, and edits of the user.
One action per step of `_execute_batch`: `LoadTask` (acknowledge, restore, begin),
`TurnSucceeds` / `PauseRun`, `SaveTurn`, `Checkpoint`, `SaveReport`,
`CreateSnapshot`, `AdvanceChangeSet`, `Complete`, and the failures
`CheckpointLost`, `Abandon`, `FailLocally`, `DaemonDies` (which may leave a
half-restored worktree). Claiming, leasing and recovery are taken from
RunSupervisor with at most one execution at a time. The checkpoint revision only
travels with a checkpoint and is left out; so is a completion whose answer is
lost, which is RunSupervisor's.

### Profile

State: `file` (`config.toml`: its revision, whose mappings it holds, its
capacity), `db` (what a backup of the store copies: credential with its rotation
id, PAT, pending activation, failure code, revision, the maintenance columns, the
claim of a run), the three `flock` locks, `srv` the token families of the
server, `lapsed` the expired tokens, and per process its place and memory. `Loop`
is the polling loop and `Calls` its requests, each of which may refresh the
credential first; a command is a process that does one operation.

`RefreshLock` to `RefreshStatus` are `refresh_credential`, run by both;
`MutateLock`, `EnterMaintenance`, `MaintenanceEntered`, `MaintenanceTimedOut`,
`Backup`, `WriteConfig`, `SetRevision`, `RestoreConfig`, `RestoreStore`, `Leave`
are `ProfileManager.mutate` (`capacity` is `mutate_live_configuration`, which
skips the handshake). The `Login...` actions are `oauth_login` and its replacement
variant, `Reconcile` the decision between them, `Logout`, `PostUsePat`,
`StorePat`, `PostRevoke`, `DeleteRevoked` the other auth commands. On the
daemon's side `LoadSettings`, `StartDaemon`, `LiveReload`, `ReadRevision`,
`Reload`, `Gate`, `ReconcileIdle`, `AcknowledgeMaintenance`, `Work` are one pass
of `run_forever`, reduced to what the handshake and the reloads depend on.

Abstractions: a token is a pair of family and generation; access and refresh
token are one; the retries of a request inside one call are the two branches of
`RefreshLost`. External: a refresh token works once, and its predecessor again
under the rotation id it was used with.

### Publication

State: `server` the publication's state, `hub` (GitHub: the branch, the pull
request and its head), `repo` (local branch, snapshot ref, worktree), `store`
(`run_branches.state`, the worktree's row), `lock`, and what each of the two
processes has read. `Fetch` to `ConfirmPullRequest` are
`_reconcile_publication` with `publish_github_pull_request`; `Report` to
`MarkMerged` the reports, each followed by its transaction; `BeginCleanup` to
`ReportCleaned` are `_cleanup_publication` with `cleanup_merged_publication`;
`ReportFailure` is what the daemon does with an exception and the command does
not. The states a report may come from are the server's and not in this
repository: `From` is what the order of the code's reports expects.

### PlanQuestions

State: the server's run with its bound base and question, the remote branch, the
planning worktree (and whether its row exists), claim, ports and pending result,
the Codex thread and which answers it has been given, and the locals of
`_execute_plan`. One action per call, transaction or Git command: `ResolveBase`,
`BindBase`, `PrepareProject`, `StartTurn`, `AskQuestion`, `SeeAnswer`,
`ConsumeAnswer`, `WaitIsOver`, `SuspendQuestion`, `LeaveSuspended`, `TurnEnds`,
`JudgePlan`, `RemoveWorktree`, `CompletePlan`, with `CannotResolve`, `CleanUp`,
`RejectPlan`, `ReportBlocker`, `Abandon` for the other ways out and `...Lost`,
`Dies...` for losses and deaths. A run over several repositories is one over one.

### How they compose

`RunSupervisor` ends a run in review, where `Handoff` begins (`Conclude` in
RunSupervisor is all of Handoff); `BatchRun` is the inside of a RunSupervisor
execution (`run` to `complete`). They share the run's server state, its
reservation and its pending result. `PlanQuestions` is the inside of an
execution of a plan run, with the claims of one run in a row. `Publication`
begins where `Handoff` ends (the branch applied, `run_branches` in `accepted`).
`Profile` sees the executions as `running` and a claim in the store.

## 3. Runs

Passing runs:

| run | bounds | what it shows |
|---|---|---|
| `handoff_review` | daemon and one `changes apply`; 1 validation, 1 fault, 1 edit, 1 retry; 1.2M states | the safety of the hand-off: `OnlyAcceptedAdvances`, `ServerNeverAhead`, `PassedMeansPassed`, `BoundForGood`, `UserBranchKept`, `AppliedOnce`, the inductive invariant `HandoffInv`, and the refinement `KeepsPromise` |
| `handoff_live` | the same without validations, under fairness; 0.1M states | an accepted run is settled (`AcceptedIsSettled`) |
| `supervisor_crash` | 2 runs, 2 slots, 2 leases each, a death, a change of capacity; 1M states | one execution per run (`OneTaskPerRun`), each with a slot of its own (`SlotsDistinct`) |
| `supervisor_live` | 2 runs, one of them a plan, 1 slot, a death and a fault, under fairness; 0.2M states | saved results are kept until delivered (`SavedResultKept`) and are delivered (`ResultDelivered`); ended runs are tidied up (`EndedIsTidied`) |
| `batch` | 3 tasks, 7 turns, 2 revisions a task, a fault, a death, an edit, under fairness; 0.4M states | nothing advances before it is saved (`PersistedBeforeAdvancing`), completed turns are not rerun (`CompletedNotRerun`), the snapshot is the reported work (`SnapshotIsReportedWork`), a batch settles (`BatchSettles`) |
| `profile_change` | the daemon and one command of any kind; 2 families, a fault, a death, a lapsed token; 1.1M states | the credential stays usable unless a rollback wrote an older one back (`RecoverableUnlessUndone`) and of one family (`FamilyUnmixed`), a deleted one stays deleted (`LogoutSticks`), nothing executes during a change (`MutationExclusive`) |
| `profile_live` | the daemon, a maintenance and a live change of the capacity; a fault, a lapsed token, under fairness; 0.14M states | `MaintenanceEnds`, `RefreshedInTheEnd`, `ConfigCatchesUp` |
| `publication` | the daemon and one `changes publication`; a fault or death, one act of the user, under fairness; 0.43M states | `RetainedUntilMerge`, `CleanedMeansGone`, `StoreFollowsServer`, `PublicationSettles`, `MergedIsCleaned` |
| `plan` | 2 questions, 3 leases, 2 faults, 2 deaths, a branch that moves once; 0.46M states | `PlannedAtBase`, `ResumedWithAnswer`, `DroppedIsOver`, `EditsKept` |

Why these bounds are enough: a hand-off has one row, one branch and one lock, so
two processes already show every interleaving of two critical sections, and the
safety theorems are proved for any number; one fault and one edit reach every
branch of every step, since each step fails by itself. In RunSupervisor two runs
are needed for slots and capacity to matter, two leases for a run to come back,
and four tasks are as many as can be alive. In BatchRun three tasks have a
first, a middle and a last; the turns suffice for two pauses on top of one turn
per task, fault and death. In Profile the credential lock and the mutation lock
admit one holder each, so one command beside the daemon's requests already shows
every interleaving of two critical sections; two families are the stored one and
the one a login brings; the two commands of `profile_live` are one that asks for a
maintenance and one that does not. In Publication the two processes are all there
are, and one fault reaches every step. A plan needs two questions so that an answer
can be mixed up with an earlier one, and three leases to be resumed and then
recovered; its theorems hold for any bounds.
The deadlock check is off where the system may come to rest: a batch in review, a
plan that has ended, a publication that is cleaned or blocked, a profile whose
commands are done.

Fairness. A process that can take its next step does (asyncio and the OS schedule
it); a daemon that ended is started again, which is what the installed service
(`services.py`) does; the retry clock advances; another profile lets go of the
lock; a lease nobody renews ends; a runtime ends its turn. Never assumed: that a
user acts, that a pull request is merged, that a command is issued, that a
message arrives at a particular time, that a fault does not happen. Faults and deaths are bounded in number, not in place. `handoff_live`
takes `ServerMayRefuse = FALSE`: a server that refuses for ever settles nothing.

Runs that end in a violation check one statement of the documentation or the
tests against the code, and TLC finds a counterexample:

| run | statement | what happens |
|---|---|---|
| `handoff_binding` | README.md:277, only the accepted binding advances the branch | a validation begun between comparison and update changes the binding (`state.py:1107`) |
| `supervisor_plan` | ports.py:66, only a terminal run loses its ports | a suspended plan has released its ports and can never be executed again (`daemon.py:957`) |
| `profile_rollback` | tests/test_oauth.py:462 and README.md:312, the recovery data of a refresh survives its interruption | `auth refresh` loses its answer, the rollback of the mutation takes the rotation id away, and the server refuses the old token under a new one (`profile.py:109`) |

Known beyond the passing runs: with `LiveLeaseMayExpire = TRUE` (a suspended
machine), `OneTaskPerRun` fails, because the claim of the next lease overwrites
`active_tasks` without a look at the old task, which ends at its next heartbeat;
it fails with a fault during recovery, because recovery starts again from the
first row and its executions are then alive twice, more of them than README.md:99
allows (`daemon.py:2255`), and with a lost answer to the question of a run, which
may be answered and claimed anew before its task has noticed. With a fault and a
death together `SlotsDistinct` fails, because an execution that ended with its
claim in the store frees its slot in memory, and recovery gives two runs the slot
their rows name. With two deaths and two changes of the capacity it fails without any
fault: recovery passes over a run whose slot is beyond the lowered capacity
(`daemon.py:2253`) and leaves its lease, the capacity is raised and the slot claimed
for another run (`daemon.py:389`), and the next recovery starts both in it.
`supervisor_crash` therefore takes no fault, no such expiry and one change of the
capacity. These five are all there are: section 4 proves both properties for every
behaviour without them.

Other limits the models show or reading found, which no run checks:

* a hand-off that is blocked before `begin_handoff` wrote its row cannot be
  retried with `changes apply`, which README.md:283 offers (`state.py:1499`);
* a failed hand-off of a locally superseded change set inserts NULL into a
  NOT NULL column, which ends the daemon, where CHANGELOG.md:38 speaks of
  blocked hand-offs isolated from other results (`state.py:1524`);
* a saved result whose acknowledgement was lost is not cleared once the result is
  rejected or superseded (`daemon.py:51`, tests/test_daemon_profiles.py:573);
* in Profile with `LateFaults`, a mutation that fails after its revision became
  visible is undone under a daemon that may have read it; a killed command leaves
  the maintenance requested until the next one clears it, which `MaintenanceEnds`
  exempts; an activation that was not confirmed before its token lapsed is never
  refreshed (`oauth.py:550`), which `RefreshedInTheEnd` exempts;
* the publication pushes the branch by its name after an earlier comparison
  (`publication.py:303`), so a commit of the user in between reaches the remote
  before the publication is blocked; a cancellation between the push and the pull
  request, or with a branch that was moved, is never confirmed; a worktree is
  removed by force after its comparison, without another look
  (`publication.py:97`), so an edit in between is lost; a person who keeps running
  `changes publication` can keep the daemon's cleanup from the lock for ever;
* an answer that was consumed by a daemon that then died is not given to Codex again
  (`daemon.py:1013`); a dirty planning worktree blocks every later lease; a plan
  of unsupported size leaves its clean worktree behind.

## 4. Proofs

`HandoffProofs` proves, from the two assumptions on the constants (processes are
distinct, bounds are natural numbers), for any set of `changes apply` processes
and any bounds:

| theorem | states |
|---|---|
| `TypeCorrect` | `Spec => []TypeOK` |
| `HandoffInvariant` | `Spec => [](TypeOK /\ HandoffInv)` |
| `AdvanceSafety`, `ReportSafety` | `OnlyAcceptedAdvances`, `ServerNeverAhead` |
| `RowSafety`, `LockSafety` | a hand-off row is bound to the accepted revisions; who is between the check of the branch and its journal holds the repository lock |
| `ValidationSafety` | `PassedMeansPassed` |
| `BindingIsFinal` | `BoundForGood` |
| `Refinement` | `Spec => Promotion!Spec` under the mapping |
| `UserBranchSafety`, `AppliedOnceSafety` | from the refinement: the action properties |

The safety properties are not inductive by themselves. That the server is never
ahead, for example, rests on what a process in the middle of its attempt
remembers: `pc = "complete"` must imply an applied row, and a stale copy of the
change set must not say "accepted" when the row does not. `HandoffInv` adds this
in four parts, each proved preserved action by action: `ServerInv` (what the server has bound), `BindingInv` (a change set is
bound iff it carries the server's revision, and copies of a bound one are
accurate), `OrderInv` (Git before the branch row before the journal before the
server, and who is in the critical section holds the lock), `ValidationInv` (the
command validates the newest revision, and one that passed on the server is older than
any under validation, so that a cancelled start takes back a number the server never
showed as passed). `PromiseStep` then maps every step to a step of Promotion or a stutter.

`PlanQuestionsProofs` proves, from the assumption that the bounds are natural
numbers, the five safety properties of the run `plan` for any numbers of commits,
questions, leases, faults and deaths:

| theorem | states |
|---|---|
| `PlanTypeCorrect` | `Spec => []TypeOK` |
| `PlanBaseSafety` | `Spec => []PlannedAtBase` |
| `AnswerSafety` | `Spec => []ResumedWithAnswer` |
| `DropSafety` | `Spec => DroppedIsOver` |
| `EditsSafety` | `Spec => EditsKept` |

The inductive invariant `PlanInv` is `TypeOK` with three parts, preserved one
action at a time, each using only `TypeOK` and the parts before it. `BaseInv` adds
to `PlannedAtBase` what the steps before it hold in their hands: a base to bind
at `post`, a bound one at `prepare`. `SuspensionInv` says that nothing executes a
run whose question is suspended, and that an execution that is about to leave its
suspended plan has lost the lease (the raced answer is the case that could break
it); `DroppedIsOver` follows from it step by step. `AnswerInv` carries the
answer: from claim or recovery to the prompt, `told` is the question that slept
and was answered.

`PublicationProofs` proves, from the assumption that the processes and the commits are
distinct and the bounds on faults, commands and acts of the user natural numbers,
the four invariants of the run `publication`:

| theorem | states |
|---|---|
| `PublicationTypeCorrect` | `Spec => []TypeOK` |
| `RetentionSafety` | `Spec => []RetainedUntilMerge` |
| `StoreSafety` | `Spec => []StoreFollowsServer` |
| `CleanupSafety` | `Spec => []CleanedMeansGone` |

The inductive invariant `PublicationInv` never mentions the repository lock. Daemon
and command are kept apart by facts that stay true once they are: the pull request
is merged (`MergeInv`), the server has been told (`ReportInv`), the retention is over
(`RetentionInv`), an artifact is gone (`CleanInv`). What a process remembers of one of
them is therefore still right when it acts on it, whatever the other did meanwhile,
and each step of a cleanup may find its work done.

`BatchRunProofs` proves, from the assumption that there is a task and a revision, and as
many turns as tasks, faults and deaths can use, the four safety properties of the run `batch` for any
number of tasks, turns and revisions:

| theorem | states |
|---|---|
| `BatchTypeCorrect` | `Spec => []TypeOK` |
| `PersistenceSafety` | `Spec => []PersistedBeforeAdvancing` |
| `SnapshotSafety` | `Spec => []SnapshotIsReportedWork` |
| `NoRerun` | `Spec => CompletedNotRerun` |

The inductive invariant `BatchInv` adds four parts to the types. `OrderInv`: the
server's tasks are completed up to the current one and pending after it, and the
journal has no row beyond the current task or its revision. `LeaseInv`: an execution
has the lease, and the saved result, the report and the snapshot come in this order.
`RowInv` adds to `PersistedBeforeAdvancing` that a saved row holds the whole work of
the tasks up to its own (`SavedWork`), and what each place of `_execute_batch` knows of
the row it is at (`PlaceInv`): a turn is under way only over a running row of a
pending task. `TreeInv` says what the worktree holds where the code looks at it: the
whole work of the tasks before, and, past the restoring of the worktree, nothing of a
turn that was interrupted. The snapshot takes its content from there. That the newest
revision of a task exists rests on `HasLeast`, from the well-foundedness of `<` in the
library.

`RunSupervisorProofs` proves, from the assumption that the bounds on tasks, slots and
leases are positive and the others natural numbers:

| theorem | states |
|---|---|
| `SupervisorTypeCorrect` | `Spec => []TypeOK` |
| `ResultsKept` | `Spec => SavedResultKept` |
| `ExecutedOnce` | `Spec /\ [][~ExecutedTwice]_vars => []OneTaskPerRun` |
| `OneRunPerSlot` | `Spec /\ [][~SlotGivenTwice]_vars => []SlotsDistinct` |
| `ReliablyExecutedOnce` | `Spec => []OneTaskPerRun` if `MaxFaults = 0` and no live lease expires |
| `ReliablyOneRunPerSlot` | `Spec => []SlotsDistinct` if besides the capacity is changed at most once |

The first two hold for the whole specification, with every fault, death and expiry.
`OneTaskPerRun` and `SlotsDistinct` do not, so their theorems take the steps that
break them as a hypothesis, by name and no others: `ExecutedTwice` is a lease that
lapses under a live task, a recovery that starts over half way, or a run that waits for
its user without its task being told; `SlotGivenTwice` adds an execution that ends
under a lease that goes on, and a capacity raised over the slot of a leased row that
recovery passed over. Section 3 has a behaviour for each. All other faults, deaths,
expiries, cancellations and changes of capacity are allowed. The last two theorems
show that under the constants of `supervisor_crash`, with any number of
deaths, these steps cannot occur.

The argument for one execution (`ExecInv`): a live task has the newest lease of its
run and the run is not to be claimed (`LeaseInv`), so a claim meets no live task; and
recovery starts when there are no tasks and goes over every row once (`LoopInv`), so
it meets none either. That it starts with none needs that no step leaves recovery
early: a reservation that was given back would (`daemon.py:2267`), which `PortInv`
excludes. For slots (`SlotInv`): a live task sits in the slot of its run, and a row
whose lease is active names a slot that no other run has, because the row's task
still occupies it, or recovery has yet to come to it, or the slot is beyond the
capacity (`ClaimSlots`). The third case is the one a raised capacity breaks.

`ProfileProofs` proves, from the assumption that commands, loop, requests and nobody are
distinct, that family 1 exists and that the bounds are natural numbers, the five
safety properties of the run `profile_change` for any set of commands, each of any
kind, and any numbers of faults, deaths and expiries, with and without `LateFaults`:

| theorem | states |
|---|---|
| `ProfileInvariant` | `Spec => []ProfileInv` |
| `ProfileTypes` | `Spec => []TypeOK` |
| `MutationAlone` | `Spec => []MutationExclusive` |
| `CredentialRecoverable` | `Spec => []RecoverableUnlessUndone` |
| `FamiliesApart` | `Spec => []FamilyUnmixed` |
| `LogoutKept` | `Spec => LogoutSticks` |

The run has one command beside the daemon; the theorems cover any number of them, which
may wait for, overlap and follow one another. `ProfileInv` has three parts.
`TypeInv` is the types with what each place of the code knows of its memory
(`Placed`): who refreshes without the mutation lock is a login that reconciles.

`MutationInv` is the exclusion. `Quiet` says that nothing executes or is claimed and
that the loop cannot begin anything: it is before its startup lock, or maintenance
is requested and it is past the gate's alternative. A command that waits may only
take an acknowledgement of the newest request for `Quiet` (`Handshake`), and from its
backup to its end `Quiet` holds, also for the store it would write back in a rollback: that
store says "requested" too, or the daemon was off. `Locked` confines all of it to the
holder of the mutation lock; the daemon's start, which needs that lock free, and its
steps (`LoopMove`) cannot end `Quiet` meanwhile.

`CredentialInv` is about copies. Who is between the read of the credential and the end of
its refresh holds the credential lock (`HolderInv`), and a credential anywhere is of a
family the server has issued (`IssueInv`), so a login gets one nobody has a copy of. Hence
the copy a refresh works with is the stored one, or that has been deleted or rolled
back (`CopyInv`), under a rotation id that was on disk before the request; a
rotation on the server then leaves the stored token current or one behind under that id.

Steps are of few kinds, and a lemma for each says what they keep: a step of one process
that leaves the handshake alone (`InnerStepKeeps`), one that at most deletes the
credential (`NeutralStepKeeps`), one of the holder of its lock (`HolderStepKeeps`), one of
the mutator (`MutatorStepKeeps`), one of the loop (`LoopMove`). Each action has a lemma
that shows it to be of such a kind.

Every invariant and every safety property of the passing runs is a theorem, the two of
the supervisor with the hypotheses above. Only model-checked: the liveness properties,
which rest on fairness and ENABLED and are out of the prover's reach.

## 5. Order of work

The hand-off came first, because it is where a mistake costs the user commits;
then the supervisor and the batch, whose results it hands off; then what happens
after it (Publication), beside it (Profile) and before it (PlanQuestions). Each
module was checked before it was proved about, and proofs went first to modules
whose properties speak of a single run, where the invariant is small.

What would come next: the creation of run branches and the worktrees of
ordinary runs as actions of Handoff.

## 6. Not modelled

The runtime's pipe protocol, the HTTP client, configuration parsing, paths,
service files, the CLI's output and the migration command: single-threaded
parsing and I/O, whose outcomes appear in the models as success or failure. The
server is external and modelled from how the daemon uses it: what it accepts, that
it answers a repeated call alike, that it ends leases nobody renews; GitHub
likewise. The choice of a collision-free port block is left out: only whether a
reservation is held. Also left out: the creation of a run branch from its upstream
base, the worktrees of ordinary runs and their retention, registration, the model
and project catalogues.
