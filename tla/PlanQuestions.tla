---------------------------- MODULE PlanQuestions ----------------------------
(***************************************************************************)
(* The execution of one run in plan mode.  The daemon binds the run to the *)
(* commit its repository stands at, opens a clean worktree there, and lets *)
(* Codex plan in it.  Codex may ask: the question is put to the user by    *)
(* the server, the daemon waits for the answer for a while and suspends    *)
(* the plan when none comes; the answer may arrive at any moment.  An      *)
(* answered suspended run is claimed again and its thread resumed.         *)
(*                                                                         *)
(* Claims of several runs, slots and overlapping executions are            *)
(* RunSupervisor's; here one execution follows the other.  The server is   *)
(* external, and so are the user, Codex and the remote repository.         *)
(***************************************************************************)
EXTENDS Naturals

CONSTANTS
  MaxCommits,   \* bound: commits the remote branch is moved through
  MaxQuestions, \* bound: questions Codex asks
  MaxGen,       \* bound: leases of the run
  MaxFaults,    \* bound: calls of the server that fail or are lost
  MaxDeaths     \* bound: deaths of the daemon

ASSUME PlanAssumption ==
  /\ MaxCommits \in Nat \ {0} /\ MaxQuestions \in Nat /\ MaxGen \in Nat \ {0}
  /\ MaxFaults \in Nat /\ MaxDeaths \in Nat

VARIABLES
  run,     \* the server: the state of the run
  gen,     \* the server: leases so far
  bases,   \* the server: plan_repository_bases, 0 when none is bound
  ask,     \* the server: the outstanding question
  branch,  \* the remote branch's commit
  tree,    \* the planning worktree: none, clean or dirty
  head,    \* the commit it is at
  row,     \* is it in the worktrees table?
  claim,   \* is there a lease token in the runs table?
  port,    \* the state of the port reservation
  pend,    \* is there a pending_result?
  thread,  \* is there a saved Codex thread?
  heard,   \* the questions whose answer that thread has been given
  pc,      \* where _execute_plan is
  base,    \* the commit it has resolved
  told,    \* the answered question of the run it was handed, 0 when none
  mine,    \* the question it waits for
  emitted, \* file_change_items_emitted
  faults, deaths

server == <<run, gen, bases, ask>>
disk   == <<tree, head>>
store  == <<row, claim, port, pend>>
codex  == <<thread, heard>>
local  == <<base, told, mine, emitted>>
bounds == <<faults, deaths>>
vars == <<run, gen, bases, ask, branch, tree, head, row, claim, port, pend, thread,
          heard, pc, base, told, mine, emitted, faults, deaths>>

-----------------------------------------------------------------------------
(* Data *)

Commits   == 1..MaxCommits
Questions == 1..MaxQuestions

\* "leased" stands for claimed, gathering_context and running; "waiting" for a
\* run that waits for its user after a blocker or a suspended question.
RunState == {"queued", "leased", "waiting", "completed", "failed", "cancelled"}
Ended    == {"completed", "failed", "cancelled"}

\* "slept" marks a question that was suspended before it was answered.
AskState == [id : 0..MaxQuestions,
             state : {"none", "pending", "suspended", "answered", "consumed"},
             slept : BOOLEAN]

NoQuestion == [id |-> 0, state |-> "none", slept |-> FALSE]

Places == {"down", "idle", "begin", "bind", "post", "prepare", "start", "turn",
           "wait", "consume", "suspend", "suspended", "judge", "reject",
           "spoiled", "failed", "finish", "complete", "blocked"}

\* A call of the server that carries the lease is under way.
Calling == {"post", "prepare", "start", "turn", "consume", "suspend", "reject",
            "spoiled", "complete", "blocked"}

Init ==
  /\ run = "queued" /\ gen = 0 /\ bases = 0 /\ ask = NoQuestion /\ branch = 1
  /\ tree = "none" /\ head = 0 /\ row = FALSE
  /\ claim = FALSE /\ port = "none" /\ pend = FALSE
  /\ thread = FALSE /\ heard = {}
  /\ pc = "idle" /\ base = 0 /\ told = 0 /\ mine = 0 /\ emitted = FALSE
  /\ faults = 0 /\ deaths = 0

-----------------------------------------------------------------------------
(* Helpers *)

Goto(l) == pc' = l
Fault   == faults < MaxFaults /\ faults' = faults + 1
Death   == deaths < MaxDeaths /\ deaths' = deaths + 1

\* The server honours the lease of the execution.
Honoured == run = "leased"

\* The run as the server hands it over says which question is answered.
Answered == IF ask.state = "answered" THEN ask.id ELSE 0

\* What is released stays so, see ports.allocate.
Released == IF port = "reserved" THEN "released" ELSE port

\* finish_run and ports.release, in the order the code has them.
GiveUpRun == claim' = FALSE /\ port' = Released

\* _remove_plan_worktree, of a worktree that is clean or gone.
Removed == tree' = "none" /\ row' = FALSE

\* Slip: the worktree is removed as it is.
RemoveForced(next) == Removed /\ Goto(next)

\* _remove_plan_worktree: it refuses when the worktree is dirty, which the
\* caller reports as a blocker.
RemoveOrRaise(next) ==
  IF tree = "dirty" THEN Goto("blocked") /\ UNCHANGED <<tree, row>>
                    ELSE Removed /\ Goto(next)

-----------------------------------------------------------------------------
(* Claiming, and the start of the execution *)

\* api.claim, ports.allocate, save_claim.  The ports of a suspended or blocked
\* plan were released, and are refused to it for good: the lease is granted
\* and nothing executes it.
ClaimRun ==
  /\ pc = "idle" /\ run = "queued" /\ gen < MaxGen
  /\ run' = "leased" /\ gen' = gen + 1
  /\ IF port = "released"
     THEN UNCHANGED <<claim, port, told, pc>>
     ELSE claim' = TRUE /\ port' = "reserved" /\ told' = Answered /\ Goto("begin")
  /\ UNCHANGED <<bases, ask, branch, disk, row, pend, codex, base, mine, emitted, bounds>>

\* _recover_workers, after a restart.
RecoverWorker ==
  /\ pc = "down"
  /\ IF claim /\ run = "leased" /\ port # "released"
     THEN told' = Answered /\ Goto("begin") /\ UNCHANGED <<claim, port>>
     ELSE Goto("idle") /\ claim' = (claim /\ run = "leased") /\ UNCHANGED <<port, told>>
  /\ UNCHANGED <<server, branch, disk, row, pend, codex, base, mine, emitted, bounds>>

\* A saved result is sent again, nothing else is done.
Begin ==
  /\ pc = "begin" /\ Goto(IF pend THEN "complete" ELSE "bind")
  /\ emitted' = FALSE /\ mine' = 0
  /\ UNCHANGED <<server, branch, disk, store, codex, base, told, bounds>>

-----------------------------------------------------------------------------
(* The repository the plan is made for *)

\* A base the server has is only verified; otherwise the remote branch is
\* fetched, under the repository lock, and its commit is to be bound.
ResolveBase ==
  /\ pc = "bind"
  /\ IF bases # 0 THEN base' = bases /\ Goto("prepare")
                  ELSE base' = branch /\ Goto("post")
  /\ UNCHANGED <<server, branch, disk, store, codex, told, mine, emitted, bounds>>

BindBase ==
  /\ pc = "post" /\ Honoured /\ bases = 0
  /\ bases' = base /\ Goto("prepare")
  /\ UNCHANGED <<run, gen, ask, branch, disk, store, codex, local, bounds>>

\* The base is bound but the answer is lost, and the execution ends.
BindLost ==
  /\ pc = "post" /\ Honoured /\ Fault
  /\ bases' = base /\ Goto("idle")
  /\ UNCHANGED <<run, gen, ask, branch, disk, store, codex, local, deaths>>

\* No mapping, no ref, no selected remote, a fetch that fails.
CannotResolve ==
  /\ pc \in {"bind", "prepare"} /\ Goto("blocked")
  /\ UNCHANGED <<server, branch, disk, store, codex, local, bounds>>

\* Slip: the worktree is opened at the branch.
PrepareAtBranch ==
  /\ pc = "prepare" /\ Honoured
  /\ IF tree = "none" THEN tree' = "clean" /\ head' = branch /\ row' = TRUE /\ Goto("start")
     ELSE /\ UNCHANGED disk
          /\ IF tree = "clean" THEN row' = TRUE /\ Goto("start")
                               ELSE Goto("blocked") /\ UNCHANGED row
  /\ UNCHANGED <<server, branch, claim, port, pend, codex, local, bounds>>

\* api.context, planning_directory and record_worktree.  A worktree that is
\* there already must be at the base and clean.
PrepareProject ==
  /\ pc = "prepare" /\ Honoured
  /\ IF tree = "none"
     THEN tree' = "clean" /\ head' = bases /\ row' = TRUE /\ Goto("start")
     ELSE /\ UNCHANGED disk
          /\ IF tree = "clean" /\ head = bases
             THEN row' = TRUE /\ Goto("start")
             ELSE Goto("blocked") /\ UNCHANGED row
  /\ UNCHANGED <<server, branch, claim, port, pend, codex, local, bounds>>

\* The daemon dies between the worktree's creation and its record.
DiesPreparing ==
  /\ pc = "prepare" /\ Honoured /\ tree = "none" /\ Death
  /\ tree' = "clean" /\ head' = bases /\ Goto("down")
  /\ UNCHANGED <<server, branch, store, codex, local, faults>>

-----------------------------------------------------------------------------
(* The turn and its questions *)

\* Slip: the prompt is given an answer whether there is one or not.
StartTurnAlwaysTold ==
  /\ pc = "start" /\ Honoured /\ Goto("turn")
  /\ thread' = TRUE /\ heard' = heard \cup {told}
  /\ UNCHANGED <<server, branch, disk, store, local, bounds>>

\* Slip: the answer the run was handed with is left out of the prompt.
StartTurnUntold ==
  /\ pc = "start" /\ Honoured /\ Goto("turn")
  /\ thread' = TRUE /\ UNCHANGED heard
  /\ UNCHANGED <<server, branch, disk, store, local, bounds>>

\* The "running" state, thread_start and save_thread or thread_resume, and
\* turn_start; the prompt holds the answer to a suspended question.
StartTurn ==
  /\ pc = "start" /\ Honoured /\ Goto("turn")
  /\ thread' = TRUE
  /\ heard' = IF told = 0 THEN heard ELSE heard \cup {told}
  /\ UNCHANGED <<server, branch, disk, store, local, bounds>>

\* api.create_question
AskQuestion ==
  /\ pc = "turn" /\ Honoured /\ ask.id < MaxQuestions
  /\ ask' = [id |-> ask.id + 1, state |-> "pending", slept |-> FALSE]
  /\ mine' = ask.id + 1 /\ Goto("wait")
  /\ UNCHANGED <<run, gen, bases, branch, disk, store, codex, base, told, emitted, bounds>>

\* The turn goes on and changes a file, in spite of its read-only sandbox.
TouchFiles ==
  /\ pc = "turn" /\ emitted' = TRUE
  /\ tree' \in {tree, "dirty"}
  /\ UNCHANGED <<server, branch, head, store, codex, pc, base, told, mine, bounds>>

\* The answer shows while the daemon waits.
SeeAnswer ==
  /\ pc = "wait" /\ Answered = mine /\ Goto("consume")
  /\ UNCHANGED <<server, branch, disk, store, codex, local, bounds>>

\* api.consume_question, and the answer goes to Codex.
ConsumeAnswer ==
  /\ pc = "consume" /\ Honoured
  /\ ask' = [ask EXCEPT !.state = "consumed"]
  /\ heard' = heard \cup {mine} /\ Goto("turn")
  /\ UNCHANGED <<run, gen, bases, branch, disk, store, thread, local, bounds>>

\* It is consumed, but the daemon dies or is not told so: Codex never hears.
ConsumeLost ==
  /\ pc = "consume" /\ Honoured
  /\ ask' = [ask EXCEPT !.state = "consumed"]
  /\ \/ Fault /\ Goto("idle") /\ UNCHANGED deaths
     \/ Death /\ Goto("down") /\ UNCHANGED faults
  /\ UNCHANGED <<run, gen, bases, branch, disk, store, codex, local>>

\* PLAN_QUESTION_LIVE_WAIT_SECONDS are over.
WaitIsOver ==
  /\ pc = "wait" /\ Goto("suspend")
  /\ UNCHANGED <<server, branch, disk, store, codex, local, bounds>>

\* The server suspends a question that has no answer, and the run with it.
Suspends ==
  IF ask.state = "pending"
  THEN run' = "waiting" /\ ask' = [ask EXCEPT !.state = "suspended", !.slept = TRUE]
  ELSE UNCHANGED <<run, ask>>

\* Slip: the answer that came in time is not looked at.
SuspendQuestionBlindly ==
  /\ pc = "suspend" /\ Honoured /\ Suspends
  /\ Goto("suspended")
  /\ UNCHANGED <<gen, bases, branch, disk, store, codex, local, bounds>>

\* api.suspend_question; its answer tells of an answer that came first.
SuspendQuestion ==
  /\ pc = "suspend" /\ Honoured /\ Suspends
  /\ Goto(IF ask'.state = "answered" THEN "consume" ELSE "suspended")
  /\ UNCHANGED <<gen, bases, branch, disk, store, codex, local, bounds>>

SuspendLost ==
  /\ pc = "suspend" /\ Honoured /\ Suspends /\ Fault /\ Goto("idle")
  /\ UNCHANGED <<gen, bases, branch, disk, store, codex, local, deaths>>

\* The turn is interrupted, and PlanSuspended caught: finish_run, then the
\* worktree.  A dirty one raises with the claim gone and the ports kept, and
\* the server refuses the blocker.
LeaveSuspended ==
  /\ pc = "suspended" /\ claim' = FALSE
  /\ IF tree = "dirty" THEN UNCHANGED <<tree, row, port>>
                       ELSE Removed /\ port' = Released
  /\ Goto("idle")
  /\ UNCHANGED <<server, branch, head, pend, codex, local, bounds>>

-----------------------------------------------------------------------------
(* The end of the turn *)

TurnEnds ==
  /\ pc = "turn" /\ \E l \in {"judge", "failed"} : Goto(l)
  /\ UNCHANGED <<server, branch, disk, store, codex, local, bounds>>

\* The turn failed or produced no plan: a clean worktree is removed.
CleanUp ==
  /\ pc = "failed" /\ Goto("blocked")
  /\ IF tree = "dirty" THEN UNCHANGED <<tree, row>> ELSE Removed
  /\ UNCHANGED <<server, branch, head, claim, port, pend, codex, local, bounds>>

\* The plan counts when nothing was changed; one that is too long is a blocker.
\* save_pending_result.
JudgePlan ==
  /\ pc = "judge"
  /\ \/ tree = "dirty" /\ Goto("spoiled") /\ UNCHANGED pend
     \/ emitted /\ tree # "dirty" /\ Goto("reject") /\ UNCHANGED pend
     \/ ~emitted /\ tree # "dirty" /\ Goto("blocked") /\ UNCHANGED pend
     \/ ~emitted /\ tree # "dirty" /\ Goto("finish") /\ pend' = TRUE
  /\ UNCHANGED <<server, branch, disk, row, claim, port, codex, local, bounds>>

\* api.state failed, finish_run; the worktree is removed when it was clean, and
\* left with the ports kept when it is not so any longer.
RejectPlan ==
  /\ pc \in {"reject", "spoiled"} /\ Honoured
  /\ run' = "failed" /\ claim' = FALSE /\ Goto("idle")
  /\ IF pc = "spoiled" \/ tree = "dirty" THEN UNCHANGED <<tree, row>> ELSE Removed
  /\ port' = IF pc = "reject" /\ tree = "dirty" THEN port ELSE Released
  /\ UNCHANGED <<gen, bases, ask, branch, head, pend, codex, local, bounds>>

\* The worktree of a plan that was saved is no longer needed.
RemoveWorktree ==
  /\ pc = "finish" /\ RemoveOrRaise("complete")
  /\ UNCHANGED <<server, branch, head, claim, port, pend, codex, local, bounds>>

\* api.complete_plan, clear_pending_result, finish_run, ports.release.
CompletePlan ==
  /\ pc = "complete" /\ Honoured
  /\ run' = "completed" /\ pend' = FALSE /\ GiveUpRun /\ Goto("idle")
  /\ UNCHANGED <<gen, bases, ask, branch, disk, row, codex, local, bounds>>

\* api.comment, finish_run, ports.release.
ReportBlocker ==
  /\ pc = "blocked" /\ Honoured
  /\ run' = "waiting" /\ GiveUpRun /\ Goto("idle")
  /\ UNCHANGED <<gen, bases, ask, branch, disk, row, pend, codex, local, bounds>>

\* What the server makes of a plan's outcome.
Outcome == CASE pc = "complete" -> "completed" [] pc = "blocked" -> "waiting"
             [] OTHER -> "failed"

\* The server takes the outcome, but the daemon dies or is not told so; it may
\* die with the saved result just cleared.
OutcomeLost ==
  /\ pc \in {"complete", "blocked", "reject", "spoiled"} /\ Honoured
  /\ run' = Outcome
  /\ \/ Fault /\ Goto("idle") /\ UNCHANGED <<pend, deaths>>
     \/ Death /\ Goto("down") /\ UNCHANGED faults
        /\ pend' \in {pend, pend /\ pc # "complete"}
  /\ UNCHANGED <<gen, bases, ask, branch, disk, row, claim, port, codex, local>>

\* A call fails or its lease is refused: the task ends with all left as it is,
\* unless a lease in force still takes the blocker.  The wait only looks at
\* the run, whoever holds its lease.
Abandon ==
  /\ \/ pc \in Calling /\ ~Honoured /\ Goto("idle") /\ UNCHANGED faults
     \/ pc \in Calling \cup {"wait"} /\ Fault /\ Goto("idle")
     \/ pc \in (Calling \ {"blocked"}) \cup {"wait"} /\ Fault /\ Goto("blocked")
  /\ UNCHANGED <<server, branch, disk, store, codex, local, deaths>>

DaemonDies ==
  /\ pc # "down" /\ Death /\ Goto("down")
  /\ UNCHANGED <<server, branch, disk, store, codex, local, faults>>

-----------------------------------------------------------------------------
(* The reconciliation of what has ended, see RunSupervisor *)

\* Its ports, claim and saved result are no longer needed.
ReconcileTerminal ==
  /\ pc = "idle" /\ run \in Ended /\ (port = "reserved" \/ pend)
  /\ GiveUpRun /\ pend' = FALSE
  /\ UNCHANGED <<server, branch, disk, row, codex, pc, local, bounds>>

\* The claim of a run that nothing executes is dropped, unless its saved result
\* is still to be sent.
ReconcileIdle ==
  /\ pc = "idle" /\ claim /\ (pend => run \in Ended)
  /\ claim' = FALSE /\ pend' = FALSE
  /\ UNCHANGED <<server, branch, disk, row, port, codex, pc, local, bounds>>

-----------------------------------------------------------------------------
(* The user, the remote repository and the server *)

\* An answer to a suspended question queues its run.
UserAnswers ==
  /\ ask.state \in {"pending", "suspended"}
  /\ ask' = [ask EXCEPT !.state = "answered"]
  /\ run' = IF ask.state = "suspended" /\ run = "waiting" THEN "queued" ELSE run
  /\ UNCHANGED <<gen, bases, branch, disk, store, codex, pc, local, bounds>>

\* A blocked run is resumed.
UserResumes ==
  /\ run = "waiting" /\ ask.state # "suspended" /\ run' = "queued"
  /\ UNCHANGED <<gen, bases, ask, branch, disk, store, codex, pc, local, bounds>>

Cancel ==
  /\ run \notin Ended /\ run' = "cancelled"
  /\ UNCHANGED <<gen, bases, ask, branch, disk, store, codex, pc, local, bounds>>

\* Somebody works in the planning worktree, or undoes what was done there.
EditWorktree ==
  /\ tree # "none" /\ tree' \in {"clean", "dirty"} \ {tree}
  /\ UNCHANGED <<server, branch, head, store, codex, pc, local, bounds>>

MoveBranch ==
  /\ branch < MaxCommits /\ branch' = branch + 1
  /\ UNCHANGED <<server, disk, store, codex, pc, local, bounds>>

\* The heartbeat keeps the lease of an execution alive.
LeaseExpires ==
  /\ run = "leased" /\ pc \in {"idle", "down"}
  /\ run' = IF gen < MaxGen THEN "queued" ELSE "failed"
  /\ UNCHANGED <<gen, bases, ask, branch, disk, store, codex, pc, local, bounds>>

-----------------------------------------------------------------------------

Execution ==
  \/ Begin \/ ResolveBase \/ BindBase \/ CannotResolve \/ PrepareProject \/ StartTurn
  \/ AskQuestion \/ TouchFiles \/ SeeAnswer \/ ConsumeAnswer \/ WaitIsOver
  \/ SuspendQuestion \/ LeaveSuspended \/ TurnEnds \/ CleanUp \/ JudgePlan \/ RejectPlan
  \/ RemoveWorktree \/ CompletePlan \/ ReportBlocker \/ Abandon

Failure ==
  \/ BindLost \/ DiesPreparing \/ ConsumeLost \/ SuspendLost \/ OutcomeLost \/ DaemonDies

Environment ==
  \/ UserAnswers \/ UserResumes \/ Cancel \/ EditWorktree \/ MoveBranch \/ LeaseExpires

Next ==
  \/ ClaimRun \/ RecoverWorker \/ Execution \/ Failure
  \/ ReconcileTerminal \/ ReconcileIdle \/ Environment

Spec == Init /\ [][Next]_vars

-----------------------------------------------------------------------------
(* Properties *)

DataOK ==
  /\ run \in RunState /\ gen \in 0..MaxGen /\ bases \in 0..MaxCommits
  /\ ask \in AskState /\ branch \in Commits
  /\ tree \in {"none", "clean", "dirty"} /\ head \in 0..MaxCommits
  /\ port \in {"none", "reserved", "released"}
  /\ heard \subseteq Questions
  /\ pc \in Places /\ base \in 0..MaxCommits
  /\ told \in 0..MaxQuestions /\ mine \in 0..MaxQuestions
  /\ faults \in 0..MaxFaults /\ deaths \in 0..MaxDeaths

FlagsOK == {row, claim, pend, thread, emitted} \subseteq BOOLEAN

TypeOK == DataOK /\ FlagsOK

\* Codex plans at the commit the server has bound the run to, however often
\* the run is claimed, resumed or recovered and wherever its branch has gone
\* meanwhile.
PlannedAtBase ==
  pc \in {"start", "turn", "wait", "consume", "suspend", "judge"} =>
    bases # 0 /\ tree # "none" /\ head = bases

\* An execution drops its claim only when its lease is over: a plan is not put
\* aside as waiting for an answer the server already has, nor as blocked when
\* the server was not told (test_daemon.py: an "answer wins race with live wait
\* suspension").
DroppedIsOver == [][claim /\ ~claim' /\ pc # "idle" => run' # "leased"]_vars

\* Whoever worked in the planning worktree, their changes stay on disk.
EditsKept == [][tree = "dirty" => tree' # "none"]_vars

\* A plan that goes on after its question was suspended and answered goes on
\* with that answer, whatever died or was lost in between (test_daemon.py: a
\* "suspended plan resume uses exact server normalized answer").
ResumedWithAnswer ==
  ask.slept /\ ask.state = "answered" /\ pc \in {"turn", "wait", "judge", "finish"}
    => ask.id \in heard

-----------------------------------------------------------------------------
(* The inductive invariant behind them *)

\* What the next binding writes, and what a worktree is opened at, is a commit.
BaseInv ==
  /\ pc = "post" => base # 0
  /\ pc = "prepare" => bases # 0
  /\ PlannedAtBase

\* Nothing executes a run whose question is suspended, and nothing puts aside a
\* run the server still leases.
SuspensionInv ==
  /\ ask.state = "suspended" =>
       run \in {"waiting", "cancelled"} /\ pc \in {"down", "idle", "suspended"}
  /\ pc \in {"wait", "suspend"} => ask.state \in {"pending", "answered"}
  /\ pc \in {"wait", "suspend", "consume"} => mine # 0 /\ ask.id # 0
  /\ pc = "suspended" => run # "leased"

\* A question was asked, and the answer to one that slept is on its way to the turn.
AnswerInv ==
  /\ ask.state = "pending" => ~ask.slept
  /\ ask.state # "none" => ask.id # 0
  /\ ask.slept /\ ask.state = "answered"
       /\ pc \in {"begin", "bind", "post", "prepare", "start"} => told = ask.id
  /\ ResumedWithAnswer

PlanInv == TypeOK /\ BaseInv /\ SuspensionInv /\ AnswerInv
=============================================================================
