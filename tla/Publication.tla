----------------------------- MODULE Publication -----------------------------
(***************************************************************************)
(* The publication of one applied run branch as a GitHub pull request, and *)
(* the cleanup after its merge.  The daemon (_reconcile_publications) and  *)
(* `changes publication` run the same code, in processes of their own and  *)
(* without a lock until the cleanup; the user commits to the branch and    *)
(* edits the worktree meanwhile, and asks, cancels and merges in the       *)
(* browser.                                                                *)
(*                                                                         *)
(* Every request, git or gh call and transaction is a step.  Tether Brain  *)
(* and GitHub are modelled by what the code expects of them.               *)
(***************************************************************************)
EXTENDS Naturals

CONSTANTS Daemon, Terminal, Nobody,     \* the processes
          Accepted, UserCommit, Absent, \* what a ref can point to
          MaxFaults, MaxUser, MaxCommands \* bounds of the environment

ASSUME PublicationAssumption ==
  /\ Daemon # Terminal /\ Nobody \notin {Daemon, Terminal}
  /\ Accepted # UserCommit /\ Absent \notin {Accepted, UserCommit}
  /\ {MaxFaults, MaxUser, MaxCommands} \subseteq Nat

VARIABLES server,  \* publication_status.state in Tether Brain
          hub,     \* GitHub: the remote branch, and the pull request with its head
          repo,    \* the local refs and the worktree
          store,   \* run_branches.state and the row of the worktree
          lock,    \* the repository lock
          old,     \* the retention after the merge has passed
          pc, loc, \* where each process is, and what it has read
          left     \* what the environment may still do

vars == <<server, hub, repo, store, lock, old, pc, loc, left>>

Workers == {Daemon, Terminal}
NoMemory == [outer |-> "none", state |-> "none", pr |-> "none", head |-> Absent,
             result |-> "none", local |-> Absent]

Init ==
  /\ server = "requested" /\ old = FALSE /\ lock = Nobody
  /\ hub = [branch |-> Absent, pr |-> "none", head |-> Absent]
  /\ repo = [branch |-> Accepted, snapshot |-> Accepted, worktree |-> "clean"]
  /\ store = [state |-> "accepted", row |-> TRUE]
  /\ pc = [w \in Workers |-> "idle"] /\ loc = [w \in Workers |-> NoMemory]
  /\ left = [faults |-> MaxFaults, user |-> MaxUser, commands |-> MaxCommands]

At(w, place) == pc[w] = place
Goto(w, place) == pc' = [pc EXCEPT ![w] = place]
\* A lost message, a failing command or a death.
Fault == left.faults > 0 /\ left' = [left EXCEPT !.faults = @ - 1]
\* An exception leaves the reconciliation and releases the lock on its way.
Fails(w) == Goto(w, "failed") /\ lock' = IF lock = w THEN Nobody ELSE lock
Ends(w) == Goto(w, "idle") /\ loc' = [loc EXCEPT ![w] = NoMemory]

(***************************************************************************)
(* Tether Brain: the states a report may come from.                        *)
(***************************************************************************)
From(status) ==
  CASE status = "pushing"         -> {"requested"}
    [] status = "creating_pr"     -> {"pushing", "creating_pr"}
    [] status = "published"       -> {"pushing", "creating_pr", "cancel_requested", "published"}
    [] status = "merged"          -> {"published", "merged"}
    [] status = "cancelled"       -> {"cancel_requested", "cancelled"}
    [] status = "blocked"         -> {"pushing", "creating_pr", "blocked"}
    [] status = "cleanup_pending" -> {"merged", "cleanup_pending", "cleanup_blocked"}
    [] status \in {"cleaned", "cleanup_blocked"} -> {"cleanup_pending", status}

\* A report is taken, refused, or lost on its way there or back.
Post(w, status, next) ==
  \/ server \in From(status) /\ server' = status /\ next /\ UNCHANGED <<left, lock>>
  \/ server \notin From(status) /\ Fails(w) /\ UNCHANGED <<server, loc, left>>
  \/ /\ Fault /\ Fails(w) /\ UNCHANGED loc
     /\ server' \in {server} \cup (IF server \in From(status) THEN {status} ELSE {})

(***************************************************************************)
(* _reconcile_publication, up to the pull request.                         *)
(***************************************************************************)
\* pending_publications, or api.run of the command.
Fetch(w) ==
  LET next == CASE server = "requested" -> "start"
                [] server \in {"cleanup_pending", "cleanup_blocked"} -> "cleanup"
                [] OTHER -> "local"
  IN
  /\ At(w, "idle") /\ server \notin {"none", "blocked", "cancelled", "cleaned"}
  /\ Goto(w, next)
  /\ loc' = [loc EXCEPT ![w].outer = server, ![w].state = server]
  /\ IF w = Daemon THEN UNCHANGED left
     ELSE left.commands > 0 /\ left' = [left EXCEPT !.commands = @ - 1]
  /\ UNCHANGED <<server, hub, repo, store, lock, old>>

StartPublication(w) ==
  /\ At(w, "start")
  /\ Post(w, "pushing", Goto(w, "local") /\ loc' = [loc EXCEPT ![w].state = "pushing"])
  /\ UNCHANGED <<hub, repo, store, old>>

\* The local branch must be where the acceptance left it; then the upstream
\* branch is fetched.
CheckLocalHead(w) ==
  /\ At(w, "local")
  /\ \/ repo.branch = Accepted /\ Goto(w, "list") /\ UNCHANGED <<left, lock>>
     \/ repo.branch # Accepted /\ Fails(w) /\ UNCHANGED left
     \/ Fault /\ Fails(w)
  /\ UNCHANGED <<server, hub, repo, store, old, loc>>

ListPullRequests(w) ==
  /\ At(w, "list") /\ Goto(w, "remote")
  /\ loc' = [loc EXCEPT ![w].pr = hub.pr, ![w].head = hub.head]
  /\ UNCHANGED <<server, hub, repo, store, lock, old, left>>

\* Slip: the result is what GitHub calls the state.
ResultOfProvider(m) == m.pr

Exact(m) == m.pr \in {"open", "merged"} /\ m.head = Accepted
ResultOf(m) == IF m.pr = "merged" THEN "merged" ELSE "published"

MayCreate(m) == m.state \notin {"cancel_requested", "published", "merged"}

\* The remote branch is looked up, and what was read decides.
Decide(w) ==
  LET m == loc[w]
      r == hub.branch
      Found(result) == Goto(w, "report") /\ loc' = [loc EXCEPT ![w].result = result]
                       /\ UNCHANGED lock
  IN
  /\ At(w, "remote")
  /\ IF Exact(m) /\ (r = Accepted \/ (r = Absent /\ m.pr = "merged")) THEN Found(ResultOf(m))
     ELSE IF m.pr # "none" THEN Fails(w) /\ UNCHANGED loc
     ELSE IF ~MayCreate(m) THEN Found("cancelled")
     ELSE IF r = UserCommit THEN Fails(w) /\ UNCHANGED loc
     ELSE Goto(w, IF r = Absent THEN "push" ELSE "create") /\ UNCHANGED <<loc, lock>>
  /\ UNCHANGED <<server, hub, repo, store, old, left>>

\* git push of the ref by its name and without force: the remote branch is made
\* or fast-forwarded (the user commits on top of the accepted commit).
Pushed(c) == [hub EXCEPT !.branch = c, !.head = IF hub.pr = "open" THEN c ELSE @]
Pushable == repo.branch # Absent /\ (hub.branch = UserCommit => repo.branch = UserCommit)

Push(w) ==
  /\ At(w, "push")
  /\ \/ Pushable /\ hub' = Pushed(repo.branch) /\ Goto(w, "verify") /\ UNCHANGED <<left, lock>>
     \/ ~Pushable /\ Fails(w) /\ UNCHANGED <<hub, left>>
     \/ Fault /\ Fails(w) /\ hub' \in {hub} \cup {Pushed(c) : c \in {repo.branch} \ {Absent}}
  /\ UNCHANGED <<server, repo, store, old, loc>>

VerifyRemote(w) ==
  /\ At(w, "verify")
  /\ IF hub.branch = Accepted THEN Goto(w, "create") /\ UNCHANGED lock ELSE Fails(w)
  /\ UNCHANGED <<server, hub, repo, store, old, loc, left>>

\* GitHub refuses a second pull request of the branch.
Created == [hub EXCEPT !.pr = "open", !.head = hub.branch]
Creatable == hub.pr = "none" /\ hub.branch # Absent

CreatePullRequest(w) ==
  /\ At(w, "create")
  /\ \/ Creatable /\ hub' = Created /\ Goto(w, "confirm") /\ UNCHANGED <<left, lock>>
     \/ ~Creatable /\ Fails(w) /\ UNCHANGED <<hub, left>>
     \/ Fault /\ Fails(w) /\ hub' \in {hub} \cup (IF Creatable THEN {Created} ELSE {})
  /\ UNCHANGED <<server, repo, store, old, loc>>

ConfirmPullRequest(w) ==
  /\ At(w, "confirm")
  /\ IF Exact(hub)
     THEN /\ Goto(w, "report") /\ UNCHANGED lock
          /\ loc' = [loc EXCEPT ![w].result = ResultOf(hub)]
     ELSE Fails(w) /\ UNCHANGED loc
  /\ UNCHANGED <<server, hub, repo, store, old, left>>

(***************************************************************************)
(* The reports of the result, and run_branches after each of them.         *)
(***************************************************************************)
Report(w) ==
  LET m == loc[w]
      then == IF m.state = "merged" THEN "mark_merged"
              ELSE IF m.state = "published" /\ m.result = "merged" THEN "merged"
              ELSE "published"
  IN
  /\ At(w, "report")
  /\ \/ m.result = "cancelled" /\ Post(w, "cancelled", Ends(w))
     \/ m.result # "cancelled" /\ m.state = "pushing"
        /\ Post(w, "creating_pr", Goto(w, then) /\ UNCHANGED loc)
     \/ m.result # "cancelled" /\ m.state # "pushing"
        /\ Goto(w, then) /\ UNCHANGED <<server, loc, left, lock>>
  /\ UNCHANGED <<hub, repo, store, old>>

\* Slip: the failure of the report is ignored.
ReportPublishedAnyway(w) ==
  /\ At(w, "published") /\ Goto(w, "mark_published")
  /\ \/ server \in From("published") /\ server' = "published" /\ UNCHANGED left
     \/ server \notin From("published") /\ UNCHANGED <<server, left>>
     \/ Fault /\ UNCHANGED server
  /\ UNCHANGED <<hub, repo, store, lock, old, loc>>

ReportPublished(w) ==
  /\ At(w, "published")
  /\ Post(w, "published", Goto(w, "mark_published") /\ UNCHANGED loc)
  /\ UNCHANGED <<hub, repo, store, old>>

\* Slip: it does not look at the state it replaces.
PublishedAgain == [store EXCEPT !.state = "published"]

\* mark_run_branch_published leaves a later state alone.
Published == IF store.state = "accepted" THEN [store EXCEPT !.state = "published"] ELSE store

Merged == IF store.state \in {"accepted", "published"}
          THEN [store EXCEPT !.state = "merged"] ELSE store

MarkPublished(w) ==
  /\ At(w, "mark_published") /\ store' = Published
  /\ IF loc[w].result = "merged" THEN Goto(w, "merged") /\ UNCHANGED loc ELSE Ends(w)
  /\ UNCHANGED <<server, hub, repo, lock, old, left>>

ReportMerged(w) ==
  /\ At(w, "merged")
  /\ Post(w, "merged", Goto(w, "mark_merged") /\ UNCHANGED loc)
  /\ UNCHANGED <<hub, repo, store, old>>

MarkMerged(w) ==
  /\ At(w, "mark_merged") /\ store' = Merged /\ Goto(w, "cleanup")
  /\ UNCHANGED <<server, hub, repo, lock, old, left, loc>>

(***************************************************************************)
(* _cleanup_publication and cleanup_merged_publication.                    *)
(***************************************************************************)
\* Slip: the retention is not waited for.
EligibleAtOnce == TRUE

\* Nothing is touched before the retention has passed.
Eligible == old

BeginCleanup(w) ==
  /\ At(w, "cleanup")
  /\ \/ ~Eligible /\ Ends(w) /\ UNCHANGED <<server, left, lock>>
     \/ /\ Eligible /\ loc[w].state = "cleanup_pending"
        /\ Goto(w, "clean_lock") /\ UNCHANGED <<server, loc, left, lock>>
     \/ /\ Eligible /\ loc[w].state # "cleanup_pending"
        /\ Post(w, "cleanup_pending", Goto(w, "clean_lock") /\ UNCHANGED loc)
  /\ UNCHANGED <<hub, repo, store, old>>

\* A step of the cleanup that raises is reported as blocked.
Stuck(w) == Goto(w, "clean_blocked") /\ lock' = IF lock = w THEN Nobody ELSE lock

CleanupLock(w) ==
  /\ At(w, "clean_lock")
  /\ \/ lock = Nobody /\ lock' = w /\ Goto(w, "clean_refs")
     \/ lock # Nobody /\ Stuck(w)
  /\ UNCHANGED <<server, hub, repo, store, old, loc, left>>

\* Slip: a branch an earlier attempt has deleted counts as changed.
UntouchedStrict == repo.branch = Accepted

Untouched == repo.branch \in {Absent, Accepted}

CleanupReadsBranch(w) ==
  /\ At(w, "clean_refs")
  /\ IF Untouched
     THEN /\ loc' = [loc EXCEPT ![w].local = repo.branch] /\ UNCHANGED lock
          /\ Goto(w, IF ~store.row THEN "clean_branch"
                     ELSE IF repo.worktree = "gone" THEN "clean_row" ELSE "clean_tree")
     ELSE Stuck(w) /\ UNCHANGED loc
  /\ UNCHANGED <<server, hub, repo, store, old, left>>

\* The worktree is compared with the accepted tree, then removed by force.
CleanupComparesTree(w) ==
  /\ At(w, "clean_tree")
  /\ IF repo.worktree = "clean" THEN Goto(w, "clean_remove") /\ UNCHANGED lock ELSE Stuck(w)
  /\ UNCHANGED <<server, hub, repo, store, old, loc, left>>

RemoveWorktree(w) ==
  /\ At(w, "clean_remove")
  /\ \/ repo' = [repo EXCEPT !.worktree = "gone"] /\ Goto(w, "clean_row") /\ UNCHANGED <<left, lock>>
     \/ Fault /\ Stuck(w) /\ UNCHANGED repo
  /\ UNCHANGED <<server, hub, store, old, loc>>

DeleteRow(w) ==
  /\ At(w, "clean_row") /\ store' = [store EXCEPT !.row = FALSE] /\ Goto(w, "clean_branch")
  /\ UNCHANGED <<server, hub, repo, lock, old, loc, left>>

\* git update-ref -d <ref> <accepted> compares and deletes.
BranchDeletable(w) == repo.branch = Accepted

DeleteBranch(w) ==
  /\ At(w, "clean_branch")
  /\ \/ loc[w].local = Absent /\ Goto(w, "clean_snapshot") /\ UNCHANGED <<repo, lock>>
     \/ /\ loc[w].local = Accepted /\ BranchDeletable(w)
        /\ repo' = [repo EXCEPT !.branch = Absent]
        /\ Goto(w, "clean_snapshot") /\ UNCHANGED lock
     \/ loc[w].local = Accepted /\ ~BranchDeletable(w) /\ Stuck(w) /\ UNCHANGED repo
  /\ UNCHANGED <<server, hub, store, old, loc, left>>

DeleteSnapshot(w) ==
  /\ At(w, "clean_snapshot") /\ Goto(w, "clean_mark")
  /\ repo' = [repo EXCEPT !.snapshot = Absent]
  /\ UNCHANGED <<server, hub, store, lock, old, loc, left>>

\* mark_run_branch_cleaned, and the repository lock is released.
MarkCleaned(w) ==
  /\ At(w, "clean_mark")
  /\ IF store.state \in {"merged", "cleaned"}
     THEN store' = [store EXCEPT !.state = "cleaned"] /\ Goto(w, "cleaned") /\ lock' = Nobody
     ELSE Stuck(w) /\ UNCHANGED store
  /\ UNCHANGED <<server, hub, repo, old, loc, left>>

ReportCleaned(w) ==
  /\ \/ At(w, "cleaned") /\ Post(w, "cleaned", Ends(w))
     \/ At(w, "clean_blocked") /\ Post(w, "cleanup_blocked", Ends(w))
  /\ UNCHANGED <<hub, repo, store, old>>

\* Slip: the daemon, too, only logs it.
FailureLogged(w) ==
  /\ At(w, "failed") /\ Ends(w) /\ UNCHANGED <<server, hub, repo, store, lock, old, left>>

\* What the daemon does with an exception; the command only prints it.
ReportFailure(w) ==
  /\ At(w, "failed") /\ Ends(w)
  /\ \/ /\ w = Daemon /\ loc[w].outer \in {"pushing", "creating_pr"}
        /\ server' = IF server \in From("blocked") THEN "blocked" ELSE server
        /\ UNCHANGED left
     \/ (w # Daemon \/ loc[w].outer \notin {"pushing", "creating_pr"}) /\ UNCHANGED <<server, left>>
     \/ Fault /\ UNCHANGED server
  /\ UNCHANGED <<hub, repo, store, lock, old>>

Step(w) ==
  \/ Fetch(w) \/ StartPublication(w) \/ CheckLocalHead(w) \/ ListPullRequests(w) \/ Decide(w)
  \/ Push(w) \/ VerifyRemote(w) \/ CreatePullRequest(w) \/ ConfirmPullRequest(w)
  \/ Report(w) \/ ReportPublished(w) \/ MarkPublished(w) \/ ReportMerged(w) \/ MarkMerged(w)
  \/ BeginCleanup(w) \/ CleanupLock(w) \/ CleanupReadsBranch(w) \/ CleanupComparesTree(w)
  \/ RemoveWorktree(w) \/ DeleteRow(w) \/ DeleteBranch(w) \/ DeleteSnapshot(w)
  \/ MarkCleaned(w) \/ ReportCleaned(w) \/ ReportFailure(w)

(***************************************************************************)
(* The environment.                                                        *)
(***************************************************************************)
Dies(w) ==
  /\ Fault
  /\ ~At(w, "idle") /\ Ends(w) /\ lock' = IF lock = w THEN Nobody ELSE lock
  /\ UNCHANGED <<server, hub, repo, store, old>>

User == left.user > 0 /\ left' = [left EXCEPT !.user = @ - 1]

UserCommits ==
  /\ User /\ repo.branch = Accepted /\ repo' = [repo EXCEPT !.branch = UserCommit]
  /\ UNCHANGED <<server, hub, store, lock, old, pc, loc>>

UserEdits ==
  /\ User /\ repo.worktree = "clean" /\ repo' = [repo EXCEPT !.worktree = "edited"]
  /\ UNCHANGED <<server, hub, store, lock, old, pc, loc>>

\* In the browser: cancel the publication, or ask for a blocked one again.
UserCancels ==
  /\ User /\ server \in {"requested", "pushing", "creating_pr"} /\ server' = "cancel_requested"
  /\ UNCHANGED <<hub, repo, store, lock, old, pc, loc>>

UserAsksAgain ==
  /\ User /\ server = "blocked" /\ server' = "requested"
  /\ UNCHANGED <<hub, repo, store, lock, old, pc, loc>>

\* At GitHub: the pull request is merged, its branch deleted with it or not.
PullRequestMerged ==
  /\ hub.pr = "open"
  /\ \E branch \in {hub.branch, Absent} : hub' = [hub EXCEPT !.pr = "merged", !.branch = branch]
  /\ UNCHANGED <<server, repo, store, lock, old, pc, loc, left>>

RetentionPasses ==
  /\ ~old /\ server = "merged" /\ old' = TRUE
  /\ UNCHANGED <<server, hub, repo, store, lock, pc, loc, left>>

Environment ==
  \/ \E w \in Workers : Dies(w)
  \/ UserCommits \/ UserEdits \/ UserCancels \/ UserAsksAgain
  \/ PullRequestMerged \/ RetentionPasses

Next == (\E w \in Workers : Step(w)) \/ Environment

Spec == Init /\ [][Next]_vars

\* The daemon polls, a process that runs goes on, and time passes; nobody has to
\* run the command, merge, cancel or commit.
FairSpec ==
  /\ Spec /\ WF_vars(Step(Daemon)) /\ WF_vars(Step(Terminal) /\ ~At(Terminal, "idle"))
  /\ WF_vars(RetentionPasses)

(***************************************************************************)
(* Properties.                                                             *)
(***************************************************************************)
Cleaning == {"cleanup_pending", "cleanup_blocked", "cleaned"}
States == {"requested", "pushing", "creating_pr", "cancel_requested", "cancelled", "blocked",
           "published", "merged"} \cup Cleaning
Places == {"idle", "start", "local", "list", "remote", "push", "verify", "create", "confirm",
           "report", "published", "mark_published", "merged", "mark_merged", "cleanup",
           "clean_lock", "clean_refs", "clean_tree", "clean_remove", "clean_row",
           "clean_branch", "clean_snapshot", "clean_mark", "cleaned", "clean_blocked", "failed"}
Commits == {Accepted, UserCommit, Absent}

\* Every variable is in the set its code keeps it in.
TypeOK ==
  /\ server \in States /\ old \in BOOLEAN /\ lock \in Workers \cup {Nobody}
  /\ hub \in [branch : Commits, pr : {"none", "open", "merged"}, head : Commits]
  /\ repo \in [branch : Commits, snapshot : {Accepted, Absent},
               worktree : {"clean", "edited", "gone"}]
  /\ store \in [state : {"accepted", "published", "merged", "cleaned"}, row : BOOLEAN]
  /\ pc \in [Workers -> Places]
  /\ \A w \in Workers :
       loc[w] \in [outer : States \cup {"none"}, state : States \cup {"none"},
                   pr : {"none", "open", "merged"}, head : Commits,
                   result : {"none", "published", "merged", "cancelled"}, local : Commits]

\* Worktree, feature ref and snapshot ref stay until the pull request is merged
\* and the retention has passed, whatever the two processes have read before.
RetainedUntilMerge ==
  (\/ repo.worktree = "gone" \/ ~store.row \/ Absent \in {repo.branch, repo.snapshot})
    => hub.pr = "merged" /\ old

\* A publication is only called cleaned when everything is gone and the store
\* says so, also after deaths and lost answers in the middle of a cleanup.
CleanedMeansGone ==
  server = "cleaned" =>
    /\ store = [state |-> "cleaned", row |-> FALSE]
    /\ repo.worktree = "gone" /\ repo.snapshot = Absent /\ repo.branch # Accepted

\* run_branches never runs ahead of Tether Brain and never goes back, although
\* two processes report and record in any order.
StoreFollowsServer ==
  /\ store.state = "published" => server \in {"published", "merged"} \cup Cleaning
  /\ store.state = "merged" => server \in {"merged"} \cup Cleaning
  /\ store.state = "cleaned" => server \in Cleaning

\* A requested publication is published, blocked or cancelled in the end.
InProgress == server \in {"requested", "pushing", "creating_pr"}
PublicationSettles == InProgress ~> ~InProgress

\* Once the pull request of a published run is merged, its artifacts are cleaned
\* up in the end, unless the user has changed something.
Touched == UserCommit \in {repo.branch, hub.branch} \/ repo.worktree = "edited"
MergedIsCleaned ==
  (server = "published" /\ hub.pr = "merged") ~> (server = "cleaned" \/ Touched)

=============================================================================
