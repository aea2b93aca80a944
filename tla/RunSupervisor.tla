---------------------------- MODULE RunSupervisor ----------------------------
(***************************************************************************)
(* The daemon's polling loop and the executions it supervises.             *)
(*                                                                         *)
(* run_forever is one coroutine; each claimed run is executed by a task    *)
(* of its own, with a heartbeat beside it.  They interleave at every await *)
(* of the server, and the process may die at any of them.  What survives   *)
(* is the SQLite store: the claims ("runs"), the saved results and the     *)
(* port reservations.  The server leases a run to the daemon under a       *)
(* generation, and leases it anew when the lease was not renewed.          *)
(*                                                                         *)
(* The hand-offs and publications of the same loop are in Handoff.  A run  *)
(* in plan mode differs in where it gives its ports back.                  *)
(***************************************************************************)
EXTENDS Naturals, FiniteSets, FiniteSetsExt

CONSTANTS
  Runs,      \* runs assigned to this installation
  Plans,     \* those in plan mode
  MaxTasks,  \* bound: execution tasks alive at the same time
  MaxCapacity, \* the largest max_concurrent_runs
  MaxGen,    \* bound: leases of one run
  MaxFaults, \* bound: calls of the server that fail or are lost
  MaxDeaths, \* bound: deaths of the daemon
  LiveLeaseMayExpire, \* may a lease expire under a running heartbeat?
  MaxCapacityChanges  \* bound: uses of `tb-agent concurrency set`

ASSUME SupervisorAssumption ==
  /\ Plans \subseteq Runs /\ IsFiniteSet(Runs)
  /\ MaxTasks \in Nat \ {0} /\ MaxCapacity \in Nat \ {0} /\ MaxGen \in Nat \ {0}
  /\ MaxFaults \in Nat /\ MaxDeaths \in Nat /\ MaxCapacityChanges \in Nat
  /\ LiveLeaseMayExpire \in BOOLEAN

Tasks  == 1..MaxTasks
NoTask == 0
Slots  == 0..(MaxCapacity - 1)
NoSlot == MaxCapacity

VARIABLES
  srv,      \* the server's view of each run
  claim,    \* the runs table: is there a lease token, of which lease, which slot
  pend,     \* is there a pending_result?
  port,     \* the state of the port reservation
  capacity, \* settings.max_concurrent_runs
  loop,     \* where run_forever is
  todo,     \* the rows of the inner loop it is in
  free,     \* available_slots
  recovered, \* recovery_attempted
  active,   \* active_tasks
  slotOf,   \* slot_by_run
  task,     \* the execution tasks
  acked,    \* history: the server has taken the result of the run
  faults, deaths, changes

storeVars == <<claim, pend, port>>
loopVars  == <<loop, todo, free, recovered>>
memVars   == <<active, slotOf>>
bounds    == <<faults, deaths, changes>>
vars == <<srv, claim, pend, port, capacity, loop, todo, free, recovered,
          active, slotOf, task, acked, faults, deaths, changes>>

-----------------------------------------------------------------------------
(* Data *)

\* "leased" stands for claimed, gathering_context and running under a lease
\* that has not expired; "waiting" for a run that waits for its user, before
\* its first claim or after a question, a blocker or a suspended plan;
\* "rejected" for rejected and superseded.
SrvState == {"queued", "leased", "waiting", "review", "completed", "failed",
             "cancelled", "rejected"}

\* ACKNOWLEDGED_RESULT_STATES
Acknowledged == {"review", "completed", "failed", "cancelled"}

\* terminal_states of _reconcile_terminal_resources
Terminal == {"completed", "failed", "cancelled", "rejected"}

NoClaim  == [token |-> FALSE, gen |-> 0, slot |-> 0]
FreeTask == [pc |-> "free", run |-> 0, gen |-> 0, slot |-> 0]

TaskState == {"free", "begin", "prepare", "run", "complete", "done"}
Live(t)   == task[t].pc \notin {"free", "done"}

\* The task's lease is the one the server honours.
Honoured(t) == /\ Live(t)
               /\ srv[task[t].run].state = "leased"
               /\ srv[task[t].run].gen = task[t].gen

Init ==
  /\ srv \in [Runs -> [state : {"queued", "waiting"}, gen : {0}]]
  /\ claim = [r \in Runs |-> NoClaim]
  /\ pend = [r \in Runs |-> FALSE]
  /\ port = [r \in Runs |-> "none"]
  /\ capacity = MaxCapacity
  /\ loop = "down" /\ todo = {} /\ free = {} /\ recovered = FALSE
  /\ active = [r \in Runs |-> NoTask]
  /\ slotOf = [r \in Runs |-> NoSlot]
  /\ task = [t \in Tasks |-> FreeTask]
  /\ acked = [r \in Runs |-> FALSE]
  /\ faults = 0 /\ deaths = 0 /\ changes = 0

-----------------------------------------------------------------------------
(* Helpers *)

Fault == faults < MaxFaults /\ faults' = faults + 1
Death == deaths < MaxDeaths /\ deaths' = deaths + 1

\* StateStore.finish_run: whichever lease the row is of.
Finished(r) == [claim EXCEPT ![r].token = FALSE]

\* ports.release
Released(r) == [port EXCEPT ![r] = IF @ = "reserved" THEN "released" ELSE @]

\* asyncio.create_task(self._execute(..)), and the two dictionaries; an older
\* task of the same run drops out of them but goes on.
Spawn(r, s) ==
  LET unused == {t \in Tasks : task[t].pc = "free"}
  IN  /\ unused # {}
      /\ task' = [task EXCEPT ![Min(unused)] =
           [pc |-> "begin", run |-> r, gen |-> srv'[r].gen, slot |-> s]]
      /\ active' = [active EXCEPT ![r] = Min(unused)]
      /\ slotOf' = [slotOf EXCEPT ![r] = s]

TaskGoto(t, l) == task' = [task EXCEPT ![t].pc = l]

\* Everything in memory is gone: the daemon died, or run_forever was left and
\* cancelled its tasks.
Exit ==
  /\ loop' = "down" /\ todo' = {} /\ free' = {} /\ recovered' = FALSE
  /\ active' = [r \in Runs |-> NoTask]
  /\ slotOf' = [r \in Runs |-> NoSlot]
  /\ task' = [t \in Tasks |-> FreeTask]

-----------------------------------------------------------------------------
(* run_forever *)

StartDaemon ==
  /\ loop = "down" /\ loop' = "top"
  /\ UNCHANGED <<srv, storeVars, capacity, todo, free, recovered, memVars, task,
                 acked, bounds>>

\* `tb-agent concurrency set`: _reload_live_capacity_if_changed takes the new
\* value over at the top of the loop.
ReloadCapacity ==
  /\ loop \in {"top", "down"} /\ changes < MaxCapacityChanges
  /\ capacity' \in (1..MaxCapacity) \ {capacity} /\ changes' = changes + 1
  /\ UNCHANGED <<srv, storeVars, loopVars, memVars, task, acked, faults, deaths>>

\* Finished tasks are taken out of the dictionaries, their exceptions logged.
ReapTasks ==
  LET over == {t \in Tasks : task[t].pc = "done"}
  IN  /\ loop = "top"
      /\ active' = [r \in Runs |-> IF active[r] \in over THEN NoTask ELSE active[r]]
      /\ slotOf' = [r \in Runs |-> IF active[r] \in over THEN NoSlot ELSE slotOf[r]]
      /\ task' = [t \in Tasks |-> IF t \in over THEN FreeTask ELSE task[t]]
      /\ IF recovered
         THEN loop' = "terminal" /\ todo' = {r \in Runs : port[r] = "reserved"}
         ELSE loop' = "recover" /\ todo' = {r \in Runs : claim[r].token}
      /\ UNCHANGED <<srv, storeVars, capacity, free, recovered, acked, bounds>>

\* _recover_workers takes the leased rows by slot.
NextRow(r) == r \in todo /\ \A q \in todo : claim[r].slot <= claim[q].slot

LeaseActive(r) == srv[r].state = "leased" /\ srv[r].gen = claim[r].gen

\* api.run, and finish_run for a lease that is over; a row of a slot beyond
\* the capacity is passed over.
InspectLease(r) ==
  /\ loop = "recover" /\ NextRow(r)
  /\ IF claim[r].slot < capacity /\ LeaseActive(r)
     THEN loop' = "heartbeat" /\ UNCHANGED <<todo, claim>>
     ELSE /\ todo' = todo \ {r} /\ UNCHANGED loop
          /\ claim' = IF claim[r].slot < capacity THEN Finished(r) ELSE claim
  /\ UNCHANGED <<srv, pend, port, capacity, free, recovered, memVars, task, acked,
                 bounds>>

\* api.heartbeat, ports.allocate and the new task.  A heartbeat the server
\* refuses is not recoverable and ends the daemon; a reservation that was
\* released raises RuntimeError, which run_forever only logs.
RecoverWorker(r) ==
  /\ loop = "heartbeat" /\ NextRow(r)
  /\ \/ /\ LeaseActive(r) /\ port[r] # "released"
        /\ UNCHANGED srv /\ Spawn(r, claim[r].slot)
        /\ port' = [port EXCEPT ![r] = "reserved"]
        /\ loop' = "recover" /\ todo' = todo \ {r} /\ UNCHANGED <<free, recovered>>
     \/ /\ LeaseActive(r) /\ port[r] = "released"
        /\ loop' = "top" /\ todo' = {}
        /\ UNCHANGED <<srv, port, free, recovered, memVars, task>>
     \/ ~LeaseActive(r) /\ Exit /\ UNCHANGED <<srv, port>>
  /\ UNCHANGED <<claim, pend, capacity, acked, bounds>>

\* Slip: recovery_attempted is only set when there was nothing to recover.
RecoveryDoneWhenIdle ==
  /\ loop = "recover" /\ todo = {}
  /\ recovered' = (\A r \in Runs : active[r] = NoTask)
  /\ loop' = "terminal" /\ todo' = {r \in Runs : port[r] = "reserved"}
  /\ UNCHANGED <<srv, storeVars, capacity, free, memVars, task, acked, bounds>>

RecoveryDone ==
  /\ loop = "recover" /\ todo = {}
  /\ recovered' = TRUE
  /\ loop' = "terminal" /\ todo' = {r \in Runs : port[r] = "reserved"}
  /\ UNCHANGED <<srv, storeVars, capacity, free, memVars, task, acked, bounds>>

\* Slip: a cancelled run is not among the terminal states.
ReconcileTerminalUncancelled(r) ==
  /\ loop = "terminal" /\ r \in todo
  /\ todo' = todo \ {r}
  /\ IF srv[r].state \in Terminal \ {"cancelled"}
     THEN claim' = Finished(r) /\ port' = Released(r)
     ELSE UNCHANGED <<claim, port>>
  /\ UNCHANGED <<srv, pend, capacity, loop, free, recovered, memVars, task, acked,
                 bounds>>

\* _reconcile_terminal_resources, one reservation at a time.
ReconcileTerminal(r) ==
  /\ loop = "terminal" /\ r \in todo
  /\ todo' = todo \ {r}
  /\ IF srv[r].state \in Terminal
     THEN claim' = Finished(r) /\ port' = Released(r)
     ELSE UNCHANGED <<claim, port>>
  /\ UNCHANGED <<srv, pend, capacity, loop, free, recovered, memVars, task, acked,
                 bounds>>

\* Slip: the slots in use are read from the store.
ComputeSlotsFromStore ==
  /\ loop = "terminal" /\ todo = {}
  /\ loop' = "claim"
  /\ free' = {s \in Slots : s < capacity} \
               {claim[r].slot : r \in {q \in Runs : claim[q].token}}
  /\ UNCHANGED <<srv, storeVars, capacity, todo, recovered, memVars, task, acked,
                 bounds>>

\* Slip: one slot too many.
ComputeSlotsInclusive ==
  /\ loop = "terminal" /\ todo = {}
  /\ loop' = "claim"
  /\ free' = (0..capacity) \ {slotOf[r] : r \in Runs}
  /\ UNCHANGED <<srv, storeVars, capacity, todo, recovered, memVars, task, acked,
                 bounds>>

ComputeSlots ==
  /\ loop = "terminal" /\ todo = {}
  /\ loop' = "claim"
  /\ free' = {s \in Slots : s < capacity} \ {slotOf[r] : r \in Runs}
  /\ UNCHANGED <<srv, storeVars, capacity, todo, recovered, memVars, task, acked,
                 bounds>>

\* The server admits a claim from its active leases.
MayClaim(r) ==
  /\ srv[r].state = "queued" /\ srv[r].gen < MaxGen
  /\ Cardinality({q \in Runs : srv[q].state = "leased"}) < capacity

Leased(r) == [srv EXCEPT ![r] = [state |-> "leased", gen |-> @.gen + 1]]

\* api.claim for the next available slot, ports.allocate and the new task.
ClaimRun(r) ==
  /\ loop = "claim" /\ free # {} /\ MayClaim(r)
  /\ srv' = Leased(r)
  /\ IF port[r] = "released"
     THEN /\ loop' = "top" /\ free' = {}
          /\ UNCHANGED <<port, memVars, task>>
     ELSE /\ port' = [port EXCEPT ![r] = "reserved"]
          /\ Spawn(r, Min(free))
          /\ free' = free \ {Min(free)} /\ UNCHANGED loop
  /\ UNCHANGED <<claim, pend, capacity, todo, recovered, acked, bounds>>

\* The lease is granted but the answer is lost.
ClaimLost(r) ==
  /\ loop = "claim" /\ free # {} /\ MayClaim(r) /\ Fault
  /\ srv' = Leased(r) /\ loop' = "top" /\ free' = {}
  /\ UNCHANGED <<storeVars, capacity, todo, recovered, memVars, task, acked,
                 deaths, changes>>

\* Nothing (more) to claim: sleep, or tidy up when nothing is active.
ClaimsDone ==
  /\ loop = "claim" /\ (free = {} \/ ~ \E r \in Runs : MayClaim(r))
  /\ free' = {}
  /\ IF \A r \in Runs : active[r] = NoTask
     THEN loop' = "pending" /\ todo' = {r \in Runs : pend[r]}
     ELSE loop' = "top" /\ UNCHANGED todo
  /\ UNCHANGED <<srv, storeVars, capacity, recovered, memVars, task, acked, bounds>>

\* Slip: only a result under review counts as acknowledged.
ReconcilePendingReviewOnly(r) ==
  /\ loop = "pending" /\ r \in todo
  /\ todo' = todo \ {r}
  /\ IF srv[r].state = "review"
     THEN pend' = [pend EXCEPT ![r] = FALSE] /\ claim' = Finished(r)
     ELSE UNCHANGED <<pend, claim>>
  /\ UNCHANGED <<srv, port, capacity, loop, free, recovered, memVars, task, acked,
                 bounds>>

\* _reconcile_pending_results
ReconcilePending(r) ==
  /\ loop = "pending" /\ r \in todo
  /\ todo' = todo \ {r}
  /\ IF srv[r].state \in Acknowledged
     THEN pend' = [pend EXCEPT ![r] = FALSE] /\ claim' = Finished(r)
     ELSE UNCHANGED <<pend, claim>>
  /\ UNCHANGED <<srv, port, capacity, loop, free, recovered, memVars, task, acked,
                 bounds>>

PendingDone ==
  /\ loop = "pending" /\ todo = {}
  /\ loop' = "idle" /\ todo' = {r \in Runs : claim[r].token}
  /\ UNCHANGED <<srv, storeVars, capacity, free, recovered, memVars, task, acked,
                 bounds>>

\* Slip: an inactive run's result is dropped with its claim.
ReconcileIdleDropsResult(r) ==
  /\ loop = "idle" /\ r \in todo
  /\ todo' = todo \ {r}
  /\ pend' = [pend EXCEPT ![r] = FALSE] /\ claim' = Finished(r)
  /\ UNCHANGED <<srv, port, capacity, loop, free, recovered, memVars, task, acked,
                 bounds>>

\* _reconcile_idle_active_runs
ReconcileIdle(r) ==
  /\ loop = "idle" /\ r \in todo
  /\ todo' = todo \ {r}
  /\ IF pend[r] /\ srv[r].state \notin Acknowledged
     THEN UNCHANGED <<pend, claim>>
     ELSE pend' = [pend EXCEPT ![r] = FALSE] /\ claim' = Finished(r)
  /\ UNCHANGED <<srv, port, capacity, loop, free, recovered, memVars, task, acked,
                 bounds>>

IdleDone ==
  /\ loop = "idle" /\ todo = {} /\ loop' = "top"
  /\ UNCHANGED <<srv, storeVars, capacity, todo, free, recovered, memVars, task,
                 acked, bounds>>

\* A call of the loop fails: run_forever logs it and starts over; recovery
\* that was under way is attempted again.
OperationFails ==
  /\ loop \in {"recover", "heartbeat", "terminal", "claim"} /\ Fault
  /\ loop = "recover" => todo # {}
  /\ loop' = "top" /\ todo' = {} /\ free' = {}
  /\ UNCHANGED <<srv, storeVars, capacity, recovered, memVars, task, acked, deaths,
                 changes>>

\* The reconciliation of results and of idle runs passes over a run whose
\* state it cannot fetch.
ReconcileSkips(r) ==
  /\ loop \in {"pending", "idle"} /\ r \in todo /\ Fault
  /\ todo' = todo \ {r}
  /\ UNCHANGED <<srv, storeVars, capacity, loop, free, recovered, memVars, task,
                 acked, deaths, changes>>

-----------------------------------------------------------------------------
(* _execute, for one task *)

\* save_claim and the look at the saved result are one step of the event loop.
SaveClaim(t) ==
  LET r == task[t].run
  IN  /\ task[t].pc = "begin"
      /\ claim' = [claim EXCEPT ![r] =
                     [token |-> TRUE, gen |-> task[t].gen, slot |-> task[t].slot]]
      /\ TaskGoto(t, IF pend[r] THEN "complete" ELSE "prepare")
      /\ UNCHANGED <<srv, pend, port, capacity, loopVars, memVars, acked, bounds>>

\* The task comes to rest with its claim left as it is: a call was refused or
\* failed, or its heartbeat did.
Abandon(t) ==
  /\ task[t].pc \in {"prepare", "run", "complete"}
  /\ \/ ~Honoured(t) /\ UNCHANGED faults
     \/ Fault
  /\ TaskGoto(t, "done")
  /\ UNCHANGED <<srv, storeVars, capacity, loopVars, memVars, acked, deaths, changes>>

\* Context, checkouts and the "running" state: then the runtime starts.
PrepareRun(t) ==
  /\ task[t].pc = "prepare" /\ Honoured(t)
  /\ TaskGoto(t, "run")
  /\ UNCHANGED <<srv, storeVars, capacity, loopVars, memVars, acked, bounds>>

\* The run waits for its user: a blocker found while preparing, a question, a
\* suspended plan, or a plan the server will not take.  Only plan mode gives
\* the ports back.
WaitForUser(t) ==
  LET r == task[t].run
  IN  /\ task[t].pc \in {"prepare", "run"} \cup
                        (IF r \in Plans THEN {"complete"} ELSE {})
      /\ Honoured(t)
      /\ srv' = [srv EXCEPT ![r].state = "waiting"]
      /\ claim' = Finished(r)
      /\ port' = IF r \in Plans THEN Released(r) ELSE port
      /\ TaskGoto(t, "done")
      /\ UNCHANGED <<pend, capacity, loopVars, memVars, acked, bounds>>

\* Outside plan mode only the runtime's own failure gives the ports back; the
\* others leave them to _reconcile_terminal_resources.
FailRun(t) ==
  LET r == task[t].run
  IN  /\ task[t].pc \in {"prepare", "run"} /\ Honoured(t)
      /\ srv' = [srv EXCEPT ![r].state = "failed"]
      /\ claim' = Finished(r)
      /\ \/ (r \in Plans \/ task[t].pc = "run") /\ port' = Released(r)
         \/ r \notin Plans /\ UNCHANGED port
      /\ TaskGoto(t, "done")
      /\ UNCHANGED <<pend, capacity, loopVars, memVars, acked, bounds>>

\* The runtime succeeded: the result is saved before anything is told.
SaveResult(t) ==
  /\ task[t].pc = "run"
  /\ pend' = [pend EXCEPT ![task[t].run] = TRUE]
  /\ TaskGoto(t, "complete")
  /\ UNCHANGED <<srv, claim, port, capacity, loopVars, memVars, acked, bounds>>

\* What the server makes of a result; it answers a repeated one alike.
TakesResult(r, s) ==
  /\ srv' = [srv EXCEPT ![r].state = s]
  /\ acked' = [acked EXCEPT ![r] = TRUE]

\* _complete_with_retry, clear_pending_result, finish_run and ports.release.
CompleteRun(t) ==
  LET r == task[t].run
  IN  /\ task[t].pc = "complete"
      /\ \E s \in {"review", "completed"} :
           /\ Honoured(t) \/ (srv[r] = [state |-> s, gen |-> task[t].gen])
           /\ TakesResult(r, s)
           /\ port' = IF s = "completed" \/ r \in Plans THEN Released(r) ELSE port
      /\ pend' = [pend EXCEPT ![r] = FALSE]
      /\ claim' = Finished(r)
      /\ TaskGoto(t, "done")
      /\ UNCHANGED <<capacity, loopVars, memVars, bounds>>

\* The server takes an outcome but its answer is lost.  A completion is tried
\* again; after any other call the task has only a refused lease left.
OutcomeLost(t) ==
  LET r == task[t].run
  IN  /\ Honoured(t) /\ Fault
      /\ \/ task[t].pc = "complete" /\ TakesResult(r, "review")
         \/ /\ task[t].pc \in {"prepare", "run"} /\ UNCHANGED acked
            /\ \E s \in {"waiting", "failed"} : srv' = [srv EXCEPT ![r].state = s]
      /\ UNCHANGED <<storeVars, capacity, loopVars, memVars, task, deaths, changes>>

\* The daemon dies once the server has taken an outcome: before the store has
\* it, or between clear_pending_result and finish_run.
DiesTelling(t) ==
  LET r == task[t].run
  IN  /\ Honoured(t) /\ Death
      /\ \/ /\ task[t].pc = "complete" /\ TakesResult(r, "review")
            /\ pend' \in {pend, [pend EXCEPT ![r] = FALSE]}
         \/ /\ task[t].pc \in {"prepare", "run"} /\ UNCHANGED <<pend, acked>>
            /\ \E s \in {"waiting", "failed"} : srv' = [srv EXCEPT ![r].state = s]
      /\ Exit
      /\ UNCHANGED <<claim, port, capacity, faults, changes>>

-----------------------------------------------------------------------------
(* The daemon's death, the server and the user *)

DaemonDies ==
  /\ loop # "down" /\ Death /\ Exit
  /\ UNCHANGED <<srv, storeVars, capacity, acked, faults, changes>>

\* A lease nobody renews expires and the run is queued again, or given up.
\* A renewed one may expire all the same when the machine sleeps.
LeaseExpires(r) ==
  /\ srv[r].state = "leased"
  /\ LiveLeaseMayExpire \/
       ~ \E t \in Tasks : Live(t) /\ task[t].run = r /\ task[t].gen = srv[r].gen
  /\ srv' = [srv EXCEPT ![r].state = IF srv[r].gen < MaxGen THEN "queued" ELSE "failed"]
  /\ UNCHANGED <<storeVars, capacity, loopVars, memVars, task, acked, bounds>>

\* The user starts the run, or answers: it is queued (again).
UserAnswers(r) ==
  /\ srv[r].state = "waiting" /\ srv[r].gen < MaxGen
  /\ srv' = [srv EXCEPT ![r].state = "queued"]
  /\ UNCHANGED <<storeVars, capacity, loopVars, memVars, task, acked, bounds>>

Cancel(r) ==
  /\ srv[r].state \in {"queued", "leased", "waiting"}
  /\ srv' = [srv EXCEPT ![r].state = "cancelled"]
  /\ UNCHANGED <<storeVars, capacity, loopVars, memVars, task, acked, bounds>>

\* The review of the result ends, see Handoff.
Conclude(r) ==
  /\ srv[r].state = "review"
  /\ \E s \in {"completed", "rejected"} : srv' = [srv EXCEPT ![r].state = s]
  /\ UNCHANGED <<storeVars, capacity, loopVars, memVars, task, acked, bounds>>

-----------------------------------------------------------------------------

\* run_forever goes on unless it is told otherwise.
Loop ==
  \/ ReapTasks \/ RecoveryDone \/ ComputeSlots \/ ClaimsDone \/ PendingDone
  \/ IdleDone
  \/ \E r \in Runs : \/ InspectLease(r) \/ RecoverWorker(r) \/ ReconcileTerminal(r)
                     \/ ClaimRun(r) \/ ReconcilePending(r) \/ ReconcileIdle(r)

Execute(t) ==
  \/ SaveClaim(t) \/ Abandon(t) \/ PrepareRun(t) \/ WaitForUser(t) \/ FailRun(t)
  \/ SaveResult(t) \/ CompleteRun(t)

Next ==
  \/ StartDaemon \/ ReloadCapacity \/ Loop \/ OperationFails \/ DaemonDies
  \/ \E t \in Tasks : Execute(t) \/ OutcomeLost(t) \/ DiesTelling(t)
  \/ \E r \in Runs : \/ ClaimLost(r) \/ ReconcileSkips(r) \/ LeaseExpires(r)
                     \/ UserAnswers(r) \/ Cancel(r) \/ Conclude(r)

Spec == Init /\ [][Next]_vars

\* The service manager restarts the daemon, coroutines that can go on do, and
\* a lease that nobody renews ends.
Fairness ==
  /\ WF_vars(StartDaemon) /\ WF_vars(Loop)
  /\ \A t \in Tasks : WF_vars(Execute(t))
  /\ \A r \in Runs : WF_vars(LeaseExpires(r))

FairSpec == Spec /\ Fairness

-----------------------------------------------------------------------------
(* Properties *)

TypeOK ==
  /\ srv \in [Runs -> [state : SrvState, gen : 0..MaxGen]]
  /\ claim \in [Runs -> [token : BOOLEAN, gen : 0..MaxGen, slot : Slots]]
  /\ pend \in [Runs -> BOOLEAN] /\ acked \in [Runs -> BOOLEAN]
  /\ port \in [Runs -> {"none", "reserved", "released"}]
  /\ capacity \in 1..MaxCapacity
  /\ loop \in {"down", "top", "recover", "heartbeat", "terminal", "claim",
               "pending", "idle"}
  /\ todo \subseteq Runs /\ free \subseteq Slots /\ recovered \in BOOLEAN
  /\ active \in [Runs -> Tasks \cup {NoTask}]
  /\ slotOf \in [Runs -> Slots \cup {NoSlot}]
  /\ \A t \in Tasks : \/ task[t] = FreeTask
                      \/ task[t] \in [pc : TaskState, run : Runs, gen : 1..MaxGen,
                                      slot : Slots]
  /\ faults \in Nat /\ deaths \in Nat /\ changes \in Nat

\* Work that was done is not lost: a saved result stays in the store until the
\* server has taken it or has ended the run.
SavedResultKept ==
  [][\A r \in Runs : pend[r] /\ ~pend'[r] =>
        acked'[r] \/ srv'[r].state \in Terminal]_vars

\* A live task is the one its run's entry in active_tasks points at: no run is
\* executed twice at the same time.
OneTaskPerRun ==
  \A t \in Tasks : Live(t) => active[task[t].run] = t

\* README.md: "the daemon assigns a stable worker slot and a persisted
\* collision-checked port range to each active run".
SlotsDistinct ==
  \A r, q \in Runs : r # q /\ slotOf[r] # NoSlot => slotOf[r] # slotOf[q]

\* A lease whose answer arrived is executed, and not left to expire: ports.py
\* refuses ports only to "a terminal run".
ClaimedIsExecuted ==
  [][\A r \in Runs : srv'[r].gen # srv[r].gen /\ faults' = faults
        => active'[r] # NoTask]_vars

\* A saved result reaches the server or the server ends the run, unless it
\* waits for its user.
ResultDelivered ==
  \A r \in Runs : pend[r] ~> ~pend[r] \/ srv[r].state \in {"waiting", "rejected"}

\* A run that ended has its ports given back and, as `maintenance` requires,
\* its claim taken out of the store.
EndedIsTidied ==
  \A r \in Runs : srv[r].state \in Terminal ~> port[r] # "reserved" /\ ~claim[r].token
=============================================================================
