------------------------- MODULE RunSupervisorProofs -------------------------
(***************************************************************************)
(* Proofs about RunSupervisor, for any runs, any number of slots, tasks    *)
(* and leases, and any bounds on faults, deaths and changes of capacity.   *)
(*                                                                         *)
(* That no run is executed twice, and no slot given twice, is true while   *)
(* some failures do not happen; the theorems name exactly these failures,  *)
(* as steps.                                                               *)
(***************************************************************************)
EXTENDS RunSupervisor, NaturalLemmas

-----------------------------------------------------------------------------
(* What the theorems exclude *)

\* A suspended machine: a lease ends under a live task.
LeaseLapses ==
  \E r \in Runs, t \in Tasks :
    LeaseExpires(r) /\ Live(t) /\ task[t].run = r /\ task[t].gen = srv[r].gen

\* Recovery fails half way, and run_forever starts it over.
RecoveryRestarts == loop \in {"recover", "heartbeat"} /\ OperationFails

\* The run waits for its user, and its execution is not told.
WaitingUntold ==
  \E t \in Tasks : OutcomeLost(t) /\ srv'[task[t].run].state = "waiting"

ExecutedTwice == LeaseLapses \/ RecoveryRestarts \/ WaitingUntold

\* An execution ends on a failed call, under a lease that goes on.
LeaseAbandoned == \E t \in Tasks : Abandon(t) /\ Honoured(t)

\* A row whose lease recovery would take up.
ActiveClaim(r) == claim[r].token /\ LeaseActive(r)

\* The capacity is raised over the slot of a leased run that recovery passed over.
CapacityRaised ==
  /\ recovered
  /\ \E q \in Runs :
       /\ ActiveClaim(q) /\ capacity <= claim[q].slot /\ claim[q].slot < capacity'
       /\ ~ \E t \in Tasks : Live(t) /\ task[t].run = q /\ task[t].slot = claim[q].slot

SlotGivenTwice == ExecutedTwice \/ LeaseAbandoned \/ CapacityRaised

-----------------------------------------------------------------------------
(* The invariants *)

Recovering == loop \in {"recover", "heartbeat"}

SrvRec   == [state : SrvState, gen : 0..MaxGen]
ClaimRec == [token : BOOLEAN, gen : 0..MaxGen, slot : Slots]
TaskRec  == [pc : TaskState, run : Runs, gen : 1..MaxGen, slot : Slots]

\* The types, with the tasks as a function.
Types ==
  /\ srv \in [Runs -> SrvRec] /\ claim \in [Runs -> ClaimRec]
  /\ pend \in [Runs -> BOOLEAN] /\ acked \in [Runs -> BOOLEAN]
  /\ port \in [Runs -> {"none", "reserved", "released"}]
  /\ capacity \in 1..MaxCapacity
  /\ loop \in {"down", "top", "recover", "heartbeat", "terminal", "claim",
               "pending", "idle"}
  /\ todo \subseteq Runs /\ free \subseteq Slots /\ recovered \in BOOLEAN
  /\ active \in [Runs -> Tasks \cup {NoTask}]
  /\ slotOf \in [Runs -> Slots \cup {NoSlot}]
  /\ task \in [Tasks -> TaskRec \cup {FreeTask}]
  /\ faults \in Nat /\ deaths \in Nat /\ changes \in Nat

\* A lease has a generation; only a result the server has taken is reviewed.
StoreInv ==
  /\ Types
  /\ \A r \in Runs : /\ srv[r].state = "leased" => srv[r].gen # 0
                     /\ srv[r].state = "review" => acked[r]

\* A live task has the newest lease of its run, which is not claimed anew.
LeaseInv ==
  /\ \A t \in Tasks : Live(t) => /\ srv[task[t].run].gen = task[t].gen
                                 /\ srv[task[t].run].state \notin {"queued", "waiting"}
  /\ \A r \in Runs : claim[r].gen <= srv[r].gen

\* Recovery starts with no task, and goes over every row once.
LoopInv ==
  /\ loop = "down" \/ Recovering => ~recovered
  /\ loop \in {"terminal", "claim", "pending", "idle"} => recovered
  /\ ~recovered /\ ~Recovering => \A t \in Tasks : ~Live(t)
  /\ Recovering => /\ \A t \in Tasks : Live(t) => task[t].run \notin todo
                   /\ \A r \in todo : claim[r].token

\* The ports of a leased run are only given back after it.
PortInv ==
  /\ \A t \in Tasks : Live(t) /\ srv[task[t].run].state = "leased"
                        => port[task[t].run] = "reserved"
  /\ \A r \in Runs : ActiveClaim(r) => port[r] = "reserved"

ExecInv == StoreInv /\ LeaseInv /\ LoopInv /\ PortInv /\ OneTaskPerRun

\* A live task occupies the slot it was given, and saves that one.
TaskSlots ==
  /\ \A t \in Tasks : Live(t) => slotOf[task[t].run] = task[t].slot
  /\ Recovering => \A t \in Tasks : Live(t) => claim[task[t].run].slot = task[t].slot

\* Nobody else has, or is given, the slot of a row whose lease is active.
ClaimSlots ==
  /\ \A r, q \in Runs : r # q /\ ActiveClaim(q) => slotOf[r] # claim[q].slot
  /\ \A r, q \in Runs : r # q /\ ActiveClaim(r) /\ ActiveClaim(q)
                          => claim[r].slot # claim[q].slot
  /\ \A q \in Runs : ActiveClaim(q) =>
       \/ \E t \in Tasks : Live(t) /\ task[t].run = q /\ task[t].slot = claim[q].slot
       \/ claim[q].slot >= capacity
       \/ ~recovered /\ (Recovering => q \in todo)

\* A slot that is free is nobody's.
FreeSlots ==
  loop = "claim" => \A s \in free : s < capacity /\ \A r \in Runs : slotOf[r] # s

SlotInv == SlotsDistinct /\ TaskSlots /\ ClaimSlots /\ FreeSlots

-----------------------------------------------------------------------------
(* What the helpers do *)

\* The smallest of some numbers is one of them.
LEMMA LeastMember ==
  ASSUME NEW S \in SUBSET Nat, S # {}
  PROVE  Min(S) \in S
<1>1. \E x \in S : \A y \in S : x <= y
  BY HasLeast
<1> QED
  BY <1>1 DEF Min

\* The types of the rows, taken apart.
LEMMA Typing ==
  ASSUME StoreInv
  PROVE  /\ srv \in [Runs -> SrvRec] /\ claim \in [Runs -> ClaimRec]
         /\ \A r \in Runs : /\ srv[r] \in SrvRec /\ srv[r].state \in SrvState
                            /\ srv[r].gen \in 0..MaxGen
                            /\ claim[r] \in ClaimRec /\ claim[r].token \in BOOLEAN
                            /\ claim[r].gen \in 0..MaxGen /\ claim[r].slot \in Slots
         /\ \A t \in Tasks : Live(t) \/ task[t].pc # "free" =>
              /\ task[t] \in TaskRec /\ task[t].run \in Runs
              /\ task[t].gen \in 1..MaxGen /\ task[t].slot \in Slots
<1>1. srv \in [Runs -> SrvRec] /\ claim \in [Runs -> ClaimRec]
  BY DEF StoreInv, Types
<1>2. ASSUME NEW r \in Runs
      PROVE  /\ srv[r] \in SrvRec /\ srv[r].state \in SrvState
             /\ srv[r].gen \in 0..MaxGen
             /\ claim[r] \in ClaimRec /\ claim[r].token \in BOOLEAN
             /\ claim[r].gen \in 0..MaxGen /\ claim[r].slot \in Slots
  <2>1. srv[r] \in SrvRec /\ claim[r] \in ClaimRec
    BY <1>1
  <2> QED
    BY <2>1 DEF SrvRec, ClaimRec
<1>3. ASSUME NEW t \in Tasks, Live(t) \/ task[t].pc # "free"
      PROVE  /\ task[t] \in TaskRec /\ task[t].run \in Runs
             /\ task[t].gen \in 1..MaxGen /\ task[t].slot \in Slots
  <2>1. task[t].pc # "free"
    BY <1>3 DEF Live
  <2>2. task[t] \in TaskRec
    BY <2>1 DEF StoreInv, Types, FreeTask
  <2> QED
    BY <2>2 DEF TaskRec
<1> QED
  BY <1>1, <1>2, <1>3

\* finish_run takes the token of one row.
LEMMA FinishedEffect ==
  ASSUME StoreInv, NEW r \in Runs
  PROVE  /\ Finished(r) \in [Runs -> ClaimRec] /\ ~Finished(r)[r].token
         /\ \A q \in Runs : /\ Finished(r)[q].gen = claim[q].gen
                            /\ Finished(r)[q].slot = claim[q].slot
                            /\ Finished(r)[q].token => claim[q].token
                            /\ q # r => Finished(r)[q] = claim[q]
<1>1. claim \in [Runs -> ClaimRec]
  BY Typing
<1>2. \A c \in ClaimRec : /\ [c EXCEPT !.token = FALSE] \in ClaimRec
                          /\ [c EXCEPT !.token = FALSE].token = FALSE
                          /\ [c EXCEPT !.token = FALSE].gen = c.gen
                          /\ [c EXCEPT !.token = FALSE].slot = c.slot
  BY DEF ClaimRec
<1>3. Finished(r) = [claim EXCEPT ![r] = [claim[r] EXCEPT !.token = FALSE]]
  BY DEF Finished
<1> QED
  BY <1>1, <1>2, <1>3

\* ports.release changes at most the reservation of one run.
LEMMA ReleasedEffect ==
  ASSUME StoreInv, NEW r \in Runs
  PROVE  /\ Released(r) \in [Runs -> {"none", "reserved", "released"}]
         /\ \A q \in Runs : q # r => Released(r)[q] = port[q]
  BY DEF Released, StoreInv, Types

\* What the server does with a run leaves the generation of its lease.
LEMMA SrvEffect ==
  ASSUME StoreInv, NEW r \in Runs, NEW s \in SrvState, srv' = [srv EXCEPT ![r].state = s]
  PROVE  /\ srv' \in [Runs -> SrvRec] /\ srv'[r].state = s
         /\ \A q \in Runs : /\ srv'[q].gen = srv[q].gen
                            /\ q # r => srv'[q] = srv[q]
<1>1. srv \in [Runs -> SrvRec] /\ srv' = [srv EXCEPT ![r] = [srv[r] EXCEPT !.state = s]]
  BY Typing
<1>2. \A x \in SrvRec : /\ [x EXCEPT !.state = s] \in SrvRec
                        /\ [x EXCEPT !.state = s].state = s
                        /\ [x EXCEPT !.state = s].gen = x.gen
  BY DEF SrvRec
<1> QED
  BY <1>1, <1>2

\* A claim is a new lease.
LEMMA LeasedEffect ==
  ASSUME StoreInv, NEW r \in Runs, MayClaim(r), srv' = Leased(r)
  PROVE  /\ srv' \in [Runs -> SrvRec] /\ srv[r].state = "queued"
         /\ srv'[r].state = "leased" /\ srv'[r].gen = srv[r].gen + 1
         /\ srv'[r].gen \in 1..MaxGen
         /\ \A q \in Runs : q # r => srv'[q] = srv[q]
<1>1. srv' = [srv EXCEPT ![r] = [state |-> "leased", gen |-> srv[r].gen + 1]]
  BY DEF Leased
<1>2. srv \in [Runs -> SrvRec] /\ srv[r].gen \in 0..MaxGen
  BY Typing
<1>3. srv[r].gen + 1 \in 1..MaxGen
  BY <1>2, SupervisorAssumption DEF MayClaim, SupervisorAssumption
<1>4. [state |-> "leased", gen |-> srv[r].gen + 1] \in SrvRec
  BY <1>3 DEF SrvRec, SrvState
<1> QED
  BY <1>1, <1>2, <1>3, <1>4 DEF MayClaim

\* A task that goes on keeps its run, its lease and its slot.
LEMMA TaskGotoEffect ==
  ASSUME StoreInv, NEW t \in Tasks, NEW l \in TaskState, TaskGoto(t, l), task[t].pc # "free"
  PROVE  /\ task' \in [Tasks -> TaskRec \cup {FreeTask}]
         /\ task'[t].pc = l /\ task'[t].run = task[t].run
         /\ task'[t].gen = task[t].gen /\ task'[t].slot = task[t].slot
         /\ \A u \in Tasks : u # t => task'[u] = task[u]
<1>1. /\ task \in [Tasks -> TaskRec \cup {FreeTask}]
      /\ task' = [task EXCEPT ![t] = [task[t] EXCEPT !.pc = l]]
  BY DEF StoreInv, Types, TaskGoto
<1>2. task[t] \in TaskRec
  BY Typing
<1>3. \A x \in TaskRec : /\ [x EXCEPT !.pc = l] \in TaskRec
                         /\ [x EXCEPT !.pc = l].pc = l /\ [x EXCEPT !.pc = l].run = x.run
                         /\ [x EXCEPT !.pc = l].gen = x.gen /\ [x EXCEPT !.pc = l].slot = x.slot
  BY DEF TaskRec
<1> QED
  BY <1>1, <1>2, <1>3

\* A new task is one that was not used; the dictionaries name it.
LEMMA SpawnEffect ==
  ASSUME StoreInv, NEW r \in Runs, NEW s \in Slots, Spawn(r, s), srv'[r].gen \in 1..MaxGen
  PROVE  \E n \in Tasks :
           /\ task[n].pc = "free"
           /\ task' \in [Tasks -> TaskRec \cup {FreeTask}]
           /\ task'[n] = [pc |-> "begin", run |-> r, gen |-> srv'[r].gen, slot |-> s]
           /\ \A u \in Tasks : u # n => task'[u] = task[u]
           /\ active' \in [Runs -> Tasks \cup {NoTask}] /\ active'[r] = n
           /\ \A q \in Runs : q # r => active'[q] = active[q]
           /\ slotOf' \in [Runs -> Slots \cup {NoSlot}] /\ slotOf'[r] = s
           /\ \A q \in Runs : q # r => slotOf'[q] = slotOf[q]
<1> DEFINE unused == {t \in Tasks : task[t].pc = "free"}
           n == Min(unused)
           new == [pc |-> "begin", run |-> r, gen |-> srv'[r].gen, slot |-> s]
<1>1. unused # {} /\ unused \in SUBSET Nat
  BY DEF Spawn, Tasks
<1>2. n \in Tasks /\ task[n].pc = "free"
  <2>1. n \in unused
    BY <1>1, LeastMember
  <2> QED
    BY <2>1
<1>3. /\ task' = [task EXCEPT ![n] = new]
      /\ active' = [active EXCEPT ![r] = n]
      /\ slotOf' = [slotOf EXCEPT ![r] = s]
  BY DEF Spawn
<1>4. new \in TaskRec
  BY DEF TaskRec, TaskState
<1>5. /\ task \in [Tasks -> TaskRec \cup {FreeTask}]
      /\ active \in [Runs -> Tasks \cup {NoTask}] /\ slotOf \in [Runs -> Slots \cup {NoSlot}]
  BY DEF StoreInv, Types
<1> HIDE DEF n, new, unused
<1>6. /\ task' \in [Tasks -> TaskRec \cup {FreeTask}] /\ task'[n] = new
      /\ \A u \in Tasks : u # n => task'[u] = task[u]
  BY <1>2, <1>3, <1>4, <1>5
<1>7. /\ active' \in [Runs -> Tasks \cup {NoTask}] /\ active'[r] = n
      /\ \A q \in Runs : q # r => active'[q] = active[q]
  BY <1>2, <1>3, <1>5
<1>8. /\ slotOf' \in [Runs -> Slots \cup {NoSlot}] /\ slotOf'[r] = s
      /\ \A q \in Runs : q # r => slotOf'[q] = slotOf[q]
  BY <1>3, <1>5
<1> QED
  BY <1>2, <1>6, <1>7, <1>8 DEF new

\* Leaving run_forever forgets every task.
LEMMA ExitEffect ==
  ASSUME Exit
  PROVE  /\ task' \in [Tasks -> TaskRec \cup {FreeTask}]
         /\ \A t \in Tasks : task'[t] = FreeTask /\ ~Live(t)'
         /\ active' \in [Runs -> Tasks \cup {NoTask}]
         /\ slotOf' \in [Runs -> Slots \cup {NoSlot}]
         /\ \A r \in Runs : slotOf'[r] = NoSlot
         /\ loop' = "down" /\ todo' = {} /\ todo' \subseteq Runs /\ free' \subseteq Slots
         /\ recovered' \in BOOLEAN /\ ~recovered'
  BY DEF Exit, FreeTask, Live

-----------------------------------------------------------------------------
(* Types, leases and results *)

\* Every step keeps the types, the generations and what is known of a review.
LEMMA StoreStep ==
  ASSUME StoreInv, [Next]_vars
  PROVE  StoreInv'
<1>1. CASE StartDaemon
  BY <1>1 DEF StartDaemon, storeVars, memVars, bounds, StoreInv, Types
<1>2. CASE ReloadCapacity
  BY <1>2 DEF ReloadCapacity, storeVars, loopVars, memVars, StoreInv, Types
<1>3. CASE ReapTasks
  <2>1. task' \in [Tasks -> TaskRec \cup {FreeTask}]
    BY <1>3 DEF ReapTasks, StoreInv, Types
  <2>2. active' \in [Runs -> Tasks \cup {NoTask}] /\ slotOf' \in [Runs -> Slots \cup {NoSlot}]
    BY <1>3 DEF ReapTasks, StoreInv, Types
  <2> QED
    BY <1>3, <2>1, <2>2 DEF ReapTasks, storeVars, bounds, StoreInv, Types
<1>4. CASE RecoveryDone
  BY <1>4 DEF RecoveryDone, storeVars, memVars, bounds, StoreInv, Types
<1>5. CASE ComputeSlots
  BY <1>5 DEF ComputeSlots, storeVars, memVars, bounds, StoreInv, Types
<1>6. CASE ClaimsDone
  BY <1>6 DEF ClaimsDone, storeVars, memVars, bounds, StoreInv, Types
<1>7. CASE PendingDone
  BY <1>7 DEF PendingDone, storeVars, memVars, bounds, StoreInv, Types
<1>8. CASE IdleDone
  BY <1>8 DEF IdleDone, storeVars, memVars, bounds, StoreInv, Types
<1>9. CASE OperationFails
  BY <1>9 DEF OperationFails, storeVars, memVars, Fault, StoreInv, Types
<1>10. CASE DaemonDies
  <2>1. Exit
    BY <1>10 DEF DaemonDies
  <2> QED
    BY <1>10, <2>1, ExitEffect DEF DaemonDies, Death, storeVars, StoreInv, Types
<1>11. ASSUME NEW r \in Runs, InspectLease(r)
       PROVE  StoreInv'
  BY <1>11, FinishedEffect, ReleasedEffect DEF InspectLease, memVars, bounds, StoreInv,
     Types
<1>12. ASSUME NEW r \in Runs, RecoverWorker(r)
       PROVE  StoreInv'
  <2>1. CASE LeaseActive(r) /\ port[r] # "released"
    <3>1. srv' = srv /\ srv'[r].gen \in 1..MaxGen /\ claim[r].slot \in Slots
      BY <1>12, <2>1, Typing, SupervisorAssumption
      DEF RecoverWorker, LeaseActive, StoreInv, SupervisorAssumption
    <3>2. Spawn(r, claim[r].slot)
      BY <1>12, <2>1 DEF RecoverWorker
    <3>3. /\ task' \in [Tasks -> TaskRec \cup {FreeTask}]
          /\ active' \in [Runs -> Tasks \cup {NoTask}] /\ slotOf' \in [Runs -> Slots \cup {NoSlot}]
      BY <3>1, <3>2, SpawnEffect
    <3> QED
      BY <1>12, <2>1, <3>1, <3>3 DEF RecoverWorker, bounds, StoreInv, Types
  <2>2. CASE LeaseActive(r) /\ port[r] = "released"
    BY <1>12, <2>2 DEF RecoverWorker, memVars, bounds, StoreInv, Types
  <2>3. CASE ~LeaseActive(r)
    <3>1. Exit /\ UNCHANGED <<srv, port>>
      BY <1>12, <2>3 DEF RecoverWorker
    <3> QED
      BY <1>12, <3>1, ExitEffect DEF RecoverWorker, bounds, StoreInv, Types
  <2> QED
    BY <1>12, <2>1, <2>2, <2>3 DEF RecoverWorker
<1>13. ASSUME NEW r \in Runs, ReconcileTerminal(r)
       PROVE  StoreInv'
  BY <1>13, FinishedEffect, ReleasedEffect DEF ReconcileTerminal, memVars, bounds,
     StoreInv, Types
<1>14. ASSUME NEW r \in Runs, ClaimRun(r)
       PROVE  StoreInv'
  <2>1. /\ srv' \in [Runs -> SrvRec] /\ srv'[r].gen \in 1..MaxGen
        /\ \A q \in Runs : srv'[q].state = "leased" => srv'[q].gen # 0
        /\ \A q \in Runs : srv'[q].state = "review" => acked[q]
    BY <1>14, LeasedEffect DEF ClaimRun, StoreInv
  <2>2. CASE port[r] = "released"
    BY <1>14, <2>1, <2>2 DEF ClaimRun, memVars, bounds, StoreInv, Types
  <2>3. CASE port[r] # "released"
    <3>1. Min(free) \in Slots
      <4>1. free # {} /\ free \in SUBSET Slots
        BY <1>14 DEF ClaimRun, StoreInv, Types
      <4>2. Slots \subseteq Nat
        BY SupervisorAssumption DEF Slots, SupervisorAssumption
      <4>3. Min(free) \in free
        BY <4>1, <4>2, LeastMember
      <4> QED
        BY <4>1, <4>3
    <3>2. /\ task' \in [Tasks -> TaskRec \cup {FreeTask}]
          /\ active' \in [Runs -> Tasks \cup {NoTask}] /\ slotOf' \in [Runs -> Slots \cup {NoSlot}]
      BY <1>14, <2>1, <2>3, <3>1, SpawnEffect DEF ClaimRun
    <3> QED
      BY <1>14, <2>1, <2>3, <3>2 DEF ClaimRun, bounds, StoreInv, Types
  <2> QED
    BY <2>2, <2>3
<1>15. ASSUME NEW r \in Runs, ReconcilePending(r)
       PROVE  StoreInv'
  <2>1. claim' \in [Runs -> ClaimRec]
    BY <1>15, FinishedEffect, Typing DEF ReconcilePending
  <2>2. pend' \in [Runs -> BOOLEAN]
    BY <1>15 DEF ReconcilePending, StoreInv, Types
  <2> QED
    BY <1>15, <2>1, <2>2 DEF ReconcilePending, memVars, bounds, StoreInv, Types
<1>16. ASSUME NEW r \in Runs, ReconcileIdle(r)
       PROVE  StoreInv'
  <2>1. claim' \in [Runs -> ClaimRec]
    BY <1>16, FinishedEffect, Typing DEF ReconcileIdle
  <2>2. pend' \in [Runs -> BOOLEAN]
    BY <1>16 DEF ReconcileIdle, StoreInv, Types
  <2> QED
    BY <1>16, <2>1, <2>2 DEF ReconcileIdle, memVars, bounds, StoreInv, Types
<1>17. ASSUME NEW r \in Runs, ClaimLost(r)
       PROVE  StoreInv'
  <2>1. srv' \in [Runs -> SrvRec] /\ \A q \in Runs : srv'[q].state = "leased" => srv'[q].gen # 0
    BY <1>17, LeasedEffect DEF ClaimLost, StoreInv
  <2>2. \A q \in Runs : srv'[q].state = "review" => acked[q]
    BY <1>17, LeasedEffect DEF ClaimLost, StoreInv
  <2> QED
    BY <1>17, <2>1, <2>2 DEF ClaimLost, storeVars, memVars, Fault, StoreInv, Types
<1>18. ASSUME NEW r \in Runs, ReconcileSkips(r)
       PROVE  StoreInv'
  BY <1>18 DEF ReconcileSkips, storeVars, memVars, Fault, StoreInv, Types
<1>19. ASSUME NEW r \in Runs, LeaseExpires(r)
       PROVE  StoreInv'
  <2>1. \E s \in SrvState : /\ s \notin {"leased", "review"}
                           /\ srv' = [srv EXCEPT ![r].state = s]
    <3>1. \/ srv' = [srv EXCEPT ![r].state = "queued"]
          \/ srv' = [srv EXCEPT ![r].state = "failed"]
      BY <1>19 DEF LeaseExpires
    <3> QED
      BY <3>1 DEF SrvState
  <2>2. /\ srv' \in [Runs -> SrvRec]
        /\ \A q \in Runs : /\ srv'[q].state = "leased" => srv'[q].gen # 0
                           /\ srv'[q].state = "review" => acked[q]
    BY <2>1, SrvEffect DEF StoreInv
  <2> QED
    BY <1>19, <2>2 DEF LeaseExpires, storeVars, loopVars, memVars, bounds, StoreInv,
       Types
<1>20. ASSUME NEW r \in Runs, UserAnswers(r)
       PROVE  StoreInv'
  <2>1. \E s \in SrvState : /\ s \notin {"leased", "review"}
                           /\ srv' = [srv EXCEPT ![r].state = s]
    BY <1>20 DEF UserAnswers, SrvState
  <2>2. /\ srv' \in [Runs -> SrvRec]
        /\ \A q \in Runs : /\ srv'[q].state = "leased" => srv'[q].gen # 0
                           /\ srv'[q].state = "review" => acked[q]
    BY <2>1, SrvEffect DEF StoreInv
  <2> QED
    BY <1>20, <2>2 DEF UserAnswers, storeVars, loopVars, memVars, bounds, StoreInv,
       Types
<1>21. ASSUME NEW r \in Runs, Cancel(r)
       PROVE  StoreInv'
  <2>1. \E s \in SrvState : /\ s \notin {"leased", "review"}
                           /\ srv' = [srv EXCEPT ![r].state = s]
    BY <1>21 DEF Cancel, SrvState
  <2>2. /\ srv' \in [Runs -> SrvRec]
        /\ \A q \in Runs : /\ srv'[q].state = "leased" => srv'[q].gen # 0
                           /\ srv'[q].state = "review" => acked[q]
    BY <2>1, SrvEffect DEF StoreInv
  <2> QED
    BY <1>21, <2>2 DEF Cancel, storeVars, loopVars, memVars, bounds, StoreInv, Types
<1>22. ASSUME NEW r \in Runs, Conclude(r)
       PROVE  StoreInv'
  <2>1. \E s \in SrvState : /\ s \notin {"leased", "review"}
                           /\ srv' = [srv EXCEPT ![r].state = s]
    BY <1>22 DEF Conclude, SrvState
  <2>2. /\ srv' \in [Runs -> SrvRec]
        /\ \A q \in Runs : /\ srv'[q].state = "leased" => srv'[q].gen # 0
                           /\ srv'[q].state = "review" => acked[q]
    BY <2>1, SrvEffect DEF StoreInv
  <2> QED
    BY <1>22, <2>2 DEF Conclude, storeVars, loopVars, memVars, bounds, StoreInv, Types
<1>23. ASSUME NEW t \in Tasks, SaveClaim(t)
       PROVE  StoreInv'
  <2>1. task[t].pc # "free" /\ \E l \in TaskState : TaskGoto(t, l)
    BY <1>23 DEF SaveClaim, TaskState
  <2>2. [token |-> TRUE, gen |-> task[t].gen, slot |-> task[t].slot] \in ClaimRec
    BY <2>1, Typing, SupervisorAssumption DEF ClaimRec, SupervisorAssumption
  <2>3. claim' \in [Runs -> ClaimRec]
    BY <1>23, <2>2, Typing DEF SaveClaim
  <2>4. task' \in [Tasks -> TaskRec \cup {FreeTask}]
    BY <2>1, TaskGotoEffect
  <2> QED
    BY <1>23, <2>3, <2>4 DEF SaveClaim, loopVars, memVars, bounds, StoreInv, Types
<1>24. ASSUME NEW t \in Tasks, Abandon(t)
       PROVE  StoreInv'
  <2>1. task[t].pc # "free" /\ \E l \in TaskState : TaskGoto(t, l)
    BY <1>24 DEF Abandon, TaskState
  <2> QED
    BY <1>24, <2>1, TaskGotoEffect, Typing DEF Abandon, storeVars, loopVars, memVars,
       Fault, StoreInv, Types
<1>25. ASSUME NEW t \in Tasks, PrepareRun(t)
       PROVE  StoreInv'
  <2>1. task[t].pc # "free" /\ \E l \in TaskState : TaskGoto(t, l)
    BY <1>25 DEF PrepareRun, TaskState
  <2> QED
    BY <1>25, <2>1, TaskGotoEffect, Typing DEF PrepareRun, storeVars, loopVars,
       memVars, bounds, StoreInv, Types
<1>26. ASSUME NEW t \in Tasks, WaitForUser(t)
       PROVE  StoreInv'
  <2>1. /\ task[t].pc # "free" /\ task[t].run \in Runs /\ TaskGoto(t, "done")
        /\ "done" \in TaskState
    BY <1>26, Typing DEF WaitForUser, TaskState
  <2>2. PICK s \in SrvState : /\ srv' = [srv EXCEPT ![task[t].run].state = s]
                             /\ s # "leased" /\ (s = "review" => acked'[task[t].run])
    BY <1>26, <2>1 DEF WaitForUser, TakesResult, SrvState, StoreInv, Types
  <2>3. task' \in [Tasks -> TaskRec \cup {FreeTask}]
    BY <2>1, TaskGotoEffect
  <2>4. acked' \in [Runs -> BOOLEAN] /\ \A q \in Runs : acked[q] => acked'[q]
    BY <1>26, <2>1 DEF WaitForUser, TakesResult, StoreInv, Types
  <2>5. claim' \in [Runs -> ClaimRec] /\ port' \in [Runs -> {"none", "reserved", "released"}]
    BY <1>26, <2>1, FinishedEffect, ReleasedEffect DEF WaitForUser, StoreInv, Types
  <2>6. pend' \in [Runs -> BOOLEAN]
    BY <1>26, <2>1 DEF WaitForUser, StoreInv, Types
  <2>7. /\ srv' \in [Runs -> SrvRec]
        /\ \A r \in Runs : /\ srv'[r].state = "leased" => srv'[r].gen # 0
                           /\ srv'[r].state = "review" => acked'[r]
    BY <2>1, <2>2, <2>4, SrvEffect DEF StoreInv
  <2> QED
    BY <1>26, <2>3, <2>4, <2>5, <2>6, <2>7 DEF WaitForUser, loopVars, memVars, bounds,
       StoreInv, Types
<1>27. ASSUME NEW t \in Tasks, FailRun(t)
       PROVE  StoreInv'
  <2>1. /\ task[t].pc # "free" /\ task[t].run \in Runs /\ TaskGoto(t, "done")
        /\ "done" \in TaskState
    BY <1>27, Typing DEF FailRun, TaskState
  <2>2. PICK s \in SrvState : /\ srv' = [srv EXCEPT ![task[t].run].state = s]
                             /\ s # "leased" /\ (s = "review" => acked'[task[t].run])
    BY <1>27, <2>1 DEF FailRun, TakesResult, SrvState, StoreInv, Types
  <2>3. task' \in [Tasks -> TaskRec \cup {FreeTask}]
    BY <2>1, TaskGotoEffect
  <2>4. acked' \in [Runs -> BOOLEAN] /\ \A q \in Runs : acked[q] => acked'[q]
    BY <1>27, <2>1 DEF FailRun, TakesResult, StoreInv, Types
  <2>5. claim' \in [Runs -> ClaimRec] /\ port' \in [Runs -> {"none", "reserved", "released"}]
    BY <1>27, <2>1, FinishedEffect, ReleasedEffect DEF FailRun, StoreInv, Types
  <2>6. pend' \in [Runs -> BOOLEAN]
    BY <1>27, <2>1 DEF FailRun, StoreInv, Types
  <2>7. /\ srv' \in [Runs -> SrvRec]
        /\ \A r \in Runs : /\ srv'[r].state = "leased" => srv'[r].gen # 0
                           /\ srv'[r].state = "review" => acked'[r]
    BY <2>1, <2>2, <2>4, SrvEffect DEF StoreInv
  <2> QED
    BY <1>27, <2>3, <2>4, <2>5, <2>6, <2>7 DEF FailRun, loopVars, memVars, bounds,
       StoreInv, Types
<1>28. ASSUME NEW t \in Tasks, SaveResult(t)
       PROVE  StoreInv'
  <2>1. task[t].pc # "free" /\ \E l \in TaskState : TaskGoto(t, l)
    BY <1>28 DEF SaveResult, TaskState
  <2> QED
    BY <1>28, <2>1, TaskGotoEffect, Typing DEF SaveResult, loopVars, memVars, bounds,
       StoreInv, Types
<1>29. ASSUME NEW t \in Tasks, CompleteRun(t)
       PROVE  StoreInv'
  <2>1. /\ task[t].pc # "free" /\ task[t].run \in Runs /\ TaskGoto(t, "done")
        /\ "done" \in TaskState
    BY <1>29, Typing DEF CompleteRun, TaskState
  <2>2. PICK s \in SrvState : /\ srv' = [srv EXCEPT ![task[t].run].state = s]
                             /\ s # "leased" /\ (s = "review" => acked'[task[t].run])
    BY <1>29, <2>1 DEF CompleteRun, TakesResult, SrvState, StoreInv, Types
  <2>3. task' \in [Tasks -> TaskRec \cup {FreeTask}]
    BY <2>1, TaskGotoEffect
  <2>4. acked' \in [Runs -> BOOLEAN] /\ \A q \in Runs : acked[q] => acked'[q]
    BY <1>29, <2>1 DEF CompleteRun, TakesResult, StoreInv, Types
  <2>5. claim' \in [Runs -> ClaimRec] /\ port' \in [Runs -> {"none", "reserved", "released"}]
    BY <1>29, <2>1, FinishedEffect, ReleasedEffect DEF CompleteRun, StoreInv, Types
  <2>6. pend' \in [Runs -> BOOLEAN]
    BY <1>29, <2>1 DEF CompleteRun, StoreInv, Types
  <2>7. /\ srv' \in [Runs -> SrvRec]
        /\ \A r \in Runs : /\ srv'[r].state = "leased" => srv'[r].gen # 0
                           /\ srv'[r].state = "review" => acked'[r]
    BY <2>1, <2>2, <2>4, SrvEffect DEF StoreInv
  <2> QED
    BY <1>29, <2>3, <2>4, <2>5, <2>6, <2>7 DEF CompleteRun, loopVars, memVars, bounds,
       StoreInv, Types
<1>30. ASSUME NEW t \in Tasks, OutcomeLost(t)
       PROVE  StoreInv'
  <2>1. task[t].run \in Runs
    BY <1>30, Typing DEF OutcomeLost, Honoured
  <2>2. PICK s \in SrvState : /\ srv' = [srv EXCEPT ![task[t].run].state = s]
                             /\ s # "leased" /\ (s = "review" => acked'[task[t].run])
    BY <1>30, <2>1 DEF OutcomeLost, TakesResult, SrvState, StoreInv, Types
  <2>3. acked' \in [Runs -> BOOLEAN] /\ \A q \in Runs : acked[q] => acked'[q]
    BY <1>30, <2>1 DEF OutcomeLost, TakesResult, StoreInv, Types
  <2>4. /\ srv' \in [Runs -> SrvRec]
        /\ \A r \in Runs : /\ srv'[r].state = "leased" => srv'[r].gen # 0
                           /\ srv'[r].state = "review" => acked'[r]
    BY <2>1, <2>2, <2>3, SrvEffect DEF StoreInv
  <2> QED
    BY <1>30, <2>3, <2>4 DEF OutcomeLost, storeVars, loopVars, memVars, Fault, StoreInv, Types
<1>31. ASSUME NEW t \in Tasks, DiesTelling(t)
       PROVE  StoreInv'
  <2>1. task[t].run \in Runs
    BY <1>31, Typing DEF DiesTelling, Honoured
  <2>2. PICK s \in SrvState : /\ srv' = [srv EXCEPT ![task[t].run].state = s]
                             /\ s # "leased" /\ (s = "review" => acked'[task[t].run])
    BY <1>31, <2>1 DEF DiesTelling, TakesResult, SrvState, StoreInv, Types
  <2>3. acked' \in [Runs -> BOOLEAN] /\ \A q \in Runs : acked[q] => acked'[q]
    BY <1>31, <2>1 DEF DiesTelling, TakesResult, StoreInv, Types
  <2>4. /\ srv' \in [Runs -> SrvRec]
        /\ \A r \in Runs : /\ srv'[r].state = "leased" => srv'[r].gen # 0
                           /\ srv'[r].state = "review" => acked'[r]
    BY <2>1, <2>2, <2>3, SrvEffect DEF StoreInv
  <2>5. pend' \in [Runs -> BOOLEAN]
    BY <1>31, <2>1 DEF DiesTelling, StoreInv, Types
  <2>6. Exit
    BY <1>31 DEF DiesTelling
  <2> QED
    BY <1>31, <2>3, <2>4, <2>5, <2>6, ExitEffect DEF DiesTelling, Death, StoreInv, Types
<1>32. CASE UNCHANGED vars
  BY <1>32 DEF vars, StoreInv, Types
<1> QED
  BY <1>1, <1>2, <1>3, <1>4, <1>5, <1>6, <1>7, <1>8, <1>9, <1>10, <1>11, <1>12,
     <1>13, <1>14, <1>15, <1>16, <1>17, <1>18, <1>19, <1>20, <1>21, <1>22, <1>23,
     <1>24, <1>25, <1>26, <1>27, <1>28, <1>29, <1>30, <1>31, <1>32 DEF Next, Loop,
     Execute

-----------------------------------------------------------------------------
(* The kinds of steps *)

\* The loop goes on, and no execution starts or ends.
LoopStep ==
  \/ StartDaemon \/ ReloadCapacity \/ RecoveryDone \/ ComputeSlots \/ ClaimsDone
  \/ PendingDone \/ IdleDone \/ OperationFails \/ UNCHANGED vars
  \/ \E r \in Runs :
       \/ InspectLease(r) \/ ReconcileTerminal(r) \/ ReconcilePending(r)
       \/ ReconcileIdle(r) \/ ReconcileSkips(r)
       \/ RecoverWorker(r) /\ LeaseActive(r) /\ port[r] = "released"

\* A lease that nobody executes, and one that a new task does.
NewLease(r) == ClaimLost(r) \/ (ClaimRun(r) /\ port[r] = "released")
NewTask(r)  == \/ ClaimRun(r) /\ port[r] # "released"
               \/ RecoverWorker(r) /\ LeaseActive(r) /\ port[r] # "released"

\* Everything in memory is lost.
Ends == \/ DaemonDies \/ \E t \in Tasks : DiesTelling(t)
        \/ \E r \in Runs : RecoverWorker(r) /\ ~LeaseActive(r)

ServerStep(r) == LeaseExpires(r) \/ UserAnswers(r) \/ Cancel(r) \/ Conclude(r)
TaskStep(t)   == Execute(t) \/ OutcomeLost(t)

\* There is no other step.
LEMMA Kinds ==
  ASSUME [Next]_vars
  PROVE  \/ LoopStep \/ ReapTasks \/ Ends
         \/ \E r \in Runs : NewLease(r) \/ NewTask(r) \/ ServerStep(r)
         \/ \E t \in Tasks : TaskStep(t)
<1>1. ASSUME NEW r \in Runs, RecoverWorker(r)
      PROVE  LoopStep \/ NewTask(r) \/ Ends
  <2>1. CASE ~LeaseActive(r)
    BY <1>1, <2>1 DEF Ends
  <2>2. CASE LeaseActive(r) /\ port[r] = "released"
    BY <1>1, <2>2 DEF LoopStep
  <2>3. CASE LeaseActive(r) /\ port[r] # "released"
    BY <1>1, <2>3 DEF NewTask
  <2> QED
    BY <2>1, <2>2, <2>3
<1>2. ASSUME NEW r \in Runs, ClaimRun(r)
      PROVE  NewLease(r) \/ NewTask(r)
  BY <1>2 DEF NewLease, NewTask
<1>3. ASSUME Loop
      PROVE  LoopStep \/ ReapTasks \/ Ends \/ \E r \in Runs : NewLease(r) \/ NewTask(r)
  <2>1. CASE RecoveryDone \/ ComputeSlots \/ ClaimsDone \/ PendingDone \/ IdleDone
    BY <2>1 DEF LoopStep
  <2>2. CASE \E r \in Runs : \/ InspectLease(r) \/ ReconcileTerminal(r)
                             \/ ReconcilePending(r) \/ ReconcileIdle(r)
    BY <2>2 DEF LoopStep
  <2> QED
    BY <1>1, <1>2, <1>3, <2>1, <2>2 DEF Loop
<1>4. CASE UNCHANGED vars
  BY <1>4 DEF LoopStep
<1>5. CASE StartDaemon \/ ReloadCapacity \/ OperationFails \/ \E r \in Runs : ReconcileSkips(r)
  BY <1>5 DEF LoopStep
<1>6. CASE \E t \in Tasks : Execute(t) \/ OutcomeLost(t)
  BY <1>6 DEF TaskStep
<1>7. CASE DaemonDies \/ \E t \in Tasks : DiesTelling(t)
  BY <1>7 DEF Ends
<1>8. CASE \E r \in Runs : ClaimLost(r)
  BY <1>8 DEF NewLease
<1>9. CASE \E r \in Runs : LeaseExpires(r) \/ UserAnswers(r) \/ Cancel(r) \/ Conclude(r)
  BY <1>9 DEF ServerStep
<1> QED
  BY <1>3, <1>4, <1>5, <1>6, <1>7, <1>8, <1>9 DEF Next

\* The loop only takes tokens, and gives back the ports of runs that ended.
LEMMA LoopEffect ==
  ASSUME StoreInv, LoopStep
  PROVE  /\ UNCHANGED <<srv, active, slotOf, task>>
         /\ \A q \in Runs : /\ claim'[q].gen = claim[q].gen /\ claim'[q].slot = claim[q].slot
                            /\ claim'[q].token => claim[q].token
                            /\ port'[q] = port[q] \/ srv[q].state \in Terminal
<1>1. CASE StartDaemon
  BY <1>1 DEF StartDaemon, storeVars, memVars, bounds
<1>2. CASE ReloadCapacity
  BY <1>2 DEF ReloadCapacity, storeVars, loopVars, memVars
<1>3. CASE RecoveryDone
  BY <1>3 DEF RecoveryDone, storeVars, memVars, bounds
<1>4. CASE ComputeSlots
  BY <1>4 DEF ComputeSlots, storeVars, memVars, bounds
<1>5. CASE ClaimsDone
  BY <1>5 DEF ClaimsDone, storeVars, memVars, bounds
<1>6. CASE PendingDone
  BY <1>6 DEF PendingDone, storeVars, memVars, bounds
<1>7. CASE IdleDone
  BY <1>7 DEF IdleDone, storeVars, memVars, bounds
<1>8. CASE OperationFails
  BY <1>8 DEF OperationFails, storeVars, memVars, Fault
<1>9. CASE UNCHANGED vars
  BY <1>9 DEF vars
<1>10. ASSUME NEW r \in Runs, InspectLease(r)
       PROVE  /\ UNCHANGED <<srv, active, slotOf, task>>
              /\ \A q \in Runs : /\ claim'[q].gen = claim[q].gen /\ claim'[q].slot = claim[q].slot
                                 /\ claim'[q].token => claim[q].token
                                 /\ port'[q] = port[q] \/ srv[q].state \in Terminal
  BY <1>10, FinishedEffect, ReleasedEffect DEF InspectLease, memVars, bounds
<1>11. ASSUME NEW r \in Runs, ReconcileTerminal(r)
       PROVE  /\ UNCHANGED <<srv, active, slotOf, task>>
              /\ \A q \in Runs : /\ claim'[q].gen = claim[q].gen /\ claim'[q].slot = claim[q].slot
                                 /\ claim'[q].token => claim[q].token
                                 /\ port'[q] = port[q] \/ srv[q].state \in Terminal
  BY <1>11, FinishedEffect, ReleasedEffect DEF ReconcileTerminal, memVars, bounds
<1>12. ASSUME NEW r \in Runs, ReconcilePending(r)
       PROVE  /\ UNCHANGED <<srv, active, slotOf, task>>
              /\ \A q \in Runs : /\ claim'[q].gen = claim[q].gen /\ claim'[q].slot = claim[q].slot
                                 /\ claim'[q].token => claim[q].token
                                 /\ port'[q] = port[q] \/ srv[q].state \in Terminal
  BY <1>12, FinishedEffect, ReleasedEffect DEF ReconcilePending, memVars, bounds
<1>13. ASSUME NEW r \in Runs, ReconcileIdle(r)
       PROVE  /\ UNCHANGED <<srv, active, slotOf, task>>
              /\ \A q \in Runs : /\ claim'[q].gen = claim[q].gen /\ claim'[q].slot = claim[q].slot
                                 /\ claim'[q].token => claim[q].token
                                 /\ port'[q] = port[q] \/ srv[q].state \in Terminal
  BY <1>13, FinishedEffect, ReleasedEffect DEF ReconcileIdle, memVars, bounds
<1>14. ASSUME NEW r \in Runs, ReconcileSkips(r)
       PROVE  /\ UNCHANGED <<srv, active, slotOf, task>>
              /\ \A q \in Runs : /\ claim'[q].gen = claim[q].gen /\ claim'[q].slot = claim[q].slot
                                 /\ claim'[q].token => claim[q].token
                                 /\ port'[q] = port[q] \/ srv[q].state \in Terminal
  BY <1>14, FinishedEffect, ReleasedEffect DEF ReconcileSkips, storeVars, memVars,
     Fault
<1>15. ASSUME NEW r \in Runs, RecoverWorker(r), LeaseActive(r), port[r] = "released"
       PROVE  /\ UNCHANGED <<srv, active, slotOf, task>>
              /\ \A q \in Runs : /\ claim'[q].gen = claim[q].gen /\ claim'[q].slot = claim[q].slot
                                 /\ claim'[q].token => claim[q].token
                                 /\ port'[q] = port[q] \/ srv[q].state \in Terminal
  BY <1>15 DEF RecoverWorker, memVars, bounds
<1> QED
  BY <1>1, <1>2, <1>3, <1>4, <1>5, <1>6, <1>7, <1>8, <1>9, <1>10, <1>11, <1>12,
     <1>13, <1>14, <1>15 DEF LoopStep

\* A new lease, without execution, changes nothing else.
LEMMA NewLeaseEffect ==
  ASSUME StoreInv, NEW r \in Runs, NewLease(r)
  PROVE  /\ UNCHANGED <<claim, port, capacity, recovered, active, slotOf, task>>
         /\ loop = "claim" /\ loop' = "top" /\ free' = {}
         /\ srv[r].state = "queued" /\ srv'[r].gen = srv[r].gen + 1
         /\ \A q \in Runs : q # r => srv'[q] = srv[q]
<1>1. CASE ClaimLost(r)
  BY <1>1, LeasedEffect DEF ClaimLost, storeVars, memVars
<1>2. CASE ClaimRun(r) /\ port[r] = "released"
  BY <1>2, LeasedEffect DEF ClaimRun, memVars
<1> QED
  BY <1>1, <1>2 DEF NewLease

\* Where a lease gets a new task, and what it leaves.
LEMMA NewTaskLease ==
  ASSUME StoreInv, NEW r \in Runs, NewTask(r)
  PROVE  /\ UNCHANGED <<claim, capacity, recovered>>
         /\ srv'[r].state = "leased" /\ srv'[r].gen \in 1..MaxGen /\ port'[r] = "reserved"
         /\ \A q \in Runs : q # r => srv'[q] = srv[q] /\ port'[q] = port[q]
         /\ \/ ClaimRun(r) /\ srv[r].state = "queued" /\ srv'[r].gen = srv[r].gen + 1
               /\ loop = "claim" /\ loop' = "claim" /\ todo' = todo
            \/ RecoverWorker(r) /\ LeaseActive(r) /\ srv' = srv
               /\ loop = "heartbeat" /\ loop' = "recover" /\ r \in todo /\ todo' = todo \ {r}
<1>1. port' = [port EXCEPT ![r] = "reserved"] /\ port \in [Runs -> {"none", "reserved", "released"}]
  BY DEF NewTask, ClaimRun, RecoverWorker, StoreInv, Types
<1>2. port'[r] = "reserved" /\ \A q \in Runs : q # r => port'[q] = port[q]
  BY <1>1
<1>3. CASE ClaimRun(r) /\ port[r] # "released"
  <2>1. /\ srv'[r].gen \in 1..MaxGen /\ srv'[r].state = "leased" /\ srv'[r].gen = srv[r].gen + 1
        /\ srv[r].state = "queued" /\ \A q \in Runs : q # r => srv'[q] = srv[q]
    BY <1>3, LeasedEffect DEF ClaimRun
  <2>2. loop = "claim" /\ loop' = "claim" /\ UNCHANGED <<claim, capacity, recovered, todo>>
    BY <1>3 DEF ClaimRun
  <2> QED
    BY <1>2, <1>3, <2>1, <2>2
<1>4. CASE RecoverWorker(r) /\ LeaseActive(r) /\ port[r] # "released"
  <2>1. /\ loop = "heartbeat" /\ loop' = "recover" /\ r \in todo /\ todo' = todo \ {r}
        /\ srv' = srv /\ UNCHANGED <<claim, capacity, recovered>>
    BY <1>4 DEF RecoverWorker, NextRow
  <2>2. srv'[r].state = "leased" /\ srv'[r].gen \in 1..MaxGen
    BY <1>4, <2>1, Typing, SupervisorAssumption
    DEF LeaseActive, StoreInv, SupervisorAssumption
  <2> QED
    BY <1>2, <1>4, <2>1, <2>2
<1> QED
  BY <1>3, <1>4 DEF NewTask

\* A new task has the lease of its run, and the slot of its row or a free one.
LEMMA NewTaskEffect ==
  ASSUME StoreInv, NEW r \in Runs, NewTask(r)
  PROVE  \E n \in Tasks, s \in Slots :
           /\ task[n].pc = "free"
           /\ task'[n] = [pc |-> "begin", run |-> r, gen |-> srv'[r].gen, slot |-> s]
           /\ \A v \in Tasks : v # n => task'[v] = task[v]
           /\ active'[r] = n /\ \A q \in Runs : q # r => active'[q] = active[q]
           /\ slotOf'[r] = s /\ \A q \in Runs : q # r => slotOf'[q] = slotOf[q]
           /\ \/ ClaimRun(r) /\ s \in free /\ free' = free \ {s}
              \/ RecoverWorker(r) /\ LeaseActive(r) /\ s = claim[r].slot
<1>1. PICK s \in Slots : /\ Spawn(r, s)
                         /\ \/ ClaimRun(r) /\ s \in free /\ free' = free \ {s}
                            \/ RecoverWorker(r) /\ LeaseActive(r) /\ s = claim[r].slot
  <2>1. CASE ClaimRun(r) /\ port[r] # "released"
    <3>1. free # {} /\ free \in SUBSET Slots
      BY <2>1 DEF ClaimRun, StoreInv, Types
    <3>2. Slots \subseteq Nat
      BY SupervisorAssumption DEF Slots, SupervisorAssumption
    <3>3. Min(free) \in free
      BY <3>1, <3>2, LeastMember
    <3>4. Spawn(r, Min(free)) /\ free' = free \ {Min(free)}
      BY <2>1 DEF ClaimRun
    <3> QED
      BY <2>1, <3>1, <3>3, <3>4
  <2>2. CASE RecoverWorker(r) /\ LeaseActive(r) /\ port[r] # "released"
    <3>1. Spawn(r, claim[r].slot)
      BY <2>2 DEF RecoverWorker
    <3> QED
      BY <2>2, <3>1, Typing
  <2> QED
    BY <2>1, <2>2 DEF NewTask
<1>2. srv'[r].gen \in 1..MaxGen
  BY NewTaskLease
<1>3. PICK n \in Tasks :
        /\ task[n].pc = "free"
        /\ task' \in [Tasks -> TaskRec \cup {FreeTask}]
        /\ task'[n] = [pc |-> "begin", run |-> r, gen |-> srv'[r].gen, slot |-> s]
        /\ \A u \in Tasks : u # n => task'[u] = task[u]
        /\ active' \in [Runs -> Tasks \cup {NoTask}] /\ active'[r] = n
        /\ \A q \in Runs : q # r => active'[q] = active[q]
        /\ slotOf' \in [Runs -> Slots \cup {NoSlot}] /\ slotOf'[r] = s
        /\ \A q \in Runs : q # r => slotOf'[q] = slotOf[q]
  BY <1>1, <1>2, SpawnEffect
<1> QED
  BY <1>1, <1>3

\* What ends the daemon leaves the store, and no lease is taken by it.
LEMMA EndsEffect ==
  ASSUME StoreInv, Ends
  PROVE  /\ Exit /\ UNCHANGED <<claim, port, capacity>>
         /\ \A q \in Runs : /\ srv'[q].gen = srv[q].gen
                            /\ srv'[q] = srv[q] \/ srv'[q].state # "leased"
<1>1. CASE DaemonDies
  BY <1>1 DEF DaemonDies, storeVars
<1>2. ASSUME NEW t \in Tasks, DiesTelling(t)
      PROVE  /\ Exit /\ UNCHANGED <<claim, port, capacity>>
             /\ \A q \in Runs : /\ srv'[q].gen = srv[q].gen
                                /\ srv'[q] = srv[q] \/ srv'[q].state # "leased"
  <2>1. task[t].run \in Runs
    BY <1>2, Typing DEF DiesTelling, Honoured
  <2>2. \E s \in SrvState : s # "leased" /\ srv' = [srv EXCEPT ![task[t].run].state = s]
    BY <1>2 DEF DiesTelling, TakesResult, SrvState
  <2>3. \A q \in Runs : /\ srv'[q].gen = srv[q].gen
                        /\ srv'[q] = srv[q] \/ srv'[q].state # "leased"
    BY <2>1, <2>2, SrvEffect
  <2> QED
    BY <1>2, <2>3 DEF DiesTelling
<1>3. CASE \E r \in Runs : RecoverWorker(r) /\ ~LeaseActive(r)
  BY <1>3 DEF RecoverWorker
<1> QED
  BY <1>1, <1>2, <1>3 DEF Ends

\* The server ends leases and starts none.
LEMMA ServerEffect ==
  ASSUME StoreInv, NEW r \in Runs, ServerStep(r)
  PROVE  /\ UNCHANGED <<claim, port, capacity, loop, todo, free, recovered, active, slotOf, task>>
         /\ \A q \in Runs : srv'[q].gen = srv[q].gen /\ (q # r => srv'[q] = srv[q])
         /\ srv'[r].state # "leased"
         /\ srv'[r].state \in {"queued", "waiting"} => LeaseExpires(r) \/ srv[r].state = "waiting"
<1>1. PICK s \in SrvState : /\ s # "leased" /\ srv' = [srv EXCEPT ![r].state = s]
                            /\ s \in {"queued", "waiting"} => LeaseExpires(r) \/ srv[r].state = "waiting"
  <2>1. CASE LeaseExpires(r)
    <3>1. \/ srv' = [srv EXCEPT ![r].state = "queued"]
          \/ srv' = [srv EXCEPT ![r].state = "failed"]
      BY <2>1 DEF LeaseExpires
    <3> QED
      BY <2>1, <3>1 DEF SrvState
  <2>2. CASE UserAnswers(r) \/ Cancel(r) \/ Conclude(r)
    BY <2>2 DEF UserAnswers, Cancel, Conclude, SrvState
  <2> QED
    BY <2>1, <2>2 DEF ServerStep
<1>2. UNCHANGED <<claim, port, capacity, loop, todo, free, recovered, active, slotOf, task>>
  BY DEF ServerStep, LeaseExpires, UserAnswers, Cancel, Conclude, storeVars, loopVars, memVars
<1>3. /\ \A q \in Runs : srv'[q].gen = srv[q].gen /\ (q # r => srv'[q] = srv[q])
      /\ srv'[r].state = s
  BY <1>1, SrvEffect
<1> QED
  BY <1>1, <1>2, <1>3

\* A task changes what is known of its own run.
LEMMA TaskEffect ==
  ASSUME StoreInv, NEW t \in Tasks, TaskStep(t)
  PROVE  /\ task[t].pc # "free" /\ task[t].run \in Runs
         /\ UNCHANGED <<capacity, loop, todo, free, recovered, active, slotOf>>
         /\ task'[t].run = task[t].run /\ task'[t].gen = task[t].gen
         /\ task'[t].slot = task[t].slot /\ Live(t)
         /\ \A u \in Tasks : u # t => task'[u] = task[u]
         /\ \A q \in Runs : /\ srv'[q].gen = srv[q].gen
                            /\ q # task[t].run => /\ srv'[q] = srv[q] /\ port'[q] = port[q]
                                                  /\ claim'[q] = claim[q]
         /\ LET r == task[t].run
            IN  /\ \/ srv'[r] = srv[r] /\ port'[r] = port[r]
                   \/ srv'[r].state # "leased"
                /\ \/ claim'[r] = [token |-> TRUE, gen |-> task[t].gen, slot |-> task[t].slot]
                      /\ SaveClaim(t) /\ srv' = srv /\ Live(t)'
                   \/ /\ claim'[r].gen = claim[r].gen /\ claim'[r].slot = claim[r].slot
                      /\ claim'[r].token => claim[r].token
         /\ LET r == task[t].run
            IN  srv'[r].state \in {"queued", "waiting"} =>
                  srv'[r] = srv[r] \/ ~Live(t)' \/ WaitingUntold
         /\ LET r == task[t].run
            IN  Live(t) /\ ~Live(t)' => ~claim'[r].token \/ Abandon(t)
<1> DEFINE r == task[t].run
<1>1. CASE SaveClaim(t)
  <2>1. task[t].pc = "begin" /\ \E l \in {"complete", "prepare"} : TaskGoto(t, l)
    BY <1>1 DEF SaveClaim
  <2>2. /\ r \in Runs /\ claim' = [claim EXCEPT ![r] =
              [token |-> TRUE, gen |-> task[t].gen, slot |-> task[t].slot]]
        /\ claim \in [Runs -> ClaimRec]
    BY <1>1, <2>1, Typing DEF SaveClaim
  <2>3. /\ task'[t].pc \in {"complete", "prepare"} /\ task'[t].run = task[t].run
        /\ task'[t].gen = task[t].gen /\ task'[t].slot = task[t].slot
        /\ \A u \in Tasks : u # t => task'[u] = task[u]
    BY <2>1, TaskGotoEffect DEF TaskState
  <2>4. Live(t) /\ Live(t)'
    BY <2>1, <2>3 DEF Live
  <2>5. /\ claim'[r] = [token |-> TRUE, gen |-> task[t].gen, slot |-> task[t].slot]
        /\ \A q \in Runs : q # r => claim'[q] = claim[q]
    BY <2>2
  <2> QED
    BY <1>1, <2>1, <2>2, <2>3, <2>4, <2>5 DEF SaveClaim, loopVars, memVars
<1>2. CASE Abandon(t) \/ PrepareRun(t) \/ SaveResult(t)
  <2>1. /\ task[t].pc \in {"prepare", "run", "complete"}
        /\ \E l \in {"done", "run", "complete"} : TaskGoto(t, l) /\ (l = "done" => Abandon(t))
        /\ UNCHANGED <<srv, claim, port, capacity, loop, todo, free, recovered, active, slotOf>>
    BY <1>2 DEF Abandon, PrepareRun, SaveResult, storeVars, loopVars, memVars
  <2>2. /\ task'[t].pc \in {"done", "run", "complete"} /\ (task'[t].pc = "done" => Abandon(t))
        /\ task'[t].run = task[t].run
        /\ task'[t].gen = task[t].gen /\ task'[t].slot = task[t].slot
        /\ \A u \in Tasks : u # t => task'[u] = task[u]
    BY <2>1, TaskGotoEffect DEF TaskState
  <2>3. Live(t) /\ r \in Runs
    BY <2>1, Typing DEF Live
  <2>4. Live(t)' \/ Abandon(t)
    BY <2>2 DEF Live
  <2> QED
    BY <2>1, <2>2, <2>3, <2>4
<1>3. CASE WaitForUser(t) \/ FailRun(t) \/ CompleteRun(t)
  <2>1. /\ task[t].pc \in {"prepare", "run", "complete"} /\ TaskGoto(t, "done")
        /\ claim' = Finished(r) /\ port' \in {port, Released(r)}
        /\ UNCHANGED <<capacity, loop, todo, free, recovered, active, slotOf>>
    BY <1>3 DEF WaitForUser, FailRun, CompleteRun, loopVars, memVars
  <2>2. \E s \in SrvState : s # "leased" /\ srv' = [srv EXCEPT ![r].state = s]
    BY <1>3 DEF WaitForUser, FailRun, CompleteRun, TakesResult, SrvState
  <2>3. r \in Runs /\ task[t].pc # "free"
    BY <2>1, Typing
  <2>4. /\ task'[t].pc = "done" /\ task'[t].run = task[t].run
        /\ task'[t].gen = task[t].gen /\ task'[t].slot = task[t].slot
        /\ \A u \in Tasks : u # t => task'[u] = task[u]
    BY <2>1, <2>3, TaskGotoEffect DEF TaskState
  <2>5. Live(t) /\ ~Live(t)'
    BY <2>1, <2>4 DEF Live
  <2>6. \A q \in Runs : /\ srv'[q].gen = srv[q].gen
                        /\ q # r => srv'[q] = srv[q]
    BY <2>2, <2>3, SrvEffect
  <2>7. srv'[r].state # "leased"
    BY <2>2, <2>3, SrvEffect
  <2>8. /\ ~claim'[r].token /\ claim'[r].gen = claim[r].gen /\ claim'[r].slot = claim[r].slot
        /\ \A q \in Runs : q # r => claim'[q] = claim[q]
    BY <2>1, <2>3, FinishedEffect
  <2>9. \A q \in Runs : q # r => port'[q] = port[q]
    BY <2>1, <2>3, ReleasedEffect
  <2> QED
    BY <2>1, <2>3, <2>4, <2>5, <2>6, <2>7, <2>8, <2>9
<1>4. CASE OutcomeLost(t)
  <2>1. /\ task[t].pc # "free" /\ r \in Runs
        /\ UNCHANGED <<claim, port, capacity, loop, todo, free, recovered, active, slotOf, task>>
    BY <1>4, Typing DEF OutcomeLost, Honoured, Live, storeVars, loopVars, memVars
  <2>2. \E s \in SrvState : s \notin {"leased", "queued"} /\ srv' = [srv EXCEPT ![r].state = s]
    BY <1>4 DEF OutcomeLost, TakesResult, SrvState
  <2>3. /\ \A q \in Runs : srv'[q].gen = srv[q].gen /\ (q # r => srv'[q] = srv[q])
        /\ srv'[r].state \notin {"leased", "queued"}
    BY <2>1, <2>2, SrvEffect
  <2>4. srv'[r].state = "waiting" => WaitingUntold
    BY <1>4 DEF WaitingUntold
  <2>5. Live(t) /\ Live(t)'
    BY <1>4, <2>1 DEF OutcomeLost, Honoured, Live
  <2> QED
    BY <2>1, <2>3, <2>4, <2>5
<1> QED
  BY <1>1, <1>2, <1>3, <1>4 DEF TaskStep, Execute

\* Tasks that are over go, and with them what the dictionaries say of their runs.
LEMMA ReapEffect ==
  ASSUME StoreInv, ReapTasks
  PROVE  /\ UNCHANGED <<srv, claim, port, capacity, free, recovered>> /\ loop = "top"
         /\ IF recovered THEN loop' = "terminal"
                         ELSE loop' = "recover" /\ todo' = {r \in Runs : claim[r].token}
         /\ \A t \in Tasks : (Live(t) => Live(t)') /\ (Live(t)' => Live(t) /\ task'[t] = task[t])
         /\ \A r \in Runs : \/ active'[r] = active[r] /\ slotOf'[r] = slotOf[r]
                            \/ /\ slotOf'[r] = NoSlot
                               /\ \A t \in Tasks : active[r] = t => ~Live(t)
<1> DEFINE over == {t \in Tasks : task[t].pc = "done"}
<1>1. \A t \in over : ~Live(t)
  BY DEF Live
<1>2. \A t \in Tasks : (Live(t) => Live(t)') /\ (Live(t)' => Live(t) /\ task'[t] = task[t])
  BY DEF ReapTasks, Live, FreeTask
<1>3. \A r \in Runs : \/ active[r] \notin over /\ active'[r] = active[r] /\ slotOf'[r] = slotOf[r]
                      \/ active[r] \in over /\ slotOf'[r] = NoSlot
  BY DEF ReapTasks
<1>4. /\ UNCHANGED <<srv, claim, port, capacity, free, recovered>> /\ loop = "top"
      /\ IF recovered THEN loop' = "terminal"
                      ELSE loop' = "recover" /\ todo' = {r \in Runs : claim[r].token}
  BY DEF ReapTasks, storeVars
<1> QED
  BY <1>1, <1>2, <1>3, <1>4

-----------------------------------------------------------------------------
(* One execution of a run *)

\* A run that gets a lease or a task has no task that is alive.
LEMMA NoLiveTask ==
  ASSUME ExecInv, NEW r \in Runs, NewLease(r) \/ NewTask(r)
  PROVE  \A t \in Tasks : Live(t) => task[t].run # r
<1>1. CASE srv[r].state = "queued"
  BY <1>1 DEF ExecInv, LeaseInv
<1>2. CASE loop = "heartbeat" /\ r \in todo
  BY <1>2 DEF ExecInv, LoopInv, Recovering
<1> QED
  BY <1>1, <1>2, NewLeaseEffect, NewTaskLease DEF ExecInv

\* Every step keeps the leases of the live tasks.
LEMMA LeaseInvStep ==
  ASSUME ExecInv, [Next]_vars, ~ExecutedTwice
  PROVE  LeaseInv'
<1>1. CASE LoopStep
  BY <1>1, LoopEffect DEF ExecInv, LeaseInv, Live
<1>2. CASE ReapTasks
  BY <1>2, ReapEffect DEF ExecInv, LeaseInv
<1>3. CASE Ends
  BY <1>3, EndsEffect, ExitEffect DEF ExecInv, LeaseInv
<1>4. ASSUME NEW r \in Runs, NewLease(r)
      PROVE  LeaseInv'
  <2>1. \A t \in Tasks : Live(t)' <=> Live(t) /\ task[t].run # r
    BY <1>4, NewLeaseEffect, NoLiveTask DEF Live, ExecInv
  <2>2. \A q \in Runs : srv'[q].gen >= srv[q].gen /\ claim'[q].gen = claim[q].gen
    BY <1>4, NewLeaseEffect, Typing DEF ExecInv
  <2>3. \A q \in Runs : /\ srv'[q].gen \in Nat /\ srv[q].gen \in Nat /\ claim[q].gen \in Nat
    BY <1>4, StoreStep, NewLeaseEffect, Typing DEF ExecInv
  <2> QED
    BY <1>4, <2>1, <2>2, <2>3, NewLeaseEffect, Typing DEF ExecInv, LeaseInv
<1>5. ASSUME NEW r \in Runs, NewTask(r)
      PROVE  LeaseInv'
  <2>1. \E n \in Tasks :
          /\ task'[n].run = r /\ task'[n].gen = srv'[r].gen
          /\ \A u \in Tasks : u # n => task'[u] = task[u]
    <3>1. PICK n \in Tasks, s \in Slots :
            /\ task[n].pc = "free"
            /\ task'[n] = [pc |-> "begin", run |-> r, gen |-> srv'[r].gen, slot |-> s]
            /\ \A v \in Tasks : v # n => task'[v] = task[v]
            /\ active'[r] = n /\ \A q \in Runs : q # r => active'[q] = active[q]
            /\ slotOf'[r] = s /\ \A q \in Runs : q # r => slotOf'[q] = slotOf[q]
            /\ \/ ClaimRun(r) /\ s \in free /\ free' = free \ {s}
               \/ RecoverWorker(r) /\ LeaseActive(r) /\ s = claim[r].slot
      BY <1>5, NewTaskEffect DEF ExecInv
    <3> QED
      BY <3>1
  <2>2. ASSUME NEW u \in Tasks, Live(u)'
        PROVE  /\ srv'[task'[u].run].gen = task'[u].gen
               /\ srv'[task'[u].run].state \notin {"queued", "waiting"}
    <3> PICK n \in Tasks : /\ task'[n].run = r /\ task'[n].gen = srv'[r].gen
                            /\ \A v \in Tasks : v # n => task'[v] = task[v]
      BY <2>1
    <3>1. CASE u = n
      BY <1>5, <3>1, NewTaskLease DEF ExecInv
    <3>2. CASE u # n
      <4>1. task'[u] = task[u] /\ Live(u) /\ task[u].run \in Runs
        BY <2>2, <3>2, Typing DEF Live, ExecInv
      <4>2. task[u].run # r
        BY <1>5, <4>1, NoLiveTask
      <4>3. srv'[task[u].run] = srv[task[u].run]
        BY <1>5, <4>1, <4>2, NewTaskLease DEF ExecInv
      <4> QED
        BY <4>1, <4>3 DEF ExecInv, LeaseInv
    <3> QED
      BY <3>1, <3>2
  <2>3. ASSUME NEW q \in Runs
        PROVE  claim'[q].gen <= srv'[q].gen
    <3>1. /\ srv'[q].gen = srv[q].gen \/ srv'[q].gen = srv[q].gen + 1
          /\ claim'[q].gen = claim[q].gen
      BY <1>5, NewTaskLease DEF ExecInv
    <3>2. claim[q].gen <= srv[q].gen /\ claim[q].gen \in Int /\ srv[q].gen \in Int
      BY Typing DEF ExecInv, LeaseInv
    <3> QED
      BY <3>1, <3>2
  <2> QED
    BY <2>2, <2>3 DEF LeaseInv
<1>6. ASSUME NEW r \in Runs, ServerStep(r)
      PROVE  LeaseInv'
  <2>1. \A u \in Tasks : Live(u)' <=> Live(u)
    BY <1>6, ServerEffect DEF Live, ExecInv
  <2>2. ASSUME NEW u \in Tasks, Live(u), task[u].run = r
        PROVE  srv'[r].state \notin {"queued", "waiting"}
    <3>1. task[u].gen = srv[r].gen /\ srv[r].state # "waiting"
      BY <2>2 DEF ExecInv, LeaseInv
    <3>2. ~LeaseExpires(r)
      BY <2>2, <3>1 DEF ExecutedTwice, LeaseLapses
    <3> QED
      BY <1>6, <3>1, <3>2, ServerEffect DEF ExecInv
  <2> QED
    BY <1>6, <2>1, <2>2, ServerEffect, Typing DEF ExecInv, LeaseInv
<1>7. ASSUME NEW t \in Tasks, TaskStep(t)
      PROVE  LeaseInv'
  <2> DEFINE q == task[t].run
  <2>1. q \in Runs /\ ~WaitingUntold
    BY <1>7, TaskEffect DEF ExecInv, ExecutedTwice
  <2>2. ASSUME NEW u \in Tasks, Live(u)'
        PROVE  /\ srv'[task'[u].run].gen = task'[u].gen
               /\ srv'[task'[u].run].state \notin {"queued", "waiting"}
    <3>1. Live(u) /\ task'[u].run = task[u].run /\ task'[u].gen = task[u].gen
      BY <1>7, <2>2, TaskEffect DEF Live, ExecInv
    <3>2. /\ task[u].run \in Runs /\ srv[task[u].run].gen = task[u].gen
          /\ srv[task[u].run].state \notin {"queued", "waiting"}
      BY <3>1, Typing DEF ExecInv, LeaseInv
    <3>3. srv'[task[u].run].gen = srv[task[u].run].gen
      BY <1>7, <3>2, TaskEffect DEF ExecInv
    <3>4. srv'[task[u].run].state \notin {"queued", "waiting"}
      <4>1. CASE task[u].run # q
        BY <1>7, <3>2, <4>1, TaskEffect DEF ExecInv
      <4>2. CASE task[u].run = q /\ Live(t)'
        BY <1>7, <2>1, <3>2, <4>2, TaskEffect DEF ExecInv
      <4>3. CASE task[u].run = q /\ ~Live(t)'
        <5>1. u # t /\ active[q] = u
          BY <2>2, <3>1, <4>3 DEF ExecInv, OneTaskPerRun
        <5>2. Live(t)
          BY <1>7, TaskEffect DEF ExecInv
        <5> QED
          BY <5>1, <5>2 DEF ExecInv, OneTaskPerRun
      <4> QED
        BY <4>1, <4>2, <4>3
    <3> QED
      BY <3>1, <3>2, <3>3, <3>4
  <2>3. ASSUME NEW p \in Runs
        PROVE  claim'[p].gen <= srv'[p].gen
    <3>1. srv'[p].gen = srv[p].gen /\ claim[p].gen <= srv[p].gen
      BY <1>7, TaskEffect DEF ExecInv, LeaseInv
    <3>2. claim'[p].gen = claim[p].gen \/ (p = q /\ SaveClaim(t) /\ claim'[p].gen = task[t].gen)
      <4>1. CASE p # q
        BY <1>7, <4>1, TaskEffect DEF ExecInv
      <4>2. CASE p = q
        <5>1. \/ claim'[q].gen = claim[q].gen
              \/ /\ claim'[q] = [token |-> TRUE, gen |-> task[t].gen, slot |-> task[t].slot]
                 /\ SaveClaim(t)
          BY <1>7, TaskEffect DEF ExecInv
        <5> QED
          BY <4>2, <5>1
      <4> QED
        BY <4>1, <4>2
    <3>3. SaveClaim(t) => task[t].gen = srv[q].gen
      BY DEF SaveClaim, Live, ExecInv, LeaseInv
    <3>4. srv[p].gen \in Int
      BY Typing DEF ExecInv
    <3> QED
      BY <3>1, <3>2, <3>3, <3>4
  <2> QED
    BY <2>2, <2>3 DEF LeaseInv
<1> QED
  BY <1>1, <1>2, <1>3, <1>4, <1>5, <1>6, <1>7, Kinds

\* Every step keeps what the places of the loop mean for the tasks.
LEMMA LoopInvStep ==
  ASSUME ExecInv, [Next]_vars, ~ExecutedTwice
  PROVE  LoopInv'
<1>1. CASE LoopStep
  <2>1. /\ \A u \in Tasks : Live(u)' <=> Live(u)
        /\ \A u \in Tasks : task'[u] = task[u]
    BY <1>1, LoopEffect DEF ExecInv, Live
  <2>2. CASE StartDaemon
    BY <2>1, <2>2 DEF StartDaemon, storeVars, memVars, bounds, ExecInv, LoopInv,
       Recovering
  <2>3. CASE ReloadCapacity
    BY <2>1, <2>3 DEF ReloadCapacity, storeVars, loopVars, memVars, ExecInv,
       LoopInv, Recovering
  <2>4. CASE RecoveryDone
    BY <2>1, <2>4 DEF RecoveryDone, storeVars, memVars, bounds, ExecInv, LoopInv,
       Recovering
  <2>5. CASE ComputeSlots
    BY <2>1, <2>5 DEF ComputeSlots, storeVars, memVars, bounds, ExecInv, LoopInv,
       Recovering
  <2>6. CASE ClaimsDone
    BY <2>1, <2>6 DEF ClaimsDone, storeVars, memVars, bounds, ExecInv, LoopInv,
       Recovering
  <2>7. CASE PendingDone
    BY <2>1, <2>7 DEF PendingDone, storeVars, memVars, bounds, ExecInv, LoopInv,
       Recovering
  <2>8. CASE IdleDone
    BY <2>1, <2>8 DEF IdleDone, storeVars, memVars, bounds, ExecInv, LoopInv,
       Recovering
  <2>9. CASE OperationFails
    BY <2>1, <2>9 DEF OperationFails, Fault, ExecutedTwice, RecoveryRestarts,
       storeVars, memVars, ExecInv, LoopInv, Recovering
  <2>10. CASE UNCHANGED vars
    BY <2>1, <2>10 DEF vars, ExecInv, LoopInv, Recovering
  <2>11. ASSUME NEW r \in Runs, InspectLease(r)
         PROVE  LoopInv'
    <3>1. /\ todo' \subseteq todo /\ recovered' = recovered /\ Recovering /\ Recovering'
          /\ \A q \in todo' : claim'[q].token <=> claim[q].token
          /\ loop \in {"recover", "heartbeat"} /\ loop' \in {"recover", "heartbeat"}
      BY <2>11, FinishedEffect, Typing DEF InspectLease, Recovering, ExecInv, StoreInv, Types
    <3> QED
      BY <2>1, <3>1 DEF ExecInv, LoopInv
  <2>12. ASSUME NEW r \in Runs, ReconcileTerminal(r)
         PROVE  LoopInv'
    BY <2>1, <2>12 DEF ReconcileTerminal, memVars, bounds, ExecInv, LoopInv,
       Recovering
  <2>13. ASSUME NEW r \in Runs, ReconcilePending(r)
         PROVE  LoopInv'
    BY <2>1, <2>13 DEF ReconcilePending, memVars, bounds, ExecInv, LoopInv,
       Recovering
  <2>14. ASSUME NEW r \in Runs, ReconcileIdle(r)
         PROVE  LoopInv'
    BY <2>1, <2>14 DEF ReconcileIdle, memVars, bounds, ExecInv, LoopInv, Recovering
  <2>15. ASSUME NEW r \in Runs, ReconcileSkips(r)
         PROVE  LoopInv'
    BY <2>1, <2>15 DEF ReconcileSkips, storeVars, memVars, Fault, ExecInv, LoopInv,
       Recovering
  <2>16. ASSUME NEW r \in Runs, RecoverWorker(r), LeaseActive(r), port[r] = "released"
         PROVE  FALSE
    <3>1. Recovering /\ r \in todo
      BY <2>16 DEF RecoverWorker, NextRow, Recovering
    <3> QED
      BY <2>16, <3>1 DEF ExecInv, LoopInv, PortInv, ActiveClaim
  <2> QED
    BY <1>1, <2>2, <2>3, <2>4, <2>5, <2>6, <2>7, <2>8, <2>9, <2>10, <2>11, <2>12,
       <2>13, <2>14, <2>15, <2>16 DEF LoopStep
<1>2. CASE ReapTasks
  <2>1. CASE recovered
    BY <1>2, <2>1, ReapEffect DEF ExecInv, LoopInv, Recovering
  <2>2. CASE ~recovered
    <3>1. /\ loop' = "recover" /\ todo' = {r \in Runs : claim[r].token} /\ recovered' = recovered
          /\ claim' = claim /\ \A u \in Tasks : ~Live(u)'
      BY <1>2, <2>2, ReapEffect DEF ExecInv, LoopInv, Recovering
    <3> QED
      BY <2>2, <3>1 DEF LoopInv, Recovering
  <2> QED
    BY <2>1, <2>2
<1>3. CASE Ends
  BY <1>3, EndsEffect, ExitEffect DEF ExecInv, LoopInv, Recovering
<1>4. ASSUME NEW r \in Runs, NewLease(r)
      PROVE  LoopInv'
  BY <1>4, NewLeaseEffect DEF ExecInv, LoopInv, Recovering
<1>5. ASSUME NEW r \in Runs, NewTask(r)
      PROVE  LoopInv'
  <2>1. CASE ClaimRun(r) /\ loop = "claim" /\ loop' = "claim"
    BY <1>5, <2>1, NewTaskLease DEF ExecInv, LoopInv, Recovering
  <2>2. CASE /\ RecoverWorker(r) /\ loop = "heartbeat" /\ loop' = "recover"
             /\ r \in todo /\ todo' = todo \ {r}
    <3>1. Recovering /\ Recovering' /\ UNCHANGED <<claim, recovered>> /\ ~recovered
      BY <1>5, <2>2, NewTaskLease DEF ExecInv, LoopInv, Recovering
    <3>2. ASSUME NEW u \in Tasks, Live(u)'
          PROVE  task'[u].run \notin todo'
      <4>1. PICK n \in Tasks, s \in Slots :
              /\ task[n].pc = "free"
              /\ task'[n] = [pc |-> "begin", run |-> r, gen |-> srv'[r].gen, slot |-> s]
              /\ \A v \in Tasks : v # n => task'[v] = task[v]
              /\ active'[r] = n /\ \A q \in Runs : q # r => active'[q] = active[q]
              /\ slotOf'[r] = s /\ \A q \in Runs : q # r => slotOf'[q] = slotOf[q]
              /\ \/ ClaimRun(r) /\ s \in free /\ free' = free \ {s}
                 \/ RecoverWorker(r) /\ LeaseActive(r) /\ s = claim[r].slot
        BY <1>5, NewTaskEffect DEF ExecInv
      <4>2. CASE u = n
        BY <2>2, <4>1, <4>2
      <4>3. CASE u # n
        BY <2>2, <3>1, <3>2, <4>1, <4>3 DEF ExecInv, LoopInv, Live
      <4> QED
        BY <4>2, <4>3
    <3> QED
      BY <2>2, <3>1, <3>2 DEF ExecInv, LoopInv, Recovering
  <2> QED
    BY <1>5, <2>1, <2>2, NewTaskLease DEF ExecInv
<1>6. ASSUME NEW r \in Runs, ServerStep(r)
      PROVE  LoopInv'
  BY <1>6, ServerEffect DEF ExecInv, LoopInv, Recovering, Live
<1>7. ASSUME NEW t \in Tasks, TaskStep(t)
      PROVE  LoopInv'
  <2>1. /\ UNCHANGED <<loop, todo, recovered>> /\ Live(t)
        /\ \A u \in Tasks : Live(u)' => Live(u) /\ task'[u].run = task[u].run
        /\ \A q \in Runs : q # task[t].run => claim'[q] = claim[q]
    BY <1>7, TaskEffect DEF ExecInv, Live
  <2>2. Recovering => task[t].run \notin todo
    BY <2>1 DEF ExecInv, LoopInv
  <2>3. todo \subseteq Runs
    BY DEF ExecInv, StoreInv, Types
  <2> QED
    BY <2>1, <2>2, <2>3 DEF ExecInv, LoopInv, Recovering
<1> QED
  BY <1>1, <1>2, <1>3, <1>4, <1>5, <1>6, <1>7, Kinds

\* Every step leaves a leased run its ports.
LEMMA PortInvStep ==
  ASSUME ExecInv, [Next]_vars, ~ExecutedTwice
  PROVE  PortInv'
<1>1. CASE LoopStep
  <2>1. \A q \in Runs : ActiveClaim(q)' => ActiveClaim(q)
    BY <1>1, LoopEffect DEF ActiveClaim, LeaseActive, ExecInv

  <2>2. \A q \in Runs : srv[q].state = "leased" /\ port[q] = "reserved" => port'[q] = "reserved"
    BY <1>1, LoopEffect DEF Terminal, ExecInv
  <2>3. \A u \in Tasks : Live(u)' => Live(u) /\ task'[u] = task[u] /\ task[u].run \in Runs
    BY <1>1, LoopEffect, Typing DEF Live, ExecInv
  <2>4. srv' = srv
    BY <1>1, LoopEffect DEF ExecInv
  <2> QED
    BY <2>1, <2>2, <2>3, <2>4 DEF ExecInv, PortInv, ActiveClaim, LeaseActive
<1>2. CASE ReapTasks
  <2>1. \A q \in Runs : ActiveClaim(q)' => ActiveClaim(q)
    BY <1>2, ReapEffect DEF ActiveClaim, LeaseActive, ExecInv

  <2> QED
    BY <1>2, <2>1, ReapEffect DEF ExecInv, PortInv
<1>3. CASE Ends
  <2>1. \A q \in Runs : ActiveClaim(q)' => ActiveClaim(q)
    BY <1>3, EndsEffect DEF ActiveClaim, LeaseActive, ExecInv

  <2> QED
    BY <1>3, <2>1, EndsEffect, ExitEffect DEF ExecInv, PortInv
<1>4. ASSUME NEW r \in Runs, NewLease(r)
      PROVE  PortInv'
  <2>1. ~ActiveClaim(r)'
    <3>1. /\ claim'[r].gen = claim[r].gen /\ srv'[r].gen = srv[r].gen + 1
          /\ claim[r].gen <= srv[r].gen /\ claim[r].gen \in Int /\ srv[r].gen \in Int
      BY <1>4, NewLeaseEffect, Typing DEF ExecInv, LeaseInv
    <3> QED
      BY <3>1 DEF ActiveClaim, LeaseActive
  <2>2. \A q \in Runs : q # r /\ ActiveClaim(q)' => ActiveClaim(q)
    BY <1>4, NewLeaseEffect DEF ActiveClaim, LeaseActive, ExecInv
  <2>3. \A u \in Tasks : Live(u)' => /\ Live(u) /\ task'[u] = task[u]
                                     /\ task[u].run \in Runs /\ task[u].run # r
    BY <1>4, NewLeaseEffect, NoLiveTask, Typing DEF Live, ExecInv
  <2> QED
    BY <1>4, <2>1, <2>2, <2>3, NewLeaseEffect DEF ExecInv, PortInv
<1>5. ASSUME NEW r \in Runs, NewTask(r)
      PROVE  PortInv'
  <2>1. \A q \in Runs : q # r /\ ActiveClaim(q)' => ActiveClaim(q)
    BY <1>5, NewTaskLease DEF ActiveClaim, LeaseActive, ExecInv
  <2>2. ASSUME NEW u \in Tasks, Live(u)'
        PROVE  task'[u].run = r \/ (Live(u) /\ task'[u] = task[u] /\ task[u].run \in Runs)
    <3>1. PICK n \in Tasks, s \in Slots :
            /\ task[n].pc = "free"
            /\ task'[n] = [pc |-> "begin", run |-> r, gen |-> srv'[r].gen, slot |-> s]
            /\ \A v \in Tasks : v # n => task'[v] = task[v]
            /\ active'[r] = n /\ \A q \in Runs : q # r => active'[q] = active[q]
            /\ slotOf'[r] = s /\ \A q \in Runs : q # r => slotOf'[q] = slotOf[q]
            /\ \/ ClaimRun(r) /\ s \in free /\ free' = free \ {s}
               \/ RecoverWorker(r) /\ LeaseActive(r) /\ s = claim[r].slot
      BY <1>5, NewTaskEffect DEF ExecInv
    <3>2. CASE u = n
      BY <3>1, <3>2
    <3>3. CASE u # n
      BY <2>2, <3>1, <3>3, Typing DEF Live, ExecInv
    <3> QED
      BY <3>2, <3>3
  <2>3. port'[r] = "reserved" /\ \A q \in Runs : q # r => srv'[q] = srv[q] /\ port'[q] = port[q]
    BY <1>5, NewTaskLease DEF ExecInv
  <2> QED
    BY <2>1, <2>2, <2>3 DEF ExecInv, PortInv
<1>6. ASSUME NEW r \in Runs, ServerStep(r)
      PROVE  PortInv'
  <2>1. \A q \in Runs : ActiveClaim(q)' => ActiveClaim(q)
    BY <1>6, ServerEffect DEF ActiveClaim, LeaseActive, ExecInv
  <2>2. \A u \in Tasks : Live(u)' => Live(u) /\ task'[u] = task[u] /\ task[u].run \in Runs
    BY <1>6, ServerEffect, Typing DEF Live, ExecInv
  <2> QED
    BY <1>6, <2>1, <2>2, ServerEffect DEF ExecInv, PortInv
<1>7. ASSUME NEW t \in Tasks, TaskStep(t)
      PROVE  PortInv'
  <2> DEFINE p == task[t].run
  <2>1. p \in Runs /\ Live(t)
    BY <1>7, TaskEffect DEF ExecInv
  <2>2. ASSUME NEW q \in Runs, srv'[q].state = "leased"
        PROVE  srv'[q] = srv[q] /\ port'[q] = port[q]
    <3>1. CASE q = p
      BY <1>7, <2>2, <3>1, TaskEffect DEF ExecInv
    <3>2. CASE q # p
      BY <1>7, <3>2, TaskEffect DEF ExecInv
    <3> QED
      BY <3>1, <3>2
  <2>3. ASSUME NEW q \in Runs, ActiveClaim(q)'
        PROVE  port'[q] = "reserved"
    <3>1. srv'[q].state = "leased" /\ srv[q] = srv'[q] /\ port'[q] = port[q]
      BY <2>2, <2>3 DEF ActiveClaim, LeaseActive
    <3>2. CASE q = p
      BY <2>1, <3>1, <3>2 DEF ExecInv, PortInv
    <3>3. CASE q # p
      <4>1. claim'[q] = claim[q]
        BY <1>7, <3>3, TaskEffect DEF ExecInv
      <4>2. ActiveClaim(q)
        BY <2>3, <3>1, <4>1 DEF ActiveClaim, LeaseActive
      <4> QED
        BY <3>1, <4>2 DEF ExecInv, PortInv
    <3> QED
      BY <3>2, <3>3
  <2>4. \A u \in Tasks : Live(u)' => /\ Live(u) /\ task'[u].run = task[u].run
                                     /\ task[u].run \in Runs
    BY <1>7, TaskEffect, Typing DEF Live, ExecInv
  <2> QED
    BY <2>2, <2>3, <2>4 DEF ExecInv, PortInv
<1> QED
  BY <1>1, <1>2, <1>3, <1>4, <1>5, <1>6, <1>7, Kinds

\* Every step keeps at most one live task for each run.
LEMMA OneTaskStep ==
  ASSUME ExecInv, [Next]_vars, ~ExecutedTwice
  PROVE  OneTaskPerRun'
<1>1. CASE LoopStep
  BY <1>1, LoopEffect DEF ExecInv, OneTaskPerRun, Live
<1>2. CASE ReapTasks
  <2>1. ASSUME NEW u \in Tasks, Live(u)'
        PROVE  active'[task'[u].run] = u
    <3>1. Live(u) /\ task'[u] = task[u] /\ task[u].run \in Runs /\ active[task[u].run] = u
      BY <1>2, <2>1, ReapEffect, Typing DEF ExecInv, OneTaskPerRun
    <3> QED
      BY <1>2, <3>1, ReapEffect DEF ExecInv
  <2> QED
    BY <2>1 DEF OneTaskPerRun
<1>3. CASE Ends
  BY <1>3, EndsEffect, ExitEffect DEF ExecInv, OneTaskPerRun
<1>4. ASSUME NEW r \in Runs, NewLease(r)
      PROVE  OneTaskPerRun'
  BY <1>4, NewLeaseEffect DEF ExecInv, OneTaskPerRun, Live
<1>5. ASSUME NEW r \in Runs, NewTask(r)
      PROVE  OneTaskPerRun'
  <2>1. ASSUME NEW u \in Tasks, Live(u)'
        PROVE  active'[task'[u].run] = u
    <3>1. PICK n \in Tasks, s \in Slots :
            /\ task[n].pc = "free"
            /\ task'[n] = [pc |-> "begin", run |-> r, gen |-> srv'[r].gen, slot |-> s]
            /\ \A v \in Tasks : v # n => task'[v] = task[v]
            /\ active'[r] = n /\ \A q \in Runs : q # r => active'[q] = active[q]
            /\ slotOf'[r] = s /\ \A q \in Runs : q # r => slotOf'[q] = slotOf[q]
            /\ \/ ClaimRun(r) /\ s \in free /\ free' = free \ {s}
               \/ RecoverWorker(r) /\ LeaseActive(r) /\ s = claim[r].slot
      BY <1>5, NewTaskEffect DEF ExecInv
    <3>2. CASE u = n
      BY <3>1, <3>2
    <3>3. CASE u # n
      <4>1. Live(u) /\ task'[u] = task[u] /\ task[u].run \in Runs
        BY <2>1, <3>1, <3>3, Typing DEF Live, ExecInv
      <4>2. task[u].run # r
        BY <1>5, <4>1, NoLiveTask
      <4> QED
        BY <3>1, <4>1, <4>2 DEF ExecInv, OneTaskPerRun
    <3> QED
      BY <3>2, <3>3
  <2> QED
    BY <2>1 DEF OneTaskPerRun
<1>6. ASSUME NEW r \in Runs, ServerStep(r)
      PROVE  OneTaskPerRun'
  BY <1>6, ServerEffect DEF ExecInv, OneTaskPerRun, Live
<1>7. ASSUME NEW t \in Tasks, TaskStep(t)
      PROVE  OneTaskPerRun'
  <2>1. /\ UNCHANGED active
        /\ \A u \in Tasks : Live(u)' => Live(u) /\ task'[u].run = task[u].run
    BY <1>7, TaskEffect DEF Live, ExecInv
  <2> QED
    BY <2>1 DEF ExecInv, OneTaskPerRun
<1> QED
  BY <1>1, <1>2, <1>3, <1>4, <1>5, <1>6, <1>7, Kinds

-----------------------------------------------------------------------------
(* One run in each slot *)

\* What the loop does for one row whose lease is active: recovery is done with
\* it when it has a task, or when its slot is beyond the capacity.
LEMMA LoopRows ==
  ASSUME ExecInv, LoopStep, ~SlotGivenTwice, NEW q \in Runs, ActiveClaim(q),
         \/ \E t \in Tasks : Live(t) /\ task[t].run = q /\ task[t].slot = claim[q].slot
         \/ claim[q].slot >= capacity
         \/ ~recovered /\ (Recovering => q \in todo)
  PROVE  \/ \E t \in Tasks : Live(t) /\ task[t].run = q /\ task[t].slot = claim[q].slot
         \/ claim[q].slot >= capacity'
         \/ ~recovered' /\ (Recovering' => q \in todo')
<1>1. CASE StartDaemon
  BY <1>1 DEF StartDaemon, storeVars, memVars, bounds, Recovering
<1>2. CASE RecoveryDone
  BY <1>2 DEF RecoveryDone, storeVars, memVars, bounds, Recovering
<1>3. CASE ComputeSlots
  BY <1>3 DEF ComputeSlots, storeVars, memVars, bounds, Recovering
<1>4. CASE ClaimsDone
  BY <1>4 DEF ClaimsDone, storeVars, memVars, bounds, Recovering
<1>5. CASE PendingDone
  BY <1>5 DEF PendingDone, storeVars, memVars, bounds, Recovering
<1>6. CASE IdleDone
  BY <1>6 DEF IdleDone, storeVars, memVars, bounds, Recovering
<1>7. CASE OperationFails
  BY <1>7 DEF OperationFails, storeVars, memVars, Fault, Recovering
<1>8. CASE ReloadCapacity
  <2>1. loop \in {"top", "down"} /\ UNCHANGED <<recovered, loop, claim>>
    BY <1>8 DEF ReloadCapacity, loopVars, storeVars
  <2>2. CASE ~recovered
    BY <2>1, <2>2 DEF Recovering
  <2>3. CASE recovered /\ claim[q].slot >= capacity /\ ~(claim[q].slot >= capacity')
    <3>1. capacity \in Int /\ capacity' \in Int /\ claim[q].slot \in Int
      BY <1>8, Typing, SupervisorAssumption
      DEF ReloadCapacity, ExecInv, StoreInv, Types, Slots, SupervisorAssumption
    <3>2. capacity <= claim[q].slot /\ claim[q].slot < capacity'
      BY <2>3, <3>1
    <3> QED
      BY <2>3, <3>2 DEF SlotGivenTwice, CapacityRaised
  <2> QED
    BY <2>2, <2>3
<1>9. CASE UNCHANGED vars
  BY <1>9 DEF vars, Recovering
<1>10. ASSUME NEW r \in Runs, InspectLease(r)
      PROVE  \/ claim[q].slot >= capacity'
             \/ \E t \in Tasks : Live(t) /\ task[t].run = q /\ task[t].slot = claim[q].slot
             \/ ~recovered' /\ (Recovering' => q \in todo')
  <2>1. capacity \in Int /\ claim[q].slot \in Int
    BY Typing, SupervisorAssumption DEF ExecInv, StoreInv, Types, Slots, SupervisorAssumption
  <2>2. /\ UNCHANGED <<capacity, recovered>> /\ Recovering
        /\ q \in todo => \/ q \in todo'
                         \/ q = r /\ ~(claim[q].slot < capacity /\ LeaseActive(q))
    BY <1>10 DEF InspectLease, Recovering
  <2> QED
    BY <2>1, <2>2 DEF ActiveClaim
<1>11. ASSUME NEW r \in Runs, ReconcileTerminal(r)
       PROVE  UNCHANGED <<capacity, recovered>> /\ ~Recovering'
  BY <1>11 DEF ReconcileTerminal, memVars, bounds, Recovering
<1>12. ASSUME NEW r \in Runs, ReconcilePending(r)
       PROVE  UNCHANGED <<capacity, recovered>> /\ ~Recovering'
  BY <1>12 DEF ReconcilePending, memVars, bounds, Recovering
<1>13. ASSUME NEW r \in Runs, ReconcileIdle(r)
       PROVE  UNCHANGED <<capacity, recovered>> /\ ~Recovering'
  BY <1>13 DEF ReconcileIdle, memVars, bounds, Recovering
<1>14. ASSUME NEW r \in Runs, ReconcileSkips(r)
       PROVE  UNCHANGED <<capacity, recovered>> /\ ~Recovering'
  BY <1>14 DEF ReconcileSkips, storeVars, memVars, Fault, Recovering
<1>15. ASSUME NEW r \in Runs, RecoverWorker(r), LeaseActive(r), port[r] = "released"
       PROVE  UNCHANGED <<capacity, recovered>> /\ ~Recovering'
  BY <1>15 DEF RecoverWorker, memVars, bounds, Recovering
<1> QED
  BY <1>1, <1>2, <1>3, <1>4, <1>5, <1>6, <1>7, <1>8, <1>9, <1>10, <1>11, <1>12,
     <1>13, <1>14, <1>15 DEF LoopStep

\* Recovery starts when tasks are reaped, and claims when slots are computed.
LEMMA LoopPlaces ==
  ASSUME StoreInv, LoopStep
  PROVE  /\ Recovering' => Recovering
         /\ loop' = "claim" => ComputeSlots \/ (loop = "claim" /\ UNCHANGED <<free, capacity>>)
<1>1. CASE StartDaemon
  BY <1>1 DEF StartDaemon, storeVars, memVars, bounds, Recovering
<1>2. CASE ReloadCapacity
  BY <1>2 DEF ReloadCapacity, storeVars, loopVars, memVars, Recovering
<1>3. CASE RecoveryDone
  BY <1>3 DEF RecoveryDone, storeVars, memVars, bounds, Recovering
<1>4. CASE ComputeSlots
  BY <1>4 DEF ComputeSlots, storeVars, memVars, bounds, Recovering
<1>5. CASE ClaimsDone
  BY <1>5 DEF ClaimsDone, storeVars, memVars, bounds, Recovering
<1>6. CASE PendingDone
  BY <1>6 DEF PendingDone, storeVars, memVars, bounds, Recovering
<1>7. CASE IdleDone
  BY <1>7 DEF IdleDone, storeVars, memVars, bounds, Recovering
<1>8. CASE OperationFails
  BY <1>8 DEF OperationFails, storeVars, memVars, Fault, Recovering
<1>9. CASE UNCHANGED vars
  BY <1>9 DEF vars, Recovering
<1>10. ASSUME NEW r \in Runs, InspectLease(r)
       PROVE  (Recovering' => Recovering) /\ loop' # "claim"
  BY <1>10 DEF InspectLease, memVars, bounds, Recovering
<1>11. ASSUME NEW r \in Runs, ReconcileTerminal(r)
       PROVE  (Recovering' => Recovering) /\ loop' # "claim"
  BY <1>11 DEF ReconcileTerminal, memVars, bounds, Recovering
<1>12. ASSUME NEW r \in Runs, ReconcilePending(r)
       PROVE  (Recovering' => Recovering) /\ loop' # "claim"
  BY <1>12 DEF ReconcilePending, memVars, bounds, Recovering
<1>13. ASSUME NEW r \in Runs, ReconcileIdle(r)
       PROVE  (Recovering' => Recovering) /\ loop' # "claim"
  BY <1>13 DEF ReconcileIdle, memVars, bounds, Recovering
<1>14. ASSUME NEW r \in Runs, ReconcileSkips(r)
       PROVE  (Recovering' => Recovering) /\ loop' # "claim"
  BY <1>14 DEF ReconcileSkips, storeVars, memVars, Fault, Recovering
<1>15. ASSUME NEW r \in Runs, RecoverWorker(r), LeaseActive(r), port[r] = "released"
       PROVE  (Recovering' => Recovering) /\ loop' # "claim"
  BY <1>15 DEF RecoverWorker, Recovering
<1> QED
  BY <1>1, <1>2, <1>3, <1>4, <1>5, <1>6, <1>7, <1>8, <1>9, <1>10, <1>11, <1>12,
     <1>13, <1>14, <1>15 DEF LoopStep

\* The slot of a new task is nobody's: it was free, or recovery takes it up.
LEMMA NewSlot ==
  ASSUME ExecInv, SlotInv, NEW r \in Runs, NewTask(r), NEW s \in Slots,
         \/ ClaimRun(r) /\ s \in free
         \/ RecoverWorker(r) /\ LeaseActive(r) /\ s = claim[r].slot
  PROVE  /\ \A q \in Runs : q # r => slotOf[q] # s
         /\ \A q \in Runs : q # r /\ ActiveClaim(q) => claim[q].slot # s
         /\ RecoverWorker(r) => ActiveClaim(r)
<1>1. CASE ClaimRun(r) /\ s \in free
  <2>1. loop = "claim" /\ recovered /\ ~RecoverWorker(r)
    BY <1>1 DEF ClaimRun, RecoverWorker, ExecInv, LoopInv
  <2>2. s < capacity /\ \A q \in Runs : slotOf[q] # s
    BY <1>1, <2>1 DEF SlotInv, FreeSlots
  <2>3. ASSUME NEW q \in Runs, ActiveClaim(q)
        PROVE  claim[q].slot # s
    <3>1. CASE \E t \in Tasks : Live(t) /\ task[t].run = q /\ task[t].slot = claim[q].slot
      BY <2>2, <3>1 DEF SlotInv, TaskSlots
    <3>2. CASE claim[q].slot >= capacity
      <4>1. s \in Int /\ capacity \in Int
        BY SupervisorAssumption DEF Slots, ExecInv, StoreInv, Types, SupervisorAssumption
      <4> QED
        BY <2>2, <3>2, <4>1
    <3> QED
      BY <2>1, <2>3, <3>1, <3>2 DEF SlotInv, ClaimSlots
  <2> QED
    BY <2>1, <2>2, <2>3
<1>2. CASE RecoverWorker(r) /\ LeaseActive(r) /\ s = claim[r].slot
  <2>1. Recovering /\ r \in todo
    BY <1>2 DEF RecoverWorker, NextRow, Recovering
  <2>2. ActiveClaim(r)
    BY <1>2, <2>1 DEF ExecInv, LoopInv, ActiveClaim
  <2> QED
    BY <1>2, <2>2 DEF SlotInv, ClaimSlots
<1> QED
  BY <1>1, <1>2

\* Every step keeps the slots of the runs distinct.
LEMMA DistinctStep ==
  ASSUME ExecInv, SlotInv, [Next]_vars, ~SlotGivenTwice
  PROVE  SlotsDistinct'
<1>1. CASE LoopStep
  BY <1>1, LoopEffect DEF ExecInv, SlotInv, SlotsDistinct
<1>2. CASE ReapTasks
  BY <1>2, ReapEffect DEF ExecInv, SlotInv, SlotsDistinct
<1>3. CASE Ends
  BY <1>3, EndsEffect, ExitEffect DEF ExecInv, SlotsDistinct
<1>4. ASSUME NEW r \in Runs, NewLease(r)
      PROVE  SlotsDistinct'
  BY <1>4, NewLeaseEffect DEF ExecInv, SlotInv, SlotsDistinct
<1>5. ASSUME NEW r \in Runs, NewTask(r)
      PROVE  SlotsDistinct'
  <2>1. PICK n \in Tasks, s \in Slots :
          /\ task[n].pc = "free"
          /\ task'[n] = [pc |-> "begin", run |-> r, gen |-> srv'[r].gen, slot |-> s]
          /\ \A v \in Tasks : v # n => task'[v] = task[v]
          /\ active'[r] = n /\ \A q \in Runs : q # r => active'[q] = active[q]
          /\ slotOf'[r] = s /\ \A q \in Runs : q # r => slotOf'[q] = slotOf[q]
          /\ \/ ClaimRun(r) /\ s \in free /\ free' = free \ {s}
             \/ RecoverWorker(r) /\ LeaseActive(r) /\ s = claim[r].slot
    BY <1>5, NewTaskEffect DEF ExecInv
  <2>2. \A q \in Runs : q # r => slotOf[q] # s
    BY <1>5, <2>1, NewSlot
  <2> QED
    BY <2>1, <2>2 DEF SlotInv, SlotsDistinct
<1>6. ASSUME NEW r \in Runs, ServerStep(r)
      PROVE  SlotsDistinct'
  BY <1>6, ServerEffect DEF ExecInv, SlotInv, SlotsDistinct
<1>7. ASSUME NEW t \in Tasks, TaskStep(t)
      PROVE  SlotsDistinct'
  <2>1. UNCHANGED slotOf
    BY <1>7, TaskEffect DEF ExecInv
  <2> QED
    BY <2>1 DEF SlotInv, SlotsDistinct
<1> QED
  BY <1>1, <1>2, <1>3, <1>4, <1>5, <1>6, <1>7, Kinds

\* Every step keeps the live tasks in the slots of their runs.
LEMMA TaskSlotsStep ==
  ASSUME ExecInv, SlotInv, [Next]_vars, ~SlotGivenTwice
  PROVE  TaskSlots'
<1>1. CASE LoopStep
  <2>1. /\ UNCHANGED <<slotOf, task>> /\ (Recovering' => Recovering)
        /\ \A q \in Runs : claim'[q].slot = claim[q].slot
    BY <1>1, LoopEffect, LoopPlaces DEF ExecInv
  <2> QED
    BY <2>1, Typing DEF ExecInv, SlotInv, TaskSlots, Live
<1>2. CASE ReapTasks
  <2>1. ASSUME NEW u \in Tasks, Live(u)'
        PROVE  slotOf'[task'[u].run] = task'[u].slot
    <3>1. Live(u) /\ task'[u] = task[u] /\ task[u].run \in Runs /\ active[task[u].run] = u
      BY <1>2, <2>1, ReapEffect, Typing DEF ExecInv, OneTaskPerRun
    <3>2. slotOf'[task[u].run] = slotOf[task[u].run]
      BY <1>2, <3>1, ReapEffect DEF ExecInv
    <3> QED
      BY <3>1, <3>2 DEF SlotInv, TaskSlots
  <2>2. Recovering' => \A u \in Tasks : ~Live(u)'
    BY <1>2, ReapEffect DEF ExecInv, LoopInv, Recovering
  <2> QED
    BY <2>1, <2>2 DEF TaskSlots
<1>3. CASE Ends
  BY <1>3, EndsEffect, ExitEffect DEF ExecInv, TaskSlots
<1>4. ASSUME NEW r \in Runs, NewLease(r)
      PROVE  TaskSlots'
  BY <1>4, NewLeaseEffect DEF ExecInv, SlotInv, TaskSlots, Live, Recovering
<1>5. ASSUME NEW r \in Runs, NewTask(r)
      PROVE  TaskSlots'
  <2>1. PICK n \in Tasks, s \in Slots :
          /\ task[n].pc = "free"
          /\ task'[n] = [pc |-> "begin", run |-> r, gen |-> srv'[r].gen, slot |-> s]
          /\ \A v \in Tasks : v # n => task'[v] = task[v]
          /\ active'[r] = n /\ \A q \in Runs : q # r => active'[q] = active[q]
          /\ slotOf'[r] = s /\ \A q \in Runs : q # r => slotOf'[q] = slotOf[q]
          /\ \/ ClaimRun(r) /\ s \in free /\ free' = free \ {s}
             \/ RecoverWorker(r) /\ LeaseActive(r) /\ s = claim[r].slot
    BY <1>5, NewTaskEffect DEF ExecInv
  <2>2. Recovering' => Recovering /\ s = claim[r].slot /\ claim' = claim
    BY <1>5, <2>1, NewTaskLease DEF ExecInv, Recovering, ClaimRun
  <2>3. ASSUME NEW u \in Tasks, Live(u)'
        PROVE  /\ slotOf'[task'[u].run] = task'[u].slot
               /\ Recovering' => claim'[task'[u].run].slot = task'[u].slot
    <3>1. CASE u = n
      BY <2>1, <2>2, <3>1
    <3>2. CASE u # n
      <4>1. Live(u) /\ task'[u] = task[u] /\ task[u].run \in Runs
        BY <2>1, <2>3, <3>2, Typing DEF Live, ExecInv
      <4>2. task[u].run # r
        BY <1>5, <4>1, NoLiveTask
      <4> QED
        BY <2>1, <2>2, <4>1, <4>2 DEF SlotInv, TaskSlots
    <3> QED
      BY <3>1, <3>2
  <2> QED
    BY <2>3 DEF TaskSlots
<1>6. ASSUME NEW r \in Runs, ServerStep(r)
      PROVE  TaskSlots'
  BY <1>6, ServerEffect DEF ExecInv, SlotInv, TaskSlots, Live, Recovering
<1>7. ASSUME NEW t \in Tasks, TaskStep(t)
      PROVE  TaskSlots'
  <2>1. ASSUME NEW u \in Tasks, Live(u)'
        PROVE  /\ slotOf'[task'[u].run] = task'[u].slot
               /\ Recovering' => claim'[task'[u].run].slot = task'[u].slot
    <3>1. /\ Live(u) /\ task'[u].run = task[u].run /\ task'[u].slot = task[u].slot
          /\ task[u].run \in Runs /\ UNCHANGED <<loop, slotOf>>
      BY <1>7, <2>1, TaskEffect, Typing DEF Live, ExecInv
    <3>2. claim'[task[u].run].slot \in {claim[task[u].run].slot, task[u].slot}
      <4>1. CASE task[u].run # task[t].run
        BY <1>7, <3>1, <4>1, TaskEffect DEF ExecInv
      <4>2. CASE task[u].run = task[t].run
        <5>1. Live(t)
          BY <1>7, TaskEffect DEF ExecInv
        <5>2. u = t
          BY <3>1, <4>2, <5>1 DEF ExecInv, OneTaskPerRun
        <5>3. \/ claim'[task[t].run] = [token |-> TRUE, gen |-> task[t].gen, slot |-> task[t].slot]
              \/ claim'[task[t].run].slot = claim[task[t].run].slot
          BY <1>7, TaskEffect DEF ExecInv
        <5> QED
          BY <5>2, <5>3
      <4> QED
        BY <4>1, <4>2
    <3> QED
      BY <3>1, <3>2 DEF SlotInv, TaskSlots, Recovering
  <2> QED
    BY <2>1 DEF TaskSlots
<1> QED
  BY <1>1, <1>2, <1>3, <1>4, <1>5, <1>6, <1>7, Kinds

\* Every step leaves the free slots to nobody.
LEMMA FreeSlotsStep ==
  ASSUME ExecInv, SlotInv, [Next]_vars, ~SlotGivenTwice
  PROVE  FreeSlots'
<1>1. CASE LoopStep
  <2>1. /\ slotOf' = slotOf
        /\ loop' = "claim" => ComputeSlots \/ (loop = "claim" /\ UNCHANGED <<free, capacity>>)
    BY <1>1, LoopEffect, LoopPlaces DEF ExecInv
  <2>2. CASE ComputeSlots
    BY <2>1, <2>2 DEF ComputeSlots, FreeSlots
  <2>3. CASE loop = "claim" /\ UNCHANGED <<free, capacity>>
    BY <2>1, <2>3 DEF SlotInv, FreeSlots
  <2> QED
    BY <2>1, <2>2, <2>3 DEF FreeSlots
<1>2. CASE ReapTasks
  BY <1>2, ReapEffect DEF ExecInv, FreeSlots
<1>3. CASE Ends
  BY <1>3, EndsEffect, ExitEffect DEF ExecInv, FreeSlots
<1>4. ASSUME NEW r \in Runs, NewLease(r)
      PROVE  FreeSlots'
  BY <1>4, NewLeaseEffect DEF ExecInv, FreeSlots
<1>5. ASSUME NEW r \in Runs, NewTask(r)
      PROVE  FreeSlots'
  <2>1. PICK n \in Tasks, s \in Slots :
          /\ task[n].pc = "free"
          /\ task'[n] = [pc |-> "begin", run |-> r, gen |-> srv'[r].gen, slot |-> s]
          /\ \A v \in Tasks : v # n => task'[v] = task[v]
          /\ active'[r] = n /\ \A q \in Runs : q # r => active'[q] = active[q]
          /\ slotOf'[r] = s /\ \A q \in Runs : q # r => slotOf'[q] = slotOf[q]
          /\ \/ ClaimRun(r) /\ s \in free /\ free' = free \ {s}
             \/ RecoverWorker(r) /\ LeaseActive(r) /\ s = claim[r].slot
    BY <1>5, NewTaskEffect DEF ExecInv
  <2>2. CASE ClaimRun(r) /\ s \in free /\ free' = free \ {s}
    BY <1>5, <2>1, <2>2, NewTaskLease DEF ClaimRun, ExecInv, SlotInv, FreeSlots
  <2>3. CASE RecoverWorker(r)
    BY <1>5, <2>3, NewTaskLease DEF ClaimRun, RecoverWorker, ExecInv, FreeSlots
  <2> QED
    BY <2>1, <2>2, <2>3
<1>6. ASSUME NEW r \in Runs, ServerStep(r)
      PROVE  FreeSlots'
  BY <1>6, ServerEffect DEF ExecInv, SlotInv, FreeSlots
<1>7. ASSUME NEW t \in Tasks, TaskStep(t)
      PROVE  FreeSlots'
  <2>1. UNCHANGED <<slotOf, loop, free, capacity>>
    BY <1>7, TaskEffect DEF ExecInv
  <2> QED
    BY <2>1 DEF SlotInv, FreeSlots
<1> QED
  BY <1>1, <1>2, <1>3, <1>4, <1>5, <1>6, <1>7, Kinds

\* Every step leaves the slot of a leased row to its run.
LEMMA ClaimSlotsStep ==
  ASSUME ExecInv, SlotInv, [Next]_vars, ~SlotGivenTwice
  PROVE  ClaimSlots'
<1>1. CASE LoopStep
  <2>1. \A q \in Runs : ActiveClaim(q)' => ActiveClaim(q) /\ claim'[q].slot = claim[q].slot
    BY <1>1, LoopEffect DEF ActiveClaim, LeaseActive, ExecInv
  <2>2. UNCHANGED <<slotOf, task>>
    BY <1>1, LoopEffect DEF ExecInv
  <2>3. ASSUME NEW q \in Runs, ActiveClaim(q)'
        PROVE  \/ \E u \in Tasks : Live(u)' /\ task'[u].run = q /\ task'[u].slot = claim'[q].slot
               \/ claim'[q].slot >= capacity'
               \/ ~recovered' /\ (Recovering' => q \in todo')
    <3>1. \/ \E u \in Tasks : Live(u) /\ task[u].run = q /\ task[u].slot = claim[q].slot
          \/ claim[q].slot >= capacity
          \/ ~recovered /\ (Recovering => q \in todo)
      BY <2>1, <2>3 DEF SlotInv, ClaimSlots
    <3>2. \/ \E u \in Tasks : Live(u) /\ task[u].run = q /\ task[u].slot = claim[q].slot
          \/ claim[q].slot >= capacity'
          \/ ~recovered' /\ (Recovering' => q \in todo')
      BY <1>1, <2>1, <2>3, <3>1, LoopRows
    <3> QED
      BY <2>1, <2>2, <2>3, <3>2 DEF Live
  <2> QED
    BY <2>1, <2>2, <2>3 DEF SlotInv, ClaimSlots
<1>2. CASE ReapTasks
  <2>1. \A q \in Runs : ActiveClaim(q)' => ActiveClaim(q) /\ claim'[q].slot = claim[q].slot
    BY <1>2, ReapEffect DEF ActiveClaim, LeaseActive, ExecInv
  <2>2. \A q \in Runs : slotOf'[q] \in {slotOf[q], NoSlot} /\ claim[q].slot # NoSlot
    BY <1>2, ReapEffect, Typing, SupervisorAssumption
    DEF ExecInv, Slots, NoSlot, SupervisorAssumption
  <2>3. ASSUME NEW q \in Runs, ActiveClaim(q)'
        PROVE  \/ \E u \in Tasks : Live(u)' /\ task'[u].run = q /\ task'[u].slot = claim'[q].slot
               \/ claim'[q].slot >= capacity'
               \/ ~recovered' /\ (Recovering' => q \in todo')
    <3>1. CASE ~recovered
      BY <1>2, <2>1, <2>3, <3>1, ReapEffect DEF ExecInv, ActiveClaim
    <3>2. CASE \E u \in Tasks : Live(u) /\ task[u].run = q /\ task[u].slot = claim[q].slot
      BY <1>2, <2>1, <2>3, <3>2, ReapEffect DEF ExecInv
    <3>3. CASE claim[q].slot >= capacity
      BY <1>2, <2>1, <2>3, <3>3, ReapEffect DEF ExecInv
    <3> QED
      BY <2>1, <2>3, <3>1, <3>2, <3>3 DEF SlotInv, ClaimSlots
  <2> QED
    BY <2>1, <2>2, <2>3 DEF SlotInv, ClaimSlots
<1>3. CASE Ends
  <2>1. \A q \in Runs : ActiveClaim(q)' => ActiveClaim(q) /\ claim'[q].slot = claim[q].slot
    BY <1>3, EndsEffect DEF ActiveClaim, LeaseActive, ExecInv
  <2>2. \A q \in Runs : slotOf'[q] = NoSlot /\ claim[q].slot # NoSlot
    BY <1>3, EndsEffect, ExitEffect, Typing, SupervisorAssumption
    DEF ExecInv, Slots, NoSlot, SupervisorAssumption
  <2>3. ~recovered' /\ ~Recovering'
    BY <1>3, EndsEffect, ExitEffect DEF ExecInv, Recovering
  <2> QED
    BY <2>1, <2>2, <2>3 DEF SlotInv, ClaimSlots
<1>4. ASSUME NEW r \in Runs, NewLease(r)
      PROVE  ClaimSlots'
  <2>1. ~ActiveClaim(r)'
    <3>1. /\ claim'[r].gen = claim[r].gen /\ srv'[r].gen = srv[r].gen + 1
          /\ claim[r].gen <= srv[r].gen /\ claim[r].gen \in Int /\ srv[r].gen \in Int
      BY <1>4, NewLeaseEffect, Typing DEF ExecInv, LeaseInv
    <3> QED
      BY <3>1 DEF ActiveClaim, LeaseActive
  <2>2. \A q \in Runs : ActiveClaim(q)' => ActiveClaim(q)
    BY <1>4, <2>1, NewLeaseEffect DEF ActiveClaim, LeaseActive, ExecInv
  <2>3. recovered /\ UNCHANGED <<claim, capacity, slotOf, task>>
    BY <1>4, NewLeaseEffect DEF ExecInv, LoopInv
  <2>4. \A u \in Tasks : Live(u) => Live(u)'
    BY <2>3 DEF Live
  <2> QED
    BY <2>2, <2>3, <2>4 DEF SlotInv, ClaimSlots
<1>5. ASSUME NEW r \in Runs, NewTask(r)
      PROVE  ClaimSlots'
  <2>1. PICK n \in Tasks, s \in Slots :
          /\ task[n].pc = "free"
          /\ task'[n] = [pc |-> "begin", run |-> r, gen |-> srv'[r].gen, slot |-> s]
          /\ \A v \in Tasks : v # n => task'[v] = task[v]
          /\ active'[r] = n /\ \A q \in Runs : q # r => active'[q] = active[q]
          /\ slotOf'[r] = s /\ \A q \in Runs : q # r => slotOf'[q] = slotOf[q]
          /\ \/ ClaimRun(r) /\ s \in free /\ free' = free \ {s}
             \/ RecoverWorker(r) /\ LeaseActive(r) /\ s = claim[r].slot
    BY <1>5, NewTaskEffect DEF ExecInv
  <2>2. /\ \A q \in Runs : q # r => slotOf[q] # s
        /\ \A q \in Runs : q # r /\ ActiveClaim(q) => claim[q].slot # s
        /\ RecoverWorker(r) => ActiveClaim(r)
    BY <1>5, <2>1, NewSlot
  <2>3. UNCHANGED <<claim, capacity, recovered>>
    BY <1>5, NewTaskLease DEF ExecInv
  <2>4. ~RecoverWorker(r) => ~ActiveClaim(r)'
    <3>1. /\ claim'[r].gen = claim[r].gen /\ claim[r].gen <= srv[r].gen
          /\ claim[r].gen \in Int /\ srv[r].gen \in Int
      BY <2>3, Typing DEF ExecInv, LeaseInv
    <3>2. ~RecoverWorker(r) => srv'[r].gen = srv[r].gen + 1
      BY <1>5, NewTaskLease DEF ExecInv
    <3> QED
      BY <3>1, <3>2 DEF ActiveClaim, LeaseActive
  <2>5. \A q \in Runs : q # r /\ ActiveClaim(q)' => ActiveClaim(q)
    BY <1>5, <2>3, NewTaskLease DEF ActiveClaim, LeaseActive, ExecInv
  <2>6. \A q \in Runs : ActiveClaim(q)' => ActiveClaim(q)
    BY <2>2, <2>4, <2>5
  <2>7. ASSUME NEW q \in Runs, ActiveClaim(q)'
        PROVE  \/ \E u \in Tasks : Live(u)' /\ task'[u].run = q /\ task'[u].slot = claim'[q].slot
               \/ claim'[q].slot >= capacity'
               \/ ~recovered' /\ (Recovering' => q \in todo')
    <3>1. CASE q = r
      <4>1. RecoverWorker(r) /\ ~ClaimRun(r)
        BY <2>4, <2>7, <3>1 DEF RecoverWorker, ClaimRun
      <4>2. task'[n].run = r /\ task'[n].slot = claim'[r].slot /\ Live(n)'
        BY <2>1, <2>3, <4>1 DEF Live
      <4> QED
        BY <3>1, <4>2
    <3>2. CASE q # r /\ \E u \in Tasks : Live(u) /\ task[u].run = q /\ task[u].slot = claim[q].slot
      <4>1. PICK u \in Tasks : Live(u) /\ task[u].run = q /\ task[u].slot = claim[q].slot
        BY <3>2
      <4>2. task'[u] = task[u] /\ Live(u)'
        BY <2>1, <4>1 DEF Live
      <4> QED
        BY <2>3, <4>1, <4>2
    <3>3. CASE q # r /\ claim[q].slot >= capacity
      BY <2>3, <3>3
    <3>4. CASE q # r /\ ~recovered /\ (Recovering => q \in todo)
      BY <1>5, <2>3, <3>4, NewTaskLease DEF ExecInv, Recovering
    <3> QED
      BY <2>6, <2>7, <3>1, <3>2, <3>3, <3>4 DEF SlotInv, ClaimSlots
  <2> QED
    BY <2>1, <2>2, <2>3, <2>6, <2>7 DEF SlotInv, ClaimSlots
<1>6. ASSUME NEW r \in Runs, ServerStep(r)
      PROVE  ClaimSlots'
  <2>1. \A q \in Runs : ActiveClaim(q)' => ActiveClaim(q) /\ claim'[q].slot = claim[q].slot
    BY <1>6, ServerEffect DEF ActiveClaim, LeaseActive, ExecInv
  <2>2. /\ UNCHANGED <<claim, slotOf, task, capacity, recovered, loop, todo>>
        /\ \A u \in Tasks : Live(u) => Live(u)'
    BY <1>6, ServerEffect DEF ExecInv, Live
  <2> QED
    BY <2>1, <2>2 DEF SlotInv, ClaimSlots, Recovering
<1>7. ASSUME NEW t \in Tasks, TaskStep(t)
      PROVE  ClaimSlots'
  <2> PICK p \in Runs : p = task[t].run
    BY <1>7, TaskEffect DEF ExecInv
  <2>1. /\ p \in Runs /\ Live(t)
        /\ UNCHANGED <<capacity, loop, todo, recovered, slotOf>>
        /\ task'[t].run = p /\ task'[t].slot = task[t].slot
        /\ \A u \in Tasks : u # t => task'[u] = task[u]
    BY <1>7, TaskEffect DEF ExecInv
  <2>2. \A q \in Runs : q # p => claim'[q] = claim[q] /\ (ActiveClaim(q)' => ActiveClaim(q))
    BY <1>7, TaskEffect DEF ExecInv, ActiveClaim, LeaseActive
  <2>3. slotOf[p] = task[t].slot /\ slotOf[p] # NoSlot
    BY <2>1, Typing, SupervisorAssumption
    DEF SlotInv, TaskSlots, ExecInv, Slots, NoSlot, SupervisorAssumption
  <2>4. ActiveClaim(p)' => \/ claim'[p].slot = slotOf[p] /\ Live(t)'
                           \/ /\ ActiveClaim(p) /\ claim'[p].slot = claim[p].slot
                              /\ Live(t)'
    <3>1. \/ srv'[p] = srv[p]
          \/ srv'[p].state # "leased"
      BY <1>7, TaskEffect DEF ExecInv
    <3>2. \/ claim'[p] = [token |-> TRUE, gen |-> task[t].gen, slot |-> task[t].slot] /\ Live(t)'
          \/ /\ claim'[p].gen = claim[p].gen /\ claim'[p].slot = claim[p].slot
             /\ claim'[p].token => claim[p].token
      BY <1>7, TaskEffect DEF ExecInv
    <3>3. ActiveClaim(p)' /\ ~Live(t)' => Abandon(t)
      BY <1>7, <2>1, TaskEffect DEF ExecInv, ActiveClaim
    <3>4. ActiveClaim(p)' => srv[p].state = "leased" /\ srv'[p] = srv[p]
      BY <3>1 DEF ActiveClaim, LeaseActive
    <3>5. srv[p].state = "leased" => Honoured(t)
      BY <2>1 DEF Honoured, ExecInv, LeaseInv
    <3>6. ActiveClaim(p)' => Live(t)'
      BY <3>3, <3>4, <3>5 DEF SlotGivenTwice, LeaseAbandoned
    <3> QED
      BY <2>3, <3>2, <3>4, <3>6 DEF ActiveClaim, LeaseActive
  <2>5. ASSUME NEW q \in Runs, ActiveClaim(q)'
        PROVE  \/ \E u \in Tasks : Live(u)' /\ task'[u].run = q /\ task'[u].slot = claim'[q].slot
               \/ claim'[q].slot >= capacity'
               \/ ~recovered' /\ (Recovering' => q \in todo')
    <3>1. CASE q = p /\ claim'[p].slot = slotOf[p] /\ Live(t)'
      BY <2>1, <2>3, <3>1
    <3>2. CASE q = p /\ ActiveClaim(p) /\ claim'[p].slot = claim[p].slot /\ Live(t)'
      <4>1. CASE \E u \in Tasks : Live(u) /\ task[u].run = p /\ task[u].slot = claim[p].slot
        BY <2>1, <3>2, <4>1 DEF ExecInv, OneTaskPerRun
      <4>2. CASE claim[p].slot >= capacity \/ (~recovered /\ (Recovering => p \in todo))
        BY <2>1, <3>2, <4>2 DEF Recovering
      <4> QED
        BY <2>1, <3>2, <4>1, <4>2 DEF SlotInv, ClaimSlots
    <3>3. CASE q # p
      <4>1. ActiveClaim(q) /\ claim'[q] = claim[q]
        BY <2>2, <2>5, <3>3
      <4>2. CASE \E u \in Tasks : Live(u) /\ task[u].run = q /\ task[u].slot = claim[q].slot
        BY <2>1, <3>3, <4>1, <4>2 DEF Live
      <4>3. CASE claim[q].slot >= capacity \/ (~recovered /\ (Recovering => q \in todo))
        BY <2>1, <4>1, <4>3 DEF Recovering
      <4> QED
        BY <4>1, <4>2, <4>3 DEF SlotInv, ClaimSlots
    <3> QED
      BY <2>4, <2>5, <3>1, <3>2, <3>3
  <2>6. ASSUME NEW x \in Runs, NEW q \in Runs, x # q, ActiveClaim(q)'
        PROVE  slotOf'[x] # claim'[q].slot
    <3>1. CASE q # p
      BY <2>1, <2>2, <2>6, <3>1 DEF SlotInv, ClaimSlots
    <3>2. CASE q = p
      <4>1. slotOf[x] # slotOf[p]
        BY <2>1, <2>3, <2>6, <3>2 DEF SlotInv, SlotsDistinct
      <4>2. ActiveClaim(p) => slotOf[x] # claim[p].slot
        BY <2>1, <2>6, <3>2 DEF SlotInv, ClaimSlots
      <4> QED
        BY <2>1, <2>4, <2>6, <3>2, <4>1, <4>2
    <3> QED
      BY <3>1, <3>2
  <2>7. ASSUME NEW q \in Runs, q # p, ActiveClaim(q)', ActiveClaim(p)'
        PROVE  claim'[p].slot # claim'[q].slot
    <3>1. ActiveClaim(q) /\ claim'[q] = claim[q] /\ slotOf[p] # claim[q].slot
      BY <2>1, <2>2, <2>7 DEF SlotInv, ClaimSlots
    <3>2. ActiveClaim(p) => claim[p].slot # claim[q].slot
      BY <2>1, <2>7, <3>1 DEF SlotInv, ClaimSlots
    <3> QED
      BY <2>4, <2>7, <3>1, <3>2
  <2>8. ASSUME NEW x \in Runs, NEW q \in Runs, x # q, ActiveClaim(x)', ActiveClaim(q)'
        PROVE  claim'[x].slot # claim'[q].slot
    <3>1. CASE x # p /\ q # p
      BY <2>2, <2>8, <3>1 DEF SlotInv, ClaimSlots
    <3> QED
      BY <2>7, <2>8, <3>1
  <2> QED
    BY <2>5, <2>6, <2>8 DEF ClaimSlots
<1> QED
  BY <1>1, <1>2, <1>3, <1>4, <1>5, <1>6, <1>7, Kinds

-----------------------------------------------------------------------------
(* The invariants *)

LEMMA InitInvs == Init => ExecInv /\ SlotInv
<1> SUFFICES ASSUME Init PROVE ExecInv /\ SlotInv
  OBVIOUS
<1>1. /\ claim \in [Runs -> ClaimRec] /\ \A r \in Runs : claim[r] = NoClaim
      /\ 0 \in Slots /\ 0 \in 0..MaxGen /\ MaxCapacity \in 1..MaxCapacity
  BY SupervisorAssumption DEF Init, NoClaim, ClaimRec, Slots, SupervisorAssumption
<1>2. /\ srv \in [Runs -> SrvRec]
      /\ \A r \in Runs : srv[r].state \in {"queued", "waiting"} /\ srv[r].gen = 0
  BY <1>1 DEF Init, SrvRec, SrvState
<1>3. /\ task \in [Tasks -> TaskRec \cup {FreeTask}] /\ \A t \in Tasks : ~Live(t)
      /\ slotOf \in [Runs -> Slots \cup {NoSlot}] /\ \A r \in Runs : slotOf[r] = NoSlot
      /\ active \in [Runs -> Tasks \cup {NoTask}]
  BY DEF Init, FreeTask, Live
<1>4. /\ loop = "down" /\ todo = {} /\ free = {} /\ recovered = FALSE
      /\ capacity = MaxCapacity /\ faults = 0 /\ deaths = 0 /\ changes = 0
      /\ pend \in [Runs -> BOOLEAN] /\ acked \in [Runs -> BOOLEAN]
      /\ port \in [Runs -> {"none", "reserved", "released"}]
  BY DEF Init
<1>5. \A r \in Runs : ~ActiveClaim(r) /\ claim[r].gen = 0
  BY <1>1 DEF ActiveClaim, NoClaim
<1>6. StoreInv
  BY <1>1, <1>2, <1>3, <1>4 DEF StoreInv, Types
<1>7. LeaseInv /\ LoopInv /\ PortInv /\ OneTaskPerRun
  BY <1>2, <1>3, <1>4, <1>5 DEF LeaseInv, LoopInv, PortInv, OneTaskPerRun, Recovering
<1>8. SlotInv
  BY <1>3, <1>4, <1>5 DEF SlotInv, SlotsDistinct, TaskSlots, ClaimSlots, FreeSlots
<1> QED
  BY <1>6, <1>7, <1>8 DEF ExecInv

\* A step that changes nothing keeps everything.
LEMMA Stutter ==
  ASSUME UNCHANGED vars
  PROVE  /\ ExecInv => ExecInv'
         /\ SlotInv => SlotInv'
<1>1. /\ \A t \in Tasks : Live(t)' <=> Live(t)
      /\ \A r \in Runs : ActiveClaim(r)' <=> ActiveClaim(r)
      /\ Recovering' <=> Recovering
  BY DEF vars, Live, ActiveClaim, LeaseActive, Recovering
<1>2. StoreInv => StoreInv'
  BY DEF vars, StoreInv, Types
<1>3. ExecInv => ExecInv'
  BY <1>1, <1>2 DEF vars, ExecInv, LeaseInv, LoopInv, PortInv, OneTaskPerRun
<1>4. SlotInv => SlotInv'
  BY <1>1 DEF vars, SlotInv, SlotsDistinct, TaskSlots, ClaimSlots, FreeSlots
<1> QED
  BY <1>3, <1>4

LEMMA StoreInductive == Spec => []StoreInv
<1>1. Init => StoreInv
  BY InitInvs DEF ExecInv
<1>2. StoreInv /\ [Next]_vars => StoreInv'
  BY StoreStep
<1> QED
  BY <1>1, <1>2, PTL DEF Spec

LEMMA ExecStep ==
  ASSUME ExecInv, [Next]_vars, [~ExecutedTwice]_vars
  PROVE  ExecInv'
<1>1. CASE UNCHANGED vars
  BY <1>1, Stutter
<1>2. CASE ~ExecutedTwice
  BY <1>2, StoreStep, LeaseInvStep, LoopInvStep, PortInvStep, OneTaskStep DEF ExecInv
<1> QED
  BY <1>1, <1>2

LEMMA SlotStep ==
  ASSUME ExecInv, SlotInv, [Next]_vars, [~SlotGivenTwice]_vars
  PROVE  ExecInv' /\ SlotInv'
<1>1. CASE UNCHANGED vars
  BY <1>1, Stutter
<1>2. CASE ~SlotGivenTwice
  <2>1. ExecInv'
    BY <1>2, ExecStep DEF SlotGivenTwice
  <2>2. SlotInv'
    BY <1>2, DistinctStep, TaskSlotsStep, ClaimSlotsStep, FreeSlotsStep DEF SlotInv
  <2> QED
    BY <2>1, <2>2
<1> QED
  BY <1>1, <1>2

-----------------------------------------------------------------------------
(* The theorems *)

\* The polling loop, the executions and the store always have the types that
\* _poll_once, _execute and state.py give them, whatever fails.
THEOREM SupervisorTypeCorrect == Spec => []TypeOK
<1>1. StoreInv => TypeOK
  BY DEF StoreInv, Types, TypeOK, SrvRec, ClaimRec, TaskRec
<1> QED
  BY <1>1, StoreInductive, PTL

\* No step drops a saved result that the server has neither taken nor ended.
LEMMA ResultKeptStep ==
  ASSUME StoreInv, [Next]_vars
  PROVE  \A q \in Runs : pend[q] /\ ~pend'[q] => acked'[q] \/ srv'[q].state \in Terminal
<1>1. CASE StartDaemon
  BY <1>1 DEF StartDaemon, storeVars, memVars, bounds
<1>2. CASE ReloadCapacity
  BY <1>2 DEF ReloadCapacity, storeVars, loopVars, memVars
<1>3. CASE ReapTasks
  BY <1>3 DEF ReapTasks, storeVars, bounds
<1>4. CASE RecoveryDone
  BY <1>4 DEF RecoveryDone, storeVars, memVars, bounds
<1>5. CASE ComputeSlots
  BY <1>5 DEF ComputeSlots, storeVars, memVars, bounds
<1>6. CASE ClaimsDone
  BY <1>6 DEF ClaimsDone, storeVars, memVars, bounds
<1>7. CASE PendingDone
  BY <1>7 DEF PendingDone, storeVars, memVars, bounds
<1>8. CASE IdleDone
  BY <1>8 DEF IdleDone, storeVars, memVars, bounds
<1>9. CASE OperationFails
  BY <1>9 DEF OperationFails, storeVars, memVars, Fault
<1>10. CASE DaemonDies
  BY <1>10 DEF DaemonDies, storeVars, Death
<1>11. ASSUME NEW r \in Runs, InspectLease(r)
       PROVE  \A q \in Runs : pend[q] /\ ~pend'[q] => acked'[q] \/ srv'[q].state \in Terminal
  BY <1>11 DEF InspectLease, memVars, bounds
<1>12. ASSUME NEW r \in Runs, RecoverWorker(r)
       PROVE  \A q \in Runs : pend[q] /\ ~pend'[q] => acked'[q] \/ srv'[q].state \in Terminal
  BY <1>12 DEF RecoverWorker, memVars, bounds
<1>13. ASSUME NEW r \in Runs, ReconcileTerminal(r)
       PROVE  \A q \in Runs : pend[q] /\ ~pend'[q] => acked'[q] \/ srv'[q].state \in Terminal
  BY <1>13 DEF ReconcileTerminal, memVars, bounds
<1>14. ASSUME NEW r \in Runs, ClaimRun(r)
       PROVE  \A q \in Runs : pend[q] /\ ~pend'[q] => acked'[q] \/ srv'[q].state \in Terminal
  BY <1>14 DEF ClaimRun, memVars, bounds
<1>15. ASSUME NEW r \in Runs, ReconcilePending(r)
       PROVE  \A q \in Runs : pend[q] /\ ~pend'[q] => acked'[q] \/ srv'[q].state \in Terminal
  <2>1. \A q \in Runs : q # r => pend'[q] = pend[q]
    BY <1>15 DEF ReconcilePending, StoreInv, Types
  <2>2. pend'[r] = pend[r] \/ (srv' = srv /\ acked' = acked /\ srv[r].state \in Acknowledged) \/ ~pend[r]
    BY <1>15 DEF ReconcilePending, StoreInv, Types
  <2>3. srv[r].state \in Acknowledged => acked[r] \/ srv[r].state \in Terminal
    BY DEF Acknowledged, Terminal, StoreInv
  <2> QED
    BY <2>1, <2>2, <2>3
<1>16. ASSUME NEW r \in Runs, ReconcileIdle(r)
       PROVE  \A q \in Runs : pend[q] /\ ~pend'[q] => acked'[q] \/ srv'[q].state \in Terminal
  <2>1. \A q \in Runs : q # r => pend'[q] = pend[q]
    BY <1>16 DEF ReconcileIdle, StoreInv, Types
  <2>2. pend'[r] = pend[r] \/ (srv' = srv /\ acked' = acked /\ srv[r].state \in Acknowledged) \/ ~pend[r]
    BY <1>16 DEF ReconcileIdle, StoreInv, Types
  <2>3. srv[r].state \in Acknowledged => acked[r] \/ srv[r].state \in Terminal
    BY DEF Acknowledged, Terminal, StoreInv
  <2> QED
    BY <2>1, <2>2, <2>3
<1>17. ASSUME NEW r \in Runs, ClaimLost(r)
       PROVE  \A q \in Runs : pend[q] /\ ~pend'[q] => acked'[q] \/ srv'[q].state \in Terminal
  BY <1>17 DEF ClaimLost, storeVars, memVars, Fault
<1>18. ASSUME NEW r \in Runs, ReconcileSkips(r)
       PROVE  \A q \in Runs : pend[q] /\ ~pend'[q] => acked'[q] \/ srv'[q].state \in Terminal
  BY <1>18 DEF ReconcileSkips, storeVars, memVars, Fault
<1>19. ASSUME NEW r \in Runs, LeaseExpires(r)
       PROVE  \A q \in Runs : pend[q] /\ ~pend'[q] => acked'[q] \/ srv'[q].state \in Terminal
  BY <1>19 DEF LeaseExpires, storeVars, loopVars, memVars, bounds
<1>20. ASSUME NEW r \in Runs, UserAnswers(r)
       PROVE  \A q \in Runs : pend[q] /\ ~pend'[q] => acked'[q] \/ srv'[q].state \in Terminal
  BY <1>20 DEF UserAnswers, storeVars, loopVars, memVars, bounds
<1>21. ASSUME NEW r \in Runs, Cancel(r)
       PROVE  \A q \in Runs : pend[q] /\ ~pend'[q] => acked'[q] \/ srv'[q].state \in Terminal
  BY <1>21 DEF Cancel, storeVars, loopVars, memVars, bounds
<1>22. ASSUME NEW r \in Runs, Conclude(r)
       PROVE  \A q \in Runs : pend[q] /\ ~pend'[q] => acked'[q] \/ srv'[q].state \in Terminal
  BY <1>22 DEF Conclude, storeVars, loopVars, memVars, bounds
<1>23. ASSUME NEW t \in Tasks, SaveClaim(t)
       PROVE  \A q \in Runs : pend[q] /\ ~pend'[q] => acked'[q] \/ srv'[q].state \in Terminal
  BY <1>23 DEF SaveClaim, loopVars, memVars, bounds
<1>24. ASSUME NEW t \in Tasks, Abandon(t)
       PROVE  \A q \in Runs : pend[q] /\ ~pend'[q] => acked'[q] \/ srv'[q].state \in Terminal
  BY <1>24 DEF Abandon, storeVars, loopVars, memVars, Fault
<1>25. ASSUME NEW t \in Tasks, PrepareRun(t)
       PROVE  \A q \in Runs : pend[q] /\ ~pend'[q] => acked'[q] \/ srv'[q].state \in Terminal
  BY <1>25 DEF PrepareRun, storeVars, loopVars, memVars, bounds
<1>26. ASSUME NEW t \in Tasks, WaitForUser(t)
       PROVE  \A q \in Runs : pend[q] /\ ~pend'[q] => acked'[q] \/ srv'[q].state \in Terminal
  BY <1>26 DEF WaitForUser, loopVars, memVars, bounds
<1>27. ASSUME NEW t \in Tasks, FailRun(t)
       PROVE  \A q \in Runs : pend[q] /\ ~pend'[q] => acked'[q] \/ srv'[q].state \in Terminal
  BY <1>27 DEF FailRun, loopVars, memVars, bounds
<1>28. ASSUME NEW t \in Tasks, SaveResult(t)
       PROVE  \A q \in Runs : pend[q] /\ ~pend'[q] => acked'[q] \/ srv'[q].state \in Terminal
  BY <1>28, Typing DEF SaveResult, StoreInv, Types
<1>29. ASSUME NEW t \in Tasks, CompleteRun(t)
       PROVE  \A q \in Runs : pend[q] /\ ~pend'[q] => acked'[q] \/ srv'[q].state \in Terminal
  <2>1. task[t].run \in Runs
    BY <1>29, Typing DEF CompleteRun
  <2>2. \A q \in Runs : q # task[t].run => pend'[q] = pend[q]
    BY <1>29, <2>1 DEF CompleteRun, StoreInv, Types
  <2>3. acked'[task[t].run]
    BY <1>29, <2>1 DEF CompleteRun, TakesResult, StoreInv, Types
  <2> QED
    BY <2>1, <2>2, <2>3
<1>30. ASSUME NEW t \in Tasks, OutcomeLost(t)
       PROVE  \A q \in Runs : pend[q] /\ ~pend'[q] => acked'[q] \/ srv'[q].state \in Terminal
  BY <1>30 DEF OutcomeLost, storeVars, loopVars, memVars, Fault
<1>31. ASSUME NEW t \in Tasks, DiesTelling(t)
       PROVE  \A q \in Runs : pend[q] /\ ~pend'[q] => acked'[q] \/ srv'[q].state \in Terminal
  <2>1. task[t].run \in Runs
    BY <1>31, Typing DEF DiesTelling, Honoured
  <2>2. \A q \in Runs : q # task[t].run => pend'[q] = pend[q]
    BY <1>31, <2>1 DEF DiesTelling, StoreInv, Types
  <2>3. acked'[task[t].run] \/ pend' = pend
    BY <1>31, <2>1 DEF DiesTelling, TakesResult, StoreInv, Types
  <2> QED
    BY <2>1, <2>2, <2>3
<1>32. CASE UNCHANGED vars
  BY <1>32 DEF vars
<1> QED
  BY <1>1, <1>2, <1>3, <1>4, <1>5, <1>6, <1>7, <1>8, <1>9, <1>10, <1>11, <1>12,
     <1>13, <1>14, <1>15, <1>16, <1>17, <1>18, <1>19, <1>20, <1>21, <1>22, <1>23,
     <1>24, <1>25, <1>26, <1>27, <1>28, <1>29, <1>30, <1>31, <1>32 DEF Next, Loop,
     Execute

\* Work that was done is not lost: the rows of pending_results are only deleted
\* once the server has the result or has ended the run, at every interleaving of
\* the executions with the reconciliations, and through every death.
THEOREM ResultsKept == Spec => SavedResultKept
<1>1. StoreInv /\ [Next]_vars =>
        [\A r \in Runs : pend[r] /\ ~pend'[r] => acked'[r] \/ srv'[r].state \in Terminal]_vars
  BY ResultKeptStep
<1> QED
  BY <1>1, StoreInductive, PTL DEF Spec, SavedResultKept

\* active_tasks has every execution: as long as no lease ends under a live task,
\* recovery is not started over half way, and no run waits without its task
\* being told, a run is executed once at a time.
THEOREM ExecutedOnce == Spec /\ [][~ExecutedTwice]_vars => []OneTaskPerRun
<1>1. Init => ExecInv
  BY InitInvs
<1>2. ExecInv /\ [Next]_vars /\ [~ExecutedTwice]_vars => ExecInv'
  BY ExecStep
<1>3. ExecInv => OneTaskPerRun
  BY DEF ExecInv
<1> QED
  BY <1>1, <1>2, <1>3, PTL DEF Spec

\* slot_by_run gives each run a slot of its own: as long as, besides, no task
\* leaves an honoured lease behind and the capacity is not raised over a row that
\* recovery passed over.
THEOREM OneRunPerSlot == Spec /\ [][~SlotGivenTwice]_vars => []SlotsDistinct
<1>1. Init => ExecInv /\ SlotInv
  BY InitInvs
<1>2. ExecInv /\ SlotInv /\ [Next]_vars /\ [~SlotGivenTwice]_vars => ExecInv' /\ SlotInv'
  BY SlotStep
<1>3. SlotInv => SlotsDistinct
  BY DEF SlotInv
<1> QED
  BY <1>1, <1>2, <1>3, PTL DEF Spec

-----------------------------------------------------------------------------
(* Reliable calls *)

\* A call that fails or is lost, where none may.
LEMMA NoFault ==
  ASSUME StoreInv, MaxFaults = 0, Fault
  PROVE  FALSE
  BY DEF Fault, StoreInv, Types

LEMMA ReliableExecution ==
  ASSUME StoreInv, MaxFaults = 0, ~LiveLeaseMayExpire
  PROVE  ~ExecutedTwice
<1>1. ~LeaseLapses
  BY DEF LeaseLapses, LeaseExpires
<1>2. ~RecoveryRestarts /\ ~WaitingUntold
  BY NoFault DEF RecoveryRestarts, WaitingUntold, OperationFails, OutcomeLost
<1> QED
  BY <1>1, <1>2 DEF ExecutedTwice

\* The capacity is changed by nothing else.
LEMMA CapacityKept ==
  ASSUME [Next]_vars, ~ReloadCapacity
  PROVE  UNCHANGED <<capacity, changes>>
<1>1. CASE StartDaemon
  BY <1>1 DEF StartDaemon, storeVars, memVars, bounds
<1>2. CASE ReapTasks
  BY <1>2 DEF ReapTasks, storeVars, bounds
<1>3. CASE RecoveryDone
  BY <1>3 DEF RecoveryDone, storeVars, memVars, bounds
<1>4. CASE ComputeSlots
  BY <1>4 DEF ComputeSlots, storeVars, memVars, bounds
<1>5. CASE ClaimsDone
  BY <1>5 DEF ClaimsDone, storeVars, memVars, bounds
<1>6. CASE PendingDone
  BY <1>6 DEF PendingDone, storeVars, memVars, bounds
<1>7. CASE IdleDone
  BY <1>7 DEF IdleDone, storeVars, memVars, bounds
<1>8. CASE OperationFails
  BY <1>8 DEF OperationFails, storeVars, memVars, Fault
<1>9. CASE DaemonDies
  BY <1>9 DEF DaemonDies, storeVars, Death
<1>10. ASSUME NEW r \in Runs, InspectLease(r)
       PROVE  UNCHANGED <<capacity, changes>>
  BY <1>10 DEF InspectLease, memVars, bounds
<1>11. ASSUME NEW r \in Runs, RecoverWorker(r)
       PROVE  UNCHANGED <<capacity, changes>>
  BY <1>11 DEF RecoverWorker, memVars, bounds
<1>12. ASSUME NEW r \in Runs, ReconcileTerminal(r)
       PROVE  UNCHANGED <<capacity, changes>>
  BY <1>12 DEF ReconcileTerminal, memVars, bounds
<1>13. ASSUME NEW r \in Runs, ClaimRun(r)
       PROVE  UNCHANGED <<capacity, changes>>
  BY <1>13 DEF ClaimRun, memVars, bounds
<1>14. ASSUME NEW r \in Runs, ReconcilePending(r)
       PROVE  UNCHANGED <<capacity, changes>>
  BY <1>14 DEF ReconcilePending, memVars, bounds
<1>15. ASSUME NEW r \in Runs, ReconcileIdle(r)
       PROVE  UNCHANGED <<capacity, changes>>
  BY <1>15 DEF ReconcileIdle, memVars, bounds
<1>16. ASSUME NEW r \in Runs, ClaimLost(r)
       PROVE  UNCHANGED <<capacity, changes>>
  BY <1>16 DEF ClaimLost, storeVars, memVars, Fault
<1>17. ASSUME NEW r \in Runs, ReconcileSkips(r)
       PROVE  UNCHANGED <<capacity, changes>>
  BY <1>17 DEF ReconcileSkips, storeVars, memVars, Fault
<1>18. ASSUME NEW r \in Runs, LeaseExpires(r)
       PROVE  UNCHANGED <<capacity, changes>>
  BY <1>18 DEF LeaseExpires, storeVars, loopVars, memVars, bounds
<1>19. ASSUME NEW r \in Runs, UserAnswers(r)
       PROVE  UNCHANGED <<capacity, changes>>
  BY <1>19 DEF UserAnswers, storeVars, loopVars, memVars, bounds
<1>20. ASSUME NEW r \in Runs, Cancel(r)
       PROVE  UNCHANGED <<capacity, changes>>
  BY <1>20 DEF Cancel, storeVars, loopVars, memVars, bounds
<1>21. ASSUME NEW r \in Runs, Conclude(r)
       PROVE  UNCHANGED <<capacity, changes>>
  BY <1>21 DEF Conclude, storeVars, loopVars, memVars, bounds
<1>22. ASSUME NEW t \in Tasks, SaveClaim(t)
       PROVE  UNCHANGED <<capacity, changes>>
  BY <1>22 DEF SaveClaim, loopVars, memVars, bounds
<1>23. ASSUME NEW t \in Tasks, Abandon(t)
       PROVE  UNCHANGED <<capacity, changes>>
  BY <1>23 DEF Abandon, storeVars, loopVars, memVars, Fault
<1>24. ASSUME NEW t \in Tasks, PrepareRun(t)
       PROVE  UNCHANGED <<capacity, changes>>
  BY <1>24 DEF PrepareRun, storeVars, loopVars, memVars, bounds
<1>25. ASSUME NEW t \in Tasks, WaitForUser(t)
       PROVE  UNCHANGED <<capacity, changes>>
  BY <1>25 DEF WaitForUser, loopVars, memVars, bounds
<1>26. ASSUME NEW t \in Tasks, FailRun(t)
       PROVE  UNCHANGED <<capacity, changes>>
  BY <1>26 DEF FailRun, loopVars, memVars, bounds
<1>27. ASSUME NEW t \in Tasks, SaveResult(t)
       PROVE  UNCHANGED <<capacity, changes>>
  BY <1>27 DEF SaveResult, loopVars, memVars, bounds
<1>28. ASSUME NEW t \in Tasks, CompleteRun(t)
       PROVE  UNCHANGED <<capacity, changes>>
  BY <1>28 DEF CompleteRun, loopVars, memVars, bounds
<1>29. ASSUME NEW t \in Tasks, OutcomeLost(t)
       PROVE  UNCHANGED <<capacity, changes>>
  BY <1>29 DEF OutcomeLost, storeVars, loopVars, memVars, Fault
<1>30. ASSUME NEW t \in Tasks, DiesTelling(t)
       PROVE  UNCHANGED <<capacity, changes>>
  BY <1>30 DEF DiesTelling, Death
<1>31. CASE UNCHANGED vars
  BY <1>31 DEF vars
<1> QED
  BY <1>1, <1>2, <1>3, <1>4, <1>5, <1>6, <1>7, <1>8, <1>9, <1>10, <1>11, <1>12,
     <1>13, <1>14, <1>15, <1>16, <1>17, <1>18, <1>19, <1>20, <1>21, <1>22, <1>23,
     <1>24, <1>25, <1>26, <1>27, <1>28, <1>29, <1>30, <1>31 DEF Next, Loop, Execute

\* The capacity starts at its largest, so one change is no raise.
Lowered == changes = 0 => capacity = MaxCapacity

LEMMA LoweredStep ==
  ASSUME StoreInv, Lowered, [Next]_vars
  PROVE  Lowered'
<1>1. CASE ReloadCapacity
  BY <1>1 DEF ReloadCapacity, StoreInv, Types, Lowered
<1>2. CASE ~ReloadCapacity
  <2>1. UNCHANGED <<capacity, changes>>
    BY <1>2, CapacityKept
  <2> QED
    BY <2>1 DEF Lowered
<1> QED
  BY <1>1, <1>2

LEMMA ReliableSlots ==
  ASSUME StoreInv, Lowered, [Next]_vars, MaxFaults = 0, ~LiveLeaseMayExpire,
         MaxCapacityChanges <= 1
  PROVE  [~SlotGivenTwice]_vars
<1>1. ~ExecutedTwice
  BY ReliableExecution
<1>2. ~LeaseAbandoned
  BY NoFault DEF LeaseAbandoned, Abandon
<1>3. ASSUME CapacityRaised PROVE UNCHANGED vars
  <2>1. capacity \in Int /\ capacity' \in Int /\ capacity < capacity' /\ changes \in Nat
    <3>1. /\ capacity \in Int /\ changes \in Nat
          /\ capacity' \in Int /\ \A r \in Runs : claim[r].slot \in Int
      BY StoreStep, Typing, SupervisorAssumption
      DEF StoreInv, Types, Slots, SupervisorAssumption
    <3> QED
      BY <1>3, <3>1 DEF CapacityRaised
  <2>2. CASE ReloadCapacity
    BY <2>1, <2>2, SupervisorAssumption DEF ReloadCapacity, Lowered, SupervisorAssumption
  <2>3. CASE ~ReloadCapacity
    <3>1. capacity' = capacity
      BY <2>3, CapacityKept
    <3> QED
      BY <2>1, <3>1
  <2> QED
    BY <2>2, <2>3
<1> QED
  BY <1>1, <1>2, <1>3 DEF SlotGivenTwice

\* While the server can be reached and machines do not sleep, a run is executed
\* once at a time, whatever the deaths of the daemon and the capacity.
THEOREM ReliablyExecutedOnce ==
  ASSUME MaxFaults = 0, ~LiveLeaseMayExpire
  PROVE  Spec => []OneTaskPerRun
<1>1. StoreInv => [~ExecutedTwice]_vars
  BY ReliableExecution
<1> QED
  BY <1>1, StoreInductive, ExecutedOnce, PTL DEF Spec

\* If besides the capacity is changed at most once, no slot is given twice.
THEOREM ReliablyOneRunPerSlot ==
  ASSUME MaxFaults = 0, ~LiveLeaseMayExpire, MaxCapacityChanges <= 1
  PROVE  Spec => []SlotsDistinct
<1>1. Init => Lowered
  BY DEF Init, Lowered
<1>2. StoreInv /\ Lowered /\ [Next]_vars => Lowered'
  BY LoweredStep
<1>3. StoreInv /\ Lowered /\ [Next]_vars => [~SlotGivenTwice]_vars
  BY ReliableSlots
<1> QED
  BY <1>1, <1>2, <1>3, StoreInductive, OneRunPerSlot, PTL DEF Spec
=============================================================================
