---------------------------- MODULE BatchRunProofs ----------------------------
(***************************************************************************)
(* Proofs about BatchRun, for any number of tasks and any bounds on turns, *)
(* revisions, faults, deaths and edits.                                    *)
(***************************************************************************)
EXTENDS BatchRun, NaturalLemmas

-----------------------------------------------------------------------------
(* The inductive invariant. *)

\* The whole work of the first k tasks, each by the turn its row names.
WorkUpTo(k) == {<<"whole", CompletedTurn(j)>> : j \in 1..k}

SavedStates == {"result_saved", "checkpoint_acknowledged"}

\* The worktree holds the work of the first k tasks, and edits.
TreeHas(k) == Written(tree) = WorkUpTo(k)

\* The server completes the tasks in their order, and rows are only written for
\* the current task in its current revision.
OrderInv ==
  /\ \A k \in Ordinals : k < cur => mem[k].state = "completed"
  /\ \A k \in Ordinals : k > cur => mem[k].state = "pending"
  /\ mem[cur].state = "completed" => cur = N
  /\ \A k \in Ordinals, v \in 1..MaxRev : k > cur \/ v > mem[k].rev => rows[k][v] = NoRow

\* An execution has the lease; a saved result is not computed again.
LeaseInv ==
  /\ pc \notin {"off", "down"} => srv = "leased"
  /\ pend # <<>> => pc \in {"snapshot", "complete", "off", "down"}
  /\ pc \in {"snapshot", "complete"} => pend # <<>>
  /\ pc = "report" \/ pend # <<>> \/ srv = "review" => mem[cur].state = "completed"
  /\ ref # <<>> => pend # <<>> \/ srv = "review"

\* A saved row holds the whole work of the tasks up to its own.
SavedWork ==
  /\ \A k \in Ordinals, v \in 1..MaxRev : rows[k][v].state \in SavedStates => rows[k][v].turn # NoTurn
  /\ \A k \in Ordinals : Saved(k) => Written(Row(k).tree) = WorkUpTo(k)

\* What the places of _execute_batch rely on.
PlaceInv ==
  /\ pc \in {"turn", "result"} => /\ turns # 0 /\ mem[cur].state = "pending"
                                  /\ Row(cur).state = "running"
  /\ pc = "checkpoint" => Saved(cur)
  /\ pc \in {"turn", "result", "checkpoint"} =>
       \A k \in Ordinals : k < cur => Row(k).state = "checkpoint_acknowledged"
  /\ pc = "report" => \A k \in Ordinals : Row(k).state = "checkpoint_acknowledged"

RowInv == PersistedBeforeAdvancing /\ SavedWork /\ PlaceInv

\* What the worktree holds, where the code looks at it, and what the snapshot
\* holds for good.
TreeInv ==
  /\ pc = "turn" => Written(tree) \ {<<"part", turns>>} = WorkUpTo(cur - 1)
  /\ pc = "result" => Written(tree) = WorkUpTo(cur - 1) \cup {<<"whole", turns>>}
  /\ pc = "checkpoint" \/ pc = "report" \/ pend # <<>> => TreeHas(cur)
  /\ SnapshotIsReportedWork

BatchInv == TypeOK /\ OrderInv /\ LeaseInv /\ RowInv /\ TreeInv

-----------------------------------------------------------------------------
(* Facts about the operators *)

\* The newest of some revisions is one of them.
LEMMA HasNewest ==
  ASSUME NEW S \in SUBSET (1..MaxRev), S # {}
  PROVE  (CHOOSE v \in S : \A u \in S : u <= v) \in S
<1> DEFINE D == {MaxRev - v : v \in S}
<1>1. /\ D \subseteq Nat
      /\ D # {}
  <2>1. \A v \in S : MaxRev - v \in Nat
    BY BatchAssumption DEF BatchAssumption
  <2>2. \E v : v \in S
    OBVIOUS
  <2> QED
    BY <2>1, <2>2
<1>2. PICK d \in D : \A e \in D : d <= e
  BY <1>1, HasLeast
<1>3. PICK v \in S : d = MaxRev - v
  BY <1>2
<1>4. \A u \in S : u <= v
  BY <1>2, <1>3, BatchAssumption DEF BatchAssumption
<1> QED
  BY <1>4

-----------------------------------------------------------------------------
(* What the steps that touch the rows do to them *)

RowType  == [state : RowState, turn : 0..MaxTurns, tree : SUBSET Work]
Rows     == [Ordinals -> [1..MaxRev -> RowType]]
TaskType == [state : {"pending", "completed"}, rev : 1..MaxRev, tree : SUBSET Work]

\* The types of the rows and of the server's tasks, taken apart.
LEMMA Typing ==
  ASSUME TypeOK
  PROVE  /\ rows \in Rows /\ mem \in [Ordinals -> TaskType] /\ cur \in Ordinals
         /\ N \in Ordinals /\ Ordinals \subseteq Nat
         /\ \A k \in Ordinals : /\ mem[k] \in TaskType /\ mem[k].rev \in 1..MaxRev
                                /\ mem[k].tree \in SUBSET Work
         /\ \A k \in Ordinals, v \in 1..MaxRev :
              /\ rows[k][v] \in RowType /\ rows[k][v].state \in RowState
              /\ rows[k][v].turn \in 0..MaxTurns /\ rows[k][v].tree \in SUBSET Work
         /\ \A k \in Ordinals : Row(k) \in RowType /\ Row(k).tree \in SUBSET Work
<1>1. rows \in Rows /\ mem \in [Ordinals -> TaskType] /\ cur \in Ordinals
  BY DEF TypeOK, Rows, RowType, TaskType
<1>2. N \in Ordinals /\ Ordinals \subseteq Nat
  BY BatchAssumption DEF Ordinals, BatchAssumption
<1>3. ASSUME NEW r \in RowType
      PROVE  r.state \in RowState /\ r.turn \in 0..MaxTurns /\ r.tree \in SUBSET Work
  BY DEF RowType
<1>4. ASSUME NEW k \in Ordinals
      PROVE  mem[k] \in TaskType /\ mem[k].rev \in 1..MaxRev /\ mem[k].tree \in SUBSET Work
  <2>1. mem[k] \in TaskType
    BY <1>1
  <2> QED
    BY <2>1 DEF TaskType
<1>5. ASSUME NEW k \in Ordinals, NEW v \in 1..MaxRev
      PROVE  rows[k][v] \in RowType
  <2>1. rows[k] \in [1..MaxRev -> RowType]
    BY <1>1 DEF Rows
  <2> QED
    BY <2>1
<1> QED
  BY <1>1, <1>2, <1>3, <1>4, <1>5 DEF Row

\* A row keeps its type, turn and tree when its state changes.
LEMMA StateOfRow ==
  ASSUME NEW r \in RowType, NEW s \in RowState
  PROVE  /\ [r EXCEPT !.state = s] \in RowType /\ [r EXCEPT !.state = s].state = s
         /\ [r EXCEPT !.state = s].turn = r.turn /\ [r EXCEPT !.state = s].tree = r.tree
  BY DEF RowType

\* Acknowledging the earlier tasks only changes the state of their rows.
LEMMA AcknowledgeEffect ==
  ASSUME TypeOK
  PROVE  /\ AcknowledgeEarlier \in Rows
         /\ \A k \in Ordinals, v \in 1..MaxRev :
              /\ AcknowledgeEarlier[k][v].turn = rows[k][v].turn
              /\ AcknowledgeEarlier[k][v].tree = rows[k][v].tree
              /\ AcknowledgeEarlier[k][v].state \in SavedStates <=> rows[k][v].state \in SavedStates
              /\ k >= cur \/ v # mem[k].rev => AcknowledgeEarlier[k][v] = rows[k][v]
              /\ k < cur /\ v = mem[k].rev /\ mem[k].state = "completed" /\ Saved(k)
                   => AcknowledgeEarlier[k][v].state = "checkpoint_acknowledged"
<1> DEFINE A == AcknowledgeEarlier
<1>1. ASSUME NEW k \in Ordinals, NEW v \in 1..MaxRev
      PROVE  /\ A[k][v] \in RowType
             /\ A[k][v].turn = rows[k][v].turn
             /\ A[k][v].tree = rows[k][v].tree
             /\ A[k][v].state \in SavedStates <=> rows[k][v].state \in SavedStates
             /\ k >= cur \/ v # mem[k].rev => A[k][v] = rows[k][v]
             /\ k < cur /\ v = mem[k].rev /\ mem[k].state = "completed" /\ Saved(k)
                  => A[k][v].state = "checkpoint_acknowledged"
  <2>1. /\ A[k][v] = rows[k][v]
        \/ /\ k < cur /\ mem[k].state = "completed" /\ mem[k].rev = v
           /\ rows[k][v].state = "result_saved"
           /\ A[k][v] = [rows[k][v] EXCEPT !.state = "checkpoint_acknowledged"]
    BY DEF AcknowledgeEarlier
  <2>2. /\ rows[k][v] \in RowType
        /\ k \in Int /\ cur \in Int
    BY Typing
  <2>3. /\ A[k][v] \in RowType
        /\ A[k][v].turn = rows[k][v].turn
        /\ A[k][v].tree = rows[k][v].tree
        /\ A[k][v].state \in SavedStates <=> rows[k][v].state \in SavedStates
    <3>1. "checkpoint_acknowledged" \in RowState
      BY DEF RowState
    <3>2. CASE A[k][v] = rows[k][v]
      BY <2>2, <3>2
    <3>3. CASE /\ rows[k][v].state = "result_saved"
               /\ A[k][v] = [rows[k][v] EXCEPT !.state = "checkpoint_acknowledged"]
      <4>1. /\ A[k][v] \in RowType /\ A[k][v].state = "checkpoint_acknowledged"
            /\ A[k][v].turn = rows[k][v].turn /\ A[k][v].tree = rows[k][v].tree
        BY <2>2, <3>1, <3>3, StateOfRow
      <4> QED
        BY <3>3, <4>1 DEF SavedStates
    <3> QED
      BY <2>1, <3>2, <3>3
  <2>4. k >= cur \/ v # mem[k].rev => A[k][v] = rows[k][v]
    BY <2>1, <2>2
  <2>5. k < cur /\ v = mem[k].rev /\ mem[k].state = "completed" /\ Saved(k)
          => A[k][v].state = "checkpoint_acknowledged"
    <3> SUFFICES ASSUME k < cur, v = mem[k].rev, mem[k].state = "completed",
                        rows[k][v].state \in SavedStates
                 PROVE  A[k][v].state = "checkpoint_acknowledged"
      BY DEF Saved, Row, SavedStates
    <3>1. CASE rows[k][v].state = "result_saved"
      BY <2>2, <3>1, StateOfRow DEF AcknowledgeEarlier, RowState
    <3>2. CASE rows[k][v].state = "checkpoint_acknowledged"
      BY <3>2 DEF AcknowledgeEarlier
    <3> QED
      BY <3>1, <3>2 DEF SavedStates
  <2> QED
    BY <2>3, <2>4, <2>5
<1>2. A = [k \in Ordinals |-> [v \in 1..MaxRev |-> A[k][v]]]
  BY DEF AcknowledgeEarlier
<1>3. A \in Rows
  BY <1>1, <1>2 DEF Rows
<1> QED
  BY <1>1, <1>3

\* So does starting a turn, which sets the current row to running.
LEMMA LoadEffect ==
  ASSUME TypeOK, LoadTask
  PROVE  /\ rows' \in Rows
         /\ \A k \in Ordinals, v \in 1..MaxRev :
              /\ rows'[k][v].turn = rows[k][v].turn
              /\ rows'[k][v].tree = rows[k][v].tree
              /\ rows'[k][v].state \in SavedStates <=> rows[k][v].state \in SavedStates
              /\ k > cur \/ v > mem[k].rev => rows'[k][v] = rows[k][v]
              /\ k < cur /\ v = mem[k].rev /\ mem[k].state = "completed" /\ Saved(k)
                   => rows'[k][v].state = "checkpoint_acknowledged"
         /\ \/ Saved(cur) /\ pc' = "checkpoint" /\ UNCHANGED turns
            \/ /\ ~Saved(cur) /\ pc' = "turn" /\ turns' = turns + 1 /\ turns < MaxTurns
               /\ rows'[cur][mem[cur].rev].state = "running"
<1> DEFINE A == AcknowledgeEarlier
<1>1. /\ A \in Rows
      /\ cur \in Ordinals /\ mem[cur].rev \in 1..MaxRev /\ rows \in Rows
      /\ \A k \in Ordinals : mem[k].rev \in 1..MaxRev /\ k \in Int
      /\ \A k \in Ordinals, v \in 1..MaxRev : rows[k][v].state \in RowState
      /\ \A k \in Ordinals, v \in 1..MaxRev : v \in Int
  BY AcknowledgeEffect, Typing
<1>2. CASE Saved(cur)
  BY <1>1, <1>2, AcknowledgeEffect DEF LoadTask
<1>3. CASE ~Saved(cur)
  <2>1. rows[cur][mem[cur].rev].state \in {"none", "running"}
    BY <1>1, <1>3 DEF RowState, Saved, Row
  <2>2. A[cur][mem[cur].rev] = rows[cur][mem[cur].rev]
    BY <1>1, AcknowledgeEffect
  <2>3. rows' = [A EXCEPT ![cur] = [A[cur] EXCEPT ![mem[cur].rev] =
                   [A[cur][mem[cur].rev] EXCEPT !.state = "running"]]]
    BY <1>1, <1>3, <2>1, <2>2 DEF LoadTask, BegunTurn, Rows
  <2>4. rows' \in Rows
    <3>1. [A[cur][mem[cur].rev] EXCEPT !.state = "running"]
            \in RowType
      BY <1>1, <2>2, Typing, StateOfRow DEF RowState
    <3> QED
      BY <1>1, <2>3, <3>1 DEF Rows
  <2>5. rows'[cur][mem[cur].rev] = [rows[cur][mem[cur].rev] EXCEPT !.state = "running"]
    BY <1>1, <2>2, <2>3 DEF Rows
  <2>6. \A k \in Ordinals, v \in 1..MaxRev :
          k # cur \/ v # mem[cur].rev => rows'[k][v] = A[k][v]
    BY <1>1, <2>3 DEF Rows
  <2>7. /\ rows'[cur][mem[cur].rev].turn = rows[cur][mem[cur].rev].turn
        /\ rows'[cur][mem[cur].rev].tree = rows[cur][mem[cur].rev].tree
        /\ rows'[cur][mem[cur].rev].state = "running"
    BY <1>1, <2>5, Typing, StateOfRow DEF RowState
  <2>8. /\ pc' = "turn" /\ turns' = turns + 1 /\ turns < MaxTurns
    BY <1>3 DEF LoadTask
  <2>9. ASSUME NEW k \in Ordinals, NEW v \in 1..MaxRev
        PROVE  /\ rows'[k][v].turn = rows[k][v].turn
               /\ rows'[k][v].tree = rows[k][v].tree
               /\ rows'[k][v].state \in SavedStates <=> rows[k][v].state \in SavedStates
               /\ k > cur \/ v > mem[k].rev => rows'[k][v] = rows[k][v]
               /\ k < cur /\ v = mem[k].rev /\ mem[k].state = "completed" /\ Saved(k)
                    => rows'[k][v].state = "checkpoint_acknowledged"
    <3>1. CASE k = cur /\ v = mem[cur].rev
      BY <1>1, <2>1, <2>7, <3>1 DEF SavedStates
    <3>2. CASE k # cur \/ v # mem[cur].rev
      BY <1>1, <2>6, <3>2, AcknowledgeEffect
    <3> QED
      BY <3>1, <3>2
  <2> QED
    BY <1>3, <2>4, <2>7, <2>8, <2>9
<1> QED
  BY <1>2, <1>3

\* Saving a turn fills the current row.
LEMMA SaveEffect ==
  ASSUME TypeOK, SaveTurn
  PROVE  /\ rows' \in Rows
         /\ rows'[cur][mem[cur].rev] = [state |-> "result_saved", turn |-> turns, tree |-> tree]
         /\ \A k \in Ordinals, v \in 1..MaxRev :
              k # cur \/ v # mem[cur].rev => rows'[k][v] = rows[k][v]
<1>1. rows' = [rows EXCEPT ![cur] = [rows[cur] EXCEPT ![mem[cur].rev] =
                 [state |-> "result_saved", turn |-> turns, tree |-> tree]]]
  BY Typing DEF SaveTurn, Rows
<1>2. [state |-> "result_saved", turn |-> turns, tree |-> tree] \in RowType
  BY DEF TypeOK, RowType, RowState
<1> QED
  BY <1>1, <1>2, Typing DEF Rows

\* A checkpoint that is answered acknowledges the current row.
LEMMA CheckpointEffect ==
  ASSUME TypeOK, Checkpoint, Saved(cur)
  PROVE  /\ rows' \in Rows
         /\ rows'[cur][mem[cur].rev] =
              [rows[cur][mem[cur].rev] EXCEPT !.state = "checkpoint_acknowledged"]
         /\ \A k \in Ordinals, v \in 1..MaxRev :
              k # cur \/ v # mem[cur].rev => rows'[k][v] = rows[k][v]
<1>1. /\ rows \in Rows /\ cur \in Ordinals /\ mem[cur].rev \in 1..MaxRev
      /\ rows' = [rows EXCEPT ![cur] = [rows[cur] EXCEPT ![mem[cur].rev] =
                    [rows[cur][mem[cur].rev] EXCEPT !.state = "checkpoint_acknowledged"]]]
  BY Typing DEF Checkpoint, Rows
<1>2. [rows[cur][mem[cur].rev] EXCEPT !.state = "checkpoint_acknowledged"]
        \in RowType
  BY <1>1, Typing, StateOfRow DEF RowState
<1> QED
  BY <1>1, <1>2 DEF Rows

\* The server completes the current task with the tree of its row.
LEMMA TakesEffect ==
  ASSUME TypeOK, TakesCheckpoint
  PROVE  /\ mem' \in [Ordinals -> TaskType]
         /\ mem'[cur].state = "completed" /\ mem'[cur].rev = mem[cur].rev
         /\ mem'[cur].tree = Row(cur).tree
         /\ \A k \in Ordinals : k # cur => mem'[k] = mem[k]
         /\ cur' \in Ordinals
         /\ \/ cur < N /\ cur' = cur + 1
            \/ cur = N /\ cur' = cur
<1>1. /\ cur \in Ordinals /\ mem[cur].rev \in 1..MaxRev /\ Row(cur).tree \in SUBSET Work
      /\ mem \in [Ordinals -> TaskType]
  BY Typing
<1>2. mem' = [mem EXCEPT ![cur] = [mem[cur] EXCEPT !.state = "completed", !.tree = Row(cur).tree]]
  BY <1>1 DEF TakesCheckpoint
<1>3. LET t == [mem[cur] EXCEPT !.state = "completed", !.tree = Row(cur).tree]
      IN  t \in TaskType /\ t.state = "completed" /\ t.rev = mem[cur].rev /\ t.tree = Row(cur).tree
  BY <1>1, Typing DEF TaskType
<1>4. \/ cur < N /\ cur' = cur + 1 /\ cur' \in Ordinals
      \/ cur = N /\ cur' = cur
  BY <1>1, BatchAssumption DEF TakesCheckpoint, Ordinals, BatchAssumption
<1> QED
  BY <1>1, <1>2, <1>3, <1>4

\* A lease that ends may give the current task, if it is not completed, a new
\* revision.
LEMMA RevisionEffect ==
  ASSUME TypeOK, LeaseExpires \/ ResumeRun
  PROVE  /\ mem' \in [Ordinals -> TaskType]
         /\ \A k \in Ordinals :
              /\ mem'[k].state = mem[k].state /\ mem'[k].tree = mem[k].tree
              /\ mem'[k].rev = mem[k].rev \/ mem'[k].rev = mem[k].rev + 1
              /\ k # cur \/ mem[k].state = "completed" => mem'[k] = mem[k]
         /\ UNCHANGED <<cur, rows, pend, ref, tree, pc, turns>>
<1>1. \/ mem' = mem
      \/ /\ mem[cur].state = "pending" /\ mem[cur].rev < MaxRev
         /\ mem' = [mem EXCEPT ![cur] = [mem[cur] EXCEPT !.rev = mem[cur].rev + 1]]
  BY DEF LeaseExpires, ResumeRun
<1>2. UNCHANGED <<cur, rows, pend, ref, tree, pc, turns>>
  BY DEF LeaseExpires, ResumeRun, store, bounds
<1>3. CASE mem' = mem
  BY <1>2, <1>3, Typing
<1>4. CASE /\ mem[cur].state = "pending" /\ mem[cur].rev < MaxRev
           /\ mem' = [mem EXCEPT ![cur] = [mem[cur] EXCEPT !.rev = mem[cur].rev + 1]]
  <2>1. mem[cur] \in TaskType /\ mem[cur].rev + 1 \in 1..MaxRev
    BY <1>4, Typing, BatchAssumption DEF BatchAssumption
  <2>2. LET t == [mem[cur] EXCEPT !.rev = mem[cur].rev + 1]
        IN  /\ t \in TaskType /\ t.state = mem[cur].state /\ t.tree = mem[cur].tree
            /\ t.rev = mem[cur].rev + 1
    BY <2>1 DEF TaskType
  <2>3. mem \in [Ordinals -> TaskType] /\ cur \in Ordinals
    BY Typing
  <2> QED
    BY <1>2, <1>4, <2>2, <2>3
<1> QED
  BY <1>1, <1>3, <1>4


\* The acknowledged turns make a complete report.
LEMMA ReportEffect ==
  ASSUME TypeOK, RowInv, pc = "report"
  PROVE  [k \in Ordinals |-> Newest(k)] \in [Ordinals -> Turns]
<1> SUFFICES ASSUME NEW k \in Ordinals
             PROVE  Newest(k) \in Turns
  OBVIOUS
<1> DEFINE acked == {v \in 1..MaxRev : rows[k][v].state = "checkpoint_acknowledged"}
<1>1. mem[k].rev \in acked
  BY Typing DEF RowInv, PlaceInv, Row
<1> DEFINE new == CHOOSE v \in acked : \A u \in acked : u <= v
<1>2. new \in acked
  BY <1>1, HasNewest
<1>3. rows[k][new].turn \in 0..MaxTurns \ {0}
  BY <1>2, Typing DEF RowInv, SavedWork, SavedStates, NoTurn
<1>4. Newest(k) = rows[k][new].turn
  BY <1>1 DEF Newest
<1> QED
  BY <1>3, <1>4, BatchAssumption DEF Turns, BatchAssumption

\* Every step keeps the types.
LEMMA TypeStep ==
  ASSUME TypeOK, RowInv, [Next]_vars
  PROVE  TypeOK'
<1>1. CASE ClaimRun
  BY <1>1 DEF ClaimRun, server, store, bounds, Entry, TypeOK, RunState, Steps
<1>2. CASE RecoverRun
  BY <1>2 DEF RecoverRun, server, store, bounds, Entry, TypeOK, RunState, Steps
<1>3. CASE LeaseExpires
  BY <1>3, RevisionEffect DEF LeaseExpires, store, bounds, TypeOK, TaskType, RunState
<1>4. CASE ResumeRun
  BY <1>4, RevisionEffect DEF ResumeRun, store, bounds, TypeOK, TaskType, RunState
<1>5. CASE LoadTask
  <2>1. rows' \in Rows
    BY <1>5, LoadEffect
  <2>3. turns \in 0..MaxTurns
    BY DEF TypeOK
  <2>4. turns' \in 0..MaxTurns
    <3>1. turns' = turns \/ (turns' = turns + 1 /\ turns < MaxTurns)
      BY <1>5, LoadEffect
    <3> QED
      BY <2>3, <3>1, BatchAssumption DEF BatchAssumption
  <2>5. pc' \in Steps
    BY <1>5, LoadEffect DEF Steps
  <2>2. tree' \in SUBSET Work
    <3>1. cur > 1 => cur - 1 \in Ordinals
      BY BatchAssumption DEF TypeOK, Ordinals, BatchAssumption
    <3> QED
      BY <1>5, <3>1, Typing DEF LoadTask, CheckpointTree
  <2> QED
    BY <1>5, <2>1, <2>2, <2>4, <2>5 DEF LoadTask, server, TypeOK, Rows, RowType
<1>6. CASE TurnSucceeds
  <2>1. <<"whole", turns>> \in Work
    BY <1>6, BatchAssumption DEF TurnSucceeds, RowInv, PlaceInv, TypeOK, Work, Turns, BatchAssumption
  <2> QED
    BY <1>6, <2>1 DEF TurnSucceeds, server, store, bounds, TypeOK, Steps
<1>7. CASE PauseRun
  BY <1>7 DEF PauseRun, store, bounds, TypeOK, RunState, Steps
<1>8. CASE SaveTurn
  BY <1>8, SaveEffect DEF SaveTurn, server, bounds, TypeOK, Rows, RowType, Steps
<1>9. CASE Checkpoint
  BY <1>9, CheckpointEffect, TakesEffect DEF Checkpoint, bounds, TypeOK, RowInv, PlaceInv, Rows, RowType, TaskType, Steps
<1>10. CASE SaveReport
  BY <1>10, ReportEffect DEF SaveReport, server, bounds, TypeOK, Steps
<1>11. CASE CreateSnapshot
  BY <1>11 DEF CreateSnapshot, server, store, bounds, TypeOK, RunState, Steps
<1>12. CASE AdvanceChangeSet
  BY <1>12 DEF AdvanceChangeSet, server, bounds, TypeOK, RunState, Steps
<1>13. CASE Complete
  BY <1>13 DEF Complete, bounds, TypeOK, RunState, Steps
<1>14. CASE WorkOnTask
  <2>1. <<"part", turns>> \in Work
    BY <1>14, BatchAssumption DEF WorkOnTask, RowInv, PlaceInv, TypeOK, Work, Turns, BatchAssumption
  <2> QED
    BY <1>14, <2>1 DEF WorkOnTask, server, store, bounds, TypeOK
<1>15. CASE CheckpointLost
  <2>1. faults' \in 0..MaxFaults
    BY <1>15, BatchAssumption DEF CheckpointLost, Fault, TypeOK, BatchAssumption
  <2> QED
    BY <1>15, <2>1, TakesEffect DEF CheckpointLost, store, TypeOK, TaskType, Steps
<1>16. CASE Abandon
  <2>1. faults' \in 0..MaxFaults
    BY <1>16, BatchAssumption DEF Abandon, Fault, TypeOK, BatchAssumption
  <2> QED
    BY <1>16, <2>1 DEF Abandon, server, store, TypeOK, Steps
<1>17. CASE FailLocally
  <2>1. faults' \in 0..MaxFaults
    BY <1>17, BatchAssumption DEF FailLocally, Fault, TypeOK, BatchAssumption
  <2>2. tree' \in SUBSET Work
    BY <1>17 DEF FailLocally, Interrupted, TypeOK
  <2> QED
    BY <1>17, <2>1, <2>2 DEF FailLocally, store, TypeOK, Steps, RunState
<1>18. CASE DaemonDies
  <2>1. deaths' \in 0..MaxDeaths
    BY <1>18, BatchAssumption DEF DaemonDies, TypeOK, BatchAssumption
  <2>2. tree' \in SUBSET Work
    BY <1>18 DEF DaemonDies, Interrupted, TypeOK
  <2> QED
    BY <1>18, <2>1, <2>2 DEF DaemonDies, server, store, TypeOK, Steps
<1>19. CASE EditWorktree
  <2>1. edits' \in 0..MaxEdits /\ <<"edit", edits'>> \in Work
    BY <1>19, BatchAssumption DEF EditWorktree, TypeOK, Work, BatchAssumption
  <2> QED
    BY <1>19, <2>1 DEF EditWorktree, server, store, bounds, TypeOK
<1>20. CASE UNCHANGED vars
  BY <1>20 DEF vars, server, store, bounds, TypeOK, RunState, Steps
<1> QED
  BY <1>1, <1>2, <1>3, <1>4, <1>5, <1>6, <1>7, <1>8, <1>9, <1>10, <1>11, <1>12,
     <1>13, <1>14, <1>15, <1>16, <1>17, <1>18, <1>19, <1>20 DEF Next, Execute

\* Every step keeps the order of the tasks and the place of the rows.
LEMMA OrderStep ==
  ASSUME TypeOK, OrderInv, RowInv, [Next]_vars
  PROVE  OrderInv'
<1>1. CASE ClaimRun
  <2>1. UNCHANGED <<rows, mem, cur>>
    BY <1>1 DEF ClaimRun, server, store
  <2> QED
    BY <2>1 DEF OrderInv
<1>2. CASE RecoverRun
  <2>1. UNCHANGED <<rows, mem, cur>>
    BY <1>2 DEF RecoverRun, server, store
  <2> QED
    BY <2>1 DEF OrderInv
<1>3. CASE LeaseExpires
  <2>1. \A k \in Ordinals, v \in 1..MaxRev : v > mem'[k].rev => v > mem[k].rev
    BY <1>3, RevisionEffect, Typing
  <2> QED
    BY <1>3, <2>1, RevisionEffect, Typing DEF OrderInv
<1>4. CASE ResumeRun
  <2>1. \A k \in Ordinals, v \in 1..MaxRev : v > mem'[k].rev => v > mem[k].rev
    BY <1>4, RevisionEffect, Typing
  <2> QED
    BY <1>4, <2>1, RevisionEffect, Typing DEF OrderInv
<1>5. CASE LoadTask
  BY <1>5, LoadEffect DEF LoadTask, server, OrderInv
<1>6. CASE TurnSucceeds
  <2>1. UNCHANGED <<rows, mem, cur>>
    BY <1>6 DEF TurnSucceeds, server, store
  <2> QED
    BY <2>1 DEF OrderInv
<1>7. CASE PauseRun
  <2>1. UNCHANGED <<rows, mem, cur>>
    BY <1>7 DEF PauseRun, store
  <2> QED
    BY <2>1 DEF OrderInv
<1>8. CASE SaveTurn
  BY <1>8, SaveEffect, Typing DEF SaveTurn, server, OrderInv
<1>9. CASE Checkpoint
  BY <1>9, CheckpointEffect, TakesEffect, Typing DEF Checkpoint, OrderInv, RowInv, PlaceInv
<1>10. CASE SaveReport
  <2>1. UNCHANGED <<rows, mem, cur>>
    BY <1>10 DEF SaveReport, server
  <2> QED
    BY <2>1 DEF OrderInv
<1>11. CASE CreateSnapshot
  <2>1. UNCHANGED <<rows, mem, cur>>
    BY <1>11 DEF CreateSnapshot, server, store
  <2> QED
    BY <2>1 DEF OrderInv
<1>12. CASE AdvanceChangeSet
  <2>1. UNCHANGED <<rows, mem, cur>>
    BY <1>12 DEF AdvanceChangeSet, server
  <2> QED
    BY <2>1 DEF OrderInv
<1>13. CASE Complete
  <2>1. UNCHANGED <<rows, mem, cur>>
    BY <1>13 DEF Complete
  <2> QED
    BY <2>1 DEF OrderInv
<1>14. CASE WorkOnTask
  <2>1. UNCHANGED <<rows, mem, cur>>
    BY <1>14 DEF WorkOnTask, server, store
  <2> QED
    BY <2>1 DEF OrderInv
<1>15. CASE CheckpointLost
  <2>1. TakesCheckpoint /\ rows' = rows
    BY <1>15 DEF CheckpointLost, store
  <2>2. \A k \in Ordinals : mem'[k].rev = mem[k].rev
    BY <2>1, TakesEffect
  <2>3. \A k \in Ordinals : /\ k < cur' => mem'[k].state = "completed"
                            /\ k > cur' => mem'[k].state = "pending" /\ k > cur
    <3> SUFFICES ASSUME NEW k \in Ordinals
                 PROVE  /\ k < cur' => mem'[k].state = "completed"
                        /\ k > cur' => mem'[k].state = "pending" /\ k > cur
      OBVIOUS
    <3>1. k \in Nat /\ cur \in Nat /\ N \in Nat /\ k <= N
      BY Typing, BatchAssumption DEF Ordinals, BatchAssumption
    <3>2. /\ k < cur' => k = cur \/ k < cur
          /\ k > cur' => k # cur /\ k > cur
      BY <2>1, <3>1, TakesEffect
    <3>3. mem'[cur].state = "completed" /\ (k # cur => mem'[k] = mem[k])
      BY <2>1, TakesEffect
    <3>4. /\ k < cur => mem[k].state = "completed"
          /\ k > cur => mem[k].state = "pending"
      BY DEF OrderInv
    <3> QED
      BY <3>2, <3>3, <3>4
  <2>4. mem'[cur'].state = "completed" => cur' = N
    BY <2>1, TakesEffect, Typing DEF OrderInv
  <2>5. \A k \in Ordinals, v \in 1..MaxRev :
          k > cur' \/ v > mem'[k].rev => rows'[k][v] = NoRow
    BY <2>1, <2>2, <2>3, TakesEffect, Typing DEF OrderInv
  <2> QED
    BY <2>3, <2>4, <2>5 DEF OrderInv
<1>16. CASE Abandon
  <2>1. UNCHANGED <<rows, mem, cur>>
    BY <1>16 DEF Abandon, server, store
  <2> QED
    BY <2>1 DEF OrderInv
<1>17. CASE FailLocally
  <2>1. UNCHANGED <<rows, mem, cur>>
    BY <1>17 DEF FailLocally, store
  <2> QED
    BY <2>1 DEF OrderInv
<1>18. CASE DaemonDies
  <2>1. UNCHANGED <<rows, mem, cur>>
    BY <1>18 DEF DaemonDies, server, store
  <2> QED
    BY <2>1 DEF OrderInv
<1>19. CASE EditWorktree
  <2>1. UNCHANGED <<rows, mem, cur>>
    BY <1>19 DEF EditWorktree, server, store
  <2> QED
    BY <2>1 DEF OrderInv
<1>20. CASE UNCHANGED vars
  BY <1>20 DEF vars, server, store, bounds, OrderInv
<1> QED
  BY <1>1, <1>2, <1>3, <1>4, <1>5, <1>6, <1>7, <1>8, <1>9, <1>10, <1>11, <1>12,
     <1>13, <1>14, <1>15, <1>16, <1>17, <1>18, <1>19, <1>20 DEF Next, Execute

\* Who executes has the lease, and a saved result is final.
LEMMA LeaseStep ==
  ASSUME TypeOK, OrderInv, LeaseInv, [Next]_vars
  PROVE  LeaseInv'
<1>1. CASE ClaimRun
  BY <1>1 DEF ClaimRun, server, store, bounds, Entry, LeaseInv
<1>2. CASE RecoverRun
  BY <1>2 DEF RecoverRun, server, store, bounds, Entry, LeaseInv
<1>3. CASE LeaseExpires
  BY <1>3, RevisionEffect, Typing DEF LeaseExpires, LeaseInv
<1>4. CASE ResumeRun
  BY <1>4, RevisionEffect, Typing DEF ResumeRun, LeaseInv
<1>5. CASE LoadTask
  BY <1>5, LoadEffect DEF LoadTask, server, LeaseInv
<1>6. CASE TurnSucceeds
  BY <1>6 DEF TurnSucceeds, server, store, bounds, LeaseInv
<1>7. CASE PauseRun
  BY <1>7 DEF PauseRun, store, LeaseInv
<1>8. CASE SaveTurn
  BY <1>8 DEF SaveTurn, server, bounds, Row, LeaseInv
<1>9. CASE Checkpoint
  BY <1>9, TakesEffect, Typing DEF Checkpoint, LeaseInv
<1>10. CASE SaveReport
  BY <1>10 DEF SaveReport, server, bounds, LeaseInv
<1>11. CASE CreateSnapshot
  BY <1>11 DEF CreateSnapshot, server, store, bounds, LeaseInv
<1>12. CASE AdvanceChangeSet
  BY <1>12 DEF AdvanceChangeSet, server, bounds, LeaseInv
<1>13. CASE Complete
  BY <1>13 DEF Complete, bounds, LeaseInv
<1>14. CASE WorkOnTask
  BY <1>14 DEF WorkOnTask, server, store, bounds, LeaseInv
<1>15. CASE CheckpointLost
  BY <1>15, TakesEffect DEF CheckpointLost, store, LeaseInv
<1>16. CASE Abandon
  BY <1>16 DEF Abandon, Fault, server, store, LeaseInv
<1>17. CASE FailLocally
  BY <1>17 DEF FailLocally, Fault, Interrupted, store, LeaseInv
<1>18. CASE DaemonDies
  BY <1>18 DEF DaemonDies, Interrupted, server, store, LeaseInv
<1>19. CASE EditWorktree
  BY <1>19 DEF EditWorktree, server, store, bounds, LeaseInv
<1>20. CASE UNCHANGED vars
  BY <1>20 DEF vars, server, store, bounds, LeaseInv
<1> QED
  BY <1>1, <1>2, <1>3, <1>4, <1>5, <1>6, <1>7, <1>8, <1>9, <1>10, <1>11, <1>12,
     <1>13, <1>14, <1>15, <1>16, <1>17, <1>18, <1>19, <1>20 DEF Next, Execute


-----------------------------------------------------------------------------
(* The work of the tasks *)

\* It does not change as long as the rows of these tasks name the same turns.
LEMMA WorkStable ==
  ASSUME NEW n, \A j \in 1..n : Row(j)'.turn = Row(j).turn
  PROVE  WorkUpTo(n)' = WorkUpTo(n)
  BY DEF WorkUpTo, CompletedTurn

\* A row that keeps its turn and tree and stays saved keeps what RowInv says of it.
LEMMA RowsStable ==
  ASSUME TypeOK, RowInv,
         \A k \in Ordinals : /\ Row(k)'.turn = Row(k).turn /\ Row(k)'.tree = Row(k).tree
                             /\ Saved(k)' <=> Saved(k)
  PROVE  \A k \in Ordinals : /\ WorkUpTo(k)' = WorkUpTo(k)
                             /\ Saved(k)' => Written(Row(k)'.tree) = WorkUpTo(k)'
<1> SUFFICES ASSUME NEW k \in Ordinals
             PROVE  /\ WorkUpTo(k)' = WorkUpTo(k)
                    /\ Saved(k)' => Written(Row(k)'.tree) = WorkUpTo(k)'
  OBVIOUS
<1>1. \A j \in 1..k : j \in Ordinals
  BY BatchAssumption DEF Ordinals, BatchAssumption
<1>2. WorkUpTo(k)' = WorkUpTo(k)
  BY <1>1, WorkStable
<1> QED
  BY <1>2 DEF RowInv, SavedWork

\* A step that leaves the rows, the tasks and the turns alone only has to lead to a
\* place that relies on no more than the one before.
LEMMA RowsQuiet ==
  ASSUME TypeOK, RowInv, UNCHANGED <<rows, mem, cur, turns>>,
         \/ pc' = pc
         \/ pc = "turn" /\ pc' = "result"
         \/ pc' \notin {"turn", "result", "checkpoint", "report"}
  PROVE  RowInv'
<1>1. \A k \in Ordinals : Row(k)' = Row(k) /\ Saved(k)' = Saved(k)
  BY DEF Row, Saved
<1>2. SavedWork'
  BY <1>1, RowsStable DEF RowInv, SavedWork
<1>3. PersistedBeforeAdvancing'
  BY <1>1 DEF RowInv, PersistedBeforeAdvancing
<1>4. Row(cur)' = Row(cur) /\ Saved(cur)' = Saved(cur)
  BY <1>1, Typing
<1>5. PlaceInv'
  BY <1>1, <1>4 DEF RowInv, PlaceInv
<1> QED
  BY <1>2, <1>3, <1>5 DEF RowInv

\* An answered checkpoint keeps the turns, the trees and what is saved.
LEMMA CheckpointKeeps ==
  ASSUME TypeOK, Checkpoint, Saved(cur)
  PROVE  /\ \A k \in Ordinals, v \in 1..MaxRev :
              /\ rows'[k][v].turn = rows[k][v].turn /\ rows'[k][v].tree = rows[k][v].tree
              /\ rows'[k][v].state \in SavedStates <=> rows[k][v].state \in SavedStates
         /\ \A k \in Ordinals : /\ Row(k)'.turn = Row(k).turn /\ Row(k)'.tree = Row(k).tree
                                /\ Saved(k)' <=> Saved(k)
<1>1. \A k \in Ordinals : mem'[k].rev = mem[k].rev
  BY TakesEffect DEF Checkpoint
<1>2. rows[cur][mem[cur].rev] \in RowType /\ rows[cur][mem[cur].rev].state \in SavedStates
  BY Typing DEF Saved, Row, SavedStates
<1>3. /\ rows'[cur][mem[cur].rev].turn = rows[cur][mem[cur].rev].turn
      /\ rows'[cur][mem[cur].rev].tree = rows[cur][mem[cur].rev].tree
      /\ rows'[cur][mem[cur].rev].state \in SavedStates
  <2>1. "checkpoint_acknowledged" \in RowState /\ "checkpoint_acknowledged" \in SavedStates
    BY DEF RowState, SavedStates
  <2>2. rows'[cur][mem[cur].rev] =
          [rows[cur][mem[cur].rev] EXCEPT !.state = "checkpoint_acknowledged"]
    BY CheckpointEffect
  <2> QED
    BY <1>2, <2>1, <2>2, StateOfRow
<1>4. \A k \in Ordinals, v \in 1..MaxRev :
        /\ rows'[k][v].turn = rows[k][v].turn /\ rows'[k][v].tree = rows[k][v].tree
        /\ rows'[k][v].state \in SavedStates <=> rows[k][v].state \in SavedStates
  BY <1>2, <1>3, CheckpointEffect
<1>5. \A k \in Ordinals : /\ Row(k)'.turn = Row(k).turn /\ Row(k)'.tree = Row(k).tree
                          /\ Saved(k)' <=> Saved(k)
  BY <1>1, <1>4, Typing DEF Row, Saved, SavedStates
<1> QED
  BY <1>4, <1>5

\* Saving the turn of the current task adds it to the work.
LEMMA SaveAddsWork ==
  ASSUME TypeOK, SaveTurn
  PROVE  WorkUpTo(cur)' = WorkUpTo(cur - 1) \cup {<<"whole", turns>>}
<1>1. UNCHANGED <<mem, cur, turns>>
  BY DEF SaveTurn, server, bounds
<1>2. Row(cur)'.turn = turns
  BY <1>1, SaveEffect DEF Row
<1>3. \A j \in 1..(cur - 1) : Row(j)' = Row(j)
  <2>1. \A k \in Ordinals : k # cur => Row(k)' = Row(k)
    BY <1>1, SaveEffect, Typing DEF Row
  <2> QED
    BY <2>1, Typing DEF Ordinals
<1>4. WorkUpTo(cur - 1)' = WorkUpTo(cur - 1)
  BY <1>1, <1>3, WorkStable
<1>5. 1..cur = 1..(cur - 1) \cup {cur}
  BY Typing DEF Ordinals
<1>6. WorkUpTo(cur)' = WorkUpTo(cur - 1)' \cup {<<"whole", turns>>}
  BY <1>1, <1>2, <1>5 DEF WorkUpTo, CompletedTurn
<1> QED
  BY <1>4, <1>6

\* Every step keeps what the rows say of the work.
LEMMA RowStep ==
  ASSUME TypeOK, OrderInv, LeaseInv, RowInv, TreeInv, [Next]_vars
  PROVE  RowInv'
<1>1. CASE ClaimRun
  BY <1>1, RowsQuiet DEF ClaimRun, server, store, bounds, Entry
<1>2. CASE RecoverRun
  BY <1>2, RowsQuiet DEF RecoverRun, server, store, bounds, Entry
<1>3. CASE LeaseExpires
  <2>1. pc' \notin {"turn", "result", "checkpoint", "report"}
    BY <1>3, RevisionEffect DEF LeaseExpires, ResumeRun, LeaseInv
  <2>2. ASSUME NEW k \in Ordinals
        PROVE  \/ mem'[k] = mem[k]
               \/ k = cur /\ ~Saved(k)' /\ mem'[k].state = "pending"
    <3>1. CASE mem'[k] # mem[k]
      <4>1. k = cur /\ mem'[k].state # "completed" /\ mem'[k].rev = mem[k].rev + 1
        BY <1>3, <3>1, RevisionEffect, Typing DEF TaskType
      <4>2. mem'[k] \in TaskType
        BY <1>3, RevisionEffect
      <4>3. mem'[k].state = "pending" /\ mem'[k].rev \in 1..MaxRev
        BY <4>1, <4>2 DEF TaskType
      <4>4. rows'[k][mem'[k].rev] = NoRow
        BY <1>3, <4>1, <4>3, RevisionEffect, Typing DEF OrderInv
      <4> QED
        BY <4>1, <4>3, <4>4 DEF Saved, Row, NoRow
    <3> QED
      BY <3>1
  <2>3. \A k \in Ordinals : k < cur \/ mem'[k] = mem[k] => Row(k)' = Row(k)
    BY <1>3, <2>2, RevisionEffect, Typing DEF Row
  <2>4. ASSUME NEW k \in Ordinals, Saved(k)'
        PROVE  Written(Row(k)'.tree) = WorkUpTo(k)'
    <3>1. k <= cur
      BY <1>3, <2>4, RevisionEffect, Typing DEF OrderInv, Saved, Row, NoRow, TaskType
    <3>2. mem'[k] = mem[k]
      BY <2>2, <2>4
    <3>3. \A j \in 1..k : Row(j)' = Row(j)
      BY <2>3, <3>1, <3>2, Typing DEF Ordinals
    <3>4. WorkUpTo(k)' = WorkUpTo(k)
      BY <3>3, WorkStable
    <3>5. Saved(k) /\ Row(k)' = Row(k)
      BY <1>3, <2>3, <2>4, <3>2 DEF Saved
    <3> QED
      BY <3>4, <3>5 DEF RowInv, SavedWork
  <2>5. PersistedBeforeAdvancing'
    <3> SUFFICES ASSUME NEW k \in Ordinals, mem'[k].state = "completed"
                 PROVE  Saved(k)' /\ Row(k)'.tree = mem'[k].tree
      BY DEF PersistedBeforeAdvancing
    <3>1. mem'[k] = mem[k]
      BY <2>2
    <3> QED
      BY <2>3, <3>1 DEF RowInv, PersistedBeforeAdvancing, Saved
  <2> QED
    BY <1>3, <2>1, <2>4, <2>5, RevisionEffect DEF RowInv, SavedWork, PlaceInv
<1>4. CASE ResumeRun
  <2>1. pc' \notin {"turn", "result", "checkpoint", "report"}
    BY <1>4, RevisionEffect DEF LeaseExpires, ResumeRun, LeaseInv
  <2>2. ASSUME NEW k \in Ordinals
        PROVE  \/ mem'[k] = mem[k]
               \/ k = cur /\ ~Saved(k)' /\ mem'[k].state = "pending"
    <3>1. CASE mem'[k] # mem[k]
      <4>1. k = cur /\ mem'[k].state # "completed" /\ mem'[k].rev = mem[k].rev + 1
        BY <1>4, <3>1, RevisionEffect, Typing DEF TaskType
      <4>2. mem'[k] \in TaskType
        BY <1>4, RevisionEffect
      <4>3. mem'[k].state = "pending" /\ mem'[k].rev \in 1..MaxRev
        BY <4>1, <4>2 DEF TaskType
      <4>4. rows'[k][mem'[k].rev] = NoRow
        BY <1>4, <4>1, <4>3, RevisionEffect, Typing DEF OrderInv
      <4> QED
        BY <4>1, <4>3, <4>4 DEF Saved, Row, NoRow
    <3> QED
      BY <3>1
  <2>3. \A k \in Ordinals : k < cur \/ mem'[k] = mem[k] => Row(k)' = Row(k)
    BY <1>4, <2>2, RevisionEffect, Typing DEF Row
  <2>4. ASSUME NEW k \in Ordinals, Saved(k)'
        PROVE  Written(Row(k)'.tree) = WorkUpTo(k)'
    <3>1. k <= cur
      BY <1>4, <2>4, RevisionEffect, Typing DEF OrderInv, Saved, Row, NoRow, TaskType
    <3>2. mem'[k] = mem[k]
      BY <2>2, <2>4
    <3>3. \A j \in 1..k : Row(j)' = Row(j)
      BY <2>3, <3>1, <3>2, Typing DEF Ordinals
    <3>4. WorkUpTo(k)' = WorkUpTo(k)
      BY <3>3, WorkStable
    <3>5. Saved(k) /\ Row(k)' = Row(k)
      BY <1>4, <2>3, <2>4, <3>2 DEF Saved
    <3> QED
      BY <3>4, <3>5 DEF RowInv, SavedWork
  <2>5. PersistedBeforeAdvancing'
    <3> SUFFICES ASSUME NEW k \in Ordinals, mem'[k].state = "completed"
                 PROVE  Saved(k)' /\ Row(k)'.tree = mem'[k].tree
      BY DEF PersistedBeforeAdvancing
    <3>1. mem'[k] = mem[k]
      BY <2>2
    <3> QED
      BY <2>3, <3>1 DEF RowInv, PersistedBeforeAdvancing, Saved
  <2> QED
    BY <1>4, <2>1, <2>4, <2>5, RevisionEffect DEF RowInv, SavedWork, PlaceInv
<1>5. CASE LoadTask
  <2>1. UNCHANGED <<mem, cur>> /\ pc = "load"
    BY <1>5 DEF LoadTask, server
  <2>2. \A k \in Ordinals : /\ Row(k)'.turn = Row(k).turn /\ Row(k)'.tree = Row(k).tree
                            /\ Saved(k)' <=> Saved(k)
    BY <1>5, <2>1, LoadEffect, Typing DEF Row, Saved, SavedStates
  <2>3. \A k \in Ordinals : Saved(k)' => Written(Row(k)'.tree) = WorkUpTo(k)'
    BY <2>2, RowsStable
  <2>4. \A k \in Ordinals : k < cur => Row(k)'.state = "checkpoint_acknowledged"
    BY <1>5, <2>1, LoadEffect, Typing DEF Row, OrderInv, RowInv, PersistedBeforeAdvancing
  <2>5. \/ pc' = "checkpoint" /\ Saved(cur)'
        \/ /\ pc' = "turn" /\ turns' # 0 /\ mem[cur].state = "pending"
           /\ Row(cur)'.state = "running"
    <3>1. CASE Saved(cur)
      BY <1>5, <2>1, <2>2, <3>1, LoadEffect, Typing
    <3>2. CASE ~Saved(cur)
      <4>1. mem[cur].state = "pending"
        BY <3>2, Typing DEF RowInv, PersistedBeforeAdvancing, TaskType
      <4>2. turns' # 0
        BY <1>5, <3>2, LoadEffect, BatchAssumption DEF TypeOK, BatchAssumption
      <4> QED
        BY <1>5, <2>1, <3>2, <4>1, <4>2, LoadEffect DEF Row
    <3> QED
      BY <3>1, <3>2
  <2>6. \A k \in Ordinals, v \in 1..MaxRev :
          rows'[k][v].state \in SavedStates => rows'[k][v].turn # NoTurn
    BY <1>5, LoadEffect DEF RowInv, SavedWork
  <2>7. PersistedBeforeAdvancing'
    BY <2>1, <2>2 DEF RowInv, PersistedBeforeAdvancing
  <2> QED
    BY <2>1, <2>3, <2>4, <2>5, <2>6, <2>7 DEF RowInv, SavedWork, PlaceInv
<1>6. CASE TurnSucceeds
  BY <1>6, RowsQuiet DEF TurnSucceeds, server, store, bounds
<1>7. CASE PauseRun
  BY <1>7, RowsQuiet DEF PauseRun, store, bounds
<1>8. CASE SaveTurn
  <2>1. /\ UNCHANGED <<mem, cur, tree, turns>> /\ pc = "result" /\ pc' = "checkpoint"
        /\ mem[cur].state = "pending" /\ turns # 0
    BY <1>8 DEF SaveTurn, server, bounds, RowInv, PlaceInv
  <2>2. /\ Row(cur)' = [state |-> "result_saved", turn |-> turns, tree |-> tree]
        /\ Saved(cur)'
    BY <1>8, <2>1, SaveEffect DEF Row, Saved
  <2>3. \A k \in Ordinals : k # cur => Row(k)' = Row(k) /\ Saved(k)' = Saved(k)
    BY <1>8, <2>1, SaveEffect, Typing DEF Row, Saved
  <2>4. ASSUME NEW k \in Ordinals, Saved(k)'
        PROVE  Written(Row(k)'.tree) = WorkUpTo(k)'
    <3>1. k <= cur
      BY <2>3, <2>4, Typing DEF OrderInv, Saved, Row, NoRow
    <3>2. CASE k < cur
      <4>1. \A j \in 1..k : Row(j)' = Row(j)
        BY <2>3, <3>2, Typing DEF Ordinals
      <4>2. WorkUpTo(k)' = WorkUpTo(k)
        BY <4>1, WorkStable
      <4> QED
        BY <2>3, <2>4, <3>2, <4>2, Typing DEF RowInv, SavedWork
    <3>3. CASE k = cur
      <4>1. WorkUpTo(cur)' = WorkUpTo(cur - 1) \cup {<<"whole", turns>>}
        BY <1>8, SaveAddsWork
      <4> QED
        BY <2>1, <2>2, <3>3, <4>1 DEF TreeInv
    <3>4. k \in Nat /\ cur \in Nat
      BY Typing
    <3> QED
      BY <3>1, <3>2, <3>3, <3>4
  <2>5. \A k \in Ordinals, v \in 1..MaxRev :
          rows'[k][v].state \in SavedStates => rows'[k][v].turn # NoTurn
    BY <1>8, <2>1, SaveEffect DEF RowInv, SavedWork, NoTurn
  <2>6. PersistedBeforeAdvancing'
    BY <2>1, <2>3 DEF RowInv, PersistedBeforeAdvancing
  <2> QED
    BY <2>1, <2>2, <2>3, <2>4, <2>5, <2>6, Typing DEF RowInv, SavedWork, PlaceInv
<1>9. CASE Checkpoint
  <2>1. TakesCheckpoint /\ Saved(cur)
    BY <1>9 DEF Checkpoint, RowInv, PlaceInv
  <2>2. \A k \in Ordinals : mem'[k].rev = mem[k].rev
    BY <2>1, TakesEffect
  <2>3. \A k \in Ordinals, v \in 1..MaxRev :
          /\ rows'[k][v].turn = rows[k][v].turn
          /\ rows'[k][v].state \in SavedStates <=> rows[k][v].state \in SavedStates
    BY <1>9, <2>1, CheckpointKeeps
  <2>4. \A k \in Ordinals : /\ Row(k)'.turn = Row(k).turn /\ Row(k)'.tree = Row(k).tree
                            /\ Saved(k)' <=> Saved(k)
    BY <1>9, <2>1, CheckpointKeeps
  <2>5. \A k \in Ordinals : Saved(k)' => Written(Row(k)'.tree) = WorkUpTo(k)'
    BY <2>4, RowsStable
  <2>6. PersistedBeforeAdvancing'
    <3> SUFFICES ASSUME NEW k \in Ordinals, mem'[k].state = "completed"
                 PROVE  Saved(k)' /\ Row(k)'.tree = mem'[k].tree
      BY DEF PersistedBeforeAdvancing
    <3>1. CASE k = cur
      BY <2>1, <2>4, <3>1, TakesEffect
    <3>2. CASE k # cur
      BY <2>1, <2>4, <3>2, TakesEffect DEF RowInv, PersistedBeforeAdvancing
    <3> QED
      BY <3>1, <3>2
  <2>7. \A k \in Ordinals : k <= cur => Row(k)'.state = "checkpoint_acknowledged"
    <3>1. rows'[cur][mem'[cur].rev].state = "checkpoint_acknowledged"
      <4>1. Row(cur) \in RowType /\ "checkpoint_acknowledged" \in RowState
        BY Typing DEF RowState
      <4>2. rows'[cur][mem'[cur].rev] = [Row(cur) EXCEPT !.state = "checkpoint_acknowledged"]
        BY <1>9, <2>1, <2>2, CheckpointEffect, Typing DEF Row
      <4> QED
        BY <4>1, <4>2, StateOfRow
    <3>2. \A k \in Ordinals : k # cur => Row(k)' = Row(k)
      BY <1>9, <2>1, <2>2, CheckpointEffect, Typing DEF Row
    <3>3. \A k \in Ordinals : k < cur => Row(k).state = "checkpoint_acknowledged"
      BY <1>9 DEF Checkpoint, RowInv, PlaceInv
    <3> SUFFICES ASSUME NEW k \in Ordinals, k <= cur
                 PROVE  Row(k)'.state = "checkpoint_acknowledged"
      OBVIOUS
    <3>4. k \in Nat /\ cur \in Nat
      BY Typing
    <3>5. k = cur \/ (k < cur /\ k # cur)
      BY <3>4
    <3>6. rows'[k][mem'[k].rev].state = "checkpoint_acknowledged"
      <4>1. CASE k = cur
        BY <3>1, <4>1
      <4>2. CASE k < cur /\ k # cur
        BY <3>2, <3>3, <4>2 DEF Row
      <4> QED
        BY <3>5, <4>1, <4>2
    <3> QED
      BY <3>6 DEF Row
  <2>8. \/ pc' = "load"
        \/ pc' = "report" /\ cur = N
    BY <1>9, <2>1, TakesEffect, Typing DEF Checkpoint
  <2>9. \A k \in Ordinals : k <= N
    BY BatchAssumption DEF Ordinals, BatchAssumption
  <2> QED
    BY <2>3, <2>5, <2>6, <2>7, <2>8, <2>9 DEF RowInv, SavedWork, PlaceInv
<1>10. CASE SaveReport
  BY <1>10, RowsQuiet DEF SaveReport, server, bounds
<1>11. CASE CreateSnapshot
  BY <1>11, RowsQuiet DEF CreateSnapshot, server, store, bounds
<1>12. CASE AdvanceChangeSet
  BY <1>12, RowsQuiet DEF AdvanceChangeSet, server, bounds
<1>13. CASE Complete
  BY <1>13, RowsQuiet DEF Complete, bounds
<1>14. CASE WorkOnTask
  BY <1>14, RowsQuiet DEF WorkOnTask, server, store, bounds
<1>15. CASE CheckpointLost
  <2>1. TakesCheckpoint /\ Saved(cur) /\ rows' = rows /\ pc' = "off"
    BY <1>15 DEF CheckpointLost, RowInv, PlaceInv, store
  <2>2. \A k \in Ordinals : mem'[k].rev = mem[k].rev
    BY <2>1, TakesEffect
  <2>3. \A k \in Ordinals : Row(k)' = Row(k) /\ Saved(k)' = Saved(k)
    BY <2>1, <2>2 DEF Row, Saved
  <2>4. \A k \in Ordinals : Saved(k)' => Written(Row(k)'.tree) = WorkUpTo(k)'
    BY <2>3, RowsStable
  <2>5. PersistedBeforeAdvancing'
    <3> SUFFICES ASSUME NEW k \in Ordinals, mem'[k].state = "completed"
                 PROVE  Saved(k)' /\ Row(k)'.tree = mem'[k].tree
      BY DEF PersistedBeforeAdvancing
    <3>1. CASE k = cur
      BY <2>1, <2>3, <3>1, TakesEffect
    <3>2. CASE k # cur
      BY <2>1, <2>3, <3>2, TakesEffect DEF RowInv, PersistedBeforeAdvancing
    <3> QED
      BY <3>1, <3>2
  <2> QED
    BY <2>1, <2>4, <2>5 DEF RowInv, SavedWork, PlaceInv
<1>16. CASE Abandon
  BY <1>16, RowsQuiet DEF Abandon, server, store
<1>17. CASE FailLocally
  BY <1>17, RowsQuiet DEF FailLocally, store
<1>18. CASE DaemonDies
  BY <1>18, RowsQuiet DEF DaemonDies, server, store
<1>19. CASE EditWorktree
  BY <1>19, RowsQuiet DEF EditWorktree, server, store, bounds
<1>20. CASE UNCHANGED vars
  BY <1>20, RowsQuiet DEF vars
<1> QED
  BY <1>1, <1>2, <1>3, <1>4, <1>5, <1>6, <1>7, <1>8, <1>9, <1>10, <1>11, <1>12,
     <1>13, <1>14, <1>15, <1>16, <1>17, <1>18, <1>19, <1>20 DEF Next, Execute


\* While the rows and the tasks stay, the work and the snapshot's do.
LEMMA WorkKept ==
  ASSUME UNCHANGED <<rows, mem>>
  PROVE  /\ \A n : WorkUpTo(n)' = WorkUpTo(n)
         /\ SnapshotIsReportedWork /\ ref' = ref => SnapshotIsReportedWork'
<1>1. ASSUME NEW n PROVE WorkUpTo(n)' = WorkUpTo(n)
  BY DEF WorkUpTo, CompletedTurn, Row
<1>2. ASSUME SnapshotIsReportedWork, ref' = ref
      PROVE  SnapshotIsReportedWork'
  BY <1>2 DEF SnapshotIsReportedWork, CompletedTurn, Row, Written
<1> QED
  BY <1>1, <1>2

\* A step that leaves the rows, the tasks and the snapshot alone keeps TreeInv when
\* it leaves the worktree alone, but for edits, or leads where nobody relies on it.
LEMMA TreeQuiet ==
  ASSUME TreeInv, UNCHANGED <<rows, mem, cur, ref, turns>>,
         \/ pend' = pend \/ pend' = <<>>,
         \/ pc' = pc /\ Written(tree') = Written(tree)
         \/ /\ pc' \notin {"turn", "result", "checkpoint", "report"}
            /\ Written(tree') = Written(tree) \/ pend = <<>>
  PROVE  TreeInv'
<1>1. \A n : WorkUpTo(n)' = WorkUpTo(n)
  BY WorkKept
<1>2. SnapshotIsReportedWork'
  BY WorkKept DEF TreeInv
<1>3. WorkUpTo(cur)' = WorkUpTo(cur) /\ WorkUpTo(cur - 1)' = WorkUpTo(cur - 1)
  BY <1>1
<1>4. Written(tree)' = Written(tree')
  BY DEF Written
<1> QED
  BY <1>2, <1>3, <1>4 DEF TreeInv, TreeHas

\* Every step keeps what the worktree and the snapshot hold.
LEMMA TreeStep ==
  ASSUME TypeOK, OrderInv, LeaseInv, RowInv, TreeInv, [Next]_vars
  PROVE  TreeInv'
<1>1. CASE ClaimRun
  BY <1>1, TreeQuiet DEF ClaimRun, server, store, bounds, Entry
<1>2. CASE RecoverRun
  BY <1>2, TreeQuiet DEF RecoverRun, server, store, bounds, Entry
<1>3. CASE LeaseExpires
  <2>1. CASE mem' = mem
    BY <1>3, <2>1, RevisionEffect, TreeQuiet
  <2>2. CASE mem' # mem
    <3>1. mem[cur].state # "completed"
      BY <1>3, <2>2, RevisionEffect, Typing
    <3>2. pend' = <<>> /\ ref' = <<>> /\ pc' \notin {"turn", "result", "checkpoint", "report"}
      BY <1>3, <3>1, RevisionEffect DEF LeaseInv, LeaseExpires, ResumeRun
    <3> QED
      BY <3>2 DEF TreeInv, SnapshotIsReportedWork
  <2> QED
    BY <2>1, <2>2
<1>4. CASE ResumeRun
  <2>1. CASE mem' = mem
    BY <1>4, <2>1, RevisionEffect, TreeQuiet
  <2>2. CASE mem' # mem
    <3>1. mem[cur].state # "completed"
      BY <1>4, <2>2, RevisionEffect, Typing
    <3>2. pend' = <<>> /\ ref' = <<>> /\ pc' \notin {"turn", "result", "checkpoint", "report"}
      BY <1>4, <3>1, RevisionEffect DEF LeaseInv, LeaseExpires, ResumeRun
    <3> QED
      BY <3>2 DEF TreeInv, SnapshotIsReportedWork
  <2> QED
    BY <2>1, <2>2
<1>5. CASE LoadTask
  <2>1. /\ UNCHANGED <<mem, cur>> /\ pend' = <<>> /\ ref' = <<>>
        /\ cur \in Ordinals /\ tree' = CheckpointTree(cur)
    BY <1>5, Typing DEF LoadTask, server, LeaseInv
  <2>2. \A k \in Ordinals : Row(k)'.turn = Row(k).turn
    BY <1>5, <2>1, LoadEffect, Typing DEF Row
  <2>3. \A n \in 0..cur : WorkUpTo(n)' = WorkUpTo(n)
    <3>1. \A n \in 0..cur : \A j \in 1..n : j \in Ordinals
      BY Typing, BatchAssumption DEF Ordinals, BatchAssumption
    <3> QED
      BY <2>2, <3>1, WorkStable
  <2>4. CASE Saved(cur)
    <3>1. Written(tree') = WorkUpTo(cur)
      BY <2>1, <2>4 DEF CheckpointTree, RowInv, SavedWork
    <3>2. WorkUpTo(cur)' = WorkUpTo(cur)
      BY <2>1, <2>3, Typing
    <3> QED
      BY <1>5, <2>1, <2>4, <3>1, <3>2, LoadEffect
      DEF TreeInv, TreeHas, SnapshotIsReportedWork, Written
  <2>5. CASE ~Saved(cur)
    <3>1. Written(tree') = WorkUpTo(cur - 1)
      <4>1. CASE cur = 1
        <5>1. tree' = {}
          BY <2>1, <2>5, <4>1 DEF CheckpointTree
        <5>2. 1..(cur - 1) = {}
          BY <4>1
        <5> QED
          BY <5>1, <5>2 DEF Written, WorkUpTo
      <4>2. CASE cur > 1
        <5>1. cur - 1 \in Ordinals /\ cur - 1 < cur
          BY <2>1, <4>2, BatchAssumption DEF Ordinals, BatchAssumption
        <5>2. tree' = mem[cur - 1].tree
          BY <2>1, <2>5, <4>2 DEF CheckpointTree
        <5>3. Saved(cur - 1) /\ Row(cur - 1).tree = mem[cur - 1].tree
          BY <5>1 DEF OrderInv, RowInv, PersistedBeforeAdvancing
        <5> QED
          BY <5>1, <5>2, <5>3 DEF RowInv, SavedWork
      <4> QED
        BY <2>1, <4>1, <4>2, Typing DEF Ordinals
    <3>2. WorkUpTo(cur - 1)' = WorkUpTo(cur - 1)
      BY <2>1, <2>3, Typing DEF Ordinals
    <3>3. <<"part", turns'>> \notin WorkUpTo(cur - 1)
      BY DEF WorkUpTo
    <3>4. Written(tree') \ {<<"part", turns'>>} = WorkUpTo(cur - 1)
      BY <3>1, <3>3
    <3> QED
      BY <1>5, <2>1, <2>5, <3>2, <3>4, LoadEffect
      DEF TreeInv, TreeHas, SnapshotIsReportedWork, Written
  <2> QED
    BY <2>4, <2>5
<1>6. CASE TurnSucceeds
  <2>1. /\ UNCHANGED <<rows, mem, cur, turns>> /\ pend' = <<>> /\ ref' = <<>>
        /\ pc = "turn" /\ pc' = "result"
    BY <1>6 DEF TurnSucceeds, server, store, bounds, LeaseInv
  <2>2. Written(tree') = (Written(tree) \ {<<"part", turns>>}) \cup {<<"whole", turns>>}
    BY <1>6 DEF TurnSucceeds, Written
  <2>3. Written(tree') = WorkUpTo(cur - 1) \cup {<<"whole", turns>>}
    BY <2>1, <2>2 DEF TreeInv
  <2>4. WorkUpTo(cur - 1)' = WorkUpTo(cur - 1)
    BY <2>1, WorkKept
  <2> QED
    BY <2>1, <2>3, <2>4 DEF TreeInv, SnapshotIsReportedWork, Written
<1>7. CASE PauseRun
  BY <1>7, TreeQuiet DEF PauseRun, store, bounds
<1>8. CASE SaveTurn
  <2>1. /\ UNCHANGED <<cur, turns, tree>> /\ pend' = <<>> /\ ref' = <<>>
        /\ pc = "result" /\ pc' = "checkpoint"
    BY <1>8 DEF SaveTurn, server, bounds, LeaseInv
  <2>2. WorkUpTo(cur)' = WorkUpTo(cur - 1) \cup {<<"whole", turns>>}
    BY <1>8, SaveAddsWork
  <2>3. Written(tree') = WorkUpTo(cur)'
    BY <2>1, <2>2 DEF TreeInv
  <2> QED
    BY <2>1, <2>3 DEF TreeInv, TreeHas, SnapshotIsReportedWork, Written
<1>9. CASE Checkpoint
  <2>1. /\ tree' = tree /\ pend' = <<>> /\ ref' = <<>>
        /\ TreeHas(cur) /\ Saved(cur) /\ TakesCheckpoint
    BY <1>9 DEF Checkpoint, LeaseInv, RowInv, PlaceInv, TreeInv
  <2>2. CASE pc' = "load"
    BY <2>1, <2>2 DEF TreeInv, SnapshotIsReportedWork
  <2>3. CASE pc' = "report"
    <3>1. cur' = cur /\ cur = N
      BY <1>9, <2>1, <2>3, TakesEffect, Typing DEF Checkpoint
    <3>2. \A j \in 1..cur : Row(j)'.turn = Row(j).turn
      BY <1>9, <2>1, <3>1, CheckpointKeeps DEF Ordinals
    <3>3. WorkUpTo(cur)' = WorkUpTo(cur)
      BY <3>1, <3>2, WorkStable
    <3> QED
      BY <2>1, <2>3, <3>1, <3>3 DEF TreeInv, TreeHas, SnapshotIsReportedWork, Written
  <2> QED
    BY <1>9, <2>2, <2>3 DEF Checkpoint
<1>10. CASE SaveReport
  <2>1. UNCHANGED <<rows, mem, cur, ref, tree>> /\ pc' = "snapshot" /\ TreeHas(cur)
    BY <1>10 DEF SaveReport, server, bounds, TreeInv
  <2>2. WorkUpTo(cur)' = WorkUpTo(cur) /\ SnapshotIsReportedWork'
    BY <2>1, WorkKept DEF TreeInv
  <2> QED
    BY <2>1, <2>2 DEF TreeInv, TreeHas, Written
<1>11. CASE CreateSnapshot
  <2>1. /\ UNCHANGED <<rows, mem, cur, tree, pend, pc>> /\ pc = "snapshot"
        /\ ref' = <<tree>> /\ TreeHas(cur) /\ cur = N
    BY <1>11 DEF CreateSnapshot, server, store, bounds, LeaseInv, TreeInv, OrderInv
  <2>2. WorkUpTo(cur)' = WorkUpTo(cur)
    BY <2>1, WorkKept
  <2>3. Written(ref'[1]) = WorkUpTo(N)'
    BY <2>1, <2>2 DEF TreeHas
  <2>4. SnapshotIsReportedWork'
    BY <2>3 DEF SnapshotIsReportedWork, WorkUpTo, Ordinals, Written
  <2> QED
    BY <2>1, <2>2, <2>4 DEF TreeInv, TreeHas, Written
<1>12. CASE AdvanceChangeSet
  BY <1>12, TreeQuiet DEF AdvanceChangeSet, server, bounds
<1>13. CASE Complete
  BY <1>13, TreeQuiet DEF Complete, bounds
<1>14. CASE WorkOnTask
  <2>1. /\ UNCHANGED <<rows, mem, cur, turns>> /\ pend' = <<>> /\ ref' = <<>>
        /\ pc = "turn" /\ pc' = "turn"
    BY <1>14 DEF WorkOnTask, server, store, bounds, LeaseInv
  <2>2. Written(tree') = Written(tree) \cup {<<"part", turns>>}
    BY <1>14 DEF WorkOnTask, Written
  <2>3. Written(tree') \ {<<"part", turns>>} = WorkUpTo(cur - 1)
    BY <2>1, <2>2 DEF TreeInv
  <2>4. WorkUpTo(cur - 1)' = WorkUpTo(cur - 1)
    BY <2>1, WorkKept
  <2> QED
    BY <2>1, <2>3, <2>4 DEF TreeInv, SnapshotIsReportedWork, Written
<1>15. CASE CheckpointLost
  <2>1. pend' = <<>> /\ ref' = <<>> /\ pc' = "off"
    BY <1>15 DEF CheckpointLost, store, LeaseInv
  <2> QED
    BY <2>1 DEF TreeInv, SnapshotIsReportedWork
<1>16. CASE Abandon
  BY <1>16, TreeQuiet DEF Abandon, server, store
<1>17. CASE FailLocally
  <2>1. tree' = tree \/ pend = <<>>
    BY <1>17 DEF FailLocally, Interrupted, LeaseInv
  <2>2. Written(tree') = Written(tree) \/ pend = <<>>
    BY <2>1
  <2> QED
    BY <1>17, <2>2, TreeQuiet DEF FailLocally, store
<1>18. CASE DaemonDies
  <2>1. tree' = tree \/ pend = <<>>
    BY <1>18 DEF DaemonDies, Interrupted, LeaseInv
  <2>2. Written(tree') = Written(tree) \/ pend = <<>>
    BY <2>1
  <2> QED
    BY <1>18, <2>2, TreeQuiet DEF DaemonDies, server, store
<1>19. CASE EditWorktree
  <2>1. Written(tree') = Written(tree)
    BY <1>19 DEF EditWorktree, Written
  <2> QED
    BY <1>19, <2>1, TreeQuiet DEF EditWorktree, server, store
<1>20. CASE UNCHANGED vars
  BY <1>20, TreeQuiet DEF vars
<1> QED
  BY <1>1, <1>2, <1>3, <1>4, <1>5, <1>6, <1>7, <1>8, <1>9, <1>10, <1>11, <1>12,
     <1>13, <1>14, <1>15, <1>16, <1>17, <1>18, <1>19, <1>20 DEF Next, Execute


-----------------------------------------------------------------------------
(* The invariant and the theorems *)

\* The invariant holds in every reachable state.
LEMMA BatchInductive == Spec => []BatchInv
<1>1. Init => BatchInv
  <2> SUFFICES ASSUME Init
               PROVE  BatchInv
    OBVIOUS
  <2>1. /\ Ordinals \subseteq Nat /\ 1 \in Ordinals /\ \A k \in Ordinals : k >= 1
        /\ 1 \in 1..MaxRev /\ 0 \in 0..MaxTurns /\ 0 \in 0..MaxEdits
        /\ 0 \in 0..MaxFaults /\ 0 \in 0..MaxDeaths
    BY BatchAssumption DEF BatchAssumption, Ordinals
  <2>2. TypeOK
    BY <2>1 DEF Init, TypeOK, RunState, RowState, NoRow, NoTurn, Steps
  <2>3. \A k \in Ordinals : ~Saved(k) /\ mem[k].state = "pending"
    BY <2>1 DEF Init, Saved, Row, NoRow
  <2>4. \A k \in Ordinals, v \in 1..MaxRev : rows[k][v] = NoRow
    BY DEF Init
  <2>5. OrderInv
    BY <2>1, <2>3, <2>4 DEF Init, OrderInv
  <2>6. RowInv
    BY <2>3, <2>4 DEF Init, RowInv, PersistedBeforeAdvancing, SavedWork, PlaceInv, NoRow, SavedStates
  <2>7. LeaseInv /\ TreeInv
    BY DEF Init, LeaseInv, TreeInv, SnapshotIsReportedWork
  <2> QED
    BY <2>2, <2>5, <2>6, <2>7 DEF BatchInv
<1>2. BatchInv /\ [Next]_vars => BatchInv'
  BY TypeStep, OrderStep, LeaseStep, RowStep, TreeStep DEF BatchInv
<1> QED
  BY <1>1, <1>2, PTL DEF Spec

\* Every variable has its type; in particular a report names a turn for every task.
THEOREM BatchTypeCorrect == Spec => []TypeOK
<1>1. BatchInv => TypeOK
  BY DEF BatchInv
<1> QED
  BY <1>1, BatchInductive, PTL

\* What the server has of a completed task, the store has: wherever the daemon dies
\* and whichever answer is lost.
THEOREM PersistenceSafety == Spec => []PersistedBeforeAdvancing
<1>1. BatchInv => PersistedBeforeAdvancing
  BY DEF BatchInv, RowInv
<1> QED
  BY <1>1, BatchInductive, PTL

\* The snapshot holds the whole work of the turns that completed the tasks, and
\* nothing of a turn that was interrupted.
THEOREM SnapshotSafety == Spec => []SnapshotIsReportedWork
<1>1. BatchInv => SnapshotIsReportedWork
  BY DEF BatchInv, TreeInv
<1> QED
  BY <1>1, BatchInductive, PTL

\* A turn is only started for a task that the server has not completed.
THEOREM NoRerun == Spec => CompletedNotRerun
<1>1. ASSUME BatchInv, [Next]_vars, turns' # turns
      PROVE  mem[cur].state = "pending"
  <2>1. LoadTask
    BY <1>1 DEF Next, Execute, vars, bounds, ClaimRun, RecoverRun, LeaseExpires, ResumeRun,
         TurnSucceeds, PauseRun, SaveTurn, Checkpoint, SaveReport, CreateSnapshot,
         AdvanceChangeSet, Complete, WorkOnTask, CheckpointLost, Abandon, FailLocally,
         DaemonDies, EditWorktree
  <2>2. ~Saved(cur)
    BY <1>1, <2>1 DEF LoadTask
  <2>3. TypeOK /\ RowInv
    BY <1>1 DEF BatchInv
  <2> QED
    BY <2>2, <2>3, Typing DEF RowInv, PersistedBeforeAdvancing, TaskType
<1> QED
  BY <1>1, BatchInductive, PTL DEF Spec, CompletedNotRerun
=============================================================================
