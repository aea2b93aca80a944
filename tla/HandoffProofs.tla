---------------------------- MODULE HandoffProofs ----------------------------
(***************************************************************************)
(* Proofs about Handoff, for any number of `changes apply` processes and   *)
(* any value of the bounds.                                                *)
(***************************************************************************)
EXTENDS Handoff, TLAPS

-----------------------------------------------------------------------------
(* Updates of the rows keep them in their types. *)

\* What the transitions of a change set write is a change set.
LEMMA ChangeSetUpdates ==
  ASSUME cs \in ChangeSet
  PROVE  /\ Superseded \in ChangeSet
         /\ \A s \in CsState : [cs EXCEPT !.state = s] \in ChangeSet
         /\ \A n \in Nat : Accepted(n) \in ChangeSet
         /\ \A s \in RunState :
              [cs EXCEPT !.state = "review_ready", !.status = s] \in ChangeSet
         /\ cs.state \in CsState /\ cs.val \in 0..MaxVal
         /\ cs.rev \in Nat /\ cs.acc \in Nat
<1>1. cs.rev + 1 \in Nat
  BY DEF ChangeSet
<1>2. Superseded \in ChangeSet
  BY <1>1 DEF ChangeSet, Superseded, CsState, ValStatus, RunState
<1>3. \A s \in CsState : [cs EXCEPT !.state = s] \in ChangeSet
  BY DEF ChangeSet
<1>4. \A n \in Nat : Accepted(n) \in ChangeSet
  BY DEF ChangeSet, Accepted, CsState
<1>5. \A s \in RunState :
        [cs EXCEPT !.state = "review_ready", !.status = s] \in ChangeSet
  BY DEF ChangeSet, CsState, ValStatus
<1>6. cs.state \in CsState /\ cs.val \in 0..MaxVal /\ cs.rev \in Nat /\ cs.acc \in Nat
  BY DEF ChangeSet
<1> QED
  BY <1>2, <1>3, <1>4, <1>5, <1>6

\* The start of a validation and its cancellation move the revision by one.
LEMMA ValidationUpdates ==
  ASSUME cs \in ChangeSet, MaxVal \in Nat
  PROVE  /\ cs.val < MaxVal =>
              [cs EXCEPT !.state = "validating", !.val = @ + 1,
                         !.status = "running"] \in ChangeSet
         /\ \A v \in 0..MaxVal : \A s \in ValStatus : v # 0 =>
              [cs EXCEPT !.state = "review_ready", !.val = v - 1, !.status = s]
                \in ChangeSet
<1>1. ASSUME cs.val < MaxVal
      PROVE  [cs EXCEPT !.state = "validating", !.val = @ + 1,
                         !.status = "running"] \in ChangeSet
  <2>1. cs.val + 1 \in 0..MaxVal
    BY <1>1 DEF ChangeSet
  <2> QED
    BY <2>1 DEF ChangeSet, CsState, ValStatus, RunState
<1>2. ASSUME NEW v \in 0..MaxVal, NEW s \in ValStatus, v # 0
      PROVE  [cs EXCEPT !.state = "review_ready", !.val = v - 1, !.status = s]
               \in ChangeSet
  <2>1. v - 1 \in 0..MaxVal
    BY <1>2
  <2> QED
    BY <2>1 DEF ChangeSet, CsState
<1> QED
  BY <1>1, <1>2

\* What is written to the handoffs row is such a row.
LEMMA RowUpdates ==
  ASSUME row \in Row
  PROVE  /\ \A s \in RowState : [row EXCEPT !.state = s] \in Row
         /\ \A s \in RowState : [row EXCEPT !.state = s, !.due = TRUE] \in Row
         /\ [row EXCEPT !.due = TRUE] \in Row
         /\ \A r \in Nat : Consumed(r) \in Row
<1>1. \A s \in RowState : [row EXCEPT !.state = s] \in Row
  BY DEF Row
<1>2. \A s \in RowState : [row EXCEPT !.state = s, !.due = TRUE] \in Row
  BY DEF Row
<1>3. [row EXCEPT !.due = TRUE] \in Row
  BY DEF Row
<1>4. ASSUME NEW r \in Nat PROVE Consumed(r) \in Row
  <2>1. CASE row.state = "none"
    BY <2>1 DEF Row, Consumed
  <2>2. CASE row.state \in {"retry_scheduled", "blocked"}
    BY <2>2 DEF Row, RowState, Consumed
  <2>3. CASE row.state \notin {"retry_scheduled", "blocked"}
    BY <2>3 DEF Row, RowState, Consumed
  <2> QED
    BY <2>1, <2>2, <2>3
<1> QED
  BY <1>1, <1>2, <1>3, <1>4

\* schedule_handoff_retry and begin_handoff insert or update such a row.
LEMMA RowInserts ==
  ASSUME row \in Row, cs \in ChangeSet, loc \in [Procs -> ChangeSet],
         MaxVal \in Nat
  PROVE  /\ \A b \in BOOLEAN : ScheduledRow(b) \in Row
         /\ \A p \in Procs : BegunRow(p) \in Row
<1>1. ASSUME NEW b \in BOOLEAN PROVE ScheduledRow(b) \in Row
  <2>1. cs.rev \in Nat /\ cs.val \in 0..MaxVal
    BY DEF ChangeSet
  <2>2. (~b) \in BOOLEAN
    OBVIOUS
  <2>3. CASE row.state = "none"
    BY <2>1, <2>2, <2>3 DEF Row, RowState, ScheduledRow, NoRow
  <2>4. CASE row.state # "none"
    BY <2>1, <2>2, <2>4 DEF Row, RowState, ScheduledRow
  <2> QED
    BY <2>3, <2>4
<1>2. ASSUME NEW p \in Procs PROVE BegunRow(p) \in Row
  <2>1. loc[p].rev \in Nat /\ loc[p].val \in 0..MaxVal
    BY DEF ChangeSet
  <2>2. CASE row.state = "none"
    BY <2>1, <2>2 DEF Row, RowState, BegunRow, NoRow
  <2>3. CASE row.state \in {"retry_requested", "retry_scheduled"}
    BY <2>3 DEF Row, RowState, BegunRow
  <2>4. CASE row.state \notin {"none", "retry_requested", "retry_scheduled"}
    BY <2>4 DEF BegunRow
  <2> QED
    BY <2>2, <2>3, <2>4
<1> QED
  BY <1>1, <1>2

\* What the server makes of a run is a run.
LEMMA ServerUpdates ==
  ASSUME srv \in Server, cs \in ChangeSet
  PROVE  /\ \A s \in SrvState : [srv EXCEPT !.state = s] \in Server
         /\ SupersededOnServer \in Server
         /\ [srv EXCEPT !.state = "accepted",
                        !.acc = [val |-> srv.val, rev |-> srv.rev]] \in Server
         /\ [srv EXCEPT !.retry = @ + 1] \in Server
         /\ srv.state \in SrvState /\ srv.retry \in Nat /\ srv.rev \in Nat
<1>1. \A s \in SrvState : [srv EXCEPT !.state = s] \in Server
  BY DEF Server
<1>2. SupersededOnServer \in Server
  <2>1. cs.rev \in Nat
    BY DEF ChangeSet
  <2> QED
    BY <2>1 DEF Server, SrvState, SupersededOnServer
<1>3. [srv EXCEPT !.state = "accepted",
                  !.acc = [val |-> srv.val, rev |-> srv.rev]] \in Server
  <2>1. [val |-> srv.val, rev |-> srv.rev] \in Binding
    BY DEF Server, Binding
  <2> QED
    BY <2>1 DEF Server, SrvState
<1>4. [srv EXCEPT !.retry = @ + 1] \in Server
  BY DEF Server
<1>5. srv.state \in SrvState /\ srv.retry \in Nat /\ srv.rev \in Nat
  BY DEF Server
<1> QED
  BY <1>1, <1>2, <1>3, <1>4, <1>5

\* The values the locals of a pass are reset to.
LEMMA InitialTypes ==
  ASSUME MaxVal \in Nat
  PROVE  /\ InitialChangeSet \in ChangeSet /\ InitialRemote \in Remote
         /\ NoRow \in Row
BY DEF InitialChangeSet, InitialRemote, NoRow, ChangeSet, Remote, Row, CsState,
       RowState, SrvState, ValStatus, RunState

\* A report of the validation command is taken down as it is.
LEMMA ReportedType ==
  ASSUME srv \in Server, test \in TestType, NEW s \in ValStatus
  PROVE  Reported(s) \in Server
<1>1. test.val \in 0..MaxVal
  BY DEF TestType
<1> QED
  BY <1>1 DEF Reported, Server

\* A failed call leaves a row of the right type, or the row as it was.
LEMMA RecordFailureType ==
  ASSUME TypeOK, NEW p \in Procs, NEW b \in BOOLEAN, RecordFailure(p, b)
  PROVE  row' \in Row /\ pc' \in [Procs -> PcState]
<1>1. AfterHandoffs(p) \in PcState /\ "down" \in PcState
  BY DEF AfterHandoffs, PcState
<1>2. pc' \in [Procs -> PcState]
  BY <1>1 DEF TypeOK, RecordFailure, Goto
<1>3. row' \in Row
  BY BoundAssumption, RowInserts DEF TypeOK, RecordFailure
<1> QED
  BY <1>2, <1>3

-----------------------------------------------------------------------------
(* Type correctness *)

\* Every step keeps every variable in its type.
LEMMA TypeStep ==
  ASSUME TypeOK, [Next]_vars
  PROVE  TypeOK'
<1> USE ProcAssumption, BoundAssumption, InitialTypes
        DEF TypeOK, PcState, Goto, AfterHandoffs, Forget, Fault, Edit,
            localVars, procVars, envVars
<1>1. ASSUME NEW p \in Procs, ReconcileIntegrity(p) PROVE TypeOK'
  <2>1. cs' \in ChangeSet
    BY <1>1, ChangeSetUpdates DEF ReconcileIntegrity
  <2>2. pc' \in [Procs -> PcState]
    BY <1>1 DEF ReconcileIntegrity
  <2> QED
    BY <1>1, <2>1, <2>2 DEF ReconcileIntegrity
<1>2. ASSUME NEW p \in Procs, PostSupersede(p) PROVE TypeOK'
  <2>1. srv' \in Server
    BY <1>2, ServerUpdates DEF PostSupersede
  <2>2. UNCHANGED faults \/ Fault
    BY <1>2 DEF PostSupersede
  <2>3. faults' \in Nat
    BY <2>2
  <2>4. ports' \in BOOLEAN /\ pc' \in [Procs -> PcState]
    BY <1>2 DEF PostSupersede
  <2> QED
    BY <1>2, <2>1, <2>3, <2>4 DEF PostSupersede
<1>3. ASSUME NEW p \in Procs, ReconcileTerminalResources(p) PROVE TypeOK'
  <2>1. cs' \in ChangeSet
    <3>1. CASE srv.state \in {"rejected", "superseded"}
      BY <1>3, <3>1, ChangeSetUpdates DEF ReconcileTerminalResources, CsState
    <3>2. CASE srv.state \notin {"rejected", "superseded"}
      BY <1>3, <3>2 DEF ReconcileTerminalResources
    <3> QED
      BY <3>1, <3>2
  <2>2. ports' \in BOOLEAN /\ pc' \in [Procs -> PcState]
    BY <1>3 DEF ReconcileTerminalResources
  <2> QED
    BY <1>3, <2>1, <2>2 DEF ReconcileTerminalResources
<1>4. ASSUME NEW p \in Procs, RequestHandoffRetry(p) PROVE TypeOK'
  BY <1>4, RowUpdates DEF RequestHandoffRetry, RowState
<1>5. ASSUME NEW p \in Procs, EndCommand(p) PROVE TypeOK'
  BY <1>5 DEF EndCommand
<1>6. ASSUME NEW p \in Procs, PendingHandoffs(p) PROVE TypeOK'
  <2>1. [state |-> srv.state, retry |-> srv.retry] \in Remote
    BY ServerUpdates DEF Remote
  <2>2. rem' \in [Procs -> Remote] /\ faults' \in Nat /\ pc' \in [Procs -> PcState]
    BY <1>6, <2>1 DEF PendingHandoffs
  <2> QED
    BY <1>6, <2>2 DEF PendingHandoffs
<1>7. ASSUME NEW p \in Procs, PrepareHandoff(p) PROVE TypeOK'
  <2>1. rem[p].retry \in Nat
    BY DEF Remote
  <2>2. row' \in Row
    BY <1>7, <2>1, RowUpdates DEF PrepareHandoff
  <2>3. cs' \in ChangeSet
    BY <1>7, ChangeSetUpdates DEF PrepareHandoff, CsState
  <2>4. pc' \in [Procs -> PcState] /\ loc' \in [Procs -> ChangeSet]
    BY <1>7 DEF PrepareHandoff
  <2> QED
    BY <1>7, <2>2, <2>3, <2>4 DEF PrepareHandoff
<1>8. ASSUME NEW p \in Procs, CompareBinding(p) PROVE TypeOK'
  BY <1>8 DEF CompareBinding
<1>9. ASSUME NEW p \in Procs, AcceptChangeSet(p) PROVE TypeOK'
  <2>1. loc[p].rev \in Nat
    BY DEF ChangeSet
  <2>a. Accepted(loc[p].rev) \in ChangeSet
    BY <2>1, ChangeSetUpdates
  <2>2. cs' \in ChangeSet
    BY <1>9, <2>a DEF AcceptChangeSet
  <2>3. loc' \in [Procs -> ChangeSet] /\ pc' \in [Procs -> PcState]
    BY <1>9, <2>2 DEF AcceptChangeSet
  <2> QED
    BY <1>9, <2>2, <2>3 DEF AcceptChangeSet
<1>10. ASSUME NEW p \in Procs, FilterHandoff(p) PROVE TypeOK'
  BY <1>10 DEF FilterHandoff
<1>11. ASSUME NEW p \in Procs, StartHandoff(p) PROVE TypeOK'
  <2>1. srv' \in Server
    BY <1>11, ServerUpdates DEF StartHandoff, SrvState
  <2>2. row' \in Row /\ pc' \in [Procs -> PcState]
    BY <1>11, RecordFailureType DEF StartHandoff
  <2>3. UNCHANGED faults \/ Fault
    BY <1>11 DEF StartHandoff
  <2>4. faults' \in Nat
    BY <2>3
  <2>5. ack' \in [Procs -> BOOLEAN]
    BY <1>11 DEF StartHandoff
  <2> QED
    BY <1>11, <2>1, <2>2, <2>4, <2>5 DEF StartHandoff
<1>12. ASSUME NEW p \in Procs, DecideHandoff(p) PROVE TypeOK'
  BY <1>12 DEF DecideHandoff
<1>13. ASSUME NEW p \in Procs, CheckAccepted(p) PROVE TypeOK'
  BY <1>13 DEF CheckAccepted
<1>14. ASSUME NEW p \in Procs, LockRepository(p) PROVE TypeOK'
  BY <1>14 DEF LockRepository
<1>15. ASSUME NEW p \in Procs, BeginHandoff(p) PROVE TypeOK'
  BY <1>15, RowInserts DEF BeginHandoff
<1>16. ASSUME NEW p \in Procs, UpdateRef(p) PROVE TypeOK'
  <2>1. pc' \in [Procs -> PcState] /\ faults' \in Nat
    BY <1>16 DEF UpdateRef
  <2>2. /\ ref' \in {"base", "snapshot", "other"} /\ moved' \in BOOLEAN
        /\ lock' \in Procs \cup {OtherProfile, Nobody}
    BY <1>16 DEF UpdateRef
  <2>3. /\ loc' \in [Procs -> ChangeSet] /\ rem' \in [Procs -> Remote]
        /\ head' \in [Procs -> {"base", "snapshot"}] /\ ack' \in [Procs -> BOOLEAN]
    BY <1>16 DEF UpdateRef
  <2> QED
    BY <1>16, <2>1, <2>2, <2>3 DEF UpdateRef
<1>17. ASSUME NEW p \in Procs, BlockHandoff(p) PROVE TypeOK'
  BY <1>17, RowUpdates DEF BlockHandoff, RowState
<1>18. ASSUME NEW p \in Procs, PromoteRunBranch(p) PROVE TypeOK'
  BY <1>18 DEF PromoteRunBranch
<1>19. ASSUME NEW p \in Procs, FinishHandoff(p) PROVE TypeOK'
  BY <1>19, RowUpdates DEF FinishHandoff, RowState
<1>20. ASSUME NEW p \in Procs, ReportBlocked(p) PROVE TypeOK'
  <2>1. srv' \in Server
    BY <1>20, ServerUpdates DEF ReportBlocked, SrvState
  <2>2. row' \in Row /\ pc' \in [Procs -> PcState]
    BY <1>20, RecordFailureType DEF ReportBlocked
  <2>3. UNCHANGED faults \/ Fault
    BY <1>20 DEF ReportBlocked
  <2>4. faults' \in Nat
    BY <2>3
  <2>5. ack' \in [Procs -> BOOLEAN]
    BY <1>20 DEF ReportBlocked
  <2> QED
    BY <1>20, <2>1, <2>2, <2>4, <2>5 DEF ReportBlocked
<1>21. ASSUME NEW p \in Procs, ReportApplied(p) PROVE TypeOK'
  <2>a. \A s \in CompletedStates : [srv EXCEPT !.state = s] \in Server
    BY ServerUpdates DEF SrvState, CompletedStates
  <2>b. srv' = srv \/ \E s \in CompletedStates : srv' = [srv EXCEPT !.state = s]
    BY <1>21, Zenon DEF ReportApplied
  <2>1. srv' \in Server
    BY <2>a, <2>b
  <2>2. row' \in Row /\ pc' \in [Procs -> PcState]
    BY <1>21, RecordFailureType DEF ReportApplied
  <2>3. UNCHANGED faults \/ Fault
    BY <1>21 DEF ReportApplied
  <2>4. faults' \in Nat
    BY <2>3
  <2>5. ack' \in [Procs -> BOOLEAN]
    BY <1>21 DEF ReportApplied
  <2> QED
    BY <1>21, <2>1, <2>2, <2>4, <2>5 DEF ReportApplied
<1>22. ASSUME NEW p \in Procs, SettleChangeSet(p) PROVE TypeOK'
  <2>1. cs' \in ChangeSet
    BY <1>22, ChangeSetUpdates DEF SettleChangeSet, CsState
  <2>2. pc' \in [Procs -> PcState] /\ loc' \in [Procs -> ChangeSet]
    BY <1>22 DEF SettleChangeSet
  <2> QED
    BY <1>22, <2>1, <2>2 DEF SettleChangeSet
<1>23. ASSUME NEW p \in Procs, AcknowledgeHandoff(p) PROVE TypeOK'
  <2>1. srv' \in Server
    BY <1>23, ServerUpdates DEF AcknowledgeHandoff, SrvState
  <2>2. row' \in Row /\ pc' \in [Procs -> PcState]
    BY <1>23, RecordFailureType DEF AcknowledgeHandoff
  <2>3. UNCHANGED faults \/ Fault
    BY <1>23 DEF AcknowledgeHandoff
  <2>4. faults' \in Nat
    BY <2>3
  <2>5. ack' \in [Procs -> BOOLEAN]
    BY <1>23 DEF AcknowledgeHandoff
  <2> QED
    BY <1>23, <2>1, <2>2, <2>4, <2>5 DEF AcknowledgeHandoff
<1>24. ASSUME NEW p \in Procs, ReleasePorts(p) PROVE TypeOK'
  BY <1>24 DEF ReleasePorts
<1>25. ASSUME NEW p \in Procs, ApplyCommand(p) PROVE TypeOK'
  BY <1>25 DEF ApplyCommand
<1>26. ASSUME NEW p \in Procs, ReconcilerDies(p) PROVE TypeOK'
  BY <1>26 DEF ReconcilerDies
<1>27. ASSUME NEW p \in Procs, RestartReconciler(p) PROVE TypeOK'
  BY <1>27 DEF RestartReconciler
<1>28. CASE BeginValidation
  <2>1. CASE MustSupersede /\ cs' = Superseded /\ UNCHANGED <<vruns, test>>
    BY <1>28, <2>1, ChangeSetUpdates DEF BeginValidation
  <2>2. CASE ~(MustSupersede /\ cs' = Superseded /\ UNCHANGED <<vruns, test>>)
    <3>a. cs.val < MaxVal
      BY <1>28, <2>2 DEF BeginValidation
    <3>b. cs.val \in 0..MaxVal /\ cs.rev \in Nat
      BY ChangeSetUpdates
    <3>1. cs.val < MaxVal /\ cs.val + 1 \in 1..MaxVal /\ cs.rev \in Nat
      BY <3>a, <3>b
    <3>2. cs' \in ChangeSet
      BY <1>28, <2>2, <3>1, ValidationUpdates DEF BeginValidation
    <3>3. vruns' \in [1..MaxVal -> RunState]
      BY <1>28, <2>2, <3>1 DEF BeginValidation, RunState
    <3>4. test' \in TestType /\ test'.val # 0
      BY <1>28, <2>2, <3>1 DEF BeginValidation, TestType
    <3> QED
      BY <1>28, <3>2, <3>3, <3>4 DEF BeginValidation
  <2> QED
    BY <2>1, <2>2
<1>29. CASE ReportStarted
  <2>1. srv' \in Server
    BY <1>29, ReportedType DEF ReportStarted, ValStatus, RunState
  <2>2. test' \in TestType /\ test'.val # 0
    BY <1>29 DEF ReportStarted, TestType
  <2>3. faults' \in Nat
    BY <1>29 DEF ReportStarted
  <2> QED
    BY <1>29, <2>1, <2>2, <2>3 DEF ReportStarted
<1>30. CASE CancelValidationStart
  <2>1. test' \in TestType /\ test'.pc = "idle"
    BY <1>30 DEF CancelValidationStart, TestType, NoTest
  <2>2. test.val \in 1..MaxVal
    BY <1>30 DEF CancelValidationStart, TestType
  <2>3. CASE cs.state = "validating" /\ cs.val = test.val
    <3> DEFINE st == IF test.val = 1 THEN "not_run" ELSE vruns[test.val - 1]
    <3>1. st \in ValStatus
      <4>1. test.val # 1 => test.val - 1 \in 1..MaxVal
        BY <2>2
      <4> QED
        BY <4>1 DEF ValStatus, RunState
    <3>2. test.val \in 0..MaxVal /\ test.val # 0
      BY <2>2
    <3>3. [cs EXCEPT !.state = "review_ready", !.val = test.val - 1, !.status = st]
            \in ChangeSet
      <4> HIDE DEF st
      <4> QED
        BY <3>1, <3>2, ValidationUpdates
    <3>4. cs' \in ChangeSet
      BY <1>30, <2>3, <3>3 DEF CancelValidationStart
    <3>5. vruns' \in [1..MaxVal -> RunState]
      BY <1>30, <2>2, <2>3 DEF CancelValidationStart, RunState
    <3> QED
      BY <1>30, <2>1, <3>4, <3>5 DEF CancelValidationStart
  <2>4. CASE ~(cs.state = "validating" /\ cs.val = test.val)
    BY <1>30, <2>1, <2>4 DEF CancelValidationStart
  <2> QED
    BY <2>3, <2>4
<1>31. CASE FinishValidation
  <2>1. test' \in TestType /\ (test'.pc # "idle" => test'.val # 0)
    BY <1>31 DEF FinishValidation, TestType, NoTest
  <2>2. test.val \in 1..MaxVal
    BY <1>31 DEF FinishValidation, TestType
  <2>3. cs' \in ChangeSet
    BY <1>31, ChangeSetUpdates DEF FinishValidation, RunState
  <2>4. vruns' \in [1..MaxVal -> RunState]
    BY <1>31, <2>2 DEF FinishValidation, RunState
  <2> QED
    BY <1>31, <2>1, <2>3, <2>4 DEF FinishValidation
<1>32. CASE ReportFinished
  <2>1. test' \in TestType /\ test'.pc = "idle"
    BY <1>32 DEF ReportFinished, TestType, NoTest
  <2>2. test.val \in 1..MaxVal
    BY <1>32 DEF ReportFinished, TestType
  <2>3. vruns[test.val] \in ValStatus
    BY <2>2 DEF ValStatus
  <2>4. srv' \in Server
    BY <1>32, <2>3, ReportedType DEF ReportFinished
  <2> QED
    BY <1>32, <2>1, <2>4 DEF ReportFinished
<1>33. CASE ValidationDies
  <2>1. test' \in TestType /\ test'.pc = "idle"
    BY <1>33 DEF ValidationDies, TestType, NoTest
  <2> QED
    BY <1>33, <2>1 DEF ValidationDies
<1>34. CASE Accept
  BY <1>34, ServerUpdates DEF Accept
<1>35. CASE Reject
  BY <1>35, ServerUpdates DEF Reject, SrvState
<1>36. CASE RetryInBrowser
  BY <1>36, ServerUpdates DEF RetryInBrowser
<1>37. CASE EditWorktree
  BY <1>37 DEF EditWorktree
<1>38. CASE EditBranch
  BY <1>38 DEF EditBranch
<1>39. CASE RetryTimeComes
  BY <1>39, RowUpdates DEF RetryTimeComes
<1>40. CASE OtherProfileLocks
  BY <1>40 DEF OtherProfileLocks
<1>41. CASE OtherProfileUnlocks
  BY <1>41 DEF OtherProfileUnlocks
<1>42. CASE UNCHANGED vars
  BY <1>42 DEF vars
<1> QED
  BY <1>1, <1>2, <1>3, <1>4, <1>5, <1>6, <1>7, <1>8, <1>9, <1>10, <1>11, <1>12, <1>13, <1>14, <1>15, <1>16, <1>17, <1>18, <1>19, <1>20, <1>21, <1>22, <1>23, <1>24, <1>25, <1>26, <1>27, <1>28, <1>29, <1>30, <1>31, <1>32, <1>33, <1>34, <1>35, <1>36, <1>37, <1>38, <1>39, <1>40, <1>41, <1>42
     DEF Next, Reconcile, Validate, User

\* Every variable always has its type.
THEOREM TypeCorrect == Spec => []TypeOK
<1>1. Init => TypeOK
  <2> SUFFICES ASSUME Init PROVE TypeOK
    OBVIOUS
  <2>1. cs \in ChangeSet /\ row \in Row
    BY BoundAssumption, InitialTypes DEF Init
  <2>2. srv \in Server /\ test \in TestType /\ (test.pc # "idle" => test.val # 0)
    BY BoundAssumption
       DEF Init, Server, Binding, NoBinding, SrvState, ValStatus, TestType, NoTest
  <2>3. vruns \in [1..MaxVal -> RunState]
    BY DEF Init, RunState
  <2>4. loc \in [Procs -> ChangeSet] /\ rem \in [Procs -> Remote]
    BY BoundAssumption, InitialTypes DEF Init
  <2>5. pc \in [Procs -> PcState]
    BY DEF Init, PcState
  <2> QED
    BY <2>1, <2>2, <2>3, <2>4, <2>5 DEF Init, TypeOK
<1>2. TypeOK /\ [Next]_vars => TypeOK'
  BY TypeStep
<1> QED
  BY <1>1, <1>2, PTL DEF Spec

-----------------------------------------------------------------------------
(* The inductive invariant *)

\* A scheduled retry never undoes an applied row, and identifies the change set.
LEMMA ScheduledEffect ==
  ASSUME row \in Row, cs \in ChangeSet, NEW b \in BOOLEAN
  PROVE  LET r == ScheduledRow(b)
         IN  /\ r.state # "none"
             /\ r.state = "applied" <=> row.state = "applied"
             /\ row.state = "none" => r.val = cs.val /\ r.rev = cs.rev
             /\ row.state # "none" => r.val = row.val /\ r.rev = row.rev
<1>1. CASE row.state = "none"
  BY <1>1 DEF ScheduledRow, NoRow
<1>2. CASE row.state # "none"
  BY <1>2 DEF ScheduledRow, Row
<1> QED
  BY <1>1, <1>2

\* What a failed call does to the row and to the process.
LEMMA FailureEffect ==
  ASSUME TypeOK, NEW p \in Procs, NEW b \in BOOLEAN, RecordFailure(p, b)
  PROVE  /\ \/ row' = row
            \/ /\ cs.acc # 0 /\ row'.state # "none"
               /\ row.state = "none" => row'.val = cs.val /\ row'.rev = cs.rev
               /\ row.state # "none" => row'.val = row.val /\ row'.rev = row.rev
         /\ row'.state = "applied" <=> row.state = "applied"
         /\ \E l \in {"down", "terminal", "exit"} : pc' = [pc EXCEPT ![p] = l]
BY ScheduledEffect DEF TypeOK, RecordFailure, Goto, AfterHandoffs

\* A browser retry that is consumed leaves the identity of the row alone.
LEMMA ConsumedEffect ==
  ASSUME row \in Row, NEW r \in Nat
  PROVE  /\ Consumed(r).state = "none" <=> row.state = "none"
         /\ Consumed(r).state = "applied" <=> row.state = "applied"
         /\ Consumed(r).val = row.val /\ Consumed(r).rev = row.rev
BY DEF Consumed, Row

\* The server supersedes a run without touching its acceptance.
LEMMA SupersededEffect ==
  ASSUME srv \in Server, cs \in ChangeSet, cs.rev > 0, srv.rev > 0
  PROVE  /\ SupersededOnServer.acc = srv.acc
         /\ SupersededOnServer.rev > 0
         /\ SupersededOnServer.state \in {"superseded", srv.state}
         /\ srv.state = "review" => SupersededOnServer.state = "superseded"
BY DEF SupersededOnServer, Server

\* A report on a validation leaves what the server has bound.
LEMMA ReportEffect ==
  ASSUME srv \in Server, NEW s
  PROVE  /\ Reported(s).acc = srv.acc /\ Reported(s).rev = srv.rev
         /\ Reported(s).state = srv.state
BY DEF Reported, Server

\* The end of a validation, or of its start, puts the change set back to review.
LEMMA ReviewEffect ==
  ASSUME cs \in ChangeSet, CancelValidationStart \/ FinishValidation
  PROVE  /\ cs' = cs \/ (cs.state = "validating" /\ cs'.state = "review_ready")
         /\ cs'.acc = cs.acc /\ cs'.rev = cs.rev
         /\ UNCHANGED <<row, branch, ref, lock, srv, pc, loc, head, moved>>
<1>1. UNCHANGED <<row, branch, ref, lock, srv, pc, loc, head, moved>>
  BY DEF CancelValidationStart, FinishValidation, procVars
<1>2. CASE CancelValidationStart
  <2>1. CASE cs' = cs
    BY <2>1, <1>1
  <2>2. CASE cs' # cs
    <3>1. /\ cs.state = "validating"
          /\ \E v, t : cs' = [cs EXCEPT !.state = "review_ready", !.val = v,
                                         !.status = t]
      BY <1>2, <2>2 DEF CancelValidationStart
    <3> QED
      BY <3>1, <1>1 DEF ChangeSet
  <2> QED
    BY <2>1, <2>2
<1>3. CASE FinishValidation
  <2>1. CASE cs' = cs
    BY <2>1, <1>1
  <2>2. CASE cs' # cs
    <3>1. /\ cs.state = "validating"
          /\ \E t : cs' = [cs EXCEPT !.state = "review_ready", !.status = t]
      BY <1>3, <2>2 DEF FinishValidation
    <3> QED
      BY <3>1, <1>1 DEF ChangeSet
  <2> QED
    BY <2>1, <2>2
<1> QED
  BY <1>2, <1>3

\* Superseding takes a change set out of review, and into the next revision.
LEMMA IntegrityEffect ==
  ASSUME cs \in ChangeSet
  PROVE  /\ Superseded.state = "superseded" /\ Superseded.acc = cs.acc
         /\ Superseded.rev = cs.rev + 1 /\ cs.rev \in Nat
BY DEF Superseded, ChangeSet

\* What the start and the reports of a hand-off do to the server's run.
LEMMA ReportsEffect ==
  ASSUME srv \in Server, NEW p,
         \/ StartHandoff(p) \/ ReportBlocked(p)
         \/ ReportApplied(p) \/ AcknowledgeHandoff(p)
  PROVE  /\ srv'.acc = srv.acc /\ srv'.rev = srv.rev
         /\ srv'.state = srv.state \/ ({srv.state, srv'.state} \subseteq Pending \cup {"completed"})
         /\ srv'.state \in CompletedStates =>
              srv.state \in CompletedStates \/ pc[p] = "complete"
<1> DEFINE Late == Pending \cup {"completed"}
<1>1. /\ \/ srv' = srv
         \/ srv.state \in Late /\ \E s \in Late \ CompletedStates :
              srv' = [srv EXCEPT !.state = s]
         \/ /\ srv.state \in CompletedStates \/ (srv.state \in Late /\ pc[p] = "complete")
            /\ \E s \in CompletedStates : srv' = [srv EXCEPT !.state = s]
  <2>1. CASE StartHandoff(p)
    BY <2>1 DEF StartHandoff, Pending, CompletedStates
  <2>2. CASE ReportBlocked(p)
    BY <2>2 DEF ReportBlocked, Pending, CompletedStates
  <2>3. CASE ReportApplied(p)
    BY <2>3 DEF ReportApplied, Pending, CompletedStates
  <2>4. CASE AcknowledgeHandoff(p)
    BY <2>4 DEF AcknowledgeHandoff, Pending, CompletedStates
  <2> QED
    BY <2>1, <2>2, <2>3, <2>4
<1>2. \A s : /\ [srv EXCEPT !.state = s].acc = srv.acc
             /\ [srv EXCEPT !.state = s].rev = srv.rev
             /\ [srv EXCEPT !.state = s].state = s
  BY DEF Server
<1> QED
  BY <1>1, <1>2 DEF Pending, CompletedStates

\* Every step keeps what the server has bound.
LEMMA ServerStep ==
  ASSUME TypeOK, HandoffInv, [Next]_vars
  PROVE  ServerInv'
<1> USE ProcAssumption, BoundAssumption
    DEF TypeOK, HandoffInv, ServerInv, BindingInv, OrderInv, Bound, Critical,
        Pending, CompletedStates, NoBinding, InitialChangeSet, Goto, AfterHandoffs, Forget, Fault, Edit,
        localVars, procVars, envVars
<1>1. ASSUME NEW p \in Procs, ReconcileIntegrity(p) PROVE ServerInv'
  BY <1>1 DEF ReconcileIntegrity, Superseded, MustSupersede, ChangeSet
<1>2. ASSUME NEW p \in Procs, PostSupersede(p) PROVE ServerInv'
  <2>1. srv' = srv \/ srv' = SupersededOnServer
    BY <1>2 DEF PostSupersede
  <2>2. cs.rev > 0 /\ srv.rev > 0
    OBVIOUS
  <2>3. srv'.acc = srv.acc /\ srv'.rev > 0 /\ srv'.state \in {"superseded", srv.state}
    BY <2>1, <2>2, SupersededEffect
  <2> QED
    BY <2>3
<1>3. ASSUME NEW p \in Procs, ReconcileTerminalResources(p) PROVE ServerInv'
  BY <1>3 DEF ReconcileTerminalResources, ChangeSet, CsState
<1>4. ASSUME NEW p \in Procs, RequestHandoffRetry(p) PROVE ServerInv'
  BY <1>4 DEF RequestHandoffRetry, Row
<1>5. ASSUME NEW p \in Procs, EndCommand(p) PROVE ServerInv'
  BY <1>5 DEF EndCommand
<1>6. ASSUME NEW p \in Procs, PendingHandoffs(p) PROVE ServerInv'
  BY <1>6 DEF PendingHandoffs
<1>7. ASSUME NEW p \in Procs, PrepareHandoff(p) PROVE ServerInv'
  BY <1>7 DEF PrepareHandoff, Consumed, Row, ChangeSet
<1>8. ASSUME NEW p \in Procs, CompareBinding(p) PROVE ServerInv'
  BY <1>8 DEF CompareBinding
<1>9. ASSUME NEW p \in Procs, AcceptChangeSet(p) PROVE ServerInv'
  BY <1>9 DEF AcceptChangeSet, Accepted, ChangeSet
<1>10. ASSUME NEW p \in Procs, FilterHandoff(p) PROVE ServerInv'
  BY <1>10 DEF FilterHandoff
<1>11. ASSUME NEW p \in Procs, StartHandoff(p) PROVE ServerInv'
  <2>1. /\ srv'.acc = srv.acc /\ srv'.rev = srv.rev
        /\ srv'.state = srv.state \/ ({srv.state, srv'.state} \subseteq Pending \cup {"completed"})
    BY <1>11, ReportsEffect
  <2> QED
    BY <2>1
<1>12. ASSUME NEW p \in Procs, DecideHandoff(p) PROVE ServerInv'
  BY <1>12 DEF DecideHandoff
<1>13. ASSUME NEW p \in Procs, CheckAccepted(p) PROVE ServerInv'
  BY <1>13 DEF CheckAccepted
<1>14. ASSUME NEW p \in Procs, LockRepository(p) PROVE ServerInv'
  BY <1>14 DEF LockRepository
<1>15. ASSUME NEW p \in Procs, BeginHandoff(p) PROVE ServerInv'
  BY <1>15 DEF BeginHandoff, BegunRow, Row, NoRow
<1>16. ASSUME NEW p \in Procs, UpdateRef(p) PROVE ServerInv'
  BY <1>16 DEF UpdateRef
<1>17. ASSUME NEW p \in Procs, BlockHandoff(p) PROVE ServerInv'
  BY <1>17 DEF BlockHandoff, Row
<1>18. ASSUME NEW p \in Procs, PromoteRunBranch(p) PROVE ServerInv'
  BY <1>18 DEF PromoteRunBranch
<1>19. ASSUME NEW p \in Procs, FinishHandoff(p) PROVE ServerInv'
  BY <1>19 DEF FinishHandoff, Row
<1>20. ASSUME NEW p \in Procs, ReportBlocked(p) PROVE ServerInv'
  <2>1. /\ srv'.acc = srv.acc /\ srv'.rev = srv.rev
        /\ srv'.state = srv.state \/ ({srv.state, srv'.state} \subseteq Pending \cup {"completed"})
    BY <1>20, ReportsEffect
  <2> QED
    BY <2>1
<1>21. ASSUME NEW p \in Procs, ReportApplied(p) PROVE ServerInv'
  <2>1. /\ srv'.acc = srv.acc /\ srv'.rev = srv.rev
        /\ srv'.state = srv.state \/ ({srv.state, srv'.state} \subseteq Pending \cup {"completed"})
    BY <1>21, ReportsEffect
  <2> QED
    BY <2>1
<1>22. ASSUME NEW p \in Procs, SettleChangeSet(p) PROVE ServerInv'
  BY <1>22 DEF SettleChangeSet, ChangeSet
<1>23. ASSUME NEW p \in Procs, AcknowledgeHandoff(p) PROVE ServerInv'
  <2>1. /\ srv'.acc = srv.acc /\ srv'.rev = srv.rev
        /\ srv'.state = srv.state \/ ({srv.state, srv'.state} \subseteq Pending \cup {"completed"})
    BY <1>23, ReportsEffect
  <2> QED
    BY <2>1
<1>24. ASSUME NEW p \in Procs, ReleasePorts(p) PROVE ServerInv'
  BY <1>24 DEF ReleasePorts
<1>25. ASSUME NEW p \in Procs, ApplyCommand(p) PROVE ServerInv'
  BY <1>25 DEF ApplyCommand
<1>26. ASSUME NEW p \in Procs, ReconcilerDies(p) PROVE ServerInv'
  BY <1>26 DEF ReconcilerDies
<1>27. ASSUME NEW p \in Procs, RestartReconciler(p) PROVE ServerInv'
  BY <1>27 DEF RestartReconciler
<1>28. CASE BeginValidation
  BY <1>28 DEF BeginValidation, Superseded, MustSupersede, ChangeSet
<1>29. CASE ReportStarted
  <2>1. srv' = srv \/ \E s : srv' = Reported(s)
    BY <1>29 DEF ReportStarted
  <2>2. srv'.acc = srv.acc /\ srv'.rev = srv.rev /\ srv'.state = srv.state
    BY <2>1, ReportEffect
  <2>3. UNCHANGED <<cs, row, branch, ref, lock, pc, loc, head, moved>>
    BY <1>29 DEF ReportStarted
  <2> QED
    BY <2>2, <2>3
<1>30. CASE CancelValidationStart
  <2>1. /\ cs' = cs \/ (cs.state = "validating" /\ cs'.state = "review_ready")
        /\ cs'.acc = cs.acc /\ cs'.rev = cs.rev
        /\ UNCHANGED <<row, branch, ref, lock, srv, pc, loc, head, moved>>
    BY <1>30, ReviewEffect
  <2> QED
    BY <2>1
<1>31. CASE FinishValidation
  <2>1. /\ cs' = cs \/ (cs.state = "validating" /\ cs'.state = "review_ready")
        /\ cs'.acc = cs.acc /\ cs'.rev = cs.rev
        /\ UNCHANGED <<row, branch, ref, lock, srv, pc, loc, head, moved>>
    BY <1>31, ReviewEffect
  <2> QED
    BY <2>1
<1>32. CASE ReportFinished
  <2>1. srv' = srv \/ \E s : srv' = Reported(s)
    BY <1>32 DEF ReportFinished
  <2>2. srv'.acc = srv.acc /\ srv'.rev = srv.rev /\ srv'.state = srv.state
    BY <2>1, ReportEffect
  <2>3. UNCHANGED <<cs, row, branch, ref, lock, pc, loc, head, moved>>
    BY <1>32 DEF ReportFinished
  <2> QED
    BY <2>2, <2>3
<1>33. CASE ValidationDies
  BY <1>33 DEF ValidationDies
<1>34. CASE Accept
  BY <1>34 DEF Accept, Server
<1>35. CASE Reject
  BY <1>35 DEF Reject, Server
<1>36. CASE RetryInBrowser
  BY <1>36 DEF RetryInBrowser, Server
<1>37. CASE EditWorktree
  BY <1>37 DEF EditWorktree
<1>38. CASE EditBranch
  BY <1>38 DEF EditBranch
<1>39. CASE RetryTimeComes
  BY <1>39 DEF RetryTimeComes, Row
<1>40. CASE OtherProfileLocks
  BY <1>40 DEF OtherProfileLocks
<1>41. CASE OtherProfileUnlocks
  BY <1>41 DEF OtherProfileUnlocks
<1>42. CASE UNCHANGED vars
  BY <1>42 DEF vars
<1> QED
  BY <1>1, <1>2, <1>3, <1>4, <1>5, <1>6, <1>7, <1>8, <1>9, <1>10, <1>11, <1>12, <1>13, <1>14, <1>15, <1>16, <1>17, <1>18, <1>19, <1>20, <1>21, <1>22, <1>23, <1>24, <1>25, <1>26, <1>27, <1>28, <1>29, <1>30, <1>31, <1>32, <1>33, <1>34, <1>35, <1>36, <1>37, <1>38, <1>39, <1>40, <1>41, <1>42
     DEF Next, Reconcile, Validate, User

\* Every step keeps the local binding.
LEMMA BindingStep ==
  ASSUME TypeOK, HandoffInv, [Next]_vars
  PROVE  BindingInv'
<1> USE ProcAssumption, BoundAssumption
    DEF TypeOK, HandoffInv, ServerInv, BindingInv, OrderInv, Bound, Critical,
        Pending, CompletedStates, NoBinding, InitialChangeSet, Goto, AfterHandoffs, Forget, Fault, Edit,
        localVars, procVars, envVars
<1>1. ASSUME NEW p \in Procs, ReconcileIntegrity(p) PROVE BindingInv'
  <2>1. /\ cs' = cs \/ (cs' = Superseded /\ cs.state = "review_ready")
        /\ \E l \in {"supersede", "fetch"} : pc' = [pc EXCEPT ![p] = l]
        /\ UNCHANGED <<row, srv, loc>>
    BY <1>1 DEF ReconcileIntegrity, MustSupersede
  <2>2. \/ cs' = cs
        \/ /\ cs.state = "review_ready" /\ cs'.state = "superseded"
           /\ cs'.acc = cs.acc /\ cs'.rev > 0
    BY <2>1, IntegrityEffect
  <2> QED
    BY <2>1, <2>2
<1>2. ASSUME NEW p \in Procs, PostSupersede(p) PROVE BindingInv'
  <2>1. srv' = srv \/ srv' = SupersededOnServer
    BY <1>2 DEF PostSupersede
  <2>2. cs.rev > 0 /\ srv.rev > 0
    OBVIOUS
  <2>3. srv'.acc = srv.acc /\ srv'.rev > 0 /\ srv'.state \in {"superseded", srv.state}
    BY <2>1, <2>2, SupersededEffect
  <2>4. /\ \E l \in {"fetch", "down", "idle"} : pc' = [pc EXCEPT ![p] = l]
        /\ UNCHANGED <<cs, row, branch, ref, lock, loc, head, moved>>
    BY <1>2 DEF PostSupersede
  <2> QED
    BY <2>3, <2>4 DEF ChangeSet
<1>3. ASSUME NEW p \in Procs, ReconcileTerminalResources(p) PROVE BindingInv'
  <2>1. /\ pc' = [pc EXCEPT ![p] = "idle"]
        /\ loc' = [loc EXCEPT ![p] = InitialChangeSet]
        /\ UNCHANGED <<row, srv>>
    BY <1>3 DEF ReconcileTerminalResources
  <2>2. \/ cs' = cs
        \/ cs.state = "review_ready" /\ \E s \in {"rejected", "superseded"} :
             cs' = [cs EXCEPT !.state = s]
    BY <1>3 DEF ReconcileTerminalResources
  <2>3. cs'.val = cs.val /\ cs'.rev = cs.rev /\ cs'.acc = cs.acc
        /\ (cs'.state # cs.state => cs.state \notin Bound /\ cs'.state \notin Bound)
    BY <2>2 DEF ChangeSet
  <2> QED
    BY <2>1, <2>3
<1>4. ASSUME NEW p \in Procs, RequestHandoffRetry(p) PROVE BindingInv'
  BY <1>4 DEF RequestHandoffRetry, Row
<1>5. ASSUME NEW p \in Procs, EndCommand(p) PROVE BindingInv'
  BY <1>5 DEF EndCommand
<1>6. ASSUME NEW p \in Procs, PendingHandoffs(p) PROVE BindingInv'
  BY <1>6 DEF PendingHandoffs
<1>7. ASSUME NEW p \in Procs, PrepareHandoff(p) PROVE BindingInv'
  <2>1. rem[p].retry \in Nat
    BY DEF Remote
  <2>2. row' = Consumed(rem[p].retry)
    BY <1>7 DEF PrepareHandoff
  <2>3. /\ row'.state = "none" <=> row.state = "none"
        /\ row'.state = "applied" <=> row.state = "applied"
        /\ row'.val = row.val /\ row'.rev = row.rev
    BY <2>1, <2>2, ConsumedEffect
  <2>4. cs' = cs \/ (cs.state = "accepted" /\ cs' = [cs EXCEPT !.state = "applied"])
    BY <1>7 DEF PrepareHandoff
  <2>5. cs'.val = cs.val /\ cs'.rev = cs.rev /\ cs'.acc = cs.acc
        /\ (cs'.state # cs.state => cs.state \in Bound /\ cs'.state \in Bound)
    BY <2>4 DEF ChangeSet
  <2>6. /\ \E l \in {"terminal", "exit", "ack", "accept", "filter"} :
              pc' = [pc EXCEPT ![p] = l]
        /\ loc' = [loc EXCEPT ![p] = cs]
        /\ UNCHANGED <<srv, branch, ref, lock, head, moved>>
    BY <1>7 DEF PrepareHandoff
  <2> HIDE DEF Goto, AfterHandoffs
  <2> QED
    BY <2>3, <2>5, <2>6
<1>8. ASSUME NEW p \in Procs, CompareBinding(p) PROVE BindingInv'
  BY <1>8 DEF CompareBinding
<1>9. ASSUME NEW p \in Procs, AcceptChangeSet(p) PROVE BindingInv'
  <2>1. CASE cs' = cs /\ loc' = loc
    BY <1>9, <2>1 DEF AcceptChangeSet
  <2>2. CASE ~(cs' = cs /\ loc' = loc)
    <3>1. /\ cs.rev = loc[p].rev /\ loc[p].rev = srv.acc.rev
          /\ cs.state = "review_ready" \/ cs.state = "accepted"
          /\ cs' = Accepted(cs.rev) /\ loc' = [loc EXCEPT ![p] = cs']
          /\ pc' = [pc EXCEPT ![p] = "filter"]
          /\ UNCHANGED <<row, srv>>
      BY <1>9, <2>2 DEF AcceptChangeSet, Accepted, ChangeSet
    <3>2. cs'.state = "accepted" /\ cs'.acc = cs.rev /\ cs'.rev = cs.rev /\ cs'.val = cs.val
      BY <3>1 DEF Accepted, ChangeSet
    <3> QED
      BY <3>1, <3>2
  <2> QED
    BY <2>1, <2>2
<1>10. ASSUME NEW p \in Procs, FilterHandoff(p) PROVE BindingInv'
  BY <1>10 DEF FilterHandoff
<1>11. ASSUME NEW p \in Procs, StartHandoff(p) PROVE BindingInv'
  <2>1. CASE \E b \in BOOLEAN : RecordFailure(p, b)
    <3>1. /\ \/ row' = row
             \/ /\ cs.acc # 0 /\ row'.state # "none"
                /\ row.state = "none" => row'.val = cs.val /\ row'.rev = cs.rev
                /\ row.state # "none" => row'.val = row.val /\ row'.rev = row.rev
          /\ row'.state = "applied" <=> row.state = "applied"
          /\ \E l \in {"down", "terminal", "exit"} : pc' = [pc EXCEPT ![p] = l]
      BY <2>1, FailureEffect
    <3>2. UNCHANGED <<cs, branch, ref, lock, loc, head, moved>>
      BY <1>11 DEF StartHandoff
    <3>3. /\ srv'.acc = srv.acc
          /\ srv'.state \in CompletedStates =>
               srv.state \in CompletedStates \/ pc[p] = "complete"
      BY <1>11, ReportsEffect
    <3> QED
      BY <3>1, <3>2, <3>3
  <2>2. CASE ~(\E b \in BOOLEAN : RecordFailure(p, b))
    <3>1. \E l \in {"decide", "settle", "release", "terminal", "exit"} :
            pc' = [pc EXCEPT ![p] = l]
      BY <1>11, <2>2 DEF StartHandoff
    <3>2. UNCHANGED <<row, cs, branch, ref, lock, loc, head, moved>>
      BY <1>11, <2>2 DEF StartHandoff
    <3>3. /\ srv'.acc = srv.acc
          /\ srv'.state \in CompletedStates =>
               srv.state \in CompletedStates \/ pc[p] = "complete"
      BY <1>11, ReportsEffect
    <3> QED
      BY <3>1, <3>2, <3>3
  <2> QED
    BY <1>11, <2>1, <2>2 DEF StartHandoff
<1>12. ASSUME NEW p \in Procs, DecideHandoff(p) PROVE BindingInv'
  BY <1>12 DEF DecideHandoff
<1>13. ASSUME NEW p \in Procs, CheckAccepted(p) PROVE BindingInv'
  BY <1>13 DEF CheckAccepted
<1>14. ASSUME NEW p \in Procs, LockRepository(p) PROVE BindingInv'
  BY <1>14 DEF LockRepository
<1>15. ASSUME NEW p \in Procs, BeginHandoff(p) PROVE BindingInv'
  BY <1>15 DEF BeginHandoff, BegunRow, Row, NoRow
<1>16. ASSUME NEW p \in Procs, UpdateRef(p) PROVE BindingInv'
  BY <1>16 DEF UpdateRef
<1>17. ASSUME NEW p \in Procs, BlockHandoff(p) PROVE BindingInv'
  BY <1>17 DEF BlockHandoff, Row
<1>18. ASSUME NEW p \in Procs, PromoteRunBranch(p) PROVE BindingInv'
  BY <1>18 DEF PromoteRunBranch
<1>19. ASSUME NEW p \in Procs, FinishHandoff(p) PROVE BindingInv'
  BY <1>19 DEF FinishHandoff, Row
<1>20. ASSUME NEW p \in Procs, ReportBlocked(p) PROVE BindingInv'
  <2>1. CASE \E b \in BOOLEAN : RecordFailure(p, b)
    <3>1. /\ \/ row' = row
             \/ /\ cs.acc # 0 /\ row'.state # "none"
                /\ row.state = "none" => row'.val = cs.val /\ row'.rev = cs.rev
                /\ row.state # "none" => row'.val = row.val /\ row'.rev = row.rev
          /\ row'.state = "applied" <=> row.state = "applied"
          /\ \E l \in {"down", "terminal", "exit"} : pc' = [pc EXCEPT ![p] = l]
      BY <2>1, FailureEffect
    <3>2. UNCHANGED <<cs, branch, ref, lock, loc, head, moved>>
      BY <1>20 DEF ReportBlocked
    <3>3. /\ srv'.acc = srv.acc
          /\ srv'.state \in CompletedStates =>
               srv.state \in CompletedStates \/ pc[p] = "complete"
      BY <1>20, ReportsEffect
    <3> QED
      BY <3>1, <3>2, <3>3
  <2>2. CASE ~(\E b \in BOOLEAN : RecordFailure(p, b))
    <3>1. \E l \in {"decide", "settle", "release", "terminal", "exit"} :
            pc' = [pc EXCEPT ![p] = l]
      BY <1>20, <2>2 DEF ReportBlocked
    <3>2. UNCHANGED <<row, cs, branch, ref, lock, loc, head, moved>>
      BY <1>20, <2>2 DEF ReportBlocked
    <3>3. /\ srv'.acc = srv.acc
          /\ srv'.state \in CompletedStates =>
               srv.state \in CompletedStates \/ pc[p] = "complete"
      BY <1>20, ReportsEffect
    <3> QED
      BY <3>1, <3>2, <3>3
  <2> QED
    BY <1>20, <2>1, <2>2 DEF ReportBlocked
<1>21. ASSUME NEW p \in Procs, ReportApplied(p) PROVE BindingInv'
  <2>1. CASE \E b \in BOOLEAN : RecordFailure(p, b)
    <3>1. /\ \/ row' = row
             \/ /\ cs.acc # 0 /\ row'.state # "none"
                /\ row.state = "none" => row'.val = cs.val /\ row'.rev = cs.rev
                /\ row.state # "none" => row'.val = row.val /\ row'.rev = row.rev
          /\ row'.state = "applied" <=> row.state = "applied"
          /\ \E l \in {"down", "terminal", "exit"} : pc' = [pc EXCEPT ![p] = l]
      BY <2>1, FailureEffect
    <3>2. UNCHANGED <<cs, branch, ref, lock, loc, head, moved>>
      BY <1>21 DEF ReportApplied
    <3>3. /\ srv'.acc = srv.acc
          /\ srv'.state \in CompletedStates =>
               srv.state \in CompletedStates \/ pc[p] = "complete"
      BY <1>21, ReportsEffect
    <3> QED
      BY <3>1, <3>2, <3>3
  <2>2. CASE ~(\E b \in BOOLEAN : RecordFailure(p, b))
    <3>1. \E l \in {"decide", "settle", "release", "terminal", "exit"} :
            pc' = [pc EXCEPT ![p] = l]
      BY <1>21, <2>2 DEF ReportApplied
    <3>2. UNCHANGED <<row, cs, branch, ref, lock, loc, head, moved>>
      BY <1>21, <2>2 DEF ReportApplied
    <3>3. /\ srv'.acc = srv.acc
          /\ srv'.state \in CompletedStates =>
               srv.state \in CompletedStates \/ pc[p] = "complete"
      BY <1>21, ReportsEffect
    <3> QED
      BY <3>1, <3>2, <3>3
  <2> QED
    BY <1>21, <2>1, <2>2 DEF ReportApplied
<1>22. ASSUME NEW p \in Procs, SettleChangeSet(p) PROVE BindingInv'
  BY <1>22 DEF SettleChangeSet, ChangeSet
<1>23. ASSUME NEW p \in Procs, AcknowledgeHandoff(p) PROVE BindingInv'
  <2>1. CASE \E b \in BOOLEAN : RecordFailure(p, b)
    <3>1. /\ \/ row' = row
             \/ /\ cs.acc # 0 /\ row'.state # "none"
                /\ row.state = "none" => row'.val = cs.val /\ row'.rev = cs.rev
                /\ row.state # "none" => row'.val = row.val /\ row'.rev = row.rev
          /\ row'.state = "applied" <=> row.state = "applied"
          /\ \E l \in {"down", "terminal", "exit"} : pc' = [pc EXCEPT ![p] = l]
      BY <2>1, FailureEffect
    <3>2. UNCHANGED <<cs, branch, ref, lock, loc, head, moved>>
      BY <1>23 DEF AcknowledgeHandoff
    <3>3. /\ srv'.acc = srv.acc
          /\ srv'.state \in CompletedStates =>
               srv.state \in CompletedStates \/ pc[p] = "complete"
      BY <1>23, ReportsEffect
    <3> QED
      BY <3>1, <3>2, <3>3
  <2>2. CASE ~(\E b \in BOOLEAN : RecordFailure(p, b))
    <3>1. \E l \in {"decide", "settle", "release", "terminal", "exit"} :
            pc' = [pc EXCEPT ![p] = l]
      BY <1>23, <2>2 DEF AcknowledgeHandoff
    <3>2. UNCHANGED <<row, cs, branch, ref, lock, loc, head, moved>>
      BY <1>23, <2>2 DEF AcknowledgeHandoff
    <3>3. /\ srv'.acc = srv.acc
          /\ srv'.state \in CompletedStates =>
               srv.state \in CompletedStates \/ pc[p] = "complete"
      BY <1>23, ReportsEffect
    <3> QED
      BY <3>1, <3>2, <3>3
  <2> QED
    BY <1>23, <2>1, <2>2 DEF AcknowledgeHandoff
<1>24. ASSUME NEW p \in Procs, ReleasePorts(p) PROVE BindingInv'
  BY <1>24 DEF ReleasePorts
<1>25. ASSUME NEW p \in Procs, ApplyCommand(p) PROVE BindingInv'
  BY <1>25 DEF ApplyCommand
<1>26. ASSUME NEW p \in Procs, ReconcilerDies(p) PROVE BindingInv'
  BY <1>26 DEF ReconcilerDies
<1>27. ASSUME NEW p \in Procs, RestartReconciler(p) PROVE BindingInv'
  BY <1>27 DEF RestartReconciler
<1>28. CASE BeginValidation
  <2>1. cs.state = "review_ready" /\ UNCHANGED <<row, srv, pc, loc>>
    BY <1>28 DEF BeginValidation, MustSupersede
  <2>2. /\ cs'.acc = cs.acc /\ cs'.rev \in {cs.rev, cs.rev + 1}
        /\ cs'.state \in {"validating", "superseded"}
    <3>1. \/ cs' = Superseded
          \/ cs' = [cs EXCEPT !.state = "validating", !.val = cs.val + 1,
                               !.status = "running"]
      BY <1>28 DEF BeginValidation
    <3>2. CASE cs' = Superseded
      BY <3>2, IntegrityEffect
    <3>3. CASE cs' = [cs EXCEPT !.state = "validating", !.val = cs.val + 1,
                                !.status = "running"]
      BY <3>3 DEF ChangeSet
    <3> QED
      BY <3>1, <3>2, <3>3
  <2>3. cs.rev \in Nat /\ cs'.rev > 0
    BY <2>2 DEF ChangeSet
  <2> QED
    BY <2>1, <2>2, <2>3
<1>29. CASE ReportStarted
  <2>1. srv' = srv \/ \E s : srv' = Reported(s)
    BY <1>29 DEF ReportStarted
  <2>2. srv'.acc = srv.acc /\ srv'.rev = srv.rev /\ srv'.state = srv.state
    BY <2>1, ReportEffect
  <2>3. UNCHANGED <<cs, row, branch, ref, lock, pc, loc, head, moved>>
    BY <1>29 DEF ReportStarted
  <2> QED
    BY <2>2, <2>3
<1>30. CASE CancelValidationStart
  <2>1. /\ cs' = cs \/ (cs.state = "validating" /\ cs'.state = "review_ready")
        /\ cs'.acc = cs.acc /\ cs'.rev = cs.rev
        /\ UNCHANGED <<row, branch, ref, lock, srv, pc, loc, head, moved>>
    BY <1>30, ReviewEffect
  <2> QED
    BY <2>1
<1>31. CASE FinishValidation
  <2>1. /\ cs' = cs \/ (cs.state = "validating" /\ cs'.state = "review_ready")
        /\ cs'.acc = cs.acc /\ cs'.rev = cs.rev
        /\ UNCHANGED <<row, branch, ref, lock, srv, pc, loc, head, moved>>
    BY <1>31, ReviewEffect
  <2> QED
    BY <2>1
<1>32. CASE ReportFinished
  <2>1. srv' = srv \/ \E s : srv' = Reported(s)
    BY <1>32 DEF ReportFinished
  <2>2. srv'.acc = srv.acc /\ srv'.rev = srv.rev /\ srv'.state = srv.state
    BY <2>1, ReportEffect
  <2>3. UNCHANGED <<cs, row, branch, ref, lock, pc, loc, head, moved>>
    BY <1>32 DEF ReportFinished
  <2> QED
    BY <2>2, <2>3
<1>33. CASE ValidationDies
  BY <1>33 DEF ValidationDies
<1>34. CASE Accept
  BY <1>34 DEF Accept, Server
<1>35. CASE Reject
  BY <1>35 DEF Reject, Server
<1>36. CASE RetryInBrowser
  BY <1>36 DEF RetryInBrowser, Server
<1>37. CASE EditWorktree
  BY <1>37 DEF EditWorktree
<1>38. CASE EditBranch
  BY <1>38 DEF EditBranch
<1>39. CASE RetryTimeComes
  BY <1>39 DEF RetryTimeComes, Row
<1>40. CASE OtherProfileLocks
  BY <1>40 DEF OtherProfileLocks
<1>41. CASE OtherProfileUnlocks
  BY <1>41 DEF OtherProfileUnlocks
<1>42. CASE UNCHANGED vars
  BY <1>42 DEF vars
<1> QED
  BY <1>1, <1>2, <1>3, <1>4, <1>5, <1>6, <1>7, <1>8, <1>9, <1>10, <1>11, <1>12, <1>13, <1>14, <1>15, <1>16, <1>17, <1>18, <1>19, <1>20, <1>21, <1>22, <1>23, <1>24, <1>25, <1>26, <1>27, <1>28, <1>29, <1>30, <1>31, <1>32, <1>33, <1>34, <1>35, <1>36, <1>37, <1>38, <1>39, <1>40, <1>41, <1>42
     DEF Next, Reconcile, Validate, User

\* Every step keeps the order of the effects.
LEMMA OrderStep ==
  ASSUME TypeOK, HandoffInv, [Next]_vars
  PROVE  OrderInv'
<1> USE ProcAssumption, BoundAssumption
    DEF TypeOK, HandoffInv, ServerInv, BindingInv, OrderInv, Bound, Critical,
        Pending, CompletedStates, NoBinding, InitialChangeSet, Goto, AfterHandoffs, Forget, Fault, Edit,
        localVars, procVars, envVars
<1>1. ASSUME NEW p \in Procs, ReconcileIntegrity(p) PROVE OrderInv'
  BY <1>1 DEF ReconcileIntegrity, Superseded, MustSupersede, ChangeSet
<1>2. ASSUME NEW p \in Procs, PostSupersede(p) PROVE OrderInv'
  <2>1. srv' = srv \/ srv' = SupersededOnServer
    BY <1>2 DEF PostSupersede
  <2>2. cs.rev > 0 /\ srv.rev > 0
    OBVIOUS
  <2>3. srv'.acc = srv.acc /\ srv'.rev > 0 /\ srv'.state \in {"superseded", srv.state}
    BY <2>1, <2>2, SupersededEffect
  <2>4. /\ \E l \in {"fetch", "down", "idle"} : pc' = [pc EXCEPT ![p] = l]
        /\ UNCHANGED <<cs, row, branch, ref, lock, loc, head, moved>>
    BY <1>2 DEF PostSupersede
  <2> QED
    BY <2>3, <2>4 DEF Row
<1>3. ASSUME NEW p \in Procs, ReconcileTerminalResources(p) PROVE OrderInv'
  BY <1>3 DEF ReconcileTerminalResources, ChangeSet, CsState
<1>4. ASSUME NEW p \in Procs, RequestHandoffRetry(p) PROVE OrderInv'
  BY <1>4 DEF RequestHandoffRetry, Row
<1>5. ASSUME NEW p \in Procs, EndCommand(p) PROVE OrderInv'
  BY <1>5 DEF EndCommand
<1>6. ASSUME NEW p \in Procs, PendingHandoffs(p) PROVE OrderInv'
  BY <1>6 DEF PendingHandoffs
<1>7. ASSUME NEW p \in Procs, PrepareHandoff(p) PROVE OrderInv'
  <2>1. rem[p].retry \in Nat
    BY DEF Remote
  <2>2. row' = Consumed(rem[p].retry)
    BY <1>7 DEF PrepareHandoff
  <2>3. /\ row'.state = "none" <=> row.state = "none"
        /\ row'.state = "applied" <=> row.state = "applied"
        /\ row'.val = row.val /\ row'.rev = row.rev
    BY <2>1, <2>2, ConsumedEffect
  <2>4. cs' = cs \/ (cs.state = "accepted" /\ cs' = [cs EXCEPT !.state = "applied"])
    BY <1>7 DEF PrepareHandoff
  <2>5. cs'.val = cs.val /\ cs'.rev = cs.rev /\ cs'.acc = cs.acc
        /\ (cs'.state # cs.state => cs.state \in Bound /\ cs'.state \in Bound)
    BY <2>4 DEF ChangeSet
  <2>6. /\ \E l \in {"terminal", "exit", "ack", "accept", "filter"} :
              pc' = [pc EXCEPT ![p] = l]
        /\ loc' = [loc EXCEPT ![p] = cs]
        /\ UNCHANGED <<srv, branch, ref, lock, head, moved>>
    BY <1>7 DEF PrepareHandoff
  <2> HIDE DEF Goto, AfterHandoffs
  <2> QED
    BY <2>3, <2>5, <2>6
<1>8. ASSUME NEW p \in Procs, CompareBinding(p) PROVE OrderInv'
  BY <1>8 DEF CompareBinding
<1>9. ASSUME NEW p \in Procs, AcceptChangeSet(p) PROVE OrderInv'
  <2>1. /\ UNCHANGED <<row, branch, ref, lock, srv, head, moved>>
        /\ \/ cs' = Accepted(loc[p].rev) /\ pc' = [pc EXCEPT ![p] = "filter"]
           \/ cs' = cs /\ \E l \in {"terminal", "exit"} : pc' = [pc EXCEPT ![p] = l]
    BY <1>9 DEF AcceptChangeSet
  <2>2. cs' = cs \/ cs'.state = "accepted"
    BY <2>1 DEF Accepted, ChangeSet
  <2> QED
    BY <2>1, <2>2
<1>10. ASSUME NEW p \in Procs, FilterHandoff(p) PROVE OrderInv'
  BY <1>10 DEF FilterHandoff
<1>11. ASSUME NEW p \in Procs, StartHandoff(p) PROVE OrderInv'
  <2>1. CASE \E b \in BOOLEAN : RecordFailure(p, b)
    <3>1. /\ \/ row' = row
             \/ /\ cs.acc # 0 /\ row'.state # "none"
                /\ row.state = "none" => row'.val = cs.val /\ row'.rev = cs.rev
                /\ row.state # "none" => row'.val = row.val /\ row'.rev = row.rev
          /\ row'.state = "applied" <=> row.state = "applied"
          /\ \E l \in {"down", "terminal", "exit"} : pc' = [pc EXCEPT ![p] = l]
      BY <2>1, FailureEffect
    <3>2. UNCHANGED <<cs, branch, ref, lock, loc, head, moved>>
      BY <1>11 DEF StartHandoff
    <3>3. /\ srv'.acc = srv.acc
          /\ srv'.state \in CompletedStates =>
               srv.state \in CompletedStates \/ pc[p] = "complete"
      BY <1>11, ReportsEffect
    <3> QED
      BY <3>1, <3>2, <3>3
  <2>2. CASE ~(\E b \in BOOLEAN : RecordFailure(p, b))
    <3>1. \E l \in {"decide", "settle", "release", "terminal", "exit"} :
            pc' = [pc EXCEPT ![p] = l]
      BY <1>11, <2>2 DEF StartHandoff
    <3>2. UNCHANGED <<row, cs, branch, ref, lock, loc, head, moved>>
      BY <1>11, <2>2 DEF StartHandoff
    <3>3. /\ srv'.acc = srv.acc
          /\ srv'.state \in CompletedStates =>
               srv.state \in CompletedStates \/ pc[p] = "complete"
      BY <1>11, ReportsEffect
    <3> QED
      BY <3>1, <3>2, <3>3
  <2> QED
    BY <1>11, <2>1, <2>2 DEF StartHandoff
<1>12. ASSUME NEW p \in Procs, DecideHandoff(p) PROVE OrderInv'
  BY <1>12 DEF DecideHandoff
<1>13. ASSUME NEW p \in Procs, CheckAccepted(p) PROVE OrderInv'
  BY <1>13 DEF CheckAccepted
<1>14. ASSUME NEW p \in Procs, LockRepository(p) PROVE OrderInv'
  BY <1>14 DEF LockRepository
<1>15. ASSUME NEW p \in Procs, BeginHandoff(p) PROVE OrderInv'
  BY <1>15 DEF BeginHandoff, BegunRow, Row, NoRow
<1>16. ASSUME NEW p \in Procs, UpdateRef(p) PROVE OrderInv'
  BY <1>16 DEF UpdateRef
<1>17. ASSUME NEW p \in Procs, BlockHandoff(p) PROVE OrderInv'
  BY <1>17 DEF BlockHandoff, Row
<1>18. ASSUME NEW p \in Procs, PromoteRunBranch(p) PROVE OrderInv'
  BY <1>18 DEF PromoteRunBranch
<1>19. ASSUME NEW p \in Procs, FinishHandoff(p) PROVE OrderInv'
  BY <1>19 DEF FinishHandoff, Row
<1>20. ASSUME NEW p \in Procs, ReportBlocked(p) PROVE OrderInv'
  <2>1. CASE \E b \in BOOLEAN : RecordFailure(p, b)
    <3>1. /\ \/ row' = row
             \/ /\ cs.acc # 0 /\ row'.state # "none"
                /\ row.state = "none" => row'.val = cs.val /\ row'.rev = cs.rev
                /\ row.state # "none" => row'.val = row.val /\ row'.rev = row.rev
          /\ row'.state = "applied" <=> row.state = "applied"
          /\ \E l \in {"down", "terminal", "exit"} : pc' = [pc EXCEPT ![p] = l]
      BY <2>1, FailureEffect
    <3>2. UNCHANGED <<cs, branch, ref, lock, loc, head, moved>>
      BY <1>20 DEF ReportBlocked
    <3>3. /\ srv'.acc = srv.acc
          /\ srv'.state \in CompletedStates =>
               srv.state \in CompletedStates \/ pc[p] = "complete"
      BY <1>20, ReportsEffect
    <3> QED
      BY <3>1, <3>2, <3>3
  <2>2. CASE ~(\E b \in BOOLEAN : RecordFailure(p, b))
    <3>1. \E l \in {"decide", "settle", "release", "terminal", "exit"} :
            pc' = [pc EXCEPT ![p] = l]
      BY <1>20, <2>2 DEF ReportBlocked
    <3>2. UNCHANGED <<row, cs, branch, ref, lock, loc, head, moved>>
      BY <1>20, <2>2 DEF ReportBlocked
    <3>3. /\ srv'.acc = srv.acc
          /\ srv'.state \in CompletedStates =>
               srv.state \in CompletedStates \/ pc[p] = "complete"
      BY <1>20, ReportsEffect
    <3> QED
      BY <3>1, <3>2, <3>3
  <2> QED
    BY <1>20, <2>1, <2>2 DEF ReportBlocked
<1>21. ASSUME NEW p \in Procs, ReportApplied(p) PROVE OrderInv'
  <2>1. CASE \E b \in BOOLEAN : RecordFailure(p, b)
    <3>1. /\ \/ row' = row
             \/ /\ cs.acc # 0 /\ row'.state # "none"
                /\ row.state = "none" => row'.val = cs.val /\ row'.rev = cs.rev
                /\ row.state # "none" => row'.val = row.val /\ row'.rev = row.rev
          /\ row'.state = "applied" <=> row.state = "applied"
          /\ \E l \in {"down", "terminal", "exit"} : pc' = [pc EXCEPT ![p] = l]
      BY <2>1, FailureEffect
    <3>2. UNCHANGED <<cs, branch, ref, lock, loc, head, moved>>
      BY <1>21 DEF ReportApplied
    <3>3. /\ srv'.acc = srv.acc
          /\ srv'.state \in CompletedStates =>
               srv.state \in CompletedStates \/ pc[p] = "complete"
      BY <1>21, ReportsEffect
    <3> QED
      BY <3>1, <3>2, <3>3
  <2>2. CASE ~(\E b \in BOOLEAN : RecordFailure(p, b))
    <3>1. \E l \in {"decide", "settle", "release", "terminal", "exit"} :
            pc' = [pc EXCEPT ![p] = l]
      BY <1>21, <2>2 DEF ReportApplied
    <3>2. UNCHANGED <<row, cs, branch, ref, lock, loc, head, moved>>
      BY <1>21, <2>2 DEF ReportApplied
    <3>3. /\ srv'.acc = srv.acc
          /\ srv'.state \in CompletedStates =>
               srv.state \in CompletedStates \/ pc[p] = "complete"
      BY <1>21, ReportsEffect
    <3> QED
      BY <3>1, <3>2, <3>3
  <2> QED
    BY <1>21, <2>1, <2>2 DEF ReportApplied
<1>22. ASSUME NEW p \in Procs, SettleChangeSet(p) PROVE OrderInv'
  BY <1>22 DEF SettleChangeSet, ChangeSet
<1>23. ASSUME NEW p \in Procs, AcknowledgeHandoff(p) PROVE OrderInv'
  <2>1. CASE \E b \in BOOLEAN : RecordFailure(p, b)
    <3>1. /\ \/ row' = row
             \/ /\ cs.acc # 0 /\ row'.state # "none"
                /\ row.state = "none" => row'.val = cs.val /\ row'.rev = cs.rev
                /\ row.state # "none" => row'.val = row.val /\ row'.rev = row.rev
          /\ row'.state = "applied" <=> row.state = "applied"
          /\ \E l \in {"down", "terminal", "exit"} : pc' = [pc EXCEPT ![p] = l]
      BY <2>1, FailureEffect
    <3>2. UNCHANGED <<cs, branch, ref, lock, loc, head, moved>>
      BY <1>23 DEF AcknowledgeHandoff
    <3>3. /\ srv'.acc = srv.acc
          /\ srv'.state \in CompletedStates =>
               srv.state \in CompletedStates \/ pc[p] = "complete"
      BY <1>23, ReportsEffect
    <3> QED
      BY <3>1, <3>2, <3>3
  <2>2. CASE ~(\E b \in BOOLEAN : RecordFailure(p, b))
    <3>1. \E l \in {"decide", "settle", "release", "terminal", "exit"} :
            pc' = [pc EXCEPT ![p] = l]
      BY <1>23, <2>2 DEF AcknowledgeHandoff
    <3>2. UNCHANGED <<row, cs, branch, ref, lock, loc, head, moved>>
      BY <1>23, <2>2 DEF AcknowledgeHandoff
    <3>3. /\ srv'.acc = srv.acc
          /\ srv'.state \in CompletedStates =>
               srv.state \in CompletedStates \/ pc[p] = "complete"
      BY <1>23, ReportsEffect
    <3> QED
      BY <3>1, <3>2, <3>3
  <2> QED
    BY <1>23, <2>1, <2>2 DEF AcknowledgeHandoff
<1>24. ASSUME NEW p \in Procs, ReleasePorts(p) PROVE OrderInv'
  BY <1>24 DEF ReleasePorts
<1>25. ASSUME NEW p \in Procs, ApplyCommand(p) PROVE OrderInv'
  BY <1>25 DEF ApplyCommand
<1>26. ASSUME NEW p \in Procs, ReconcilerDies(p) PROVE OrderInv'
  BY <1>26 DEF ReconcilerDies
<1>27. ASSUME NEW p \in Procs, RestartReconciler(p) PROVE OrderInv'
  BY <1>27 DEF RestartReconciler
<1>28. CASE BeginValidation
  BY <1>28 DEF BeginValidation, Superseded, MustSupersede, ChangeSet
<1>29. CASE ReportStarted
  <2>1. srv' = srv \/ \E s : srv' = Reported(s)
    BY <1>29 DEF ReportStarted
  <2>2. srv'.acc = srv.acc /\ srv'.rev = srv.rev /\ srv'.state = srv.state
    BY <2>1, ReportEffect
  <2>3. UNCHANGED <<cs, row, branch, ref, lock, pc, loc, head, moved>>
    BY <1>29 DEF ReportStarted
  <2> QED
    BY <2>2, <2>3
<1>30. CASE CancelValidationStart
  <2>1. /\ cs' = cs \/ (cs.state = "validating" /\ cs'.state = "review_ready")
        /\ cs'.acc = cs.acc /\ cs'.rev = cs.rev
        /\ UNCHANGED <<row, branch, ref, lock, srv, pc, loc, head, moved>>
    BY <1>30, ReviewEffect
  <2> QED
    BY <2>1
<1>31. CASE FinishValidation
  <2>1. /\ cs' = cs \/ (cs.state = "validating" /\ cs'.state = "review_ready")
        /\ cs'.acc = cs.acc /\ cs'.rev = cs.rev
        /\ UNCHANGED <<row, branch, ref, lock, srv, pc, loc, head, moved>>
    BY <1>31, ReviewEffect
  <2> QED
    BY <2>1
<1>32. CASE ReportFinished
  <2>1. srv' = srv \/ \E s : srv' = Reported(s)
    BY <1>32 DEF ReportFinished
  <2>2. srv'.acc = srv.acc /\ srv'.rev = srv.rev /\ srv'.state = srv.state
    BY <2>1, ReportEffect
  <2>3. UNCHANGED <<cs, row, branch, ref, lock, pc, loc, head, moved>>
    BY <1>32 DEF ReportFinished
  <2> QED
    BY <2>2, <2>3
<1>33. CASE ValidationDies
  BY <1>33 DEF ValidationDies
<1>34. CASE Accept
  BY <1>34 DEF Accept, Server
<1>35. CASE Reject
  BY <1>35 DEF Reject, Server
<1>36. CASE RetryInBrowser
  BY <1>36 DEF RetryInBrowser, Server
<1>37. CASE EditWorktree
  BY <1>37 DEF EditWorktree
<1>38. CASE EditBranch
  BY <1>38 DEF EditBranch
<1>39. CASE RetryTimeComes
  BY <1>39 DEF RetryTimeComes, Row
<1>40. CASE OtherProfileLocks
  BY <1>40 DEF OtherProfileLocks
<1>41. CASE OtherProfileUnlocks
  BY <1>41 DEF OtherProfileUnlocks
<1>42. CASE UNCHANGED vars
  BY <1>42 DEF vars
<1> QED
  BY <1>1, <1>2, <1>3, <1>4, <1>5, <1>6, <1>7, <1>8, <1>9, <1>10, <1>11, <1>12, <1>13, <1>14, <1>15, <1>16, <1>17, <1>18, <1>19, <1>20, <1>21, <1>22, <1>23, <1>24, <1>25, <1>26, <1>27, <1>28, <1>29, <1>30, <1>31, <1>32, <1>33, <1>34, <1>35, <1>36, <1>37, <1>38, <1>39, <1>40, <1>41, <1>42
     DEF Next, Reconcile, Validate, User

\* Outside the validation command nothing begins a validation, renumbers one or
\* reports one.
LEMMA ValidationEffect ==
  ASSUME cs \in ChangeSet, srv \in Server
  PROVE  /\ Superseded.val = cs.val /\ Superseded.state # "validating"
         /\ \A n : Accepted(n).val = cs.val /\ Accepted(n).state # "validating"
         /\ \A s : /\ [cs EXCEPT !.state = s].val = cs.val
                   /\ [cs EXCEPT !.state = s].state = s
         /\ SupersededOnServer.val = srv.val
         /\ SupersededOnServer.status = srv.status
<1>1. /\ Superseded.val = cs.val /\ Superseded.state # "validating"
      /\ \A n : Accepted(n).val = cs.val /\ Accepted(n).state # "validating"
  BY DEF ChangeSet, Superseded, Accepted
<1>2. \A s : /\ [cs EXCEPT !.state = s].val = cs.val
             /\ [cs EXCEPT !.state = s].state = s
  BY DEF ChangeSet
<1>3. /\ SupersededOnServer.val = srv.val
      /\ SupersededOnServer.status = srv.status
  BY DEF Server, SupersededOnServer
<1> QED
  BY <1>1, <1>2, <1>3

\* Such a step keeps ValidationInv.
LEMMA NoValidation ==
  ASSUME ValidationInv, UNCHANGED <<vruns, test>>,
         cs'.val = cs.val, cs'.state = "validating" => cs.state = "validating",
         srv'.val = srv.val, srv'.status = srv.status
  PROVE  ValidationInv'
BY DEF ValidationInv

\* Every step keeps the reports of validations true.
LEMMA ValidationStep ==
  ASSUME TypeOK, ValidationInv, [Next]_vars
  PROVE  ValidationInv'
<1> USE DEF localVars, procVars, envVars
<1>a. cs \in ChangeSet /\ srv \in Server /\ test \in TestType
  BY DEF TypeOK
<1>b. cs.val \in Nat
  BY <1>a DEF ChangeSet
<1>1. ASSUME NEW p \in Procs, ReconcileIntegrity(p) PROVE ValidationInv'
  <2>1. cs'.val = cs.val /\ (cs'.state = "validating" => cs.state = "validating")
    BY <1>1, <1>a, ValidationEffect DEF ReconcileIntegrity
  <2>2. UNCHANGED <<vruns, test, srv>>
    BY <1>1 DEF ReconcileIntegrity
  <2> QED
    BY <2>1, <2>2, NoValidation
<1>2. ASSUME NEW p \in Procs, PostSupersede(p) PROVE ValidationInv'
  <2>1. srv'.val = srv.val /\ srv'.status = srv.status
    BY <1>2, <1>a, ValidationEffect DEF PostSupersede
  <2>2. UNCHANGED <<vruns, test, cs>>
    BY <1>2 DEF PostSupersede
  <2> QED
    BY <2>1, <2>2, NoValidation
<1>3. ASSUME NEW p \in Procs, ReconcileTerminalResources(p) PROVE ValidationInv'
  <2>1. cs'.val = cs.val /\ (cs'.state = "validating" => cs.state = "validating")
    BY <1>3, <1>a, ValidationEffect DEF ReconcileTerminalResources
  <2>2. UNCHANGED <<vruns, test, srv>>
    BY <1>3 DEF ReconcileTerminalResources
  <2> QED
    BY <2>1, <2>2, NoValidation
<1>4. ASSUME NEW p \in Procs, RequestHandoffRetry(p) PROVE ValidationInv'
  BY <1>4, NoValidation DEF RequestHandoffRetry
<1>5. ASSUME NEW p \in Procs, EndCommand(p) PROVE ValidationInv'
  BY <1>5, NoValidation DEF EndCommand
<1>6. ASSUME NEW p \in Procs, PendingHandoffs(p) PROVE ValidationInv'
  BY <1>6, NoValidation DEF PendingHandoffs
<1>7. ASSUME NEW p \in Procs, PrepareHandoff(p) PROVE ValidationInv'
  <2>1. cs'.val = cs.val /\ (cs'.state = "validating" => cs.state = "validating")
    <3>1. cs' = cs \/ cs' = [cs EXCEPT !.state = "applied"]
      BY <1>7 DEF PrepareHandoff
    <3> QED
      BY <1>a, <3>1 DEF ChangeSet
  <2>2. UNCHANGED <<vruns, test, srv>>
    BY <1>7 DEF PrepareHandoff
  <2> QED
    BY <2>1, <2>2, NoValidation
<1>8. ASSUME NEW p \in Procs, CompareBinding(p) PROVE ValidationInv'
  BY <1>8, NoValidation DEF CompareBinding
<1>9. ASSUME NEW p \in Procs, AcceptChangeSet(p) PROVE ValidationInv'
  <2>1. cs'.val = cs.val /\ (cs'.state = "validating" => cs.state = "validating")
    BY <1>9, <1>a, ValidationEffect DEF AcceptChangeSet
  <2>2. UNCHANGED <<vruns, test, srv>>
    BY <1>9 DEF AcceptChangeSet
  <2> QED
    BY <2>1, <2>2, NoValidation
<1>10. ASSUME NEW p \in Procs, FilterHandoff(p) PROVE ValidationInv'
  BY <1>10, NoValidation DEF FilterHandoff
<1>11. ASSUME NEW p \in Procs, StartHandoff(p) PROVE ValidationInv'
  <2>a. srv' = srv \/ \E s \in {"applying", "handoff_blocked"} : srv' = [srv EXCEPT !.state = s]
    BY <1>11 DEF StartHandoff
  <2>1. srv'.val = srv.val /\ srv'.status = srv.status
    BY <1>a, <2>a DEF Server
  <2>2. UNCHANGED <<vruns, test, cs>>
    BY <1>11 DEF StartHandoff
  <2> QED
    BY <2>1, <2>2, NoValidation
<1>12. ASSUME NEW p \in Procs, DecideHandoff(p) PROVE ValidationInv'
  BY <1>12, NoValidation DEF DecideHandoff
<1>13. ASSUME NEW p \in Procs, CheckAccepted(p) PROVE ValidationInv'
  BY <1>13, NoValidation DEF CheckAccepted
<1>14. ASSUME NEW p \in Procs, LockRepository(p) PROVE ValidationInv'
  BY <1>14, NoValidation DEF LockRepository
<1>15. ASSUME NEW p \in Procs, BeginHandoff(p) PROVE ValidationInv'
  BY <1>15, NoValidation DEF BeginHandoff
<1>16. ASSUME NEW p \in Procs, UpdateRef(p) PROVE ValidationInv'
  BY <1>16, NoValidation DEF UpdateRef
<1>17. ASSUME NEW p \in Procs, BlockHandoff(p) PROVE ValidationInv'
  BY <1>17, NoValidation DEF BlockHandoff
<1>18. ASSUME NEW p \in Procs, PromoteRunBranch(p) PROVE ValidationInv'
  BY <1>18, NoValidation DEF PromoteRunBranch
<1>19. ASSUME NEW p \in Procs, FinishHandoff(p) PROVE ValidationInv'
  BY <1>19, NoValidation DEF FinishHandoff
<1>20. ASSUME NEW p \in Procs, ReportBlocked(p) PROVE ValidationInv'
  <2>a. srv' = srv \/ \E s \in {"handoff_blocked"} : srv' = [srv EXCEPT !.state = s]
    BY <1>20 DEF ReportBlocked
  <2>1. srv'.val = srv.val /\ srv'.status = srv.status
    BY <1>a, <2>a DEF Server
  <2>2. UNCHANGED <<vruns, test, cs>>
    BY <1>20 DEF ReportBlocked
  <2> QED
    BY <2>1, <2>2, NoValidation
<1>21. ASSUME NEW p \in Procs, ReportApplied(p) PROVE ValidationInv'
  <2>a. srv' = srv \/ \E s \in CompletedStates : srv' = [srv EXCEPT !.state = s]
    BY <1>21, Zenon DEF ReportApplied
  <2>1. srv'.val = srv.val /\ srv'.status = srv.status
    BY <1>a, <2>a DEF Server
  <2>2. UNCHANGED <<vruns, test, cs>>
    BY <1>21 DEF ReportApplied
  <2> QED
    BY <2>1, <2>2, NoValidation
<1>22. ASSUME NEW p \in Procs, SettleChangeSet(p) PROVE ValidationInv'
  <2>1. cs'.val = cs.val /\ (cs'.state = "validating" => cs.state = "validating")
    BY <1>22, <1>a, ValidationEffect DEF SettleChangeSet
  <2>2. UNCHANGED <<vruns, test, srv>>
    BY <1>22 DEF SettleChangeSet
  <2> QED
    BY <2>1, <2>2, NoValidation
<1>23. ASSUME NEW p \in Procs, AcknowledgeHandoff(p) PROVE ValidationInv'
  <2>a. srv' = srv \/ \E s \in {"completed"} : srv' = [srv EXCEPT !.state = s]
    BY <1>23 DEF AcknowledgeHandoff
  <2>1. srv'.val = srv.val /\ srv'.status = srv.status
    BY <1>a, <2>a DEF Server
  <2>2. UNCHANGED <<vruns, test, cs>>
    BY <1>23 DEF AcknowledgeHandoff
  <2> QED
    BY <2>1, <2>2, NoValidation
<1>24. ASSUME NEW p \in Procs, ReleasePorts(p) PROVE ValidationInv'
  BY <1>24, NoValidation DEF ReleasePorts
<1>25. ASSUME NEW p \in Procs, ApplyCommand(p) PROVE ValidationInv'
  BY <1>25, NoValidation DEF ApplyCommand
<1>26. ASSUME NEW p \in Procs, ReconcilerDies(p) PROVE ValidationInv'
  BY <1>26, NoValidation DEF ReconcilerDies
<1>27. ASSUME NEW p \in Procs, RestartReconciler(p) PROVE ValidationInv'
  BY <1>27, NoValidation DEF RestartReconciler
<1>28. CASE BeginValidation
  <2>1. CASE cs' = Superseded /\ UNCHANGED <<vruns, test>>
    <3>1. cs'.val = cs.val /\ cs'.state # "validating"
      BY <1>a, <2>1, ValidationEffect
    <3>2. UNCHANGED srv
      BY <1>28 DEF BeginValidation
    <3> QED
      BY <2>1, <3>1, <3>2, NoValidation
  <2>2. CASE ~(cs' = Superseded /\ UNCHANGED <<vruns, test>>)
    <3>a. /\ cs' = [cs EXCEPT !.state = "validating", !.val = cs.val + 1,
                              !.status = "running"]
          /\ test' = [pc |-> "report", val |-> cs.val + 1, rev |-> cs.rev]
          /\ srv' = srv
      BY <1>28, <2>2 DEF BeginValidation
    <3>b. cs'.val = cs.val + 1
      BY <1>a, <3>a DEF ChangeSet
    <3>1. /\ cs'.val = cs.val + 1 /\ srv' = srv
          /\ test'.pc = "report" /\ test'.val = cs.val + 1
      BY <3>a, <3>b
    <3>2. vruns' = [vruns EXCEPT ![cs.val + 1] = "running"]
      BY <1>28, <2>2 DEF BeginValidation
    <3>3. ASSUME srv.status = "passed"
          PROVE  /\ srv.val \in 1..(cs.val + 1) /\ srv.val # cs.val + 1
                 /\ vruns'[srv.val] = "passed"
      BY <1>b, <3>2, <3>3 DEF ValidationInv
    <3> QED
      BY <3>1, <3>3 DEF ValidationInv
  <2> QED
    BY <2>1, <2>2
<1>29. CASE ReportStarted
  <2>1. UNCHANGED <<cs, vruns>> /\ test.pc = "report"
    BY <1>29 DEF ReportStarted
  <2>2. test'.val = test.val /\ test'.pc # "finished"
    BY <1>29, <1>a DEF ReportStarted, TestType
  <2>3. srv' = srv \/ srv'.status = "running"
    BY <1>29, <1>a DEF ReportStarted, Reported, Server
  <2> QED
    BY <2>1, <2>2, <2>3 DEF ValidationInv
<1>30. CASE CancelValidationStart
  <2>1. test'.pc = "idle" /\ srv' = srv /\ test.pc # "idle"
    BY <1>30 DEF CancelValidationStart, NoTest
  <2>2. CASE cs.state = "validating" /\ cs.val = test.val
    <3>1. cs'.val = cs.val - 1 /\ cs'.state = "review_ready"
      BY <1>30, <1>a, <2>2 DEF CancelValidationStart, ChangeSet
    <3>2. vruns' = [vruns EXCEPT ![cs.val] = "none"]
      BY <1>30, <2>2 DEF CancelValidationStart
    <3>3. ASSUME srv.status = "passed"
          PROVE  srv.val \in 1..(cs.val - 1) /\ vruns'[srv.val] = "passed"
      BY <1>b, <2>2, <3>2, <3>3 DEF ValidationInv
    <3> QED
      BY <2>1, <3>1, <3>3 DEF ValidationInv
  <2>3. CASE ~(cs.state = "validating" /\ cs.val = test.val)
    BY <1>30, <2>1, <2>3 DEF CancelValidationStart, ValidationInv
  <2> QED
    BY <2>2, <2>3
<1>31. CASE FinishValidation
  <2>1. srv' = srv /\ test.pc # "idle"
    BY <1>31 DEF FinishValidation
  <2>2. CASE cs.state = "validating" /\ cs.val = test.val
    <3>1. cs'.val = cs.val /\ cs'.state = "review_ready" /\ test'.val = test.val
      BY <1>31, <1>a, <2>2 DEF FinishValidation, ChangeSet, TestType
    <3>2. \E s \in {"passed", "failed"} : vruns' = [vruns EXCEPT ![cs.val] = s]
      BY <1>31, <2>2 DEF FinishValidation
    <3>3. ASSUME srv.status = "passed"
          PROVE  srv.val \in 1..cs.val /\ vruns'[srv.val] = "passed"
      BY <1>b, <2>2, <3>2, <3>3 DEF ValidationInv
    <3> QED
      BY <2>1, <2>2, <3>1, <3>3 DEF ValidationInv
  <2>3. CASE ~(cs.state = "validating" /\ cs.val = test.val)
    BY <1>31, <2>1, <2>3 DEF FinishValidation, NoTest, ValidationInv
  <2> QED
    BY <2>2, <2>3
<1>32. CASE ReportFinished
  <2>1. UNCHANGED <<cs, vruns>> /\ test'.pc = "idle" /\ test.pc = "finished"
    BY <1>32 DEF ReportFinished, NoTest
  <2>2. test.val = cs.val /\ cs.val # 0 /\ cs.state # "validating"
    BY <2>1 DEF ValidationInv, TypeOK
  <2>3. srv' = srv \/ (srv'.val = test.val /\ srv'.status = vruns[test.val])
    BY <1>32, <1>a DEF ReportFinished, Reported, Server
  <2>4. cs.val \in 1..cs.val
    BY <1>b, <2>2
  <2> QED
    BY <2>1, <2>2, <2>3, <2>4 DEF ValidationInv
<1>33. CASE ValidationDies
  <2>1. UNCHANGED <<cs, vruns, srv>> /\ test'.pc = "idle"
    BY <1>33 DEF ValidationDies, NoTest
  <2> QED
    BY <2>1 DEF ValidationInv
<1>34. CASE Accept
  <2>1. srv'.val = srv.val /\ srv'.status = srv.status
    BY <1>34, <1>a DEF Accept, Server
  <2> QED
    BY <1>34, <2>1, NoValidation DEF Accept
<1>35. CASE Reject
  <2>1. srv'.val = srv.val /\ srv'.status = srv.status
    BY <1>35, <1>a DEF Reject, Server
  <2> QED
    BY <1>35, <2>1, NoValidation DEF Reject
<1>36. CASE RetryInBrowser
  <2>1. srv'.val = srv.val /\ srv'.status = srv.status
    BY <1>36, <1>a DEF RetryInBrowser, Server
  <2> QED
    BY <1>36, <2>1, NoValidation DEF RetryInBrowser
<1>37. CASE EditWorktree
  BY <1>37, NoValidation DEF EditWorktree
<1>38. CASE EditBranch
  BY <1>38, NoValidation DEF EditBranch
<1>39. CASE RetryTimeComes
  BY <1>39, NoValidation DEF RetryTimeComes
<1>40. CASE OtherProfileLocks
  BY <1>40, NoValidation DEF OtherProfileLocks
<1>41. CASE OtherProfileUnlocks
  BY <1>41, NoValidation DEF OtherProfileUnlocks
<1>42. CASE UNCHANGED vars
  BY <1>42, NoValidation DEF vars
<1> QED
  BY <1>1, <1>2, <1>3, <1>4, <1>5, <1>6, <1>7, <1>8, <1>9, <1>10, <1>11,
     <1>12, <1>13, <1>14, <1>15, <1>16, <1>17, <1>18, <1>19, <1>20, <1>21,
     <1>22, <1>23, <1>24, <1>25, <1>26, <1>27, <1>28, <1>29, <1>30, <1>31,
     <1>32, <1>33, <1>34, <1>35, <1>36, <1>37, <1>38, <1>39, <1>40, <1>41,
     <1>42
     DEF Next, Reconcile, Validate, User

\* HandoffInv is inductive, so it holds in every reachable state.
THEOREM HandoffInvariant == Spec => [](TypeOK /\ HandoffInv)
<1>1. Init => HandoffInv
  <2> SUFFICES ASSUME Init PROVE HandoffInv
    OBVIOUS
  <2>1. ServerInv
    BY DEF Init, ServerInv, Pending
  <2>2. BindingInv
    BY DEF Init, BindingInv, Bound, Critical, InitialChangeSet, NoRow
  <2>3. OrderInv
    BY DEF Init, OrderInv, Bound, Critical, CompletedStates, NoRow
  <2>4. ValidationInv
    BY DEF Init, ValidationInv, NoTest
  <2> QED
    BY <2>1, <2>2, <2>3, <2>4 DEF HandoffInv
<1>2. TypeOK /\ HandoffInv /\ [Next]_vars => HandoffInv'
  BY ServerStep, BindingStep, OrderStep, ValidationStep DEF HandoffInv
<1> QED
  BY <1>1, <1>2, TypeCorrect, PTL DEF Spec

-----------------------------------------------------------------------------
(* Safety *)

\* The run-owned branch moves only for an acceptance bound in the browser and,
\* with the same change-set revision, locally (apply_accepted_snapshot).
THEOREM AdvanceSafety == Spec => []OnlyAcceptedAdvances
<1>1. TypeOK /\ HandoffInv => OnlyAcceptedAdvances
  <2> SUFFICES ASSUME TypeOK, HandoffInv PROVE OnlyAcceptedAdvances
    OBVIOUS
  <2>1. branch = "accepted" => moved
    BY DEF HandoffInv, OrderInv
  <2>2. ASSUME moved PROVE cs.state \in Bound /\ srv.acc # NoBinding /\ cs.acc = srv.acc.rev
    BY <2>2 DEF HandoffInv, OrderInv, BindingInv, NoBinding
  <2> QED
    BY <2>1, <2>2 DEF OnlyAcceptedAdvances
<1> QED
  BY <1>1, HandoffInvariant, PTL

\* The server never counts a hand-off as applied before the local journal and
\* the branch record do, whatever was lost, repeated or interrupted.
THEOREM ReportSafety == Spec => []ServerNeverAhead
<1>1. TypeOK /\ HandoffInv => ServerNeverAhead
  BY DEF HandoffInv, OrderInv, ServerNeverAhead
<1> QED
  BY <1>1, HandoffInvariant, PTL

\* The handoffs row belongs to the accepted revision, whichever of
\* begin_handoff and schedule_handoff_retry inserted it.
THEOREM RowSafety == Spec => []RowIsForAcceptedRevision
<1>1. TypeOK /\ HandoffInv => RowIsForAcceptedRevision
  BY DEF HandoffInv, BindingInv, RowIsForAcceptedRevision
<1> QED
  BY <1>1, HandoffInvariant, PTL

\* Only the holder of the repository lock is between reading the branch and
\* recording the outcome (handoff.py).
THEOREM LockSafety == Spec => []CriticalHoldsLock
<1>1. TypeOK /\ HandoffInv => CriticalHoldsLock
  BY DEF HandoffInv, OrderInv, CriticalHoldsLock
<1> QED
  BY <1>1, HandoffInvariant, PTL

\* What the server shows as passed has passed here, under the same revision:
\* neither a cancelled start nor the reuse of its number can make it show another
\* outcome.
THEOREM ValidationSafety == Spec => []PassedMeansPassed
<1>1. TypeOK /\ HandoffInv => PassedMeansPassed
  BY DEF HandoffInv, ValidationInv, PassedMeansPassed
<1> QED
  BY <1>1, HandoffInvariant, PTL

-----------------------------------------------------------------------------
(* Refinement *)

\* The steps that change a change set keep a bound one bound to its revision.
LEMMA BoundStep ==
  ASSUME TypeOK, HandoffInv, [Next]_vars
  PROVE  cs.state \in Bound => cs'.state \in Bound /\ cs'.acc = cs.acc
<1> USE DEF TypeOK, Bound, localVars, ChangeSet
<1>1. ASSUME NEW p \in Procs, ReconcileIntegrity(p) PROVE cs.state \in Bound => cs'.state \in Bound /\ cs'.acc = cs.acc
  BY <1>1 DEF ReconcileIntegrity, MustSupersede
<1>2. ASSUME NEW p \in Procs, PostSupersede(p) PROVE cs.state \in Bound => cs'.state \in Bound /\ cs'.acc = cs.acc
  BY <1>2 DEF PostSupersede
<1>3. ASSUME NEW p \in Procs, ReconcileTerminalResources(p) PROVE cs.state \in Bound => cs'.state \in Bound /\ cs'.acc = cs.acc
  BY <1>3 DEF ReconcileTerminalResources
<1>4. ASSUME NEW p \in Procs, RequestHandoffRetry(p) PROVE cs.state \in Bound => cs'.state \in Bound /\ cs'.acc = cs.acc
  BY <1>4 DEF RequestHandoffRetry
<1>5. ASSUME NEW p \in Procs, EndCommand(p) PROVE cs.state \in Bound => cs'.state \in Bound /\ cs'.acc = cs.acc
  BY <1>5 DEF EndCommand
<1>6. ASSUME NEW p \in Procs, PendingHandoffs(p) PROVE cs.state \in Bound => cs'.state \in Bound /\ cs'.acc = cs.acc
  BY <1>6 DEF PendingHandoffs
<1>7. ASSUME NEW p \in Procs, PrepareHandoff(p) PROVE cs.state \in Bound => cs'.state \in Bound /\ cs'.acc = cs.acc
  BY <1>7 DEF PrepareHandoff
<1>8. ASSUME NEW p \in Procs, CompareBinding(p) PROVE cs.state \in Bound => cs'.state \in Bound /\ cs'.acc = cs.acc
  BY <1>8 DEF CompareBinding
<1>9. ASSUME NEW p \in Procs, AcceptChangeSet(p) PROVE cs.state \in Bound => cs'.state \in Bound /\ cs'.acc = cs.acc
  BY <1>9 DEF AcceptChangeSet, Accepted, HandoffInv, BindingInv
<1>10. ASSUME NEW p \in Procs, FilterHandoff(p) PROVE cs.state \in Bound => cs'.state \in Bound /\ cs'.acc = cs.acc
  BY <1>10 DEF FilterHandoff
<1>11. ASSUME NEW p \in Procs, StartHandoff(p) PROVE cs.state \in Bound => cs'.state \in Bound /\ cs'.acc = cs.acc
  BY <1>11 DEF StartHandoff
<1>12. ASSUME NEW p \in Procs, DecideHandoff(p) PROVE cs.state \in Bound => cs'.state \in Bound /\ cs'.acc = cs.acc
  BY <1>12 DEF DecideHandoff
<1>13. ASSUME NEW p \in Procs, CheckAccepted(p) PROVE cs.state \in Bound => cs'.state \in Bound /\ cs'.acc = cs.acc
  BY <1>13 DEF CheckAccepted
<1>14. ASSUME NEW p \in Procs, LockRepository(p) PROVE cs.state \in Bound => cs'.state \in Bound /\ cs'.acc = cs.acc
  BY <1>14 DEF LockRepository
<1>15. ASSUME NEW p \in Procs, BeginHandoff(p) PROVE cs.state \in Bound => cs'.state \in Bound /\ cs'.acc = cs.acc
  BY <1>15 DEF BeginHandoff
<1>16. ASSUME NEW p \in Procs, UpdateRef(p) PROVE cs.state \in Bound => cs'.state \in Bound /\ cs'.acc = cs.acc
  BY <1>16 DEF UpdateRef
<1>17. ASSUME NEW p \in Procs, BlockHandoff(p) PROVE cs.state \in Bound => cs'.state \in Bound /\ cs'.acc = cs.acc
  BY <1>17 DEF BlockHandoff
<1>18. ASSUME NEW p \in Procs, PromoteRunBranch(p) PROVE cs.state \in Bound => cs'.state \in Bound /\ cs'.acc = cs.acc
  BY <1>18 DEF PromoteRunBranch
<1>19. ASSUME NEW p \in Procs, FinishHandoff(p) PROVE cs.state \in Bound => cs'.state \in Bound /\ cs'.acc = cs.acc
  BY <1>19 DEF FinishHandoff
<1>20. ASSUME NEW p \in Procs, ReportBlocked(p) PROVE cs.state \in Bound => cs'.state \in Bound /\ cs'.acc = cs.acc
  BY <1>20 DEF ReportBlocked
<1>21. ASSUME NEW p \in Procs, ReportApplied(p) PROVE cs.state \in Bound => cs'.state \in Bound /\ cs'.acc = cs.acc
  BY <1>21 DEF ReportApplied
<1>22. ASSUME NEW p \in Procs, SettleChangeSet(p) PROVE cs.state \in Bound => cs'.state \in Bound /\ cs'.acc = cs.acc
  BY <1>22 DEF SettleChangeSet
<1>23. ASSUME NEW p \in Procs, AcknowledgeHandoff(p) PROVE cs.state \in Bound => cs'.state \in Bound /\ cs'.acc = cs.acc
  BY <1>23 DEF AcknowledgeHandoff
<1>24. ASSUME NEW p \in Procs, ReleasePorts(p) PROVE cs.state \in Bound => cs'.state \in Bound /\ cs'.acc = cs.acc
  BY <1>24 DEF ReleasePorts
<1>25. ASSUME NEW p \in Procs, ApplyCommand(p) PROVE cs.state \in Bound => cs'.state \in Bound /\ cs'.acc = cs.acc
  BY <1>25 DEF ApplyCommand
<1>26. ASSUME NEW p \in Procs, ReconcilerDies(p) PROVE cs.state \in Bound => cs'.state \in Bound /\ cs'.acc = cs.acc
  BY <1>26 DEF ReconcilerDies
<1>27. ASSUME NEW p \in Procs, RestartReconciler(p) PROVE cs.state \in Bound => cs'.state \in Bound /\ cs'.acc = cs.acc
  BY <1>27 DEF RestartReconciler
<1>28. CASE BeginValidation
  BY <1>28 DEF BeginValidation, MustSupersede
<1>29. CASE ReportStarted
  BY <1>29 DEF ReportStarted
<1>30. CASE CancelValidationStart
  BY <1>30 DEF CancelValidationStart
<1>31. CASE FinishValidation
  BY <1>31 DEF FinishValidation
<1>32. CASE ReportFinished
  BY <1>32 DEF ReportFinished
<1>33. CASE ValidationDies
  BY <1>33 DEF ValidationDies
<1>34. CASE Accept
  BY <1>34 DEF Accept
<1>35. CASE Reject
  BY <1>35 DEF Reject
<1>36. CASE RetryInBrowser
  BY <1>36 DEF RetryInBrowser
<1>37. CASE EditWorktree
  BY <1>37 DEF EditWorktree
<1>38. CASE EditBranch
  BY <1>38 DEF EditBranch
<1>39. CASE RetryTimeComes
  BY <1>39 DEF RetryTimeComes
<1>40. CASE OtherProfileLocks
  BY <1>40 DEF OtherProfileLocks
<1>41. CASE OtherProfileUnlocks
  BY <1>41 DEF OtherProfileUnlocks
<1>42. CASE UNCHANGED vars
  BY <1>42 DEF vars
<1> QED
  BY <1>1, <1>2, <1>3, <1>4, <1>5, <1>6, <1>7, <1>8, <1>9, <1>10, <1>11, <1>12, <1>13, <1>14, <1>15, <1>16, <1>17, <1>18, <1>19, <1>20, <1>21, <1>22, <1>23, <1>24, <1>25, <1>26, <1>27, <1>28, <1>29, <1>30, <1>31, <1>32, <1>33, <1>34, <1>35, <1>36, <1>37, <1>38, <1>39, <1>40, <1>41, <1>42
     DEF Next, Reconcile, Validate, User

\* An acceptance is for good: no later command, retry or reconciliation takes
\* a bound change set back or binds it to another revision.
THEOREM BindingIsFinal == Spec => BoundForGood
<1>1. TypeOK /\ HandoffInv /\ [Next]_vars =>
        [cs.state \in Bound => cs'.state \in Bound /\ cs'.acc = cs.acc]_vars
  BY BoundStep
<1> QED
  BY <1>1, HandoffInvariant, PTL DEF Spec, BoundForGood

\* Every step of the hand-off is a step of Promotion, or stutters.
LEMMA PromiseStep ==
  ASSUME TypeOK, HandoffInv, [Next]_vars
  PROVE  [Promise!Next]_Promise!promVars
<1> USE DEF TypeOK, localVars, procVars, envVars, CompletedStates,
            Promise!Next, Promise!promVars, Promise!Decide, Promise!Advance,
            Promise!UserMovesBranch, Promise!Journal, Promise!Report
<1>1. ASSUME NEW p \in Procs, ReconcileIntegrity(p) PROVE [Promise!Next]_Promise!promVars
  BY <1>1 DEF ReconcileIntegrity
<1>2. ASSUME NEW p \in Procs, PostSupersede(p) PROVE [Promise!Next]_Promise!promVars
  <2>1. srv' = srv \/ srv' = SupersededOnServer
    BY <1>2 DEF PostSupersede
  <2>2. cs.rev > 0 /\ srv.rev > 0
    BY DEF HandoffInv, ServerInv, BindingInv
  <2>3. /\ srv'.acc = srv.acc
        /\ srv' = srv \/ srv'.state = "superseded"
             \/ srv'.state = srv.state
        /\ srv.state = "superseded" => srv'.state = srv.state
    BY <2>1, <2>2, SupersededEffect
  <2>4. UNCHANGED <<row, ref, moved>>
    BY <1>2 DEF PostSupersede
  <2>5. srv.state \in CompletedStates => srv'.state = srv.state
    BY <2>1 DEF SupersededOnServer
  <2> QED
    BY <2>3, <2>4, <2>5
<1>3. ASSUME NEW p \in Procs, ReconcileTerminalResources(p) PROVE [Promise!Next]_Promise!promVars
  BY <1>3 DEF ReconcileTerminalResources
<1>4. ASSUME NEW p \in Procs, RequestHandoffRetry(p) PROVE [Promise!Next]_Promise!promVars
  BY <1>4 DEF RequestHandoffRetry, Row
<1>5. ASSUME NEW p \in Procs, EndCommand(p) PROVE [Promise!Next]_Promise!promVars
  BY <1>5 DEF EndCommand
<1>6. ASSUME NEW p \in Procs, PendingHandoffs(p) PROVE [Promise!Next]_Promise!promVars
  BY <1>6 DEF PendingHandoffs
<1>7. ASSUME NEW p \in Procs, PrepareHandoff(p) PROVE [Promise!Next]_Promise!promVars
  BY <1>7 DEF PrepareHandoff, Consumed, Row
<1>8. ASSUME NEW p \in Procs, CompareBinding(p) PROVE [Promise!Next]_Promise!promVars
  BY <1>8 DEF CompareBinding
<1>9. ASSUME NEW p \in Procs, AcceptChangeSet(p) PROVE [Promise!Next]_Promise!promVars
  BY <1>9 DEF AcceptChangeSet
<1>10. ASSUME NEW p \in Procs, FilterHandoff(p) PROVE [Promise!Next]_Promise!promVars
  BY <1>10 DEF FilterHandoff
<1>11. ASSUME NEW p \in Procs, StartHandoff(p) PROVE [Promise!Next]_Promise!promVars
  <2>1. row'.state = "applied" <=> row.state = "applied"
    <3>1. CASE \E b \in BOOLEAN : RecordFailure(p, b)
      BY <3>1, FailureEffect
    <3>2. CASE ~(\E b \in BOOLEAN : RecordFailure(p, b))
      BY <1>11, <3>2 DEF StartHandoff
    <3> QED
      BY <3>1, <3>2
  <2>2. /\ srv'.acc = srv.acc
        /\ srv'.state = srv.state \/
                 (srv.state \notin CompletedStates \cup {"review"}
                  /\ srv'.state \in {"applying", "handoff_blocked"})
    BY <1>11 DEF StartHandoff, Server
  <2>3. UNCHANGED <<ref, moved>>
    BY <1>11 DEF StartHandoff
  <2> QED
    BY <2>1, <2>2, <2>3
<1>12. ASSUME NEW p \in Procs, DecideHandoff(p) PROVE [Promise!Next]_Promise!promVars
  BY <1>12 DEF DecideHandoff
<1>13. ASSUME NEW p \in Procs, CheckAccepted(p) PROVE [Promise!Next]_Promise!promVars
  BY <1>13 DEF CheckAccepted
<1>14. ASSUME NEW p \in Procs, LockRepository(p) PROVE [Promise!Next]_Promise!promVars
  BY <1>14 DEF LockRepository
<1>15. ASSUME NEW p \in Procs, BeginHandoff(p) PROVE [Promise!Next]_Promise!promVars
  BY <1>15 DEF BeginHandoff, BegunRow, Row, NoRow
<1>16. ASSUME NEW p \in Procs, UpdateRef(p) PROVE [Promise!Next]_Promise!promVars
  BY <1>16 DEF UpdateRef, HandoffInv, ServerInv, BindingInv, OrderInv, Critical, Bound, NoBinding
<1>17. ASSUME NEW p \in Procs, BlockHandoff(p) PROVE [Promise!Next]_Promise!promVars
  BY <1>17 DEF BlockHandoff, Row
<1>18. ASSUME NEW p \in Procs, PromoteRunBranch(p) PROVE [Promise!Next]_Promise!promVars
  BY <1>18 DEF PromoteRunBranch
<1>19. ASSUME NEW p \in Procs, FinishHandoff(p) PROVE [Promise!Next]_Promise!promVars
  BY <1>19 DEF FinishHandoff, Row, HandoffInv, OrderInv
<1>20. ASSUME NEW p \in Procs, ReportBlocked(p) PROVE [Promise!Next]_Promise!promVars
  <2>1. row'.state = "applied" <=> row.state = "applied"
    <3>1. CASE \E b \in BOOLEAN : RecordFailure(p, b)
      BY <3>1, FailureEffect
    <3>2. CASE ~(\E b \in BOOLEAN : RecordFailure(p, b))
      BY <1>20, <3>2 DEF ReportBlocked
    <3> QED
      BY <3>1, <3>2
  <2>2. /\ srv'.acc = srv.acc
        /\ srv'.state = srv.state \/
                 (srv.state \notin CompletedStates \cup {"review"}
                  /\ srv'.state \in {"applying", "handoff_blocked"})
    BY <1>20 DEF ReportBlocked, Server
  <2>3. UNCHANGED <<ref, moved>>
    BY <1>20 DEF ReportBlocked
  <2> QED
    BY <2>1, <2>2, <2>3
<1>21. ASSUME NEW p \in Procs, ReportApplied(p) PROVE [Promise!Next]_Promise!promVars
  <2>1. row'.state = "applied" <=> row.state = "applied"
    <3>1. CASE \E b \in BOOLEAN : RecordFailure(p, b)
      BY <3>1, FailureEffect
    <3>2. CASE ~(\E b \in BOOLEAN : RecordFailure(p, b))
      BY <1>21, <3>2 DEF ReportApplied
    <3> QED
      BY <3>1, <3>2
  <2>2. /\ srv'.acc = srv.acc
        /\ srv'.state = srv.state \/
                 (srv.state = "applying" /\ srv'.state \in CompletedStates
                  /\ row.state = "applied")
    BY <1>21 DEF ReportApplied, Server, HandoffInv, OrderInv
  <2>3. UNCHANGED <<ref, moved>>
    BY <1>21 DEF ReportApplied
  <2> QED
    BY <2>1, <2>2, <2>3
<1>22. ASSUME NEW p \in Procs, SettleChangeSet(p) PROVE [Promise!Next]_Promise!promVars
  BY <1>22 DEF SettleChangeSet
<1>23. ASSUME NEW p \in Procs, AcknowledgeHandoff(p) PROVE [Promise!Next]_Promise!promVars
  <2>1. row'.state = "applied" <=> row.state = "applied"
    <3>1. CASE \E b \in BOOLEAN : RecordFailure(p, b)
      BY <3>1, FailureEffect
    <3>2. CASE ~(\E b \in BOOLEAN : RecordFailure(p, b))
      BY <1>23, <3>2 DEF AcknowledgeHandoff
    <3> QED
      BY <3>1, <3>2
  <2>2. /\ srv'.acc = srv.acc
        /\ srv'.state = srv.state \/
                 (srv.state \in CompletedStates /\ srv'.state \in CompletedStates)
    BY <1>23 DEF AcknowledgeHandoff, Server
  <2>3. UNCHANGED <<ref, moved>>
    BY <1>23 DEF AcknowledgeHandoff
  <2> QED
    BY <2>1, <2>2, <2>3
<1>24. ASSUME NEW p \in Procs, ReleasePorts(p) PROVE [Promise!Next]_Promise!promVars
  BY <1>24 DEF ReleasePorts
<1>25. ASSUME NEW p \in Procs, ApplyCommand(p) PROVE [Promise!Next]_Promise!promVars
  BY <1>25 DEF ApplyCommand
<1>26. ASSUME NEW p \in Procs, ReconcilerDies(p) PROVE [Promise!Next]_Promise!promVars
  BY <1>26 DEF ReconcilerDies
<1>27. ASSUME NEW p \in Procs, RestartReconciler(p) PROVE [Promise!Next]_Promise!promVars
  BY <1>27 DEF RestartReconciler
<1>28. CASE BeginValidation
  BY <1>28 DEF BeginValidation
<1>29. CASE ReportStarted
  <2>1. srv' = srv \/ \E s : srv' = Reported(s)
    BY <1>29 DEF ReportStarted
  <2>2. srv'.acc = srv.acc /\ srv'.rev = srv.rev /\ srv'.state = srv.state
    BY <2>1, ReportEffect
  <2>3. UNCHANGED <<cs, row, branch, ref, lock, pc, loc, head, moved>>
    BY <1>29 DEF ReportStarted
  <2> QED
    BY <2>2, <2>3
<1>30. CASE CancelValidationStart
  BY <1>30 DEF CancelValidationStart
<1>31. CASE FinishValidation
  BY <1>31 DEF FinishValidation
<1>32. CASE ReportFinished
  <2>1. srv' = srv \/ \E s : srv' = Reported(s)
    BY <1>32 DEF ReportFinished
  <2>2. srv'.acc = srv.acc /\ srv'.rev = srv.rev /\ srv'.state = srv.state
    BY <2>1, ReportEffect
  <2>3. UNCHANGED <<cs, row, branch, ref, lock, pc, loc, head, moved>>
    BY <1>32 DEF ReportFinished
  <2> QED
    BY <2>2, <2>3
<1>33. CASE ValidationDies
  BY <1>33 DEF ValidationDies
<1>34. CASE Accept
  <2>1. srv.state = "review" /\ srv.acc = NoBinding /\ srv.rev > 0
    BY <1>34 DEF Accept, HandoffInv, ServerInv
  <2>2. srv'.state = "accepted" /\ srv'.acc.rev = srv.rev
    BY <1>34 DEF Accept, Server
  <2>3. srv'.acc # NoBinding
    BY <2>1, <2>2 DEF NoBinding
  <2>4. UNCHANGED <<row, ref, moved>>
    BY <1>34 DEF Accept
  <2> QED
    BY <2>1, <2>2, <2>3, <2>4
<1>35. CASE Reject
  BY <1>35 DEF Reject, Server
<1>36. CASE RetryInBrowser
  BY <1>36 DEF RetryInBrowser, Server
<1>37. CASE EditWorktree
  BY <1>37 DEF EditWorktree
<1>38. CASE EditBranch
  BY <1>38 DEF EditBranch
<1>39. CASE RetryTimeComes
  BY <1>39 DEF RetryTimeComes, Row
<1>40. CASE OtherProfileLocks
  BY <1>40 DEF OtherProfileLocks
<1>41. CASE OtherProfileUnlocks
  BY <1>41 DEF OtherProfileUnlocks
<1>42. CASE UNCHANGED vars
  BY <1>42 DEF vars
<1> QED
  BY <1>1, <1>2, <1>3, <1>4, <1>5, <1>6, <1>7, <1>8, <1>9, <1>10, <1>11, <1>12, <1>13, <1>14, <1>15, <1>16, <1>17, <1>18, <1>19, <1>20, <1>21, <1>22, <1>23, <1>24, <1>25, <1>26, <1>27, <1>28, <1>29, <1>30, <1>31, <1>32, <1>33, <1>34, <1>35, <1>36, <1>37, <1>38, <1>39, <1>40, <1>41, <1>42
     DEF Next, Reconcile, Validate, User

\* The hand-off keeps the promise: branch, journal and server in this order,
\* for an accepted run only, and never over a commit of the user's.
THEOREM Refinement == Spec => KeepsPromise
<1>1. Init => Promise!Init
  BY DEF Init, Promise!Init, NoBinding, NoRow, CompletedStates
<1>2. TypeOK /\ HandoffInv /\ [Next]_vars => [Promise!Next]_Promise!promVars
  BY PromiseStep
<1> QED
  BY <1>1, <1>2, HandoffInvariant, PTL DEF Spec, KeepsPromise, Promise!Spec

\* No reconciler moves the branch from a commit the user has put there.
THEOREM UserBranchSafety == Spec => UserBranchKept
<1>1. [Promise!Next]_Promise!promVars => [ref = "other" => ref' # "snapshot"]_vars
  BY DEF vars, Promise!Next, Promise!promVars, Promise!Decide, Promise!Advance,
         Promise!UserMovesBranch, Promise!Journal, Promise!Report
<1> QED
  BY <1>1, Refinement, PTL DEF KeepsPromise, Promise!Spec, UserBranchKept

\* The journal is final, and once it says "applied" the snapshot is not
\* applied again.
THEOREM AppliedOnceSafety == Spec => AppliedOnce
<1>1. [Promise!Next]_Promise!promVars =>
        [row.state = "applied" =>
           row'.state = "applied" /\ (ref' = "snapshot" => ref = "snapshot")]_vars
  BY DEF vars, Promise!Next, Promise!promVars, Promise!Decide, Promise!Advance,
         Promise!UserMovesBranch, Promise!Journal, Promise!Report
<1> QED
  BY <1>1, Refinement, PTL DEF KeepsPromise, Promise!Spec, AppliedOnce
=============================================================================
