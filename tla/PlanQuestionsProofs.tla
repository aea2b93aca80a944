------------------------ MODULE PlanQuestionsProofs ------------------------
(***************************************************************************)
(* Proofs about PlanQuestions, for any number of commits, questions,       *)
(* leases, failed calls and deaths.                                        *)
(***************************************************************************)
EXTENDS PlanQuestions, TLAPS

\* Every step keeps the types of the data.
LEMMA DataStep ==
  ASSUME DataOK, SuspensionInv, [Next]_vars
  PROVE  DataOK'
<1>1. CASE ClaimRun
  BY <1>1, PlanAssumption DEF ClaimRun, Goto, Answered, disk, codex, bounds,
     PlanAssumption, DataOK, AskState, RunState, Places, Commits, Questions,
     Ended
<1>2. CASE RecoverWorker
  BY <1>2, PlanAssumption DEF RecoverWorker, Goto, Answered, server, disk,
     codex, bounds, PlanAssumption, DataOK, AskState, RunState, Places, Commits,
     Questions, Ended
<1>3. CASE Begin
  BY <1>3, PlanAssumption DEF Begin, Goto, server, disk, store, codex, bounds,
     PlanAssumption, DataOK, AskState, RunState, Places, Commits, Questions,
     Ended
<1>4. CASE ResolveBase
  BY <1>4, PlanAssumption DEF ResolveBase, Goto, server, disk, store, codex,
     bounds, PlanAssumption, DataOK, AskState, RunState, Places, Commits,
     Questions, Ended
<1>5. CASE BindBase
  BY <1>5, PlanAssumption DEF BindBase, Goto, Honoured, disk, store, codex,
     local, bounds, PlanAssumption, DataOK, AskState, RunState, Places, Commits,
     Questions, Ended
<1>6. CASE CannotResolve
  BY <1>6, PlanAssumption DEF CannotResolve, Goto, server, disk, store, codex,
     local, bounds, PlanAssumption, DataOK, AskState, RunState, Places, Commits,
     Questions, Ended
<1>7. CASE PrepareProject
  BY <1>7, PlanAssumption DEF PrepareProject, Goto, Honoured, server, disk,
     codex, local, bounds, PlanAssumption, DataOK, AskState, RunState, Places,
     Commits, Questions, Ended
<1>8. CASE StartTurn
  BY <1>8, PlanAssumption DEF StartTurn, Goto, Honoured, server, disk, store,
     local, bounds, PlanAssumption, DataOK, AskState, RunState, Places, Commits,
     Questions, Ended
<1>9. CASE AskQuestion
  BY <1>9, PlanAssumption DEF AskQuestion, Goto, Honoured, disk, store, codex,
     bounds, PlanAssumption, DataOK, AskState, RunState, Places, Commits,
     Questions, Ended
<1>10. CASE TouchFiles
  BY <1>10, PlanAssumption DEF TouchFiles, server, store, codex, bounds,
     PlanAssumption, DataOK, AskState, RunState, Places, Commits, Questions,
     Ended
<1>11. CASE SeeAnswer
  BY <1>11, PlanAssumption DEF SeeAnswer, Goto, Answered, server, disk, store,
     codex, local, bounds, PlanAssumption, DataOK, AskState, RunState, Places,
     Commits, Questions, Ended
<1>12. CASE ConsumeAnswer
  BY <1>12, PlanAssumption DEF SuspensionInv, ConsumeAnswer, Goto, Honoured,
     disk, store, local, bounds, PlanAssumption, DataOK, AskState, RunState,
     Places, Commits, Questions, Ended
<1>13. CASE WaitIsOver
  BY <1>13, PlanAssumption DEF WaitIsOver, Goto, server, disk, store, codex,
     local, bounds, PlanAssumption, DataOK, AskState, RunState, Places, Commits,
     Questions, Ended
<1>14. CASE SuspendQuestion
  BY <1>14, PlanAssumption DEF SuspendQuestion, Goto, Honoured, Suspends, disk,
     store, codex, local, bounds, PlanAssumption, DataOK, AskState, RunState,
     Places, Commits, Questions, Ended
<1>15. CASE LeaveSuspended
  BY <1>15, PlanAssumption DEF LeaveSuspended, Goto, Released, Removed, server,
     codex, local, bounds, PlanAssumption, DataOK, AskState, RunState, Places,
     Commits, Questions, Ended
<1>16. CASE TurnEnds
  BY <1>16, PlanAssumption DEF TurnEnds, Goto, server, disk, store, codex,
     local, bounds, PlanAssumption, DataOK, AskState, RunState, Places, Commits,
     Questions, Ended
<1>17. CASE CleanUp
  BY <1>17, PlanAssumption DEF CleanUp, Goto, Removed, server, codex, local,
     bounds, PlanAssumption, DataOK, AskState, RunState, Places, Commits,
     Questions, Ended
<1>18. CASE JudgePlan
  BY <1>18, PlanAssumption DEF JudgePlan, Goto, server, disk, codex, local,
     bounds, PlanAssumption, DataOK, AskState, RunState, Places, Commits,
     Questions, Ended
<1>19. CASE RejectPlan
  BY <1>19, PlanAssumption DEF RejectPlan, Goto, Honoured, Released, Removed,
     codex, local, bounds, PlanAssumption, DataOK, AskState, RunState, Places,
     Commits, Questions, Ended
<1>20. CASE RemoveWorktree
  BY <1>20, PlanAssumption DEF RemoveWorktree, RemoveOrRaise, server, codex,
     local, bounds, Removed, Goto, PlanAssumption, DataOK, AskState, RunState,
     Places, Commits, Questions, Ended
<1>21. CASE CompletePlan
  BY <1>21, PlanAssumption DEF CompletePlan, Goto, Honoured, GiveUpRun, disk,
     codex, local, bounds, Released, PlanAssumption, DataOK, AskState, RunState,
     Places, Commits, Questions, Ended
<1>22. CASE ReportBlocker
  BY <1>22, PlanAssumption DEF ReportBlocker, Goto, Honoured, GiveUpRun, disk,
     codex, local, bounds, Released, PlanAssumption, DataOK, AskState, RunState,
     Places, Commits, Questions, Ended
<1>23. CASE Abandon
  BY <1>23, PlanAssumption DEF Abandon, Goto, Fault, Honoured, Calling, server,
     disk, store, codex, local, PlanAssumption, DataOK, AskState, RunState,
     Places, Commits, Questions, Ended
<1>24. CASE BindLost
  BY <1>24, PlanAssumption DEF BindLost, Goto, Fault, Honoured, disk, store,
     codex, local, PlanAssumption, DataOK, AskState, RunState, Places, Commits,
     Questions, Ended
<1>25. CASE DiesPreparing
  BY <1>25, PlanAssumption DEF DiesPreparing, Goto, Death, Honoured, server,
     store, codex, local, PlanAssumption, DataOK, AskState, RunState, Places,
     Commits, Questions, Ended
<1>26. CASE ConsumeLost
  BY <1>26, PlanAssumption DEF ConsumeLost, Goto, Fault, Death, Honoured, disk,
     store, codex, local, PlanAssumption, DataOK, AskState, RunState, Places,
     Commits, Questions, Ended
<1>27. CASE SuspendLost
  <2>1. ask' \in AskState /\ run' \in RunState
    BY <1>27 DEF SuspendLost, Suspends, DataOK, AskState, RunState
  <2> QED
    BY <1>27, <2>1, PlanAssumption DEF PlanAssumption, SuspendLost, Fault, Goto,
       Places, disk, store, codex, local, bounds, DataOK
<1>28. CASE OutcomeLost
  BY <1>28, PlanAssumption DEF OutcomeLost, Goto, Fault, Death, Honoured,
     Outcome, disk, codex, local, PlanAssumption, DataOK, AskState, RunState,
     Places, Commits, Questions, Ended
<1>29. CASE DaemonDies
  BY <1>29, PlanAssumption DEF DaemonDies, Goto, Death, server, disk, store,
     codex, local, PlanAssumption, DataOK, AskState, RunState, Places, Commits,
     Questions, Ended
<1>30. CASE ReconcileTerminal
  BY <1>30, PlanAssumption DEF ReconcileTerminal, GiveUpRun, Ended, server,
     disk, codex, local, bounds, Released, PlanAssumption, DataOK, AskState,
     RunState, Places, Commits, Questions
<1>31. CASE ReconcileIdle
  BY <1>31, PlanAssumption DEF ReconcileIdle, Ended, server, disk, codex, local,
     bounds, PlanAssumption, DataOK, AskState, RunState, Places, Commits,
     Questions
<1>32. CASE UserAnswers
  BY <1>32, PlanAssumption DEF UserAnswers, disk, store, codex, local, bounds,
     PlanAssumption, DataOK, AskState, RunState, Places, Commits, Questions,
     Ended
<1>33. CASE UserResumes
  BY <1>33, PlanAssumption DEF UserResumes, disk, store, codex, local, bounds,
     PlanAssumption, DataOK, AskState, RunState, Places, Commits, Questions,
     Ended
<1>34. CASE Cancel
  BY <1>34, PlanAssumption DEF Cancel, Ended, disk, store, codex, local, bounds,
     PlanAssumption, DataOK, AskState, RunState, Places, Commits, Questions
<1>35. CASE EditWorktree
  BY <1>35, PlanAssumption DEF EditWorktree, server, store, codex, local,
     bounds, PlanAssumption, DataOK, AskState, RunState, Places, Commits,
     Questions, Ended
<1>36. CASE MoveBranch
  BY <1>36, PlanAssumption DEF MoveBranch, server, disk, store, codex, local,
     bounds, PlanAssumption, DataOK, AskState, RunState, Places, Commits,
     Questions, Ended
<1>37. CASE LeaseExpires
  BY <1>37, PlanAssumption DEF LeaseExpires, disk, store, codex, local, bounds,
     PlanAssumption, DataOK, AskState, RunState, Places, Commits, Questions,
     Ended
<1>38. CASE UNCHANGED vars
  BY <1>38, PlanAssumption DEF vars, PlanAssumption, DataOK, AskState, RunState,
     Places, Commits, Questions, Ended
<1> QED
  BY <1>1, <1>2, <1>3, <1>4, <1>5, <1>6, <1>7, <1>8, <1>9, <1>10, <1>11, <1>12,
     <1>13, <1>14, <1>15, <1>16, <1>17, <1>18, <1>19, <1>20, <1>21, <1>22,
     <1>23, <1>24, <1>25, <1>26, <1>27, <1>28, <1>29, <1>30, <1>31, <1>32,
     <1>33, <1>34, <1>35, <1>36, <1>37, <1>38 DEF Next, Execution, Failure,
     Environment

\* Every step keeps the flags Boolean.
LEMMA FlagsStep ==
  ASSUME FlagsOK, [Next]_vars
  PROVE  FlagsOK'
<1>1. CASE ClaimRun
  BY <1>1, Zenon DEF ClaimRun, Goto, Answered, disk, codex, bounds, FlagsOK
<1>2. CASE RecoverWorker
  BY <1>2, Zenon DEF RecoverWorker, Goto, Answered, server, disk, codex, bounds,
     FlagsOK
<1>3. CASE Begin
  BY <1>3, Zenon DEF Begin, Goto, server, disk, store, codex, bounds, FlagsOK
<1>4. CASE ResolveBase
  BY <1>4, Zenon DEF ResolveBase, Goto, server, disk, store, codex, bounds,
     FlagsOK
<1>5. CASE BindBase
  BY <1>5, Zenon DEF BindBase, Goto, Honoured, disk, store, codex, local,
     bounds, FlagsOK
<1>6. CASE CannotResolve
  BY <1>6, Zenon DEF CannotResolve, Goto, server, disk, store, codex, local,
     bounds, FlagsOK
<1>7. CASE PrepareProject
  BY <1>7, Zenon DEF PrepareProject, Goto, Honoured, server, disk, codex, local,
     bounds, FlagsOK
<1>8. CASE StartTurn
  BY <1>8, Zenon DEF StartTurn, Goto, Honoured, server, disk, store, local,
     bounds, FlagsOK
<1>9. CASE AskQuestion
  BY <1>9, Zenon DEF AskQuestion, Goto, Honoured, disk, store, codex, bounds,
     FlagsOK
<1>10. CASE TouchFiles
  BY <1>10, Zenon DEF TouchFiles, server, store, codex, bounds, FlagsOK
<1>11. CASE SeeAnswer
  BY <1>11, Zenon DEF SeeAnswer, Goto, Answered, server, disk, store, codex,
     local, bounds, FlagsOK
<1>12. CASE ConsumeAnswer
  BY <1>12, Zenon DEF ConsumeAnswer, Goto, Honoured, disk, store, local, bounds,
     FlagsOK
<1>13. CASE WaitIsOver
  BY <1>13, Zenon DEF WaitIsOver, Goto, server, disk, store, codex, local,
     bounds, FlagsOK
<1>14. CASE SuspendQuestion
  BY <1>14, Zenon DEF SuspendQuestion, Goto, Honoured, Suspends, disk, store,
     codex, local, bounds, FlagsOK
<1>15. CASE LeaveSuspended
  BY <1>15, Zenon DEF LeaveSuspended, Goto, Released, Removed, server, codex,
     local, bounds, FlagsOK
<1>16. CASE TurnEnds
  BY <1>16, Zenon DEF TurnEnds, Goto, server, disk, store, codex, local, bounds,
     FlagsOK
<1>17. CASE CleanUp
  BY <1>17, Zenon DEF CleanUp, Goto, Removed, server, codex, local, bounds,
     FlagsOK
<1>18. CASE JudgePlan
  BY <1>18, Zenon DEF JudgePlan, Goto, server, disk, codex, local, bounds,
     FlagsOK
<1>19. CASE RejectPlan
  BY <1>19, Zenon DEF RejectPlan, Goto, Honoured, Released, Removed, codex,
     local, bounds, FlagsOK
<1>20. CASE RemoveWorktree
  BY <1>20, Zenon DEF RemoveWorktree, RemoveOrRaise, server, codex, local,
     bounds, Removed, Goto, FlagsOK
<1>21. CASE CompletePlan
  BY <1>21, Zenon DEF CompletePlan, Goto, Honoured, GiveUpRun, disk, codex,
     local, bounds, Released, FlagsOK
<1>22. CASE ReportBlocker
  BY <1>22, Zenon DEF ReportBlocker, Goto, Honoured, GiveUpRun, disk, codex,
     local, bounds, Released, FlagsOK
<1>23. CASE Abandon
  BY <1>23, Zenon DEF Abandon, Goto, Fault, Honoured, Calling, server, disk,
     store, codex, local, FlagsOK
<1>24. CASE BindLost
  BY <1>24, Zenon DEF BindLost, Goto, Fault, Honoured, disk, store, codex,
     local, FlagsOK
<1>25. CASE DiesPreparing
  BY <1>25, Zenon DEF DiesPreparing, Goto, Death, Honoured, server, store,
     codex, local, FlagsOK
<1>26. CASE ConsumeLost
  BY <1>26, Zenon DEF ConsumeLost, Goto, Fault, Death, Honoured, disk, store,
     codex, local, FlagsOK
<1>27. CASE SuspendLost
  BY <1>27, Zenon DEF SuspendLost, Goto, Fault, Honoured, Suspends, disk, store,
     codex, local, FlagsOK
<1>28. CASE OutcomeLost
  BY <1>28, Zenon DEF OutcomeLost, Goto, Fault, Death, Honoured, Outcome, disk,
     codex, local, FlagsOK
<1>29. CASE DaemonDies
  BY <1>29, Zenon DEF DaemonDies, Goto, Death, server, disk, store, codex,
     local, FlagsOK
<1>30. CASE ReconcileTerminal
  BY <1>30, Zenon DEF ReconcileTerminal, GiveUpRun, Ended, server, disk, codex,
     local, bounds, Released, FlagsOK
<1>31. CASE ReconcileIdle
  BY <1>31, Zenon DEF ReconcileIdle, Ended, server, disk, codex, local, bounds,
     FlagsOK
<1>32. CASE UserAnswers
  BY <1>32, Zenon DEF UserAnswers, disk, store, codex, local, bounds, FlagsOK
<1>33. CASE UserResumes
  BY <1>33, Zenon DEF UserResumes, disk, store, codex, local, bounds, FlagsOK
<1>34. CASE Cancel
  BY <1>34, Zenon DEF Cancel, Ended, disk, store, codex, local, bounds, FlagsOK
<1>35. CASE EditWorktree
  BY <1>35, Zenon DEF EditWorktree, server, store, codex, local, bounds, FlagsOK
<1>36. CASE MoveBranch
  BY <1>36, Zenon DEF MoveBranch, server, disk, store, codex, local, bounds,
     FlagsOK
<1>37. CASE LeaseExpires
  BY <1>37, Zenon DEF LeaseExpires, disk, store, codex, local, bounds, FlagsOK
<1>38. CASE UNCHANGED vars
  BY <1>38, Zenon DEF vars, FlagsOK
<1> QED
  BY <1>1, <1>2, <1>3, <1>4, <1>5, <1>6, <1>7, <1>8, <1>9, <1>10, <1>11, <1>12,
     <1>13, <1>14, <1>15, <1>16, <1>17, <1>18, <1>19, <1>20, <1>21, <1>22,
     <1>23, <1>24, <1>25, <1>26, <1>27, <1>28, <1>29, <1>30, <1>31, <1>32,
     <1>33, <1>34, <1>35, <1>36, <1>37, <1>38 DEF Next, Execution, Failure,
     Environment

\* The bound commit, and the worktree opened at it, stay what Codex plans at.
LEMMA BaseStep ==
  ASSUME DataOK, BaseInv, [Next]_vars
  PROVE  BaseInv'
<1>1. CASE ClaimRun
  BY <1>1 DEF ClaimRun, Goto, Answered, disk, codex, bounds, Commits, DataOK,
     BaseInv, PlannedAtBase
<1>2. CASE RecoverWorker
  BY <1>2 DEF RecoverWorker, Goto, Answered, server, disk, codex, bounds,
     Commits, DataOK, BaseInv, PlannedAtBase
<1>3. CASE Begin
  BY <1>3 DEF Begin, Goto, server, disk, store, codex, bounds, Commits, DataOK,
     BaseInv, PlannedAtBase
<1>4. CASE ResolveBase
  BY <1>4 DEF ResolveBase, Goto, server, disk, store, codex, bounds, Commits,
     DataOK, BaseInv, PlannedAtBase
<1>5. CASE BindBase
  BY <1>5 DEF BindBase, Goto, Honoured, disk, store, codex, local, bounds,
     Commits, DataOK, BaseInv, PlannedAtBase
<1>6. CASE CannotResolve
  BY <1>6 DEF CannotResolve, Goto, server, disk, store, codex, local, bounds,
     Commits, DataOK, BaseInv, PlannedAtBase
<1>7. CASE PrepareProject
  BY <1>7 DEF PrepareProject, Goto, Honoured, server, disk, codex, local,
     bounds, Commits, DataOK, BaseInv, PlannedAtBase
<1>8. CASE StartTurn
  BY <1>8 DEF StartTurn, Goto, Honoured, server, disk, store, local, bounds,
     Commits, DataOK, BaseInv, PlannedAtBase
<1>9. CASE AskQuestion
  BY <1>9 DEF AskQuestion, Goto, Honoured, disk, store, codex, bounds, Commits,
     DataOK, BaseInv, PlannedAtBase
<1>10. CASE TouchFiles
  BY <1>10 DEF TouchFiles, server, store, codex, bounds, Commits, DataOK,
     BaseInv, PlannedAtBase
<1>11. CASE SeeAnswer
  BY <1>11 DEF SeeAnswer, Goto, Answered, server, disk, store, codex, local,
     bounds, Commits, DataOK, BaseInv, PlannedAtBase
<1>12. CASE ConsumeAnswer
  BY <1>12 DEF ConsumeAnswer, Goto, Honoured, disk, store, local, bounds,
     Commits, DataOK, BaseInv, PlannedAtBase
<1>13. CASE WaitIsOver
  BY <1>13 DEF WaitIsOver, Goto, server, disk, store, codex, local, bounds,
     Commits, DataOK, BaseInv, PlannedAtBase
<1>14. CASE SuspendQuestion
  BY <1>14 DEF SuspendQuestion, Goto, Honoured, Suspends, disk, store, codex,
     local, bounds, Commits, DataOK, BaseInv, PlannedAtBase
<1>15. CASE LeaveSuspended
  BY <1>15 DEF LeaveSuspended, Goto, Released, Removed, server, codex, local,
     bounds, Commits, DataOK, BaseInv, PlannedAtBase
<1>16. CASE TurnEnds
  BY <1>16 DEF TurnEnds, Goto, server, disk, store, codex, local, bounds,
     Commits, DataOK, BaseInv, PlannedAtBase
<1>17. CASE CleanUp
  BY <1>17 DEF CleanUp, Goto, Removed, server, codex, local, bounds, Commits,
     DataOK, BaseInv, PlannedAtBase
<1>18. CASE JudgePlan
  BY <1>18 DEF JudgePlan, Goto, server, disk, codex, local, bounds, Commits,
     DataOK, BaseInv, PlannedAtBase
<1>19. CASE RejectPlan
  BY <1>19 DEF RejectPlan, Goto, Honoured, Released, Removed, codex, local,
     bounds, Commits, DataOK, BaseInv, PlannedAtBase
<1>20. CASE RemoveWorktree
  BY <1>20 DEF RemoveWorktree, RemoveOrRaise, server, codex, local, bounds,
     Removed, Goto, Commits, DataOK, BaseInv, PlannedAtBase
<1>21. CASE CompletePlan
  BY <1>21 DEF CompletePlan, Goto, Honoured, GiveUpRun, disk, codex, local,
     bounds, Released, Commits, DataOK, BaseInv, PlannedAtBase
<1>22. CASE ReportBlocker
  BY <1>22 DEF ReportBlocker, Goto, Honoured, GiveUpRun, disk, codex, local,
     bounds, Released, Commits, DataOK, BaseInv, PlannedAtBase
<1>23. CASE Abandon
  BY <1>23 DEF Abandon, Goto, Fault, Honoured, Calling, server, disk, store,
     codex, local, Commits, DataOK, BaseInv, PlannedAtBase
<1>24. CASE BindLost
  BY <1>24 DEF BindLost, Goto, Fault, Honoured, disk, store, codex, local,
     Commits, DataOK, BaseInv, PlannedAtBase
<1>25. CASE DiesPreparing
  BY <1>25 DEF DiesPreparing, Goto, Death, Honoured, server, store, codex,
     local, Commits, DataOK, BaseInv, PlannedAtBase
<1>26. CASE ConsumeLost
  BY <1>26 DEF ConsumeLost, Goto, Fault, Death, Honoured, disk, store, codex,
     local, Commits, DataOK, BaseInv, PlannedAtBase
<1>27. CASE SuspendLost
  BY <1>27 DEF SuspendLost, Goto, Fault, Honoured, Suspends, disk, store, codex,
     local, Commits, DataOK, BaseInv, PlannedAtBase
<1>28. CASE OutcomeLost
  BY <1>28 DEF OutcomeLost, Goto, Fault, Death, Honoured, Outcome, disk, codex,
     local, Commits, DataOK, BaseInv, PlannedAtBase
<1>29. CASE DaemonDies
  BY <1>29 DEF DaemonDies, Goto, Death, server, disk, store, codex, local,
     Commits, DataOK, BaseInv, PlannedAtBase
<1>30. CASE ReconcileTerminal
  BY <1>30 DEF ReconcileTerminal, GiveUpRun, Ended, server, disk, codex, local,
     bounds, Released, Commits, DataOK, BaseInv, PlannedAtBase
<1>31. CASE ReconcileIdle
  BY <1>31 DEF ReconcileIdle, Ended, server, disk, codex, local, bounds,
     Commits, DataOK, BaseInv, PlannedAtBase
<1>32. CASE UserAnswers
  BY <1>32 DEF UserAnswers, disk, store, codex, local, bounds, Commits, DataOK,
     BaseInv, PlannedAtBase
<1>33. CASE UserResumes
  BY <1>33 DEF UserResumes, disk, store, codex, local, bounds, Commits, DataOK,
     BaseInv, PlannedAtBase
<1>34. CASE Cancel
  BY <1>34 DEF Cancel, Ended, disk, store, codex, local, bounds, Commits,
     DataOK, BaseInv, PlannedAtBase
<1>35. CASE EditWorktree
  BY <1>35 DEF EditWorktree, server, store, codex, local, bounds, Commits,
     DataOK, BaseInv, PlannedAtBase
<1>36. CASE MoveBranch
  BY <1>36 DEF MoveBranch, server, disk, store, codex, local, bounds, Commits,
     DataOK, BaseInv, PlannedAtBase
<1>37. CASE LeaseExpires
  BY <1>37 DEF LeaseExpires, disk, store, codex, local, bounds, Commits, DataOK,
     BaseInv, PlannedAtBase
<1>38. CASE UNCHANGED vars
  BY <1>38 DEF vars, Commits, DataOK, BaseInv, PlannedAtBase
<1> QED
  BY <1>1, <1>2, <1>3, <1>4, <1>5, <1>6, <1>7, <1>8, <1>9, <1>10, <1>11, <1>12,
     <1>13, <1>14, <1>15, <1>16, <1>17, <1>18, <1>19, <1>20, <1>21, <1>22,
     <1>23, <1>24, <1>25, <1>26, <1>27, <1>28, <1>29, <1>30, <1>31, <1>32,
     <1>33, <1>34, <1>35, <1>36, <1>37, <1>38 DEF Next, Execution, Failure,
     Environment

\* A suspended question keeps its run from being executed.
LEMMA SuspensionStep ==
  ASSUME DataOK, SuspensionInv, [Next]_vars
  PROVE  SuspensionInv'
<1>1. CASE ClaimRun
  BY <1>1 DEF ClaimRun, Goto, Answered, disk, codex, bounds, AskState, DataOK,
     SuspensionInv
<1>2. CASE RecoverWorker
  BY <1>2 DEF RecoverWorker, Goto, Answered, server, disk, codex, bounds,
     AskState, DataOK, SuspensionInv
<1>3. CASE Begin
  BY <1>3 DEF Begin, Goto, server, disk, store, codex, bounds, AskState, DataOK,
     SuspensionInv
<1>4. CASE ResolveBase
  BY <1>4 DEF ResolveBase, Goto, server, disk, store, codex, bounds, AskState,
     DataOK, SuspensionInv
<1>5. CASE BindBase
  BY <1>5 DEF BindBase, Goto, Honoured, disk, store, codex, local, bounds,
     AskState, DataOK, SuspensionInv
<1>6. CASE CannotResolve
  BY <1>6 DEF CannotResolve, Goto, server, disk, store, codex, local, bounds,
     AskState, DataOK, SuspensionInv
<1>7. CASE PrepareProject
  BY <1>7 DEF PrepareProject, Goto, Honoured, server, disk, codex, local,
     bounds, AskState, DataOK, SuspensionInv
<1>8. CASE StartTurn
  BY <1>8 DEF StartTurn, Goto, Honoured, server, disk, store, local, bounds,
     AskState, DataOK, SuspensionInv
<1>9. CASE AskQuestion
  BY <1>9 DEF AskQuestion, Goto, Honoured, disk, store, codex, bounds, AskState,
     DataOK, SuspensionInv
<1>10. CASE TouchFiles
  BY <1>10 DEF TouchFiles, server, store, codex, bounds, AskState, DataOK,
     SuspensionInv
<1>11. CASE SeeAnswer
  BY <1>11 DEF SeeAnswer, Goto, Answered, server, disk, store, codex, local,
     bounds, AskState, DataOK, SuspensionInv
<1>12. CASE ConsumeAnswer
  BY <1>12 DEF ConsumeAnswer, Goto, Honoured, disk, store, local, bounds,
     AskState, DataOK, SuspensionInv
<1>13. CASE WaitIsOver
  BY <1>13 DEF WaitIsOver, Goto, server, disk, store, codex, local, bounds,
     AskState, DataOK, SuspensionInv
<1>14. CASE SuspendQuestion
  BY <1>14 DEF SuspendQuestion, Goto, Honoured, Suspends, disk, store, codex,
     local, bounds, AskState, DataOK, SuspensionInv
<1>15. CASE LeaveSuspended
  BY <1>15 DEF LeaveSuspended, Goto, Released, Removed, server, codex, local,
     bounds, AskState, DataOK, SuspensionInv
<1>16. CASE TurnEnds
  BY <1>16 DEF TurnEnds, Goto, server, disk, store, codex, local, bounds,
     AskState, DataOK, SuspensionInv
<1>17. CASE CleanUp
  BY <1>17 DEF CleanUp, Goto, Removed, server, codex, local, bounds, AskState,
     DataOK, SuspensionInv
<1>18. CASE JudgePlan
  BY <1>18 DEF JudgePlan, Goto, server, disk, codex, local, bounds, AskState,
     DataOK, SuspensionInv
<1>19. CASE RejectPlan
  BY <1>19 DEF RejectPlan, Goto, Honoured, Released, Removed, codex, local,
     bounds, AskState, DataOK, SuspensionInv
<1>20. CASE RemoveWorktree
  BY <1>20 DEF RemoveWorktree, RemoveOrRaise, server, codex, local, bounds,
     Removed, Goto, AskState, DataOK, SuspensionInv
<1>21. CASE CompletePlan
  BY <1>21 DEF CompletePlan, Goto, Honoured, GiveUpRun, disk, codex, local,
     bounds, Released, AskState, DataOK, SuspensionInv
<1>22. CASE ReportBlocker
  BY <1>22 DEF ReportBlocker, Goto, Honoured, GiveUpRun, disk, codex, local,
     bounds, Released, AskState, DataOK, SuspensionInv
<1>23. CASE Abandon
  BY <1>23 DEF Abandon, Goto, Fault, Honoured, Calling, server, disk, store,
     codex, local, AskState, DataOK, SuspensionInv
<1>24. CASE BindLost
  BY <1>24 DEF BindLost, Goto, Fault, Honoured, disk, store, codex, local,
     AskState, DataOK, SuspensionInv
<1>25. CASE DiesPreparing
  BY <1>25 DEF DiesPreparing, Goto, Death, Honoured, server, store, codex,
     local, AskState, DataOK, SuspensionInv
<1>26. CASE ConsumeLost
  BY <1>26 DEF ConsumeLost, Goto, Fault, Death, Honoured, disk, store, codex,
     local, AskState, DataOK, SuspensionInv
<1>27. CASE SuspendLost
  BY <1>27 DEF SuspendLost, Goto, Fault, Honoured, Suspends, disk, store, codex,
     local, AskState, DataOK, SuspensionInv
<1>28. CASE OutcomeLost
  BY <1>28 DEF OutcomeLost, Goto, Fault, Death, Honoured, Outcome, disk, codex,
     local, AskState, DataOK, SuspensionInv
<1>29. CASE DaemonDies
  BY <1>29 DEF DaemonDies, Goto, Death, server, disk, store, codex, local,
     AskState, DataOK, SuspensionInv
<1>30. CASE ReconcileTerminal
  BY <1>30 DEF ReconcileTerminal, GiveUpRun, Ended, server, disk, codex, local,
     bounds, Released, AskState, DataOK, SuspensionInv
<1>31. CASE ReconcileIdle
  BY <1>31 DEF ReconcileIdle, Ended, server, disk, codex, local, bounds,
     AskState, DataOK, SuspensionInv
<1>32. CASE UserAnswers
  BY <1>32 DEF UserAnswers, disk, store, codex, local, bounds, AskState, DataOK,
     SuspensionInv
<1>33. CASE UserResumes
  BY <1>33 DEF UserResumes, disk, store, codex, local, bounds, AskState, DataOK,
     SuspensionInv
<1>34. CASE Cancel
  BY <1>34 DEF Cancel, Ended, disk, store, codex, local, bounds, AskState,
     DataOK, SuspensionInv
<1>35. CASE EditWorktree
  BY <1>35 DEF EditWorktree, server, store, codex, local, bounds, AskState,
     DataOK, SuspensionInv
<1>36. CASE MoveBranch
  BY <1>36 DEF MoveBranch, server, disk, store, codex, local, bounds, AskState,
     DataOK, SuspensionInv
<1>37. CASE LeaseExpires
  BY <1>37 DEF LeaseExpires, disk, store, codex, local, bounds, AskState,
     DataOK, SuspensionInv
<1>38. CASE UNCHANGED vars
  BY <1>38 DEF vars, AskState, DataOK, SuspensionInv
<1> QED
  BY <1>1, <1>2, <1>3, <1>4, <1>5, <1>6, <1>7, <1>8, <1>9, <1>10, <1>11, <1>12,
     <1>13, <1>14, <1>15, <1>16, <1>17, <1>18, <1>19, <1>20, <1>21, <1>22,
     <1>23, <1>24, <1>25, <1>26, <1>27, <1>28, <1>29, <1>30, <1>31, <1>32,
     <1>33, <1>34, <1>35, <1>36, <1>37, <1>38 DEF Next, Execution, Failure,
     Environment

\* An answer to a question that slept stays with the execution until it is heard.
LEMMA AnswerStep ==
  ASSUME DataOK, SuspensionInv, AnswerInv, [Next]_vars
  PROVE  AnswerInv'
<1>1. CASE ClaimRun
  BY <1>1 DEF ClaimRun, Goto, Answered, disk, codex, bounds, AskState, DataOK,
     SuspensionInv, AnswerInv, ResumedWithAnswer
<1>2. CASE RecoverWorker
  BY <1>2 DEF RecoverWorker, Goto, Answered, server, disk, codex, bounds,
     AskState, DataOK, SuspensionInv, AnswerInv, ResumedWithAnswer
<1>3. CASE Begin
  BY <1>3 DEF Begin, Goto, server, disk, store, codex, bounds, AskState, DataOK,
     SuspensionInv, AnswerInv, ResumedWithAnswer
<1>4. CASE ResolveBase
  BY <1>4 DEF ResolveBase, Goto, server, disk, store, codex, bounds, AskState,
     DataOK, SuspensionInv, AnswerInv, ResumedWithAnswer
<1>5. CASE BindBase
  BY <1>5 DEF BindBase, Goto, Honoured, disk, store, codex, local, bounds,
     AskState, DataOK, SuspensionInv, AnswerInv, ResumedWithAnswer
<1>6. CASE CannotResolve
  BY <1>6 DEF CannotResolve, Goto, server, disk, store, codex, local, bounds,
     AskState, DataOK, SuspensionInv, AnswerInv, ResumedWithAnswer
<1>7. CASE PrepareProject
  BY <1>7 DEF PrepareProject, Goto, Honoured, server, disk, codex, local,
     bounds, AskState, DataOK, SuspensionInv, AnswerInv, ResumedWithAnswer
<1>8. CASE StartTurn
  BY <1>8 DEF StartTurn, Goto, Honoured, server, disk, store, local, bounds,
     AskState, DataOK, SuspensionInv, AnswerInv, ResumedWithAnswer
<1>9. CASE AskQuestion
  BY <1>9 DEF AskQuestion, Goto, Honoured, disk, store, codex, bounds, AskState,
     DataOK, SuspensionInv, AnswerInv, ResumedWithAnswer
<1>10. CASE TouchFiles
  BY <1>10 DEF TouchFiles, server, store, codex, bounds, AskState, DataOK,
     SuspensionInv, AnswerInv, ResumedWithAnswer
<1>11. CASE SeeAnswer
  BY <1>11 DEF SeeAnswer, Goto, Answered, server, disk, store, codex, local,
     bounds, AskState, DataOK, SuspensionInv, AnswerInv, ResumedWithAnswer
<1>12. CASE ConsumeAnswer
  BY <1>12 DEF ConsumeAnswer, Goto, Honoured, disk, store, local, bounds,
     AskState, DataOK, SuspensionInv, AnswerInv, ResumedWithAnswer
<1>13. CASE WaitIsOver
  BY <1>13 DEF WaitIsOver, Goto, server, disk, store, codex, local, bounds,
     AskState, DataOK, SuspensionInv, AnswerInv, ResumedWithAnswer
<1>14. CASE SuspendQuestion
  <2>1. CASE ask.state = "pending"
    <3>1. ask' = [ask EXCEPT !.state = "suspended", !.slept = TRUE]
      BY <1>14, <2>1 DEF SuspendQuestion, Suspends
    <3>2. ask'.state = "suspended" /\ ask'.id = ask.id /\ ask.id # 0
      BY <3>1, <2>1 DEF DataOK, AskState, AnswerInv
    <3> QED
      BY <3>2 DEF AnswerInv, ResumedWithAnswer
  <2>2. CASE ask.state # "pending"
    <3>1. ask' = ask /\ UNCHANGED <<told, heard>> /\ pc' \in {"consume",
       "suspended", "idle"}
      BY <1>14, <2>2 DEF SuspendQuestion, Suspends, Goto, codex, local
    <3> QED
      BY <3>1 DEF AnswerInv, ResumedWithAnswer
  <2> QED
    BY <2>1, <2>2
<1>15. CASE LeaveSuspended
  BY <1>15 DEF LeaveSuspended, Goto, Released, Removed, server, codex, local,
     bounds, AskState, DataOK, SuspensionInv, AnswerInv, ResumedWithAnswer
<1>16. CASE TurnEnds
  BY <1>16 DEF TurnEnds, Goto, server, disk, store, codex, local, bounds,
     AskState, DataOK, SuspensionInv, AnswerInv, ResumedWithAnswer
<1>17. CASE CleanUp
  BY <1>17 DEF CleanUp, Goto, Removed, server, codex, local, bounds, AskState,
     DataOK, SuspensionInv, AnswerInv, ResumedWithAnswer
<1>18. CASE JudgePlan
  BY <1>18 DEF JudgePlan, Goto, server, disk, codex, local, bounds, AskState,
     DataOK, SuspensionInv, AnswerInv, ResumedWithAnswer
<1>19. CASE RejectPlan
  BY <1>19 DEF RejectPlan, Goto, Honoured, Released, Removed, codex, local,
     bounds, AskState, DataOK, SuspensionInv, AnswerInv, ResumedWithAnswer
<1>20. CASE RemoveWorktree
  BY <1>20 DEF RemoveWorktree, RemoveOrRaise, server, codex, local, bounds,
     Removed, Goto, AskState, DataOK, SuspensionInv, AnswerInv,
     ResumedWithAnswer
<1>21. CASE CompletePlan
  BY <1>21 DEF CompletePlan, Goto, Honoured, GiveUpRun, disk, codex, local,
     bounds, Released, AskState, DataOK, SuspensionInv, AnswerInv,
     ResumedWithAnswer
<1>22. CASE ReportBlocker
  BY <1>22 DEF ReportBlocker, Goto, Honoured, GiveUpRun, disk, codex, local,
     bounds, Released, AskState, DataOK, SuspensionInv, AnswerInv,
     ResumedWithAnswer
<1>23. CASE Abandon
  BY <1>23 DEF Abandon, Goto, Fault, Honoured, Calling, server, disk, store,
     codex, local, AskState, DataOK, SuspensionInv, AnswerInv, ResumedWithAnswer
<1>24. CASE BindLost
  BY <1>24 DEF BindLost, Goto, Fault, Honoured, disk, store, codex, local,
     AskState, DataOK, SuspensionInv, AnswerInv, ResumedWithAnswer
<1>25. CASE DiesPreparing
  BY <1>25 DEF DiesPreparing, Goto, Death, Honoured, server, store, codex,
     local, AskState, DataOK, SuspensionInv, AnswerInv, ResumedWithAnswer
<1>26. CASE ConsumeLost
  BY <1>26 DEF ConsumeLost, Goto, Fault, Death, Honoured, disk, store, codex,
     local, AskState, DataOK, SuspensionInv, AnswerInv, ResumedWithAnswer
<1>27. CASE SuspendLost
  <2>1. CASE ask.state = "pending"
    <3>1. ask' = [ask EXCEPT !.state = "suspended", !.slept = TRUE]
      BY <1>27, <2>1 DEF SuspendLost, Suspends
    <3>2. ask'.state = "suspended" /\ ask'.id = ask.id /\ ask.id # 0
      BY <3>1, <2>1 DEF DataOK, AskState, AnswerInv
    <3> QED
      BY <3>2 DEF AnswerInv, ResumedWithAnswer
  <2>2. CASE ask.state # "pending"
    <3>1. ask' = ask /\ UNCHANGED <<told, heard>> /\ pc' \in {"consume",
       "suspended", "idle"}
      BY <1>27, <2>2 DEF SuspendLost, Suspends, Goto, codex, local
    <3> QED
      BY <3>1 DEF AnswerInv, ResumedWithAnswer
  <2> QED
    BY <2>1, <2>2
<1>28. CASE OutcomeLost
  BY <1>28 DEF OutcomeLost, Goto, Fault, Death, Honoured, Outcome, disk, codex,
     local, AskState, DataOK, SuspensionInv, AnswerInv, ResumedWithAnswer
<1>29. CASE DaemonDies
  BY <1>29 DEF DaemonDies, Goto, Death, server, disk, store, codex, local,
     AskState, DataOK, SuspensionInv, AnswerInv, ResumedWithAnswer
<1>30. CASE ReconcileTerminal
  BY <1>30 DEF ReconcileTerminal, GiveUpRun, Ended, server, disk, codex, local,
     bounds, Released, AskState, DataOK, SuspensionInv, AnswerInv,
     ResumedWithAnswer
<1>31. CASE ReconcileIdle
  BY <1>31 DEF ReconcileIdle, Ended, server, disk, codex, local, bounds,
     AskState, DataOK, SuspensionInv, AnswerInv, ResumedWithAnswer
<1>32. CASE UserAnswers
  BY <1>32 DEF UserAnswers, disk, store, codex, local, bounds, AskState, DataOK,
     SuspensionInv, AnswerInv, ResumedWithAnswer
<1>33. CASE UserResumes
  BY <1>33 DEF UserResumes, disk, store, codex, local, bounds, AskState, DataOK,
     SuspensionInv, AnswerInv, ResumedWithAnswer
<1>34. CASE Cancel
  BY <1>34 DEF Cancel, Ended, disk, store, codex, local, bounds, AskState,
     DataOK, SuspensionInv, AnswerInv, ResumedWithAnswer
<1>35. CASE EditWorktree
  BY <1>35 DEF EditWorktree, server, store, codex, local, bounds, AskState,
     DataOK, SuspensionInv, AnswerInv, ResumedWithAnswer
<1>36. CASE MoveBranch
  BY <1>36 DEF MoveBranch, server, disk, store, codex, local, bounds, AskState,
     DataOK, SuspensionInv, AnswerInv, ResumedWithAnswer
<1>37. CASE LeaseExpires
  BY <1>37 DEF LeaseExpires, disk, store, codex, local, bounds, AskState,
     DataOK, SuspensionInv, AnswerInv, ResumedWithAnswer
<1>38. CASE UNCHANGED vars
  BY <1>38 DEF vars, AskState, DataOK, SuspensionInv, AnswerInv,
     ResumedWithAnswer
<1> QED
  BY <1>1, <1>2, <1>3, <1>4, <1>5, <1>6, <1>7, <1>8, <1>9, <1>10, <1>11, <1>12,
     <1>13, <1>14, <1>15, <1>16, <1>17, <1>18, <1>19, <1>20, <1>21, <1>22,
     <1>23, <1>24, <1>25, <1>26, <1>27, <1>28, <1>29, <1>30, <1>31, <1>32,
     <1>33, <1>34, <1>35, <1>36, <1>37, <1>38 DEF Next, Execution, Failure,
     Environment

\* No step removes a dirty worktree.
LEMMA EditsStep ==
  ASSUME DataOK, [Next]_vars
  PROVE  tree = "dirty" => tree' # "none"
<1>1. CASE ClaimRun
  BY <1>1 DEF ClaimRun, Goto, Answered, disk, codex, bounds, DataOK
<1>2. CASE RecoverWorker
  BY <1>2 DEF RecoverWorker, Goto, Answered, server, disk, codex, bounds, DataOK
<1>3. CASE Begin
  BY <1>3 DEF Begin, Goto, server, disk, store, codex, bounds, DataOK
<1>4. CASE ResolveBase
  BY <1>4 DEF ResolveBase, Goto, server, disk, store, codex, bounds, DataOK
<1>5. CASE BindBase
  BY <1>5 DEF BindBase, Goto, Honoured, disk, store, codex, local, bounds,
     DataOK
<1>6. CASE CannotResolve
  BY <1>6 DEF CannotResolve, Goto, server, disk, store, codex, local, bounds,
     DataOK
<1>7. CASE PrepareProject
  BY <1>7 DEF PrepareProject, Goto, Honoured, server, disk, codex, local,
     bounds, DataOK
<1>8. CASE StartTurn
  BY <1>8 DEF StartTurn, Goto, Honoured, server, disk, store, local, bounds,
     DataOK
<1>9. CASE AskQuestion
  BY <1>9 DEF AskQuestion, Goto, Honoured, disk, store, codex, bounds, DataOK
<1>10. CASE TouchFiles
  BY <1>10 DEF TouchFiles, server, store, codex, bounds, DataOK
<1>11. CASE SeeAnswer
  BY <1>11 DEF SeeAnswer, Goto, Answered, server, disk, store, codex, local,
     bounds, DataOK
<1>12. CASE ConsumeAnswer
  BY <1>12 DEF ConsumeAnswer, Goto, Honoured, disk, store, local, bounds, DataOK
<1>13. CASE WaitIsOver
  BY <1>13 DEF WaitIsOver, Goto, server, disk, store, codex, local, bounds,
     DataOK
<1>14. CASE SuspendQuestion
  BY <1>14 DEF SuspendQuestion, Goto, Honoured, Suspends, disk, store, codex,
     local, bounds, DataOK
<1>15. CASE LeaveSuspended
  BY <1>15 DEF LeaveSuspended, Goto, Released, Removed, server, codex, local,
     bounds, DataOK
<1>16. CASE TurnEnds
  BY <1>16 DEF TurnEnds, Goto, server, disk, store, codex, local, bounds, DataOK
<1>17. CASE CleanUp
  BY <1>17 DEF CleanUp, Goto, Removed, server, codex, local, bounds, DataOK
<1>18. CASE JudgePlan
  BY <1>18 DEF JudgePlan, Goto, server, disk, codex, local, bounds, DataOK
<1>19. CASE RejectPlan
  BY <1>19 DEF RejectPlan, Goto, Honoured, Released, Removed, codex, local,
     bounds, DataOK
<1>20. CASE RemoveWorktree
  BY <1>20 DEF RemoveWorktree, RemoveOrRaise, server, codex, local, bounds,
     Removed, Goto, DataOK
<1>21. CASE CompletePlan
  BY <1>21 DEF CompletePlan, Goto, Honoured, GiveUpRun, disk, codex, local,
     bounds, Released, DataOK
<1>22. CASE ReportBlocker
  BY <1>22 DEF ReportBlocker, Goto, Honoured, GiveUpRun, disk, codex, local,
     bounds, Released, DataOK
<1>23. CASE Abandon
  BY <1>23 DEF Abandon, Goto, Fault, Honoured, Calling, server, disk, store,
     codex, local, DataOK
<1>24. CASE BindLost
  BY <1>24 DEF BindLost, Goto, Fault, Honoured, disk, store, codex, local,
     DataOK
<1>25. CASE DiesPreparing
  BY <1>25 DEF DiesPreparing, Goto, Death, Honoured, server, store, codex,
     local, DataOK
<1>26. CASE ConsumeLost
  BY <1>26 DEF ConsumeLost, Goto, Fault, Death, Honoured, disk, store, codex,
     local, DataOK
<1>27. CASE SuspendLost
  BY <1>27 DEF SuspendLost, Goto, Fault, Honoured, Suspends, disk, store, codex,
     local, DataOK
<1>28. CASE OutcomeLost
  BY <1>28 DEF OutcomeLost, Goto, Fault, Death, Honoured, Outcome, disk, codex,
     local, DataOK
<1>29. CASE DaemonDies
  BY <1>29 DEF DaemonDies, Goto, Death, server, disk, store, codex, local,
     DataOK
<1>30. CASE ReconcileTerminal
  BY <1>30 DEF ReconcileTerminal, GiveUpRun, Ended, server, disk, codex, local,
     bounds, Released, DataOK
<1>31. CASE ReconcileIdle
  BY <1>31 DEF ReconcileIdle, Ended, server, disk, codex, local, bounds, DataOK
<1>32. CASE UserAnswers
  BY <1>32 DEF UserAnswers, disk, store, codex, local, bounds, DataOK
<1>33. CASE UserResumes
  BY <1>33 DEF UserResumes, disk, store, codex, local, bounds, DataOK
<1>34. CASE Cancel
  BY <1>34 DEF Cancel, Ended, disk, store, codex, local, bounds, DataOK
<1>35. CASE EditWorktree
  BY <1>35 DEF EditWorktree, server, store, codex, local, bounds, DataOK
<1>36. CASE MoveBranch
  BY <1>36 DEF MoveBranch, server, disk, store, codex, local, bounds, DataOK
<1>37. CASE LeaseExpires
  BY <1>37 DEF LeaseExpires, disk, store, codex, local, bounds, DataOK
<1>38. CASE UNCHANGED vars
  BY <1>38 DEF vars, DataOK
<1> QED
  BY <1>1, <1>2, <1>3, <1>4, <1>5, <1>6, <1>7, <1>8, <1>9, <1>10, <1>11, <1>12,
     <1>13, <1>14, <1>15, <1>16, <1>17, <1>18, <1>19, <1>20, <1>21, <1>22,
     <1>23, <1>24, <1>25, <1>26, <1>27, <1>28, <1>29, <1>30, <1>31, <1>32,
     <1>33, <1>34, <1>35, <1>36, <1>37, <1>38 DEF Next, Execution, Failure,
     Environment

\* No execution drops the claim of a lease in force.
LEMMA DropStep ==
  ASSUME DataOK, SuspensionInv, [Next]_vars
  PROVE  claim /\ ~claim' /\ pc # "idle" => run' # "leased"
<1>1. CASE ClaimRun
  BY <1>1 DEF ClaimRun, Goto, Answered, disk, codex, bounds, DataOK,
     SuspensionInv
<1>2. CASE RecoverWorker
  BY <1>2 DEF RecoverWorker, Goto, Answered, server, disk, codex, bounds,
     DataOK, SuspensionInv
<1>3. CASE Begin
  BY <1>3 DEF Begin, Goto, server, disk, store, codex, bounds, DataOK,
     SuspensionInv
<1>4. CASE ResolveBase
  BY <1>4 DEF ResolveBase, Goto, server, disk, store, codex, bounds, DataOK,
     SuspensionInv
<1>5. CASE BindBase
  BY <1>5 DEF BindBase, Goto, Honoured, disk, store, codex, local, bounds,
     DataOK, SuspensionInv
<1>6. CASE CannotResolve
  BY <1>6 DEF CannotResolve, Goto, server, disk, store, codex, local, bounds,
     DataOK, SuspensionInv
<1>7. CASE PrepareProject
  BY <1>7 DEF PrepareProject, Goto, Honoured, server, disk, codex, local,
     bounds, DataOK, SuspensionInv
<1>8. CASE StartTurn
  BY <1>8 DEF StartTurn, Goto, Honoured, server, disk, store, local, bounds,
     DataOK, SuspensionInv
<1>9. CASE AskQuestion
  BY <1>9 DEF AskQuestion, Goto, Honoured, disk, store, codex, bounds, DataOK,
     SuspensionInv
<1>10. CASE TouchFiles
  BY <1>10 DEF TouchFiles, server, store, codex, bounds, DataOK, SuspensionInv
<1>11. CASE SeeAnswer
  BY <1>11 DEF SeeAnswer, Goto, Answered, server, disk, store, codex, local,
     bounds, DataOK, SuspensionInv
<1>12. CASE ConsumeAnswer
  BY <1>12 DEF ConsumeAnswer, Goto, Honoured, disk, store, local, bounds,
     DataOK, SuspensionInv
<1>13. CASE WaitIsOver
  BY <1>13 DEF WaitIsOver, Goto, server, disk, store, codex, local, bounds,
     DataOK, SuspensionInv
<1>14. CASE SuspendQuestion
  BY <1>14 DEF SuspendQuestion, Goto, Honoured, Suspends, disk, store, codex,
     local, bounds, DataOK, SuspensionInv
<1>15. CASE LeaveSuspended
  BY <1>15 DEF LeaveSuspended, Goto, Released, Removed, server, codex, local,
     bounds, DataOK, SuspensionInv
<1>16. CASE TurnEnds
  BY <1>16 DEF TurnEnds, Goto, server, disk, store, codex, local, bounds,
     DataOK, SuspensionInv
<1>17. CASE CleanUp
  BY <1>17 DEF CleanUp, Goto, Removed, server, codex, local, bounds, DataOK,
     SuspensionInv
<1>18. CASE JudgePlan
  BY <1>18 DEF JudgePlan, Goto, server, disk, codex, local, bounds, DataOK,
     SuspensionInv
<1>19. CASE RejectPlan
  BY <1>19 DEF RejectPlan, Goto, Honoured, Released, Removed, codex, local,
     bounds, DataOK, SuspensionInv
<1>20. CASE RemoveWorktree
  BY <1>20 DEF RemoveWorktree, RemoveOrRaise, server, codex, local, bounds,
     Removed, Goto, DataOK, SuspensionInv
<1>21. CASE CompletePlan
  BY <1>21 DEF CompletePlan, Goto, Honoured, GiveUpRun, disk, codex, local,
     bounds, Released, DataOK, SuspensionInv
<1>22. CASE ReportBlocker
  BY <1>22 DEF ReportBlocker, Goto, Honoured, GiveUpRun, disk, codex, local,
     bounds, Released, DataOK, SuspensionInv
<1>23. CASE Abandon
  BY <1>23 DEF Abandon, Goto, Fault, Honoured, Calling, server, disk, store,
     codex, local, DataOK, SuspensionInv
<1>24. CASE BindLost
  BY <1>24 DEF BindLost, Goto, Fault, Honoured, disk, store, codex, local,
     DataOK, SuspensionInv
<1>25. CASE DiesPreparing
  BY <1>25 DEF DiesPreparing, Goto, Death, Honoured, server, store, codex,
     local, DataOK, SuspensionInv
<1>26. CASE ConsumeLost
  BY <1>26 DEF ConsumeLost, Goto, Fault, Death, Honoured, disk, store, codex,
     local, DataOK, SuspensionInv
<1>27. CASE SuspendLost
  BY <1>27 DEF SuspendLost, Goto, Fault, Honoured, Suspends, disk, store, codex,
     local, DataOK, SuspensionInv
<1>28. CASE OutcomeLost
  BY <1>28 DEF OutcomeLost, Goto, Fault, Death, Honoured, Outcome, disk, codex,
     local, DataOK, SuspensionInv
<1>29. CASE DaemonDies
  BY <1>29 DEF DaemonDies, Goto, Death, server, disk, store, codex, local,
     DataOK, SuspensionInv
<1>30. CASE ReconcileTerminal
  BY <1>30 DEF ReconcileTerminal, GiveUpRun, Ended, server, disk, codex, local,
     bounds, Released, DataOK, SuspensionInv
<1>31. CASE ReconcileIdle
  BY <1>31 DEF ReconcileIdle, Ended, server, disk, codex, local, bounds, DataOK,
     SuspensionInv
<1>32. CASE UserAnswers
  BY <1>32 DEF UserAnswers, disk, store, codex, local, bounds, DataOK,
     SuspensionInv
<1>33. CASE UserResumes
  BY <1>33 DEF UserResumes, disk, store, codex, local, bounds, DataOK,
     SuspensionInv
<1>34. CASE Cancel
  BY <1>34 DEF Cancel, Ended, disk, store, codex, local, bounds, DataOK,
     SuspensionInv
<1>35. CASE EditWorktree
  BY <1>35 DEF EditWorktree, server, store, codex, local, bounds, DataOK,
     SuspensionInv
<1>36. CASE MoveBranch
  BY <1>36 DEF MoveBranch, server, disk, store, codex, local, bounds, DataOK,
     SuspensionInv
<1>37. CASE LeaseExpires
  BY <1>37 DEF LeaseExpires, disk, store, codex, local, bounds, DataOK,
     SuspensionInv
<1>38. CASE UNCHANGED vars
  BY <1>38 DEF vars, DataOK, SuspensionInv
<1> QED
  BY <1>1, <1>2, <1>3, <1>4, <1>5, <1>6, <1>7, <1>8, <1>9, <1>10, <1>11, <1>12,
     <1>13, <1>14, <1>15, <1>16, <1>17, <1>18, <1>19, <1>20, <1>21, <1>22,
     <1>23, <1>24, <1>25, <1>26, <1>27, <1>28, <1>29, <1>30, <1>31, <1>32,
     <1>33, <1>34, <1>35, <1>36, <1>37, <1>38 DEF Next, Execution, Failure,
     Environment

-----------------------------------------------------------------------------
(* The theorems *)

\* The invariant holds at the start and is kept by every step.
LEMMA Inductive == Spec => []PlanInv
<1>1. Init => PlanInv
  <2>1. Init => DataOK
    BY PlanAssumption DEF PlanAssumption, Init, DataOK, NoQuestion, AskState, RunState,
       Places, Commits, Questions
  <2>2. Init => FlagsOK
    BY Zenon DEF Init, FlagsOK
  <2>3. Init => BaseInv /\ SuspensionInv /\ AnswerInv
    BY DEF Init, BaseInv, PlannedAtBase, SuspensionInv, AnswerInv, ResumedWithAnswer,
       NoQuestion
  <2> QED
    BY <2>1, <2>2, <2>3 DEF PlanInv, TypeOK
<1>2. PlanInv /\ [Next]_vars => PlanInv'
  BY DataStep, FlagsStep, BaseStep, SuspensionStep, AnswerStep DEF PlanInv, TypeOK
<1> QED
  BY <1>1, <1>2, PTL DEF Spec

\* Every variable keeps its type.
THEOREM PlanTypeCorrect == Spec => []TypeOK
<1>1. PlanInv => TypeOK
  BY DEF PlanInv
<1> QED
  BY <1>1, Inductive, PTL

\* Codex plans at the commit the run is bound to, in however many leases.
THEOREM PlanBaseSafety == Spec => []PlannedAtBase
<1>1. PlanInv => PlannedAtBase
  BY DEF PlanInv, BaseInv
<1> QED
  BY <1>1, Inductive, PTL

\* A resumed plan has the answer it was suspended for.
THEOREM AnswerSafety == Spec => []ResumedWithAnswer
<1>1. PlanInv => ResumedWithAnswer
  BY DEF PlanInv, AnswerInv
<1> QED
  BY <1>1, Inductive, PTL

\* No execution puts its run aside while the server leases it to the daemon.
THEOREM DropSafety == Spec => DroppedIsOver
<1>1. PlanInv /\ [Next]_vars => [claim /\ ~claim' /\ pc # "idle" => run' # "leased"]_vars
  BY DropStep DEF PlanInv, TypeOK
<1> QED
  BY <1>1, Inductive, PTL DEF Spec, DroppedIsOver

\* Changes made in a planning worktree are never removed with it.
THEOREM EditsSafety == Spec => EditsKept
<1>1. PlanInv /\ [Next]_vars => [tree = "dirty" => tree' # "none"]_vars
  BY EditsStep DEF PlanInv, TypeOK
<1> QED
  BY <1>1, Inductive, PTL DEF Spec, EditsKept
=============================================================================
