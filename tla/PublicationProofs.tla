------------------------- MODULE PublicationProofs -------------------------
(***************************************************************************)
(* Proofs about Publication, for any numbers of faults, commands and acts  *)
(* of the user.                                                            *)
(***************************************************************************)
EXTENDS Publication, TLAPS

-----------------------------------------------------------------------------
(* The inductive invariant.  None of it mentions the lock: what keeps the  *)
(* two processes apart is that each fact below, once true, stays true.     *)

Memories ==
  [outer : States \cup {"none"}, state : States \cup {"none"},
   pr : {"none", "open", "merged"}, head : Commits,
   result : {"none", "published", "merged", "cancelled"}, local : Commits]

TypesInv == TypeOK /\ loc \in [Workers -> Memories]

\* Whoever believes the pull request merged, or was told so, is right.
MergeInv ==
  /\ old => hub.pr = "merged"
  /\ server \in {"merged"} \cup Cleaning => hub.pr = "merged"
  /\ \A w \in Workers :
       /\ loc[w].pr = "merged" \/ loc[w].result = "merged" => hub.pr = "merged"
       /\ pc[w] = "merged" => loc[w].result = "merged"

\* Places at which a cleanup is reported to have begun.
CleanPlaces == {"clean_lock", "clean_refs", "clean_tree", "clean_remove", "clean_row",
                "clean_branch", "clean_snapshot", "clean_mark", "cleaned", "clean_blocked"}

\* What a process has read of the server, and what it has reported, still holds.
ReportInv ==
  /\ StoreFollowsServer
  /\ \A w \in Workers :
       /\ loc[w].state \in {"merged"} \cup Cleaning => server \in {"merged"} \cup Cleaning
       /\ loc[w].state \in Cleaning => server \in Cleaning
       /\ pc[w] = "mark_published" => server \in {"published", "merged"} \cup Cleaning
       /\ pc[w] \in {"mark_merged", "cleanup"} => server \in {"merged"} \cup Cleaning
       /\ pc[w] \in CleanPlaces => server \in Cleaning

\* Nothing is gone before its time.
RetentionInv ==
  /\ (\/ repo.worktree = "gone" \/ ~store.row \/ Absent \in {repo.branch, repo.snapshot})
       => old
  /\ \A w \in Workers : pc[w] \in CleanPlaces => old

\* Each step of a cleanup finds what the steps before it left, whoever took them.
CleanInv ==
  /\ ~store.row => repo.worktree = "gone"
  /\ \A w \in Workers :
       /\ pc[w] \in {"clean_tree", "clean_remove", "clean_row", "clean_branch"}
            /\ loc[w].local = Absent => repo.branch # Accepted
       /\ pc[w] = "clean_row" => repo.worktree = "gone"
       /\ pc[w] \in {"clean_branch", "clean_snapshot", "clean_mark", "cleaned"} => ~store.row
       /\ pc[w] \in {"clean_snapshot", "clean_mark", "cleaned"} => repo.branch # Accepted
       /\ pc[w] \in {"clean_mark", "cleaned"} => repo.snapshot = Absent
       /\ pc[w] = "cleaned" => store.state = "cleaned"
  /\ CleanedMeansGone

PublicationInv == TypesInv /\ MergeInv /\ ReportInv /\ RetentionInv /\ CleanInv

-----------------------------------------------------------------------------
(* Every step keeps it. *)

\* A push, done or lost, touches the remote branch and the head of an open pull
\* request, and nothing else but its process.
LEMMA PushEffect ==
  ASSUME TypesInv, NEW w \in Workers, Push(w)
  PROVE  /\ hub' \in [branch : Commits, pr : {"none", "open", "merged"}, head : Commits]
         /\ hub'.pr = hub.pr /\ lock' \in {lock, Nobody}
         /\ \E l \in {"verify", "failed"} : pc' = [pc EXCEPT ![w] = l]
         /\ UNCHANGED <<server, repo, store, old, loc>>
<1>1. hub' = hub \/ \E c \in Commits : hub' = Pushed(c)
  BY DEF Push, Commits, TypesInv, TypeOK
<1>2. hub \in [branch : Commits, pr : {"none", "open", "merged"}, head : Commits]
  BY DEF TypesInv, TypeOK
<1>3. /\ hub' \in [branch : Commits, pr : {"none", "open", "merged"}, head : Commits]
      /\ hub'.pr = hub.pr
  BY <1>1, <1>2 DEF Pushed
<1> QED
  BY <1>3 DEF Push, Goto, Fails

\* Every step keeps the types of the variables and of what the processes remember.
LEMMA TypesStep ==
  ASSUME TypesInv, [Next]_vars
  PROVE  TypesInv'
<1>1. CASE \E w \in Workers : Fetch(w)
  BY <1>1, PublicationAssumption DEF Fetch, Goto, TypesInv, TypeOK, Memories,
     Workers, Places, PublicationAssumption
<1>2. CASE \E w \in Workers : StartPublication(w)
  BY <1>2, PublicationAssumption DEF StartPublication, Post, Goto, Fails,
     TypesInv, TypeOK, Memories, Workers, States, Places, PublicationAssumption
<1>3. CASE \E w \in Workers : CheckLocalHead(w)
  BY <1>3, PublicationAssumption DEF CheckLocalHead, Goto, Fails, TypesInv,
     TypeOK, Workers, Places, PublicationAssumption
<1>4. CASE \E w \in Workers : ListPullRequests(w)
  BY <1>4, PublicationAssumption DEF ListPullRequests, Goto, TypesInv, TypeOK,
     Memories, Workers, Places, PublicationAssumption
<1>5. CASE \E w \in Workers : Decide(w)
  BY <1>5, PublicationAssumption DEF Decide, Goto, ResultOf, Fails, TypesInv,
     TypeOK, Memories, Workers, Places, PublicationAssumption
<1>6. CASE \E w \in Workers : Push(w)
  BY <1>6, PushEffect DEF TypesInv, TypeOK, Workers, Places
<1>7. CASE \E w \in Workers : VerifyRemote(w)
  BY <1>7, PublicationAssumption DEF VerifyRemote, Goto, Fails, TypesInv,
     TypeOK, Workers, Places, PublicationAssumption
<1>8. CASE \E w \in Workers : CreatePullRequest(w)
  <2>1. hub' = hub \/ hub' = Created
    BY <1>8 DEF CreatePullRequest
  <2>2. hub \in [branch : Commits, pr : {"none", "open", "merged"}, head : Commits]
    BY DEF TypesInv, TypeOK
  <2>3. hub' \in [branch : Commits, pr : {"none", "open", "merged"}, head : Commits]
    BY <2>1, <2>2 DEF Created
  <2> QED
    BY <1>8, <2>3 DEF CreatePullRequest, Goto, Fails, TypesInv, TypeOK, Workers,
       Places
<1>9. CASE \E w \in Workers : ConfirmPullRequest(w)
  BY <1>9, PublicationAssumption DEF ConfirmPullRequest, Goto, ResultOf, Fails,
     TypesInv, TypeOK, Memories, Workers, Places, PublicationAssumption
<1>10. CASE \E w \in Workers : Report(w)
  BY <1>10, PublicationAssumption DEF Report, At, Post, Ends, Goto, From, Fails,
     Fault, NoMemory, TypesInv, TypeOK, Memories, States, Places, Commits,
     PublicationAssumption
<1>11. CASE \E w \in Workers : ReportPublished(w)
  BY <1>11, PublicationAssumption DEF ReportPublished, Post, Goto, Fails,
     TypesInv, TypeOK, States, Places, PublicationAssumption
<1>12. CASE \E w \in Workers : MarkPublished(w)
  BY <1>12, PublicationAssumption DEF MarkPublished, Published, Goto, Ends,
     NoMemory, TypesInv, TypeOK, Memories, Workers, Places, Commits,
     PublicationAssumption
<1>13. CASE \E w \in Workers : ReportMerged(w)
  BY <1>13, PublicationAssumption DEF ReportMerged, Post, Goto, Fails, TypesInv,
     TypeOK, States, Places, PublicationAssumption
<1>14. CASE \E w \in Workers : MarkMerged(w)
  BY <1>14, PublicationAssumption DEF MarkMerged, Merged, Goto, TypesInv,
     TypeOK, Places, PublicationAssumption
<1>15. CASE \E w \in Workers : BeginCleanup(w)
  BY <1>15, PublicationAssumption DEF BeginCleanup, Eligible, Ends, Goto, Post,
     NoMemory, Fails, Fault, TypesInv, TypeOK, Memories, States, Cleaning,
     Places, Commits, PublicationAssumption
<1>16. CASE \E w \in Workers : CleanupLock(w)
  BY <1>16, PublicationAssumption DEF CleanupLock, Goto, Stuck, TypesInv,
     TypeOK, Places, PublicationAssumption
<1>17. CASE \E w \in Workers : CleanupReadsBranch(w)
  BY <1>17, PublicationAssumption DEF CleanupReadsBranch, At, Untouched, Goto,
     Stuck, TypesInv, TypeOK, Memories, Places, PublicationAssumption
<1>18. CASE \E w \in Workers : CleanupComparesTree(w)
  BY <1>18, PublicationAssumption DEF CleanupComparesTree, Goto, Stuck,
     TypesInv, TypeOK, Places, PublicationAssumption
<1>19. CASE \E w \in Workers : RemoveWorktree(w)
  BY <1>19, PublicationAssumption DEF RemoveWorktree, Goto, Stuck, TypesInv,
     TypeOK, Places, PublicationAssumption
<1>20. CASE \E w \in Workers : DeleteRow(w)
  <2>1. store' \in [state : {"accepted", "published", "merged", "cleaned"}, row : BOOLEAN]
    BY <1>20, Zenon DEF DeleteRow, TypesInv, TypeOK
  <2> QED
    BY <1>20, <2>1 DEF DeleteRow, Goto, TypesInv, TypeOK, Workers, Places
<1>21. CASE \E w \in Workers : DeleteBranch(w)
  BY <1>21, PublicationAssumption DEF DeleteBranch, Goto, Stuck, TypesInv,
     TypeOK, Places, Commits, PublicationAssumption
<1>22. CASE \E w \in Workers : DeleteSnapshot(w)
  BY <1>22, PublicationAssumption DEF DeleteSnapshot, Goto, TypesInv, TypeOK,
     Places, PublicationAssumption
<1>23. CASE \E w \in Workers : MarkCleaned(w)
  BY <1>23, PublicationAssumption DEF MarkCleaned, Goto, Stuck, TypesInv,
     TypeOK, Places, PublicationAssumption
<1>24. CASE \E w \in Workers : ReportCleaned(w)
  BY <1>24, PublicationAssumption DEF ReportCleaned, Post, Ends, Fails, Goto,
     NoMemory, TypesInv, TypeOK, Memories, Workers, States, Cleaning, Places,
     Commits, PublicationAssumption
<1>25. CASE \E w \in Workers : ReportFailure(w)
  BY <1>25, PublicationAssumption DEF ReportFailure, Ends, Goto, NoMemory,
     TypesInv, TypeOK, Memories, States, Places, Commits, PublicationAssumption
<1>26. CASE \E w \in Workers : Dies(w)
  BY <1>26, PublicationAssumption DEF Dies, Ends, Goto, NoMemory, TypesInv,
     TypeOK, Memories, Places, Commits, PublicationAssumption
<1>27. CASE UserCommits
  BY <1>27, PublicationAssumption DEF UserCommits, TypesInv, TypeOK, Commits,
     PublicationAssumption
<1>28. CASE UserEdits
  BY <1>28, PublicationAssumption DEF UserEdits, TypesInv, TypeOK,
     PublicationAssumption
<1>29. CASE UserCancels
  BY <1>29, PublicationAssumption DEF UserCancels, TypesInv, TypeOK, States,
     PublicationAssumption
<1>30. CASE UserAsksAgain
  BY <1>30, PublicationAssumption DEF UserAsksAgain, TypesInv, TypeOK, States,
     PublicationAssumption
<1>31. CASE PullRequestMerged
  <2>1. hub' \in [branch : Commits, pr : {"none", "open", "merged"}, head : Commits]
    BY <1>31 DEF PullRequestMerged, TypesInv, TypeOK, Commits
  <2> QED
    BY <1>31, <2>1 DEF PullRequestMerged, TypesInv, TypeOK, Workers
<1>32. CASE RetentionPasses
  BY <1>32, PublicationAssumption DEF RetentionPasses, TypesInv, TypeOK,
     PublicationAssumption
<1>33. CASE UNCHANGED vars
  BY <1>33 DEF vars, TypesInv, TypeOK, Commits, PublicationAssumption
<1> QED
  BY <1>1, <1>2, <1>3, <1>4, <1>5, <1>6, <1>7, <1>8, <1>9, <1>10, <1>11, <1>12,
     <1>13, <1>14, <1>15, <1>16, <1>17, <1>18, <1>19, <1>20, <1>21, <1>22,
     <1>23, <1>24, <1>25, <1>26, <1>27, <1>28, <1>29, <1>30, <1>31, <1>32, <1>33
     DEF Next, Step, Environment

\* A pull request once merged stays merged, so whoever was told so stays right,
\* and nobody reports a merge without having seen it.
LEMMA MergeStep ==
  ASSUME TypesInv, MergeInv, [Next]_vars
  PROVE  MergeInv'
<1>1. CASE \E w \in Workers : Fetch(w)
  BY <1>1 DEF Fetch, Goto, MergeInv, TypesInv
<1>2. CASE \E w \in Workers : StartPublication(w)
  BY <1>2 DEF StartPublication, Post, Goto, Fails, MergeInv, TypesInv, TypeOK,
     Cleaning
<1>3. CASE \E w \in Workers : CheckLocalHead(w)
  BY <1>3 DEF CheckLocalHead, Goto, Fails, MergeInv, TypesInv, TypeOK
<1>4. CASE \E w \in Workers : ListPullRequests(w)
  BY <1>4 DEF ListPullRequests, Goto, MergeInv, TypesInv
<1>5. CASE \E w \in Workers : Decide(w)
  BY <1>5 DEF Decide, Goto, ResultOf, Fails, MergeInv, TypesInv, TypeOK,
     Memories, Cleaning
<1>6. CASE \E w \in Workers : Push(w)
  BY <1>6, PushEffect DEF MergeInv, TypesInv, TypeOK
<1>7. CASE \E w \in Workers : VerifyRemote(w)
  BY <1>7 DEF VerifyRemote, Goto, Fails, MergeInv, TypesInv, TypeOK
<1>8. CASE \E w \in Workers : CreatePullRequest(w)
  BY <1>8 DEF CreatePullRequest, Creatable, Goto, Fails, MergeInv, TypesInv,
     TypeOK
<1>9. CASE \E w \in Workers : ConfirmPullRequest(w)
  BY <1>9 DEF ConfirmPullRequest, Goto, ResultOf, Fails, MergeInv, TypesInv,
     TypeOK
<1>10. CASE \E w \in Workers : Report(w)
  BY <1>10 DEF Report, Post, Ends, Goto, Fails, NoMemory, MergeInv, TypesInv,
     TypeOK, Cleaning
<1>11. CASE \E w \in Workers : ReportPublished(w)
  BY <1>11 DEF ReportPublished, Post, Goto, Fails, MergeInv, TypesInv, TypeOK,
     Cleaning
<1>12. CASE \E w \in Workers : MarkPublished(w)
  BY <1>12 DEF MarkPublished, Goto, Ends, NoMemory, MergeInv, TypesInv, TypeOK
<1>13. CASE \E w \in Workers : ReportMerged(w)
  BY <1>13 DEF ReportMerged, At, Post, Goto, Fails, MergeInv, TypesInv, TypeOK
<1>14. CASE \E w \in Workers : MarkMerged(w)
  BY <1>14 DEF MarkMerged, Goto, MergeInv
<1>15. CASE \E w \in Workers : BeginCleanup(w)
  BY <1>15 DEF BeginCleanup, Eligible, Ends, Goto, Post, NoMemory, Fails,
     MergeInv, TypesInv, TypeOK
<1>16. CASE \E w \in Workers : CleanupLock(w)
  BY <1>16 DEF CleanupLock, Goto, Stuck, MergeInv, TypesInv, TypeOK
<1>17. CASE \E w \in Workers : CleanupReadsBranch(w)
  BY <1>17 DEF CleanupReadsBranch, Goto, Stuck, MergeInv, TypesInv, TypeOK
<1>18. CASE \E w \in Workers : CleanupComparesTree(w)
  BY <1>18 DEF CleanupComparesTree, Goto, Stuck, MergeInv, TypesInv, TypeOK
<1>19. CASE \E w \in Workers : RemoveWorktree(w)
  BY <1>19 DEF RemoveWorktree, Goto, Stuck, MergeInv, TypesInv, TypeOK
<1>20. CASE \E w \in Workers : DeleteRow(w)
  BY <1>20 DEF DeleteRow, Goto, MergeInv
<1>21. CASE \E w \in Workers : DeleteBranch(w)
  BY <1>21 DEF DeleteBranch, Goto, Stuck, MergeInv, TypesInv, TypeOK
<1>22. CASE \E w \in Workers : DeleteSnapshot(w)
  BY <1>22 DEF DeleteSnapshot, Goto, MergeInv
<1>23. CASE \E w \in Workers : MarkCleaned(w)
  BY <1>23 DEF MarkCleaned, Goto, Stuck, MergeInv, TypesInv, TypeOK
<1>24. CASE \E w \in Workers : ReportCleaned(w)
  BY <1>24 DEF ReportCleaned, Post, Ends, From, Fails, Goto, MergeInv, TypesInv,
     TypeOK, Cleaning
<1>25. CASE \E w \in Workers : ReportFailure(w)
  BY <1>25 DEF ReportFailure, At, Ends, Goto, NoMemory, MergeInv, Cleaning
<1>26. CASE \E w \in Workers : Dies(w)
  BY <1>26 DEF Dies, Ends, Goto, NoMemory, MergeInv, TypesInv, TypeOK
<1>27. CASE UserCommits
  BY <1>27 DEF UserCommits, MergeInv
<1>28. CASE UserEdits
  BY <1>28 DEF UserEdits, MergeInv
<1>29. CASE UserCancels
  BY <1>29 DEF UserCancels, MergeInv, Cleaning
<1>30. CASE UserAsksAgain
  BY <1>30 DEF UserAsksAgain, MergeInv, Cleaning
<1>31. CASE PullRequestMerged
  BY <1>31 DEF PullRequestMerged, MergeInv
<1>32. CASE RetentionPasses
  BY <1>32 DEF RetentionPasses, MergeInv
<1>33. CASE UNCHANGED vars
  BY <1>33 DEF vars, MergeInv, Cleaning
<1> QED
  BY <1>1, <1>2, <1>3, <1>4, <1>5, <1>6, <1>7, <1>8, <1>9, <1>10, <1>11, <1>12,
     <1>13, <1>14, <1>15, <1>16, <1>17, <1>18, <1>19, <1>20, <1>21, <1>22,
     <1>23, <1>24, <1>25, <1>26, <1>27, <1>28, <1>29, <1>30, <1>31, <1>32, <1>33
     DEF Next, Step, Environment

\* What was read of the server or reported to it is not taken back: a process goes
\* on to mark its store only after the server has accepted its report.
LEMMA ReportStep ==
  ASSUME TypesInv, MergeInv, ReportInv, [Next]_vars
  PROVE  ReportInv'
<1>1. CASE \E w \in Workers : Fetch(w)
  BY <1>1 DEF Fetch, Goto, ReportInv, StoreFollowsServer, CleanPlaces, TypesInv,
     Cleaning
<1>2. CASE \E w \in Workers : StartPublication(w)
  BY <1>2 DEF StartPublication, Post, Goto, From, Fails, ReportInv,
     StoreFollowsServer, CleanPlaces, TypesInv, TypeOK, Cleaning
<1>3. CASE \E w \in Workers : CheckLocalHead(w)
  BY <1>3 DEF CheckLocalHead, Goto, Fails, ReportInv, StoreFollowsServer,
     CleanPlaces, TypesInv, TypeOK
<1>4. CASE \E w \in Workers : ListPullRequests(w)
  BY <1>4 DEF ListPullRequests, Goto, ReportInv, StoreFollowsServer,
     CleanPlaces, TypesInv
<1>5. CASE \E w \in Workers : Decide(w)
  BY <1>5 DEF Decide, Goto, Fails, ReportInv, StoreFollowsServer, CleanPlaces,
     TypesInv, TypeOK
<1>6. CASE \E w \in Workers : Push(w)
  BY <1>6, PushEffect DEF ReportInv, StoreFollowsServer, CleanPlaces, TypesInv,
     TypeOK
<1>7. CASE \E w \in Workers : VerifyRemote(w)
  BY <1>7 DEF VerifyRemote, Goto, Fails, ReportInv, StoreFollowsServer,
     CleanPlaces, TypesInv, TypeOK
<1>8. CASE \E w \in Workers : CreatePullRequest(w)
  BY <1>8 DEF CreatePullRequest, Goto, Fails, ReportInv, StoreFollowsServer,
     CleanPlaces, TypesInv, TypeOK
<1>9. CASE \E w \in Workers : ConfirmPullRequest(w)
  BY <1>9 DEF ConfirmPullRequest, Goto, Fails, ReportInv, StoreFollowsServer,
     CleanPlaces, TypesInv, TypeOK
<1>10. CASE \E w \in Workers : Report(w)
  BY <1>10 DEF Report, Post, Ends, Goto, From, Fails, NoMemory, ReportInv,
     StoreFollowsServer, CleanPlaces, TypesInv, TypeOK, Cleaning
<1>11. CASE \E w \in Workers : ReportPublished(w)
  BY <1>11 DEF ReportPublished, Post, Goto, From, Fails, ReportInv,
     StoreFollowsServer, CleanPlaces, TypesInv, TypeOK, Cleaning
<1>12. CASE \E w \in Workers : MarkPublished(w)
  BY <1>12 DEF MarkPublished, At, Published, Goto, Ends, NoMemory, ReportInv,
     StoreFollowsServer, CleanPlaces, TypesInv, TypeOK, Cleaning
<1>13. CASE \E w \in Workers : ReportMerged(w)
  BY <1>13 DEF ReportMerged, Post, Goto, From, Fails, ReportInv,
     StoreFollowsServer, CleanPlaces, TypesInv, TypeOK, Cleaning
<1>14. CASE \E w \in Workers : MarkMerged(w)
  BY <1>14 DEF MarkMerged, At, Merged, Goto, ReportInv, StoreFollowsServer,
     CleanPlaces
<1>15. CASE \E w \in Workers : BeginCleanup(w)
  <2> SUFFICES ASSUME NEW w \in Workers, BeginCleanup(w)
               PROVE  ReportInv'
    BY <1>15
  <2>1. CASE server' = server
    BY <2>1 DEF BeginCleanup, Ends, Goto, Post, NoMemory, Fails, ReportInv,
       StoreFollowsServer, CleanPlaces, TypesInv, TypeOK, Cleaning
  <2>2. CASE server' = "cleanup_pending"
    BY <2>2 DEF ReportInv, StoreFollowsServer, TypesInv, TypeOK, Cleaning
  <2>3. server' \in {server, "cleanup_pending"}
    BY DEF BeginCleanup, Post
  <2> QED
    BY <2>1, <2>2, <2>3
<1>16. CASE \E w \in Workers : CleanupLock(w)
  BY <1>16 DEF CleanupLock, At, ReportInv, StoreFollowsServer, CleanPlaces
<1>17. CASE \E w \in Workers : CleanupReadsBranch(w)
  BY <1>17 DEF CleanupReadsBranch, At, ReportInv, StoreFollowsServer,
     CleanPlaces
<1>18. CASE \E w \in Workers : CleanupComparesTree(w)
  BY <1>18 DEF CleanupComparesTree, At, ReportInv, StoreFollowsServer,
     CleanPlaces
<1>19. CASE \E w \in Workers : RemoveWorktree(w)
  BY <1>19 DEF RemoveWorktree, At, ReportInv, StoreFollowsServer, CleanPlaces
<1>20. CASE \E w \in Workers : DeleteRow(w)
  BY <1>20 DEF DeleteRow, At, ReportInv, StoreFollowsServer, CleanPlaces
<1>21. CASE \E w \in Workers : DeleteBranch(w)
  BY <1>21 DEF DeleteBranch, At, ReportInv, StoreFollowsServer, CleanPlaces
<1>22. CASE \E w \in Workers : DeleteSnapshot(w)
  BY <1>22 DEF DeleteSnapshot, At, ReportInv, StoreFollowsServer, CleanPlaces
<1>23. CASE \E w \in Workers : MarkCleaned(w)
  BY <1>23 DEF MarkCleaned, At, ReportInv, StoreFollowsServer, CleanPlaces
<1>24. CASE \E w \in Workers : ReportCleaned(w)
  BY <1>24 DEF ReportCleaned, At, Post, ReportInv, StoreFollowsServer,
     CleanPlaces, Cleaning
<1>25. CASE \E w \in Workers : ReportFailure(w)
  BY <1>25 DEF ReportFailure, Ends, From, Goto, NoMemory, ReportInv,
     StoreFollowsServer, CleanPlaces, Cleaning
<1>26. CASE \E w \in Workers : Dies(w)
  BY <1>26 DEF Dies, Ends, Goto, NoMemory, ReportInv, StoreFollowsServer,
     CleanPlaces, Cleaning
<1>27. CASE UserCommits
  BY <1>27 DEF UserCommits, ReportInv, StoreFollowsServer
<1>28. CASE UserEdits
  BY <1>28 DEF UserEdits, ReportInv, StoreFollowsServer
<1>29. CASE UserCancels
  BY <1>29 DEF UserCancels, ReportInv, StoreFollowsServer, Cleaning
<1>30. CASE UserAsksAgain
  BY <1>30 DEF UserAsksAgain, ReportInv, StoreFollowsServer, Cleaning
<1>31. CASE PullRequestMerged
  BY <1>31 DEF PullRequestMerged, ReportInv, StoreFollowsServer
<1>32. CASE RetentionPasses
  BY <1>32 DEF RetentionPasses, ReportInv, StoreFollowsServer
<1>33. CASE UNCHANGED vars
  BY <1>33 DEF vars, ReportInv, StoreFollowsServer, Cleaning
<1> QED
  BY <1>1, <1>2, <1>3, <1>4, <1>5, <1>6, <1>7, <1>8, <1>9, <1>10, <1>11, <1>12,
     <1>13, <1>14, <1>15, <1>16, <1>17, <1>18, <1>19, <1>20, <1>21, <1>22,
     <1>23, <1>24, <1>25, <1>26, <1>27, <1>28, <1>29, <1>30, <1>31, <1>32, <1>33
     DEF Next, Step, Environment

\* Only a process that found the pull request merged and the retention over goes on
\* to the places where an artifact is removed.
LEMMA RetentionStep ==
  ASSUME TypesInv, RetentionInv, [Next]_vars
  PROVE  RetentionInv'
<1>1. CASE \E w \in Workers : Fetch(w)
  BY <1>1, PublicationAssumption DEF Fetch, Goto, RetentionInv, CleanPlaces,
     PublicationAssumption, Cleaning
<1>2. CASE \E w \in Workers : StartPublication(w)
  BY <1>2, PublicationAssumption DEF StartPublication, Post, Goto, Fails,
     RetentionInv, CleanPlaces, PublicationAssumption, TypesInv, TypeOK,
     Cleaning
<1>3. CASE \E w \in Workers : CheckLocalHead(w)
  BY <1>3, PublicationAssumption DEF CheckLocalHead, Goto, Fails, RetentionInv,
     CleanPlaces, PublicationAssumption, TypesInv, TypeOK, Cleaning
<1>4. CASE \E w \in Workers : ListPullRequests(w)
  BY <1>4, PublicationAssumption DEF ListPullRequests, Goto, RetentionInv,
     CleanPlaces, PublicationAssumption, Cleaning
<1>5. CASE \E w \in Workers : Decide(w)
  BY <1>5, PublicationAssumption DEF Decide, Goto, Fails, RetentionInv,
     CleanPlaces, PublicationAssumption, TypesInv, TypeOK, Cleaning
<1>6. CASE \E w \in Workers : Push(w)
  BY <1>6, PushEffect DEF RetentionInv, CleanPlaces, TypesInv, TypeOK
<1>7. CASE \E w \in Workers : VerifyRemote(w)
  BY <1>7, PublicationAssumption DEF VerifyRemote, Goto, Fails, RetentionInv,
     CleanPlaces, PublicationAssumption, TypesInv, TypeOK, Cleaning
<1>8. CASE \E w \in Workers : CreatePullRequest(w)
  BY <1>8, PublicationAssumption DEF CreatePullRequest, Goto, Fails,
     RetentionInv, CleanPlaces, PublicationAssumption, TypesInv, TypeOK,
     Cleaning
<1>9. CASE \E w \in Workers : ConfirmPullRequest(w)
  BY <1>9, PublicationAssumption DEF ConfirmPullRequest, Goto, Fails,
     RetentionInv, CleanPlaces, PublicationAssumption, TypesInv, TypeOK,
     Cleaning
<1>10. CASE \E w \in Workers : Report(w)
  BY <1>10, PublicationAssumption DEF Report, Post, Ends, Goto, Fails,
     RetentionInv, CleanPlaces, PublicationAssumption, TypesInv, TypeOK,
     Cleaning
<1>11. CASE \E w \in Workers : ReportPublished(w)
  BY <1>11, PublicationAssumption DEF ReportPublished, Post, Goto, Fails,
     RetentionInv, CleanPlaces, PublicationAssumption, TypesInv, TypeOK,
     Cleaning
<1>12. CASE \E w \in Workers : MarkPublished(w)
  BY <1>12, PublicationAssumption DEF MarkPublished, Published, Goto, Ends,
     RetentionInv, CleanPlaces, PublicationAssumption, TypesInv, TypeOK,
     Cleaning
<1>13. CASE \E w \in Workers : ReportMerged(w)
  BY <1>13, PublicationAssumption DEF ReportMerged, Post, Goto, Fails,
     RetentionInv, CleanPlaces, PublicationAssumption, TypesInv, TypeOK,
     Cleaning
<1>14. CASE \E w \in Workers : MarkMerged(w)
  BY <1>14, PublicationAssumption DEF MarkMerged, Merged, Goto, RetentionInv,
     CleanPlaces, PublicationAssumption, Cleaning
<1>15. CASE \E w \in Workers : BeginCleanup(w)
  BY <1>15, PublicationAssumption DEF BeginCleanup, Eligible, Ends, Goto,
     RetentionInv, CleanPlaces, PublicationAssumption, TypesInv, TypeOK,
     Cleaning
<1>16. CASE \E w \in Workers : CleanupLock(w)
  BY <1>16, PublicationAssumption DEF CleanupLock, At, RetentionInv,
     CleanPlaces, PublicationAssumption, Cleaning
<1>17. CASE \E w \in Workers : CleanupReadsBranch(w)
  BY <1>17, PublicationAssumption DEF CleanupReadsBranch, At, RetentionInv,
     CleanPlaces, PublicationAssumption, Cleaning
<1>18. CASE \E w \in Workers : CleanupComparesTree(w)
  BY <1>18, PublicationAssumption DEF CleanupComparesTree, At, RetentionInv,
     CleanPlaces, PublicationAssumption, Cleaning
<1>19. CASE \E w \in Workers : RemoveWorktree(w)
  BY <1>19, PublicationAssumption DEF RemoveWorktree, At, RetentionInv,
     CleanPlaces, PublicationAssumption, Cleaning
<1>20. CASE \E w \in Workers : DeleteRow(w)
  BY <1>20, PublicationAssumption DEF DeleteRow, At, RetentionInv, CleanPlaces,
     PublicationAssumption, Cleaning
<1>21. CASE \E w \in Workers : DeleteBranch(w)
  BY <1>21, PublicationAssumption DEF DeleteBranch, At, RetentionInv,
     CleanPlaces, PublicationAssumption, Cleaning
<1>22. CASE \E w \in Workers : DeleteSnapshot(w)
  BY <1>22, PublicationAssumption DEF DeleteSnapshot, At, RetentionInv,
     CleanPlaces, PublicationAssumption, Cleaning
<1>23. CASE \E w \in Workers : MarkCleaned(w)
  BY <1>23, PublicationAssumption DEF MarkCleaned, At, RetentionInv,
     CleanPlaces, PublicationAssumption, Cleaning
<1>24. CASE \E w \in Workers : ReportCleaned(w)
  BY <1>24, PublicationAssumption DEF ReportCleaned, At, RetentionInv,
     CleanPlaces, PublicationAssumption, Cleaning
<1>25. CASE \E w \in Workers : ReportFailure(w)
  BY <1>25, PublicationAssumption DEF ReportFailure, Ends, Goto, RetentionInv,
     CleanPlaces, PublicationAssumption, Cleaning
<1>26. CASE \E w \in Workers : Dies(w)
  BY <1>26, PublicationAssumption DEF Dies, Ends, Goto, RetentionInv,
     CleanPlaces, PublicationAssumption, Cleaning
<1>27. CASE UserCommits
  BY <1>27, PublicationAssumption DEF UserCommits, RetentionInv,
     PublicationAssumption, TypesInv, Memories, Cleaning
<1>28. CASE UserEdits
  BY <1>28, PublicationAssumption DEF UserEdits, RetentionInv,
     PublicationAssumption, Cleaning
<1>29. CASE UserCancels
  BY <1>29, PublicationAssumption DEF UserCancels, RetentionInv,
     PublicationAssumption, Cleaning
<1>30. CASE UserAsksAgain
  BY <1>30, PublicationAssumption DEF UserAsksAgain, RetentionInv,
     PublicationAssumption, Cleaning
<1>31. CASE PullRequestMerged
  BY <1>31, PublicationAssumption DEF PullRequestMerged, RetentionInv,
     PublicationAssumption, Cleaning
<1>32. CASE RetentionPasses
  BY <1>32, PublicationAssumption DEF RetentionPasses, RetentionInv,
     PublicationAssumption, Cleaning
<1>33. CASE UNCHANGED vars
  BY <1>33 DEF vars, RetentionInv, TypesInv, Memories, Cleaning
<1> QED
  BY <1>1, <1>2, <1>3, <1>4, <1>5, <1>6, <1>7, <1>8, <1>9, <1>10, <1>11, <1>12,
     <1>13, <1>14, <1>15, <1>16, <1>17, <1>18, <1>19, <1>20, <1>21, <1>22,
     <1>23, <1>24, <1>25, <1>26, <1>27, <1>28, <1>29, <1>30, <1>31, <1>32, <1>33
     DEF Next, Step, Environment

\* Each step of a cleanup leaves its artifact gone for good, so the later steps may
\* rely on it although the other process works on the same artifacts.
LEMMA CleanStep ==
  ASSUME TypesInv, ReportInv, CleanInv, [Next]_vars
  PROVE  CleanInv'
<1>1. CASE \E w \in Workers : Fetch(w)
  BY <1>1, PublicationAssumption DEF Fetch, Goto, CleanInv, CleanedMeansGone,
     PublicationAssumption, TypesInv
<1>2. CASE \E w \in Workers : StartPublication(w)
  BY <1>2, PublicationAssumption DEF StartPublication, Post, Goto, Fails,
     CleanInv, CleanedMeansGone, PublicationAssumption, TypesInv, TypeOK
<1>3. CASE \E w \in Workers : CheckLocalHead(w)
  BY <1>3, PublicationAssumption DEF CheckLocalHead, Goto, Fails, CleanInv,
     CleanedMeansGone, PublicationAssumption, TypesInv, TypeOK
<1>4. CASE \E w \in Workers : ListPullRequests(w)
  BY <1>4, PublicationAssumption DEF ListPullRequests, Goto, CleanInv,
     CleanedMeansGone, PublicationAssumption, TypesInv
<1>5. CASE \E w \in Workers : Decide(w)
  BY <1>5, PublicationAssumption DEF Decide, Goto, Fails, CleanInv,
     CleanedMeansGone, PublicationAssumption, TypesInv, TypeOK
<1>6. CASE \E w \in Workers : Push(w)
  BY <1>6, PushEffect DEF CleanInv, CleanedMeansGone, TypesInv, TypeOK
<1>7. CASE \E w \in Workers : VerifyRemote(w)
  BY <1>7, PublicationAssumption DEF VerifyRemote, Goto, Fails, CleanInv,
     CleanedMeansGone, PublicationAssumption, TypesInv, TypeOK
<1>8. CASE \E w \in Workers : CreatePullRequest(w)
  BY <1>8, PublicationAssumption DEF CreatePullRequest, Goto, Fails, CleanInv,
     CleanedMeansGone, PublicationAssumption, TypesInv, TypeOK
<1>9. CASE \E w \in Workers : ConfirmPullRequest(w)
  BY <1>9, PublicationAssumption DEF ConfirmPullRequest, Goto, Fails, CleanInv,
     CleanedMeansGone, PublicationAssumption, TypesInv, TypeOK
<1>10. CASE \E w \in Workers : Report(w)
  BY <1>10, PublicationAssumption DEF Report, Post, Ends, Goto, Fails, CleanInv,
     CleanedMeansGone, PublicationAssumption, TypesInv, TypeOK
<1>11. CASE \E w \in Workers : ReportPublished(w)
  BY <1>11, PublicationAssumption DEF ReportPublished, Post, Goto, Fails,
     CleanInv, CleanedMeansGone, PublicationAssumption, TypesInv, TypeOK
<1>12. CASE \E w \in Workers : MarkPublished(w)
  <2>1. store'.row = store.row /\ (store.state = "cleaned" => store' = store)
    BY <1>12 DEF MarkPublished, Published, TypesInv, TypeOK
  <2>2. ~store'.row => ~store.row
    BY <2>1
  <2> QED
    BY <1>12, <2>1, <2>2 DEF MarkPublished, Goto, Ends, CleanInv,
       CleanedMeansGone, Cleaning, TypesInv, TypeOK
<1>13. CASE \E w \in Workers : ReportMerged(w)
  BY <1>13, PublicationAssumption DEF ReportMerged, Post, Goto, Fails, CleanInv,
     CleanedMeansGone, PublicationAssumption, TypesInv, TypeOK
<1>14. CASE \E w \in Workers : MarkMerged(w)
  <2>1. store'.row = store.row /\ (store.state = "cleaned" => store' = store)
    BY <1>14 DEF MarkMerged, Merged, TypesInv, TypeOK
  <2> QED
    BY <1>14, <2>1 DEF MarkMerged, Goto, CleanInv, CleanedMeansGone, TypesInv,
       TypeOK
<1>15. CASE \E w \in Workers : BeginCleanup(w)
  BY <1>15, PublicationAssumption DEF BeginCleanup, Ends, Goto, Post, Fails,
     CleanInv, CleanedMeansGone, PublicationAssumption, TypesInv, TypeOK
<1>16. CASE \E w \in Workers : CleanupLock(w)
  BY <1>16, PublicationAssumption DEF CleanupLock, Goto, Stuck, CleanInv,
     CleanedMeansGone, PublicationAssumption, TypesInv, TypeOK
<1>17. CASE \E w \in Workers : CleanupReadsBranch(w)
  BY <1>17, PublicationAssumption DEF CleanupReadsBranch, Goto, Stuck, CleanInv,
     CleanedMeansGone, PublicationAssumption, TypesInv, TypeOK, Cleaning
<1>18. CASE \E w \in Workers : CleanupComparesTree(w)
  BY <1>18, PublicationAssumption DEF CleanupComparesTree, At, Goto, Stuck,
     CleanInv, CleanedMeansGone, PublicationAssumption, TypesInv, TypeOK
<1>19. CASE \E w \in Workers : RemoveWorktree(w)
  BY <1>19, PublicationAssumption DEF RemoveWorktree, At, Goto, Stuck, CleanInv,
     CleanedMeansGone, PublicationAssumption, TypesInv, TypeOK
<1>20. CASE \E w \in Workers : DeleteRow(w)
  <2>1. ~store'.row /\ store'.state = store.state
    BY <1>20 DEF DeleteRow, TypesInv, TypeOK
  <2>2. ~store.row => store' = store
    BY <1>20 DEF DeleteRow, TypesInv, TypeOK
  <2>4. CleanedMeansGone'
    <3>1. store = [state |-> "cleaned", row |-> FALSE] => ~store.row
      OBVIOUS
    <3>2. UNCHANGED <<server, repo>>
      BY <1>20 DEF DeleteRow
    <3> QED
      BY <2>2, <3>1, <3>2 DEF CleanInv, CleanedMeansGone
  <2>3. repo.worktree = "gone" /\ repo' = repo
    BY <1>20 DEF DeleteRow, At, CleanInv
  <2> QED
    BY <1>20, <2>1, <2>3, <2>4 DEF DeleteRow, At, Goto, CleanInv, TypesInv,
       TypeOK
<1>21. CASE \E w \in Workers : DeleteBranch(w)
  BY <1>21, PublicationAssumption DEF DeleteBranch, At, Goto, Stuck, CleanInv,
     CleanedMeansGone, PublicationAssumption, TypesInv, TypeOK
<1>22. CASE \E w \in Workers : DeleteSnapshot(w)
  BY <1>22, PublicationAssumption DEF DeleteSnapshot, At, Goto, CleanInv,
     CleanedMeansGone, PublicationAssumption
<1>23. CASE \E w \in Workers : MarkCleaned(w)
  BY <1>23, PublicationAssumption DEF MarkCleaned, At, Goto, Stuck, CleanInv,
     CleanedMeansGone, PublicationAssumption, TypesInv, TypeOK
<1>24. CASE \E w \in Workers : ReportCleaned(w)
  BY <1>24, PublicationAssumption DEF ReportCleaned, At, Post, Ends, Fails,
     Goto, CleanInv, CleanedMeansGone, PublicationAssumption, TypesInv, TypeOK
<1>25. CASE \E w \in Workers : ReportFailure(w)
  BY <1>25, PublicationAssumption DEF ReportFailure, At, Ends, Goto, CleanInv,
     CleanedMeansGone, PublicationAssumption
<1>26. CASE \E w \in Workers : Dies(w)
  BY <1>26, PublicationAssumption DEF Dies, Ends, Goto, CleanInv,
     CleanedMeansGone, PublicationAssumption, TypesInv, TypeOK
<1>27. CASE UserCommits
  BY <1>27, PublicationAssumption DEF UserCommits, CleanInv, CleanedMeansGone,
     PublicationAssumption
<1>28. CASE UserEdits
  BY <1>28, PublicationAssumption DEF UserEdits, CleanInv, CleanedMeansGone,
     PublicationAssumption
<1>29. CASE UserCancels
  BY <1>29, PublicationAssumption DEF UserCancels, CleanInv, CleanedMeansGone,
     PublicationAssumption
<1>30. CASE UserAsksAgain
  BY <1>30, PublicationAssumption DEF UserAsksAgain, CleanInv, CleanedMeansGone,
     PublicationAssumption
<1>31. CASE PullRequestMerged
  BY <1>31, PublicationAssumption DEF PullRequestMerged, CleanInv,
     CleanedMeansGone, PublicationAssumption
<1>32. CASE RetentionPasses
  BY <1>32, PublicationAssumption DEF RetentionPasses, CleanInv,
     CleanedMeansGone, PublicationAssumption
<1>33. CASE UNCHANGED vars
  BY <1>33 DEF vars, CleanInv, CleanedMeansGone, Cleaning
<1> QED
  BY <1>1, <1>2, <1>3, <1>4, <1>5, <1>6, <1>7, <1>8, <1>9, <1>10, <1>11, <1>12,
     <1>13, <1>14, <1>15, <1>16, <1>17, <1>18, <1>19, <1>20, <1>21, <1>22,
     <1>23, <1>24, <1>25, <1>26, <1>27, <1>28, <1>29, <1>30, <1>31, <1>32, <1>33
     DEF Next, Step, Environment

-----------------------------------------------------------------------------
(* The theorems *)

\* The invariant holds at the start and is kept by every step.
LEMMA PublicationInductive == Spec => []PublicationInv
<1>1. Init => PublicationInv
  <2>1. Init => TypesInv
    <3>1. Init => store \in [state : {"accepted", "published", "merged", "cleaned"},
                             row : BOOLEAN]
      BY DEF Init
    <3>2. Init => hub \in [branch : Commits, pr : {"none", "open", "merged"}, head : Commits]
      BY DEF Init, Commits
    <3>3. Init => loc \in [Workers -> Memories]
      BY DEF Init, Memories, NoMemory, Commits
    <3>4. Init => repo \in [branch : Commits, snapshot : {Accepted, Absent},
                            worktree : {"clean", "edited", "gone"}]
      BY DEF Init, Commits
    <3>5. Init => /\ server \in States /\ old \in BOOLEAN
                  /\ lock \in Workers \cup {Nobody} /\ pc \in [Workers -> Places]
      BY DEF Init, States, Places
    <3> QED
      BY <3>1, <3>2, <3>3, <3>4, <3>5 DEF TypesInv, TypeOK, Memories
  <2>2. Init => MergeInv /\ ReportInv
    BY DEF Init, MergeInv, ReportInv, StoreFollowsServer, NoMemory, Cleaning,
       CleanPlaces
  <2>3. Init => RetentionInv /\ CleanInv
    BY PublicationAssumption DEF PublicationAssumption, Init, RetentionInv,
       CleanInv, CleanedMeansGone, NoMemory, CleanPlaces
  <2> QED
    BY <2>1, <2>2, <2>3 DEF PublicationInv
<1>2. PublicationInv /\ [Next]_vars => PublicationInv'
  BY TypesStep, MergeStep, ReportStep, RetentionStep, CleanStep DEF
     PublicationInv
<1> QED
  BY <1>1, <1>2, PTL DEF Spec

\* Every variable keeps its type, for any numbers of faults, commands and acts of
\* the user.
THEOREM PublicationTypeCorrect == Spec => []TypeOK
<1>1. PublicationInv => TypeOK
  BY DEF PublicationInv, TypesInv
<1> QED
  BY <1>1, PublicationInductive, PTL

\* No artifact of a run is removed before its pull request is merged and the
\* retention is over, however daemon and command interleave.
THEOREM RetentionSafety == Spec => []RetainedUntilMerge
<1>1. PublicationInv => RetainedUntilMerge
  BY DEF PublicationInv, MergeInv, RetentionInv, RetainedUntilMerge
<1> QED
  BY <1>1, PublicationInductive, PTL

\* The store never calls a publication published or merged before the server has
\* accepted that report, nor cleaned before it knows of the cleanup.
THEOREM StoreSafety == Spec => []StoreFollowsServer
<1>1. PublicationInv => StoreFollowsServer
  BY DEF PublicationInv, ReportInv
<1> QED
  BY <1>1, PublicationInductive, PTL

\* When the server calls a publication cleaned, worktree, row and snapshot ref are
\* gone and the feature ref is no longer at the accepted commit.
THEOREM CleanupSafety == Spec => []CleanedMeansGone
<1>1. PublicationInv => CleanedMeansGone
  BY DEF PublicationInv, CleanInv
<1> QED
  BY <1>1, PublicationInductive, PTL
=============================================================================
