------------------------------ MODULE Promotion ------------------------------
(***************************************************************************)
(* What the hand-off of an accepted change set promises, whatever fails    *)
(* and whoever else works on the repository:                               *)
(*   - the run-owned branch goes from its base to the snapshot only after  *)
(*     an acceptance, never from a commit the user has put there, and      *)
(*     never again once the outcome is in the journal;                     *)
(*   - the journal records the outcome only after the branch has moved;    *)
(*   - the server counts the run as applied only after the journal does,   *)
(*     and neither of the two is ever taken back.                          *)
(***************************************************************************)

VARIABLES
  verdict,   \* "open", "accepted" or "withdrawn"
  branch,    \* the run-owned branch: "base", "snapshot" or "other"
  advanced,  \* has it been moved to the snapshot?
  journal,   \* does the local journal say "applied"?
  reported   \* does the server?

promVars == <<verdict, branch, advanced, journal, reported>>

Init ==
  /\ verdict = "open" /\ branch = "base"
  /\ advanced = FALSE /\ journal = FALSE /\ reported = FALSE

Decide ==
  /\ verdict = "open" /\ verdict' \in {"accepted", "withdrawn"}
  /\ UNCHANGED <<branch, advanced, journal, reported>>

Advance ==
  /\ verdict = "accepted" /\ branch = "base" /\ ~journal
  /\ branch' = "snapshot" /\ advanced' = TRUE
  /\ UNCHANGED <<verdict, journal, reported>>

UserMovesBranch ==
  /\ branch' \in {"base", "other"}
  /\ UNCHANGED <<verdict, advanced, journal, reported>>

Journal ==
  /\ advanced /\ ~journal /\ journal' = TRUE
  /\ UNCHANGED <<verdict, branch, advanced, reported>>

Report ==
  /\ journal /\ ~reported /\ reported' = TRUE
  /\ UNCHANGED <<verdict, branch, advanced, journal>>

Next == Decide \/ Advance \/ UserMovesBranch \/ Journal \/ Report

Spec == Init /\ [][Next]_promVars
=============================================================================
