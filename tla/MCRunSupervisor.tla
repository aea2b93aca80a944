--------------------------- MODULE MCRunSupervisor ---------------------------
(* Instance of RunSupervisor for TLC: two runs, the second in plan mode in     *)
(* the runs that say so.                                                       *)
EXTENDS RunSupervisor

CONSTANTS r1, r2
=============================================================================
