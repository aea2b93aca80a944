----------------------------- MODULE MCBatchRun -----------------------------
(* Instance of BatchRun for TLC.                                           *)
EXTENDS BatchRun
=============================================================================
