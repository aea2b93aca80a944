-------------------------- MODULE MCPlanQuestions --------------------------
(* Instance for TLC: one run, in the bounds the .cfg files give. *)
EXTENDS PlanQuestions
=============================================================================
