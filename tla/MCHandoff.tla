----------------------------- MODULE MCHandoff -----------------------------
(* Instances of Handoff for TLC: one daemon and one `changes apply`. *)
EXTENDS Handoff
=============================================================================
