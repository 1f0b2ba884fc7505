----------------------------- MODULE MCAgentRun -----------------------------
(***************************************************************************)
(* AgentRun on a small instance: two instructions, a channel of two.       *)
(***************************************************************************)
EXTENDS AgentRun
=============================================================================
