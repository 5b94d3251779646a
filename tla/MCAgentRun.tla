---------------------------- MODULE MCAgentRun -----------------------------
(* AgentRun for TLC: the tools and messages are model values of the .cfg.    *)
EXTENDS AgentRun
=============================================================================
