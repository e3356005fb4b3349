---------------------------- MODULE AgentRunnerMC ----------------------------
(* AgentRunner for TLC: a head's agent, its sub-agent, a scheduled agent. *)
EXTENDS AgentRunner

MCParent == [a \in Agents |-> IF a = "child" THEN "parent" ELSE NoAgent]
=============================================================================
