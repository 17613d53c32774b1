-------------------------- MODULE MCAgentLifecycle --------------------------
(* Instances of AgentLifecycle for TLC.                                    *)
EXTENDS AgentLifecycle

CONSTANTS p1, p2, g1, g2, none, check
=============================================================================
