----------------------------- MODULE AgentLoopMC -----------------------------
(* The instances of AgentLoop that TLC checks: three collectors, so that a  *)
(* failing one has a neighbour on either side of it in the round.           *)
EXTENDS AgentLoop
==============================================================================
