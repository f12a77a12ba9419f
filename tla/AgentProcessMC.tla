--------------------------- MODULE AgentProcessMC ---------------------------
(* One collector module, as in the code, and two connections, one of them a *)
(* scraper's: one can hang while the other one is idle or ends.             *)
EXTENDS AgentProcess
==============================================================================
