-------------------------- MODULE LoadCalculatorMC --------------------------
(* Two readers: one can be inside GetLoads while the other one calls it.    *)
(* The samples are away from the zeros the fields start with, and apart, so *)
(* that the three averages differ on their way from one to the other.       *)
EXTENDS LoadCalculator

CONSTANTS r1, r2

MCAlpha == <<3, 2, 1>>
==============================================================================
