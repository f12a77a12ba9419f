------------------------------ MODULE ConfigMC ------------------------------
(* Intervals at and beyond both ends of what is accepted.                   *)
EXTENDS Config

CONSTANTS a, b, garbage

MCIntervals == {0, 1, 3600, 3601}
==============================================================================
