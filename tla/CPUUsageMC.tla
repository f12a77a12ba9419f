----------------------------- MODULE CPUUsageMC -----------------------------
(* The summary line and one CPU that may be offline; one busy mode and the  *)
(* idle time, of one tick each: enough for a first reading, an empty        *)
(* interval, and one published interval of two ticks or two of one.         *)
EXTENDS CPUUsage
==============================================================================
