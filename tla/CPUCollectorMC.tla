--------------------------- MODULE CPUCollectorMC ---------------------------
(* Two samples that are apart and away from zero, so that the averages of   *)
(* two moments differ.  Files of two processors: hyperthreads of one core,  *)
(* two cores, core ids without a count, "cpu id" lines, numbers only, one   *)
(* CPU offline, and a format without the keys.                            *)
EXTENDS CPUCollector

MCAlpha == <<3, 2, 1>>

L(k, v) == [key |-> k, value |-> v]

Block(n, core) == <<L("processor", n), L("model name", 7), L("core id", core)>>

MCFiles == {
  Block(0, 0) \o <<L("cpu cores", 1)>> \o Block(1, 0) \o <<L("cpu cores", 1)>>,
  Block(0, 0) \o <<L("cpu cores", 2)>> \o Block(1, 1) \o <<L("cpu cores", 2)>>,
  Block(0, 0) \o Block(1, 0),
  <<L("processor", 0), L("cpu id", 0), L("processor", 1), L("cpu id", 0)>>,
  <<L("processor", 0), L("processor", 1)>>,
  <<L("processor", 0), L("processor", 2)>>,
  <<L("processor", 0)>>,
  <<>>}

ASSUME FormatAssumption == \A lines \in MCFiles : KernelFormat(lines)
==============================================================================
