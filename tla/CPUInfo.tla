------------------------------ MODULE CPUInfo ------------------------------
(***************************************************************************)
(* collector.CPUCollector.collectCPUInfoFromProc: what it makes of the     *)
(* lines of /proc/cpuinfo that it read.  A line is its trimmed key and     *)
(* value; lines with other keys, or without a colon, change nothing.  The  *)
(* fields are those of CPUCollector once the lines are scanned: a line     *)
(* overwrites what an earlier line with its key left.                      *)
(***************************************************************************)
EXTENDS Naturals, Sequences, FiniteSets

Keys == {"processor", "model name", "cpu id", "core id", "cpu cores"}
Line == [key : Keys, value : Nat]

At(lines, key) == {i \in DOMAIN lines : lines[i].key = key}
Values(lines, key) == {lines[i].value : i \in At(lines, key)}

\* The value that stays, 0 (or "") when no line has the key.
LastValue(lines, key) ==
  IF At(lines, key) = {} THEN 0
  ELSE lines[CHOOSE i \in At(lines, key) : \A j \in At(lines, key) : j <= i].value

Highest(numbers) == CHOOSE n \in numbers : \A k \in numbers : k <= n

hasCPUCores(lines) == At(lines, "cpu cores") # {}
physicalCores(lines) == LastValue(lines, "cpu cores")
coreIDSet(lines) == Values(lines, "cpu id")

\* Mutant: the highest number instead of the count.
logicalCores_Highest(lines) ==
  IF At(lines, "processor") = {} THEN 0 ELSE Highest(Values(lines, "processor"))

logicalCores(lines) ==
  IF At(lines, "processor") = {} THEN 0 ELSE Highest(Values(lines, "processor")) + 1

finalCores(lines) ==
  IF hasCPUCores(lines) THEN physicalCores(lines)
  ELSE IF coreIDSet(lines) # {} THEN Cardinality(coreIDSet(lines))
  ELSE logicalCores(lines)

\* The series of cpu_info: one, of the processor that came last.
Series(lines) ==
  IF At(lines, "processor") = {} THEN {}
  ELSE {[cpu   |-> LastValue(lines, "processor"),
         model |-> LastValue(lines, "model name"),
         cores |-> finalCores(lines)]}

\* What Linux prints: as many cores as there are processors at most, at least 1
\* if it says so, and at most one number of any other kind for a processor.
KernelFormat(lines) ==
  /\ \A cores \in Values(lines, "cpu cores") :
       cores \in 1 .. Cardinality(Values(lines, "processor"))
  /\ Cardinality(coreIDSet(lines)) <= Cardinality(Values(lines, "processor"))
==============================================================================
