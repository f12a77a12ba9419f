---------------------------- MODULE CPUCollector ----------------------------
(***************************************************************************)
(* collector.CPUCollector: the four parts of a collection (usage ratio,    *)
(* load, usage by mode, static info), what each does when it fails, and    *)
(* Init and Close.  The load comes from a LoadCell, the abstraction that   *)
(* LoadCalculator implements; what the third part computes is CPUUsage,    *)
(* and what the fourth one does is CPUInfo.  A collection may overlap      *)
(* Close: the agent does not wait for its loop.                            *)
(***************************************************************************)
EXTENDS LoadAverage, CPUInfo

CONSTANT Files      \* what /proc/cpuinfo may look like, as sequences of lines

ASSUME FilesAssumption == Files \subseteq Seq(Line)

VARIABLES
  load, initialized,  \* the averages of the LoadCalculator
  calculator,         \* loadCalculator is not nil
  sampling,           \* the goroutine of StartLoad runs
  pc,                 \* control point of the caller of Init and Collect
  taken,              \* what the last GetLoads returned, by reader
  kpos,               \* the load gauge to set next
  gauge,              \* the gauges cpu_load1, cpu_load5, cpu_load15
  cpuinfo,            \* the lines of /proc/cpuinfo
  infoInitialized,    \* cpuInfoInitialized
  infoSeries,         \* the series of cpu_info
  infoComplete,       \* history: /proc/cpuinfo was read to its end
  counted,            \* agent_collect_errors_total since Collect began
  result,             \* what Collect returned: "nil" or "error"
  closed              \* Close was called

lvars == <<load, initialized>>
cvars == <<calculator, sampling>>
gvars == <<taken, kpos, gauge>>
ivars == <<cpuinfo, infoInitialized, infoSeries, infoComplete>>
vars  == <<lvars, cvars, pc, gvars, ivars, counted, result, closed>>

Cell == INSTANCE LoadCell WITH Readers <- {"collector"}, ret <- taken

\* NewCPUCollector: an invalid LoadSampleCycle only costs the calculator.
Init ==
  /\ Cell!Init
  /\ calculator \in BOOLEAN /\ sampling = FALSE
  /\ pc = "new"
  /\ kpos = 1 /\ gauge = Zero
  /\ cpuinfo \in Files
  /\ infoInitialized = FALSE /\ infoSeries = {} /\ infoComplete = FALSE
  /\ counted = 0
  /\ result = "nil" /\ closed = FALSE

Goto(from, to) == pc = from /\ pc' = to

------------------------------------------------------------------------------
\* Init: no CPU count is an error; a sampler that cannot start is given up.
InitFails ==
  /\ Goto("new", "failed")
  /\ UNCHANGED <<lvars, cvars, gvars, ivars, counted, result, closed>>

InitReturns(started) ==
  /\ Goto("new", "idle")
  /\ calculator' = (calculator /\ started)
  /\ sampling' = calculator'
  /\ UNCHANGED <<lvars, gvars, ivars, counted, result, closed>>

\* The sampling goroutine, as far as a reader can tell.
Sample ==
  /\ sampling
  /\ \E v \in Samples : Cell!Publish(v)
  /\ UNCHANGED <<cvars, pc, kpos, gauge, ivars, counted, result, closed>>

\* stopLoadSample is nil for ever: nothing assigns it.
Close ==
  /\ pc \notin {"new", "failed"}
  /\ closed' = TRUE
  /\ UNCHANGED <<lvars, cvars, pc, gvars, ivars, counted, result>>

------------------------------------------------------------------------------
(* Collect.                                                                 *)

\* metrics.ErrorCount: each part that fails counts.
Fail == counted' = counted + 1

Begin ==
  /\ Goto("idle", "usage")
  /\ counted' = 0
  /\ UNCHANGED <<lvars, cvars, gvars, ivars, result, closed>>

UsageRatio ==
  /\ Goto("usage", "load")
  /\ UNCHANGED <<lvars, cvars, gvars, ivars, counted, result, closed>>

\* Only this failure ends the collection, before anything else is collected.
UsageRatioFails ==
  /\ Goto("usage", "idle")
  /\ Fail
  /\ result' = "error"
  /\ UNCHANGED <<lvars, cvars, gvars, ivars, closed>>

LoadDisabled ==
  /\ Goto("load", "modes")
  /\ ~calculator
  /\ Fail
  /\ UNCHANGED <<lvars, cvars, gvars, ivars, result, closed>>

UseLoads == initialized

\* GetLoads; before the first sample the gauges are left alone.
GetLoads ==
  /\ Goto("load", IF UseLoads THEN "setting" ELSE "modes")
  /\ calculator
  /\ Cell!Get("collector")
  /\ kpos' = 1
  /\ UNCHANGED <<cvars, gauge, ivars, counted, result, closed>>

GaugeValue_Fresh == load[kpos]                               \* mutant: reads the fields again
GaugeValue == taken["collector"].load[kpos]

LastGauge_OffByOne == kpos > 3                               \* mutant
LastGauge == kpos = 3

SetLoadGauge ==
  /\ Goto("setting", IF LastGauge THEN "modes" ELSE "setting")
  /\ gauge' = [gauge EXCEPT ![kpos] = GaugeValue]
  /\ kpos' = IF LastGauge THEN 1 ELSE kpos + 1
  /\ UNCHANGED <<lvars, cvars, taken, ivars, counted, result, closed>>

\* collectCPUFromProc: its error is counted, and the collection goes on.
UsageModes(ok) ==
  /\ Goto("modes", "info")
  /\ IF ok THEN counted' = counted ELSE Fail
  /\ UNCHANGED <<lvars, cvars, gvars, ivars, result, closed>>

Collected == Goto("info", "idle") /\ result' = "nil"

\* collectCPUInfoFromProc.
InfoKnown ==
  /\ Collected
  /\ infoInitialized
  /\ UNCHANGED <<lvars, cvars, gvars, ivars, counted, closed>>

InfoOpenFails ==
  /\ Collected
  /\ ~infoInitialized
  /\ Fail
  /\ UNCHANGED <<lvars, cvars, gvars, ivars, closed>>

\* The scanner stops after n lines, at the end of the file unless it failed.  The
\* mark is set, and the series published, before its error is looked at.
InfoScanned(n, ok) ==
  /\ Collected
  /\ ~infoInitialized
  /\ ok => n = Len(cpuinfo)
  /\ infoSeries' = infoSeries \cup Series(SubSeq(cpuinfo, 1, n))
  /\ infoInitialized' = TRUE
  /\ infoComplete' = ok
  /\ IF ok THEN counted' = counted ELSE Fail
  /\ UNCHANGED <<lvars, cvars, gvars, cpuinfo, closed>>

CollectSteps ==
  \/ UsageRatio \/ UsageRatioFails \/ LoadDisabled \/ GetLoads \/ SetLoadGauge
  \/ (\E ok \in BOOLEAN : UsageModes(ok))
  \/ InfoKnown \/ InfoOpenFails
  \/ (\E n \in 0 .. Len(cpuinfo), ok \in BOOLEAN : InfoScanned(n, ok))

Terminated == pc = "failed" /\ UNCHANGED vars

Next ==
  \/ InitFails \/ (\E started \in BOOLEAN : InitReturns(started))
  \/ Sample \/ Close \/ Begin \/ CollectSteps \/ Terminated

Spec == Init /\ [][Next]_vars

------------------------------------------------------------------------------
TypeOK ==
  /\ load \in [Fields -> 0 .. Hi] /\ gauge \in [Fields -> 0 .. Hi]
  /\ initialized \in BOOLEAN /\ calculator \in BOOLEAN /\ sampling \in BOOLEAN
  /\ pc \in {"new", "failed", "idle", "usage", "load", "setting", "modes", "info"}
  /\ kpos \in Fields
  /\ cpuinfo \in Files
  /\ infoInitialized \in BOOLEAN /\ infoComplete \in BOOLEAN
  /\ infoSeries \subseteq [cpu : Nat, model : Nat, cores : Nat]
  /\ counted \in 0 .. 3 /\ result \in {"nil", "error"} /\ closed \in BOOLEAN

(* The three load gauges always come from one and the same moment, except  *)
(* while Collect is setting them, and never from before the first sample.  *)
LoadGaugesTogether ==
  pc # "setting" =>
    \/ gauge = Zero /\ ~taken["collector"].initialized
    \/ gauge = taken["collector"].load /\ \A k \in Fields : gauge[k] \in Lo .. Hi

(* A core count that comes from a file read to its end is at least 1 and    *)
(* at most the highest processor number plus 1, whatever keys the           *)
(* architecture prints and whatever processors are offline.                 *)
CoresPlausible ==
  infoComplete =>
    \A s \in infoSeries : s.cores \in 1 .. Highest(Values(cpuinfo, "processor")) + 1

(* collectCPUInfoFromProc: "saves the info of each logical CPU; with several *)
(* cores it loops over the processors".  Once the whole file was read each   *)
(* of its processors has its series.                                         *)
EachCPUHasInfo ==
  infoComplete => {s.cpu : s \in infoSeries} = Values(cpuinfo, "processor")
==============================================================================
