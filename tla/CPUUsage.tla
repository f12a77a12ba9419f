------------------------------ MODULE CPUUsage ------------------------------
(***************************************************************************)
(* collectCPUFromProc: the usage gauges computed from /proc/stat.  The     *)
(* kernel renders the whole file when it is first read; the collector      *)
(* takes the lines one by one and keeps, for each label, the times it saw  *)
(* last.  CPUs may go offline and come back, the file may fail to open,    *)
(* and a read error may end a scan after any line.  The nine gauges of a   *)
(* CPU are set one by one, and a scrape may see them at any time.  A       *)
(* percentage is kept as a share: a time, and the interval it is part of.  *)
(***************************************************************************)
EXTENDS Integers

CONSTANTS
  CPUs,               \* how many CPUs the host has
  Counting,           \* bound: the modes in which time passes
  MaxTime             \* bound on the kernel's counters

\* The fields of CPUTimes, one per column of a line.
Modes == {"user", "nice", "system", "idle", "iowait", "irq", "softirq", "steal"}

ASSUME UsageAssumption == CPUs \in Nat /\ Counting \subseteq Modes /\ MaxTime \in Nat

\* In the order of the lines: 0 for "total", then cpu0, cpu1, ...
Summary == 0
Labels == Summary .. CPUs

VARIABLES
  kernel,             \* the kernel's counters
  online,             \* labels that /proc/stat has a line for
  snap,               \* the times the open file shows
  scan,               \* labels whose lines are still to be taken from it
  line,               \* the label whose gauges are being set, or NoLine
  todo,               \* the modes whose gauges are still to be set for it
  lastCPUTimes,       \* the field of CPUCollector: a map by label
  UsageModePercent,   \* the gauges by label and mode
  UsagePercent,       \* the gauges by label
  account             \* history: first and latest times read, time published

gauges == <<UsageModePercent, UsagePercent>>
vars == <<kernel, online, snap, scan, line, todo, lastCPUTimes, gauges, account>>

NoTime == [m \in Modes |-> 0]
NoLine == -1

\* Go's maps: the empty one, and m[k] = v.
NoMap == [k \in {} |-> NoTime]
Put(map, k, v) == [j \in DOMAIN map \cup {k} |-> IF j = k THEN v ELSE map[j]]

Init ==
  /\ kernel = [l \in Labels |-> NoTime]
  /\ online = Labels
  /\ snap = kernel /\ scan = {}
  /\ line = NoLine /\ todo = {}
  /\ lastCPUTimes = NoMap /\ account = NoMap
  /\ UsageModePercent = NoMap /\ UsagePercent = NoMap

------------------------------------------------------------------------------
(* The kernel.  What it does during a scan shows in the next one.           *)

Tick(l, m) ==
  /\ scan = {} /\ l \in online /\ kernel[l][m] < MaxTime
  /\ kernel' = [kernel EXCEPT ![l][m] = @ + 1]
  /\ UNCHANGED <<online, snap, scan, line, todo, lastCPUTimes, gauges, account>>

Hotplug(l) ==
  /\ scan = {} /\ l # Summary
  /\ online' = IF l \in online THEN online \ {l} ELSE online \cup {l}
  /\ UNCHANGED <<kernel, snap, scan, line, todo, lastCPUTimes, gauges, account>>

------------------------------------------------------------------------------
(* The collector.  A failed open changes nothing.                           *)

Open ==
  /\ scan = {}
  /\ scan' = online
  /\ snap' = kernel
  /\ UNCHANGED <<kernel, online, line, todo, lastCPUTimes, gauges, account>>

Plus(a, b) == [m \in Modes |-> a[m] + b[m]]
Minus(a, b) == [m \in Modes |-> a[m] - b[m]]

Total(t) ==
  t["user"] + t["nice"] + t["system"] + t["idle"]
    + t["iowait"] + t["irq"] + t["softirq"] + t["steal"]

DeltaTotal(times, last) == Total(times) - Total(last)

Idling_Zero(total) == total < 0                 \* mutant: divides by zero
Idling(total) == total <= 0

\* Mutant: only the first reading is kept.
Baseline_Kept(l, times) ==
  IF l \in DOMAIN lastCPUTimes THEN lastCPUTimes ELSE Put(lastCPUTimes, l, times)
Baseline(l, times) == Put(lastCPUTimes, l, times)

\* The next line is that of l.
NextLine(l) == line = NoLine /\ l \in scan /\ \A k \in scan : l <= k

\* Done with the line of l: its times are what the next ones are compared with.
EndLine(l) ==
  /\ scan' = scan \ {l}
  /\ lastCPUTimes' = Baseline(l, snap[l])
  /\ UNCHANGED <<kernel, online, snap>>

\* The first line with this label: there is nothing to compare it with.
FirstLine(l) ==
  /\ NextLine(l) /\ l \notin DOMAIN lastCPUTimes
  /\ EndLine(l)
  /\ account' = Put(account, l, [first |-> snap[l], latest |-> snap[l], published |-> NoTime])
  /\ UNCHANGED <<line, todo, gauges>>

\* No time has passed since: the gauges keep their values.
SkipLine(l) ==
  /\ NextLine(l) /\ l \in DOMAIN lastCPUTimes
  /\ Idling(DeltaTotal(snap[l], lastCPUTimes[l]))
  /\ EndLine(l)
  /\ account' = [account EXCEPT ![l].latest = snap[l]]
  /\ UNCHANGED <<line, todo, gauges>>

BeginLine(l) ==
  /\ NextLine(l) /\ l \in DOMAIN lastCPUTimes
  /\ ~Idling(DeltaTotal(snap[l], lastCPUTimes[l]))
  /\ line' = l /\ todo' = Modes
  /\ UNCHANGED <<kernel, online, snap, scan, lastCPUTimes, gauges, account>>

delta == Minus(snap[line], lastCPUTimes[line])
deltaTotal == DeltaTotal(snap[line], lastCPUTimes[line])

Share(time) == [part |-> time, of |-> deltaTotal]

\* Mutant: a mode without a delta is left out.
ModeShare_NonZero(m) ==
  IF delta[m] = 0 /\ <<line, m>> \in DOMAIN UsageModePercent
    THEN UsageModePercent[<<line, m>>] ELSE Share(delta[m])
ModeShare(m) == Share(delta[m])

\* One round of the range over modeMetrics, a map: in any order.
SetMode(m) ==
  /\ line # NoLine /\ m \in todo
  /\ todo' = todo \ {m}
  /\ UsageModePercent' = Put(UsageModePercent, <<line, m>>, ModeShare(m))
  /\ UNCHANGED <<kernel, online, snap, scan, line, lastCPUTimes, UsagePercent, account>>

Shown(l) == [m \in Modes |-> UsageModePercent[<<l, m>>].part]

\* The last gauge; the baseline, which is saved next, is the collector's own.
SetUsage ==
  /\ line # NoLine /\ todo = {}
  /\ UsagePercent' = Put(UsagePercent, line, Share(deltaTotal - delta["idle"]))
  /\ account' = [account EXCEPT ![line].latest = snap[line],
                                ![line].published = Plus(@, Shown(line))]
  /\ line' = NoLine
  /\ EndLine(line)
  /\ UNCHANGED <<todo, UsageModePercent>>

\* scanner.Err(): what is left of the file is lost.
ScanFails ==
  /\ scan # {} /\ line = NoLine
  /\ scan' = {}
  /\ UNCHANGED <<kernel, online, snap, line, todo, lastCPUTimes, gauges, account>>

Next ==
  \/ \E l \in Labels :
       \/ \E m \in Counting : Tick(l, m)
       \/ Hotplug(l) \/ FirstLine(l) \/ SkipLine(l) \/ BeginLine(l)
  \/ \E m \in Modes : SetMode(m)
  \/ SetUsage \/ Open \/ ScanFails

Spec == Init /\ [][Next]_vars

------------------------------------------------------------------------------
Times == [Modes -> 0 .. MaxTime]
Shares == [part : Nat, of : Nat \ {0}]

TypeOK ==
  /\ kernel \in [Labels -> Times] /\ snap \in [Labels -> Times]
  /\ online \subseteq Labels /\ scan \subseteq Labels
  /\ line \in {NoLine} \cup scan /\ todo \subseteq Modes
  /\ DOMAIN lastCPUTimes \subseteq Labels
  /\ \A l \in DOMAIN lastCPUTimes : lastCPUTimes[l] \in Times
  /\ DOMAIN account = DOMAIN lastCPUTimes
  /\ \A l \in DOMAIN account :
       account[l] \in [first : Times, latest : Times, published : Times]
  /\ DOMAIN UsagePercent \subseteq DOMAIN account
  /\ \A l \in DOMAIN UsagePercent : UsagePercent[l] \in Shares
  /\ DOMAIN UsageModePercent \subseteq (DOMAIN account) \X Modes
  /\ \A k \in DOMAIN UsageModePercent : UsageModePercent[k] \in Shares

\* The gauges of one CPU, when none of them is being set.
AddUp(l) ==
  IF l \in DOMAIN UsagePercent
  THEN /\ \A m \in Modes :
            /\ <<l, m>> \in DOMAIN UsageModePercent
            /\ UsageModePercent[<<l, m>>].of = UsagePercent[l].of
            /\ Shown(l)[m] \in 0 .. UsagePercent[l].of
       /\ Total(Shown(l)) = UsagePercent[l].of
       /\ UsagePercent[l].part + Shown(l)["idle"] = UsagePercent[l].of
  ELSE \A m \in Modes : <<l, m>> \notin DOMAIN UsageModePercent

(* Whoever scrapes finds for every CPU, but the one whose gauges are being  *)
(* set, the shares of one interval: all eight modes or none, each between 0 *)
(* and 100%, together 100%, and the usage is what the idle share leaves.    *)
SharesAddUp == \A l \in Labels \ {line} : AddUp(l)

(* Every tick between the first and the latest reading of a CPU has been   *)
(* published in exactly one interval, whatever scans failed in between and *)
(* however often the CPU was offline.                                      *)
EveryTickOnce ==
  \A l \in DOMAIN account :
    account[l].published = Minus(account[l].latest, account[l].first)
==============================================================================
