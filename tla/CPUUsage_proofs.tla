--------------------------- MODULE CPUUsage_proofs ---------------------------
(* What holds of CPUUsage for every number of CPUs, whatever the modes that *)
(* time passes in, and however far the counters go.                         *)
EXTENDS CPUUsage, TLAPS

(* The baselines are the latest times read, and time only moves forward     *)
(* from them to the open file and to the kernel.                            *)
Forward ==
  /\ \A l \in DOMAIN lastCPUTimes :
       /\ account[l].latest = lastCPUTimes[l]
       /\ \A m \in Modes : lastCPUTimes[l][m] <= snap[l][m]
  /\ \A l \in Labels, m \in Modes : snap[l][m] <= kernel[l][m]

(* The gauges of the line being published: those that are set are those of  *)
(* its interval, which is not empty.                                        *)
Setting ==
  line # NoLine =>
    /\ line \in DOMAIN lastCPUTimes /\ deltaTotal > 0
    /\ \A m \in Modes \ todo :
         /\ <<line, m>> \in DOMAIN UsageModePercent
         /\ UsageModePercent[<<line, m>>] = Share(delta[m])

IInv == TypeOK /\ Forward /\ Setting /\ SharesAddUp /\ EveryTickOnce

------------------------------------------------------------------------------
(* What an interval between two readings amounts to.                        *)
LEMMA Interval ==
  ASSUME NEW a \in Times, NEW b \in Times, \A m \in Modes : a[m] <= b[m]
  PROVE  /\ Minus(b, a) \in Times
         /\ DeltaTotal(b, a) \in Nat
         /\ Total(Minus(b, a)) = DeltaTotal(b, a)
         /\ DeltaTotal(b, a) - Minus(b, a)["idle"] \in Nat
         /\ \A m \in Modes : Minus(b, a)[m] \in 0 .. DeltaTotal(b, a)
         /\ DeltaTotal(b, a) <= 0 => b = a
<1> USE UsageAssumption
<1>1. \A m \in Modes : a[m] \in Nat /\ b[m] \in Nat /\ b[m] - a[m] \in 0 .. MaxTime
  BY DEF Times
<1>2. Minus(b, a) \in Times
  BY <1>1 DEF Minus, Times
<1>3. \A m \in Modes : Minus(b, a)[m] = b[m] - a[m]
  BY DEF Minus
<1> DEFINE d(m) == b[m] - a[m]
<1>4. /\ d("user") \in Nat /\ d("nice") \in Nat /\ d("system") \in Nat /\ d("idle") \in Nat
      /\ d("iowait") \in Nat /\ d("irq") \in Nat /\ d("softirq") \in Nat /\ d("steal") \in Nat
  BY <1>1 DEF Modes
<1>5. DeltaTotal(b, a) = d("user") + d("nice") + d("system") + d("idle")
                          + d("iowait") + d("irq") + d("softirq") + d("steal")
  BY <1>1 DEF DeltaTotal, Total, Modes
<1>6. Total(Minus(b, a)) = DeltaTotal(b, a) /\ Minus(b, a)["idle"] = d("idle")
  BY <1>3, <1>5 DEF Total, Modes
<1>7. DeltaTotal(b, a) \in Nat /\ DeltaTotal(b, a) - d("idle") \in Nat
  BY <1>4, <1>5
<1>8. ASSUME DeltaTotal(b, a) <= 0 PROVE b = a
  <2>1. /\ d("user") = 0 /\ d("nice") = 0 /\ d("system") = 0 /\ d("idle") = 0
        /\ d("iowait") = 0 /\ d("irq") = 0 /\ d("softirq") = 0 /\ d("steal") = 0
    <3> HIDE DEF d
    <3> QED BY <1>4, <1>5, <1>8
  <2>2. \A m \in Modes : d(m) = 0
    <3> HIDE DEF d
    <3> QED BY <2>1 DEF Modes
  <2>3. \A m \in Modes : b[m] = a[m]
    BY <1>1, <2>2
  <2> QED
    BY <2>3 DEF Times
<1>9. ASSUME NEW m \in Modes PROVE Minus(b, a)[m] \in 0 .. DeltaTotal(b, a)
  <2>1. d(m) \in 0 .. DeltaTotal(b, a)
    <3> HIDE DEF d
    <3> QED BY <1>4, <1>5 DEF Modes
  <2> QED
    BY <1>3, <2>1
<1> QED
  BY <1>2, <1>6, <1>7, <1>8, <1>9

LEMMA InitIInv == Init => IInv
<1> SUFFICES ASSUME Init PROVE IInv
  OBVIOUS
<1> USE UsageAssumption DEF Init
<1>1. NoTime \in Times
  BY DEF NoTime, Times
<1>2. TypeOK
  BY <1>1 DEF TypeOK, NoMap
<1>3. Forward
  BY <1>1 DEF Forward, NoTime, NoMap
<1> QED
  BY <1>2, <1>3 DEF IInv, Setting, SharesAddUp, AddUp, EveryTickOnce, NoMap

(* The end of a line moves the baseline of its label, and nothing else.     *)
Moved(l) ==
  /\ snap[l] \in Times /\ scan' \subseteq Labels
  /\ kernel' = kernel /\ online' = online /\ snap' = snap
  /\ DOMAIN lastCPUTimes' = DOMAIN lastCPUTimes \cup {l}
  /\ lastCPUTimes'[l] = snap[l]
  /\ \A k \in DOMAIN lastCPUTimes : k # l => lastCPUTimes'[k] = lastCPUTimes[k]
  /\ DOMAIN lastCPUTimes' \subseteq Labels
  /\ \A k \in DOMAIN lastCPUTimes' : lastCPUTimes'[k] \in Times
  /\ \A k \in DOMAIN lastCPUTimes', m \in Modes : lastCPUTimes'[k][m] <= snap'[k][m]

LEMMA LineBaseline ==
  ASSUME TypeOK, Forward, NEW l \in Labels, EndLine(l)
  PROVE  Moved(l)
<1>1. /\ snap[l] \in Times /\ scan' \subseteq Labels /\ UNCHANGED <<kernel, online, snap>>
      /\ lastCPUTimes' = Put(lastCPUTimes, l, snap[l])
  BY DEF TypeOK, EndLine, Baseline
<1>2. /\ DOMAIN lastCPUTimes' = DOMAIN lastCPUTimes \cup {l}
      /\ lastCPUTimes'[l] = snap[l]
      /\ \A k \in DOMAIN lastCPUTimes : k # l => lastCPUTimes'[k] = lastCPUTimes[k]
  BY <1>1 DEF Put
<1>3. /\ DOMAIN lastCPUTimes' \subseteq Labels
      /\ \A k \in DOMAIN lastCPUTimes' : lastCPUTimes'[k] \in Times
  BY <1>1, <1>2 DEF TypeOK
<1>4. \A m \in Modes : snap[l][m] <= snap[l][m]
  BY <1>1, UsageAssumption DEF Times
<1>5. \A k \in DOMAIN lastCPUTimes', m \in Modes : lastCPUTimes'[k][m] <= snap'[k][m]
  BY <1>1, <1>2, <1>4 DEF Forward
<1> QED
  BY <1>1, <1>2, <1>3, <1>5 DEF Moved

(* Outside the lines that are published nobody touches the gauges.          *)
LEMMA GaugesKept ==
  ASSUME SharesAddUp, line = NoLine, UNCHANGED <<line, gauges>>
  PROVE  Setting' /\ SharesAddUp'
BY DEF Setting, SharesAddUp, AddUp, Shown, gauges

LEMMA NotALabel == NoLine \notin Labels
BY UsageAssumption DEF NoLine, Labels, Summary

LEMMA NextIInv == IInv /\ [Next]_vars => IInv'
<1> SUFFICES ASSUME IInv, [Next]_vars PROVE IInv'
  OBVIOUS
<1> USE UsageAssumption DEF IInv
<1>0. scan = {} => line = NoLine
  BY DEF TypeOK
<1>1. ASSUME NEW l \in Labels, NEW m \in Counting, Tick(l, m) PROVE IInv'
  <2>1. m \in Modes /\ kernel[l] \in Times /\ kernel[l][m] + 1 \in 0 .. MaxTime
    BY <1>1 DEF TypeOK, Tick, Times
  <2> DEFINE t == [kernel[l] EXCEPT ![m] = @ + 1]
  <2>2. t \in Times /\ \A n \in Modes : kernel[l][n] <= t[n]
    BY <2>1 DEF Times
  <2>3. kernel' = [kernel EXCEPT ![l] = t]
    BY <1>1 DEF Tick
  <2>4. TypeOK'
    <3> HIDE DEF t
    <3> QED BY <1>1, <2>2, <2>3 DEF TypeOK, Tick, gauges
  <2>5. \A k \in Labels, n \in Modes : kernel[k][n] <= kernel'[k][n]
    <3> HIDE DEF t
    <3>1. ASSUME NEW k \in Labels, NEW n \in Modes PROVE kernel[k][n] <= kernel[k][n]
      BY DEF TypeOK, Times
    <3> QED BY <2>2, <2>3, <3>1 DEF TypeOK
  <2>6. \A k \in Labels, n \in Modes :
          snap[k][n] \in Nat /\ kernel[k][n] \in Nat /\ kernel'[k][n] \in Nat
    BY <2>4 DEF TypeOK, Times
  <2>7. Forward'
    BY <1>1, <2>5, <2>6 DEF Forward, Tick
  <2>8. Setting' /\ SharesAddUp'
    BY <1>0, <1>1, GaugesKept DEF Tick
  <2> QED
    BY <1>1, <2>4, <2>7, <2>8 DEF Tick, EveryTickOnce
<1>2. ASSUME NEW l \in Labels, Hotplug(l) PROVE IInv'
  <2>1. Setting' /\ SharesAddUp'
    BY <1>0, <1>2, GaugesKept DEF Hotplug
  <2> QED
    BY <1>2, <2>1 DEF Hotplug, TypeOK, Forward, EveryTickOnce, gauges
<1>3. ASSUME NEW l \in Labels, FirstLine(l) PROVE IInv'
  <2>1. EndLine(l) /\ line = NoLine /\ UNCHANGED <<line, todo, gauges>>
    BY <1>3 DEF FirstLine, NextLine
  <2>m. Moved(l)
    BY <2>1, LineBaseline
  <2> DEFINE entry == [first |-> snap[l], latest |-> snap[l], published |-> NoTime]
  <2>2. account' = Put(account, l, entry) /\ l \notin DOMAIN account
    BY <1>3 DEF FirstLine, TypeOK
  <2>3. /\ DOMAIN account' = DOMAIN account \cup {l}
        /\ account'[l] = entry
        /\ \A k \in DOMAIN account : account'[k] = account[k]
    BY <2>2 DEF Put
  <2>4. NoTime \in Times
    BY DEF NoTime, Times
  <2>5. snap[l] \in Times
    BY DEF TypeOK
  <2>6. TypeOK'
    BY <2>1, <2>2, <2>3, <2>4, <2>5, <2>m DEF Moved, TypeOK, gauges
  <2>7. Forward'
    BY <2>2, <2>3, <2>m DEF Moved, TypeOK, Forward
  <2>8. NoTime = Minus(snap[l], snap[l])
    BY <2>5 DEF NoTime, Minus, Times
  <2>9. EveryTickOnce'
    BY <2>3, <2>8 DEF EveryTickOnce
  <2> QED
    BY <2>1, <2>6, <2>7, <2>9, GaugesKept
<1>4. ASSUME NEW l \in Labels, SkipLine(l) PROVE IInv'
  <2>1. /\ EndLine(l) /\ l \in DOMAIN lastCPUTimes /\ l \in DOMAIN account
        /\ line = NoLine /\ UNCHANGED <<line, todo, gauges>>
    BY <1>4 DEF SkipLine, NextLine, TypeOK
  <2>m. Moved(l)
    BY <2>1, LineBaseline
  <2>2. /\ snap[l] \in Times /\ lastCPUTimes[l] \in Times
        /\ account[l].latest = lastCPUTimes[l]
        /\ \A m \in Modes : lastCPUTimes[l][m] <= snap[l][m]
    BY <2>1 DEF TypeOK, Forward
  <2>3. DeltaTotal(snap[l], lastCPUTimes[l]) <= 0
    BY <1>4 DEF SkipLine, Idling
  <2>4. snap[l] = account[l].latest
    BY <2>2, <2>3, Interval
  <2>5. /\ DOMAIN account' = DOMAIN account
        /\ \A k \in DOMAIN account : account'[k] = account[k]
    <3>1. account' = [account EXCEPT ![l] = [account[l] EXCEPT !.latest = snap[l]]]
      BY <1>4 DEF SkipLine
    <3>2. account[l] \in [first : Times, latest : Times, published : Times]
      BY <2>1 DEF TypeOK
    <3>3. [account[l] EXCEPT !.latest = snap[l]] = account[l]
      BY <2>4, <3>2
    <3> QED BY <2>1, <3>1, <3>3
  <2>6. TypeOK'
    BY <2>1, <2>5, <2>m DEF Moved, TypeOK, gauges
  <2>7. Forward'
    BY <2>1, <2>4, <2>5, <2>m DEF Moved, TypeOK, Forward
  <2> QED
    BY <2>1, <2>5, <2>6, <2>7, GaugesKept DEF EveryTickOnce
<1>5. ASSUME NEW l \in Labels, BeginLine(l) PROVE IInv'
  <2>1. /\ l \in scan /\ l \in DOMAIN lastCPUTimes /\ line = NoLine
        /\ line' = l /\ todo' = Modes
        /\ UNCHANGED <<kernel, online, snap, scan, lastCPUTimes, account, UsageModePercent, UsagePercent>>
    BY <1>5 DEF BeginLine, NextLine, gauges
  <2>2. deltaTotal' > 0
    <3>1. deltaTotal' = DeltaTotal(snap[l], lastCPUTimes[l])
      BY <2>1 DEF deltaTotal, DeltaTotal, Total
    <3>2. DeltaTotal(snap[l], lastCPUTimes[l]) \in Nat /\ ~(DeltaTotal(snap[l], lastCPUTimes[l]) <= 0)
      <4>1. snap[l] \in Times /\ lastCPUTimes[l] \in Times /\ \A m \in Modes : lastCPUTimes[l][m] <= snap[l][m]
        BY <2>1 DEF TypeOK, Forward
      <4> QED
        BY <1>5, <4>1, Interval DEF BeginLine, Idling
    <3> QED
      BY <3>1, <3>2
  <2>3. TypeOK'
    BY <2>1 DEF TypeOK
  <2>4. Forward' /\ EveryTickOnce'
    BY <2>1 DEF Forward, EveryTickOnce
  <2>5. Setting'
    BY <2>1, <2>2 DEF Setting
  <2>6. SharesAddUp'
    BY <2>1, NotALabel DEF SharesAddUp, AddUp, Shown
  <2> QED
    BY <2>3, <2>4, <2>5, <2>6
<1>6. ASSUME NEW m \in Modes, SetMode(m) PROVE IInv'
  <2>1. /\ line \in Labels /\ line \in DOMAIN lastCPUTimes /\ line # NoLine /\ m \in todo
        /\ todo' = todo \ {m}
        /\ UsageModePercent' = Put(UsageModePercent, <<line, m>>, Share(delta[m]))
        /\ UNCHANGED <<kernel, online, snap, scan, line, lastCPUTimes, UsagePercent, account>>
    BY <1>6 DEF SetMode, ModeShare, TypeOK, Setting
  <2>2. /\ DOMAIN UsageModePercent' = DOMAIN UsageModePercent \cup {<<line, m>>}
        /\ UsageModePercent'[<<line, m>>] = Share(delta[m])
        /\ \A k \in DOMAIN UsageModePercent : k # <<line, m>> => UsageModePercent'[k] = UsageModePercent[k]
    BY <2>1 DEF Put
  <2>3. delta \in Times /\ deltaTotal \in Nat \ {0}
    <3>1. snap[line] \in Times /\ lastCPUTimes[line] \in Times /\ \A n \in Modes : lastCPUTimes[line][n] <= snap[line][n]
      BY <2>1 DEF TypeOK, Forward
    <3>2. delta \in Times /\ deltaTotal \in Nat
      BY <3>1, Interval DEF delta, deltaTotal
    <3> QED
      BY <2>1, <3>2 DEF Setting
  <2>4. Share(delta[m]) \in Shares
    BY <2>3 DEF Share, Shares, Times
  <2>5. TypeOK'
    BY <2>1, <2>2, <2>4 DEF TypeOK
  <2>6. Forward' /\ EveryTickOnce'
    BY <2>1 DEF Forward, EveryTickOnce
  <2>7. delta' = delta /\ deltaTotal' = deltaTotal
    BY <2>1 DEF delta, deltaTotal, Minus, DeltaTotal, Total
  <2>8. Setting'
    <3>1. ASSUME NEW n \in Modes \ todo'
          PROVE  /\ <<line, n>> \in DOMAIN UsageModePercent'
                 /\ UsageModePercent'[<<line, n>>] = Share(delta[n])
      <4>1. CASE n = m
        BY <2>2, <4>1
      <4>2. CASE n # m
        <5>1. <<line, n>> # <<line, m>> /\ n \in Modes \ todo
          BY <2>1, <3>1, <4>2
        <5> QED
          BY <2>1, <2>2, <5>1 DEF Setting
      <4> QED
        BY <4>1, <4>2
    <3> QED
      BY <2>1, <2>7, <3>1 DEF Setting, Share
  <2>9. ASSUME NEW l \in Labels \ {line'} PROVE AddUp(l)'
    <3>1. AddUp(l) /\ l # line
      BY <2>1, <2>9 DEF SharesAddUp
    <3>2. \A n \in Modes : <<l, n>> # <<line, m>>
      BY <3>1
    <3>3. \A n \in Modes : <<l, n>> \in DOMAIN UsageModePercent' <=> <<l, n>> \in DOMAIN UsageModePercent
      BY <2>2, <3>2
    <3>4. CASE l \in DOMAIN UsagePercent
      <4>1. \A n \in Modes : UsageModePercent'[<<l, n>>] = UsageModePercent[<<l, n>>]
        BY <2>2, <3>1, <3>2, <3>4 DEF AddUp
      <4>2. Shown(l)' = Shown(l)
        BY <4>1 DEF Shown
      <4>3. Total(Shown(l))' = Total(Shown(l))
        BY <4>2 DEF Total
      <4> QED
        BY <2>1, <3>1, <3>3, <3>4, <4>1, <4>2, <4>3 DEF AddUp
    <3>5. CASE l \notin DOMAIN UsagePercent
      BY <2>1, <3>1, <3>3, <3>5 DEF AddUp
    <3> QED
      BY <3>4, <3>5
  <2> QED
    BY <2>5, <2>6, <2>8, <2>9 DEF SharesAddUp
<1>7. CASE SetUsage
  <2> PICK l \in Labels : l = line
    BY <1>7 DEF SetUsage, TypeOK
  <2> DEFINE used == deltaTotal - delta["idle"]
             entry == [account[l] EXCEPT !.latest = snap[l], !.published = Plus(@, Shown(l))]
  <2>1. /\ l \in Labels /\ l \in DOMAIN lastCPUTimes /\ l \in DOMAIN account /\ l # NoLine
        /\ todo = {} /\ line' = NoLine /\ EndLine(l)
        /\ UNCHANGED <<todo, UsageModePercent>>
    BY <1>7 DEF SetUsage, TypeOK, Setting
  <2>m. Moved(l)
    BY <2>1, LineBaseline
  <2>2. /\ snap[l] \in Times /\ lastCPUTimes[l] \in Times
        /\ account[l].latest = lastCPUTimes[l]
        /\ \A m \in Modes : lastCPUTimes[l][m] <= snap[l][m]
    BY <2>1 DEF TypeOK, Forward
  <2>3. /\ delta \in Times /\ deltaTotal \in Nat \ {0} /\ Total(delta) = deltaTotal
        /\ deltaTotal - delta["idle"] \in Nat
        /\ \A m \in Modes : delta[m] \in 0 .. deltaTotal
    <3>1. deltaTotal > 0
      BY <2>1 DEF Setting
    <3> QED
      BY <2>2, <3>1, Interval DEF delta, deltaTotal
  <2>4. \A m \in Modes : /\ <<l, m>> \in DOMAIN UsageModePercent
                         /\ UsageModePercent[<<l, m>>] = Share(delta[m])
    BY <2>1 DEF Setting
  <2>5. Shown(l) = delta
    <3>1. ASSUME NEW m \in Modes PROVE Shown(l)[m] = delta[m]
      <4>1. Shown(l)[m] = UsageModePercent[<<l, m>>].part
        BY DEF Shown
      <4>2. Share(delta[m]).part = delta[m]
        BY DEF Share
      <4> QED
        BY <2>4, <4>1, <4>2
    <3> QED
      BY <2>3, <3>1 DEF Shown, Times
  <2>6. UsagePercent' = Put(UsagePercent, l, Share(used)) /\ account' = [account EXCEPT ![l] = entry]
    BY <1>7, <2>1 DEF SetUsage
  <2>7. account[l] \in [first : Times, latest : Times, published : Times]
    BY <2>1 DEF TypeOK
  <2>8. account[l].published = Minus(account[l].latest, account[l].first)
    BY <2>1 DEF EveryTickOnce
  <2>9. Plus(account[l].published, delta) = Minus(snap[l], account[l].first)
    <3>1. \A m \in Modes : /\ account[l].first[m] \in Int /\ account[l].latest[m] \in Int
                           /\ snap[l][m] \in Int
      BY <2>2, <2>7 DEF Times
    <3>2. \A m \in Modes : account[l].published[m] = account[l].latest[m] - account[l].first[m]
      BY <2>8 DEF Minus
    <3>3. \A m \in Modes : delta[m] = snap[l][m] - account[l].latest[m]
      BY <2>2 DEF delta, Minus
    <3> QED BY <3>1, <3>2, <3>3 DEF Plus, Minus
  <2>10. Plus(account[l].published, delta) \in Times
    <3>1. \A m \in Modes : /\ account[l].first[m] \in 0 .. MaxTime /\ snap[l][m] \in 0 .. MaxTime
                           /\ account[l].published[m] \in 0 .. MaxTime
                           /\ delta[m] \in 0 .. MaxTime
      BY <2>2, <2>3, <2>7 DEF Times
    <3>2. \A m \in Modes : account[l].published[m] + delta[m] = snap[l][m] - account[l].first[m]
      BY <2>9 DEF Plus, Minus
    <3>3. \A m \in Modes : account[l].published[m] + delta[m] \in 0 .. MaxTime
      BY <3>1, <3>2
    <3> QED BY <3>3 DEF Plus, Times
  <2>11. /\ entry \in [first : Times, latest : Times, published : Times]
         /\ entry.latest = snap[l] /\ entry.first = account[l].first
         /\ entry.published = Minus(snap[l], account[l].first)
    BY <2>2, <2>5, <2>7, <2>9, <2>10
  <2> HIDE DEF entry
  <2>12. /\ DOMAIN account' = DOMAIN account /\ account'[l] = entry
         /\ \A k \in DOMAIN account : k # l => account'[k] = account[k]
    BY <2>1, <2>6
  <2>13. /\ DOMAIN UsagePercent' = DOMAIN UsagePercent \cup {l}
         /\ UsagePercent'[l] = Share(used)
         /\ \A k \in DOMAIN UsagePercent : k # l => UsagePercent'[k] = UsagePercent[k]
    BY <2>6 DEF Put
  <2>14. Share(used) \in Shares /\ Share(used).of = deltaTotal /\ Share(used).part = used
    BY <2>3 DEF Share, Shares
  <2>15. TypeOK'
    <3>1. /\ kernel' \in [Labels -> Times] /\ snap' \in [Labels -> Times]
          /\ online' \subseteq Labels /\ scan' \subseteq Labels
          /\ line' \in {NoLine} \cup scan' /\ todo' \subseteq Modes
          /\ DOMAIN lastCPUTimes' \subseteq Labels
          /\ \A k \in DOMAIN lastCPUTimes' : lastCPUTimes'[k] \in Times
      BY <2>1, <2>m DEF Moved, TypeOK
    <3>2. /\ DOMAIN account' = DOMAIN lastCPUTimes'
          /\ \A k \in DOMAIN account' :
               account'[k] \in [first : Times, latest : Times, published : Times]
      BY <2>1, <2>11, <2>12, <2>m DEF Moved, TypeOK
    <3>3. /\ DOMAIN UsagePercent' \subseteq DOMAIN account'
          /\ \A k \in DOMAIN UsagePercent' : UsagePercent'[k] \in Shares
      BY <2>1, <2>12, <2>13, <2>14 DEF TypeOK
    <3>4. /\ DOMAIN UsageModePercent' \subseteq (DOMAIN account') \X Modes
          /\ \A k \in DOMAIN UsageModePercent' : UsageModePercent'[k] \in Shares
      BY <2>1, <2>12 DEF TypeOK
    <3> QED BY <3>1, <3>2, <3>3, <3>4 DEF TypeOK
  <2>16. Forward'
    BY <2>1, <2>11, <2>12, <2>m DEF Moved, TypeOK, Forward
  <2>17. Setting'
    BY <2>1 DEF Setting
  <2>18. \A k : Shown(k)' = Shown(k)
    BY <2>1 DEF Shown
  <2>19. \A k : Total(Shown(k))' = Total(Shown(k))
    BY <2>18 DEF Total
  <2>20. AddUp(l)'
    <3>1. /\ l \in DOMAIN UsagePercent' /\ UsagePercent'[l].of = deltaTotal
          /\ UsagePercent'[l].part = used
      BY <2>13, <2>14
    <3>2. \A m \in Modes : /\ <<l, m>> \in DOMAIN UsageModePercent'
                           /\ UsageModePercent'[<<l, m>>].of = deltaTotal
                           /\ Shown(l)[m] \in 0 .. deltaTotal
      <4>1. ASSUME NEW m \in Modes PROVE Share(delta[m]).of = deltaTotal
        BY DEF Share
      <4> QED
        BY <2>1, <2>3, <2>4, <2>5, <4>1
    <3>3. Total(Shown(l)) = deltaTotal
      BY <2>3, <2>5
    <3>4. used + Shown(l)["idle"] = deltaTotal
      <4>1. delta["idle"] \in Int /\ deltaTotal \in Int
        BY <2>3 DEF Times, Modes
      <4> QED BY <2>5, <4>1
    <3>5. Shown(l)' = Shown(l) /\ Total(Shown(l))' = Total(Shown(l))
      BY <2>1 DEF Shown, Total
    <3> QED
      BY <3>1, <3>2, <3>3, <3>4, <3>5 DEF AddUp
  <2>21. ASSUME NEW k \in Labels, k # l PROVE AddUp(k)'
    <3>1. AddUp(k)
      BY <2>21 DEF SharesAddUp
    <3>2. k \in DOMAIN UsagePercent' <=> k \in DOMAIN UsagePercent
      BY <2>13, <2>21
    <3>3. k \in DOMAIN UsagePercent => UsagePercent'[k] = UsagePercent[k]
      BY <2>13, <2>21
    <3> QED
      BY <2>1, <2>18, <2>19, <3>1, <3>2, <3>3 DEF AddUp
  <2>22. SharesAddUp'
    BY <2>20, <2>21 DEF SharesAddUp
  <2>23. EveryTickOnce'
    BY <2>11, <2>12 DEF EveryTickOnce
  <2> QED
    BY <2>15, <2>16, <2>17, <2>22, <2>23
<1>8. CASE Open
  <2>1. \A l \in Labels, m \in Modes : snap[l][m] \in Int /\ kernel[l][m] \in Int
    BY DEF TypeOK, Times
  <2>2. \A l \in DOMAIN lastCPUTimes, m \in Modes : l \in Labels /\ lastCPUTimes[l][m] \in Int
    BY DEF TypeOK, Times
  <2>3. TypeOK'
    BY <1>0, <1>8 DEF Open, TypeOK, gauges
  <2>4. Forward'
    BY <1>8, <2>1, <2>2 DEF Open, Forward
  <2>5. Setting' /\ SharesAddUp'
    BY <1>0, <1>8, GaugesKept DEF Open
  <2> QED
    BY <1>8, <2>3, <2>4, <2>5 DEF Open, EveryTickOnce
<1>9. CASE ScanFails
  <2>1. Setting' /\ SharesAddUp'
    BY <1>9, GaugesKept DEF ScanFails
  <2> QED
    BY <1>9, <2>1 DEF ScanFails, TypeOK, Forward, EveryTickOnce, gauges
<1>10. CASE UNCHANGED vars
  BY <1>10 DEF vars, gauges, TypeOK, Forward, Setting, SharesAddUp, AddUp, Shown, EveryTickOnce,
               delta, deltaTotal, Share
<1> QED
  BY <1>1, <1>2, <1>3, <1>4, <1>5, <1>6, <1>7, <1>8, <1>9, <1>10 DEF Next

LEMMA Invariant == Spec => []IInv
BY InitIInv, NextIInv, PTL DEF Spec

(* The maps keep their types; in particular no interval that was published  *)
(* has the length 0, which the code would divide by.                        *)
THEOREM TypeCorrect == Spec => []TypeOK
<1>1. IInv => TypeOK
  BY DEF IInv
<1> QED
  BY <1>1, Invariant, PTL

(* The shares published for a CPU are percentages and add up to 100%.       *)
THEOREM SharesComplete == Spec => []SharesAddUp
<1>1. IInv => SharesAddUp
  BY DEF IInv
<1> QED
  BY <1>1, Invariant, PTL

(* No tick is lost, and none is published twice.                            *)
THEOREM TicksOnce == Spec => []EveryTickOnce
<1>1. IInv => EveryTickOnce
  BY DEF IInv
<1> QED
  BY <1>1, Invariant, PTL
==============================================================================
