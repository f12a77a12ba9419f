------------------------- MODULE CPUCollector_proofs -------------------------
(* What holds of CPUCollector for every content of /proc/cpuinfo, every     *)
(* sampled range and every coefficient.                                     *)
EXTENDS CPUCollector, LoadAverage_proofs, FiniteSetTheorems, TLAPS

Cells == [load : [Fields -> 0 .. Hi], initialized : BOOLEAN]

(* The averages lie in the sampled range once they mean something, and so   *)
(* do those that Collect took.                                              *)
InRange(l) == \A k \in Fields : l[k] \in Lo .. Hi

Averages ==
  /\ taken \in [{"collector"} -> Cells]
  /\ IF initialized THEN InRange(load) ELSE load = Zero /\ ~taken["collector"].initialized
  /\ IF taken["collector"].initialized
     THEN InRange(taken["collector"].load)
     ELSE taken["collector"].load = Zero

(* While the gauges are being set, those before kpos are already the taken  *)
(* averages.                                                                *)
Setting ==
  pc = "setting" =>
    /\ taken["collector"].initialized
    /\ \A k \in Fields : k < kpos => gauge[k] = taken["collector"].load[k]

(* How many parts can have failed before each control point.                *)
Counting ==
  /\ pc \in {"usage", "load"} => counted = 0
  /\ pc \in {"setting", "modes"} => counted \in 0 .. 1
  /\ pc = "info" => counted \in 0 .. 2

(* Nothing is published about the processors until the mark is set.         *)
Info == ~infoInitialized => infoSeries = {}

IInv == TypeOK /\ Averages /\ LoadGaugesTogether /\ Setting /\ Counting /\ Info

------------------------------------------------------------------------------
(* A finite set of naturals that is not empty has a greatest element.       *)
HasGreatest(S) == \E n \in S : \A k \in S : k <= n

LEMMA FiniteHasGreatest ==
  ASSUME NEW T \in SUBSET Nat, IsFiniteSet(T), T # {}
  PROVE  HasGreatest(T)
<1> DEFINE R == StrictSubsetOrdering(Nat)
           Bad == {S \in FiniteSubsetsOf(Nat) : S # {} /\ ~HasGreatest(S)}
<1> SUFFICES ASSUME Bad # {} PROVE FALSE
  BY DEF FiniteSubsetsOf
<1>1. PICK S \in Bad : \A U \in Bad : <<U, S>> \notin R
  <2>1. IsWellFoundedOn(R, FiniteSubsetsOf(Nat))
    BY FS_StrictSubsetOrderingWellFounded
  <2> HIDE DEF R
  <2> QED
    BY <2>1, WFMin
<1>2. S \in SUBSET Nat /\ IsFiniteSet(S) /\ S # {} /\ ~HasGreatest(S)
  BY DEF FiniteSubsetsOf
<1>3. PICK x \in S : TRUE
  BY <1>2
<1> DEFINE U == S \ {x}
<1>4. IsFiniteSet(U) /\ U \in FiniteSubsetsOf(Nat) /\ <<U, S>> \in R
  BY <1>2, <1>3, FS_RemoveElement DEF FiniteSubsetsOf, StrictSubsetOrdering
<1>5. U \notin Bad
  BY <1>1, <1>4
<1>6. CASE U = {}
  BY <1>2, <1>3, <1>6 DEF HasGreatest
<1>7. CASE U # {}
  <2>1. PICK m \in U : \A k \in U : k <= m
    BY <1>4, <1>5, <1>7 DEF HasGreatest
  <2>2. m \in Nat /\ x \in Nat /\ \A k \in S : k \in Nat /\ (k \in U \/ k = x)
    BY <1>2, <1>3
  <2>3. CASE m <= x
    BY <1>2, <2>1, <2>2, <2>3 DEF HasGreatest
  <2>4. CASE x < m
    BY <1>2, <2>1, <2>2, <2>4 DEF HasGreatest
  <2> QED
    BY <2>2, <2>3, <2>4
<1> QED
  BY <1>6, <1>7

LEMMA HighestType ==
  ASSUME NEW T \in SUBSET Nat, IsFiniteSet(T), T # {}
  PROVE  Highest(T) \in T
<1>1. HasGreatest(T)
  BY FiniteHasGreatest
<1> QED
  BY <1>1 DEF HasGreatest, Highest

LEMMA LinesFinite ==
  ASSUME NEW lines \in Seq(Line), NEW key
  PROVE  /\ At(lines, key) \subseteq 1 .. Len(lines)
         /\ IsFiniteSet(At(lines, key))
         /\ \A i \in At(lines, key) : lines[i].value \in Nat
         /\ Values(lines, key) \subseteq Nat
         /\ IsFiniteSet(Values(lines, key))
<1>1. At(lines, key) \in SUBSET Nat /\ \A i \in At(lines, key) : i <= Len(lines) /\ i \in 1 .. Len(lines)
  BY DEF At
<1>2. Len(lines) \in Nat
  OBVIOUS
<1>3. IsFiniteSet(At(lines, key))
  BY <1>1, <1>2, FS_BoundedSetOfNaturals
<1>4. \A i \in At(lines, key) : lines[i].value \in Nat
  <2>1. \A i \in 1 .. Len(lines) : lines[i] \in Line
    OBVIOUS
  <2>2. \A l \in Line : l.value \in Nat
    BY DEF Line
  <2> QED
    BY <1>1, <2>1, <2>2
<1>5. IsFiniteSet(Values(lines, key))
  <2> DEFINE A == At(lines, key)
             V == Values(lines, key)
             f == [i \in A |-> lines[i].value]
  <2>1. f \in Surjection(A, V)
    BY DEF Surjection, Values
  <2> HIDE DEF f, A, V
  <2>2. IsFiniteSet(A)
    BY <1>3 DEF A
  <2>3. IsFiniteSet(V)
    BY <2>1, <2>2, FS_Surjection
  <2> QED
    BY <2>3 DEF V
<1> QED
  BY <1>1, <1>3, <1>4, <1>5 DEF Values

LEMMA LastValueType ==
  ASSUME NEW lines \in Seq(Line), NEW key
  PROVE  LastValue(lines, key) \in Nat
<1> DEFINE A == At(lines, key)
<1>1. CASE A = {}
  BY <1>1 DEF LastValue
<1>2. CASE A # {}
  <2>1. A \in SUBSET Nat /\ IsFiniteSet(A)
    BY LinesFinite
  <2>2. \E i \in A : \A j \in A : j <= i
    BY <1>2, <2>1, FiniteHasGreatest DEF HasGreatest
  <2>3. (CHOOSE i \in A : \A j \in A : j <= i) \in A
    BY <2>2
  <2>4. \A i \in A : lines[i].value \in Nat
    BY LinesFinite
  <2> QED
    BY <1>2, <2>3, <2>4 DEF LastValue
<1> QED
  BY <1>1, <1>2

(* Whatever the lines, what comes of them are numbers.                      *)
Published(S) == S \subseteq [cpu : Nat, model : Nat, cores : Nat]

LEMMA SeriesPublished ==
  ASSUME NEW lines \in Seq(Line)
  PROVE  Published(Series(lines))
<1>1. LastValue(lines, "processor") \in Nat /\ LastValue(lines, "model name") \in Nat
  BY LastValueType
<1>2. physicalCores(lines) \in Nat
  BY LastValueType DEF physicalCores
<1>3. Cardinality(coreIDSet(lines)) \in Nat
  BY LinesFinite, FS_CardinalityType DEF coreIDSet
<1>4. logicalCores(lines) \in Nat
  <2>1. CASE At(lines, "processor") = {}
    BY <2>1 DEF logicalCores
  <2>2. CASE At(lines, "processor") # {}
    <3> DEFINE V == Values(lines, "processor")
    <3>1. V \in SUBSET Nat /\ IsFiniteSet(V)
      BY LinesFinite
    <3>2. V # {}
      BY <2>2 DEF Values
    <3>3. Highest(V) \in Nat
      BY <3>1, <3>2, HighestType
    <3> QED
      BY <2>2, <3>3 DEF logicalCores
  <2> QED
    BY <2>1, <2>2
<1>5. finalCores(lines) \in Nat
  BY <1>2, <1>3, <1>4 DEF finalCores
<1>6. CASE At(lines, "processor") = {}
  BY <1>6 DEF Series, Published
<1>7. CASE At(lines, "processor") # {}
  <2> DEFINE s == [cpu   |-> LastValue(lines, "processor"),
                   model |-> LastValue(lines, "model name"),
                   cores |-> finalCores(lines)]
  <2>1. s \in [cpu : Nat, model : Nat, cores : Nat]
    BY <1>1, <1>5
  <2>2. Series(lines) = {s}
    BY <1>7 DEF Series
  <2> HIDE DEF s
  <2> QED
    BY <2>1, <2>2 DEF Published
<1> QED
  BY <1>6, <1>7

LEMMA ScannedPublished ==
  ASSUME cpuinfo \in Files, NEW n \in 0 .. Len(cpuinfo)
  PROVE  Published(Series(SubSeq(cpuinfo, 1, n)))
<1>1. cpuinfo \in Seq(Line)
  BY FilesAssumption
<1>2. SubSeq(cpuinfo, 1, n) \in Seq(Line)
  BY <1>1
<1> QED
  BY <1>2, SeriesPublished
------------------------------------------------------------------------------
LEMMA ZeroType == Zero \in [Fields -> 0 .. Hi]
BY LoadAssumption DEF Zero

(* The operators that the cell instantiates are those of CPUCollector.      *)
LEMMA SameCell ==
  /\ Cell!Zero = Zero /\ Cell!Fields = Fields
  /\ \A k, init, old, v : Cell!AfterSample(k, init, old, v) = AfterSample(k, init, old, v)
<1>1. Cell!Fields = Fields
  BY DEF Cell!Fields, Fields
<1>2. Cell!Zero = Zero
  BY <1>1 DEF Cell!Zero, Zero
<1>3. \A k, init, old, v : Cell!AfterSample(k, init, old, v) = AfterSample(k, init, old, v)
  BY DEF Cell!AfterSample, AfterSample, Cell!Decay, Decay
<1> QED
  BY <1>1, <1>2, <1>3

LEMMA InitIInv == Init => IInv
<1> SUFFICES ASSUME Init PROVE IInv
  OBVIOUS
<1> USE DEF Init, Cell!Init
<1>1. TypeOK
  <2>1. load \in [Fields -> 0 .. Hi] /\ gauge \in [Fields -> 0 .. Hi]
    BY ZeroType, SameCell
  <2>2. kpos \in Fields /\ counted \in 0 .. 3
    BY DEF Fields
  <2> QED
    BY <2>1, <2>2 DEF TypeOK
<1>2. Averages
  BY ZeroType, SameCell DEF Averages, Cells
<1>3. LoadGaugesTogether /\ Setting
  BY DEF LoadGaugesTogether, Setting
<1>4. Counting
  BY DEF Counting
<1>5. Info
  BY DEF Info
<1> QED
  BY <1>1, <1>2, <1>3, <1>4, <1>5 DEF IInv

LEMMA SamplePreserves == IInv /\ Sample => IInv'
<1> SUFFICES ASSUME IInv, Sample PROVE IInv'
  OBVIOUS
<1> USE DEF IInv, Sample, cvars, gvars, ivars
<1> PICK v \in Samples : Cell!Publish(v)
  OBVIOUS
<1>1. \A k \in Fields : AfterSample(k, initialized, load[k], v) \in Lo .. Hi
  BY SampleInRange DEF Averages, InRange
<1>2. load' = [k \in Fields |-> AfterSample(k, initialized, load[k], v)] /\ initialized' = TRUE
  BY SameCell DEF Cell!Publish
<1>3. InRange(load') /\ load' \in [Fields -> 0 .. Hi]
  BY <1>1, <1>2, LoadAssumption DEF InRange
<1>4. taken' = taken
  BY DEF Cell!Publish
<1>5. TypeOK'
  BY <1>2, <1>3 DEF TypeOK
<1>6. Averages'
  BY <1>2, <1>3, <1>4 DEF Averages
<1>7. LoadGaugesTogether' /\ Setting'
  BY <1>4 DEF LoadGaugesTogether, Setting
<1>8. Counting' /\ Info'
  BY DEF Counting, Info
<1> QED
  BY <1>5, <1>6, <1>7, <1>8

(* What a step does not touch keeps its part of the invariant.              *)
LEMMA AveragesStay ==
  ASSUME Averages, UNCHANGED <<load, initialized, taken>> PROVE Averages'
BY DEF Averages, InRange

LEMMA GaugesStay ==
  ASSUME LoadGaugesTogether, pc # "setting", pc' # "setting", UNCHANGED <<taken, gauge>>
  PROVE  LoadGaugesTogether' /\ Setting'
BY DEF LoadGaugesTogether, Setting

LEMMA InfoStays ==
  ASSUME Info, UNCHANGED <<infoInitialized, infoSeries>> PROVE Info'
BY DEF Info

LEMMA NextIInv == IInv /\ [Next]_vars => IInv'
<1> SUFFICES ASSUME IInv, [Next]_vars PROVE IInv'
  OBVIOUS
<1> USE DEF IInv, lvars, cvars, gvars, ivars
<1>1. CASE InitFails
  <2> USE <1>1 DEF InitFails, Goto
  <2>1. TypeOK'
    BY DEF TypeOK
  <2>2. Counting'
    BY DEF Counting
  <2> QED
    BY <2>1, <2>2, AveragesStay, GaugesStay, InfoStays
<1>2. ASSUME NEW started \in BOOLEAN, InitReturns(started) PROVE IInv'
  <2> USE <1>2 DEF InitReturns, Goto
  <2>1. TypeOK'
    BY DEF TypeOK
  <2>2. Counting'
    BY DEF Counting
  <2> QED
    BY <2>1, <2>2, AveragesStay, GaugesStay, InfoStays
<1>3. CASE Sample
  BY <1>3, SamplePreserves
<1>4. CASE Close
  <2> USE <1>4 DEF Close
  <2>1. TypeOK'
    BY DEF TypeOK
  <2>2. Counting' /\ LoadGaugesTogether' /\ Setting'
    BY DEF Counting, LoadGaugesTogether, Setting
  <2> QED
    BY <2>1, <2>2, AveragesStay, InfoStays
<1>5. CASE Begin
  <2> USE <1>5 DEF Begin, Goto
  <2>1. TypeOK'
    BY DEF TypeOK
  <2>2. Counting'
    BY DEF Counting
  <2> QED
    BY <2>1, <2>2, AveragesStay, GaugesStay, InfoStays
<1>6. CASE UsageRatio
  <2> USE <1>6 DEF UsageRatio, Goto
  <2>1. TypeOK'
    BY DEF TypeOK
  <2>2. Counting'
    BY DEF Counting
  <2> QED
    BY <2>1, <2>2, AveragesStay, GaugesStay, InfoStays
<1>7. CASE UsageRatioFails
  <2> USE <1>7 DEF UsageRatioFails, Goto
  <2>1. TypeOK'
    BY DEF TypeOK, Counting, Fail
  <2>2. Counting'
    BY DEF Counting, Fail
  <2> QED
    BY <2>1, <2>2, AveragesStay, GaugesStay, InfoStays
<1>8. CASE LoadDisabled
  <2> USE <1>8 DEF LoadDisabled, Goto
  <2>1. TypeOK'
    BY DEF TypeOK, Counting, Fail
  <2>2. Counting'
    BY DEF Counting, Fail
  <2> QED
    BY <2>1, <2>2, AveragesStay, GaugesStay, InfoStays
<1>9. CASE GetLoads
  <2> USE <1>9 DEF GetLoads, Goto, UseLoads
  <2>1. taken' = [taken EXCEPT !["collector"] = [load |-> load, initialized |-> initialized]]
        /\ UNCHANGED <<load, initialized>>
    BY DEF Cell!Get
  <2>2. taken' \in [{"collector"} -> Cells] /\ taken'["collector"].load = load
        /\ taken'["collector"].initialized = initialized
    BY <2>1 DEF Averages, Cells, TypeOK
  <2>3. TypeOK'
    BY <2>1 DEF TypeOK, Fields
  <2>4. Averages'
    BY <2>1, <2>2 DEF Averages, InRange, TypeOK
  <2>5. Setting'
    BY <2>2 DEF Setting, Fields
  <2>6. LoadGaugesTogether'
    <3>1. CASE initialized
      BY <3>1 DEF LoadGaugesTogether
    <3>2. CASE ~initialized
      <4>1. gauge = Zero
        BY <3>2 DEF LoadGaugesTogether, Averages
      <4> QED
        BY <3>2, <4>1, <2>2 DEF LoadGaugesTogether
    <3> QED
      BY <3>1, <3>2
  <2>7. Counting'
    BY DEF Counting
  <2> QED
    BY <2>3, <2>4, <2>5, <2>6, <2>7, InfoStays
<1>10. CASE SetLoadGauge
  <2> USE <1>10 DEF SetLoadGauge, Goto, LastGauge, GaugeValue
  <2> DEFINE got == taken["collector"].load
  <2>1. got \in [Fields -> 0 .. Hi] /\ InRange(got) /\ taken["collector"].initialized
    BY DEF Averages, Cells, Setting
  <2>2. kpos \in Fields /\ gauge \in [Fields -> 0 .. Hi]
    BY DEF TypeOK
  <2>3. gauge' = [gauge EXCEPT ![kpos] = got[kpos]] /\ gauge' \in [Fields -> 0 .. Hi]
    BY <2>1, <2>2
  <2>4. \A k \in Fields : k <= kpos => gauge'[k] = got[k]
    BY <2>2, <2>3 DEF Setting, Fields
  <2>5. CASE kpos = 3
    <3>0. \A k \in Fields : gauge'[k] = got[k]
      BY <2>4, <2>5 DEF Fields
    <3>1. gauge' = got
      <4> HIDE <1>10 DEF got
      <4> QED
        BY <2>1, <2>3, <3>0
    <3>2. TypeOK'
      BY <2>3, <2>5 DEF TypeOK, Fields
    <3>3. LoadGaugesTogether' /\ Setting'
      BY <2>1, <2>5, <3>1 DEF LoadGaugesTogether, Setting, InRange
    <3>4. Counting'
      BY <2>5 DEF Counting
    <3> QED
      BY <3>2, <3>3, <3>4, AveragesStay, InfoStays
  <2>6. CASE kpos # 3
    <3>1. TypeOK'
      BY <2>2, <2>3, <2>6 DEF TypeOK, Fields
    <3>2. LoadGaugesTogether' /\ Setting'
      BY <2>1, <2>2, <2>4, <2>6 DEF LoadGaugesTogether, Setting, Fields
    <3>3. Counting'
      BY <2>6 DEF Counting
    <3> QED
      BY <3>1, <3>2, <3>3, AveragesStay, InfoStays
  <2> QED
    BY <2>5, <2>6
<1>11. ASSUME NEW ok \in BOOLEAN, UsageModes(ok) PROVE IInv'
  <2> USE <1>11 DEF UsageModes, Goto
  <2>1. CASE ok
    <3>1. TypeOK'
      BY <2>1 DEF TypeOK
    <3>2. Counting'
      BY <2>1 DEF Counting
    <3> QED
      BY <3>1, <3>2, AveragesStay, GaugesStay, InfoStays
  <2>2. CASE ~ok
    <3>1. TypeOK'
      BY <2>2 DEF TypeOK, Counting, Fail
    <3>2. Counting'
      BY <2>2 DEF Counting, Fail
    <3> QED
      BY <3>1, <3>2, AveragesStay, GaugesStay, InfoStays
  <2> QED
    BY <2>1, <2>2
<1>12. CASE InfoKnown
  <2> USE <1>12 DEF InfoKnown, Collected, Goto
  <2>1. TypeOK'
    BY DEF TypeOK
  <2>2. Counting'
    BY DEF Counting
  <2> QED
    BY <2>1, <2>2, AveragesStay, GaugesStay, InfoStays
<1>13. CASE InfoOpenFails
  <2> USE <1>13 DEF InfoOpenFails, Collected, Goto
  <2>1. TypeOK'
    BY DEF TypeOK, Counting, Fail
  <2>2. Counting'
    BY DEF Counting
  <2> QED
    BY <2>1, <2>2, AveragesStay, GaugesStay, InfoStays
<1>14. ASSUME NEW n \in 0 .. Len(cpuinfo), NEW ok \in BOOLEAN, InfoScanned(n, ok) PROVE IInv'
  <2> USE <1>14 DEF Collected, Goto
  <2> DEFINE S == Series(SubSeq(cpuinfo, 1, n))
  <2>1. Published(S)
    BY ScannedPublished DEF TypeOK
  <2>2. infoSeries' = S /\ infoInitialized' = TRUE /\ infoComplete' = ok
    BY DEF InfoScanned, Info
  <2>3. /\ pc = "info" /\ pc' = "idle" /\ result' = "nil"
        /\ IF ok THEN counted' = counted ELSE Fail
        /\ UNCHANGED <<load, initialized, calculator, sampling, taken, kpos, gauge, cpuinfo, closed>>
    BY DEF InfoScanned
  <2> HIDE <1>14 DEF S
  <2>4. Info'
    BY <2>1, <2>2 DEF Info, Published
  <2>5. Counting' /\ counted' \in 0 .. 3
    BY <2>3 DEF Counting, TypeOK, Fail
  <2>6. TypeOK'
    BY <1>14, <2>1, <2>2, <2>3, <2>5 DEF TypeOK, Published
  <2> QED
    BY <2>3, <2>4, <2>5, <2>6, AveragesStay, GaugesStay
<1>15. CASE UNCHANGED vars
  <2> USE <1>15 DEF vars
  <2>1. TypeOK' /\ Counting'
    BY DEF TypeOK, Counting
  <2>2. LoadGaugesTogether' /\ Setting'
    BY DEF LoadGaugesTogether, Setting
  <2> QED
    BY <2>1, <2>2, AveragesStay, InfoStays
<1> QED
  BY <1>1, <1>2, <1>3, <1>4, <1>5, <1>6, <1>7, <1>8, <1>9, <1>10, <1>11, <1>12, <1>13,
     <1>14, <1>15 DEF Next, CollectSteps, Terminated

LEMMA Invariant == Spec => []IInv
BY InitIInv, NextIInv, PTL DEF Spec

------------------------------------------------------------------------------
(* Every variable of CPUCollector keeps its type.                           *)
THEOREM Typed == Spec => []TypeOK
BY Invariant, PTL DEF IInv

(* Outside the three assignments of Collect, the load gauges are the         *)
(* averages of one moment, none of them from before the first sample.       *)
THEOREM GaugesTogether == Spec => []LoadGaugesTogether
BY Invariant, PTL DEF IInv

------------------------------------------------------------------------------
(* Distinct processors have distinct numbers, so that the highest of them   *)
(* bounds how many there are.                                               *)
LEMMA HighestBoundsCount ==
  ASSUME NEW T \in SUBSET Nat, IsFiniteSet(T), T # {}
  PROVE  Cardinality(T) \in 1 .. Highest(T) + 1
<1>1. Highest(T) \in Nat /\ \A k \in T : k <= Highest(T)
  <2>1. HasGreatest(T)
    BY FiniteHasGreatest
  <2> QED
    BY <2>1, HighestType DEF HasGreatest, Highest
<1>2. T \subseteq 0 .. Highest(T)
  BY <1>1
<1>3. IsFiniteSet(0 .. Highest(T)) /\ Cardinality(0 .. Highest(T)) = Highest(T) + 1
  BY <1>1, FS_Interval
<1>4. Cardinality(T) <= Highest(T) + 1
  BY <1>2, <1>3, FS_Subset
<1>5. Cardinality(T) \in Nat /\ Cardinality(T) # 0
  BY FS_CardinalityType, FS_EmptySet
<1> QED
  BY <1>1, <1>4, <1>5

LEMMA LastValueIsValue ==
  ASSUME NEW lines \in Seq(Line), NEW key, At(lines, key) # {}
  PROVE  LastValue(lines, key) \in Values(lines, key)
<1> DEFINE A == At(lines, key)
<1>1. A \in SUBSET Nat /\ IsFiniteSet(A)
  BY LinesFinite
<1>2. HasGreatest(A)
  BY <1>1, FiniteHasGreatest
<1>3. (CHOOSE i \in A : \A j \in A : j <= i) \in A
  BY <1>2 DEF HasGreatest
<1> QED
  BY <1>3 DEF LastValue, Values

(* Whichever of its three sources the count of cores comes from, a file in  *)
(* the kernel's format that names a processor gives a plausible one.        *)
LEMMA FinalCoresPlausible ==
  ASSUME NEW lines \in Seq(Line), KernelFormat(lines), At(lines, "processor") # {}
  PROVE  finalCores(lines) \in 1 .. Highest(Values(lines, "processor")) + 1
<1> DEFINE P == Values(lines, "processor")
<1>1. P \in SUBSET Nat /\ IsFiniteSet(P) /\ P # {}
  BY LinesFinite DEF Values
<1>2. Highest(P) \in Nat /\ Cardinality(P) \in 1 .. Highest(P) + 1
  BY <1>1, HighestType, HighestBoundsCount
<1>3. CASE hasCPUCores(lines)
  <2>1. physicalCores(lines) \in Values(lines, "cpu cores")
    BY <1>3, LastValueIsValue DEF hasCPUCores, physicalCores
  <2>2. physicalCores(lines) \in 1 .. Cardinality(P)
    BY <2>1 DEF KernelFormat
  <2> QED
    BY <1>2, <1>3, <2>2 DEF finalCores
<1>4. CASE ~hasCPUCores(lines) /\ coreIDSet(lines) # {}
  <2>1. coreIDSet(lines) \in SUBSET Nat /\ IsFiniteSet(coreIDSet(lines))
    BY LinesFinite DEF coreIDSet
  <2>2. Cardinality(coreIDSet(lines)) \in Nat /\ Cardinality(coreIDSet(lines)) # 0
    BY <1>4, <2>1, FS_CardinalityType, FS_EmptySet
  <2>3. Cardinality(coreIDSet(lines)) <= Cardinality(P)
    BY DEF KernelFormat
  <2> QED
    BY <1>2, <1>4, <2>2, <2>3 DEF finalCores
<1>5. CASE ~hasCPUCores(lines) /\ coreIDSet(lines) = {}
  BY <1>2, <1>5 DEF finalCores, logicalCores
<1> QED
  BY <1>3, <1>4, <1>5

(* Once the file was read to its end, what is published is what it gives.   *)
Whole == infoComplete => infoInitialized /\ infoSeries = Series(cpuinfo)

LEMMA WholeKept == IInv /\ Whole /\ [Next]_vars => Whole'
<1> SUFFICES ASSUME IInv, Whole, [Next]_vars PROVE Whole'
  OBVIOUS
<1>1. ASSUME NEW n \in 0 .. Len(cpuinfo), NEW ok \in BOOLEAN, InfoScanned(n, ok) PROVE Whole'
  <2>1. infoSeries' = Series(SubSeq(cpuinfo, 1, n)) /\ infoInitialized' /\ infoComplete' = ok
    BY <1>1 DEF IInv, Info, InfoScanned
  <2>2. cpuinfo' = cpuinfo /\ (ok => n = Len(cpuinfo))
    BY <1>1 DEF InfoScanned
  <2>3. cpuinfo \in Seq(Line)
    BY FilesAssumption DEF IInv, TypeOK
  <2>4. SubSeq(cpuinfo, 1, Len(cpuinfo)) = cpuinfo
    BY <2>3
  <2> QED
    BY <2>1, <2>2, <2>4 DEF Whole
<1>2. ASSUME UNCHANGED ivars PROVE Whole'
  BY <1>2 DEF Whole, ivars
<1>3. UNCHANGED ivars \/ (\E n \in 0 .. Len(cpuinfo), ok \in BOOLEAN : InfoScanned(n, ok))
  BY DEF Next, CollectSteps, InitFails, InitReturns, Sample, Close, Begin, UsageRatio,
         UsageRatioFails, LoadDisabled, GetLoads, SetLoadGauge, UsageModes, InfoKnown,
         InfoOpenFails, Terminated, vars, ivars
<1> QED
  BY <1>1, <1>2, <1>3

(* From files in the kernel's format the number of cores that is published  *)
(* is at least 1 and at most the highest processor number plus 1, although  *)
(* processors may be offline and keys missing.                              *)
THEOREM CoresInRange ==
  ASSUME \A lines \in Files : KernelFormat(lines)
  PROVE  Spec => []CoresPlausible
<1>1. Init => Whole
  BY DEF Init, Whole
<1>2. IInv /\ Whole => CoresPlausible
  <2> SUFFICES ASSUME IInv, Whole, infoComplete, NEW s \in infoSeries
               PROVE  s.cores \in 1 .. Highest(Values(cpuinfo, "processor")) + 1
    BY DEF CoresPlausible
  <2>1. cpuinfo \in Seq(Line) /\ KernelFormat(cpuinfo)
    BY FilesAssumption DEF IInv, TypeOK
  <2>2. At(cpuinfo, "processor") # {} /\ s.cores = finalCores(cpuinfo)
    <3>1. s \in Series(cpuinfo)
      BY DEF Whole
    <3>2. At(cpuinfo, "processor") # {}
      BY <3>1 DEF Series
    <3>3. s = [cpu   |-> LastValue(cpuinfo, "processor"),
               model |-> LastValue(cpuinfo, "model name"),
               cores |-> finalCores(cpuinfo)]
      BY <3>1, <3>2, Zenon DEF Series
    <3> QED
      BY <3>2, <3>3
  <2> QED
    BY <2>1, <2>2, FinalCoresPlausible
<1> QED
  BY <1>1, <1>2, WholeKept, Invariant, PTL DEF Spec

(* The collector and its sampler touch the averages as LoadCell lets them,  *)
(* which is what LoadCalculator implements for its readers.                 *)
THEOREM UsesCell == Spec => Cell!Spec
<1>1. Init => Cell!Init
  BY DEF Init
<1>2. [Next]_vars => [Cell!Next]_<<load, initialized, taken>>
  <2> SUFFICES ASSUME [Next]_vars PROVE [Cell!Next]_<<load, initialized, taken>>
    OBVIOUS
  <2> USE DEF lvars, gvars
  <2>1. CASE Sample
    BY <2>1 DEF Sample, Cell!Next
  <2>2. CASE GetLoads
    BY <2>2 DEF GetLoads, Cell!Next
  <2>3. ASSUME ~Sample, ~GetLoads PROVE UNCHANGED <<load, initialized, taken>>
    BY <2>3 DEF Next, CollectSteps, Terminated, InitFails, InitReturns, Close, Begin, UsageRatio,
                UsageRatioFails, LoadDisabled, SetLoadGauge, UsageModes, InfoKnown, InfoOpenFails,
                InfoScanned, vars
  <2> QED
    BY <2>1, <2>2, <2>3
<1> QED
  BY <1>1, <1>2, PTL DEF Spec, Cell!Spec
==============================================================================
