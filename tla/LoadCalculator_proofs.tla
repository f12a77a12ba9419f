------------------------ MODULE LoadCalculator_proofs ------------------------
(* What holds of LoadCalculator for every set of readers, every sampled     *)
(* range and every coefficient.                                             *)
EXTENDS LoadCalculator, LoadAverage_proofs, TLAPS

(* Writer and readers exclude each other.                                   *)
Exclusion == sampler = "writing" => NoReaderInside

(* The averages lie in the sampled range once they mean something.          *)
InRange ==
  \A k \in Fields :
    initialized \/ (sampler = "writing" /\ k < wpos) => load[k] \in Lo .. Hi

(* What a reader has got so far is what the fields hold now.                *)
Reading ==
  \A r \in Readers :
    /\ phase[r] = "blocked" => rpos[r] = 1
    /\ phase[r] = "reading" =>
         /\ \A k \in Fields : k < rpos[r] => got[r].load[k] = load[k]
         /\ rpos[r] = 5 => got[r].initialized = initialized

IInv == TypeOK /\ Exclusion /\ InRange /\ Reading /\ NoZeroBias

------------------------------------------------------------------------------
LEMMA NothingRead == Nothing \in Snapshots /\ Zero \in [Fields -> 0 .. Hi]
<1>1. Zero \in [Fields -> 0 .. Hi]
  BY LoadAssumption DEF Zero
<1> QED
  BY <1>1 DEF Nothing, Snapshots

LEMMA InitIInv == Init => IInv
<1> SUFFICES ASSUME Init PROVE IInv
  OBVIOUS
<1> USE DEF Init
<1>1. Lo \in Samples /\ initialized \in BOOLEAN
  BY LoadAssumption
<1>2. TypeOK
  BY <1>1, NothingRead DEF TypeOK
<1>3. Exclusion /\ InRange
  BY DEF Exclusion, NoReaderInside, InRange
<1>4. Reading /\ NoZeroBias
  BY DEF Reading, NoZeroBias, Nothing
<1> QED
  BY <1>2, <1>3, <1>4 DEF IInv

LEMMA NextIInv == IInv /\ [Next]_vars => IInv'
<1> SUFFICES ASSUME IInv, [Next]_vars PROVE IInv'
  OBVIOUS
<1> USE DEF IInv, fvars, svars, gvars
<1>1. ASSUME NEW v \in Samples, Sample(v) PROVE IInv'
  <2>1. TypeOK'
    BY <1>1 DEF TypeOK, Sample
  <2>2. Exclusion'
    BY <1>1 DEF TypeOK, Exclusion, NoReaderInside, Sample
  <2>3. InRange'
    BY <1>1 DEF TypeOK, InRange, Sample
  <2>4. Reading'
    BY <1>1 DEF TypeOK, Reading, Exclusion, NoReaderInside, Sample
  <2>5. NoZeroBias'
    BY <1>1 DEF TypeOK, InRange, Reading, NoZeroBias, Sample
  <2> QED
    BY <2>1, <2>2, <2>3, <2>4, <2>5
<1>2. CASE Announce
  <2>1. TypeOK'
    BY <1>2 DEF TypeOK, Announce
  <2>2. Exclusion'
    BY <1>2 DEF TypeOK, Exclusion, NoReaderInside, Announce
  <2>3. InRange'
    BY <1>2 DEF TypeOK, InRange, Announce
  <2>4. Reading'
    BY <1>2 DEF TypeOK, Reading, Exclusion, NoReaderInside, Announce
  <2>5. NoZeroBias'
    BY <1>2 DEF TypeOK, InRange, Reading, NoZeroBias, Announce
  <2> QED
    BY <2>1, <2>2, <2>3, <2>4, <2>5
<1>3. CASE Acquire
  <2>1. TypeOK'
    BY <1>3 DEF TypeOK, Acquire
  <2>2. Exclusion'
    BY <1>3 DEF TypeOK, Exclusion, NoReaderInside, Acquire
  <2>3. InRange'
    BY <1>3 DEF TypeOK, InRange, Fields, Acquire
  <2>4. Reading'
    BY <1>3 DEF TypeOK, Reading, Exclusion, NoReaderInside, Acquire
  <2>5. NoZeroBias'
    BY <1>3 DEF TypeOK, InRange, Reading, NoZeroBias, Acquire
  <2> QED
    BY <2>1, <2>2, <2>3, <2>4, <2>5
<1>4. CASE WriteLoad
  <2>0. wpos \in Fields /\ AfterSample(wpos, initialized, load[wpos], sample) \in Lo .. Hi
    <3>1. wpos \in Fields /\ sample \in Samples /\ sample \in Lo .. Hi
      BY <1>4, LoadAssumption DEF TypeOK, Fields, WriteLoad
    <3>2. initialized => load[wpos] \in Lo .. Hi
      BY <3>1 DEF InRange
    <3> QED
      BY <3>1, <3>2, DecayInRange DEF AfterSample
  <2>1. TypeOK'
    BY <1>4, <2>0, LoadAssumption DEF TypeOK, WriteLoad
  <2>2. Exclusion'
    BY <1>4 DEF TypeOK, Exclusion, NoReaderInside, WriteLoad
  <2>3. InRange'
    BY <1>4, <2>0 DEF TypeOK, InRange, Fields, WriteLoad
  <2>4. Reading'
    BY <1>4 DEF TypeOK, Reading, Exclusion, NoReaderInside, WriteLoad
  <2>5. NoZeroBias'
    BY <1>4 DEF TypeOK, InRange, Reading, NoZeroBias, WriteLoad
  <2> QED
    BY <2>1, <2>2, <2>3, <2>4, <2>5
<1>5. CASE MarkInitialized
  <2>1. TypeOK'
    BY <1>5 DEF TypeOK, MarkInitialized
  <2>2. Exclusion'
    BY <1>5 DEF TypeOK, Exclusion, NoReaderInside, MarkInitialized
  <2>3. InRange'
    BY <1>5 DEF TypeOK, InRange, Fields, MarkInitialized
  <2>4. Reading'
    BY <1>5 DEF TypeOK, Reading, Exclusion, NoReaderInside, MarkInitialized
  <2>5. NoZeroBias'
    BY <1>5 DEF TypeOK, InRange, Reading, NoZeroBias, MarkInitialized
  <2> QED
    BY <2>1, <2>2, <2>3, <2>4, <2>5
<1>6. CASE Unlock
  <2>1. TypeOK'
    BY <1>6 DEF TypeOK, Unlock, Wake
  <2>2. Exclusion'
    BY <1>6 DEF TypeOK, Exclusion, NoReaderInside, Unlock, Wake
  <2>3. InRange'
    BY <1>6 DEF TypeOK, InRange, Unlock, Wake
  <2>4. Reading'
    <3>1. \A r \in Readers : phase'[r] # "blocked"
      BY <1>6 DEF TypeOK, Unlock, Wake
    <3>2. \A r \in Readers : phase'[r] = "reading" => rpos'[r] = 1
      BY <1>6 DEF TypeOK, Exclusion, NoReaderInside, Reading, Unlock, Wake
    <3> QED
      BY <3>1, <3>2 DEF Reading, Fields
  <2>5. NoZeroBias'
    BY <1>6 DEF TypeOK, InRange, Reading, NoZeroBias, Unlock, Wake
  <2> QED
    BY <2>1, <2>2, <2>3, <2>4, <2>5
<1>7. ASSUME NEW r \in Readers, RLock(r) PROVE IInv'
  <2>1. TypeOK'
    BY <1>7, NothingRead DEF TypeOK, RLock
  <2>2. Exclusion'
    BY <1>7 DEF TypeOK, Exclusion, NoReaderInside, RLock, KeepOut
  <2>3. InRange'
    BY <1>7 DEF TypeOK, InRange, RLock, KeepOut
  <2>4. Reading'
    BY <1>7 DEF TypeOK, Reading, Fields, RLock
  <2>5. NoZeroBias'
    BY <1>7 DEF TypeOK, InRange, Reading, NoZeroBias, RLock, KeepOut
  <2> QED
    BY <2>1, <2>2, <2>3, <2>4, <2>5
<1>8. ASSUME NEW r \in Readers, ReadLoad(r) PROVE IInv'
  <2>a. rpos[r] \in Fields /\ got[r] \in Snapshots /\ load[rpos[r]] \in 0 .. Hi
    BY <1>8 DEF TypeOK, Fields, ReadLoad
  <2>b. got' = [got EXCEPT ![r] = [@ EXCEPT !.load = [got[r].load EXCEPT ![rpos[r]] = load[rpos[r]]]]]
    BY <1>8, <2>a DEF TypeOK, Snapshots, ReadLoad
  <2>c. /\ got'[r].load = [got[r].load EXCEPT ![rpos[r]] = load[rpos[r]]]
        /\ \A q \in Readers \ {r} : got'[q] = got[q]
    BY <2>a, <2>b DEF TypeOK, Snapshots
  <2>0. got' \in [Readers -> Snapshots]
    BY <2>a, <2>b DEF TypeOK, Snapshots
  <2>1. TypeOK'
    BY <1>8, <2>0 DEF TypeOK, ReadLoad
  <2>2. Exclusion'
    BY <1>8 DEF TypeOK, Exclusion, NoReaderInside, ReadLoad
  <2>3. InRange'
    BY <1>8 DEF TypeOK, InRange, ReadLoad
  <2>4. Reading'
    BY <1>8, <2>a, <2>c DEF TypeOK, Snapshots, Reading, Fields, ReadLoad
  <2>5. NoZeroBias'
    BY <1>8 DEF TypeOK, InRange, Reading, NoZeroBias, ReadLoad
  <2> QED
    BY <2>1, <2>2, <2>3, <2>4, <2>5
<1>9. ASSUME NEW r \in Readers, ReadInitialized(r) PROVE IInv'
  <2>a. got[r] \in Snapshots /\ initialized \in BOOLEAN
    BY <1>9 DEF TypeOK
  <2>b. got' = [got EXCEPT ![r] = [@ EXCEPT !.initialized = initialized]]
    BY <1>9 DEF ReadInitialized
  <2>c. /\ got'[r].load = got[r].load /\ got'[r].initialized = initialized
        /\ \A q \in Readers \ {r} : got'[q] = got[q]
    BY <2>a, <2>b DEF TypeOK, Snapshots
  <2>0. got' \in [Readers -> Snapshots]
    BY <2>a, <2>b DEF TypeOK, Snapshots
  <2>1. TypeOK'
    BY <1>9, <2>0 DEF TypeOK, ReadInitialized
  <2>2. Exclusion'
    BY <1>9 DEF TypeOK, Exclusion, NoReaderInside, ReadInitialized
  <2>3. InRange'
    BY <1>9 DEF TypeOK, InRange, ReadInitialized
  <2>4. Reading'
    BY <1>9, <2>c DEF TypeOK, Reading, Fields, ReadInitialized
  <2>5. NoZeroBias'
    BY <1>9 DEF TypeOK, InRange, Reading, NoZeroBias, ReadInitialized
  <2> QED
    BY <2>1, <2>2, <2>3, <2>4, <2>5
<1>10. ASSUME NEW r \in Readers, RUnlock(r) PROVE IInv'
  <2>1. TypeOK'
    BY <1>10 DEF TypeOK, RUnlock
  <2>2. Exclusion'
    BY <1>10 DEF TypeOK, Exclusion, NoReaderInside, RUnlock
  <2>3. InRange'
    BY <1>10 DEF TypeOK, InRange, RUnlock
  <2>4. Reading'
    BY <1>10 DEF TypeOK, Reading, Exclusion, NoReaderInside, RUnlock
  <2>5. NoZeroBias'
    <3>1. got[r].initialized => \A k \in Fields : got[r].load[k] \in Lo .. Hi
      BY <1>10 DEF InRange, Reading, Fields, RUnlock
    <3> QED
      BY <1>10, <3>1 DEF TypeOK, NoZeroBias, RUnlock
  <2> QED
    BY <2>1, <2>2, <2>3, <2>4, <2>5
<1>11. CASE UNCHANGED vars
  BY <1>11 DEF vars, TypeOK, Exclusion, NoReaderInside, InRange, Reading, NoZeroBias
<1> QED
  BY <1>1, <1>2, <1>3, <1>4, <1>5, <1>6, <1>7, <1>8, <1>9, <1>10, <1>11 DEF Next, Update, InGet

THEOREM Invariant == Spec => []IInv
BY InitIInv, NextIInv, PTL DEF Spec

(* The variables keep their types; in particular no average leaves 0 .. Hi. *)
THEOREM TypeCorrect == Spec => []TypeOK
BY Invariant, PTL DEF IInv

(* What GetLoads calls initialized lies in the sampled range.               *)
THEOREM LoadsInRange == Spec => []NoZeroBias
BY Invariant, PTL DEF IInv

------------------------------------------------------------------------------
LEMMA SameAverage ==
  ASSUME NEW k, NEW init, NEW old, NEW v
  PROVE  Cell!AfterSample(k, init, old, v) = AfterSample(k, init, old, v)
BY DEF Cell!AfterSample, AfterSample, Cell!Decay, Decay

(* GetLoads is atomic: Lock-to-Unlock publishes, RUnlock takes a snapshot,  *)
(* and every other step is invisible.                                       *)
THEOREM Atomic == Spec => GetLoadsAtomic
<1> USE DEF Cell!Fields, Fields
<1>1. Init => Cell!Init
  BY DEF Init, Nothing, Zero, Published, Cell!Init, Cell!Zero
<1>2. IInv /\ [Next]_vars => [Cell!Next]_<<[k \in Fields |-> Published(k)],
                                           initialized \/ sampler = "writing", ret>>
  <2> SUFFICES ASSUME IInv, [Next]_vars
               PROVE  Cell!Next \/ UNCHANGED <<[k \in Fields |-> Published(k)],
                                               initialized \/ sampler = "writing", ret>>
    OBVIOUS
  <2> DEFINE Same == /\ \A k \in Fields : Published(k)' = Published(k)
                     /\ (initialized \/ sampler = "writing")' = (initialized \/ sampler = "writing")
                     /\ ret' = ret
  <2>0. ASSUME Same
        PROVE UNCHANGED <<[k \in Fields |-> Published(k)],
                          initialized \/ sampler = "writing", ret>>
    BY <2>0
  <2> HIDE DEF Same
  <2> USE DEF IInv, TypeOK, Exclusion, Published, fvars, svars, gvars
  <2>1. ASSUME NEW v \in Samples, Sample(v) PROVE Same
    BY <2>1 DEF Sample, Same
  <2>2. CASE Announce
    <3>1. Same
      BY <2>2 DEF Announce, Same
    <3> QED
      BY <3>1, <2>0
  <2>3. CASE Acquire
    <3>1. PICK v \in Samples : v = sample
      OBVIOUS
    <3>2. Cell!Publish(v)
      BY <2>3, <3>1, SameAverage DEF Acquire, Cell!Publish
    <3> QED
      BY <3>2 DEF Cell!Next
  <2>4. CASE WriteLoad
    BY <2>0, <2>4 DEF WriteLoad, Same
  <2>5. CASE MarkInitialized
    BY <2>0, <2>5 DEF MarkInitialized, Same
  <2>6. CASE Unlock
    BY <2>0, <2>6 DEF Unlock, Same
  <2>7. ASSUME NEW r \in Readers, RLock(r) \/ ReadLoad(r) \/ ReadInitialized(r)
        PROVE  Same
    BY <2>7 DEF RLock, ReadLoad, ReadInitialized, Same
  <2>8. ASSUME NEW r \in Readers, RUnlock(r) PROVE Cell!Get(r)
    <3>1. sampler # "writing" /\ got[r] \in Snapshots
      BY <2>8 DEF RUnlock, NoReaderInside
    <3>2. \A k \in Fields : got[r].load[k] = Published(k)
      BY <2>8, <3>1 DEF RUnlock, Reading
    <3>3. got[r] = [load |-> [k \in Fields |-> Published(k)], initialized |-> initialized]
      BY <2>8, <3>1, <3>2 DEF RUnlock, Reading, Snapshots
    <3>4. (initialized \/ sampler = "writing") = initialized
      BY <3>1
    <3>5. \A k \in Fields : Published(k)' = Published(k)
      BY <2>8 DEF RUnlock
    <3> QED
      BY <2>8, <3>3, <3>4, <3>5 DEF RUnlock, Cell!Get
  <2>9. CASE UNCHANGED vars
    BY <2>0, <2>9 DEF vars, Same
  <2> QED
    BY <2>0, <2>1, <2>2, <2>3, <2>4, <2>5, <2>6, <2>7, <2>8, <2>9
       DEF Next, Update, InGet, Cell!Next
<1> QED
  BY <1>1, <1>2, Invariant, PTL DEF Spec, GetLoadsAtomic, Cell!Spec

==============================================================================
