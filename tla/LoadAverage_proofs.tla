------------------------- MODULE LoadAverage_proofs -------------------------
(* What holds of the averages of load_cpu.go for every sampled range, scale *)
(* and coefficient.                                                         *)
EXTENDS LoadAverage, TLAPS

(* An average of values in a range, with weights that add up to one, stays  *)
(* in the range, also when it is rounded down.                              *)
LEMMA DivBounds ==
  ASSUME NEW x \in Int, NEW s \in Nat \ {0}, NEW lo \in Nat, NEW hi \in Nat,
         lo * s <= x, x <= hi * s
  PROVE  x \div s \in lo .. hi
<1> DEFINE q == x \div s
<1>1. q \in Int /\ x = s * q + (x % s) /\ x % s \in 0 .. (s - 1)
  OBVIOUS
<1>2. lo <= q
  <2> SUFFICES ASSUME q + 1 <= lo PROVE FALSE
    BY <1>1
  <2>1. s * (q + 1) <= s * lo
    BY <1>1
  <2> QED
    BY <1>1, <2>1
<1>3. q <= hi
  <2> SUFFICES ASSUME hi + 1 <= q PROVE FALSE
    BY <1>1
  <2>1. s * (hi + 1) <= s * q
    BY <1>1
  <2> QED
    BY <1>1, <2>1
<1> QED
  BY <1>1, <1>2, <1>3

LEMMA DecayBetween ==
  ASSUME NEW k \in Fields, NEW old \in Nat, NEW v \in Nat, NEW lo \in Nat, NEW hi \in Nat,
         old \in lo .. hi, v \in lo .. hi
  PROVE  Decay(k, old, v) \in lo .. hi
<1> DEFINE a == Alpha[k]
           b == Scale - Alpha[k]
<1> USE LoadAssumption
<1>1. a \in Nat /\ b \in Nat /\ a + b = Scale
  OBVIOUS
<1>2. lo * b <= old * b /\ old * b <= hi * b
  BY <1>1
<1>3. lo * a <= v * a /\ v * a <= hi * a
  BY <1>1
<1>4. lo * Scale = lo * a + lo * b /\ hi * Scale = hi * a + hi * b
  BY <1>1
<1> DEFINE x == old * b + v * a
<1>5. x \in Int /\ lo * Scale <= x /\ x <= hi * Scale
  BY <1>1, <1>2, <1>3, <1>4
<1>6. Decay(k, old, v) = x \div Scale
  BY DEF Decay
<1> HIDE DEF x
<1> QED
  BY <1>5, <1>6, DivBounds

LEMMA DecayInRange ==
  ASSUME NEW k \in Fields, NEW old \in Lo .. Hi, NEW v \in Samples
  PROVE  Decay(k, old, v) \in Lo .. Hi
BY LoadAssumption, DecayBetween

(* What a sample leaves in a field lies in the sampled range: the first one  *)
(* whatever the field held, a later one if the field was in the range.       *)
THEOREM SampleInRange ==
  ASSUME NEW k \in Fields, NEW init, NEW old, NEW v \in Samples, init => old \in Lo .. Hi
  PROVE  AfterSample(k, init, old, v) \in Lo .. Hi
<1>1. CASE init
  BY <1>1, DecayInRange DEF AfterSample
<1>2. CASE ~init
  BY <1>2, LoadAssumption DEF AfterSample
<1> QED
  BY <1>1, <1>2

(* A sample draws each average towards itself: the average never passes the *)
(* sample, nor moves away from it, however the product is rounded.          *)
THEOREM NoOvershoot ==
  ASSUME NEW k \in Fields, NEW old \in Nat, NEW v \in Samples
  PROVE  LET new == AfterSample(k, TRUE, old, v)
         IN  (old <= v => new \in old .. v) /\ (v <= old => new \in v .. old)
<1>1. v \in Nat /\ AfterSample(k, TRUE, old, v) = Decay(k, old, v)
  BY LoadAssumption DEF AfterSample
<1>2. old <= v => Decay(k, old, v) \in old .. v
  BY <1>1, DecayBetween
<1>3. v <= old => Decay(k, old, v) \in v .. old
  BY <1>1, DecayBetween
<1> QED
  BY <1>1, <1>2, <1>3
==============================================================================
