----------------------------- MODULE LoadAverage -----------------------------
(***************************************************************************)
(* The exponentially weighted averages of load_cpu.go, in fixed point: the *)
(* coefficient alpha is Alpha[k] / Scale, with k = 1, 2, 3 for load1,      *)
(* load5 and load15, and a product is rounded down.                        *)
(***************************************************************************)
EXTENDS Integers

CONSTANTS
  Samples,            \* the values read from /proc/loadavg
  Lo, Hi,             \* their range
  Scale, Alpha

Fields == 1 .. 3

\* 1 - exp(-dt / T) is positive, and a long cycle rounds it to 1.
ASSUME LoadAssumption ==
  /\ Lo \in Nat /\ Hi \in Nat
  /\ Samples \subseteq Lo .. Hi /\ Lo \in Samples
  /\ Scale \in Nat \ {0}
  /\ Alpha \in [Fields -> 1 .. Scale]

Zero == [k \in Fields |-> 0]

Decay_NoComplement(k, old, v) == (old * Scale + v * Alpha[k]) \div Scale   \* mutant
Decay(k, old, v) == (old * (Scale - Alpha[k]) + v * Alpha[k]) \div Scale

AfterSample_NoFirst(k, init, old, v) == Decay(k, old, v)     \* mutant: biased to zero
AfterSample(k, init, old, v) == IF init THEN Decay(k, old, v) ELSE v
==============================================================================
