------------------------------ MODULE LoadCell ------------------------------
(***************************************************************************)
(* What GetLoads promises: the three averages and the initialized mark are *)
(* one value, that samples replace and readers take whole.                 *)
(***************************************************************************)
EXTENDS LoadAverage

CONSTANT Readers

VARIABLES
  load, initialized,  \* the published averages
  ret                 \* what each reader's last GetLoads returned

Init ==
  /\ load = Zero /\ initialized = FALSE
  /\ ret = [r \in Readers |-> [load |-> Zero, initialized |-> FALSE]]

Publish(v) ==
  /\ load' = [k \in Fields |-> AfterSample(k, initialized, load[k], v)]
  /\ initialized' = TRUE
  /\ UNCHANGED ret

Get(r) ==
  /\ ret' = [ret EXCEPT ![r] = [load |-> load, initialized |-> initialized]]
  /\ UNCHANGED <<load, initialized>>

Next == (\E v \in Samples : Publish(v)) \/ (\E r \in Readers : Get(r))

Spec == Init /\ [][Next]_<<load, initialized, ret>>
==============================================================================
