-------------------------- MODULE CollectorProtocol --------------------------
(***************************************************************************)
(* What the author of a Collector may rely on (registers/interfaces.go):   *)
(* the order and the overlap of the calls Init, Collect and Close that an  *)
(* Agent makes on the collectors registered with it.  Close may overlap a  *)
(* Collect: the Agent does not wait for its collection goroutine.          *)
(***************************************************************************)
EXTENDS Naturals

CONSTANT N            \* collectors that can be registered

Collectors == 1 .. N

VARIABLES
  st,                 \* how far each collector's calls have come
  closed              \* collectors whose Close has been called

cvars == <<st, closed>>

States == {"absent", "new", "ready", "collecting"}

Init ==
  /\ st = [i \in Collectors |-> "absent"]
  /\ closed = {}

Move(i, from, to) ==
  /\ st[i] = from
  /\ st' = [st EXCEPT ![i] = to]
  /\ UNCHANGED closed

\* No collector is registered once another one has been initialised.
Register(i) ==
  /\ \A j \in Collectors : st[j] \in {"absent", "new"}
  /\ Move(i, "absent", "new")

InitCollector(i) == Move(i, "new", "ready")

\* Collections are serial, and none starts before every Init succeeded.
BeginCollect(i) ==
  /\ \A j \in Collectors : st[j] \in {"absent", "ready"}
  /\ Move(i, "ready", "collecting")

EndCollect(i) == Move(i, "collecting", "ready")

Close(i) ==
  /\ st[i] \in {"ready", "collecting"}
  /\ i \notin closed
  /\ closed' = closed \cup {i}
  /\ UNCHANGED st

Next ==
  \E i \in Collectors :
    Register(i) \/ InitCollector(i) \/ BeginCollect(i) \/ EndCollect(i) \/ Close(i)

Spec == Init /\ [][Next]_cvars
==============================================================================
