-------------------------- MODULE AgentLoop_proofs --------------------------
(* What holds of AgentLoop for every number of collectors.                  *)
EXTENDS AgentLoop, TLAPS

(* The loop exists once Start returned, when every collector is ready.      *)
Phases ==
  /\ loop # "none" <=> main \in {"up"} \cup Stopping
  /\ main = "register" => ready = 0
  /\ main = "init" => registered > 0
  /\ loop # "none" => ready = registered /\ registered > 0
  /\ main \notin {"closing", "down"} => closed = 0
  /\ main = "down" => closed = registered

(* The range loop of CollectAll has returned from the collectors before cur. *)
Round ==
  /\ loop \in InRound => cur \in 1 .. registered /\ visited = 1 .. (cur - 1)
  /\ loop \in {"select", "done"} => visited = 1 .. registered

(* A tick waits only in a running ticker, and nobody restarts a stopped one. *)
Ticker ==
  /\ tick => ticking
  /\ main \in Stopping \/ loop = "done" => ~ticking

(* lastErr is the last failure among the collectors closed so far.          *)
Errors ==
  /\ closeErrs \subseteq 1 .. closed
  /\ lastErr \in closeErrs \cup {0}
  /\ \A i \in closeErrs : i <= lastErr

IInv == TypeOK /\ Phases /\ Round /\ Ticker /\ Errors

LEMMA InitIInv == Init => IInv
<1> SUFFICES ASSUME Init PROVE IInv
  OBVIOUS
<1> USE NAssumption DEF Init
<1>1. TypeOK
  <2>1. registered \in 0 .. N /\ ready \in 0 .. registered /\ closed \in 0 .. registered
    OBVIOUS
  <2>2. hasErr \in BOOLEAN /\ ticking \in BOOLEAN /\ tick \in BOOLEAN
    OBVIOUS
  <2>3. visited \subseteq Collectors /\ closeErrs \subseteq Collectors
    OBVIOUS
  <2> QED
    BY <2>1, <2>2, <2>3 DEF TypeOK, Stopping, InRound
<1>2. Phases /\ Round /\ Ticker /\ Errors
  BY DEF Phases, Round, Ticker, Errors, Stopping, InRound
<1> QED
  BY <1>1, <1>2 DEF IInv

LEMMA NextIInv == IInv /\ [Next]_vars => IInv'
<1> SUFFICES ASSUME IInv, [Next]_vars PROVE IInv'
  OBVIOUS
<1> USE NAssumption DEF IInv, TypeOK, Phases, Round, Ticker, Errors, Stopping, InRound,
                        Collectors, mvars, rvars, tvars, dvars
<1>1. CASE Register
  BY <1>1 DEF Register, Goto
<1>2. CASE RegisterCollectorsReturns
  BY <1>2 DEF RegisterCollectorsReturns, Goto
<1>3. CASE InitOne
  BY <1>3 DEF InitOne, Goto
<1>4. CASE InitFails
  BY <1>4 DEF InitFails, Goto
<1>5. CASE StartLoop
  BY <1>5 DEF StartLoop, Goto, AllReady
<1>6. CASE ShutdownStopsTicker
  BY <1>6 DEF ShutdownStopsTicker, Goto, StopTicker
<1>7. CASE ShutdownCancels
  BY <1>7 DEF ShutdownCancels, Goto
<1>8. ASSUME NEW ok \in BOOLEAN, CloseNext(ok) PROVE IInv'
  BY <1>8 DEF CloseNext, Goto, KeepError
<1>9. CASE ShutdownReturns
  BY <1>9 DEF ShutdownReturns, Goto
<1>9a. 1 .. (1 - 1) = {}
  OBVIOUS
<1>10. CASE FirstRound
  <2>1. hasErr' \in BOOLEAN
    BY <1>10 DEF FirstRound, BeginRound
  <2> QED
    BY <1>9a, <1>10, <2>1 DEF FirstRound, BeginRound
<1>11. CASE TickRound
  <2>1. hasErr' \in BOOLEAN /\ tick' \in BOOLEAN
    BY <1>11 DEF TickRound, BeginRound
  <2> QED
    BY <1>9a, <1>11, <2>1 DEF TickRound, BeginRound
<1>12. CASE CallCollect
  BY <1>12 DEF CallCollect
<1>13. ASSUME NEW ok \in BOOLEAN, CollectReturns(ok) PROVE IInv'
  BY <1>13 DEF CollectReturns, AnotherCollector
<1>14. ASSUME NEW done \in BOOLEAN, LoopEnds(done) PROVE IInv'
  BY <1>14 DEF LoopEnds, StopTicker
<1>15. CASE FireTick
  BY <1>15 DEF FireTick
<1>16. CASE CancelExternal
  BY <1>16 DEF CancelExternal
<1>17. CASE UNCHANGED vars
  BY <1>17 DEF vars
<1> QED
  BY <1>1, <1>2, <1>3, <1>4, <1>5, <1>6, <1>7, <1>8, <1>9, <1>10, <1>11, <1>12, <1>13,
     <1>14, <1>15, <1>16, <1>17
     DEF Next, StartSteps, ShutdownSteps, RoundSteps, Terminated

THEOREM Invariant == Spec => []IInv
BY InitIInv, NextIInv, PTL DEF Spec

(* The variables keep their types.                                          *)
THEOREM TypeCorrect == Spec => []TypeOK
BY Invariant, PTL DEF IInv

(* CollectAll reaches every collector in every round, whatever fails.       *)
THEOREM RoundsComplete == Spec => []RoundVisitsAll
<1>1. IInv => RoundVisitsAll
  BY DEF IInv, Round, RoundVisitsAll
<1> QED
  BY <1>1, Invariant, PTL

(* Shutdown's result tells whether a Close failed, and names the last one.  *)
THEOREM ShutdownReports == Spec => []ShutdownReportsErrors
<1>1. IInv => ShutdownReportsErrors
  BY DEF IInv, TypeOK, Phases, Errors, ShutdownReportsErrors
<1> QED
  BY <1>1, Invariant, PTL

(* Shutdown's ticker.Stop is the last word: no later step starts a round.   *)
THEOREM StopIsFinal == Spec => NoRoundAfterStop
<1>1. IInv /\ [Next]_vars =>
        [(loop = "select" /\ loop' = "call") => main \notin Stopping]_vars
  <2> SUFFICES ASSUME IInv, [Next]_vars, loop = "select", loop' = "call"
               PROVE  main \notin Stopping
    OBVIOUS
  <2>1. tick
    BY DEF Next, StartSteps, ShutdownSteps, RoundSteps, Terminated, vars, Register,
           RegisterCollectorsReturns, InitOne, InitFails, StartLoop, ShutdownStopsTicker,
           ShutdownCancels, CloseNext, ShutdownReturns, FirstRound, TickRound, CallCollect,
           CollectReturns, LoopEnds, FireTick, CancelExternal,
           IInv, Phases, TypeOK, Stopping, Goto
  <2> QED
    BY <2>1 DEF IInv, Ticker
<1> QED
  BY <1>1, Invariant, PTL DEF Spec, NoRoundAfterStop

(* Every step of the agent is a call or a return of the collectors' protocol, *)
(* or none of its business.                                                 *)
THEOREM Implements == Spec => FollowsProtocol
<1>1. Init => Protocol!Init
  BY NAssumption DEF Init, Protocol!Init, Collectors, Protocol!Collectors, CallState
<1>2. IInv /\ [Next]_vars => [Protocol!Next]_(Protocol!cvars)
  <2> SUFFICES ASSUME IInv, [Next]_vars PROVE [Protocol!Next]_(Protocol!cvars)
    OBVIOUS
  <2> USE NAssumption DEF IInv, TypeOK, Phases, Round, Stopping, InRound, Collectors,
        mvars, rvars, tvars, dvars, Goto, Protocol!Collectors, Protocol!cvars
  <2>1. CASE Register
    <3>1. PICK i \in Protocol!Collectors : i = registered + 1
      BY <2>1 DEF Register
    <3>2. \A j \in Collectors : CallState(j)' = IF j = i THEN "new" ELSE CallState(j)
      BY <2>1, <3>1 DEF Register, CallState
    <3>3. CallState(i) = "absent" /\ UNCHANGED closed /\ \A j \in Collectors : CallState(j) \in {"absent", "new"}
      BY <2>1, <3>1 DEF Register, CallState
    <3>4. Protocol!Register(i)
      BY <3>1, <3>2, <3>3 DEF Protocol!Register, Protocol!Move
    <3> QED
      BY <3>4 DEF Protocol!Next
  <2>2. CASE InitOne
    <3>1. PICK i \in Protocol!Collectors : i = ready + 1
      BY <2>2 DEF InitOne
    <3>2. \A j \in Collectors : CallState(j)' = IF j = i THEN "ready" ELSE CallState(j)
      BY <2>2, <3>1 DEF InitOne, CallState
    <3>3. CallState(i) = "new" /\ UNCHANGED closed
      BY <2>2, <3>1 DEF InitOne, CallState
    <3>4. Protocol!InitCollector(i)
      BY <3>1, <3>2, <3>3 DEF Protocol!InitCollector, Protocol!Move
    <3> QED
      BY <3>4 DEF Protocol!Next
  <2>3. CASE CallCollect
    <3>1. PICK i \in Protocol!Collectors : i = cur
      BY <2>3 DEF CallCollect
    <3>2. \A j \in Collectors : CallState(j)' = IF j = i THEN "collecting" ELSE CallState(j)
      BY <2>3, <3>1 DEF CallCollect, CallState
    <3>3. loop = "call" /\ ready = registered /\ i \in 1 .. registered /\ UNCHANGED closed
      BY <2>3, <3>1 DEF CallCollect
    <3>4. CallState(i) = "ready" /\ \A j \in Collectors : CallState(j) \in {"absent", "ready"}
      BY <3>3 DEF CallState
    <3>5. Protocol!BeginCollect(i)
      BY <3>1, <3>2, <3>3, <3>4 DEF Protocol!BeginCollect, Protocol!Move
    <3> QED
      BY <3>5 DEF Protocol!Next
  <2>4. ASSUME NEW ok \in BOOLEAN, CollectReturns(ok) PROVE [Protocol!Next]_(Protocol!cvars)
    <3>1. PICK i \in Protocol!Collectors : i = cur
      BY <2>4 DEF CollectReturns
    <3>2. \A j \in Collectors : CallState(j)' = IF j = i THEN "ready" ELSE CallState(j)
      BY <2>4, <3>1 DEF CollectReturns, AnotherCollector, CallState
    <3>3. Protocol!EndCollect(i)
      BY <2>4, <3>1, <3>2 DEF CollectReturns, CallState, Protocol!EndCollect, Protocol!Move
    <3> QED
      BY <3>3 DEF Protocol!Next
  <2>5. ASSUME NEW ok \in BOOLEAN, CloseNext(ok) PROVE [Protocol!Next]_(Protocol!cvars)
    <3>1. PICK i \in Protocol!Collectors : i = closed + 1
      BY <2>5 DEF CloseNext
    <3>2. Protocol!Close(i)
      BY <2>5, <3>1 DEF CloseNext, Protocol!Close, CallState
    <3> QED
      BY <3>2 DEF Protocol!Next
  <2>6. CASE RegisterCollectorsReturns \/ InitFails \/ StartLoop \/ ShutdownStopsTicker
             \/ ShutdownCancels \/ ShutdownReturns
    BY <2>6 DEF RegisterCollectorsReturns, InitFails, StartLoop, ShutdownStopsTicker,
                ShutdownCancels, ShutdownReturns, CallState
  <2>7. CASE FirstRound \/ TickRound \/ FireTick \/ CancelExternal
    BY <2>7 DEF FirstRound, TickRound, FireTick, CancelExternal, BeginRound, CallState
  <2>8. ASSUME NEW done \in BOOLEAN, LoopEnds(done) PROVE [Protocol!Next]_(Protocol!cvars)
    BY <2>8 DEF LoopEnds, CallState
  <2>9. CASE UNCHANGED vars
    BY <2>9 DEF vars, CallState
  <2> QED
    BY <2>1, <2>2, <2>3, <2>4, <2>5, <2>6, <2>7, <2>8, <2>9
       DEF Next, StartSteps, ShutdownSteps, RoundSteps, Terminated
<1> QED
  BY <1>1, <1>2, Invariant, PTL DEF Spec, FollowsProtocol, Protocol!Spec

==============================================================================
