------------------------------ MODULE AgentLoop ------------------------------
(***************************************************************************)
(* registers.AgentImpl: registration, Start, the collection goroutine that *)
(* Start spawns, and Shutdown.  Two goroutines take steps: the one that    *)
(* calls the API ("main") and the collection loop ("loop").  The ticker is *)
(* the runtime's (go.mod names go 1.24.8: a tick that is still waiting is  *)
(* discarded by Stop), and anybody may cancel the context given to Start.  *)
(* Collectors are named by their position in the slice r.collectors.       *)
(* Shutdown is called at most once, and after Start: who has the Agent has *)
(* it from InitPromRegistry, which returns it started, so that the branch  *)
(* for a nil ticker is never taken.  A second call, which would close the  *)
(* collectors again, is not modelled; nothing in the program makes one.    *)
(***************************************************************************)
EXTENDS Naturals

CONSTANT N            \* modules that RegisterCollectors can register
ASSUME NAssumption == N \in Nat

Collectors == 1 .. N

VARIABLES
  registered,         \* len(r.collectors)
  main,               \* control point of the goroutine that calls the API
  ready,              \* collectors whose Init returned nil: 1 .. ready
  loop,               \* control point of the collection goroutine
  cur,                \* position of the range loop in CollectAll
  visited,            \* history: collectors whose Collect returned, this round
  hasErr,             \* CollectAll's hasErr
  ticking,            \* r.ticker was created and not stopped
  tick,               \* a tick waits in r.ticker.C
  extDone,            \* the context given to Start is cancelled
  intDone,            \* r.ctx is cancelled
  closed,             \* position of the range loop in CloseAll
  lastErr,            \* CloseAll's lastErr: 0 for nil, else the failing collector
  closeErrs           \* history: collectors whose Close failed

mvars == <<registered, main, ready, closed, lastErr, closeErrs>>
rvars == <<cur, visited, hasErr>>
tvars == <<ticking, tick>>
dvars == <<extDone, intDone>>
vars  == <<mvars, loop, rvars, tvars, dvars>>

Stopping == {"stopped", "closing", "down"}   \* after Shutdown's ticker.Stop()
InRound  == {"call", "collecting"}           \* inside CollectAll

Init ==
  /\ registered = 0 /\ ready = 0 /\ closed = 0
  /\ main = "register" /\ loop = "none"
  /\ cur = 0 /\ visited = {} /\ hasErr = FALSE
  /\ ticking = FALSE /\ tick = FALSE
  /\ extDone = FALSE /\ intDone = FALSE
  /\ lastErr = 0 /\ closeErrs = {}

------------------------------------------------------------------------------
(* The goroutine that calls the API.                                        *)

Goto(from, to) == main = from /\ main' = to

\* One enabled module of RegisterCollectors: its collector is appended.
Register ==
  /\ Goto("register", "register")
  /\ registered < N
  /\ registered' = registered + 1
  /\ UNCHANGED <<ready, closed, lastErr, closeErrs, loop, rvars, tvars, dvars>>

\* RegisterCollectors returns; with no collector its error ends InitPromRegistry.
RegisterCollectorsReturns ==
  /\ Goto("register", IF registered = 0 THEN "rejected" ELSE "init")
  /\ UNCHANGED <<registered, ready, closed, lastErr, closeErrs, loop, rvars, tvars, dvars>>

\* InitAll, one collector at a time; the first error is fatal (os.Exit).
InitOne ==
  /\ Goto("init", "init")
  /\ ready < registered
  /\ ready' = ready + 1
  /\ UNCHANGED <<registered, closed, lastErr, closeErrs, loop, rvars, tvars, dvars>>

InitFails ==
  /\ Goto("init", "exited")
  /\ ready < registered
  /\ UNCHANGED <<registered, ready, closed, lastErr, closeErrs, loop, rvars, tvars, dvars>>

AllReady_NotAwaited == TRUE                            \* mutant
AllReady == ready = registered

\* InitAll returned nil: Start creates the ticker and spawns the loop.
StartLoop ==
  /\ Goto("init", "up")
  /\ AllReady
  /\ loop' = "spawned"
  /\ ticking' = TRUE
  /\ UNCHANGED <<registered, ready, closed, lastErr, closeErrs, rvars, tick, dvars>>

StopTicker_StaleTick == ticking' = FALSE /\ tick' = tick  \* mutant: Go < 1.23
StopTicker == ticking' = FALSE /\ tick' = FALSE

\* The first step of Shutdown; the ticker is there, see above.
ShutdownStopsTicker ==
  /\ Goto("up", "stopped")
  /\ StopTicker
  /\ UNCHANGED <<registered, ready, closed, lastErr, closeErrs, loop, rvars, dvars>>

ShutdownCancels ==
  /\ Goto("stopped", "closing")
  /\ intDone' = TRUE
  /\ UNCHANGED <<registered, ready, closed, lastErr, closeErrs, loop, rvars, tvars, extDone>>

KeepError_Overwritten(ok) == IF ok THEN 0 ELSE closed + 1   \* mutant
KeepError(ok) == IF ok THEN lastErr ELSE closed + 1

\* One iteration of CloseAll: an error is kept and does not end the loop.
CloseNext(ok) ==
  /\ Goto("closing", "closing")
  /\ closed < registered
  /\ closed' = closed + 1
  /\ lastErr' = KeepError(ok)
  /\ closeErrs' = IF ok THEN closeErrs ELSE closeErrs \cup {closed + 1}
  /\ UNCHANGED <<registered, ready, loop, rvars, tvars, dvars>>

ShutdownReturns ==
  /\ Goto("closing", "down")
  /\ closed = registered
  /\ UNCHANGED <<registered, ready, closed, lastErr, closeErrs, loop, rvars, tvars, dvars>>

------------------------------------------------------------------------------
(* The collection goroutine.                                                *)

BeginRound ==
  /\ loop' = "call"
  /\ cur' = 1 /\ visited' = {} /\ hasErr' = FALSE

\* The first collection happens before the first look at the contexts.
FirstRound ==
  /\ loop = "spawned"
  /\ BeginRound
  /\ UNCHANGED <<mvars, tvars, dvars>>

TickRound ==
  /\ loop = "select" /\ tick
  /\ tick' = FALSE
  /\ BeginRound
  /\ UNCHANGED <<mvars, ticking, dvars>>

CallCollect ==
  /\ loop = "call"
  /\ loop' = "collecting"
  /\ UNCHANGED <<mvars, rvars, tvars, dvars>>

AnotherCollector_OffByOne == cur <= registered         \* mutant
AnotherCollector_ErrorEndsRound == cur < registered /\ ~hasErr   \* mutant
AnotherCollector == cur < registered

\* Collect returns; an error is noted and the round goes on.
CollectReturns(ok) ==
  /\ loop = "collecting"
  /\ visited' = visited \cup {cur}
  /\ hasErr' = (hasErr \/ ~ok)
  /\ IF AnotherCollector
       THEN loop' = "call" /\ cur' = cur + 1
       ELSE loop' = "select" /\ cur' = 0
  /\ UNCHANGED <<mvars, tvars, dvars>>

\* Mutant: break leaves the select, not the for.
LoopEnds_Break(done) ==
  /\ loop = "select" /\ done
  /\ StopTicker
  /\ UNCHANGED <<mvars, loop, rvars, dvars>>

\* One of the two Done branches of the select: the loop stops the ticker again, if
\* Shutdown did already, and returns.  Between the two nothing can see it but a tick,
\* which nobody takes any more.
LoopEnds(done) ==
  /\ loop = "select" /\ done
  /\ loop' = "done"
  /\ StopTicker
  /\ UNCHANGED <<mvars, rvars, dvars>>

------------------------------------------------------------------------------
(* The runtime's ticker (a tick nobody took is dropped) and the environment. *)

FireTick ==
  /\ ticking /\ ~tick
  /\ tick' = TRUE
  /\ UNCHANGED <<mvars, loop, rvars, ticking, dvars>>

CancelExternal ==
  /\ ~extDone
  /\ extDone' = TRUE
  /\ UNCHANGED <<mvars, loop, rvars, tvars, intDone>>

Terminated ==
  /\ main \in {"rejected", "exited"} \/ (main = "down" /\ loop = "done")
  /\ UNCHANGED vars

StartSteps == InitOne \/ InitFails \/ StartLoop
ShutdownSteps == ShutdownCancels \/ (\E ok \in BOOLEAN : CloseNext(ok)) \/ ShutdownReturns
RoundSteps == FirstRound \/ TickRound \/ CallCollect \/ (\E ok \in BOOLEAN : CollectReturns(ok))

Next ==
  \/ Register \/ RegisterCollectorsReturns \/ StartSteps
  \/ ShutdownStopsTicker \/ ShutdownSteps
  \/ RoundSteps \/ LoopEnds(extDone) \/ LoopEnds(intDone)
  \/ FireTick \/ CancelExternal \/ Terminated

(***************************************************************************)
(* Goroutines that can run are scheduled, a running ticker ticks, and the  *)
(* select picks uniformly among its ready cases, so it cannot pass over a  *)
(* done context for ever.  Nobody has to call Shutdown or cancel.          *)
(***************************************************************************)
Fairness ==
  /\ WF_vars(StartSteps) /\ WF_vars(ShutdownSteps)
  /\ WF_vars(RoundSteps) /\ WF_vars(FireTick)
  /\ SF_vars(LoopEnds(extDone)) /\ SF_vars(LoopEnds(intDone))

Spec == Init /\ [][Next]_vars
FairSpec == Spec /\ Fairness

------------------------------------------------------------------------------
TypeOK ==
  /\ registered \in 0 .. N /\ ready \in 0 .. registered /\ closed \in 0 .. registered
  /\ main \in {"register", "rejected", "init", "exited", "up"} \cup Stopping
  /\ loop \in {"none", "spawned", "select", "done"} \cup InRound
  /\ cur \in 0 .. registered
  /\ visited \subseteq Collectors
  /\ hasErr \in BOOLEAN
  /\ ticking \in BOOLEAN /\ tick \in BOOLEAN
  /\ extDone \in BOOLEAN /\ intDone \in BOOLEAN
  /\ lastErr \in 0 .. registered
  /\ closeErrs \subseteq Collectors

(* A finished round has called Collect on every registered collector: the  *)
(* failure of one never costs the others their sample.                     *)
RoundVisitsAll ==
  loop \in {"select", "done"} => visited = 1 .. registered

(* Shutdown closes every collector even when some Close fails, and returns *)
(* an error exactly when one failed, the last one.                         *)
ShutdownReportsErrors ==
  main = "down" =>
    /\ closed = registered
    /\ lastErr = 0 <=> closeErrs = {}
    /\ \A i \in closeErrs : i <= lastErr

(* Once Shutdown has stopped the ticker no further tick starts a round,    *)
(* not even one that had fired while the loop was busy collecting.         *)
NoRoundAfterStop ==
  [][(loop = "select" /\ loop' = "call") => main \notin Stopping]_vars

(* A cancelled context, whoever cancelled it, ends the loop, although the  *)
(* ticker keeps competing with it in the select.                           *)
CancelStopsLoop ==
  (loop # "none" /\ (extDone \/ intDone)) ~> loop = "done"

(* While the loop lives every registered collector is collected again and  *)
(* again, whatever the outcome of its own and of its neighbours' calls.    *)
KeepsCollecting ==
  \A i \in Collectors :
    (loop # "none" /\ i <= registered)
      ~> (loop = "done" \/ (loop = "collecting" /\ cur = i))

CallState(i) ==
  IF loop = "collecting" /\ cur = i THEN "collecting"
  ELSE IF i > registered THEN "absent"
  ELSE IF i > ready THEN "new"
  ELSE "ready"

Protocol == INSTANCE CollectorProtocol WITH
  closed <- 1 .. closed, st <- [i \in Collectors |-> CallState(i)]

(* The calls made on the collectors follow the protocol of interfaces.go.  *)
FollowsProtocol == Protocol!Spec
==============================================================================
