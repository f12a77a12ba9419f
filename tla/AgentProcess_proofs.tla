------------------------- MODULE AgentProcess_proofs -------------------------
(* What holds of the agent process for every number of modules and every    *)
(* set of connections and scrapers.                                         *)
EXTENDS AgentProcess, TLAPS

(* What AgentLoop keeps in each of its steps it keeps inside the process.   *)
Loop == INSTANCE AgentLoop_proofs WITH main <- agent

AgentStep ==
  \/ Agent!Register \/ Agent!RegisterCollectorsReturns \/ Agent!StartSteps
  \/ Agent!RoundSteps \/ Agent!FireTick \/ UNCHANGED avars

LEMMA LoopInit == Agent!Init => Loop!IInv
<1>1. Agent!Init => Loop!Init
  BY DEF Agent!Init, Loop!Init
<1> QED
  BY <1>1, ModulesAssumption, Loop!InitIInv

(* The agent of the process takes steps of AgentLoop.                       *)
LEMMA StepOfLoop == AgentStep => [Loop!Next]_(Loop!vars)
<1> USE DEF Agent!Goto, Loop!Goto, Agent!mvars, Loop!mvars, Agent!rvars, Loop!rvars,
            Agent!tvars, Loop!tvars, Agent!dvars, Loop!dvars
<1>1. Agent!Register => Loop!Register
  BY DEF Agent!Register, Loop!Register
<1>2. Agent!RegisterCollectorsReturns => Loop!RegisterCollectorsReturns
  BY DEF Agent!RegisterCollectorsReturns, Loop!RegisterCollectorsReturns
<1>3. Agent!StartSteps => Loop!StartSteps
  <2>1. Agent!InitOne => Loop!InitOne
    BY DEF Agent!InitOne, Loop!InitOne
  <2>2. Agent!InitFails => Loop!InitFails
    BY DEF Agent!InitFails, Loop!InitFails
  <2>3. Agent!StartLoop => Loop!StartLoop
    BY DEF Agent!StartLoop, Loop!StartLoop, Agent!AllReady, Loop!AllReady
  <2> QED
    BY <2>1, <2>2, <2>3 DEF Agent!StartSteps, Loop!StartSteps
<1>4. Agent!RoundSteps => Loop!RoundSteps
  <2> USE DEF Agent!BeginRound, Loop!BeginRound
  <2>1. Agent!FirstRound => Loop!FirstRound
    BY DEF Agent!FirstRound, Loop!FirstRound
  <2>2. Agent!TickRound => Loop!TickRound
    BY DEF Agent!TickRound, Loop!TickRound
  <2>3. Agent!CallCollect => Loop!CallCollect
    BY DEF Agent!CallCollect, Loop!CallCollect
  <2>4. ASSUME NEW ok \in BOOLEAN, Agent!CollectReturns(ok) PROVE Loop!CollectReturns(ok)
    BY <2>4 DEF Agent!CollectReturns, Loop!CollectReturns, Agent!AnotherCollector,
                Loop!AnotherCollector
  <2> QED
    BY <2>1, <2>2, <2>3, <2>4 DEF Agent!RoundSteps, Loop!RoundSteps
<1>5. Agent!FireTick => Loop!FireTick
  BY DEF Agent!FireTick, Loop!FireTick
<1>6. UNCHANGED avars => UNCHANGED Loop!vars
  BY DEF avars, Loop!vars
<1> QED
  BY <1>1, <1>2, <1>3, <1>4, <1>5, <1>6 DEF AgentStep, Loop!Next

LEMMA LoopKeeps == Loop!IInv /\ AgentStep => Loop!IInv'
BY StepOfLoop, ModulesAssumption, Loop!NextIInv

(* Whatever the process does, its agent takes a step of its own or none.    *)
LEMMA StepOfAgent == [Next]_vars => AgentStep
BY DEF Next, MainSteps, LoadConfig, InitLogger, InitAgent, InitFatal, StartServer,
       NotifySignals, ReceiveSignal, BeginShutdown, CloseListener, JoinListener,
       PollConnections, Drained, DrainTimesOut, DrainFails, ShutdownFuncReturns, WaitReturns,
       Exit, SignalQueued, SignalKills, ListenerSteps, Listen, Serve, ServeReturns, Accept, BeginRequest, EndRequest, Leave, Move, Collection, Terminated, vars, AgentStep

LEMMA LoopTyped == Loop!IInv => Agent!TypeOK
BY DEF Loop!IInv, Loop!TypeOK, Agent!TypeOK, Loop!Stopping, Agent!Stopping, Loop!InRound,
       Agent!InRound, Loop!Collectors, Agent!Collectors

------------------------------------------------------------------------------
(* The variables of the process itself.                                     *)
ProcessTypes ==
  /\ main \in {"load", "logger", "init", "started", "waiting", "received", "closing", "joining",
               "draining", "stopped", "returning", "returned", "exited", "killed"}
  /\ listener \in {"none", "spawned", "bound", "listening", "closing", "ending", "closed",
                   "refused", "failed"}
  /\ inShutdown \in BOOLEAN /\ sigChan \in BOOLEAN
  /\ conn \in [Conns -> {"none", "new", "active", "idle", "aborted"}]
  /\ said \subseteq {"HTTP server shutdown successfully", "all services shutdown successfully",
                     "graceful shutdown completed successfully"}

(* The flag is set when the listener is closed, which Shutdown does before  *)
(* it drains; a listener that comes later is refused because of the flag.   *)
Listening ==
  /\ main \in {"load", "logger", "init"} => listener = "none" /\ ~inShutdown
  /\ main \in {"started", "waiting", "received"} =>
       ~inShutdown /\ listener \in {"spawned", "bound", "listening", "failed"}
  /\ main \in {"closing", "joining", "draining", "stopped", "returning", "returned"} => inShutdown
  /\ main = "closing" => listener \notin {"closing", "ending"}
  /\ main = "joining" => listener # "listening"
  /\ main \in {"draining", "stopped", "returning", "returned"} =>
       listener \notin {"listening", "closing", "ending"}

(* Once the server said that it is down every connection is gone, or was    *)
(* dropped, and none can come.                                              *)
Drainage ==
  "HTTP server shutdown successfully" \in said =>
    /\ main \in {"stopped", "returning", "returned", "exited", "killed"}
    /\ \A c \in Conns : conn[c] \in {"none", "aborted"}

(* Connections come from a listener; only Shutdown closes one.              *)
Opened ==
  /\ (\E c \in Conns : conn[c] # "none") => listener \in {"listening", "closing", "ending", "closed"}
  /\ listener \in {"closing", "ending", "closed"} => inShutdown

IInv == Loop!IInv /\ ProcessTypes /\ Listening /\ Drainage /\ Opened

LEMMA InitIInv == Init => IInv
<1> SUFFICES ASSUME Init PROVE IInv
  OBVIOUS
<1>1. Loop!IInv
  BY LoopInit DEF Init
<1>2. ProcessTypes
  BY DEF Init, ProcessTypes
<1>3. Listening /\ Drainage /\ Opened
  BY DEF Init, Listening, Drainage, Opened
<1> QED
  BY <1>1, <1>2, <1>3 DEF IInv

LEMMA NextIInv == IInv /\ [Next]_vars => IInv'
<1> SUFFICES ASSUME IInv, [Next]_vars PROVE IInv'
  OBVIOUS
<1> USE DEF hvars
<1>1. Loop!IInv'
  BY StepOfAgent, LoopKeeps DEF IInv
<1>2. (ProcessTypes /\ Listening /\ Drainage /\ Opened)'
  <2> USE DEF Goto, Running
  <2>0. ProcessTypes /\ Listening /\ Drainage /\ Opened
    BY DEF IInv
  <2> USE <2>0 DEF Listening, Drainage, Opened
  <2>1. ASSUME NEW ok \in BOOLEAN, LoadConfig(ok) \/ InitLogger(ok) PROVE (ProcessTypes /\ Listening /\ Drainage /\ Opened)'
    <3>1. CASE LoadConfig(ok)
      BY <3>1 DEF LoadConfig, ProcessTypes
    <3>2. CASE InitLogger(ok)
      BY <3>2 DEF InitLogger, ProcessTypes
    <3> QED
      BY <2>1, <3>1, <3>2
  <2>2. CASE InitAgent
    BY <2>2 DEF InitAgent, ProcessTypes
  <2>3. CASE InitFatal \/ NotifySignals \/ WaitReturns \/ Exit
    <3>1. CASE InitFatal
      BY <3>1 DEF InitFatal, ProcessTypes
    <3>2. CASE NotifySignals
      BY <3>2 DEF NotifySignals, ProcessTypes
    <3>3. CASE WaitReturns
      BY <3>3 DEF WaitReturns, ProcessTypes
    <3>4. CASE Exit
      BY <3>4 DEF Exit, CutConnections, ProcessTypes
    <3> QED
      BY <2>3, <3>1, <3>2, <3>3, <3>4
  <2>4. CASE StartServer
    BY <2>4 DEF StartServer, ProcessTypes
  <2>5. CASE ReceiveSignal \/ BeginShutdown \/ CloseListener \/ JoinListener
    <3>1. CASE ReceiveSignal
      BY <3>1 DEF ReceiveSignal, ProcessTypes
    <3>2. CASE BeginShutdown
      BY <3>2 DEF BeginShutdown, ProcessTypes
    <3>3. CASE CloseListener
      BY <3>3 DEF CloseListener, ProcessTypes
    <3>4. CASE JoinListener
      BY <3>4 DEF JoinListener, ProcessTypes
    <3> QED
      BY <2>5, <3>1, <3>2, <3>3, <3>4
  <2>6. CASE PollConnections
    BY <2>6 DEF PollConnections, CloseIdle, ProcessTypes
  <2>7. CASE Drained
    BY <2>7 DEF Drained, CloseIdle, Busy, ProcessTypes
  <2>8. CASE DrainTimesOut
    BY <2>8 DEF DrainTimesOut, TimedOut, ProcessTypes
  <2>9. CASE DrainFails
    BY <2>9 DEF DrainFails, CloseIdle, ProcessTypes
  <2>10. CASE ShutdownFuncReturns
    BY <2>10 DEF ShutdownFuncReturns, ProcessTypes
  <2>11. CASE SignalQueued
    BY <2>11 DEF SignalQueued, ProcessTypes
  <2>12. CASE SignalKills
    BY <2>12 DEF SignalKills, Notified, CutConnections, ProcessTypes
  <2>13. CASE ListenerSteps
    <3>1. ASSUME NEW ok \in BOOLEAN, Listen(ok) PROVE (ProcessTypes /\ Listening /\ Drainage /\ Opened)'
      BY <3>1 DEF Listen, ProcessTypes
    <3>2. CASE Serve
      BY <3>2 DEF Serve, ProcessTypes
    <3>3. CASE ServeReturns
      BY <3>3 DEF ServeReturns, ProcessTypes
    <3> QED
      BY <2>13, <3>1, <3>2, <3>3 DEF ListenerSteps
  <2>14. ASSUME NEW c \in Conns, Accept(c) \/ BeginRequest(c) \/ EndRequest(c) \/ Leave(c)
         PROVE  (ProcessTypes /\ Listening /\ Drainage /\ Opened)'
    <3> USE DEF Move, ProcessTypes
    <3>1. CASE Accept(c)
      BY <3>1 DEF Accept
    <3>2. CASE BeginRequest(c)
      BY <3>2 DEF BeginRequest
    <3>3. CASE EndRequest(c)
      BY <3>3 DEF EndRequest
    <3>4. CASE Leave(c)
      BY <3>4 DEF Leave
    <3> QED
      BY <2>14, <3>1, <3>2, <3>3, <3>4
  <2>15. CASE Collection
    BY <2>15 DEF Collection, ProcessTypes
  <2>16. CASE UNCHANGED vars
    BY <2>16 DEF vars, ProcessTypes
  <2> QED
    BY <2>1, <2>2, <2>3, <2>4, <2>5, <2>6, <2>7, <2>8, <2>9, <2>10, <2>11, <2>12, <2>13,
       <2>14, <2>15, <2>16 DEF Next, MainSteps, Terminated
<1> QED
  BY <1>1, <1>2 DEF IInv

LEMMA Invariant == Spec => []IInv
BY InitIInv, NextIInv, PTL DEF Spec

------------------------------------------------------------------------------
(* The variables of the process, and of the agent in it, keep their types.  *)
THEOREM Typed == Spec => []TypeOK
<1>1. IInv => TypeOK
  BY LoopTyped DEF IInv, ProcessTypes, TypeOK
<1> QED
  BY <1>1, Invariant, PTL

(* After a successful shutdown of the server no request is being served.    *)
THEOREM ShutdownDrains == Spec => []StoppedMeansDrained
<1>1. IInv => StoppedMeansDrained
  BY DEF IInv, Drainage, StoppedMeansDrained
<1> QED
  BY <1>1, Invariant, PTL

(* No connection is accepted from the start of the draining on.             *)
THEOREM NoAcceptDuringDrain == Spec => NoAcceptWhileDraining
<1> DEFINE Accepting == \E c \in Conns : conn[c] = "none" /\ conn'[c] = "new"
           Over == {"draining", "stopped", "returning", "returned"}
<1>1. IInv /\ [Next]_vars => [Accepting => main \notin Over]_vars
  <2> SUFFICES ASSUME IInv, Next, NEW c \in Conns, conn[c] = "none", conn'[c] = "new"
               PROVE  main \notin Over
    OBVIOUS
  <2>1. listener \in {"listening", "closing"}
    BY DEF Next, MainSteps, LoadConfig, InitLogger, InitAgent, InitFatal, StartServer,
           NotifySignals, ReceiveSignal, BeginShutdown, CloseListener, JoinListener,
           PollConnections, Drained, DrainTimesOut, DrainFails, ShutdownFuncReturns, WaitReturns,
           Exit, SignalQueued, SignalKills, ListenerSteps, Listen, Serve, ServeReturns,
           CloseIdle, CutConnections, Accept, BeginRequest, EndRequest, Leave, Move, Collection,
           Terminated, vars, hvars, IInv, ProcessTypes
  <2> QED
    BY <2>1 DEF IInv, Listening
<1> QED
  BY <1>1, Invariant, PTL DEF Spec, NoAcceptWhileDraining

(* The process is one of the programs that AgentLoop stands for.            *)
LEMMA RunsLoop == Spec => Loop!Spec
<1>1. Init => Loop!Init
  BY DEF Init, Agent!Init, Loop!Init
<1>2. [Next]_vars => [Loop!Next]_(Loop!vars)
  BY StepOfAgent, StepOfLoop
<1> QED
  BY <1>1, <1>2, PTL DEF Spec, Loop!Spec

(* So the protocol AgentLoop implements is kept inside the process,         *)
(* whatever the server, the clients and the signals do.                     *)
THEOREM CollectorsInProcess == Spec => Agent!FollowsProtocol
<1>1. Loop!Spec => Loop!FollowsProtocol
  BY ModulesAssumption, Loop!Implements
<1>2. Loop!FollowsProtocol => Agent!FollowsProtocol
  <2> USE DEF Agent!Collectors, Loop!Collectors, Agent!Protocol!Collectors, Loop!Protocol!Collectors,
              Agent!CallState, Loop!CallState, Agent!Protocol!Move, Loop!Protocol!Move
  <2>1. Loop!Protocol!Init => Agent!Protocol!Init
    BY DEF Loop!Protocol!Init, Agent!Protocol!Init
  <2>2. [Loop!Protocol!Next]_(Loop!Protocol!cvars) => [Agent!Protocol!Next]_(Agent!Protocol!cvars)
    BY DEF Loop!Protocol!Next, Agent!Protocol!Next, Loop!Protocol!cvars, Agent!Protocol!cvars,
           Loop!Protocol!Register, Agent!Protocol!Register,
           Loop!Protocol!InitCollector, Agent!Protocol!InitCollector,
           Loop!Protocol!BeginCollect, Agent!Protocol!BeginCollect,
           Loop!Protocol!EndCollect, Agent!Protocol!EndCollect,
           Loop!Protocol!Close, Agent!Protocol!Close
  <2> QED
    BY <2>1, <2>2, PTL DEF Agent!FollowsProtocol, Loop!FollowsProtocol,
                           Agent!Protocol!Spec, Loop!Protocol!Spec
<1> QED
  BY RunsLoop, <1>1, <1>2, PTL

(* Inside the process, too, every finished round has visited all collectors. *)
THEOREM RoundsInProcess == Spec => []Agent!RoundVisitsAll
<1>1. Loop!Spec => []Loop!RoundVisitsAll
  BY ModulesAssumption, Loop!RoundsComplete
<1>2. Loop!RoundVisitsAll => Agent!RoundVisitsAll
  BY DEF Loop!RoundVisitsAll, Agent!RoundVisitsAll
<1> QED
  BY RunsLoop, <1>1, <1>2, PTL

------------------------------------------------------------------------------
(* The process is a graceful server for every set of connections.           *)
THEOREM Graceful == Spec => ServesGracefully
<1>1. Init => Server!Init
  BY DEF Init, Server!Init, ServerPhase, Running, Busy
<1>2. IInv /\ [Next]_vars => [Server!Next]_(Server!svars)
  <2> SUFFICES ASSUME IInv, [Next]_vars PROVE [Server!Next]_(Server!svars)
    OBVIOUS
  <2>0. ProcessTypes /\ Listening /\ Drainage /\ Opened
    BY DEF IInv
  <2> USE <2>0 DEF ProcessTypes, Listening, Drainage, Opened, hvars, Goto, Running, ServerPhase, Busy
  <2>1. ASSUME NEW ok \in BOOLEAN, LoadConfig(ok) \/ InitLogger(ok)
        PROVE  Server!Go \/ UNCHANGED Server!svars
    <3>1. /\ main' \in {"logger", "init", "exited"}
          /\ UNCHANGED <<listener, inShutdown, conn, said>>
      BY <2>1 DEF LoadConfig, InitLogger
    <3>2. listener = "none" /\ ~inShutdown /\ "HTTP server shutdown successfully" \notin said
      BY <2>1 DEF LoadConfig, InitLogger
    <3>3. CASE main' = "exited"
      BY <2>1, <3>1, <3>2, <3>3 DEF LoadConfig, InitLogger, Server!Go, Server!Phase
    <3>4. CASE main' # "exited"
      BY <2>1, <3>1, <3>2, <3>4 DEF LoadConfig, InitLogger, Server!svars
    <3> QED
      BY <3>3, <3>4
  <2>2. CASE InitAgent \/ NotifySignals \/ ReceiveSignal \/ ShutdownFuncReturns \/ WaitReturns
              \/ SignalQueued \/ Collection
    <3>1. UNCHANGED <<listener, inShutdown, conn>>
      BY <2>2 DEF InitAgent, NotifySignals, ReceiveSignal, ShutdownFuncReturns, WaitReturns,
                  SignalQueued, Collection
    <3>2. "HTTP server shutdown successfully" \in said' <=> "HTTP server shutdown successfully" \in said
      BY <2>2 DEF InitAgent, NotifySignals, ReceiveSignal, ShutdownFuncReturns, WaitReturns,
                  SignalQueued, Collection
    <3>3. \/ main' = main
          \/ main \in {"started", "waiting"} /\ main' \in {"waiting", "received"}
          \/ main \in {"stopped", "returning"} /\ main' \in {"returning", "returned"}
      BY <2>2 DEF InitAgent, NotifySignals, ReceiveSignal, ShutdownFuncReturns, WaitReturns,
                  SignalQueued, Collection
    <3>4. ServerPhase' = ServerPhase
      BY <3>1, <3>2, <3>3
    <3> QED
      BY <3>1, <3>4 DEF Server!svars
  <2>3. CASE InitFatal
    BY <2>3 DEF InitFatal, Server!Next, Server!Go, Server!Phase
  <2>4. CASE StartServer
    BY <2>4 DEF StartServer, Server!svars
  <2>5. CASE BeginShutdown
    <3>1. Server!Stop \/ UNCHANGED Server!svars
      BY <2>5 DEF BeginShutdown, Server!Stop, Server!Phase, Server!svars
    <3> QED
      BY <3>1 DEF Server!Next
  <2>6. CASE CloseListener
    BY <2>6 DEF CloseListener, Server!svars
  <2>7. CASE JoinListener
    BY <2>7 DEF JoinListener, Server!svars
  <2>8. CASE PollConnections
    <3>1. Server!CloseIdle
      BY <2>8 DEF PollConnections, CloseIdle, Server!CloseIdle
    <3> QED
      BY <3>1 DEF Server!Next
  <2>9. CASE Drained
    <3>1. Server!Stopped
      BY <2>9 DEF Drained, CloseIdle, Server!Stopped, Server!Phase
    <3> QED
      BY <3>1 DEF Server!Next
  <2>10. CASE DrainTimesOut \/ DrainFails
    <3>1. Server!GiveUp
      BY <2>10 DEF DrainTimesOut, TimedOut, DrainFails, CloseIdle, Server!GiveUp, Server!Phase
    <3> QED
      BY <3>1 DEF Server!Next
  <2>11. CASE Exit \/ SignalKills
    <3>1. Server!Go
      BY <2>11 DEF Exit, SignalKills, Notified, CutConnections, Server!Go, Server!Phase
    <3> QED
      BY <3>1 DEF Server!Next
  <2>12. ASSUME NEW ok \in BOOLEAN, Listen(ok) PROVE UNCHANGED Server!svars
    BY <2>12 DEF Listen, Server!svars
  <2>13. CASE Serve
    <3>1. Server!Open \/ UNCHANGED Server!svars
      BY <2>13 DEF Serve, Server!Open, Server!Phase, Server!svars
    <3> QED
      BY <3>1 DEF Server!Next
  <2>14. CASE ServeReturns
    <3>1. Server!Stop
      BY <2>14 DEF ServeReturns, Server!Stop, Server!Phase
    <3> QED
      BY <3>1 DEF Server!Next
  <2>15. ASSUME NEW c \in Conns, Accept(c) PROVE [Server!Next]_(Server!svars)
    <3>1. Server!Connect(c)
      BY <2>15 DEF Accept, Server!Connect
    <3> QED
      BY <3>1 DEF Server!Next
  <2>16. ASSUME NEW c \in Conns, BeginRequest(c) PROVE [Server!Next]_(Server!svars)
    <3>1. Server!Request(c) \/ UNCHANGED Server!svars
      BY <2>16 DEF BeginRequest, Move, Server!Request, Server!svars
    <3> QED
      BY <3>1 DEF Server!Next
  <2>17. ASSUME NEW c \in Conns, EndRequest(c) PROVE [Server!Next]_(Server!svars)
    <3>1. Server!Leave(c) \/ Server!Rest(c)
      BY <2>17 DEF EndRequest, Move, Server!Leave, Server!Rest
    <3> QED
      BY <3>1 DEF Server!Next
  <2>18. ASSUME NEW c \in Conns, Leave(c) PROVE [Server!Next]_(Server!svars)
    <3>1. Server!Leave(c)
      BY <2>18 DEF Leave, Move, Server!Leave
    <3> QED
      BY <3>1 DEF Server!Next
  <2>19. CASE UNCHANGED vars
    BY <2>19 DEF vars, Server!svars
  <2>20. ASSUME NEW ok \in BOOLEAN, LoadConfig(ok) \/ InitLogger(ok)
         PROVE  [Server!Next]_(Server!svars)
    BY <2>1, <2>20 DEF Server!Next
  <2> QED
    BY <2>2, <2>3, <2>4, <2>5, <2>6, <2>7, <2>8, <2>9, <2>10, <2>11, <2>12, <2>13, <2>14,
       <2>15, <2>16, <2>17, <2>18, <2>19, <2>20 DEF Next, MainSteps, ListenerSteps, Terminated
<1> QED
  BY <1>1, <1>2, Invariant, PTL DEF Spec, ServesGracefully, Server!Spec
==============================================================================
