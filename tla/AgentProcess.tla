---------------------------- MODULE AgentProcess ----------------------------
(***************************************************************************)
(* The agent process: RunE loads the configuration (Config), and runServer *)
(* makes the logger (Logger), starts the collection loop of AgentLoop and  *)
(* the HTTP server, waits for a signal and shuts the server down.  It      *)
(* drops the Agent that InitPromRegistry returns and starts it with        *)
(* context.Background(), so that nobody cancels the loop or closes its     *)
(* collectors: of AgentLoop's actions only those before Shutdown happen.   *)
(* net/http and os/signal are modelled from their use in cmd/server; the   *)
(* program calls Server.Shutdown once, after Server.Start.                 *)
(***************************************************************************)
EXTENDS Naturals

CONSTANTS
  N,                  \* modules RegisterCollectors can register
  Conns,              \* connections clients may have open at a time
  Scrapers            \* those among them whose requests are for /metrics

ASSUME ModulesAssumption == N \in Nat
ASSUME ScrapersAssumption == Scrapers \subseteq Conns

VARIABLES
  registered, agent, ready, loop, cur, visited, hasErr, ticking, tick,
  extDone, intDone, closed, lastErr, closeErrs,     \* AgentLoop (agent is its main)
  main,               \* control point of RunE and runServer
  listener,           \* control point of the goroutine in ListenAndServe
  inShutdown,         \* the flag of http.Server
  conn,               \* state of each connection (http.ConnState)
  sigChan,            \* a signal waits in the channel of WaitForShutdown
  said                \* history: the outcomes that were logged

Agent == INSTANCE AgentLoop WITH main <- agent

avars == <<registered, agent, ready, loop, cur, visited, hasErr, ticking, tick,
           extDone, intDone, closed, lastErr, closeErrs>>
hvars == <<listener, inShutdown, conn>>
vars  == <<avars, main, hvars, sigChan, said>>

Init ==
  /\ Agent!Init
  /\ main = "load"
  /\ listener = "none" /\ inShutdown = FALSE
  /\ conn = [c \in Conns |-> "none"]
  /\ sigChan = FALSE /\ said = {}

Running == main \notin {"exited", "killed"}

------------------------------------------------------------------------------
(* RunE and runServer.                                                      *)

Goto(from, to) == main = from /\ main' = to

\* A configuration that cannot be loaded ends the process with status 1.
LoadConfig(ok) ==
  /\ Goto("load", IF ok THEN "logger" ELSE "exited")
  /\ UNCHANGED <<avars, hvars, sigChan, said>>

\* So does a logger that cannot be made.  Nothing has been logged until then.
InitLogger(ok) ==
  /\ Goto("logger", IF ok THEN "init" ELSE "exited")
  /\ UNCHANGED <<avars, hvars, sigChan, said>>

\* InitPromRegistry: registration and, if a collector is enabled, Start.
InitAgent ==
  /\ main = "init"
  /\ Agent!Register \/ Agent!RegisterCollectorsReturns \/ Agent!StartSteps
  /\ UNCHANGED <<main, hvars, sigChan, said>>

\* A collector whose Init failed was fatal.
InitFatal ==
  /\ Goto("init", "exited")
  /\ agent = "exited"
  /\ UNCHANGED <<avars, hvars, sigChan, said>>

\* The error of InitPromRegistry is ignored; Start cannot fail.
StartServer ==
  /\ Goto("init", "started")
  /\ agent \in {"up", "rejected"}
  /\ listener' = "spawned"
  /\ UNCHANGED <<avars, inShutdown, conn, sigChan, said>>

NotifySignals ==
  /\ Goto("started", "waiting")
  /\ UNCHANGED <<avars, hvars, sigChan, said>>

ReceiveSignal ==
  /\ Goto("waiting", "received")
  /\ sigChan /\ sigChan' = FALSE
  /\ UNCHANGED <<avars, hvars, said>>

\* Server.Shutdown enters http.Server.Shutdown, which first sets the flag.
BeginShutdown_NoFlag ==                 \* mutant: closes the listener by itself
  /\ Goto("received", "closing")
  /\ UNCHANGED <<avars, hvars, sigChan, said>>
BeginShutdown ==
  /\ Goto("received", "closing")
  /\ inShutdown' = TRUE
  /\ UNCHANGED <<avars, listener, conn, sigChan, said>>

\* Only then it closes the listener, if Serve has one by now,
CloseListener ==
  /\ Goto("closing", "joining")
  /\ listener' = IF listener = "listening" THEN "closing" ELSE listener
  /\ UNCHANGED <<avars, inShutdown, conn, sigChan, said>>

\* and waits for that Serve to return.
JoinListener ==
  /\ Goto("joining", "draining")
  /\ listener \notin {"closing", "ending"}
  /\ UNCHANGED <<avars, hvars, sigChan, said>>

\* A connection without a request yet counts as busy (for five seconds: Leave).
Busy == {c \in Conns : conn[c] \in {"new", "active"}}

CloseIdle == conn' = [c \in Conns |-> IF conn[c] = "idle" THEN "none" ELSE conn[c]]

\* A poll of Shutdown closes the idle connections, and waits for the others.
PollConnections ==
  /\ main = "draining" /\ Busy # {}
  /\ CloseIdle
  /\ UNCHANGED <<avars, main, listener, inShutdown, sigChan, said>>

\* A poll found no busy connection.
Drained ==
  /\ Goto("draining", "stopped")
  /\ Busy = {}
  /\ CloseIdle
  /\ said' = said \cup {"HTTP server shutdown successfully"}
  /\ UNCHANGED <<avars, listener, inShutdown, sigChan>>

TimedOut_NoDeadline == FALSE                    \* mutant: context.Background()
TimedOut == main = "draining" /\ Busy # {}

\* Mutant: no return after the warning.
DrainTimesOut_FallsThrough ==
  /\ TimedOut
  /\ main' = "stopped"
  /\ said' = said \cup {"HTTP server shutdown successfully"}
  /\ UNCHANGED <<avars, hvars, sigChan>>

\* defaultShutdownTimeout passed first: a warning, and nil.
DrainTimesOut ==
  /\ TimedOut
  /\ main' = "stopped"
  /\ UNCHANGED <<avars, hvars, sigChan, said>>

ShutdownFuncReturns ==
  /\ Goto("stopped", "returning")
  /\ said' = said \cup {"all services shutdown successfully",
                        "graceful shutdown completed successfully"}
  /\ UNCHANGED <<avars, hvars, sigChan>>

\* Closing the listener failed: "graceful shutdown failed".
DrainFails ==
  /\ Goto("draining", "returning")
  /\ Busy = {} /\ listener = "closed"
  /\ CloseIdle
  /\ UNCHANGED <<avars, listener, inShutdown, sigChan, said>>

\* signal.Stop is deferred by WaitForShutdown.
WaitReturns ==
  /\ Goto("returning", "returned")
  /\ UNCHANGED <<avars, hvars, sigChan, said>>

\* The end of the process cuts the connections that are still open.
CutConnections ==
  conn' = [c \in Conns |-> IF conn[c] = "aborted" THEN "aborted" ELSE "none"]

\* runServer and main return.
Exit ==
  /\ Goto("returned", "exited")
  /\ CutConnections
  /\ UNCHANGED <<avars, listener, inShutdown, sigChan, said>>

------------------------------------------------------------------------------
(* Signals.                                                                 *)

Notified_OneShot == main = "waiting"        \* mutant: signal.Stop after the first signal
Notified ==
  main \in {"waiting", "received", "closing", "joining", "draining", "stopped", "returning"}

\* The channel holds one signal; a further one is dropped.
SignalQueued ==
  /\ Notified
  /\ sigChan' = TRUE
  /\ UNCHANGED <<avars, main, hvars, said>>

\* Without signal.Notify SIGINT and SIGTERM end the process.
SignalKills ==
  /\ Running /\ ~Notified
  /\ main' = "killed"
  /\ CutConnections
  /\ UNCHANGED <<avars, listener, inShutdown, sigChan, said>>

------------------------------------------------------------------------------
(* The HTTP server.                                                         *)

\* ListenAndServe looks at the flag before it listens.  A failure to listen is
\* logged, and the goroutine ends.
Listen(ok) ==
  /\ Running /\ listener = "spawned"
  /\ listener' = IF inShutdown THEN "refused" ELSE IF ok THEN "bound" ELSE "failed"
  /\ UNCHANGED <<avars, main, inShutdown, conn, sigChan, said>>

\* Serve looks again, under the lock, before it hands its listener to Shutdown.
Serve ==
  /\ Running /\ listener = "bound"
  /\ listener' = IF inShutdown THEN "refused" ELSE "listening"
  /\ UNCHANGED <<avars, main, inShutdown, conn, sigChan, said>>

\* Accept fails on the closed listener: ErrServerClosed, which is not logged.
ServeReturns ==
  /\ Running /\ listener \in {"closing", "ending"}
  /\ listener' = "closed"
  /\ UNCHANGED <<avars, main, inShutdown, conn, sigChan, said>>

Move(c, from, to) ==
  /\ Running /\ conn[c] \in from
  /\ conn' = [conn EXCEPT ![c] = to]
  /\ UNCHANGED <<avars, main, listener, inShutdown, sigChan, said>>

\* A connection taken just before the listener was closed is still served.
Accept(c) ==
  /\ Running /\ listener \in {"listening", "closing"}
  /\ conn[c] = "none"
  /\ conn' = [conn EXCEPT ![c] = "new"]
  /\ listener' = IF listener = "closing" THEN "ending" ELSE "listening"
  /\ UNCHANGED <<avars, main, inShutdown, sigChan, said>>

\* Also while the server shuts down, on a connection it did not close yet.
BeginRequest(c) == Move(c, {"new", "idle"}, "active")

\* Gathering from the nil registry panics, and net/http drops the connection.
EndRequest(c) ==
  Move(c, {"active"}, IF c \in Scrapers /\ agent = "rejected" THEN "aborted"
                      ELSE IF inShutdown THEN "none" ELSE "idle")

\* The client closes, ReadTimeout or IdleTimeout passes, or a poll of Shutdown
\* takes a connection that stayed without a request for idle.
Leave(c) == Move(c, {"new", "idle"}, "none")

------------------------------------------------------------------------------
\* The collection goroutine and its ticker run until the process ends.
Collection ==
  /\ Running
  /\ Agent!RoundSteps \/ Agent!FireTick
  /\ UNCHANGED <<main, hvars, sigChan, said>>

Terminated == ~Running /\ UNCHANGED vars

MainSteps ==
  \/ (\E ok \in BOOLEAN : LoadConfig(ok) \/ InitLogger(ok))
  \/ InitAgent \/ InitFatal \/ StartServer \/ NotifySignals \/ ReceiveSignal
  \/ BeginShutdown \/ CloseListener \/ JoinListener
  \/ PollConnections \/ Drained \/ DrainTimesOut \/ DrainFails
  \/ ShutdownFuncReturns \/ WaitReturns \/ Exit

ListenerSteps == (\E ok \in BOOLEAN : Listen(ok)) \/ Serve \/ ServeReturns

Next ==
  \/ MainSteps \/ ListenerSteps \/ SignalQueued \/ SignalKills
  \/ \E c \in Conns : Accept(c) \/ BeginRequest(c) \/ EndRequest(c) \/ Leave(c)
  \/ Collection \/ Terminated

(***************************************************************************)
(* The main goroutine runs when it can, the five seconds of Shutdown pass, *)
(* and so does its listener goroutine.  No request has to end.             *)
(***************************************************************************)
Spec == Init /\ [][Next]_vars
FairSpec ==
  Spec /\ WF_vars(MainSteps) /\ WF_vars(ListenerSteps)

------------------------------------------------------------------------------
TypeOK ==
  /\ Agent!TypeOK
  /\ main \in {"load", "logger", "init", "started", "waiting", "received", "closing", "joining",
               "draining", "stopped", "returning", "returned", "exited", "killed"}
  /\ listener \in {"none", "spawned", "bound", "listening", "closing", "ending", "closed",
                   "refused", "failed"}
  /\ inShutdown \in BOOLEAN /\ sigChan \in BOOLEAN
  /\ conn \in [Conns -> {"none", "new", "active", "idle", "aborted"}]
  /\ said \subseteq {"HTTP server shutdown successfully", "all services shutdown successfully",
                     "graceful shutdown completed successfully"}

(* A server that reports a successful shutdown serves no request when it   *)
(* says so, and none begins afterwards, although the process goes on.      *)
StoppedMeansDrained ==
  "HTTP server shutdown successfully" \in said => \A c \in Conns : conn[c] # "active"

(* While the server drains, and ever after, no connection is accepted: not  *)
(* one that was on its way when the listener was closed, and not by a       *)
(* listener goroutine that runs only when the signal has come.              *)
NoAcceptWhileDraining ==
  [][(\E c \in Conns : conn[c] = "none" /\ conn'[c] = "new")
       => main \notin {"draining", "stopped", "returning", "returned"}]_vars

(* Whatever the collection loop, the listener goroutine and the signals do  *)
(* meanwhile, to its clients the process is a server that stops gracefully: *)
(* from the return of Serve to the end of Shutdown nobody gets in and nobody *)
(* is cut off, by no further signal either; "shutdown successfully" is said *)
(* when all have left; and whom the end of the process cuts off was there   *)
(* before signals were awaited, or after the deadline.                      *)
ServerPhase ==
  IF ~Running THEN "gone"
  ELSE IF "HTTP server shutdown successfully" \in said THEN "stopped"
  ELSE IF listener \in {"listening", "closing", "ending"} THEN "open"
  ELSE IF ~inShutdown THEN "down"
  ELSE IF main \in {"closing", "joining", "draining"} THEN "stopping"
  ELSE "late"

Server == INSTANCE GracefulServer WITH
  phase <- ServerPhase, busy <- Busy, idle <- {c \in Conns : conn[c] = "idle"}

ServesGracefully == Server!Spec

(* A signal taken by WaitForShutdown ends the process, although requests   *)
(* may hang and further signals may come.                                  *)
SignalEndsProcess == (main = "waiting" /\ sigChan) ~> ~Running

------------------------------------------------------------------------------
(* What messages and comments of the code say, and the code does not do.   *)

(* root.go: "start HTTP server failed" ends runServer.                     *)
ListenFailureEndsProcess == listener = "failed" ~> ~Running

(* server.go: "graceful shutdown completed successfully".                  *)
GracefulMeansDrained ==
  "graceful shutdown completed successfully" \in said => \A c \in Conns : conn[c] # "active"

(* registers.go: the registry "can be used by the HTTP endpoint to expose  *)
(* metrics"; a scrape never dies of a registry that is not there.          *)
NoRequestAborted == \A c \in Conns : conn[c] # "aborted"
==============================================================================
