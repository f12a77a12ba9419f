---------------------------- MODULE GracefulServer ----------------------------
(***************************************************************************)
(* What the clients of the HTTP server may rely on when it is shut down    *)
(* gracefully (Server.Start and Server.Shutdown): while it stops none of   *)
(* them gets in and none that is served is cut off, and it is stopped only *)
(* when nobody is left.  A deadline may end the stopping first; then, or   *)
(* before anybody asked it to stop, the server may go and cut off whoever  *)
(* is there.                                                               *)
(***************************************************************************)
CONSTANT Conns        \* connections

VARIABLES
  phase,              \* "down", "open", "stopping", "stopped", "late" or "gone"
  busy,               \* connections with a request, or none yet
  idle                \* connections kept alive between two requests

svars == <<phase, busy, idle>>

Init == phase = "down" /\ busy = {} /\ idle = {}

Phase(from, to) == phase \in from /\ phase' = to

Open == Phase({"down"}, "open") /\ UNCHANGED <<busy, idle>>

Connect(c) ==
  /\ phase = "open"
  /\ c \notin busy \cup idle
  /\ busy' = busy \cup {c}
  /\ UNCHANGED <<phase, idle>>

\* While the server stops, too: the client may not know yet.
Request(c) ==
  /\ phase \in {"open", "stopping", "late"}
  /\ c \in idle
  /\ idle' = idle \ {c} /\ busy' = busy \cup {c}
  /\ UNCHANGED phase

Rest(c) ==
  /\ phase = "open"
  /\ c \in busy
  /\ busy' = busy \ {c} /\ idle' = idle \cup {c}
  /\ UNCHANGED phase

\* Connections end one by one, each when its own request or its client does.
Leave(c) ==
  /\ c \in busy \cup idle
  /\ busy' = busy \ {c} /\ idle' = idle \ {c}
  /\ UNCHANGED phase

Stop == Phase({"down", "open"}, "stopping") /\ UNCHANGED <<busy, idle>>

CloseIdle ==
  /\ phase = "stopping"
  /\ idle' = {}
  /\ UNCHANGED <<phase, busy>>

Stopped ==
  /\ Phase({"stopping"}, "stopped")
  /\ busy = {}
  /\ idle' = {}
  /\ UNCHANGED busy

\* The deadline passed first, or the listener could not be closed.
GiveUp ==
  /\ Phase({"stopping"}, "late")
  /\ idle' \in {idle, {}}
  /\ UNCHANGED busy

\* Never while the server stops.
Go ==
  /\ Phase({"down", "open", "late", "stopped"}, "gone")
  /\ busy' = {} /\ idle' = {}

Next ==
  \/ Open \/ Stop \/ CloseIdle \/ Stopped \/ GiveUp \/ Go
  \/ \E c \in Conns : Connect(c) \/ Request(c) \/ Rest(c) \/ Leave(c)

Spec == Init /\ [][Next]_svars
==============================================================================
