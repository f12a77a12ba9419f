------------------------------ MODULE OnceLogger ------------------------------
(***************************************************************************)
(* What the callers of InitLogger may rely on (the comments at its sync.Once *)
(* and at its doc): however many of them call it at the same time, it is   *)
(* settled once, for all of them, which logger there is or that there is   *)
(* none; no call returns before; and one call is told of a failure.        *)
(***************************************************************************)
CONSTANTS
  Callers,            \* goroutines
  Loggers,            \* loggers that can be made
  NoLogger            \* in the place of a logger, when none was made

Undecided == "undecided"

VARIABLES
  outcome,            \* the logger, NoLogger, or Undecided
  got,                \* what the last call of each caller returned
  told                \* callers that were told of an error

ovars == <<outcome, got, told>>

Init ==
  /\ outcome = Undecided
  /\ got = [c \in Callers |-> [returned |-> FALSE, logger |-> NoLogger]]
  /\ told = {}

\* The one step that initialises, or fails to.
Decide ==
  /\ outcome = Undecided
  /\ outcome' \in Loggers \cup {NoLogger}
  /\ UNCHANGED <<got, told>>

Answer(c) ==
  /\ outcome # Undecided
  /\ got' = [got EXCEPT ![c] = [returned |-> TRUE, logger |-> outcome]]
  /\ UNCHANGED outcome

Return(c) == Answer(c) /\ UNCHANGED told

\* The others see no error, and no logger.
ReturnError(c) ==
  /\ outcome = NoLogger /\ told = {}
  /\ Answer(c)
  /\ told' = {c}

Next == Decide \/ \E c \in Callers : Return(c) \/ ReturnError(c)

Spec == Init /\ [][Next]_ovars
==============================================================================
