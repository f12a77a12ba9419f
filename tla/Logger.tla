------------------------------- MODULE Logger -------------------------------
(***************************************************************************)
(* The package logger: InitLogger under a sync.Once, and logging through   *)
(* the global instance that it makes.  Goroutines call InitLogger at the   *)
(* same time and repeatedly, each with its own configuration, and log once *)
(* a call of theirs has returned, as the package's rules ask.              *)
(***************************************************************************)
EXTENDS LogLevel

CONSTANTS
  Callers,            \* goroutines
  Level               \* the level in the configuration of each caller

NoLogger == "nil"
Nobody == "nobody"
Levels == {"debug", "info", "warn", "error"}

ASSUME CallersAssumption == Nobody \notin Callers

VARIABLES
  pc,                 \* control point of each caller
  done,               \* sync.Once: the function has returned
  owner,              \* sync.Once: who holds its mutex
  baseLogger,         \* the logger, told by its level
  loggerInitialized,
  err,                \* the error of each call
  got,                \* what the last InitLogger of each caller returned
  made,               \* history: the callers that made a logger
  told                \* history: the callers that were told of an error

ovars == <<done, owner>>
gvars == <<baseLogger, loggerInitialized>>
hvars == <<made, told>>
vars  == <<pc, ovars, gvars, err, got, hvars>>

NoResult == [returned |-> FALSE, logger |-> NoLogger]

Init ==
  /\ pc = [c \in Callers |-> "idle"]
  /\ done = FALSE /\ owner = Nobody
  /\ baseLogger = NoLogger /\ loggerInitialized = FALSE
  /\ err = [c \in Callers |-> FALSE]
  /\ got = [c \in Callers |-> NoResult]
  /\ made = {} /\ told = {}

Goto(c, from, to) == pc[c] = from /\ pc' = [pc EXCEPT ![c] = to]

------------------------------------------------------------------------------
(* InitLogger.                                                              *)

\* Mutant: a logger that is there already is returned without the Once.
Call_FastPath(c) ==
  /\ Goto(c, "idle", IF baseLogger = NoLogger THEN "once" ELSE "returning")
  /\ err' = [err EXCEPT ![c] = FALSE]
  /\ UNCHANGED <<ovars, gvars, got, hvars>>

Call(c) ==
  /\ Goto(c, "idle", "once")
  /\ err' = [err EXCEPT ![c] = FALSE]
  /\ UNCHANGED <<ovars, gvars, got, hvars>>

\* loggerInitOnce.Do: the first caller runs the function, with the mutex held.
MayRun == ~done /\ owner = Nobody

\* Mutant: asks loggerInitialized instead of the Once.
Run_IfNotInitialized(c) ==
  /\ Goto(c, "once", "mkdir")
  /\ ~loggerInitialized
  /\ UNCHANGED <<ovars, gvars, err, got, hvars>>

Run(c) ==
  /\ Goto(c, "once", "mkdir")
  /\ MayRun
  /\ owner' = c
  /\ UNCHANGED <<done, gvars, err, got, hvars>>

MaySkip == done

Skip(c) ==
  /\ Goto(c, "once", "returning")
  /\ MaySkip
  /\ UNCHANGED <<ovars, gvars, err, got, hvars>>

Step(c, from, to) == Goto(c, from, to) /\ UNCHANGED <<ovars, gvars, err, got, hvars>>

MkdirAll(c) == Step(c, "mkdir", "rotate")

\* Mutant: a new err inside the function hides the one that is returned.
Report_Shadowed(c) == UNCHANGED err
Report(c) == err' = [err EXCEPT ![c] = TRUE]

\* Mutant: calls InitLogger again, with another directory, inside the Once.
MkdirAllFails_Again(c) == Step(c, "mkdir", "once")

\* Mutant: no return after the error.
MkdirAllFails_Continues(c) ==
  /\ Goto(c, "mkdir", "rotate")
  /\ Report(c)
  /\ UNCHANGED <<ovars, gvars, got, hvars>>

MkdirAllFails(c) ==
  /\ Goto(c, "mkdir", "leaving")
  /\ Report(c)
  /\ UNCHANGED <<ovars, gvars, got, hvars>>

\* rotatelogs.New
NewWriter(c) == Step(c, "rotate", "assign")

NewWriterFails(c) ==
  /\ Goto(c, "rotate", "leaving")
  /\ Report(c)
  /\ UNCHANGED <<ovars, gvars, got, hvars>>

AssignLogger(c) ==
  /\ Goto(c, "assign", "mark")
  /\ baseLogger' = ZapLevel(Level[c])
  /\ made' = made \cup {c}
  /\ UNCHANGED <<ovars, loggerInitialized, err, got, told>>

MarkInitialized(c) ==
  /\ Goto(c, "mark", "leaving")
  /\ loggerInitialized' = TRUE
  /\ UNCHANGED <<ovars, baseLogger, err, got, hvars>>

\* sync.Once is done however the function ended.
Release == done' = TRUE /\ owner' = Nobody

Leave(c) ==
  /\ Goto(c, "leaving", "returning")
  /\ Release
  /\ UNCHANGED <<gvars, err, got, hvars>>

Return(c) ==
  /\ Goto(c, "returning", "idle")
  /\ got' = [got EXCEPT ![c] = [returned |-> TRUE, logger |-> baseLogger]]
  /\ told' = IF err[c] THEN told \cup {c} ELSE told
  /\ UNCHANGED <<ovars, gvars, err, made>>

InitLogger(c) ==
  \/ Run(c) \/ Skip(c) \/ MkdirAll(c) \/ MkdirAllFails(c) \/ NewWriter(c)
  \/ NewWriterFails(c) \/ AssignLogger(c) \/ MarkInitialized(c) \/ Leave(c) \/ Return(c)

------------------------------------------------------------------------------
\* log, and GetGlobalLogger: the check that ends in a panic.
LogPanics(c) ==
  /\ Goto(c, "idle", "panicked")
  /\ got[c].returned /\ ~loggerInitialized
  /\ UNCHANGED <<ovars, gvars, err, got, hvars>>

Terminated == (\A c \in Callers : pc[c] = "panicked") /\ UNCHANGED vars

Next == (\E c \in Callers : Call(c) \/ InitLogger(c) \/ LogPanics(c)) \/ Terminated

\* Nobody need call InitLogger; a call that began goes on.
Spec == Init /\ [][Next]_vars
FairSpec == Spec /\ \A c \in Callers : WF_vars(InitLogger(c))

------------------------------------------------------------------------------
TypeOK ==
  /\ pc \in [Callers -> {"idle", "once", "mkdir", "rotate", "assign", "mark", "leaving", "returning",
                    "panicked"}]
  /\ done \in BOOLEAN /\ owner \in Callers \cup {Nobody}
  /\ baseLogger \in Levels \cup {NoLogger} /\ loggerInitialized \in BOOLEAN
  /\ err \in [Callers -> BOOLEAN]
  /\ got \in [Callers -> [returned : BOOLEAN, logger : Levels \cup {NoLogger}]]
  /\ made \subseteq Callers /\ told \subseteq Callers

(* However many goroutines call InitLogger at the same time, one logger is  *)
(* made, and all that return a logger return that one.                      *)
OneLogger ==
  /\ \A c, d \in made : c = d
  /\ \A c, d \in Callers :
       got[c].logger # NoLogger /\ got[d].logger # NoLogger => got[c].logger = got[d].logger

(* Who was given a logger by InitLogger can log at once, without a panic,   *)
(* even if the call of another goroutine made the logger.                   *)
LoggerIsReady == \A c \in Callers : pc[c] = "panicked" => got[c].logger = NoLogger

(* An initialisation that failed does not go unnoticed: a caller was told,  *)
(* or is told when its call returns.                                        *)
FailureReported == done /\ ~loggerInitialized => told # {} \/ \E c \in Callers : err[c]

(* For its callers all of InitLogger's steps are one: the logger, or that   *)
(* there is none, is decided once, before any call returns, and each answer *)
(* is that decision; the error of a failure reaches one call alone.         *)
Promise == INSTANCE OnceLogger WITH
  Loggers <- Levels, outcome <- IF done THEN baseLogger ELSE "undecided"

InitLoggerAtomic == Promise!Spec

(* Every call of InitLogger returns.                                        *)
CallsReturn == \A c \in Callers : pc[c] = "once" ~> pc[c] = "idle"
==============================================================================
