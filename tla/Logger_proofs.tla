---------------------------- MODULE Logger_proofs ----------------------------
(* What holds of InitLogger for every set of goroutines and whatever level  *)
(* each of them asks for.                                                   *)
EXTENDS Logger, TLAPS

Inside == {"mkdir", "rotate", "assign", "mark", "leaving"}

(* The mutex of the sync.Once is held while its function runs, and what     *)
(* ends, or returns without running it, has waited for it to be done.       *)
Once ==
  /\ \A c \in Callers : pc[c] \in Inside <=> owner = c
  /\ done => owner = Nobody
  /\ \A c \in Callers : pc[c] = "returning" \/ got[c].returned => done

(* No logger was made yet, or one was made and marked.                      *)
Fresh == made = {} /\ baseLogger = NoLogger /\ ~loggerInitialized
Made  == baseLogger # NoLogger /\ loggerInitialized /\ \A c, d \in made : c = d

Noticed == told # {} \/ \E c \in Callers : err[c]

(* How far the function got, while it runs and when it is done.             *)
Progress ==
  /\ ~done /\ owner = Nobody => Fresh
  /\ \A c \in Callers :
       /\ pc[c] \in {"mkdir", "rotate", "assign"} => Fresh
       /\ pc[c] = "mark" => made = {c} /\ baseLogger # NoLogger
       /\ pc[c] = "leaving" => Made \/ (Fresh /\ err[c])
  /\ done => Made \/ (Fresh /\ Noticed)

(* What was returned is the logger, if anything; an error that was not      *)
(* returned yet is still there to be returned.                              *)
Given == \A c \in Callers : got[c].logger \in {NoLogger, baseLogger}
Told  == \A c \in Callers : pc[c] = "idle" /\ err[c] => c \in told

IInv == TypeOK /\ Once /\ Progress /\ Given /\ Told /\ LoggerIsReady

(* An error on its way to a caller is the only one, and the first; after it *)
(* has arrived there is no logger, for good.                                *)
Pending(c) == err[c] /\ pc[c] \notin {"idle", "panicked"}
Sole ==
  /\ \A c \in Callers : Pending(c) =>
       /\ Fresh /\ told = {}
       /\ pc[c] \in {"leaving", "returning"}
       /\ \A d \in Callers : Pending(d) => d = c
  /\ told # {} => Fresh /\ done

------------------------------------------------------------------------------
LEMMA ZapLevelType == \A level : ZapLevel(level) \in Levels
BY Zenon DEF ZapLevel, Levels

LEMMA InitIInv == Init => IInv
<1> SUFFICES ASSUME Init PROVE IInv
  OBVIOUS
<1> USE CallersAssumption DEF Init, NoResult
<1>1. TypeOK
  BY DEF TypeOK
<1>2. Once /\ Given /\ Told /\ LoggerIsReady
  BY DEF Once, Inside, Given, Told, LoggerIsReady
<1>3. Progress
  BY DEF Progress, Fresh
<1> QED
  BY <1>1, <1>2, <1>3 DEF IInv

LEMMA NextIInv == IInv /\ [Next]_vars => IInv'
<1> SUFFICES ASSUME IInv, [Next]_vars PROVE IInv'
  OBVIOUS
<1> USE CallersAssumption DEF IInv, ovars, gvars, hvars
<1>1. ASSUME NEW c \in Callers, Call(c) PROVE IInv'
  <2> USE <1>1 DEF Call, Goto
  <2>1. TypeOK'
    BY DEF TypeOK
  <2>2. Once' /\ Given' /\ Told' /\ LoggerIsReady'
    BY DEF TypeOK, Once, Inside, Given, Told, LoggerIsReady
  <2>3. Progress'
    BY DEF TypeOK, Progress, Fresh, Made, Noticed, Told
  <2> QED
    BY <2>1, <2>2, <2>3
<1>2. ASSUME NEW c \in Callers, Run(c) PROVE IInv'
  <2> USE <1>2 DEF Run, Goto, MayRun
  <2>1. TypeOK'
    BY DEF TypeOK
  <2>2. Once' /\ Given' /\ Told' /\ LoggerIsReady'
    BY DEF TypeOK, Once, Inside, Given, Told, LoggerIsReady
  <2>3. Progress'
    BY DEF TypeOK, Once, Inside, Progress, Fresh, Made, Noticed
  <2> QED
    BY <2>1, <2>2, <2>3
<1>3. ASSUME NEW c \in Callers, Skip(c) PROVE IInv'
  <2> USE <1>3 DEF Skip, Goto, MaySkip
  <2>1. TypeOK'
    BY DEF TypeOK
  <2>2. Once' /\ Given' /\ Told' /\ LoggerIsReady'
    BY DEF TypeOK, Once, Inside, Given, Told, LoggerIsReady
  <2>3. Progress'
    BY DEF TypeOK, Once, Inside, Progress, Fresh, Made, Noticed
  <2> QED
    BY <2>1, <2>2, <2>3
<1>4. ASSUME NEW c \in Callers, MkdirAll(c) \/ NewWriter(c) PROVE IInv'
  <2> USE <1>4 DEF MkdirAll, NewWriter, Step, Goto
  <2>1. TypeOK'
    BY DEF TypeOK
  <2>2. Once' /\ Given' /\ Told' /\ LoggerIsReady'
    BY DEF TypeOK, Once, Inside, Given, Told, LoggerIsReady
  <2>3. Progress'
    BY DEF TypeOK, Once, Inside, Progress, Fresh, Made, Noticed
  <2> QED
    BY <2>1, <2>2, <2>3
<1>5. ASSUME NEW c \in Callers, MkdirAllFails(c) \/ NewWriterFails(c) PROVE IInv'
  <2> USE <1>5 DEF MkdirAllFails, NewWriterFails, Goto, Report
  <2>1. TypeOK'
    BY DEF TypeOK
  <2>2. Once' /\ Given' /\ Told' /\ LoggerIsReady'
    BY DEF TypeOK, Once, Inside, Given, Told, LoggerIsReady
  <2>3. Progress'
    BY DEF TypeOK, Once, Inside, Progress, Fresh, Made, Noticed
  <2> QED
    BY <2>1, <2>2, <2>3
<1>6. ASSUME NEW c \in Callers, AssignLogger(c) PROVE IInv'
  <2> USE <1>6 DEF AssignLogger, Goto
  <2>0. baseLogger' \in Levels /\ baseLogger' # NoLogger
    BY ZapLevelType DEF Levels, NoLogger
  <2>1. TypeOK'
    BY <2>0 DEF TypeOK
  <2>2. Once' /\ Told' /\ LoggerIsReady'
    BY DEF TypeOK, Once, Inside, Told, LoggerIsReady
  <2>3. Given'
    BY DEF TypeOK, Given, Progress, Fresh
  <2>4. Progress'
    BY <2>0 DEF TypeOK, Once, Inside, Progress, Fresh, Made, Noticed
  <2> QED
    BY <2>1, <2>2, <2>3, <2>4
<1>7. ASSUME NEW c \in Callers, MarkInitialized(c) PROVE IInv'
  <2> USE <1>7 DEF MarkInitialized, Goto
  <2>1. TypeOK'
    BY DEF TypeOK
  <2>2. Once' /\ Given' /\ Told' /\ LoggerIsReady'
    BY DEF TypeOK, Once, Inside, Given, Told, LoggerIsReady
  <2>3. Progress'
    BY DEF TypeOK, Once, Inside, Progress, Fresh, Made, Noticed
  <2> QED
    BY <2>1, <2>2, <2>3
<1>8. ASSUME NEW c \in Callers, Leave(c) PROVE IInv'
  <2> USE <1>8 DEF Leave, Goto, Release
  <2>1. TypeOK'
    BY DEF TypeOK
  <2>2. Once' /\ Given' /\ Told' /\ LoggerIsReady'
    BY DEF TypeOK, Once, Inside, Given, Told, LoggerIsReady
  <2>3. Progress'
    BY DEF TypeOK, Once, Inside, Progress, Fresh, Made, Noticed
  <2> QED
    BY <2>1, <2>2, <2>3
<1>9. ASSUME NEW c \in Callers, Return(c) PROVE IInv'
  <2> USE <1>9 DEF Return, Goto
  <2>1. TypeOK'
    BY DEF TypeOK
  <2>2. Once' /\ Given' /\ Told' /\ LoggerIsReady'
    BY DEF TypeOK, Once, Inside, Given, Told, LoggerIsReady
  <2>3. Progress'
    BY DEF TypeOK, Once, Inside, Progress, Fresh, Made, Noticed
  <2> QED
    BY <2>1, <2>2, <2>3
<1>10. ASSUME NEW c \in Callers, LogPanics(c) PROVE IInv'
  <2> USE <1>10 DEF LogPanics, Goto
  <2>1. TypeOK'
    BY DEF TypeOK
  <2>2. Once' /\ Given' /\ Told'
    BY DEF TypeOK, Once, Inside, Given, Told
  <2>3. Progress'
    BY DEF TypeOK, Once, Inside, Progress, Fresh, Made, Noticed
  <2>4. LoggerIsReady'
    BY DEF TypeOK, Once, Progress, Fresh, Made, Given, LoggerIsReady
  <2> QED
    BY <2>1, <2>2, <2>3, <2>4
<1>11. CASE UNCHANGED vars
  BY <1>11 DEF vars, TypeOK, Once, Progress, Fresh, Made, Noticed, Given, Told, LoggerIsReady
<1> QED
  BY <1>1, <1>2, <1>3, <1>4, <1>5, <1>6, <1>7, <1>8, <1>9, <1>10, <1>11
     DEF Next, InitLogger, Terminated

LEMMA Invariant == Spec => []IInv
BY InitIInv, NextIInv, PTL DEF Spec

------------------------------------------------------------------------------
(* Every variable of Logger keeps its type.                                 *)
THEOREM Typed == Spec => []TypeOK
BY Invariant, PTL DEF IInv

(* However many goroutines initialise the logger at once, they share one.   *)
THEOREM LoggerIsUnique == Spec => []OneLogger
<1>1. IInv => OneLogger
  <2> SUFFICES ASSUME IInv PROVE OneLogger
    OBVIOUS
  <2>1. \A c, d \in made : c = d
    BY CallersAssumption DEF IInv, TypeOK, Once, Inside, Progress, Fresh, Made
  <2> QED
    BY <2>1 DEF IInv, Given, OneLogger
<1> QED
  BY <1>1, Invariant, PTL

(* A goroutine that was given a logger does not panic when it logs.         *)
THEOREM GivenLoggerLogs == Spec => []LoggerIsReady
BY Invariant, PTL DEF IInv

(* A failed initialisation has been, or is about to be, returned as an error. *)
THEOREM FailureNoticed == Spec => []FailureReported
<1>1. IInv => FailureReported
  BY DEF IInv, Progress, Made, Noticed, FailureReported
<1> QED
  BY <1>1, Invariant, PTL

------------------------------------------------------------------------------
LEMMA InitSole == Init => Sole
BY DEF Init, Sole, Pending

LEMMA NextSole == IInv /\ Sole /\ [Next]_vars => Sole'
<1> SUFFICES ASSUME IInv, Sole, [Next]_vars PROVE Sole'
  OBVIOUS
<1> USE CallersAssumption DEF IInv, TypeOK, Once, Inside, Fresh, Sole, Pending, ovars, gvars, hvars, Goto
<1>1. ASSUME NEW c \in Callers, Call(c) \/ LogPanics(c) PROVE Sole'
  BY <1>1 DEF Call, LogPanics
<1>2. ASSUME NEW c \in Callers, Run(c) \/ Skip(c) PROVE Sole'
  BY <1>2 DEF Run, Skip, MayRun, MaySkip
<1>3. ASSUME NEW c \in Callers, MkdirAll(c) \/ NewWriter(c) PROVE Sole'
  BY <1>3 DEF MkdirAll, NewWriter, Step
<1>4. ASSUME NEW c \in Callers, MkdirAllFails(c) \/ NewWriterFails(c) PROVE Sole'
  BY <1>4 DEF MkdirAllFails, NewWriterFails, Report, Progress
<1>5. ASSUME NEW c \in Callers, AssignLogger(c) \/ MarkInitialized(c) PROVE Sole'
  BY <1>5 DEF AssignLogger, MarkInitialized
<1>6. ASSUME NEW c \in Callers, Leave(c) PROVE Sole'
  BY <1>6 DEF Leave, Release
<1>7. ASSUME NEW c \in Callers, Return(c) PROVE Sole'
  BY <1>7 DEF Return
<1>8. CASE UNCHANGED vars
  BY <1>8 DEF vars
<1> QED
  BY <1>1, <1>2, <1>3, <1>4, <1>5, <1>6, <1>7, <1>8 DEF Next, InitLogger, Terminated

(* InitLogger is atomic for its callers: what the steps of all of them do to *)
(* what they see is one decision, and then answers that repeat it.          *)
THEOREM Atomic == Spec => InitLoggerAtomic
<1>1. Init => Promise!Init
  BY DEF Init, NoResult, Promise!Init, Promise!Undecided
<1>2. IInv /\ Sole /\ [Next]_vars => [Promise!Next]_(Promise!ovars)
  <2> SUFFICES ASSUME IInv, Sole, [Next]_vars PROVE [Promise!Next]_(Promise!ovars)
    OBVIOUS
  <2> USE CallersAssumption DEF ovars, gvars, hvars, Goto, Promise!ovars
  <2>1. ASSUME NEW c \in Callers, Call(c) \/ LogPanics(c) \/ Run(c) \/ Skip(c) \/ MkdirAll(c)
                 \/ NewWriter(c) \/ MkdirAllFails(c) \/ NewWriterFails(c) \/ MarkInitialized(c)
        PROVE  UNCHANGED Promise!ovars
    BY <2>1 DEF Call, LogPanics, Run, Skip, MkdirAll, NewWriter, Step, MkdirAllFails,
                NewWriterFails, MarkInitialized
  <2>2. ASSUME NEW c \in Callers, AssignLogger(c) PROVE UNCHANGED Promise!ovars
    <3>1. ~done
      BY <2>2 DEF AssignLogger, IInv, Once, Inside
    <3> QED
      BY <2>2, <3>1 DEF AssignLogger
  <2>3. ASSUME NEW c \in Callers, Leave(c) PROVE Promise!Decide
    <3>1. ~done /\ done' /\ baseLogger \in Levels \cup {NoLogger}
      BY <2>3 DEF Leave, Release, IInv, TypeOK, Once, Inside
    <3> QED
      BY <2>3, <3>1 DEF Leave, Release, Promise!Decide, Promise!Undecided
  <2>4. ASSUME NEW c \in Callers, Return(c)
        PROVE  Promise!Return(c) \/ Promise!ReturnError(c) 
    <3>1. done /\ baseLogger \in Levels \cup {NoLogger} /\ baseLogger # "undecided"
      BY <2>4 DEF Return, IInv, TypeOK, Once, Levels, NoLogger
    <3>2. Promise!Answer(c)
      BY <2>4, <3>1 DEF Return, Promise!Answer, Promise!Undecided
    <3>3. CASE ~err[c]
      BY <2>4, <3>2, <3>3 DEF Return, Promise!Return
    <3>4. CASE err[c]
      <4>1. Fresh /\ told = {}
        BY <2>4, <3>4 DEF Return, Sole, Pending
      <4> QED
        BY <2>4, <3>1, <3>2, <3>4, <4>1 DEF Return, Fresh, Promise!ReturnError
    <3> QED
      BY <3>3, <3>4
  <2>5. CASE UNCHANGED vars
    BY <2>5 DEF vars
  <2> QED
    BY <2>1, <2>2, <2>3, <2>4, <2>5 DEF Next, InitLogger, Terminated, Promise!Next
<1> QED
  BY <1>1, <1>2, InitSole, NextSole, Invariant, PTL DEF Spec, InitLoggerAtomic, Promise!Spec
==============================================================================
