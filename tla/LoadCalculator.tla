--------------------------- MODULE LoadCalculator ---------------------------
(***************************************************************************)
(* collector.LoadCalculator: the sampling goroutine and the callers of     *)
(* GetLoads share the averages under a sync.RWMutex.  Every access to a    *)
(* field is a step of its own.  The mutex is Go's: Lock first announces    *)
(* the writer, which keeps new readers out, then waits for the readers     *)
(* inside; Unlock lets in the readers that blocked meanwhile.  A sample    *)
(* that fails only logs a warning, and is no step.                         *)
(***************************************************************************)
EXTENDS LoadAverage

CONSTANT Readers      \* goroutines that call GetLoads

VARIABLES
  load, initialized,  \* the fields of LoadCalculator
  sampler,            \* control point of the sampling goroutine
  sample,             \* currentLoad
  wpos,               \* the field sampleAndUpdate writes next; 4: initialized
  phase,              \* control point of each reader
  rpos,               \* the field each reader reads next; 4: initialized
  got,                \* what it read so far
  ret                 \* history: what its last GetLoads returned

fvars == <<load, initialized>>
svars == <<sampler, sample, wpos>>
gvars == <<phase, rpos, got, ret>>
vars  == <<fvars, svars, gvars>>

Nothing == [load |-> Zero, initialized |-> FALSE]

Init ==
  /\ load = Zero /\ initialized = FALSE
  /\ sampler = "idle" /\ sample = Lo /\ wpos = 1
  /\ phase = [r \in Readers |-> "idle"]
  /\ rpos = [r \in Readers |-> 1]
  /\ got = [r \in Readers |-> Nothing]
  /\ ret = [r \in Readers |-> Nothing]

------------------------------------------------------------------------------
(* The sampling goroutine.                                                  *)

\* A tick, and getCurrentLoad returned a value.
Sample(v) ==
  /\ sampler = "idle"
  /\ sampler' = "lock"
  /\ sample' = v
  /\ UNCHANGED <<fvars, wpos, gvars>>

\* Lock announces the writer.
Announce ==
  /\ sampler = "lock"
  /\ sampler' = "pending"
  /\ UNCHANGED <<fvars, sample, wpos, gvars>>

NoReaderInside == \A r \in Readers : phase[r] # "reading"

\* Lock returns once the readers inside have left.
Acquire ==
  /\ sampler = "pending"
  /\ NoReaderInside
  /\ sampler' = "writing"
  /\ wpos' = 1
  /\ UNCHANGED <<fvars, sample, gvars>>

WriteLoad ==
  /\ sampler = "writing" /\ wpos < 4
  /\ load' = [load EXCEPT ![wpos] = AfterSample(wpos, initialized, @, sample)]
  /\ wpos' = wpos + 1
  /\ UNCHANGED <<initialized, sampler, sample, gvars>>

\* Only the first sample does this; a later one goes on to Unlock.
MarkInitialized ==
  /\ sampler = "writing" /\ wpos = 4 /\ ~initialized
  /\ initialized' = TRUE
  /\ UNCHANGED <<load, svars, gvars>>

Wake == phase' = [r \in Readers |-> IF phase[r] = "blocked" THEN "reading" ELSE phase[r]]

\* Mutant: without defer, an early return keeps the mutex.
Unlock_Forgotten ==
  /\ sampler = "writing" /\ wpos = 4 /\ initialized
  /\ UNCHANGED vars

Unlock ==
  /\ sampler = "writing" /\ wpos = 4 /\ initialized
  /\ sampler' = "idle"
  /\ Wake
  /\ UNCHANGED <<fvars, sample, wpos, rpos, got, ret>>

------------------------------------------------------------------------------
(* A caller of GetLoads.                                                    *)

KeepOut == sampler \in {"pending", "writing"}

\* Mutant: GetLoads reads without RLock.
RLock_Missing(r) ==
  /\ phase[r] = "idle"
  /\ phase' = [phase EXCEPT ![r] = "reading"]
  /\ rpos' = [rpos EXCEPT ![r] = 1]
  /\ got' = [got EXCEPT ![r] = Nothing]
  /\ UNCHANGED <<fvars, svars, ret>>

RLock(r) ==
  /\ phase[r] = "idle"
  /\ phase' = [phase EXCEPT ![r] = IF KeepOut THEN "blocked" ELSE "reading"]
  /\ rpos' = [rpos EXCEPT ![r] = 1]
  /\ got' = [got EXCEPT ![r] = Nothing]
  /\ UNCHANGED <<fvars, svars, ret>>

ReadLoad(r) ==
  /\ phase[r] = "reading" /\ rpos[r] < 4
  /\ got' = [got EXCEPT ![r].load = [@ EXCEPT ![rpos[r]] = load[rpos[r]]]]
  /\ rpos' = [rpos EXCEPT ![r] = @ + 1]
  /\ UNCHANGED <<fvars, svars, phase, ret>>

ReadInitialized(r) ==
  /\ phase[r] = "reading" /\ rpos[r] = 4
  /\ got' = [got EXCEPT ![r].initialized = initialized]
  /\ rpos' = [rpos EXCEPT ![r] = 5]
  /\ UNCHANGED <<fvars, svars, phase, ret>>

\* Mutant: GetLoads returns and keeps its lock.
RUnlock_Forgotten(r) ==
  /\ phase[r] = "reading" /\ rpos[r] = 5
  /\ rpos' = [rpos EXCEPT ![r] = 6]
  /\ ret' = [ret EXCEPT ![r] = got[r]]
  /\ UNCHANGED <<fvars, svars, phase, got>>

\* The deferred RUnlock, and the return of the four values.
RUnlock(r) ==
  /\ phase[r] = "reading" /\ rpos[r] = 5
  /\ phase' = [phase EXCEPT ![r] = "idle"]
  /\ ret' = [ret EXCEPT ![r] = got[r]]
  /\ UNCHANGED <<fvars, svars, rpos, got>>

Update == Announce \/ Acquire \/ WriteLoad \/ MarkInitialized \/ Unlock
InGet(r) == ReadLoad(r) \/ ReadInitialized(r) \/ RUnlock(r)

Next ==
  \/ \E v \in Samples : Sample(v)
  \/ Update
  \/ \E r \in Readers : RLock(r) \/ InGet(r)

(***************************************************************************)
(* A goroutine that can run is scheduled.  Nobody has to call GetLoads,    *)
(* and /proc/loadavg may stay unreadable: no fairness for RLock or Sample. *)
(***************************************************************************)
Spec == Init /\ [][Next]_vars
FairSpec == Spec /\ WF_vars(Update) /\ \A r \in Readers : WF_vars(InGet(r))

------------------------------------------------------------------------------
Snapshots == [load : [Fields -> 0 .. Hi], initialized : BOOLEAN]

TypeOK ==
  /\ load \in [Fields -> 0 .. Hi] /\ initialized \in BOOLEAN
  /\ sampler \in {"idle", "lock", "pending", "writing"}
  /\ sample \in Samples
  /\ wpos \in 1 .. 4
  /\ phase \in [Readers -> {"idle", "blocked", "reading"}]
  /\ rpos \in [Readers -> 1 .. 5]
  /\ got \in [Readers -> Snapshots]
  /\ ret \in [Readers -> Snapshots]

(* Values that GetLoads calls initialized lie between the smallest and the *)
(* largest load ever sampled: the zeros the fields start from take no part. *)
NoZeroBias ==
  \A r \in Readers :
    ret[r].initialized => \A k \in Fields : ret[r].load[k] \in Lo .. Hi

(* A sample that was read is published, although readers keep coming.      *)
SamplePublished == sampler = "lock" ~> sampler = "idle"

(* A reader that waits for the writer gets its turn and returns.           *)
ReadersServed == \A r \in Readers : phase[r] = "blocked" ~> phase[r] = "idle"

(* The averages an observer may see: while the writer is at work nobody    *)
(* reads, and its sample counts as published.                              *)
Published(k) ==
  IF sampler = "writing" /\ k >= wpos
    THEN AfterSample(k, initialized, load[k], sample)
    ELSE load[k]

Cell == INSTANCE LoadCell WITH
  load <- [k \in Fields |-> Published(k)],
  initialized <- (initialized \/ sampler = "writing")

(* GetLoads is atomic: it returns the averages of one moment, never load1  *)
(* of one sample with load15 of another.                                   *)
GetLoadsAtomic == Cell!Spec
==============================================================================
