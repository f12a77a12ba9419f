# A verification of agent-collector

TLA+ models of agent-collector, a Go agent that reads CPU figures of its host
from `/proc` and exposes them to Prometheus over HTTP.  The paths below are
relative to the repository's root, in which they start with `src/`.

 1. The system and its parts
 2. The modules and how they correspond to the code
 3. What TLC checks
 4. Fairness
 5. What is proved
 6. Where the code does not do what its texts say
 7. What is not modelled
 8. Plan

## 1. The system and its parts

`main` runs a cobra command whose `runServer` (`cmd/agent/root.go`) loads the
configuration, initialises the logger, starts the collectors, starts the HTTP
server, waits for a signal and shuts the server down.

    runServer ──► InitPromRegistry ──► AgentImpl ──(goroutine)──► CollectAll ──► CPUCollector.Collect
        │                                                                          │   │   │   │
        │                                             LoadCalculator ◄── GetLoads ─┘   │   │   └ /proc/cpuinfo
        │                                             (goroutine, RWMutex)             │   └ /proc/stat
        ├──► Server.Start ──(goroutine)──► ListenAndServe ──► handlers                 └ gopsutil
        └──► WaitForShutdown ──► Server.Shutdown

| component | state | operations | what is hard about it | what makes it correct |
|---|---|---|---|---|
| registry and collection loop, `pkg/registers/initregistrys.go`, `interfaces.go` | slice of collectors, ticker, own context | `Register`, `InitAll`, `Start`, `CollectAll`, `Shutdown`, `CloseAll` | two goroutines, a ticker with two owners, two contexts, a `select` that may prefer the tick | every round collects everybody; a failure costs only its own collector; `Shutdown` closes all and reports; nothing collects before its `Init`; cancellation ends the loop |
| registration, `pkg/registers/registers.go` | none | `InitPromRegistry`, `RegisterCollectors` | its error is dropped by the caller | the registry it returns can be served |
| load calculator, `pkg/collector/load_cpu.go` | three averages, `initialized`, RWMutex | `StartLoad`, `sampleAndUpdate`, `GetLoads` | three fields written and read one by one by two goroutines; the first sample has no predecessor | a reader sees one moment; the zero values leave no trace; nobody starves |
| CPU usage, `collectCPUFromProc` in `pkg/collector/cpu_collector.go` | `lastCPUTimes`, by label; nine gauges per label | one scan of `/proc/stat` | a scan may stop midway, CPUs go away and return, intervals may be empty, a scrape comes between two gauges | the shares add up; each tick is published once |
| CPU collector, the rest of that file | calculator, static info and its mark, gauges, counters | `NewCPUCollector`, `Init`, `Collect`, `Close` | four parts that fail one by one, three of them silently, while the sampler runs; a file whose format depends on the architecture, read once and perhaps not to its end | gauges of one moment; each failure counted; a series per processor, with a plausible core count; `Close` releases |
| HTTP server and process, `cmd/server/server.go`, `cmd/agent/root.go` | listener, connections, signal channel | `Start`, `Shutdown`, `WaitForShutdown`, handlers | five threads of control: main, listener, connections, collection, signals; a deadline races the last answers | what is reported on the way down is true; a signal ends the process |
| configuration, `pkg/config/*`, `cmd/agent/{log,monitor,server}.go` | a viper instance, the struct, the global `GlobalCfg` | load, merge, decode, validate | four sources with a precedence that the library decides; keys, flags, variables and tags that must match by name; three validators that overlap | the value used is the one of the source with precedence; what is accepted works where it is used |
| logger, `pkg/logger/logger.go` | global logger, its mark, `sync.Once` | `InitLogger`, the level functions, `Sync` | concurrent and repeated calls, an error that only the first caller sees, a panic for who logs too early | one logger; who is given it can log; a failure is heard of; every call returns |
| metrics, `pkg/metrics/*` | prometheus registry | `MustRegister`, constructors | duplicate registration panics | every metric is registered once |
| banner, version, entry point | none | output | nothing | - |

The components share little memory.  The collection goroutine is the only one
that calls `Collect`; the averages of the load calculator are the only data two
goroutines of the agent write and read, and they have a lock.  `Init` runs on the
main goroutine before the collection goroutine exists.  The gauges are
prometheus' own and are safe for concurrent use.  `PROJECT.json` lists, under
`hazards`, what can go wrong in each of these at the line where it would.

## 2. The modules and how they correspond to the code

    CollectorProtocol ◄─ implemented by ─ AgentLoop ◄─ INSTANCE ─ AgentProcess ─ implements ─► GracefulServer
    LoadAverage ◄─ EXTENDS ─ LoadCell ◄─ implemented by ─ LoadCalculator
                                  ▲ INSTANCE
           CPUInfo ◄─ EXTENDS ─ CPUCollector                      CPUUsage
           LogLevel ◄─ EXTENDS ─ Logger, Config                   Logger ─ implements ─► OnceLogger

Each component has a module `X`, an instance `XMC` with its `.cfg` files for TLC
and, where theorems are proved, `X_proofs`.  Operators marked *mutant* are
plausible bugs; none of them is part of a specification.  `PROJECT.json` names
under `mutants`, for each property, the definition the bug replaces and so makes
the property fail, and under `map` the lines each definition stands for.

**CollectorProtocol** is the abstract specification: what the author of a
collector may rely on.  A collector goes from `absent` to `new` to `ready`, one
collection at a time moves it to `collecting` and back, none begins while a
registered collector lacks its `Init`, and each collector is closed at most
once, after its `Init`.  It deliberately allows `Close` during `Collect`,
because the code does.

**AgentLoop** is `AgentImpl`.  `main` is the goroutine that calls the API,
`loop` the one `Start` spawns; each blocking or visible step is an action.
`Register` and `RegisterCollectorsReturns` are `RegisterCollectors`, with the
enabled modules chosen freely; `InitOne`, `InitFails`, `StartLoop` are `Start`;
`ShutdownStopsTicker`, `ShutdownCancels`, `CloseNext`, `ShutdownReturns` are
`Shutdown`.  `CallCollect` and `CollectReturns` bracket a call of `Collect`, so
that anything may happen during it.  `LoopEnds(done)` is each of the two `Done`
cases of the `select`.  The ticker's channel has one place (`tick`), a tick that
finds it full is lost, and `Stop` empties it: `go.mod` names Go 1.24.8, and since
Go 1.23 no tick is received after `Stop`.  `Shutdown` is called at most once, and after
`Start`: nothing in the program calls it, and its branch for a ticker that is still
nil is left out.  `CancelExternal` is the owner of the
context given to `Start`.  An error is its collector's position, nil is 0.

**LoadAverage** has the arithmetic.  `alpha = 1 - exp(-dt/T)` is `Alpha[k] / Scale`
for load1, load5, load15, and a product is rounded down: `Decay` keeps what
matters of the floating-point formula, that it is a weighted mean.  **LoadCell**
is the promise of `GetLoads`: a cell of four values, replaced and read whole.
**LoadCalculator** is the code: one action per field that `sampleAndUpdate`
writes or `GetLoads` reads, and the `RWMutex` with Go's rule that a waiting
writer keeps new readers out and, on `Unlock`, lets in those that waited.  `got`
is what a reader has gathered so far, `ret` what it returned last.

**CPUUsage** is `collectCPUFromProc`.  `Open`, then one of `FirstLine`, `SkipLine`,
`BeginLine` per line (no previous times, no time passed, shares to publish), and
`ScanFails` for an error of the scanner at any line.  After `BeginLine` the nine gauges of
the label are set one by one, the modes in any order (`SetMode`: the code ranges over a
map), then the total (`SetUsage`); a scrape may come between any two.  `Total` and `DeltaTotal` add
up the eight fields of `CPUTimes` as the code does, which writes the sum down
twice.  Labels are numbers in the order of the file's lines, 0 is `total`.  A share is
kept as a time and the total it is a share of, not as a quotient.
`Tick` and `Hotplug` are the kernel; while a file is open they would only show
in the next scan, since the kernel renders `/proc/stat` at the first read.
`account` is history: what was first and last read, and what was published.

**CPUCollector** is `NewCPUCollector`, `Init`, `Collect` and `Close` with every
failure.  It takes the load from a `LoadCell`: that `LoadCalculator` implements
one is proved (section 5).  Each `Set` of a load gauge is a step.  `counted` is
what the error counter has recorded since `Collect` began.  The data of
the usage part is in `CPUUsage`, here it succeeds or fails.  `InfoScanned(n, ok)`
is a scan of `/proc/cpuinfo` that stopped after `n` lines: the series is set and the
mark made before the scanner's error is looked at, as in the code.

**CPUInfo** is what `collectCPUInfoFromProc` makes of the lines it has read.  The loop
over the lines overwrites fields, so the fields after it are functions of the sequence:
the last value of a key, the set of the values of another one, the highest processor
number and one.  A line is its key and a number; a model name is a number, too.
`KernelFormat` says what `CoresPlausible` needs to know of a file that the kernel has
written: no core count is 0 or above the number of processors, and no processor has two
ids of a kind.

**Config** is `LoadConfigWithCli`, one action for each thing it does with the world:
`SetFlags`, `StatFile`, `ReadFile`, `Decode` and the validation.  The user gives flags
and variables before, and edits or removes the file until it is read.  Of the settings
there are seven: `addr`, whose flag, key and file name agree; `interval`, with a range;
the four `Switches`, whose flags have names that no key has, and of which the validator
wants one on, whichever; `level`, with three lists of accepted values.  `Path` are the
keys of the struct's tags, `Flag` the names of the flags, `EnvName` what `AutomaticEnv`
makes of a key.  The `env` tags of the struct are not there: nothing reads them.  `Find`
and `AllKeys` are viper's, and external: a value that was `Set`, the environment, the
file, the default of a flag; and the keys known are those of flags and file, so that a
variable for another key is never asked for.

**LogLevel** is what both the validator and the `switch` of `InitLogger` make of the
spelling of a level: `Lower`, and `ZapLevel` after it.  **Logger** has a control point per
goroutine, from the call of `InitLogger` through `sync.Once` (`owner` holds its mutex,
`done` is set however the function ends) to the return of the pair of the global
logger and an error that is local to the call.  A goroutine logs once a call of
its own returned; `LogPanics` is the check at the start of `log`.

**OnceLogger** is the promise of `InitLogger`: one step settles for everybody which
logger there is, or that there is none; calls return only after it and return what it
settled; and the error of a failure goes to one call.  `Logger` implements it with the
moment `done` is set as that step.

**GracefulServer** is the promise of `Server.Start` and `Server.Shutdown` to
clients: connections come only while the server is open; while it is `stopping` one that
is busy ends only by itself, and it is `stopped` when none is left.  A deadline may end the
stopping (`GiveUp`), after which the server is `late` and never says that it is
down.  It may be `gone` and cut off whoever is there at once (`Go`) from any phase but
`stopping`.

**AgentProcess** composes `AgentLoop` (renaming its `main` to `agent`) with
`runServer`, the listener goroutine, the connections of `net/http`, and signals.
`LoadConfig` and `InitLogger` are the two steps before, of which here only the
outcome matters; both end the process with status 1 when they fail.
`runServer` drops the `Agent` that `InitPromRegistry` returns and passes
`context.Background()`: the actions of `Shutdown` and `CancelExternal` therefore
never happen, and are no part of `Next`.  `Server.Shutdown` is called once, after
`Server.Start`.  Between the receipt of the signal and the polling there are steps of
their own, and connections are accepted in between: `ReceiveSignal`, `BeginShutdown`
(`http.Server.Shutdown` sets its flag), `CloseListener`, and `JoinListener`, which waits for
`Serve` to return.  The polls then close idle connections until none is busy or the
deadline has passed.  A connection on which no request came yet counts as busy.  The
listener goroutine looks at the flag before it listens (`Listen`) and, under the lock, before
it serves (`Serve`); a connection it had taken from `Accept` when the listener was closed
is still served (`ending`), until `ServeReturns`.  The end of the process cuts the
connections that are open (`CutConnections`).  `ServerPhase` tells the phase of
`GracefulServer` from all this.  The map marks as external what is
`net/http`'s, `os/signal`'s, the ticker's or the kernel's.

## 3. What TLC checks

| run | specification and bounds | properties |
|---|---|---|
| `agent_loop` | `FairSpec`, 3 modules | `TypeOK`, `RoundVisitsAll`, `ShutdownReportsErrors`, `NoRoundAfterStop`, `FollowsProtocol` (refinement), `CancelStopsLoop`, `KeepsCollecting` |
| `load_calculator` | `FairSpec`, 2 readers, samples 4 and 8, coefficients 3/4, 2/4, 1/4 | `TypeOK`, `NoZeroBias`, `GetLoadsAtomic` (refinement), `SamplePublished`, `ReadersServed` |
| `cpu_usage` | `total` and 1 CPU, time in 2 of the modes, counters up to 1 | `TypeOK`, `SharesAddUp`, `EveryTickOnce` |
| `cpu_collector` | samples 4 and 8, coefficients as above, 8 files | `TypeOK`, `LoadGaugesTogether`, `CoresPlausible` |
| `process` | `FairSpec`, 1 module, 3 connections of which 1 scrapes | `TypeOK`, `StoppedMeansDrained`, `NoAcceptWhileDraining`, `SignalEndsProcess`, `ServesGracefully` (refinement) |
| `config` | 2 addresses, 4 intervals, 3 levels, 3 values provided | `TypeOK`, `FlagOverridesFile`, `DefaultsHideNothing`, `LevelUnderstood` |
| `logger` | `FairSpec`, 3 goroutines | `TypeOK`, `OneLogger`, `LoggerIsReady`, `FailureReported`, `CallsReturn`, `InitLoggerAtomic` (refinement) |
| `cpu_info`, `config_precedence` (2 values), `process_listen`, `process_graceful`, `process_scrape` | as above | one property each, violated: section 6 |

What they show:

 - *agent_loop*.  Whatever order the two goroutines, the ticker and the cancellations
   take: a finished round has called every collector, also the ones behind a failing
   one; `Shutdown` closes all and returns the last error; no tick starts a round after
   it, even one that fired before; a cancelled context ends the loop although ticks
   compete with it in the `select`; until then everybody is collected again and again.
   Three modules put a failing collector between two others, and the last error behind
   an earlier one; a fourth adds no case.  The theorems cover every number.
 - *load_calculator*.  Two readers are enough for one to be inside `GetLoads`
   when the writer announces itself and one to come after that, which is where
   a lock could let a torn read through or starve somebody.  The samples are away
   from zero and apart, so that the averages differ from each other, from zero
   and from the samples on the way.  Nothing else is bounded; the theorems cover
   all readers, samples and coefficients.
 - *cpu_usage*.  `total`, which cannot go away, and a CPU that can; time passes in
   the idle mode and another one, one tick of each, so that an interval has no tick,
   one, or two in different modes, a second interval can follow a first one, and a CPU
   can miss an interval.  A scrape may come at any moment, also between two `Set`
   calls: `SharesAddUp` excepts the CPU whose gauges are being set, and no other.
   `Counting` and `MaxTime` are the only bounds on the behaviour; the theorems cover all
   modes and every `MaxTime`.
 - *cpu_collector*.  All combinations of failing parts, with samples in between and
   `Close` at any time.  The files are two hyperthreads of one core, two cores, core ids
   without a count, `cpu id` lines (the key that the code counts, which no kernel
   prints), numbers only, one processor offline, one processor, and a format without the
   keys; reading stops after any line.  With two processors the last one and the highest
   one, and a count and a highest number, differ.  All of them are in the kernel's
   format, which TLC checks (`FormatAssumption`) and the theorem on `CoresPlausible`
   assumes; the others are proved for every file.
 - *process*.  One module as in the code.  Of three connections one can hang while
   another one is idle or ends and a third is accepted late, in the window between the
   signal and the closing of the listener or by the `Serve` that is about to return; a
   scraper can be told from another client, and a shutdown that drops several at once
   from clients that leave one by one.  No bound on the number of requests or signals.
   `NoAcceptWhileDraining` is about the polling and what comes after: before it, after the
   signal, clients do get in.
 - *config*.  Three values are one for each of flag, variable and file of a setting, or
   of two settings that meet in a validator; a conflict has no use for more.
   `FlagOverridesFile` says nothing of a setting that a variable names: what the code
   does then is the violated run.  `DEBUG` stands for the spellings with capitals,
   `dpanic` for what the tag accepts and the validator does not.  The intervals are the
   ends of the accepted range and what is just outside; `garbage` stands for a text that
   is no number and no switch.  The theorems cover every number of values.
 - *logger*.  Of three goroutines two can wait while the third one runs.  Each asks
   for another level, so that the logger tells whose configuration it has.

Deadlock is checked in every run; an explicit `Terminated` step marks the states
in which the modelled goroutines have really ended.

## 4. Fairness

A goroutine that can run is scheduled, by Go's runtime; that is weak fairness of
its steps.  It is split so that nobody is forced to do what nothing forces:

 - *AgentLoop*: `Start`, once called, `Shutdown`, once called, a round and its
   calls, and the ticker proceed.  `Collect` is assumed to return (it reads
   small files in `/proc`).  Nobody need register a module, call `Shutdown` or cancel.
   The `select` picks among ready cases uniformly at random, so a context that
   is done is taken sooner or later however often the tick wins: strong fairness
   of each `LoopEnds`, which a ready tick can disable again and again.
 - *LoadCalculator*: the sampler, once it has read a value, and a reader, once it
   called `GetLoads`, proceed.  Nobody need call, and `/proc/loadavg` may stay
   unreadable.
 - *Logger*: a call of `InitLogger` that began proceeds, whether making the directory
   succeeds or fails; nobody need call, and who waits for the mutex gets on when the
   first caller has left, after which nobody holds it again: weak fairness is enough.
 - *AgentProcess*: the main goroutine proceeds, which includes that loading and
   initialising return and that the five seconds of `Shutdown` pass; so does the
   listener goroutine, which includes that a `Serve` whose listener was closed returns, for
   `Shutdown` waits for it.  No request need end, no client need leave, no signal need
   come.

## 5. What is proved

TLAPS checks the theorems of eight modules; they hold for all values of the constants.

**AgentLoop_proofs**, for any number of modules, from `NAssumption` (it is a natural
number): `TypeCorrect`, `RoundsComplete`, `ShutdownReports`, `StopIsFinal`,
`Implements`.  None of the invariants is inductive.  `IInv` is the conjunction of
`TypeOK` and

 - `Phases`: how the two control points depend on each other and on the counters:
   the loop exists only once `main` passed `Start`, by when every registered
   collector is ready, and nothing is closed before `Shutdown`.  The refinement
   rests on it;
 - `Round`: within a round, the collectors visited are those before `cur`, and
   outside of one they are all: this makes `RoundVisitsAll` inductive;
 - `Ticker`: after `Shutdown` has stopped the ticker, or the loop has ended, it
   neither runs nor holds a tick: the action property `StopIsFinal` follows;
 - `Errors`: `lastErr` is the largest of the positions whose `Close` failed, all
   of them below `closed`.

`Implements` shows that the initial states are the protocol's and that each step
is one of the protocol's or a stutter, action by action, with `CallState` as the
refinement mapping.

**LoadCalculator_proofs**, for any set of readers, any samples in `Lo .. Hi`, any scale and
coefficients: `TypeCorrect`, `LoadsInRange`, `Atomic`.  They rest on `LoadAssumption`
(coefficients between 0, excluded, and 1, which is the range of `1 - exp(-dt/T)`
in floating point) and on the lemmas `DivBounds` and `DecayBetween`: an average
of values in a range stays in it, rounding included.  The invariant says
besides the types that readers are inside only while nobody writes, that what a reader has
gathered so far is what the fields hold, so that at its `RUnlock` it holds
one moment of the cell, and that published averages are in range once marked
initialized.  In `Atomic` a sample takes effect when the writer gets the lock
(`Published` shows the fields it has yet to write as already written), and a `GetLoads` when
its reader unlocks: the refinement mapping of `Cell`.

The lemmas are in **LoadAverage_proofs**, with `SampleInRange`, which the proofs
about the calculator and about its reader share, and `NoOvershoot`: a sample draws an
average towards itself, and never past itself.

**CPUCollector_proofs**, for every set of files that are sequences of lines: `Typed`,
`GaugesTogether`, `UsesCell`; and `CoresInRange` for files in the kernel's format.  The
invariant adds

 - `Setting`: while the gauges are being set, those before `kpos` already hold what was
   taken, and what was taken was initialized;
 - `Averages`: before the first sample everything is zero, afterwards in range, also
   what was taken.  Without it a gauge could be left at zero by a
   reading that was not initialized and yet differ from it;
 - `Counting`: how many parts can have failed at each control point, which bounds the
   counter;
 - `Info`: nothing is published before the mark is set.

That the core count is a number needs that a finite set of numbers has a greatest
element: `FiniteHasGreatest`, from the well-foundedness of the strict subset order.

`CoresInRange` assumes `KernelFormat` of every file, and nothing less will do: the code
believes a file that claims 0 cores, and takes as many cores as a file names
ids of a kind.  A file that a container has rewritten need not satisfy it.  Its
invariant is that a series that came from a complete reading is that of the whole file
(`Whole`).  The rest is counting: `HighestBoundsCount`, that there are no more processors
than the highest number and one, makes the two ways to count processors agree in the
direction needed, offline processors or not.

`UsesCell` is the other half of `LoadCalculator`'s `Atomic`: the collector module and
its sampler change and read the averages only by steps of `LoadCell`, so that
putting the calculator in the place of the cell gives them nothing they have not
been checked with.

**Logger_proofs**, for any set of goroutines and any configured levels: `Typed`,
`LoggerIsUnique`, `GivenLoggerLogs`, `FailureNoticed`, and `Atomic`, that it implements
`OnceLogger`.  `Once` says that exactly the
owner of the mutex is inside the function, and that whatever returned has seen it done;
`Progress` how far the function got, in particular that it leaves with a logger that is marked
or with an error in the call that ran it; `Told` that an error that was not
returned yet is still there.  `Atomic` needs more, in an invariant proved on top of
these: by `Sole` an error on its way is the only one, the first, and that of a function that
made no logger.  A function that went on after an error would return a logger
and an error, which the earlier properties allow and `OnceLogger` does not.

**Config_proofs**, for any addresses, intervals and number of values, from
`ConfigAssumption` (garbage is no value): `FlagBeatsFile`, `DefaultsYield`,
`AcceptedLevelIsUsed` and `Typed`.  `Merged` says that what was decoded is
what the sources say now, because none of them is written to after `Decode` read it;
`Apart`, that no name stands for two settings, is what `Typed` needs to know the type
of a value found under a name.

**AgentProcess_proofs**, for any number of modules and any connections: `Typed`,
`ShutdownDrains`, `NoAcceptDuringDrain`, `CollectorsInProcess`, `RoundsInProcess`,
`Graceful`.  The part about the agent is AgentLoop's own:
`StepOfAgent` and `StepOfLoop` show that each step of the process is one of AgentLoop's or
leaves its variables alone, and so `RunsLoop`, that the process is one of the programs that
module stands for.  What is proved of all of them is then proved of it:
`LoopKeeps` cites AgentLoop's `NextIInv`, `CollectorsInProcess` its `Implements`.
`Listening` says where the flag and the listener can be at each control point of
`main`: when the polling begins no listener serves, is about to return or can start,
not even one that starts late, because it sees the flag.  `Drainage` says that once the server
has said it is down each connection is gone: with both nobody can begin a request.
`Opened`, that connections have a listener behind them that serves or that `Shutdown`
closed, is what `Graceful` needs to map a process that ends early to a server that was
down.

**CPUUsage_proofs**, for any number of CPUs, any counting modes and any `MaxTime`:
`TypeCorrect`, which includes that no published interval has the length 0,
`SharesComplete` and `TicksOnce`.  `EveryTickOnce` is not inductive: it needs `Forward`,
that the baseline of a label is what was last read of it, and that time only
grows from there to the open file and to the kernel.  Without that an interval
that is skipped could hide ticks that cancel out.  The lemma `Interval` has the
arithmetic of the eight fields: a total of 0 means that no field has moved, and
no field moves further than the total, so that each share is a percentage.
`Setting` says that the modes already set for the line at hand hold the shares of this interval;
with it the gauges add up again when the ninth one is set.

Only model-checked: the liveness properties (`CancelStopsLoop`, `KeepsCollecting`,
`SamplePublished`, `ReadersServed`, `CallsReturn`, `SignalEndsProcess`).
They depend on fairness, and so on when an action is enabled, which this prover does not
reason about.  Every invariant and action property of the passing runs, and every
refinement, is a theorem.

## 6. Where the code does not do what its texts say

Each of these is a run that TLC must find violated.

| run | the text | the code |
|---|---|---|
| `cpu_info` | `cpu_collector.go:333`, "saves the info of each logical CPU" | one series, of the processor that came last |
| `config_precedence` | `config.go:195`, "defaults, file, flags, ENV" | a flag beats the environment |
| `process_listen` | `root.go:78`, "start HTTP server failed" ends the program | a listen error is logged in a goroutine; the process stays, serving nobody |
| `process_graceful` | `server.go:215`, "graceful shutdown completed successfully" | also when the deadline cut it short: `Server.Shutdown` returns nil then |
| `process_scrape` | `registers.go:21`, the registry "can be used by the HTTP endpoint to expose metrics" | without an enabled collector it is nil, the error is ignored, and every scrape panics |

Seen in the models, without a run of their own:

 - The key that `collectCPUInfoFromProc` counts is `cpu id`, which no `/proc/cpuinfo` has,
   where the comment at `cpu_collector.go:325` speaks of core ids (`coreIDSet` in CPUInfo); and
   an attempt that failed halfway is never repeated (`InfoScanned`).
 - A variable counts under the name `SERVER.ADDR`, with dots, and only for keys that a flag or
   the file makes known; the flags `log.level`, `collectors.proc.enable` and their like set
   keys that no struct has (Config).
 - A configuration whose only enabled collector is not `proc` is accepted
   (`MonitorValid`), and `registers.go` has a collector for `proc` alone: nothing runs, and
   `process_scrape` shows what becomes of a scrape.
 - `Shutdown` closes the collectors while the loop may be inside `Collect` of one of
   them, or before its first round (AgentLoop; `initregistrys.go:95` speaks of a graceful
   closing).  Nothing in the program calls `Shutdown`.
 - `Close` of the CPU collector calls `stopLoadSample`, which nothing assigns
   (`cpu_collector.go:354`): the sampling goroutine runs on.
 - "all services shutdown successfully" (`root.go:98`) is logged while the collection loop
   runs: `runServer` drops the `Agent` (`root.go:75`).
 - An `InitLogger` after a failed one returns a nil logger and a nil error (`got` and
   `err` in Logger); `LoggerIsReady` therefore speaks of who was given a logger.

Seen while reading, outside what the models tell apart:

 - The names of the `env` tags are never read.
 - The comment at `monitor_validate.go:62-67` wants disks to look like `/dev/**` and
   interfaces to have no blanks; the code checks neither.
 - `logger_validate.go:16-17` lists `gte=0` for the numbers of backups and days, but their tags
   also say `required`, which refuses 0.
 - The key that the tags spell for the collection settings is `metrics`; a `monitor:` section in
   a file has no effect, and neither have the flags whose names contain a dash
   (`server.read-timeout` beside the key `server.read_timeout`).

## 7. What is not modelled

 - The metric registry, the factory and the constructors: declarations with literal
   names that the one collector module registers once.  A second module that uses a
   shared constructor would panic at startup.
 - The route table of the server, the index page and the request log: fixed at startup.
 - Config: the settings that repeat the path of one that is there; the two ignore lists,
   which nothing uses; values that pflag refuses; variables named after a
   section (`SERVER`), which shadow all of its keys in viper.
 - Logger: encoders, rotation and writing are zap's and file-rotatelogs'; `Sync` is a call.
 - Parsing of a line of `/proc/stat`, `/proc/loadavg` or `/proc/cpuinfo`: a field that does not
   parse counts as zero or ends the sample; the models start from the parsed value.
 - The kernel's counters only grow in CPUUsage.  On Linux iowait, and on some
   kernels idle, can step back; the code has no text that promises anything then.
 - The HTTP content, log texts, durations, the banner and the version: output.
 - Data races: the averages are under a lock, and the logger's variables are written inside
   `sync.Once` and read after it by whoever logs after a call of its own.
   `AgentImpl.Register` after `Start` would race, and has no caller.

## 8. Plan

Done: all the modules of section 2 and the proofs of section 5.  What could come next:

 1. CPUCollector over CPUUsage and LoadCalculator themselves, inside AgentLoop's
    rounds, instead of over what these two promise: `UsesCell` and `Atomic` are the two
    halves of the proof for the load, a module with both would join them.
 2. Config over viper's shadowing of sections, with the settings that are left out.
 3. The registry with a second collector module, once the program has one.
