------------------------------- MODULE Config -------------------------------
(***************************************************************************)
(* config.LoadConfigWithCli: the settings come from NewDefaultConfig, the  *)
(* file, the environment and the flags.  viper knows them by keys, and a   *)
(* value reaches the struct only under the key that the struct's tags      *)
(* spell; the flags, the env tags and the shipped file partly use other    *)
(* names.  Settings whose path through this code is that of another one    *)
(* (the other sizes, ages and timeouts) are left out, and so are variables *)
(* named like the env tags: nothing reads the tags.  The file may change   *)
(* until it is read.                                                       *)
(***************************************************************************)
EXTENDS Naturals, LogLevel

CONSTANTS
  Addrs,              \* addresses to listen on
  Intervals,          \* collection intervals, in seconds
  Garbage,            \* what does not decode as a number or a switch
  MaxProvided         \* bound on the values that a user provides

Switches == {"proc", "sys", "cgroup", "container"}
Settings == {"addr", "interval", "level"} \cup Switches

\* The keys of the mapstructure tags.
Path == [addr |-> "server.addr", interval |-> "metrics.interval", level |-> "logs.level",
         proc |-> "metrics.collectors.proc.enable", sys |-> "metrics.collectors.sys.enable",
         cgroup |-> "metrics.collectors.cgroup.enable",
         container |-> "metrics.collectors.container_runtime.enable"]

\* The names that initServerFlags, initMonitorFlags and initLogFlags give.
Flag == [addr |-> "server.addr", interval |-> "metrics.interval", level |-> "log.level",
         proc |-> "collectors.proc.enable", sys |-> "collectors.sys.enable",
         cgroup |-> "collectors.cgroup.enable",
         container |-> "collectors.container-runtime.enable"]

\* AutomaticEnv: the upper case of the key, with its underscores made dots.
EnvName ==
  [key \in {Path[s] : s \in Settings} |->
     CASE key = "server.addr" -> "SERVER.ADDR"
       [] key = "metrics.interval" -> "METRICS.INTERVAL"
       [] key = "logs.level" -> "LOGS.LEVEL"
       [] key = "metrics.collectors.proc.enable" -> "METRICS.COLLECTORS.PROC.ENABLE"
       [] key = "metrics.collectors.sys.enable" -> "METRICS.COLLECTORS.SYS.ENABLE"
       [] key = "metrics.collectors.cgroup.enable" -> "METRICS.COLLECTORS.CGROUP.ENABLE"
       [] key = "metrics.collectors.container_runtime.enable"
            -> "METRICS.COLLECTORS.CONTAINER.RUNTIME.ENABLE"]

Values == [addr |-> Addrs, interval |-> Intervals, level |-> {"info", "DEBUG", "dpanic"},
           proc |-> BOOLEAN, sys |-> BOOLEAN, cgroup |-> BOOLEAN, container |-> BOOLEAN]

NewDefaultConfig ==
  [addr |-> "0.0.0.0:9091", interval |-> 2, level |-> "debug",
   proc |-> TRUE, sys |-> FALSE, cgroup |-> FALSE, container |-> FALSE]

ASSUME ConfigAssumption ==
  /\ Intervals \subseteq Nat /\ MaxProvided \in Nat
  /\ \A s \in Settings : Garbage # NewDefaultConfig[s] /\ \A v \in Values[s] : v # Garbage

VARIABLES
  pc,                 \* control point of LoadConfigWithCli
  flags,              \* the flags given, by name
  env,                \* the environment, by name
  file,               \* the configuration file, by key
  onDisk,             \* the file exists
  override,           \* viper: what was Set
  config,             \* viper: what was read from the file
  cfg,                \* the struct
  provided            \* number of values provided

vars == <<pc, flags, env, file, onDisk, override, config, cfg, provided>>

None == [key \in {} |-> 0]
Put(f, key, value) == [k \in DOMAIN f \cup {key} |-> IF k = key THEN value ELSE f[k]]

Init ==
  /\ pc = "start"
  /\ flags = None /\ env = None /\ file = None /\ onDisk \in BOOLEAN
  /\ override = None /\ config = None
  /\ cfg = NewDefaultConfig
  /\ provided = 0

------------------------------------------------------------------------------
(* What the user provides: flags and environment before the start, the file *)
(* until it is read.  A value that pflag cannot parse never gets here.      *)

More(when) == pc \in when /\ provided < MaxProvided /\ provided' = provided + 1

GiveFlag(s) ==
  /\ More({"start"})
  /\ \E v \in Values[s] : flags' = Put(flags, Flag[s], v)
  /\ UNCHANGED <<pc, env, file, onDisk, override, config, cfg>>

Unparsed(s) == IF s \in {"addr", "level"} THEN Values[s] ELSE Values[s] \cup {Garbage}

SetEnv(s) ==
  /\ More({"start"})
  /\ \E v \in Unparsed(s) : env' = Put(env, EnvName[Path[s]], v)
  /\ UNCHANGED <<pc, flags, file, onDisk, override, config, cfg>>

EditFile(s) ==
  /\ More({"start", "stat", "read"})
  /\ \E v \in Unparsed(s) : file' = Put(file, Path[s], v)
  /\ onDisk' = TRUE
  /\ UNCHANGED <<pc, flags, env, override, config, cfg>>

RemoveFile ==
  /\ onDisk /\ More({"stat", "read"})
  /\ onDisk' = FALSE /\ file' = None
  /\ UNCHANGED <<pc, flags, env, override, config, cfg>>

------------------------------------------------------------------------------
(* LoadConfigWithCli.                                                       *)

FlagNames == {Flag[s] : s \in Settings}
FlagDefault(name) == NewDefaultConfig[CHOOSE s \in Settings : Flag[s] = name]

\* Mutant: sets every flag, changed or not.
Changed_All == [name \in FlagNames |-> IF name \in DOMAIN flags THEN flags[name]
                                       ELSE FlagDefault(name)]
Changed == flags

SetFlags ==
  /\ pc = "start" /\ pc' = "stat"
  /\ override' = Changed
  /\ UNCHANGED <<flags, env, file, onDisk, config, cfg, provided>>

\* os.Stat; a file that is not there is no error.
StatFile ==
  /\ pc = "stat" /\ pc' = IF onDisk THEN "read" ELSE "decode"
  /\ UNCHANGED <<flags, env, file, onDisk, override, config, cfg, provided>>

ReadFile ==
  /\ pc = "read" /\ onDisk
  /\ pc' = "decode" /\ config' = file
  /\ UNCHANGED <<flags, env, file, onDisk, override, cfg, provided>>

\* Bad syntax, no permission, or gone by now.
ReadFileFails ==
  /\ pc = "read" /\ pc' = "rejected"
  /\ UNCHANGED <<flags, env, file, onDisk, override, config, cfg, provided>>

\* viper.AllKeys: a variable alone makes no key known.
AllKeys == DOMAIN override \cup FlagNames \cup DOMAIN config

InEnv(key) == EnvName[key] \in DOMAIN env

\* Mutant: the file comes before the flags.
Find_FileFirst(key) ==
  IF key \in DOMAIN config THEN config[key]
  ELSE IF key \in DOMAIN override THEN override[key]
  ELSE IF InEnv(key) THEN env[EnvName[key]]
  ELSE FlagDefault(key)

\* viper.find: Set, environment, file, default of the flag.
Find(key) ==
  IF key \in DOMAIN override THEN override[key]
  ELSE IF InEnv(key) THEN env[EnvName[key]]
  ELSE IF key \in DOMAIN config THEN config[key]
  ELSE FlagDefault(key)

Setting(s) == IF Path[s] \in AllKeys THEN Find(Path[s]) ELSE cfg[s]

Decodes_Anything == TRUE                                    \* mutant: ignores the error
Decodes == \A s \in Settings : Setting(s) # Garbage

Decode ==
  /\ pc = "decode"
  /\ IF ~Decodes
     THEN pc' = "rejected" /\ UNCHANGED cfg
     ELSE pc' = "validate" /\ cfg' = [s \in Settings |-> Setting(s)]
  /\ UNCHANGED <<flags, env, file, onDisk, override, config, provided>>

\* The validate tags: oneof, which distinguishes cases, and gt=0.
TagsValid(c) == c.level \in {"debug", "info", "warn", "error", "dpanic", "panic", "fatal"}
                /\ c.interval > 0

MonitorValid(c) == c.interval \in 1 .. 3600 /\ \E s \in Switches : c[s]

LogValid_AsTag(c) == TRUE                                   \* mutant: the tag alone
LogValid(c) == Lower(c.level) \in {"debug", "info", "warn", "error"}

Accept ==
  /\ pc = "validate" /\ pc' = "loaded"
  /\ TagsValid(cfg) /\ MonitorValid(cfg) /\ LogValid(cfg)
  /\ UNCHANGED <<flags, env, file, onDisk, override, config, cfg, provided>>

\* Also an address that does not resolve, or a log directory not to be made.
Reject ==
  /\ pc = "validate" /\ pc' = "rejected"
  /\ UNCHANGED <<flags, env, file, onDisk, override, config, cfg, provided>>

\* The process runs with the configuration, or has exited with status 1.
Terminated == pc \in {"loaded", "rejected"} /\ UNCHANGED vars

Next ==
  \/ \E s \in Settings : GiveFlag(s) \/ SetEnv(s) \/ EditFile(s)
  \/ RemoveFile \/ SetFlags \/ StatFile \/ ReadFile \/ ReadFileFails
  \/ Decode \/ Accept \/ Reject \/ Terminated

Spec == Init /\ [][Next]_vars

------------------------------------------------------------------------------
Loaded == pc = "loaded"

TypeOK ==
  /\ pc \in {"start", "stat", "read", "decode", "validate", "loaded", "rejected"}
  /\ onDisk \in BOOLEAN /\ provided \in 0 .. MaxProvided
  /\ DOMAIN flags \subseteq FlagNames /\ DOMAIN override \subseteq FlagNames
  /\ DOMAIN file \subseteq {Path[s] : s \in Settings} /\ DOMAIN config \subseteq {Path[s] : s \in Settings}
  /\ \A s \in Settings : cfg[s] \in Values[s] \cup {NewDefaultConfig[s]}

(* A flag that has the name of its setting's key beats the file, whatever   *)
(* else is given, as long as no variable says anything of that setting.     *)
FlagOverridesFile ==
  Loaded => \A s \in Settings :
    Path[s] \in DOMAIN flags /\ ~InEnv(Path[s]) => cfg[s] = flags[Path[s]]

(* The default of a flag that was not given hides neither what the file     *)
(* had when it was read nor what the environment has for the setting's key. *)
DefaultsHideNothing ==
  Loaded => \A s \in Settings :
    Path[s] \notin DOMAIN flags =>
      /\ Path[s] \in DOMAIN config /\ ~InEnv(Path[s]) => cfg[s] = config[Path[s]]
      /\ Path[s] \in AllKeys /\ InEnv(Path[s]) => cfg[s] = env[EnvName[Path[s]]]

(* Three lists of levels agree on what is accepted: InitLogger understands  *)
(* every level that the tag and the validator let through, and does not     *)
(* take info for it.                                                        *)
LevelUnderstood == Loaded => ZapLevel(cfg.level) = cfg.level

(* config.go: the precedence is "defaults -> file (if any) -> flags -> ENV",*)
(* so that of a flag and a variable for one setting the variable counts.    *)
EnvOverridesFlags ==
  Loaded => \A s \in Settings :
    /\ Path[s] \in DOMAIN flags /\ InEnv(Path[s])
    /\ env[EnvName[Path[s]]] # Garbage
    => cfg[s] = env[EnvName[Path[s]]]
==============================================================================
