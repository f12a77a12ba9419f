---------------------------- MODULE Config_proofs ----------------------------
(* What holds of LoadConfigWithCli for every set of addresses and intervals, *)
(* and however much the user provides.                                       *)
EXTENDS Config, TLAPS

(* What NewDefaultConfig left is overwritten by Decode alone, with what the  *)
(* flags, the environment and the file had by then.                          *)
Merged ==
  /\ pc # "start" => override = flags
  /\ IF pc \in {"validate", "loaded"} THEN cfg = [s \in Settings |->
                                                    IF Path[s] \in AllKeys THEN Find(Path[s])
                                                    ELSE NewDefaultConfig[s]]
     ELSE pc # "rejected" => cfg = NewDefaultConfig

(* Nothing is loaded that did not pass the three validations.                *)
Valid == Loaded => TagsValid(cfg) /\ MonitorValid(cfg) /\ LogValid(cfg)

IInv == Merged /\ Valid

------------------------------------------------------------------------------
LEMMA InitIInv == Init => IInv
BY DEF Init, IInv, Merged, Valid, Loaded

LEMMA NextIInv == IInv /\ [Next]_vars => IInv'
<1> SUFFICES ASSUME IInv, [Next]_vars PROVE IInv'
  OBVIOUS
<1> USE DEF IInv
<1>1. ASSUME NEW s \in Settings, GiveFlag(s) \/ SetEnv(s) PROVE IInv'
  <2>1. pc = "start" /\ UNCHANGED <<pc, cfg>>
    BY <1>1 DEF GiveFlag, SetEnv, More
  <2> QED
    BY <2>1 DEF Merged, Valid, Loaded
<1>2. ASSUME NEW s \in Settings, EditFile(s) PROVE IInv'
  <2>1. pc \in {"start", "stat", "read"} /\ UNCHANGED <<pc, cfg, override, flags>>
    BY <1>2 DEF EditFile, More
  <2> QED
    BY <2>1 DEF Merged, Valid, Loaded
<1>3. CASE RemoveFile
  <2>1. pc \in {"stat", "read"} /\ UNCHANGED <<pc, cfg, override, flags>>
    BY <1>3 DEF RemoveFile, More
  <2> QED
    BY <2>1 DEF Merged, Valid, Loaded
<1>4. CASE SetFlags
  BY <1>4 DEF SetFlags, Changed, Merged, Valid, Loaded
<1>5. CASE StatFile
  BY <1>5 DEF StatFile, Merged, Valid, Loaded
<1>6. CASE ReadFile
  BY <1>6 DEF ReadFile, Merged, Valid, Loaded
<1>7. CASE ReadFileFails
  BY <1>7 DEF ReadFileFails, Merged, Valid, Loaded
<1>8. CASE Decode
  <2>1. CASE ~Decodes
    BY <1>8, <2>1 DEF Decode, Merged, Valid, Loaded
  <2>2. CASE Decodes
    <3>1. /\ pc = "decode" /\ pc' = "validate" /\ cfg = NewDefaultConfig
          /\ UNCHANGED <<flags, env, override, config>>
      BY <1>8, <2>2 DEF Decode, Merged
    <3>2. \A key : key \in AllKeys' <=> key \in AllKeys
      BY <3>1 DEF AllKeys
    <3>3. \A key : Find(key)' = Find(key)
      BY <3>1 DEF Find, InEnv
    <3>4. cfg' = [s \in Settings |-> Setting(s)]
      BY <1>8, <2>2 DEF Decode
    <3>5. Merged'
      BY <3>1, <3>2, <3>3, <3>4 DEF Merged, Setting
    <3> QED
      BY <3>1, <3>5 DEF Valid, Loaded
  <2> QED
    BY <2>1, <2>2
<1>9. CASE Accept
  <2>1. /\ pc = "validate" /\ pc' = "loaded"
        /\ UNCHANGED <<flags, env, override, config, cfg>>
    BY <1>9 DEF Accept
  <2>2. (\A key : key \in AllKeys' <=> key \in AllKeys) /\ \A key : Find(key)' = Find(key)
    BY <2>1 DEF AllKeys, Find, InEnv
  <2>3. Merged'
    BY <2>1, <2>2 DEF Merged
  <2> QED
    BY <1>9, <2>1, <2>3 DEF Accept, Valid, Loaded, TagsValid, MonitorValid, LogValid
<1>10. CASE Reject
  BY <1>10 DEF Reject, Merged, Valid, Loaded
<1>11. CASE UNCHANGED vars
  <2>1. UNCHANGED <<pc, flags, env, override, config, cfg>>
    BY <1>11 DEF vars
  <2>2. (\A key : key \in AllKeys' <=> key \in AllKeys) /\ \A key : Find(key)' = Find(key)
    BY <2>1 DEF AllKeys, Find, InEnv
  <2> QED
    BY <2>1, <2>2 DEF Merged, Valid, Loaded, TagsValid, MonitorValid, LogValid
<1> QED
  BY <1>1, <1>2, <1>3, <1>4, <1>5, <1>6, <1>7, <1>8, <1>9, <1>10, <1>11 DEF Next, Terminated

LEMMA Invariant == Spec => []IInv
BY InitIInv, NextIInv, PTL DEF Spec

------------------------------------------------------------------------------
(* A flag that has the name of its setting's key beats the file.            *)
THEOREM FlagBeatsFile == Spec => []FlagOverridesFile
<1>1. IInv => FlagOverridesFile
  <2> SUFFICES ASSUME IInv, Loaded, NEW s \in Settings, Path[s] \in DOMAIN flags
               PROVE  cfg[s] = flags[Path[s]]
    BY DEF FlagOverridesFile
  <2>1. override = flags /\ Path[s] \in AllKeys
    BY DEF IInv, Merged, Loaded, AllKeys
  <2>2. cfg[s] = Find(Path[s])
    BY <2>1 DEF IInv, Merged, Loaded
  <2> QED
    BY <2>1, <2>2 DEF Find
<1> QED
  BY <1>1, Invariant, PTL

(* A flag that was not given leaves file and environment their effect.      *)
THEOREM DefaultsYield == Spec => []DefaultsHideNothing
<1>1. IInv => DefaultsHideNothing
  <2> SUFFICES ASSUME IInv, Loaded, NEW s \in Settings, Path[s] \notin DOMAIN flags
               PROVE  /\ Path[s] \in DOMAIN config /\ ~InEnv(Path[s]) => cfg[s] = config[Path[s]]
                      /\ Path[s] \in AllKeys /\ InEnv(Path[s]) => cfg[s] = env[EnvName[Path[s]]]
    BY DEF DefaultsHideNothing
  <2>1. override = flags /\ (Path[s] \in DOMAIN config => Path[s] \in AllKeys)
    BY DEF IInv, Merged, Loaded, AllKeys
  <2>2. Path[s] \in AllKeys => cfg[s] = Find(Path[s])
    BY DEF IInv, Merged, Loaded
  <2> QED
    BY <2>1, <2>2 DEF Find
<1> QED
  BY <1>1, Invariant, PTL

(* InitLogger takes every accepted level for what it says.                  *)
THEOREM AcceptedLevelIsUsed == Spec => []LevelUnderstood
<1>1. \A level \in {"debug", "info", "warn", "error"} : Lower(level) = level
  BY Zenon DEF Lower
<1>2. \A level \in {"debug", "info", "warn", "error"} : ZapLevel(level) = level
  BY Zenon, <1>1 DEF ZapLevel
<1>3. ASSUME NEW level, level \in {"debug", "info", "warn", "error", "dpanic", "panic", "fatal"},
             Lower(level) \in {"debug", "info", "warn", "error"}
      PROVE  level \in {"debug", "info", "warn", "error"}
  <2>1. level \notin {"DEBUG", "WARN", "ERROR"}
    BY <1>3
  <2>2. Lower(level) = level
    BY Zenon, <2>1 DEF Lower
  <2> QED
    BY <1>3, <2>2
<1>4. IInv => LevelUnderstood
  BY <1>2, <1>3 DEF IInv, Valid, TagsValid, LogValid, LevelUnderstood
<1> QED
  BY <1>4, Invariant, PTL

------------------------------------------------------------------------------
(* What is provided under the names of a setting has the setting's type.    *)
Typings ==
  /\ pc \in {"start", "stat", "read", "decode", "validate", "loaded", "rejected"}
  /\ onDisk \in BOOLEAN /\ provided \in 0 .. MaxProvided
  /\ DOMAIN flags \subseteq FlagNames /\ DOMAIN override \subseteq FlagNames
  /\ DOMAIN file \subseteq {Path[s] : s \in Settings} /\ DOMAIN config \subseteq {Path[s] : s \in Settings}
  /\ \A s \in Settings :
       /\ Flag[s] \in DOMAIN flags => flags[Flag[s]] \in Values[s]
       /\ Flag[s] \in DOMAIN override => override[Flag[s]] \in Values[s]
       /\ EnvName[Path[s]] \in DOMAIN env => env[EnvName[Path[s]]] \in Unparsed(s)
       /\ Path[s] \in DOMAIN file => file[Path[s]] \in Unparsed(s)
       /\ Path[s] \in DOMAIN config => config[Path[s]] \in Unparsed(s)
       /\ cfg[s] \in Values[s] \cup {NewDefaultConfig[s]}

(* No name stands for two settings.                                         *)
Apart ==
  \A s, t \in Settings :
    /\ Path[s] = Path[t] => s = t
    /\ Flag[s] = Flag[t] => s = t
    /\ Path[s] = Flag[t] => s = t
    /\ EnvName[Path[s]] = EnvName[Path[t]] => s = t

LEMMA NamesApart == Apart
<1>1. \A s \in Settings :
        EnvName[Path[s]] = CASE Path[s] = "server.addr" -> "SERVER.ADDR"
          [] Path[s] = "metrics.interval" -> "METRICS.INTERVAL"
          [] Path[s] = "logs.level" -> "LOGS.LEVEL"
          [] Path[s] = "metrics.collectors.proc.enable" -> "METRICS.COLLECTORS.PROC.ENABLE"
          [] Path[s] = "metrics.collectors.sys.enable" -> "METRICS.COLLECTORS.SYS.ENABLE"
          [] Path[s] = "metrics.collectors.cgroup.enable" -> "METRICS.COLLECTORS.CGROUP.ENABLE"
          [] Path[s] = "metrics.collectors.container_runtime.enable" -> "METRICS.COLLECTORS.CONTAINER.RUNTIME.ENABLE"
  BY Zenon DEF EnvName
<1>2. /\ Path["addr"] = "server.addr"
      /\ Path["interval"] = "metrics.interval"
      /\ Path["level"] = "logs.level"
      /\ Path["proc"] = "metrics.collectors.proc.enable"
      /\ Path["sys"] = "metrics.collectors.sys.enable"
      /\ Path["cgroup"] = "metrics.collectors.cgroup.enable"
      /\ Path["container"] = "metrics.collectors.container_runtime.enable"
  BY DEF Path
<1>3. /\ EnvName[Path["addr"]] = "SERVER.ADDR"
      /\ EnvName[Path["interval"]] = "METRICS.INTERVAL"
      /\ EnvName[Path["level"]] = "LOGS.LEVEL"
      /\ EnvName[Path["proc"]] = "METRICS.COLLECTORS.PROC.ENABLE"
      /\ EnvName[Path["sys"]] = "METRICS.COLLECTORS.SYS.ENABLE"
      /\ EnvName[Path["cgroup"]] = "METRICS.COLLECTORS.CGROUP.ENABLE"
      /\ EnvName[Path["container"]] = "METRICS.COLLECTORS.CONTAINER.RUNTIME.ENABLE"
  <2>1. /\ "addr" \in Settings
        /\ "interval" \in Settings
        /\ "level" \in Settings
        /\ "proc" \in Settings
        /\ "sys" \in Settings
        /\ "cgroup" \in Settings
        /\ "container" \in Settings
    BY DEF Settings, Switches
  <2>2. EnvName[Path["addr"]] = "SERVER.ADDR"
    BY Zenon, <1>1, <1>2, <2>1
  <2>3. EnvName[Path["interval"]] = "METRICS.INTERVAL"
    BY Zenon, <1>1, <1>2, <2>1
  <2>4. EnvName[Path["level"]] = "LOGS.LEVEL"
    BY Zenon, <1>1, <1>2, <2>1
  <2>5. EnvName[Path["proc"]] = "METRICS.COLLECTORS.PROC.ENABLE"
    BY Zenon, <1>1, <1>2, <2>1
  <2>6. EnvName[Path["sys"]] = "METRICS.COLLECTORS.SYS.ENABLE"
    BY Zenon, <1>1, <1>2, <2>1
  <2>7. EnvName[Path["cgroup"]] = "METRICS.COLLECTORS.CGROUP.ENABLE"
    BY Zenon, <1>1, <1>2, <2>1
  <2>8. EnvName[Path["container"]] = "METRICS.COLLECTORS.CONTAINER.RUNTIME.ENABLE"
    BY Zenon, <1>1, <1>2, <2>1
  <2> QED
    BY <2>2, <2>3, <2>4, <2>5, <2>6, <2>7, <2>8
<1>4. /\ Flag["addr"] = "server.addr"
      /\ Flag["interval"] = "metrics.interval"
      /\ Flag["level"] = "log.level"
      /\ Flag["proc"] = "collectors.proc.enable"
      /\ Flag["sys"] = "collectors.sys.enable"
      /\ Flag["cgroup"] = "collectors.cgroup.enable"
      /\ Flag["container"] = "collectors.container-runtime.enable"
  BY DEF Flag
<1> QED
  BY <1>2, <1>3, <1>4 DEF Settings, Switches, Apart

LEMMA UnparsedType ==
  \A s : Values[s] \subseteq Unparsed(s) /\ Unparsed(s) \subseteq Values[s] \cup {Garbage}
BY DEF Unparsed

(* What Decode takes for a setting is a value, a default or garbage.        *)
LEMMA SettingType ==
  ASSUME Typings, NEW s \in Settings
  PROVE  Setting(s) \in Values[s] \cup {NewDefaultConfig[s], Garbage}
<1> USE NamesApart DEF Apart
<1>1. CASE Path[s] \notin AllKeys
  BY <1>1, ConfigAssumption DEF Setting, Typings
<1>2. ASSUME Path[s] \in FlagNames PROVE Path[s] = Flag[s]
  BY <1>2 DEF FlagNames
<1>3. CASE Path[s] \in DOMAIN override
  BY <1>2, <1>3 DEF Setting, Find, AllKeys, Typings
<1>4. CASE Path[s] \notin DOMAIN override /\ InEnv(Path[s])
  <2>1. env[EnvName[Path[s]]] \in Values[s] \cup {Garbage}
    BY <1>4, UnparsedType DEF InEnv, Typings
  <2> QED
    BY <1>1, <1>4, <2>1 DEF Setting, Find
<1>5. CASE Path[s] \notin DOMAIN override /\ ~InEnv(Path[s]) /\ Path[s] \in DOMAIN config
  <2>1. config[Path[s]] \in Values[s] \cup {Garbage}
    BY <1>5, UnparsedType DEF Typings
  <2> QED
    BY <1>1, <1>5, <2>1 DEF Setting, Find
<1>6. CASE /\ Path[s] \in AllKeys /\ Path[s] \notin DOMAIN override
           /\ ~InEnv(Path[s]) /\ Path[s] \notin DOMAIN config
  <2>1. Path[s] = Flag[s]
    BY <1>2, <1>6 DEF AllKeys
  <2>2. (CHOOSE t \in Settings : Flag[t] = Path[s]) = s
    BY <2>1
  <2>3. Setting(s) = NewDefaultConfig[s]
    BY <1>6, <2>2 DEF Setting, Find, FlagDefault
  <2> QED
    BY <2>3
<1> QED
  BY <1>1, <1>3, <1>4, <1>5, <1>6

(* g is f with value under key.                                             *)
Updated(g, f, key, value) ==
  /\ DOMAIN g = DOMAIN f \cup {key}
  /\ g[key] = value
  /\ \A k \in DOMAIN f : k # key => g[k] = f[k]

LEMMA PutUpdates ==
  ASSUME NEW f, NEW key, NEW value PROVE Updated(Put(f, key, value), f, key, value)
BY DEF Put, Updated

LEMMA InitTypings == Init => Typings
<1> SUFFICES ASSUME Init PROVE Typings
  OBVIOUS
<1>1. DOMAIN None = {}
  BY DEF None
<1>2. \A s \in Settings : cfg[s] = NewDefaultConfig[s]
  BY DEF Init
<1> QED
  BY <1>1, <1>2, ConfigAssumption DEF Init, Typings

LEMMA NextTypings == Typings /\ [Next]_vars => Typings'
<1> SUFFICES ASSUME Typings, [Next]_vars PROVE Typings'
  OBVIOUS
<1> USE ConfigAssumption
<1>1. ASSUME NEW s \in Settings, GiveFlag(s) PROVE Typings'
  <2>1. PICK v \in Values[s] : flags' = Put(flags, Flag[s], v)
    BY <1>1 DEF GiveFlag
  <2>2. /\ provided' \in 0 .. MaxProvided
        /\ UNCHANGED <<pc, env, file, onDisk, override, config, cfg>>
    BY <1>1 DEF GiveFlag, More, Typings
  <2>3. Updated(flags', flags, Flag[s], v)
    BY <2>1, PutUpdates
  <2>4. \A t \in Settings : Flag[t] \in DOMAIN flags' => flags'[Flag[t]] \in Values[t]
    BY <2>1, <2>3, NamesApart DEF Typings, Apart, Updated
  <2>5. DOMAIN flags' \subseteq FlagNames
    BY <2>3 DEF Typings, FlagNames, Updated
  <2> QED
    BY <2>2, <2>4, <2>5 DEF Typings
<1>2. ASSUME NEW s \in Settings, SetEnv(s) PROVE Typings'
  <2> DEFINE name == EnvName[Path[s]]
  <2>1. PICK v \in Unparsed(s) : env' = Put(env, name, v)
    BY <1>2 DEF SetEnv
  <2>2. /\ provided' \in 0 .. MaxProvided
        /\ UNCHANGED <<pc, flags, file, onDisk, override, config, cfg>>
    BY <1>2 DEF SetEnv, More, Typings
  <2>3. Updated(env', env, name, v)
    BY <2>1, PutUpdates
  <2>4. ASSUME NEW t \in Settings, EnvName[Path[t]] \in DOMAIN env'
        PROVE  env'[EnvName[Path[t]]] \in Unparsed(t)
    <3>1. CASE EnvName[Path[t]] = name
      BY <2>1, <2>3, <3>1, NamesApart DEF Apart, Updated
    <3>2. CASE EnvName[Path[t]] # name
      BY <2>3, <2>4, <3>2 DEF Typings, Updated
    <3> QED
      BY <3>1, <3>2
  <2> QED
    BY <2>2, <2>4 DEF Typings
<1>3. ASSUME NEW s \in Settings, EditFile(s) PROVE Typings'
  <2>1. PICK v \in Unparsed(s) : file' = Put(file, Path[s], v)
    BY <1>3 DEF EditFile
  <2>2. /\ provided' \in 0 .. MaxProvided /\ onDisk' = TRUE
        /\ UNCHANGED <<pc, flags, env, override, config, cfg>>
    BY <1>3 DEF EditFile, More, Typings
  <2>3. Updated(file', file, Path[s], v)
    BY <2>1, PutUpdates
  <2>4. \A t \in Settings : Path[t] \in DOMAIN file' => file'[Path[t]] \in Unparsed(t)
    BY <2>1, <2>3, NamesApart DEF Typings, Apart, Updated
  <2> QED
    BY <2>2, <2>3, <2>4 DEF Typings, Updated
<1>4. CASE RemoveFile
  <2>1. DOMAIN file' = {}
    BY <1>4 DEF RemoveFile, None
  <2>2. /\ provided' \in 0 .. MaxProvided /\ onDisk' = FALSE
        /\ UNCHANGED <<pc, flags, env, override, config, cfg>>
    BY <1>4 DEF RemoveFile, More, Typings
  <2> QED
    BY <2>1, <2>2 DEF Typings
<1>5. CASE SetFlags
  BY <1>5 DEF SetFlags, Changed, Typings
<1>6. CASE StatFile
  BY <1>6 DEF StatFile, Typings
<1>7. CASE ReadFile
  BY <1>7 DEF ReadFile, Typings
<1>8. CASE ReadFileFails \/ Reject
  BY <1>8 DEF ReadFileFails, Reject, Typings
<1>9. CASE Decode
  <2>1. CASE ~Decodes
    BY <1>9, <2>1 DEF Decode, Typings
  <2>2. CASE Decodes
    <3>1. /\ pc' = "validate" /\ cfg' = [s \in Settings |-> Setting(s)]
          /\ UNCHANGED <<flags, env, file, onDisk, override, config, provided>>
      BY <1>9, <2>2 DEF Decode
    <3>2. \A s \in Settings : cfg'[s] \in Values[s] \cup {NewDefaultConfig[s]}
      BY <2>2, <3>1, SettingType DEF Decodes
    <3> QED
      BY <3>1, <3>2 DEF Typings
  <2> QED
    BY <2>1, <2>2
<1>10. CASE Accept
  BY <1>10 DEF Accept, Typings
<1>11. CASE UNCHANGED vars
  BY <1>11 DEF vars, Typings
<1> QED
  BY <1>1, <1>2, <1>3, <1>4, <1>5, <1>6, <1>7, <1>8, <1>9, <1>10, <1>11 DEF Next, Terminated

(* Whatever is given under whatever name, a setting that gets into the       *)
(* struct has a value of its type: garbage ends the loading before.         *)
THEOREM Typed == Spec => []TypeOK
<1>1. Typings => TypeOK
  BY DEF Typings, TypeOK
<1> QED
  BY <1>1, InitTypings, NextTypings, PTL DEF Spec
==============================================================================
