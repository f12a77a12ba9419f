------------------------------ MODULE LogLevel ------------------------------
(* What the spelling of a log level means to the validator of the            *)
(* configuration and to InitLogger.  Of the spellings of a level one in      *)
(* upper case stands for all.                                                *)

\* strings.ToLower
Lower(level) ==
  CASE level = "DEBUG" -> "debug"
    [] level = "WARN"  -> "warn"
    [] level = "ERROR" -> "error"
    [] OTHER           -> level

ZapLevel_AsGiven(level) == level        \* mutant: takes the spelling for the level
\* Short forms are understood, anything else means info.
ZapLevel(level) ==
  CASE Lower(level) \in {"dbg", "debug"} -> "debug"
    [] Lower(level) \in {"war", "warn"}  -> "warn"
    [] Lower(level) \in {"err", "error"} -> "error"
    [] OTHER                             -> "info"
==============================================================================
