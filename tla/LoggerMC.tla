------------------------------ MODULE LoggerMC ------------------------------
(* Three goroutines, so that two can wait for a third; each asks for a level *)
(* of its own, spelled in a way of its own.                                  *)
EXTENDS Logger

MCLevel == [main |-> "info", worker |-> "DEBUG", test |-> "err"]
==============================================================================
