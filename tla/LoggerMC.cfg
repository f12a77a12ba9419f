CONSTANTS
  Callers = {"main", "worker", "test"}
  Level <- MCLevel
SPECIFICATION FairSpec
INVARIANTS TypeOK OneLogger LoggerIsReady FailureReported
PROPERTIES CallsReturn InitLoggerAtomic
