CONSTANTS
  Callers = {"tx", "rx"}
  FailedWritesLand = TRUE

SPECIFICATION Spec

INVARIANTS
  SwRdyKept

PROPERTIES
  WakeStaysSettled
  LoneCallIsAtomic
  ImplementsOpenCalls

CHECK_DEADLOCK FALSE
