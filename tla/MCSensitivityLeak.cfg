\* Two studies at once leave the process in a handicapped world.
SPECIFICATION Spec
CONSTANTS
  t1 = t1
  t2 = t2
  Threads <- MCThreads
  MaxCalls = 2
SYMMETRY Alike
INVARIANT
  HandicapsDoNotLeak
CHECK_DEADLOCK FALSE
