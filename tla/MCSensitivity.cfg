\* Studies and posted runs on two threads, batches that raise.
SPECIFICATION Spec
CONSTANTS
  t1 = t1
  t2 = t2
  Threads <- MCThreads
  MaxCalls = 3
SYMMETRY Alike
INVARIANTS
  TypeOK
  WorldIsPutBack
  MeasuredAsLabelled
\* When every request of the behaviour has been made and answered.
CHECK_DEADLOCK FALSE
