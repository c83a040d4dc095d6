\* A run posted again until its first name is evicted is lost.
SPECIFICATION Spec
CONSTANTS
  c1 = c1
  c2 = c2
  Clients <- MCClients
  RunIds = {"p", "s"}
  Keep = 2
  Entries = 1
  MaxPosts = 3
INVARIANT
  TheLatestIsHeld
\* When every request of the behaviour has been made and answered.
CHECK_DEADLOCK FALSE
