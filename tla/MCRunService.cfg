\* Two requests at a time, repeats, evictions, runs that raise.
SPECIFICATION Spec
CONSTANTS
  c1 = c1
  c2 = c2
  Clients <- MCClients
  RunIds = {"p", "s", "r"}
  Keep = 2
  Entries = 2
  MaxPosts = 4
INVARIANTS
  TypeOK
  ServedLedgerIsTheRuns
  HeldRunsAreListed
\* When every request of the behaviour has been made and answered.
CHECK_DEADLOCK FALSE
