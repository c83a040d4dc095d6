\* Two posts of one run at once write one file.
SPECIFICATION Spec
CONSTANTS
  c1 = c1
  c2 = c2
  Clients <- MCClients
  RunIds = {"p"}
  Keep = 2
  Entries = 2
  MaxPosts = 2
INVARIANT
  EveryPostIsIntact
\* When every request of the behaviour has been made and answered.
CHECK_DEADLOCK FALSE
