\* A recorder stopped and run again, replays, refusals, torn files, a cap.
SPECIFICATION FairSpec
CONSTANTS
  Intervals = {0, 12}
  FirstGap = 8
  MaxInterval = 45
  MaxRetries = 2
  Backoff <- MCBackoff
  Delays = {0, 30}
  Pauses = {0, 20}
  Questions = {"q1", "q2"}
  Payloads = {"a", "b", "rejected", "list"}
  Accepted = {"a", "b"}
  Malformed = {"list"}
  Prices = {1, 4}
  Cap = 4
  MaxStarts = 3
INVARIANTS
  TypeOK
  SpendIsBounded
  LosesAtMostOneEach
  ToldIsTheRecord
  RequestsAreSpaced
PROPERTIES
  NotBoughtTwice
  EveryQuestionEnds
\* When the last process has ended.
CHECK_DEADLOCK FALSE
