\* Two threads, failed writes, restarts, lost tails and an edit by hand.
SPECIFICATION FairSpec
CONSTANTS
  w1 = w1
  w2 = w2
  Writers <- MCWriters
  Bodies = {"amount_1", "amount_2", "phone_number"}
  Personal = {"phone_number"}
  NoWriter = NoWriter
  MaxLines = 3
  MaxEdits = 2
INVARIANTS
  TypeOK
  IntactUnlessEdited
  EditsShowWhereTheyAre
  ReturnedAreRecorded
PROPERTIES
  LockIsGivenBack
  ImplementsAppendOnly
