\* Both comparisons, every cause of every surface first in the book.
SPECIFICATION FairBatchSpec
CONSTANTS
  MinConfidence = 55
  MinRecoverable = 5000
  MaxTotalActions = 5
  MaxAttempts <- MCMaxAttempts
  OutageHold = 90
  FundsDelayHours = 24
  MaxContacts = 2
  QuietStart = 21
  QuietEnd = 9
  AllowedChannels = {"sms", "email", "whatsapp"}
  EscalationFloor <- MCEscalationFloor
  NoticeHours = 24
  FailureStop = 3
  GraceHours = 24
  Cases <- MCCases
  Answers <- MCAnswers
  Labels <- MCLabels
  Budgets <- MCBudgets
  Arms = {"control", "naive", "agent"}
  LedgerArms = {"agent"}
  Books <- MCBooks
  PerHundred <- MCPerHundred
  Agendas <- MCAgendas
INVARIANTS
  BatchTypeOK
  PairedDeltas
  AttributionIsIncrement
  ReviewsAreRationed
  BreakEvenIsTheCrossing
  OnlyTheAgentMoves
  RulesReadTheTruth
  OracleWaitsForTheMoney
  ChancesAreFair
PROPERTY
  BatchEnds
\* A batch that is reported or has failed takes no further step.
CHECK_DEADLOCK FALSE
