\* The agent: a mandate stopped for repeated failures is seen by nobody.
SPECIFICATION Spec
CONSTANTS
  MinConfidence = 55
  MinRecoverable = 5000
  MaxTotalActions = 5
  MaxAttempts <- MCMaxAttempts
  OutageHold = 90
  FundsDelayHours = 24
  MaxContacts = 2
  QuietStart = 21
  QuietEnd = 9
  AllowedChannels = {"sms", "email", "whatsapp"}
  EscalationFloor <- MCEscalationFloor
  NoticeHours = 24
  FailureStop = 3
  GraceHours = 24
  Cases <- MCCases
  Answers <- MCAnswers
  Labels <- MCLabels
  Budgets <- MCBudgets
  Arms = {"agent"}
  LedgerArms = {"agent"}
INVARIANT
  StoppedMandateReachesAPerson
CHECK_DEADLOCK FALSE
