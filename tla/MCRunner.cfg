\* Every arm over the whole book, the policy numbers of policies.yaml.
SPECIFICATION FairSpec
CONSTANTS
  MinConfidence = 55
  MinRecoverable = 5000
  MaxTotalActions = 5
  MaxAttempts <- MCMaxAttempts
  OutageHold = 90
  FundsDelayHours = 24
  MaxContacts = 2
  QuietStart = 21
  QuietEnd = 9
  AllowedChannels = {"sms", "email", "whatsapp"}
  EscalationFloor <- MCEscalationFloor
  NoticeHours = 24
  FailureStop = 3
  GraceHours = 24
  Cases <- MCCases
  Answers <- MCAnswers
  Labels <- MCLabels
  Budgets <- MCBudgets
  Arms = {"control", "naive", "agent"}
  LedgerArms = {"agent"}
INVARIANTS
  TypeOK
  ActsArePermitted
  NoticePrecedesPresentation
  PromiseIsHonoured
  CapsHoldOverTheCase
  ContextIsCurrent
  ReviewBudgetHolds
  AgreesWithResolve
  AuditTrailAccounts
PROPERTY
  EveryCaseEnds
\* A case that is done or aborted takes no further step.
CHECK_DEADLOCK FALSE
