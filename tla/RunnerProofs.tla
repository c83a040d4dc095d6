---------------------------- MODULE RunnerProofs ----------------------------
(***************************************************************************)
(* Theorems about Runner, for every policy file, every set of cases, every *)
(* set of answers of the diagnoser and every review budget.                *)
(***************************************************************************)
EXTENDS Runner, TLAPS

-----------------------------------------------------------------------------
(***************************************************************************)
(* Lemmas about the operators of Policy and Playbook.                      *)
(***************************************************************************)

(***************************************************************************)
(* Where _substitute moves a message to: outside quiet hours, and, when it *)
(* was due in them, never earlier than it was due.                         *)
(***************************************************************************)
LEMMA DeferralAwake ==
  ASSUME NEW t \in Nat
  PROVE  /\ Deferral(t) \in Nat
         /\ ~InQuietHours(Deferral(t))
         /\ InQuietHours(t) => Deferral(t) >= t
BY PolicyAssumption DEF Deferral, InQuietHours, HourOf

(***************************************************************************)
(* A substitute differs from the proposal in its hour only.                *)
(***************************************************************************)
LEMMA SubstituteTyped ==
  ASSUME NEW pr \in Proposals
  PROVE  /\ Substitute(pr) \in Proposals
         /\ Substitute(pr).iv = pr.iv
         /\ Substitute(pr).channel = pr.channel
         /\ Substitute(pr).at = Deferral(pr.at)
BY DeferralAwake DEF Substitute, Proposals

(***************************************************************************)
(* Which clauses a decision cites.                                         *)
(***************************************************************************)
LEMMA BlockingCites ==
  ASSUME NEW ev, NEW dx, NEW pr, NEW used0, NEW limit0
  PROVE  /\ Blocking(ev, dx, pr, used0, limit0) \subseteq ClauseIds
         /\ \A id \in Blocking(ev, dx, pr, used0, limit0) :
              \/ id = "safety.degraded_diagnosis" /\ DegradedBlocks(dx, pr)
              \/ id = "global.confidence_floor" /\ ConfidenceBlocks(dx, pr)
              \/ id = "global.value_floor" /\ ValueBlocks(ev, pr)
              \/ id = "global.max_total_actions" /\ ActionCapBlocks(ev, pr)
              \/ id = "retry.max_attempts" /\ RetryCapBlocks(ev, pr)
              \/ id = "retry.not_terminal_cause" /\ TerminalBlocks(dx, pr)
              \/ id = "retry.bank_outage_hold" /\ OutageBlocks(ev, dx, pr)
              \/ id = "retry.insufficient_funds_delay" /\ FundsBlocks(ev, dx, pr)
              \/ id = "contact.frequency_cap" /\ FrequencyBlocks(ev, pr)
              \/ id = "contact.quiet_hours" /\ QuietBlocks(pr)
              \/ id = "contact.channel_allowed" /\ ChannelBlocks(pr)
              \/ id = "receivables.no_dunning_when_disputed" /\ DisputeBlocks(dx, pr)
              \/ id = "subscriptions.pre_debit_notice" /\ NoticeBlocks(ev, pr)
              \/ id = "subscriptions.consecutive_failure_stop" /\ FailureStopBlocks(ev, pr)
              \/ id = "receivables.honour_promise_to_pay" /\ PromiseBlocks(ev, dx, pr)
              \/ id = "escalation.min_value" /\ WorthBlocks(ev, pr)
              \/ id = "escalation.capacity" /\ CapacityBlocks(pr, used0, limit0)
BY DEF Blocking, Cites, ClauseIds

(***************************************************************************)
(* The converse: a clause that blocks is cited.                            *)
(***************************************************************************)
LEMMA ClauseIsCited ==
  ASSUME NEW ev, NEW dx, NEW pr, NEW used0, NEW limit0
  PROVE  LET b == Blocking(ev, dx, pr, used0, limit0) IN
         /\ DegradedBlocks(dx, pr) => "safety.degraded_diagnosis" \in b
         /\ ConfidenceBlocks(dx, pr) => "global.confidence_floor" \in b
         /\ ValueBlocks(ev, pr) => "global.value_floor" \in b
         /\ ActionCapBlocks(ev, pr) => "global.max_total_actions" \in b
         /\ RetryCapBlocks(ev, pr) => "retry.max_attempts" \in b
         /\ TerminalBlocks(dx, pr) => "retry.not_terminal_cause" \in b
         /\ OutageBlocks(ev, dx, pr) => "retry.bank_outage_hold" \in b
         /\ FundsBlocks(ev, dx, pr) => "retry.insufficient_funds_delay" \in b
         /\ FrequencyBlocks(ev, pr) => "contact.frequency_cap" \in b
         /\ QuietBlocks(pr) => "contact.quiet_hours" \in b
         /\ ChannelBlocks(pr) => "contact.channel_allowed" \in b
         /\ DisputeBlocks(dx, pr) => "receivables.no_dunning_when_disputed" \in b
         /\ NoticeBlocks(ev, pr) => "subscriptions.pre_debit_notice" \in b
         /\ FailureStopBlocks(ev, pr) => "subscriptions.consecutive_failure_stop" \in b
         /\ PromiseBlocks(ev, dx, pr) => "receivables.honour_promise_to_pay" \in b
         /\ WorthBlocks(ev, pr) => "escalation.min_value" \in b
         /\ CapacityBlocks(pr, used0, limit0) => "escalation.capacity" \in b
BY DEF Blocking, Cites

(***************************************************************************)
(* What the engine substitutes it would also have allowed: although        *)
(* _substitute's proposal is never evaluated, every clause passes it,      *)
(* because a deferral only moves a message later and only to waking hours. *)
(***************************************************************************)
LEMMA SubstitutePermitted ==
  ASSUME NEW ev \in Events, NEW dx \in Diagnoses, NEW pr \in Proposals,
         NEW used0, NEW limit0,
         HasSubstitute(Blocking(ev, dx, pr, used0, limit0))
  PROVE  Blocking(ev, dx, Substitute(pr), used0, limit0) = {}
<1> DEFINE sub == Substitute(pr)
           only == {"contact.quiet_hours"}
<1>1. Blocking(ev, dx, pr, used0, limit0) = only
  BY DEF HasSubstitute
<1>2. QuietBlocks(pr)
  BY <1>1, BlockingCites
<1>3. /\ pr.iv \in Contacting
      /\ InQuietHours(pr.at)
      /\ pr.at \in Nat
  BY <1>2 DEF QuietBlocks, Proposals
<1>4. /\ sub.iv = pr.iv
      /\ sub.channel = pr.channel
      /\ sub.at >= pr.at
      /\ sub.at \in Nat
      /\ ~InQuietHours(sub.at)
  BY <1>3, SubstituteTyped, DeferralAwake
<1>5. ~QuietBlocks(sub)
  BY <1>4 DEF QuietBlocks
<1>6. /\ ~DegradedBlocks(dx, sub)
      /\ ~ConfidenceBlocks(dx, sub)
      /\ ~ValueBlocks(ev, sub)
      /\ ~ActionCapBlocks(ev, sub)
  BY <1>1, <1>4, ClauseIsCited
     DEF DegradedBlocks, ConfidenceBlocks, ValueBlocks, ActionCapBlocks
<1>7. /\ ~FrequencyBlocks(ev, sub)
      /\ ~ChannelBlocks(sub)
      /\ ~DisputeBlocks(dx, sub)
      /\ ~FailureStopBlocks(ev, sub)
  BY <1>1, <1>4, ClauseIsCited
     DEF FrequencyBlocks, ChannelBlocks, DisputeBlocks, FailureStopBlocks
<1>8. ~PromiseBlocks(ev, dx, sub)
  <2>1. ~PromiseBlocks(ev, dx, pr)
    BY <1>1, ClauseIsCited
  <2>2. dx.promise # NoPromise =>
          ev.occurred + 1440 * dx.promise + 60 * GraceHours \in Int
    BY PolicyAssumption DEF Events, Diagnoses
  <2>3. QED
    BY <2>1, <2>2, <1>3, <1>4 DEF PromiseBlocks
<1>9. /\ sub.iv \notin Billable
      /\ sub.iv # "escalate_human"
  BY <1>3, <1>4 DEF Contacting, Billable
<1>10. /\ ~RetryCapBlocks(ev, sub)
       /\ ~TerminalBlocks(dx, sub)
       /\ ~OutageBlocks(ev, dx, sub)
       /\ ~FundsBlocks(ev, dx, sub)
       /\ ~NoticeBlocks(ev, sub)
       /\ ~WorthBlocks(ev, sub)
       /\ ~CapacityBlocks(sub, used0, limit0)
  BY <1>9 DEF RetryCapBlocks, TerminalBlocks, OutageBlocks, FundsBlocks,
              NoticeBlocks, WorthBlocks, CapacityBlocks, Billable
<1>11. QED
  BY <1>5, <1>6, <1>7, <1>8, <1>10, BlockingCites

-----------------------------------------------------------------------------
(***************************************************************************)
(* The plans, and what is proposed from them, are well typed.              *)
(***************************************************************************)
LEMMA StepsTyped ==
  ASSUME NEW iv \in Interventions, NEW after \in Nat, NEW channel \in Channels
  PROVE  /\ Silent(iv, after) \in Steps
         /\ Message(iv, after, channel) \in Steps
         /\ SincePromise(Silent(iv, after)) \in Steps
         /\ SincePromise(Message(iv, after, channel)) \in Steps
BY DEF Silent, Message, SincePromise, Steps, Channels

(***************************************************************************)
(* Every playbook is a sequence of steps: the one for a cause nobody has a *)
(* plan for,                                                               *)
(***************************************************************************)
LEMMA UnknownPlaybookTyped == UnknownPlaybook \in Seq(Steps)
BY StepsTyped
   DEF UnknownPlaybook, Hours, Interventions, AlwaysSafe, Contacting, Billable,
       Channels

(***************************************************************************)
(* those of payments,                                                      *)
(***************************************************************************)
LEMMA PaymentPlaybookTyped ==
  ASSUME NEW cause PROVE PaymentPlaybook(cause) \in Seq(Steps)
BY StepsTyped, UnknownPlaybookTyped
   DEF PaymentPlaybook, Hours, Interventions, AlwaysSafe, Contacting, Billable,
       Channels

(***************************************************************************)
(* those of subscriptions,                                                 *)
(***************************************************************************)
LEMMA SubscriptionPlaybookTyped ==
  ASSUME NEW cause PROVE SubscriptionPlaybook(cause) \in Seq(Steps)
BY StepsTyped, UnknownPlaybookTyped
   DEF SubscriptionPlaybook, Hours, Interventions, AlwaysSafe, Contacting,
       Billable, Channels

(***************************************************************************)
(* those of receivables,                                                   *)
(***************************************************************************)
LEMMA ReceivablePlaybookTyped ==
  ASSUME NEW cause PROVE ReceivablePlaybook(cause) \in Seq(Steps)
BY StepsTyped, UnknownPlaybookTyped
   DEF ReceivablePlaybook, Hours, Interventions, AlwaysSafe, Contacting,
       Billable, Channels

(***************************************************************************)
(* whichever playbook_for chooses,                                         *)
(***************************************************************************)
LEMMA PlaybookForTyped ==
  ASSUME NEW ev, NEW dx PROVE PlaybookFor(ev, dx) \in Seq(Steps)
BY UnknownPlaybookTyped, PaymentPlaybookTyped, SubscriptionPlaybookTyped,
   ReceivablePlaybookTyped DEF PlaybookFor

(***************************************************************************)
(* and the plans of the naive arm.                                         *)
(***************************************************************************)
LEMMA NaivePlanTyped ==
  ASSUME NEW ev PROVE NaivePlan(ev) \in Seq(Steps)
BY StepsTyped
   DEF NaivePlan, Hours, Interventions, AlwaysSafe, Contacting, Billable,
       Channels

(***************************************************************************)
(* A step of a playbook makes a proposal.                                  *)
(***************************************************************************)
LEMMA ProposeTyped ==
  ASSUME NEW ev \in Events, NEW dx \in Diagnoses, NEW s \in Steps
  PROVE  Propose(ev, dx, s) \in Proposals
BY DEF Propose, Anchor, Events, Diagnoses, Steps, Proposals

(***************************************************************************)
(* What _diagnose returns is a diagnosis, of whatever path.                *)
(***************************************************************************)
LEMMA PossibleDiagnosesTyped ==
  ASSUME NEW c \in Cases, NEW a, NEW dx \in PossibleDiagnoses(c, a)
  PROVE  dx \in Diagnoses
<1>1. c.truth \in Causes
  BY RunnerAssumption DEF LatentCases
<1>2. RuleConfidence(c.truth) \in 0 .. 100
  BY DEF RuleConfidence
<1>3. RuleDiagnosis(c) \in Diagnoses
  BY <1>1, <1>2 DEF RuleDiagnosis, Diagnoses
<1>4. Degraded \in Diagnoses
  BY DEF Degraded, Diagnoses, Causes
<1>5. QED
  BY <1>3, <1>4, RunnerAssumption DEF PossibleDiagnoses, ModelAnswers

(***************************************************************************)
(* Every intervention has a cost.                                          *)
(***************************************************************************)
LEMMA CostTyped == ASSUME NEW iv PROVE CostOf(iv) \in Nat
BY DEF CostOf

-----------------------------------------------------------------------------
(***************************************************************************)
(* Types.  TypeOK alone is not inductive: while an action waits to be      *)
(* recorded it is the last one taken, and it is the one that was chosen.   *)
(***************************************************************************)
Recording ==
  pc = "record" => /\ taken # << >>
                   /\ LastTaken.iv = chosen.iv
                   /\ LastTaken.at = chosen.at

TypeInv == TypeOK /\ Recording

(***************************************************************************)
(* The plan of an arm is a sequence of steps.                              *)
(***************************************************************************)
LEMMA PlanTyped ==
  ASSUME TypeOK
  PROVE  Plan \in Seq(Steps)
BY PlaybookForTyped, NaivePlanTyped DEF Plan

(***************************************************************************)
(* While the loop runs there is a next step and it makes a proposal.       *)
(***************************************************************************)
LEMMA OfferTyped ==
  ASSUME TypeOK, ~Exhausted
  PROVE  Offer \in Proposals
<1>1. Plan \in Seq(Steps)
  BY PlanTyped
<1>2. step \in Nat /\ step < Len(Plan)
  BY <1>1 DEF TypeOK, Exhausted, StepLimit
<1>3. Plan[step + 1] \in Steps
  BY <1>1, <1>2
<1>4. working \in Events /\ diagnosis \in Diagnoses
  BY DEF TypeOK
<1>5. QED
  BY <1>3, <1>4, ProposeTyped DEF Offer

(***************************************************************************)
(* A ledger record of the right shape keeps the trail well typed.          *)
(***************************************************************************)
LEMMA LogTyped ==
  ASSUME TypeOK,
         NEW stage \in {"DETECTED", "DIAGNOSED", "DECIDED", "HALTED",
                        "EXECUTED", "OBSERVED"},
         NEW n \in Nat, NEW iv \in Interventions \cup {"none"},
         Log(stage, n, iv)
  PROVE  trail' \in Seq(TrailRecords)
<1>1. [stage |-> stage, step |-> n, iv |-> iv] \in TrailRecords
  BY DEF TrailRecords
<1>2. trail \in Seq(TrailRecords)
  BY DEF TypeOK
<1>3. QED
  BY <1>1, <1>2 DEF Log

(***************************************************************************)
(* A case begins with everything of its type.                              *)
(***************************************************************************)
LEMMA InitTyped == Init => TypeInv
<1> SUFFICES ASSUME Init PROVE TypeInv
  OBVIOUS
<1>1. PICK c \in Cases, a \in Arms : Begin(c, a)
  BY DEF Init
<1>2. c.event \in Events
  BY RunnerAssumption DEF LatentCases
<1>3. used \in Nat /\ limit \in Budgets
  BY RunnerAssumption DEF Init, NoCapacity
<1>4. NoDiagnosis \in Diagnoses /\ NoChoice \in Proposals
  BY DEF NoDiagnosis, NoChoice, Diagnoses, Proposals, Causes, Interventions,
         AlwaysSafe, Channels
<1>5. TypeOK
  BY <1>1, <1>2, <1>3, <1>4 DEF TypeOK, Begin, NoOutcome
<1>6. QED
  BY <1>1, <1>5 DEF TypeInv, Recording, Begin

(***************************************************************************)
(* Choosing a proposal keeps the types.                                    *)
(***************************************************************************)
LEMMA ChooseTyped ==
  ASSUME TypeInv, NEW pr \in Proposals, Choose(pr),
         refusals' \subseteq ClauseIds, violations' \subseteq ClauseIds
  PROVE  TypeInv'
<1>1. trail' \in Seq(TrailRecords)
  BY LogTyped DEF TypeInv, TypeOK, Choose, Proposals
<1>2. QED
  BY <1>1 DEF TypeInv, TypeOK, Recording, Choose, given, tallies

(***************************************************************************)
(* Refusals and violations are ids of clauses.                             *)
(***************************************************************************)
LEMMA RefusedTyped ==
  ASSUME TypeOK
  PROVE  Refused \subseteq ClauseIds
BY BlockingCites DEF Refused

(***************************************************************************)
(* Executing an action keeps the types.                                    *)
(***************************************************************************)
LEMMA ActTyped == TypeInv /\ Act => TypeInv'
<1> SUFFICES ASSUME TypeInv, Act PROVE TypeInv'
  OBVIOUS
<1> USE DEF TypeInv
<1>1. PICK landed \in BOOLEAN :
        taken' = Append(taken, [iv |-> chosen.iv, at |-> chosen.at,
                                draw |-> step, before |-> ContactsBefore,
                                landed |-> landed])
  BY DEF Act
<1>2. /\ chosen.iv \in Interventions
      /\ chosen.at \in Nat
      /\ step \in Nat
      /\ ContactsBefore \in Nat
  BY DEF TypeOK, Proposals, ContactsBefore
<1>3. [iv |-> chosen.iv, at |-> chosen.at, draw |-> step,
       before |-> ContactsBefore, landed |-> landed] \in ActRecords
  BY <1>2 DEF ActRecords
<1>4. taken \in Seq(ActRecords)
  BY DEF TypeOK
<1>5. /\ taken' \in Seq(ActRecords)
      /\ taken' # << >>
      /\ taken'[Len(taken')] = [iv |-> chosen.iv, at |-> chosen.at,
                                 draw |-> step, before |-> ContactsBefore,
                                 landed |-> landed]
  BY <1>1, <1>3, <1>4
<1>6. spent' \in Nat /\ contacts' \in Nat /\ notices' \in Nat /\ used' \in Nat
  BY CostTyped DEF Act, TypeOK
<1>7. TypeOK'
  BY <1>5, <1>6 DEF Act, TypeOK, given, verdicts
<1>8. Recording'
  BY <1>5 DEF Recording, LastTaken, Act
<1>9. QED
  BY <1>7, <1>8

(***************************************************************************)
(* The rewritten context is that of an event.                              *)
(***************************************************************************)
LEMMA UpdatedTyped ==
  ASSUME NEW ev \in Events, NEW iv, NEW at \in Nat
  PROVE  Updated(ev, iv, at) \in Events
<1>1. /\ ev.attempts + (IF iv \in Billable THEN 1 ELSE 0) \in Nat
      /\ ev.contacts + (IF iv \in Contacting THEN 1 ELSE 0) \in Nat
      /\ ev.actions + 1 \in Nat
      /\ (IF iv = "pre_debit_notice" THEN at ELSE ev.noticeAt)
           \in Nat \cup {NoNotice}
  BY DEF Events
<1>2. QED
  BY <1>1 DEF Updated, Events

(***************************************************************************)
(* Recording an execution keeps the types.                                 *)
(***************************************************************************)
LEMMA RecordTyped == TypeInv /\ Record => TypeInv'
<1> SUFFICES ASSUME TypeInv, Record PROVE TypeInv'
  OBVIOUS
<1>1. taken \in Seq(ActRecords) /\ taken # << >>
  BY DEF TypeInv, TypeOK, Recording, Record
<1>2. LastTaken \in ActRecords
  BY <1>1 DEF LastTaken
<1>3. LastTaken.iv \in Interventions /\ LastTaken.at \in Nat
  BY <1>2 DEF ActRecords
<1>4. trail' \in Seq(TrailRecords)
  <2>1. step + 1 \in Nat
    BY DEF TypeInv, TypeOK
  <2>2. QED
    BY <1>3, <2>1, LogTyped DEF TypeInv, Record
<1>5. Updated(working, LastTaken.iv, LastTaken.at) \in Events
  BY <1>3, UpdatedTyped DEF TypeInv, TypeOK
<1>6. /\ working' \in Events
      /\ step' \in Nat
      /\ closedBy' \in Interventions \cup {"none"}
      /\ pc' \in {"loop", "observe"}
  BY <1>3, <1>5 DEF TypeInv, TypeOK, Record
<1>7. QED
  BY <1>4, <1>6 DEF TypeInv, TypeOK, Recording, Record, given, tallies, verdicts

(***************************************************************************)
(* Observing the outcome keeps the types.                                  *)
(***************************************************************************)
LEMMA ObserveTyped == TypeInv /\ Observe => TypeInv'
<1> SUFFICES ASSUME TypeInv, Observe PROVE TypeInv'
  OBVIOUS
<1>1. trail' \in Seq(TrailRecords)
  BY LogTyped DEF TypeInv, Observe
<1>2. case.event \in Events
  BY RunnerAssumption DEF TypeInv, TypeOK, LatentCases
<1>3. taken # << >> => LastTaken \in ActRecords
  BY DEF LastTaken, TypeInv, TypeOK
<1>4. (IF taken = << >> THEN case.event.occurred ELSE LastTaken.at) \in Nat
  BY <1>2, <1>3 DEF Events, ActRecords
<1>5. OutcomeState(closedBy, case.anyway, taken)
        \in {"recovered", "not_attempted", "escalated", "still_at_risk"}
  BY DEF OutcomeState
<1>6. outcome' \in Outcomes
  BY <1>2, <1>4, <1>5 DEF Observe, Outcomes, TypeInv, TypeOK, Events
<1>7. QED
  BY <1>1, <1>6 DEF TypeInv, TypeOK, Recording, Observe, given, tallies, verdicts

(***************************************************************************)
(* Every step keeps the types.                                             *)
(***************************************************************************)
LEMMA StepTyped == TypeInv /\ [Next]_vars => TypeInv'
<1> SUFFICES ASSUME TypeInv, [Next]_vars PROVE TypeInv'
  OBVIOUS
<1> USE DEF TypeInv
<1>1. CASE Detect
  <2>1. trail' \in Seq(TrailRecords)
    BY <1>1, LogTyped DEF Detect
  <2>2. QED
    BY <1>1, <2>1 DEF Detect, TypeOK, Recording, given, tallies, verdicts
<1>2. CASE Diagnose
  <2>1. trail' \in Seq(TrailRecords)
    BY <1>2, LogTyped DEF Diagnose
  <2>2. diagnosis' \in Diagnoses
    BY <1>2, PossibleDiagnosesTyped DEF Diagnose, TypeOK
  <2>3. QED
    BY <1>2, <2>1, <2>2 DEF Diagnose, TypeOK, Recording, given, tallies, verdicts
<1>3. CASE Stop
  BY <1>3 DEF Stop, TypeOK, Recording, given, tallies, verdicts
<1>4. CASE Permit
  BY <1>4, OfferTyped, ChooseTyped DEF Permit, Deciding, verdicts, TypeOK
<1>5. CASE Defer
  <2>1. Offer \in Proposals
    BY <1>5, OfferTyped DEF Defer, Deciding
  <2>2. Substitute(Offer) \in Proposals
    BY <2>1, SubstituteTyped
  <2>3. refusals' \subseteq ClauseIds /\ violations' \subseteq ClauseIds
    BY <1>5, RefusedTyped DEF Defer, TypeOK
  <2>4. QED
    BY <1>5, <2>2, <2>3, ChooseTyped DEF Defer
<1>6. CASE Override
  <2>1. Offer \in Proposals
    BY <1>6, OfferTyped DEF Override, Deciding
  <2>2. refusals' \subseteq ClauseIds /\ violations' \subseteq ClauseIds
    BY <1>6, RefusedTyped DEF Override, TypeOK
  <2>3. QED
    BY <1>6, <2>1, <2>2, ChooseTyped DEF Override
<1>7. CASE Halt
  <2>1. Offer.iv \in Interventions
    BY <1>7, OfferTyped DEF Halt, Deciding, Proposals
  <2>2. trail' \in Seq(TrailRecords)
    BY <1>7, <2>1, LogTyped DEF Halt
  <2>3. refusals' \subseteq ClauseIds
    BY <1>7, RefusedTyped DEF Halt, TypeOK
  <2>4. QED
    BY <1>7, <2>2, <2>3 DEF Halt, TypeOK, Recording, given, tallies
<1>8. CASE Act
  BY <1>8, ActTyped
<1>9. CASE Record
  BY <1>9, RecordTyped
<1>10. CASE Observe
  BY <1>10, ObserveTyped
<1>11. CASE Abort
  BY <1>11 DEF Abort, TypeOK, Recording, given, tallies, verdicts
<1>12. CASE UNCHANGED vars
  BY <1>12 DEF vars, TypeOK, Recording, LastTaken
<1>13. QED
  BY <1>1, <1>2, <1>3, <1>4, <1>5, <1>6, <1>7, <1>8, <1>9, <1>10, <1>11, <1>12
     DEF Next, Advance

(***************************************************************************)
(* The runner's state is always well typed: in particular every diagnosis, *)
(* confidence included, every substituted proposal and every rewritten     *)
(* context is one the engine knows how to judge.                           *)
(***************************************************************************)
THEOREM TypeCorrect == Spec => []TypeOK
<1>1. TypeInv => TypeOK
  BY DEF TypeInv
<1>2. QED
  BY InitTyped, StepTyped, <1>1, PTL DEF Spec
=============================================================================
