------------------------------- MODULE Policy -------------------------------
(***************************************************************************)
(* The policy engine (src/backend/counterfoil/kernel/policy/engine.py).    *)
(*                                                                         *)
(* A proposal is inert; the engine evaluates it against every clause that  *)
(* applies and returns a decision.  Here a clause is the predicate under   *)
(* which it BLOCKS the proposal, a decision is the set of clauses that     *)
(* block it, and the one repair the engine knows (defer a message out of   *)
(* quiet hours) is the operator Deferred.                                  *)
(*                                                                         *)
(* Time is in minutes, counted from the IST midnight before the failure,   *)
(* so the IST hour of a moment is (t % 1440) \div 60.  Money is in paise   *)
(* and confidence in hundredths.  The numbers of policies.yaml are the     *)
(* constants of this module: every theorem holds for every policy file.    *)
(*                                                                         *)
(* A definition introduced by a comment "Slip:" is a variant of the one    *)
(* after it with a plausible mistake.  No specification uses it: it is     *)
(* there to show that a property notices the mistake.                      *)
(***************************************************************************)
EXTENDS Integers

CONSTANTS
  MinConfidence,      \* global.min_confidence, hundredths
  MinRecoverable,     \* global.min_recoverable_paise
  MaxTotalActions,    \* global.max_total_actions
  MaxAttempts,        \* retry.max_attempts: surface -> number
  OutageHold,         \* retry.bank_outage_hold_minutes
  FundsDelayHours,    \* retry.insufficient_funds_retry_after_hours
  MaxContacts,        \* contact.max_per_7d
  QuietStart,         \* contact.quiet_hours_start_ist, an hour of the day
  QuietEnd,           \* contact.quiet_hours_end_ist
  AllowedChannels,    \* contact.allowed_channels
  EscalationFloor,    \* <surface>.escalation_min_value_paise: surface -> paise
  NoticeHours,        \* subscriptions.pre_debit_notice_hours
  FailureStop,        \* subscriptions.escalate_after_consecutive_failures
  GraceHours          \* receivables.promise_grace_hours

Surfaces == {"payments", "subscriptions", "receivables"}

(***************************************************************************)
(* Quiet hours run over midnight, from QuietStart to QuietEnd.  With       *)
(* QuietEnd >= QuietStart no hour of the day would be outside them.        *)
(***************************************************************************)
ASSUME PolicyAssumption ==
  /\ {MinConfidence, MinRecoverable, MaxTotalActions, OutageHold, MaxContacts,
      FundsDelayHours, NoticeHours, FailureStop, GraceHours} \subseteq Nat
  /\ MaxAttempts \in [Surfaces -> Nat]
  /\ EscalationFloor \in [Surfaces -> Nat]
  /\ QuietStart \in 0 .. 24
  /\ QuietEnd \in 0 .. 23
  /\ QuietEnd < QuietStart

-----------------------------------------------------------------------------
(***************************************************************************)
(* Vocabulary of domain/decision.py and domain/diagnosis.py.               *)
(***************************************************************************)
Contacting == {"request_updated_instrument", "send_payment_link",
               "customer_nudge", "mandate_reauth", "invoice_reminder",
               "pre_debit_notice"}

Billable == {"retry_same_rail", "retry_alternate_rail"}

AlwaysSafe == {"no_action", "escalate_human"}

Interventions == Contacting \cup Billable \cup AlwaysSafe

Channels == {"sms", "email", "whatsapp", "none"}

PaymentCauses == {"bank_downtime", "technical_gateway", "insufficient_funds",
                  "issuer_decline_soft", "issuer_decline_hard",
                  "expired_instrument", "international_blocked",
                  "authentication_dropoff", "customer_abandoned"}

MandateCauses == {"mandate_revoked", "mandate_balance_low"}

InvoiceCauses == {"invoice_disputed", "invoice_awaiting_approval",
                  "invoice_cashflow_delay", "promise_to_pay"}

Causes == PaymentCauses \cup MandateCauses \cup InvoiceCauses \cup {"unknown"}

TerminalCauses == {"issuer_decline_hard", "expired_instrument",
                   "mandate_revoked", "international_blocked",
                   "invoice_disputed"}

NoPromise  == -1   \* evidence without promised_within_days
NoNotice   == -1   \* context without pre_debit_notice_at
NoCapacity == -1   \* PolicyEngine(capacity=None)

Diagnoses == [cause : Causes, confidence : 0 .. 100,
              path : {"rule", "llm", "degraded"}, promise : Nat \cup {NoPromise}]

(***************************************************************************)
(* A RiskEvent: what it is, when it happened, and the context the engine   *)
(* reads, which the runner rewrites after every action.                    *)
(***************************************************************************)
Events == [surface : Surfaces, occurred : Nat, amount : Nat, attempts : Nat,
           contacts : Nat, actions : Nat, failures : Nat,
           noticeAt : Nat \cup {NoNotice}]

Proposals == [iv : Interventions, at : Nat, channel : Channels]

-----------------------------------------------------------------------------
HourOf(t) == (t % 1440) \div 60

InQuietHours(t) == HourOf(t) >= QuietStart \/ HourOf(t) < QuietEnd

DegradedBlocks(dx, pr) == dx.path = "degraded" /\ pr.iv \notin AlwaysSafe

ConfidenceBlocks(dx, pr) ==
  pr.iv \notin AlwaysSafe /\ dx.confidence < MinConfidence

ValueBlocks(ev, pr) == pr.iv \notin AlwaysSafe /\ ev.amount < MinRecoverable

ActionCapBlocks(ev, pr) ==
  pr.iv \notin AlwaysSafe /\ ev.actions >= MaxTotalActions

RetryCapBlocks(ev, pr) ==
  pr.iv \in Billable /\ ev.attempts >= MaxAttempts[ev.surface]

TerminalBlocks(dx, pr) ==
  pr.iv = "retry_same_rail" /\ dx.cause \in TerminalCauses

OutageBlocks(ev, dx, pr) ==
  /\ pr.iv \in Billable
  /\ dx.cause = "bank_downtime"
  /\ pr.at - ev.occurred < OutageHold

FundsBlocks(ev, dx, pr) ==
  /\ pr.iv \in Billable
  /\ dx.cause = "insufficient_funds"
  /\ pr.at - ev.occurred < 60 * FundsDelayHours

FrequencyBlocks(ev, pr) ==
  pr.iv \in Contacting /\ ev.contacts >= MaxContacts

QuietBlocks(pr) == pr.iv \in Contacting /\ InQuietHours(pr.at)

ChannelBlocks(pr) == pr.iv \in Contacting /\ pr.channel \notin AllowedChannels

DisputeBlocks(dx, pr) ==
  pr.iv \in Contacting /\ dx.cause = "invoice_disputed"

(***************************************************************************)
(* A mandate may be presented only NoticeHours after a notice.             *)
(***************************************************************************)
NoticeBlocks(ev, pr) ==
  /\ ev.surface = "subscriptions"
  /\ pr.iv \in Billable
  /\ \/ ev.noticeAt = NoNotice
     \/ pr.at - ev.noticeAt < 60 * NoticeHours

FailureStopBlocks(ev, pr) ==
  /\ ev.surface = "subscriptions"
  /\ pr.iv \notin AlwaysSafe
  /\ ev.failures >= FailureStop

PromiseBlocks(ev, dx, pr) ==
  /\ ev.surface = "receivables"
  /\ pr.iv \in Contacting
  /\ dx.promise # NoPromise
  /\ pr.at < ev.occurred + 1440 * dx.promise + 60 * GraceHours

WorthBlocks(ev, pr) ==
  pr.iv = "escalate_human" /\ ev.amount < EscalationFloor[ev.surface]

\* Slip: the budget allows one review too many.
CapacityBlocksLate(pr, used, limit) ==
  pr.iv = "escalate_human" /\ limit # NoCapacity /\ used > limit

(***************************************************************************)
(* Capacity.exhausted, for the run's shared budget of human reviews.       *)
(***************************************************************************)
CapacityBlocks(pr, used, limit) ==
  pr.iv = "escalate_human" /\ limit # NoCapacity /\ used >= limit

-----------------------------------------------------------------------------
(***************************************************************************)
(* PolicyEngine.evaluate: the ids of the clauses that block a proposal.    *)
(* An empty set is Decision.allowed.                                       *)
(***************************************************************************)
ClauseIds == {"safety.degraded_diagnosis", "global.confidence_floor",
              "global.value_floor", "global.max_total_actions",
              "retry.max_attempts", "retry.not_terminal_cause",
              "retry.bank_outage_hold", "retry.insufficient_funds_delay",
              "contact.frequency_cap", "contact.quiet_hours",
              "contact.channel_allowed", "receivables.no_dunning_when_disputed",
              "subscriptions.pre_debit_notice",
              "subscriptions.consecutive_failure_stop",
              "receivables.honour_promise_to_pay", "escalation.min_value",
              "escalation.capacity"}

Cites(id, blocks) == IF blocks THEN {id} ELSE {}

Blocking(ev, dx, pr, used, limit) ==
  UNION {Cites("safety.degraded_diagnosis", DegradedBlocks(dx, pr)),
         Cites("global.confidence_floor", ConfidenceBlocks(dx, pr)),
         Cites("global.value_floor", ValueBlocks(ev, pr)),
         Cites("global.max_total_actions", ActionCapBlocks(ev, pr)),
         Cites("retry.max_attempts", RetryCapBlocks(ev, pr)),
         Cites("retry.not_terminal_cause", TerminalBlocks(dx, pr)),
         Cites("retry.bank_outage_hold", OutageBlocks(ev, dx, pr)),
         Cites("retry.insufficient_funds_delay", FundsBlocks(ev, dx, pr)),
         Cites("contact.frequency_cap", FrequencyBlocks(ev, pr)),
         Cites("contact.quiet_hours", QuietBlocks(pr)),
         Cites("contact.channel_allowed", ChannelBlocks(pr)),
         Cites("receivables.no_dunning_when_disputed", DisputeBlocks(dx, pr)),
         Cites("subscriptions.pre_debit_notice", NoticeBlocks(ev, pr)),
         Cites("subscriptions.consecutive_failure_stop", FailureStopBlocks(ev, pr)),
         Cites("receivables.honour_promise_to_pay", PromiseBlocks(ev, dx, pr)),
         Cites("escalation.min_value", WorthBlocks(ev, pr)),
         Cites("escalation.capacity", CapacityBlocks(pr, used, limit))}

\* Slip: a message due in the evening is moved to the morning before.
DeferralBackwards(t) == (t - (t % 1440)) + 60 * QuietEnd

\* Slip: anything quiet hours block, whatever else blocks it, is rescued.
HasSubstituteAnyway(blocking) == "contact.quiet_hours" \in blocking

(***************************************************************************)
(* PolicyEngine._substitute: quiet hours are a timing problem, so a        *)
(* message that only they block moves to the end of the window, the same   *)
(* morning or, in the evening, the next one.  Anything else has no         *)
(* substitute.  The result is not evaluated again.                         *)
(***************************************************************************)
Deferral(t) ==
  (t - (t % 1440)) + 60 * QuietEnd
    + (IF HourOf(t) >= QuietStart THEN 1440 ELSE 0)

HasSubstitute(blocking) == blocking = {"contact.quiet_hours"}

Substitute(pr) == [pr EXCEPT !.at = Deferral(pr.at)]
=============================================================================
