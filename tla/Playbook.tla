------------------------------ MODULE Playbook ------------------------------
(***************************************************************************)
(* What to try next: the proposer of the agent                             *)
(* (src/backend/counterfoil/kernel/propose.py) and the fixed plans of the  *)
(* naive arm (src/backend/counterfoil/eval/arms.py).                       *)
(*                                                                         *)
(* A playbook is a sequence of steps.  A step is scheduled after minutes   *)
(* past the original failure, not past the previous step, or past the date *)
(* the buyer promised when its anchor says so.  Nothing here consults the  *)
(* clock of the steps already taken.                                       *)
(***************************************************************************)
EXTENDS Policy, Sequences

Steps == [iv : Interventions, after : Nat, channel : Channels,
          fromPromise : BOOLEAN]

Silent(iv, after) ==
  [iv |-> iv, after |-> after, channel |-> "none", fromPromise |-> FALSE]

Message(iv, after, channel) ==
  [iv |-> iv, after |-> after, channel |-> channel, fromPromise |-> FALSE]

SincePromise(step) == [step EXCEPT !.fromPromise = TRUE]

Hours(n) == 60 * n

-----------------------------------------------------------------------------
UnknownPlaybook == <<Silent("escalate_human", Hours(2))>>

PaymentPlaybook(cause) ==
  CASE cause = "technical_gateway" ->
         <<Silent("retry_same_rail", 45),
           Silent("retry_alternate_rail", Hours(4)),
           Message("send_payment_link", Hours(24), "sms")>>
    [] cause = "bank_downtime" ->
         <<Silent("retry_same_rail", Hours(2)),
           Silent("retry_same_rail", Hours(8)),
           Silent("retry_alternate_rail", Hours(20))>>
    [] cause = "insufficient_funds" ->
         <<Silent("retry_same_rail", Hours(26)),
           Message("customer_nudge", Hours(50), "sms"),
           Silent("retry_same_rail", Hours(74))>>
    [] cause = "authentication_dropoff" ->
         <<Message("send_payment_link", Hours(1), "sms"),
           Silent("retry_alternate_rail", Hours(12)),
           Message("customer_nudge", Hours(48), "email")>>
    [] cause = "customer_abandoned" ->
         <<Message("send_payment_link", Hours(2), "sms"),
           Message("customer_nudge", Hours(48), "email")>>
    [] cause = "issuer_decline_soft" ->
         <<Silent("retry_same_rail", Hours(8)),
           Silent("retry_alternate_rail", Hours(20)),
           Message("customer_nudge", Hours(60), "sms")>>
    [] cause \in {"expired_instrument", "issuer_decline_hard"} ->
         <<Message("request_updated_instrument", Hours(1), "sms"),
           Message("customer_nudge", Hours(72), "email")>>
    [] cause = "international_blocked" ->
         <<Message("request_updated_instrument", Hours(1), "sms"),
           Silent("escalate_human", Hours(48))>>
    [] OTHER -> UnknownPlaybook

SubscriptionPlaybook(cause) ==
  CASE cause = "mandate_balance_low" ->
         <<Message("pre_debit_notice", Hours(2), "sms"),
           Silent("retry_same_rail", Hours(74)),
           Message("customer_nudge", Hours(122), "sms"),
           Silent("retry_same_rail", Hours(170))>>
    [] cause = "insufficient_funds" ->
         <<Message("pre_debit_notice", Hours(2), "sms"),
           Silent("retry_same_rail", Hours(74)),
           Message("customer_nudge", Hours(122), "email"),
           Silent("retry_same_rail", Hours(170))>>
    [] cause = "bank_downtime" ->
         <<Message("pre_debit_notice", Hours(1), "sms"),
           Silent("retry_same_rail", Hours(26)),
           Silent("retry_same_rail", Hours(50))>>
    [] cause = "technical_gateway" ->
         <<Message("pre_debit_notice", Hours(1), "sms"),
           Silent("retry_same_rail", Hours(26))>>
    [] cause = "mandate_revoked" ->
         <<Message("mandate_reauth", Hours(2), "sms"),
           Silent("escalate_human", Hours(96))>>
    [] cause = "expired_instrument" ->
         <<Message("request_updated_instrument", Hours(2), "sms"),
           Message("customer_nudge", Hours(72), "email")>>
    [] OTHER -> UnknownPlaybook

ReceivablePlaybook(cause) ==
  CASE cause = "invoice_awaiting_approval" ->
         <<Message("invoice_reminder", Hours(24), "email"),
           Message("invoice_reminder", Hours(192), "email"),
           Silent("escalate_human", Hours(384))>>
    [] cause = "promise_to_pay" ->
         <<SincePromise(Message("invoice_reminder", Hours(24), "email")),
           SincePromise(Message("invoice_reminder", Hours(168), "email")),
           SincePromise(Silent("escalate_human", Hours(336)))>>
    [] cause = "invoice_cashflow_delay" ->
         <<Message("invoice_reminder", Hours(48), "email"),
           Message("invoice_reminder", Hours(288), "email"),
           Silent("escalate_human", Hours(600))>>
    [] cause = "invoice_disputed" -> <<Silent("escalate_human", Hours(2))>>
    [] OTHER -> UnknownPlaybook

(***************************************************************************)
(* playbook_for: keyed on cause and surface; an unknown or degraded        *)
(* diagnosis, or a cause the surface has no plan for, goes to a person.    *)
(***************************************************************************)
PlaybookFor(ev, dx) ==
  CASE dx.path = "degraded" \/ dx.cause = "unknown" -> UnknownPlaybook
    [] ev.surface = "subscriptions" -> SubscriptionPlaybook(dx.cause)
    [] ev.surface = "receivables"   -> ReceivablePlaybook(dx.cause)
    [] OTHER                        -> PaymentPlaybook(dx.cause)

(***************************************************************************)
(* _naive_plan: what the ungoverned arm does to every failure.             *)
(***************************************************************************)
NaivePlan(ev) ==
  IF ev.surface = "subscriptions"
  THEN <<Silent("retry_same_rail", Hours(2)),
         Silent("retry_same_rail", Hours(26)),
         Silent("retry_same_rail", Hours(50)),
         Silent("retry_same_rail", Hours(74)),
         Message("customer_nudge", Hours(98), "sms")>>
  ELSE <<Silent("retry_same_rail", 5),
         Silent("retry_same_rail", 20),
         Silent("retry_same_rail", Hours(1)),
         Message("customer_nudge", 90, "sms")>>

(***************************************************************************)
(* next_proposal: the step of the plan, anchored to the failure or to the  *)
(* promised day.  The caller has checked that the plan has such a step.    *)
(***************************************************************************)
Anchor(ev, dx, step) ==
  IF step.fromPromise /\ dx.promise # NoPromise
  THEN ev.occurred + 1440 * dx.promise
  ELSE ev.occurred

Propose(ev, dx, step) ==
  [iv |-> step.iv, at |-> Anchor(ev, dx, step) + step.after,
   channel |-> step.channel]
=============================================================================
