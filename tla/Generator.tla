----------------------------- MODULE Generator -----------------------------
(***************************************************************************)
(* The batch generator (src/backend/counterfoil/synth/generator.py, with   *)
(* the signal catalogue of profiles.py): a case is dealt from one roll of  *)
(* the dice, everything random about it included, so that every arm faces  *)
(* the same customer, bank and luck.                                       *)
(***************************************************************************)
EXTENDS World

MAX_DRAWS == 12

-----------------------------------------------------------------------------
(***************************************************************************)
(* What the provider reports of a cause it names, by surface.  An invoice  *)
(* comes with a thread of prose and no codes at all.                       *)
(***************************************************************************)
Reports(reason, source) == [reason |-> reason, source |-> source]

CardSignals ==
  [insufficient_funds  |-> Reports("insufficient_funds", "issuer"),
   expired_instrument  |-> Reports("card_expired", "issuer"),
   issuer_decline_hard |-> Reports("card_blocked", "issuer"),
   issuer_decline_soft |-> Reports("payment_declined_by_issuer", "issuer"),
   international_blocked |->
     Reports("international_transaction_not_allowed", "issuer"),
   bank_downtime       |-> Reports("bank_technical_error", "bank"),
   technical_gateway   |-> Reports("gateway_technical_error", "gateway"),
   authentication_dropoff |->
     Reports("payment_authentication_failed", "customer"),
   customer_abandoned  |-> Reports("payment_cancelled_by_customer", "customer")]

MandateSignals ==
  [mandate_balance_low |-> Reports("mandate_insufficient_balance", "issuer"),
   insufficient_funds  |-> Reports("insufficient_funds", "issuer"),
   mandate_revoked     |-> Reports("mandate_revoked", "customer"),
   expired_instrument  |-> Reports("card_expired", "issuer"),
   bank_downtime       |-> Reports("bank_technical_error", "bank"),
   technical_gateway   |-> Reports("gateway_technical_error", "gateway")]

(***************************************************************************)
(* SURFACE_AMBIGUOUS: the causes a provider may also report in prose.      *)
(***************************************************************************)
VagueCauses ==
  [payments      |-> {"insufficient_funds", "bank_downtime",
                      "authentication_dropoff", "issuer_decline_soft",
                      "issuer_decline_hard", "technical_gateway"},
   subscriptions |-> {"mandate_balance_low", "mandate_revoked",
                      "bank_downtime", "technical_gateway"},
   receivables   |-> {}]

(***************************************************************************)
(* _signals: whether the payload is prose, and the codes it carries.       *)
(***************************************************************************)
Ambiguous(surface, r) ==
  surface = "receivables" \/ (r.vague /\ r.cause \in VagueCauses[surface])

Signals(surface, r) ==
  CASE surface = "receivables" -> Reports("", "")
    [] surface # "receivables" /\ Ambiguous(surface, r) ->
         Reports("payment_failed", "gateway")
    [] surface = "payments" /\ ~Ambiguous(surface, r) -> CardSignals[r.cause]
    [] OTHER -> MandateSignals[r.cause]

-----------------------------------------------------------------------------
PlanPrices == {9900, 19900, 49900, 99900, 149900, 299900, 599900}

BalanceCauses == {"mandate_balance_low", "insufficient_funds"}

(***************************************************************************)
(* What generate and _generate_receivables may roll: the ranges of every   *)
(* number they draw.  Amounts are in paise, dates in minutes.              *)
(***************************************************************************)
AmountInRange(surface, paise) ==
  CASE surface = "payments"      -> paise \in 2900 .. 25000000
    [] surface = "subscriptions" -> paise \in PlanPrices
    [] OTHER                     -> paise \in 400000 .. 250000000

DateInRange(surface, cause, minutes) ==
  CASE surface = "subscriptions" /\ cause \in BalanceCauses ->
         minutes \in 18 * 60 .. 500 * 60
    [] surface = "receivables" /\ cause = "promise_to_pay" ->
         minutes \in 24 * 60 .. 340 * 60
    [] OTHER -> minutes = NoDate

Rollable(surface, r) ==
  /\ r.cause \in DOMAIN SurfaceBehaviour[surface]
  /\ r.segment \in Segments
  /\ r.vague \in BOOLEAN
  /\ r.occurred \in Nat
  /\ AmountInRange(surface, r.amount)
  /\ r.attempts \in IF surface = "payments" THEN 0 .. 2 ELSE {0}
  /\ r.contacts \in 0 .. 2
  /\ r.failures \in IF surface = "subscriptions" THEN 1 .. 3 ELSE {0}
  /\ DateInRange(surface, r.cause, r.ripens)
  /\ r.u \in 0 .. Certain - 1
  /\ r.draws \in [0 .. MAX_DRAWS - 1 -> 0 .. Certain - 1]

(***************************************************************************)
(* The LatentCase a roll makes.                                            *)
(***************************************************************************)
Dealt(surface, r) ==
  [event |-> [surface |-> surface, occurred |-> r.occurred,
              amount |-> r.amount, attempts |-> r.attempts,
              contacts |-> r.contacts, actions |-> 0,
              failures |-> r.failures, noticeAt |-> NoNotice],
   truth |-> r.cause,
   segment |-> r.segment,
   ambiguous |-> Ambiguous(surface, r),
   signals |-> Signals(surface, r),
   ripens |-> r.ripens,
   u |-> r.u,
   draws |-> r.draws]

(***************************************************************************)
(* Whether generate may return case d: the roll it was dealt from can be   *)
(* read off it, and dealing that roll makes the same case.                 *)
(***************************************************************************)
RollOf(d) ==
  [cause |-> d.truth, vague |-> d.ambiguous, segment |-> d.segment,
   occurred |-> d.event.occurred, amount |-> d.event.amount,
   attempts |-> d.event.attempts, contacts |-> d.event.contacts,
   failures |-> d.event.failures, ripens |-> d.ripens, u |-> d.u,
   draws |-> d.draws]

Generated(d) ==
  /\ Rollable(d.event.surface, RollOf(d))
  /\ d = Dealt(d.event.surface, RollOf(d))

(***************************************************************************)
(* What the runner knows of a dealt case (Runner.LatentCases).             *)
(***************************************************************************)
Hidden(d) ==
  [event |-> d.event, truth |-> d.truth, clear |-> ~d.ambiguous,
   anyway |-> d.u < Spontaneous(d)]
=============================================================================
