------------------------------ MODULE MCRunner ------------------------------
(***************************************************************************)
(* Runner on the policy file of the repository and a small book of cases:  *)
(* every cause of every surface, failures that happen in the morning, in   *)
(* the evening and at night, amounts on either side of the floors, and     *)
(* contexts that start at, under and over each cap.                        *)
(***************************************************************************)
EXTENDS Runner

MCMaxAttempts == [payments |-> 3, subscriptions |-> 4, receivables |-> 0]

MCEscalationFloor ==
  [payments |-> 200000, subscriptions |-> 100000, receivables |-> 2500000]

MCBudgets == {1, NoCapacity}

(***************************************************************************)
(* 10:00, 20:30 (a message an hour later falls in quiet hours, one days    *)
(* later does not), 21:30 (a message days later does) and 02:00.           *)
(***************************************************************************)
Morning == 10 * 60
Evening == 20 * 60 + 30
Late    == 21 * 60 + 30
Night   == 2 * 60

Failure(surface, occurred, amount, attempts, contacts0, failures) ==
  [surface |-> surface, occurred |-> occurred, amount |-> amount,
   attempts |-> attempts, contacts |-> contacts0, actions |-> 0,
   failures |-> failures, noticeAt |-> NoNotice]

Latent(events, truths, clears) ==
  [event : events, truth : truths, clear : clears, anyway : BOOLEAN]

PaymentEvents ==
  {Failure("payments", o, 90000, 0, 0, 0) : o \in {Morning, Evening, Night}}
  \cup {Failure("payments", Evening, a, n, c, 0) :
          a \in {4900, 300000}, n \in {0, 2}, c \in {0, 1, 2}}

PaymentCases ==
  Latent(PaymentEvents, PaymentCauses, {TRUE})
  \cup Latent({Failure("payments", Evening, 300000, 0, 0, 0)},
              {"bank_downtime", "issuer_decline_hard"}, {FALSE})

SubscriptionEvents ==
  {Failure("subscriptions", o, 149900, 0, c, f) :
     o \in {Morning, Evening, Night}, c \in {0, 1}, f \in {1, 3}}
  \cup {Failure("subscriptions", Evening, 9900, 0, 2, 1)}

SubscriptionTruths == {"mandate_balance_low", "insufficient_funds",
                       "bank_downtime", "technical_gateway",
                       "mandate_revoked", "expired_instrument"}

SubscriptionCases ==
  Latent(SubscriptionEvents, SubscriptionTruths, {TRUE})
  \cup Latent({Failure("subscriptions", Night, 149900, 0, 0, 1)},
              {"bank_downtime", "mandate_revoked"}, {FALSE})

ReceivableCases ==
  Latent({Failure("receivables", o, a, 0, c, 0) :
            o \in {Morning, Late}, a \in {400000, 9000000}, c \in {0, 1}},
         {"promise_to_pay", "invoice_disputed"}, {FALSE})

MCCases == PaymentCases \cup SubscriptionCases \cup ReceivableCases

Answer(cause, confidence, promise) ==
  [cause |-> cause, confidence |-> confidence, path |-> "llm",
   promise |-> promise]

(***************************************************************************)
(* Answers with confidence under and over the floor, of causes of each     *)
(* surface, and promises from "today" to two weeks.                        *)
(***************************************************************************)
MCAnswers ==
  {Answer(c, k, NoPromise) :
     c \in {"bank_downtime", "technical_gateway", "expired_instrument"}
           \cup InvoiceCauses, k \in {40, 92}}
  \cup {Answer("promise_to_pay", 92, d) : d \in {0, 14}}

(***************************************************************************)
(* The oracle knows the cause and, of a promise, the day.                  *)
(***************************************************************************)
MCLabels ==
  {Answer(c, 99, NoPromise) : c \in Causes \ {"promise_to_pay"}}
  \cup {Answer("promise_to_pay", 99, d) : d \in {1, 14}}
=============================================================================
