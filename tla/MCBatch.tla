------------------------------ MODULE MCBatch ------------------------------
(***************************************************************************)
(* Batch on the policy file of the repository and books of two cases: the  *)
(* first of every cause, reported with a code or in prose, with every kind *)
(* of luck; the second one a person would have to look at, so that the one *)
(* review of a batch this small is wanted twice.                           *)
(***************************************************************************)
EXTENDS Batch

MCMaxAttempts == [payments |-> 3, subscriptions |-> 4, receivables |-> 0]

MCEscalationFloor ==
  [payments |-> 200000, subscriptions |-> 100000, receivables |-> 2500000]

MCPerHundred == [payments |-> 3, subscriptions |-> 3, receivables |-> 8]

MCAgendas == {Contribution, Handicaps}

MCBudgets == {1}

(***************************************************************************)
(* The customer pays anyway, and an attempt lands after the first fails;   *)
(* pays only when asked, every attempt landing that can, or not at all.    *)
(***************************************************************************)
Luck(u, first, rest) ==
  [u |-> u,
   draws |-> [n \in 0 .. MAX_DRAWS - 1 |-> IF n = 0 THEN first ELSE rest]]

Payer   == Luck(100, 9000, 2500)
Willing == Luck(9500, 300, 300)
Lost    == Luck(9500, 9000, 9000)

Roll(cause, vague, segment, occurred, amount, attempts, ripens, luck) ==
  [cause |-> cause, vague |-> vague, segment |-> segment,
   occurred |-> occurred, amount |-> amount, attempts |-> attempts,
   contacts |-> 0, failures |-> 0, ripens |-> ripens, u |-> luck.u,
   draws |-> luck.draws]

Mandate(roll) == [roll EXCEPT !.failures = 1]

PaymentRolls ==
  {Roll(c, v, "engaged", 1230, a, 1, NoDate, l) :
     c \in DOMAIN PaymentBehaviour, v \in BOOLEAN,
     a \in {90000, 300000}, l \in {Payer, Willing, Lost}}

MandateRolls ==
  {Mandate(Roll(c, v, "lapsing", 600, 149900, 0, r, l)) :
     c \in DOMAIN SubscriptionBehaviour, v \in BOOLEAN,
     r \in {NoDate, 30 * 60, 400 * 60}, l \in {Payer, Willing, Lost}}

InvoiceRolls ==
  {Roll(c, FALSE, s, 1300, 9000000, 0, r, l) :
     c \in DOMAIN ReceivableBehaviour, s \in {"casual", "dormant"},
     r \in {NoDate, 35 * 60, 60 * 60, 340 * 60}, l \in {Payer, Willing, Lost}}

MCRolls == [payments |-> PaymentRolls, subscriptions |-> MandateRolls,
            receivables |-> InvoiceRolls]

(***************************************************************************)
(* The case that comes second.                                             *)
(***************************************************************************)
Second ==
  [payments |-> Roll("issuer_decline_hard", TRUE, "casual", 300, 500000, 0,
                     NoDate, Lost),
   subscriptions |-> Mandate(Roll("mandate_revoked", TRUE, "casual", 300, 149900,
                                  0, NoDate, Lost)),
   receivables |-> Roll("invoice_disputed", FALSE, "engaged", 300, 9000000, 0,
                        NoDate, Willing)]

AllBooks ==
  UNION {{<<Dealt(surface, r), Dealt(surface, Second[surface])>> :
            r \in {x \in MCRolls[surface] : Rollable(surface, x)}} :
         surface \in Surfaces}

ASSUME \A surface \in Surfaces : Rollable(surface, Second[surface])

AllCases == {Hidden(b[i]) : b \in AllBooks, i \in {1, 2}}

Answer(cause, promise) ==
  [cause |-> cause, confidence |-> 92, path |-> "llm", promise |-> promise]

(***************************************************************************)
(* The model is right or wrong, on a payment and on an invoice.            *)
(***************************************************************************)
MCAnswers == {Answer("bank_downtime", NoPromise),
              Answer("issuer_decline_hard", NoPromise),
              Answer("promise_to_pay", 2),
              Answer("invoice_disputed", NoPromise)}

AllLabels == {Labelled(b[i]) : b \in AllBooks, i \in {1, 2}}

(***************************************************************************)
(* TLC evaluates a definition once, but what a constant stands for each    *)
(* time it is asked for: the constants only name the sets above.           *)
(***************************************************************************)
MCBooks  == AllBooks
MCCases  == AllCases
MCLabels == AllLabels
=============================================================================
