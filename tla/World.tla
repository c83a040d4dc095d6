------------------------------- MODULE World -------------------------------
(***************************************************************************)
(* The synthetic world (src/backend/counterfoil/synth/profiles.py and      *)
(* world.py): how likely an action is to bring the money back.             *)
(*                                                                         *)
(* The profiles are in percent and a chance is in basis points, cut to a   *)
(* whole number after every product.  The square root of a responsiveness  *)
(* is a table.  The world an action is played in is a parameter, because   *)
(* eval/sensitivity.py replaces parts of it (Handicap).                    *)
(***************************************************************************)
EXTENDS Policy, Handicap

Certain == 10000   \* a chance of one

Segments == {"engaged", "casual", "lapsing", "dormant"}

NoDate == -1       \* ripens_after_hours is None

-----------------------------------------------------------------------------
(***************************************************************************)
(* CauseBehaviour: ripens is in minutes.  A cause is terminal when nothing *)
(* on the same instrument can work.                                        *)
(***************************************************************************)
Responds(spontaneous, retry, ripens, alternate, nudge) ==
  [spontaneous |-> spontaneous, retry |-> retry, ripens |-> ripens,
   alternate |-> alternate, nudge |-> nudge, escalation |-> 42,
   terminal |-> FALSE]

Dead(behaviour) == [behaviour EXCEPT !.terminal = TRUE]

ByHand(behaviour, percent) == [behaviour EXCEPT !.escalation = percent]

PaymentBehaviour ==
  [technical_gateway     |-> Responds(34, 72, 6, 66, 5),
   bank_downtime         |-> Responds(28, 78, 90, 71, 3),
   insufficient_funds    |-> Responds(19, 46, 1440, 24, 14),
   authentication_dropoff |-> Responds(22, 8, 0, 31, 27),
   customer_abandoned    |-> Responds(15, 5, 0, 22, 24),
   issuer_decline_soft   |-> Responds(16, 33, 360, 48, 9),
   issuer_decline_hard   |-> Dead(Responds(4, 0, 0, 39, 21)),
   expired_instrument    |-> Dead(Responds(6, 0, 0, 44, 29)),
   international_blocked |-> Dead(Responds(5, 0, 0, 35, 18))]

SubscriptionBehaviour ==
  [mandate_balance_low |-> Responds(11, 63, 4320, 18, 17),
   insufficient_funds  |-> Responds(13, 57, 4320, 20, 16),
   bank_downtime       |-> Responds(21, 74, 240, 44, 4),
   technical_gateway   |-> Responds(26, 70, 60, 48, 5),
   mandate_revoked     |-> Dead(Responds(2, 0, 0, 21, 33)),
   expired_instrument  |-> Dead(Responds(4, 0, 0, 29, 31))]

ReceivableBehaviour ==
  [invoice_awaiting_approval |-> ByHand(Responds(44, 0, 0, 0, 31), 34),
   promise_to_pay            |-> ByHand(Responds(58, 0, 0, 0, 16), 18),
   invoice_cashflow_delay    |-> ByHand(Responds(21, 0, 0, 0, 24), 30),
   invoice_disputed          |-> ByHand(Dead(Responds(6, 0, 0, 0, 4)), 55),
   unknown                   |-> ByHand(Responds(17, 0, 0, 0, 19), 25)]

SurfaceBehaviour == [payments      |-> PaymentBehaviour,
                     subscriptions |-> SubscriptionBehaviour,
                     receivables   |-> ReceivableBehaviour]

(***************************************************************************)
(* SEGMENTS: how often the customers of a segment pay by themselves, and   *)
(* how they respond to a message; by hand counts the square root.          *)
(***************************************************************************)
SelfServe == [engaged |-> 135, casual |-> 100, lapsing |-> 62, dormant |-> 28]

Responsiveness ==
  [engaged |-> 130, casual |-> 100, lapsing |-> 55, dormant |-> 22]

RootResponsiveness ==
  [engaged |-> 114, casual |-> 100, lapsing |-> 74, dormant |-> 47]

-----------------------------------------------------------------------------
Percent(x, p) == (x * p) \div 100

Least(x, y) == IF x <= y THEN x ELSE y

(***************************************************************************)
(* INTERVENTION_FIT: the bonus of a message that suits the cause.  With    *)
(* the table taken away no message suits any cause.                        *)
(***************************************************************************)
Fit(w, iv, cause) ==
  CASE ~w.fits -> 100
    [] /\ iv = "request_updated_instrument"
       /\ cause \in {"expired_instrument", "issuer_decline_hard",
                     "international_blocked"} -> 165
    [] /\ iv = "send_payment_link"
       /\ cause \in {"authentication_dropoff", "customer_abandoned"} -> 145
    [] /\ iv = "pre_debit_notice"
       /\ cause \in {"mandate_balance_low", "insufficient_funds"} -> 170
    [] /\ iv = "mandate_reauth"
       /\ cause \in {"mandate_revoked", "expired_instrument"} -> 155
    [] OTHER -> 100

\* Slip: waiting longer than it takes goes on improving the chance.
RipenessWithoutEnd(w, ripens, delay) ==
  LET floor == IF w.curve = "flat" THEN 7000 ELSE 1500
  IN IF ripens <= 0 THEN Certain
     ELSE floor + ((Certain - floor) * delay) \div ripens

(***************************************************************************)
(* _ripeness, and the flat curve of the timing handicap: the share of an   *)
(* action's power that is there this long after the failure.               *)
(***************************************************************************)
Ripeness(w, ripens, delay) ==
  LET floor == IF w.curve = "flat" THEN 7000 ELSE 1500
  IN IF ripens <= 0 THEN Certain
     ELSE floor + ((Certain - floor) * Least(ripens, delay)) \div ripens

(***************************************************************************)
(* CONTACT_FATIGUE ** contacts_before: each earlier message leaves 55% of  *)
(* the force of the next.                                                  *)
(***************************************************************************)
Tired(chance, before) ==
  LET left[n \in 0 .. before] ==
        IF n = 0 THEN chance ELSE Percent(left[n - 1], 55)
  IN left[before]

BehaviourFor(d) == SurfaceBehaviour[d.event.surface][d.truth]

(***************************************************************************)
(* ripens_after: the date of this customer before the default of the cause.*)
(***************************************************************************)
RipensAfter(d) == IF d.ripens # NoDate THEN d.ripens ELSE BehaviourFor(d).ripens

(***************************************************************************)
(* _success_probability: the chance that intervention iv, executed at      *)
(* time t after a number of earlier messages, closes the dealt case d.     *)
(***************************************************************************)
RetryChance(w, d, t) ==
  IF BehaviourFor(d).terminal THEN 0
  ELSE Percent(Ripeness(w, RipensAfter(d), t - d.event.occurred),
               BehaviourFor(d).retry)

AlternateChance(w, d, t) ==
  Percent(5500 + Percent(Ripeness(w, RipensAfter(d), t - d.event.occurred), 45),
          BehaviourFor(d).alternate)

MessageChance(w, d, iv, t, before) ==
  LET fitting == Percent(BehaviourFor(d).nudge * Responsiveness[d.segment],
                         Fit(w, iv, d.truth))
      timely  == IF d.event.surface = "receivables" /\ d.ripens # NoDate
                 THEN (fitting * Ripeness(w, d.ripens, t - d.event.occurred))
                        \div Certain
                 ELSE fitting
  IN Tired(timely, before)

Chance(w, d, iv, t, before) ==
  CASE iv = "no_action"            -> 0
    [] iv = "escalate_human"       -> BehaviourFor(d).escalation
                                        * RootResponsiveness[d.segment]
    [] iv = "retry_same_rail"      -> RetryChance(w, d, t)
    [] iv = "retry_alternate_rail" -> AlternateChance(w, d, t)
    [] OTHER                       -> MessageChance(w, d, iv, t, before)

(***************************************************************************)
(* spontaneous_probability: the money arrives with no intervention.        *)
(***************************************************************************)
Spontaneous(d) ==
  Least(9500, BehaviourFor(d).spontaneous * SelfServe[d.segment])
=============================================================================
