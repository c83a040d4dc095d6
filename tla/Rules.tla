------------------------------- MODULE Rules -------------------------------
(***************************************************************************)
(* The rule table (src/backend/counterfoil/kernel/diagnose/rules.py): a    *)
(* cause read off the provider's codes, or nothing.  A payload keeps the   *)
(* two codes the table reads, its reason and its source; a code that is    *)
(* absent is the empty string.                                             *)
(***************************************************************************)
EXTENDS Policy

Undecided == [path |-> "none"]   \* diagnose returns None

Means(cause, confidence) == [cause |-> cause, confidence |-> confidence]

(***************************************************************************)
(* REASON_MAP.                                                             *)
(***************************************************************************)
ReasonMap ==
  [card_expired                          |-> Means("expired_instrument", 98),
   insufficient_funds                    |-> Means("insufficient_funds", 96),
   international_transaction_not_allowed |-> Means("international_blocked", 96),
   card_blocked                          |-> Means("issuer_decline_hard", 94),
   card_disabled_for_online              |-> Means("issuer_decline_hard", 92),
   payment_cancelled_by_customer         |-> Means("customer_abandoned", 93),
   bank_technical_error                  |-> Means("bank_downtime", 90),
   gateway_technical_error               |-> Means("technical_gateway", 90),
   payment_timed_out                     |-> Means("technical_gateway", 78),
   payment_authentication_failed         |-> Means("authentication_dropoff", 86),
   invalid_card_expiry                   |-> Means("expired_instrument", 88),
   payment_declined_by_issuer            |-> Means("issuer_decline_soft", 80),
   mandate_revoked                       |-> Means("mandate_revoked", 95),
   mandate_insufficient_balance          |-> Means("mandate_balance_low", 93)]

GenericReasons == {"payment_failed", ""}

(***************************************************************************)
(* SOURCE_CORROBORATION.                                                   *)
(***************************************************************************)
Corroboration(source, cause) ==
  CASE <<source, cause>> = <<"issuer", "insufficient_funds">>       -> 2
    [] <<source, cause>> = <<"issuer", "issuer_decline_soft">>      -> 3
    [] <<source, cause>> = <<"issuer", "issuer_decline_hard">>      -> 3
    [] <<source, cause>> = <<"bank", "bank_downtime">>              -> 4
    [] <<source, cause>> = <<"gateway", "technical_gateway">>       -> 4
    [] <<source, cause>> = <<"customer", "authentication_dropoff">> -> 5
    [] <<source, cause>> = <<"customer", "customer_abandoned">>     -> 4
    [] <<source, cause>> = <<"gateway", "customer_abandoned">>      -> -6
    [] OTHER                                                        -> 0

\* Slip: where the reason says nothing the source is taken for the cause.
ReadTheSource(signals) ==
  CASE signals.reason \in DOMAIN ReasonMap ->
         [cause |-> ReasonMap[signals.reason].cause,
          confidence |-> ReasonMap[signals.reason].confidence
                           + Corroboration(signals.source,
                                           ReasonMap[signals.reason].cause),
          path |-> "rule", promise |-> NoPromise]
    [] signals.source = "gateway" ->
         [cause |-> "technical_gateway", confidence |-> 78, path |-> "rule",
          promise |-> NoPromise]
    [] OTHER -> Undecided

(***************************************************************************)
(* diagnose: a reason the table does not map is left to somebody else,     *)
(* and so is a reason that says nothing.                                   *)
(***************************************************************************)
ReadCodes(signals) ==
  IF signals.reason \in GenericReasons \/ signals.reason \notin DOMAIN ReasonMap
  THEN Undecided
  ELSE LET read == ReasonMap[signals.reason]
           sum  == read.confidence + Corroboration(signals.source, read.cause)
       IN [cause |-> read.cause, confidence |-> IF sum > 99 THEN 99 ELSE sum,
           path |-> "rule", promise |-> NoPromise]
=============================================================================
