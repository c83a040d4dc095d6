------------------------------- MODULE Runner -------------------------------
(***************************************************************************)
(* The recovery loop: run_case of                                          *)
(* src/backend/counterfoil/kernel/runner.py plays one case forward under   *)
(* one arm.  Every ledger append, and the act on the world between two of  *)
(* them, is a step of its own, because an exception (the PII scan of the   *)
(* ledger, a diagnoser that raises) or the end of the process may fall     *)
(* between any two of them.                                                *)
(*                                                                         *)
(* The world's coin flips are fixed per case and draw index but unknown:   *)
(* an attempt lands or not, nondeterministically, except where the         *)
(* simulator's probability is zero.                                        *)
(***************************************************************************)
EXTENDS Playbook, FiniteSets

CONSTANTS
  Cases,       \* the latent cases that may be played
  Answers,     \* the diagnoses the model-backed diagnoser may return
  Labels,      \* the diagnoses the oracle of the evaluation may return
  Budgets,     \* the limits Capacity may be given, or NoCapacity
  Arms,        \* the arms that are run: "control", "naive", "agent"
  LedgerArms   \* the arms that are given a ledger

(***************************************************************************)
(* synth/generator.py: a LatentCase.  "clear" says that the provider's     *)
(* reason code is one the rule table resolves; "anyway" is the comparison  *)
(* u_spontaneous < spontaneous_probability, fixed when the case is drawn.  *)
(***************************************************************************)
LatentCases == [event : Events, truth : Causes, clear : BOOLEAN,
                anyway : BOOLEAN]

SurfaceCauses(surface) ==
  CASE surface = "receivables"   -> InvoiceCauses
    [] OTHER                     -> PaymentCauses

ASSUME RunnerAssumption ==
  /\ Cases \subseteq LatentCases
  /\ \A c \in Cases : /\ c.event.actions = 0
                      /\ c.event.noticeAt = NoNotice
                      /\ c.event.amount > 0
  /\ Answers \cup Labels \subseteq Diagnoses
  /\ \A dx \in Answers \cup Labels :
       /\ dx.path # "rule"
       /\ dx.path = "degraded" => dx.cause = "unknown"
       /\ dx.promise # NoPromise => dx.cause = "promise_to_pay"
  /\ Budgets \subseteq Nat \cup {NoCapacity}
  /\ Arms \subseteq {"control", "naive", "agent"}
  /\ LedgerArms \subseteq Arms

VARIABLES
  case,        \* the LatentCase being played
  arm,         \* the experiment arm
  limit,       \* engine.capacity.limit, or NoCapacity
  used,        \* engine.capacity.used, shared by the cases of an arm
  pc,          \* where run_case is
  diagnosis,
  working,     \* the event with its rewritten context
  step,        \* the loop index, which is also the index of the draw
  chosen,      \* the proposal about to be executed
  taken,       \* result.actions, with the draw each one consumed
  contacts,    \* contacts made by this run
  notices,     \* result.mandatory_notices
  spent,       \* paise spent on interventions
  refusals,    \* clauses that stopped the arm
  violations,  \* clauses the arm acted against (shadow mode)
  closedBy,
  outcome,
  trail        \* the case's ledger records, as stage, step, intervention

vars == <<case, arm, limit, used, pc, diagnosis, working, step, chosen, taken,
          contacts, notices, spent, refusals, violations, closedBy, outcome,
          trail>>

given    == <<case, arm, limit>>
tallies  == <<contacts, notices, spent, taken, used>>
verdicts == <<refusals, violations>>

NoDiagnosis == [cause |-> "unknown", confidence |-> 0, path |-> "rule",
                promise |-> NoPromise]
NoChoice    == [iv |-> "no_action", at |-> 0, channel |-> "none"]
NoOutcome   == [state |-> "pending"]

-----------------------------------------------------------------------------
\* Slip: a confidence handed on in tenths of a per cent.
RuleConfidenceInThousandths(cause) ==
  IF cause = "issuer_decline_soft" THEN 830 ELSE 940

(***************************************************************************)
(* kernel/diagnose/rules.py: the confidence REASON_MAP and the             *)
(* corroborating source give to the reason code of each cause.             *)
(***************************************************************************)
RuleConfidence(cause) ==
  CASE cause \in {"insufficient_funds", "expired_instrument"} -> 98
    [] cause \in {"issuer_decline_hard", "customer_abandoned"} -> 97
    [] cause = "international_blocked" -> 96
    [] cause = "mandate_revoked" -> 95
    [] cause \in {"bank_downtime", "technical_gateway"} -> 94
    [] cause = "mandate_balance_low" -> 93
    [] cause = "authentication_dropoff" -> 91
    [] OTHER -> 83

RuleDiagnosis(c) == [cause |-> c.truth, confidence |-> RuleConfidence(c.truth),
                     path |-> "rule", promise |-> NoPromise]

Degraded == [cause |-> "unknown", confidence |-> 0, path |-> "degraded",
             promise |-> NoPromise]

(***************************************************************************)
(* What the model-backed diagnoser may answer: its answers are validated   *)
(* against the causes of the surface (kernel/diagnose/llm.py).             *)
(***************************************************************************)
ModelAnswers(c) ==
  {Degraded} \cup {dx \in Answers : \/ dx.path = "degraded"
                                   \/ dx.cause \in SurfaceCauses(c.event.surface)}

(***************************************************************************)
(* _diagnose: rules first, the model only for what rules leave open, and   *)
(* a degraded diagnosis when there is no model.  Only the agent is given   *)
(* a diagnoser; the oracle in the model's place (eval/oracle.py) answers   *)
(* with the truth.                                                         *)
(***************************************************************************)
PossibleDiagnoses(c, a) ==
  CASE c.clear     -> {RuleDiagnosis(c)}
    [] a # "agent" -> {Degraded}
    [] OTHER       -> ModelAnswers(c) \cup {dx \in Labels : dx.cause = c.truth}

-----------------------------------------------------------------------------
Enforces == arm # "naive"

(***************************************************************************)
(* min(max_steps, MAX_DRAWS), with the max_steps each arm passes.          *)
(***************************************************************************)
StepLimit == CASE arm = "control" -> 0
               [] arm = "naive"   -> 5
               [] OTHER           -> 8

Plan == IF arm = "naive" THEN NaivePlan(working)
                         ELSE PlaybookFor(working, diagnosis)

Exhausted == step >= StepLimit \/ step >= Len(Plan)

Offer == Propose(working, diagnosis, Plan[step + 1])

Refused == Blocking(working, diagnosis, Offer, used, limit)

Log(stage, n, iv) ==
  trail' = IF arm \in LedgerArms
           THEN Append(trail, [stage |-> stage, step |-> n, iv |-> iv])
           ELSE trail

(***************************************************************************)
(* INTERVENTION_COST_PAISE of synth/profiles.py.                           *)
(***************************************************************************)
CostOf(iv) ==
  CASE iv \in Billable           -> 250
    [] iv = "mandate_reauth"     -> 45
    [] iv = "pre_debit_notice"   -> 12
    [] iv = "escalate_human"     -> 80000
    [] iv = "no_action"          -> 0
    [] OTHER                     -> 18

(***************************************************************************)
(* synth/world.py, _success_probability: where it is zero.  A retry never  *)
(* revives a dead instrument, and an invoice is not a thing to retry.      *)
(***************************************************************************)
CanLand(c, iv) ==
  /\ iv = "retry_same_rail" => c.truth \notin TerminalCauses
  /\ iv \in Billable => c.event.surface # "receivables"
  /\ iv # "no_action"

-----------------------------------------------------------------------------
Begin(c, a) ==
  /\ case = c
  /\ arm = a
  /\ pc = "detect"
  /\ diagnosis = NoDiagnosis
  /\ working = c.event
  /\ step = 0
  /\ chosen = NoChoice
  /\ taken = << >>
  /\ contacts = 0
  /\ notices = 0
  /\ spent = 0
  /\ refusals = {}
  /\ violations = {}
  /\ closedBy = "none"
  /\ outcome = NoOutcome
  /\ trail = << >>

(***************************************************************************)
(* A case may find any part of the run's review budget already consumed.   *)
(***************************************************************************)
Init ==
  /\ \E c \in Cases, a \in Arms : Begin(c, a)
  /\ limit \in Budgets
  /\ used \in IF limit = NoCapacity THEN {0} ELSE 0 .. limit

Detect ==
  /\ pc = "detect"
  /\ pc' = "diagnose"
  /\ Log("DETECTED", 0, "none")
  /\ UNCHANGED <<given, tallies, verdicts, diagnosis, working, step, chosen,
                 closedBy, outcome>>

Diagnose ==
  /\ pc = "diagnose"
  /\ \E dx \in PossibleDiagnoses(case, arm) : diagnosis' = dx
  /\ pc' = "loop"
  /\ Log("DIAGNOSED", 0, "none")
  /\ UNCHANGED <<given, tallies, verdicts, working, step, chosen, closedBy,
                 outcome>>

(***************************************************************************)
(* The plan, or the number of steps, is used up.                           *)
(***************************************************************************)
Stop ==
  /\ pc = "loop"
  /\ Exhausted
  /\ pc' = "observe"
  /\ UNCHANGED <<given, tallies, verdicts, diagnosis, working, step, chosen,
                 closedBy, outcome, trail>>

Deciding == pc = "loop" /\ ~Exhausted

Choose(pr) ==
  /\ chosen' = pr
  /\ pc' = "act"
  /\ Log("DECIDED", step + 1, pr.iv)
  /\ UNCHANGED <<given, tallies, diagnosis, working, step, closedBy, outcome>>

Permit ==
  /\ Deciding
  /\ Refused = {}
  /\ Choose(Offer)
  /\ UNCHANGED verdicts

\* Slip: the substitute is sent back to be decided again, which proposes the
\* same step at the same hour.
DeferAgain ==
  /\ Deciding
  /\ Enforces
  /\ HasSubstitute(Refused)
  /\ refusals' = refusals \cup Refused
  /\ UNCHANGED <<given, tallies, violations, pc, diagnosis, working, step,
                 chosen, closedBy, outcome, trail>>

(***************************************************************************)
(* The engine's substitute is executed as it stands.                       *)
(***************************************************************************)
Defer ==
  /\ Deciding
  /\ Enforces
  /\ HasSubstitute(Refused)
  /\ Choose(Substitute(Offer))
  /\ refusals' = refusals \cup Refused
  /\ UNCHANGED violations

(***************************************************************************)
(* Shadow mode: the breach is recorded and the action runs anyway.         *)
(***************************************************************************)
Override ==
  /\ Deciding
  /\ ~Enforces
  /\ Refused # {}
  /\ Choose(Offer)
  /\ violations' = violations \cup Refused
  /\ UNCHANGED refusals

\* Slip: a refused step is skipped instead of ending the plan.
HaltSkips ==
  /\ Deciding
  /\ Enforces
  /\ Refused # {}
  /\ ~HasSubstitute(Refused)
  /\ refusals' = refusals \cup Refused
  /\ step' = step + 1
  /\ Log("HALTED", 0, Offer.iv)
  /\ UNCHANGED <<given, tallies, violations, pc, diagnosis, working, chosen,
                 closedBy, outcome>>

(***************************************************************************)
(* A refusal with nothing to put in its place ends the plan.               *)
(***************************************************************************)
Halt ==
  /\ Deciding
  /\ Enforces
  /\ Refused # {}
  /\ ~HasSubstitute(Refused)
  /\ refusals' = refusals \cup Refused
  /\ pc' = "observe"
  /\ Log("HALTED", 0, Offer.iv)
  /\ UNCHANGED <<given, tallies, violations, diagnosis, working, step, chosen,
                 closedBy, outcome>>

\* Slip: the message about to be sent already tires the customer.
ContactsIncludingThis ==
  contacts + (IF chosen.iv \in Contacting THEN 1 ELSE 0)

(***************************************************************************)
(* contacts_before: the messages this run sent before the present action.  *)
(***************************************************************************)
ContactsBefore == contacts

(***************************************************************************)
(* The action is taken: counted, paid for, and played against the world.   *)
(* A human review is consumed on execution, not on approval.               *)
(***************************************************************************)
Act ==
  /\ pc = "act"
  /\ \E landed \in {b \in BOOLEAN : b => CanLand(case, chosen.iv)} :
       taken' = Append(taken, [iv |-> chosen.iv, at |-> chosen.at,
                               draw |-> step, before |-> ContactsBefore,
                               landed |-> landed])
  /\ spent' = spent + CostOf(chosen.iv)
  /\ contacts' = contacts + (IF chosen.iv \in Contacting THEN 1 ELSE 0)
  /\ notices' = notices + (IF chosen.iv = "pre_debit_notice" THEN 1 ELSE 0)
  /\ used' = used + (IF chosen.iv = "escalate_human" /\ limit # NoCapacity
                     THEN 1 ELSE 0)
  /\ pc' = "record"
  /\ UNCHANGED <<given, verdicts, diagnosis, working, step, chosen, closedBy,
                 outcome, trail>>

LastTaken == taken[Len(taken)]

\* Slip: a mandatory notice is not counted as a contact.
UpdatedForgetsNotices(ev, iv, at) ==
  [ev EXCEPT !.attempts = @ + (IF iv \in Billable THEN 1 ELSE 0),
             !.contacts = @ + (IF iv \in Contacting \ {"pre_debit_notice"}
                               THEN 1 ELSE 0),
             !.actions  = @ + 1,
             !.noticeAt = IF iv = "pre_debit_notice" THEN at ELSE @]

\* Slip: the notice is dated by the failure, not by when it was sent.
UpdatedBackdatesNotice(ev, iv, at) ==
  [ev EXCEPT !.attempts = @ + (IF iv \in Billable THEN 1 ELSE 0),
             !.contacts = @ + (IF iv \in Contacting THEN 1 ELSE 0),
             !.actions  = @ + 1,
             !.noticeAt = IF iv = "pre_debit_notice" THEN ev.occurred ELSE @]

(***************************************************************************)
(* The context the next decision is made with.  A notice is dated by when  *)
(* it was executed, so a deferred notice moves the first lawful retry.     *)
(***************************************************************************)
Updated(ev, iv, at) ==
  [ev EXCEPT !.attempts = @ + (IF iv \in Billable THEN 1 ELSE 0),
             !.contacts = @ + (IF iv \in Contacting THEN 1 ELSE 0),
             !.actions  = @ + 1,
             !.noticeAt = IF iv = "pre_debit_notice" THEN at ELSE @]

Record ==
  /\ pc = "record"
  /\ Log("EXECUTED", step + 1, LastTaken.iv)
  /\ IF LastTaken.landed
     THEN /\ closedBy' = LastTaken.iv
          /\ pc' = "observe"
          /\ UNCHANGED <<working, step>>
     ELSE /\ working' = Updated(working, LastTaken.iv, LastTaken.at)
          /\ step' = step + 1
          /\ pc' = "loop"
          /\ UNCHANGED closedBy
  /\ UNCHANGED <<given, tallies, verdicts, diagnosis, chosen, outcome>>

(***************************************************************************)
(* The outcome: the money came back if an action landed or the customer    *)
(* would have paid regardless; only the first without the second is        *)
(* attributable to the arm.                                                *)
(***************************************************************************)
OutcomeState(closed, anyway, acts) ==
  CASE closed # "none" \/ anyway                -> "recovered"
    [] acts = << >>                             -> "not_attempted"
    [] acts # << >> /\ acts[Len(acts)].iv = "escalate_human" -> "escalated"
    [] OTHER                                    -> "still_at_risk"

Observe ==
  /\ pc = "observe"
  /\ outcome' = [state |-> OutcomeState(closedBy, case.anyway, taken),
                 recovered |-> IF closedBy # "none" \/ case.anyway
                               THEN case.event.amount ELSE 0,
                 at |-> IF taken = << >> THEN case.event.occurred
                                         ELSE LastTaken.at,
                 cost |-> spent,
                 contacts |-> contacts,
                 closedBy |-> closedBy,
                 attributable |-> closedBy # "none" /\ ~case.anyway]
  /\ pc' = "done"
  /\ Log("OBSERVED", 0, "none")
  /\ UNCHANGED <<given, tallies, verdicts, diagnosis, working, step, chosen,
                 closedBy>>

(***************************************************************************)
(* An append or the diagnoser raises, or the process ends: run_case has no *)
(* handler, so the case is left where it was.                              *)
(***************************************************************************)
Abort ==
  /\ pc \notin {"done", "aborted"}
  /\ pc' = "aborted"
  /\ UNCHANGED <<given, tallies, verdicts, diagnosis, working, step, chosen,
                 closedBy, outcome, trail>>

Advance == \/ Detect \/ Diagnose \/ Stop \/ Permit \/ Defer \/ Override
           \/ Halt \/ Act \/ Record \/ Observe

Next == Advance \/ Abort

Spec == Init /\ [][Next]_vars

(***************************************************************************)
(* run_case is a plain function: once called it runs on, unless it is      *)
(* aborted.                                                                *)
(***************************************************************************)
FairSpec == Spec /\ WF_vars(Advance)

-----------------------------------------------------------------------------
(***************************************************************************)
(* synth/world.py, resolve: the older way to play a case, all its actions  *)
(* at once.  The runner is meant to reach the same outcome one at a time.  *)
(***************************************************************************)
MessagesAmong(acts, n) ==
  Cardinality({i \in 1 .. n : acts[i].iv \in Contacting})

CostAmong(acts, n) ==
  LET total[i \in 0 .. n] ==
        IF i = 0 THEN 0 ELSE total[i - 1] + CostOf(acts[i].iv)
  IN total[n]

Resolve(c, acts) ==
  LET landings == {i \in DOMAIN acts : acts[i].landed}
      last     == IF landings = {} THEN Len(acts)
                  ELSE CHOOSE i \in landings : \A j \in landings : i <= j
      closed   == IF landings = {} THEN "none" ELSE acts[last].iv
      paid     == closed # "none" \/ c.anyway
  IN [state |-> OutcomeState(closed, c.anyway, acts),
      recovered |-> IF paid THEN c.event.amount ELSE 0,
      at |-> IF acts = << >> THEN c.event.occurred ELSE acts[Len(acts)].at,
      cost |-> CostAmong(acts, last),
      contacts |-> MessagesAmong(acts, last),
      closedBy |-> closed,
      attributable |-> closed # "none" /\ ~c.anyway]

-----------------------------------------------------------------------------
(***************************************************************************)
(* The type invariant.                                                     *)
(***************************************************************************)
ActRecords == [iv : Interventions, at : Nat, draw : Nat, before : Nat,
               landed : BOOLEAN]

TrailRecords == [stage : {"DETECTED", "DIAGNOSED", "DECIDED", "HALTED",
                          "EXECUTED", "OBSERVED"},
                 step : Nat, iv : Interventions \cup {"none"}]

Outcomes == [state : {"recovered", "not_attempted", "escalated",
                      "still_at_risk"},
             recovered : Nat, at : Nat, cost : Nat, contacts : Nat,
             closedBy : Interventions \cup {"none"}, attributable : BOOLEAN]

TypeOK ==
  /\ case \in Cases
  /\ arm \in Arms
  /\ limit \in Budgets
  /\ used \in Nat
  /\ pc \in {"detect", "diagnose", "loop", "act", "record", "observe", "done",
             "aborted"}
  /\ diagnosis \in Diagnoses
  /\ working \in Events
  /\ step \in Nat
  /\ chosen \in Proposals
  /\ taken \in Seq(ActRecords)
  /\ contacts \in Nat
  /\ notices \in Nat
  /\ spent \in Nat
  /\ refusals \subseteq ClauseIds
  /\ violations \subseteq ClauseIds
  /\ closedBy \in Interventions \cup {"none"}
  /\ outcome \in Outcomes \cup {NoOutcome}
  /\ trail \in Seq(TrailRecords)

(***************************************************************************)
(* The engine is the only thing with authority to act: whatever the        *)
(* enforcing arms are about to execute, the engine's own substitute        *)
(* included, which is never evaluated, passes every clause in the context  *)
(* it is executed in.                                                      *)
(***************************************************************************)
ActsArePermitted ==
  pc = "act" /\ Enforces =>
    Blocking(working, diagnosis, chosen, used, limit) = {}

(***************************************************************************)
(* A mandate is presented only when the customer was told, at a waking     *)
(* hour, at least NoticeHours before: read off the actions executed, with  *)
(* no reference to the context the clause consults.                        *)
(***************************************************************************)
NoticePrecedesPresentation ==
  Enforces /\ case.event.surface = "subscriptions" =>
    \A i \in DOMAIN taken : taken[i].iv \in Billable =>
      \E j \in 1 .. i - 1 :
        /\ taken[j].iv = "pre_debit_notice"
        /\ ~InQuietHours(taken[j].at)
        /\ taken[i].at - taken[j].at >= 60 * NoticeHours

(***************************************************************************)
(* No buyer who gave a date is contacted before it, plus grace, whatever   *)
(* the diagnosis was cut and scheduled from.                               *)
(***************************************************************************)
PromiseIsHonoured ==
  /\ Enforces
  /\ case.event.surface = "receivables"
  /\ diagnosis.promise # NoPromise
  => \A i \in DOMAIN taken : taken[i].iv \in Contacting =>
       taken[i].at >= case.event.occurred + 1440 * diagnosis.promise
                                          + 60 * GraceHours

(***************************************************************************)
(* Over the whole case, contacts and attempts made before it counted, the  *)
(* arm never takes a customer past the contact cap or an instrument past   *)
(* its attempts, counting what was executed and not the context.           *)
(***************************************************************************)
Executed(kind) == {i \in DOMAIN taken : taken[i].iv \in kind}

CapsHoldOverTheCase ==
  Enforces =>
    /\ Executed(Contacting) # {} =>
         case.event.contacts + Cardinality(Executed(Contacting)) <= MaxContacts
    /\ Executed(Billable) # {} =>
         case.event.attempts + Cardinality(Executed(Billable))
           <= MaxAttempts[case.event.surface]

(***************************************************************************)
(* Whenever a decision is made or is about to be executed, the context it  *)
(* is made with is the case's own, brought up to date with exactly the     *)
(* actions executed: the engine never decides on a stale count or on a     *)
(* notice other than the last one sent.                                    *)
(***************************************************************************)
LastNotice ==
  LET sent == Executed({"pre_debit_notice"})
  IN IF sent = {} THEN NoNotice
     ELSE taken[CHOOSE i \in sent : \A j \in sent : j <= i].at

Current ==
  [case.event EXCEPT !.attempts = @ + Cardinality(Executed(Billable)),
                     !.contacts = @ + Cardinality(Executed(Contacting)),
                     !.actions  = Len(taken),
                     !.noticeAt = LastNotice]

ContextIsCurrent ==
  pc \in {"detect", "diagnose", "loop", "act"} => working = Current

(***************************************************************************)
(* A run never uses more human reviews than its budget, in shadow mode     *)
(* included.                                                               *)
(***************************************************************************)
ReviewBudgetHolds == limit # NoCapacity => used <= limit

(***************************************************************************)
(* Replaying the executed actions through resolve gives the outcome the    *)
(* runner recorded: the same draw for each action, the same contact        *)
(* fatigue, the same state, cost, contacts and attribution.                *)
(***************************************************************************)
AgreesWithResolve ==
  pc = "done" =>
    /\ \A i \in DOMAIN taken : /\ taken[i].draw = i - 1
                               /\ taken[i].before = MessagesAmong(taken, i - 1)
    /\ outcome = Resolve(case, taken)

(***************************************************************************)
(* The ledger accounts for the case, wherever it was cut short: nothing    *)
(* was executed without its decision on record before it, at most the last *)
(* execution is missing, a refusal ends the plan and an observation ends   *)
(* the record.                                                             *)
(***************************************************************************)
Among(records, stage) ==
  LET found[n \in 0 .. Len(records)] ==
        IF n = 0 THEN << >>
        ELSE IF records[n].stage = stage
             THEN Append(found[n - 1], records[n]) ELSE found[n - 1]
  IN found[Len(records)]

EntriesOf(stage) == Among(trail, stage)

AuditTrailAccounts ==
  arm \in LedgerArms =>
    LET decided  == EntriesOf("DECIDED")
        executed == EntriesOf("EXECUTED")
        missing  == Len(taken) - Len(executed)
    IN /\ Len(decided) - Len(taken) \in {0, 1}
       /\ \A i \in DOMAIN taken :
            decided[i].step = i /\ decided[i].iv = taken[i].iv
       /\ missing = 0 \/ (missing = 1 /\ pc \in {"record", "aborted"})
       /\ \A i \in DOMAIN executed :
            executed[i].step = i /\ executed[i].iv = taken[i].iv
       /\ \A i \in DOMAIN trail :
            /\ trail[i].stage = "EXECUTED" =>
                 trail[i - 1] = [trail[i] EXCEPT !.stage = "DECIDED"]
            /\ trail[i].stage = "HALTED" =>
                 \A j \in i + 1 .. Len(trail) : trail[j].stage = "OBSERVED"
            /\ trail[i].stage = "OBSERVED" => i = Len(trail) /\ pc = "done"

(***************************************************************************)
(* Every case comes to an end: an outcome, unless the call was aborted.    *)
(***************************************************************************)
EveryCaseEnds == <>(pc \in {"done", "aborted"})

-----------------------------------------------------------------------------
(***************************************************************************)
(* What the documents say and the code does not do.                        *)
(*                                                                         *)
(* kernel/policy/engine.py: "quiet hours delay revenue rather than forfeit *)
(* it".  A presentation is not refused for want of notice in a case whose  *)
(* notice the engine itself deferred.                                      *)
(***************************************************************************)
QuietHoursOnlyDelay ==
  arm = "agent" => ~ ({"contact.quiet_hours", "subscriptions.pre_debit_notice"}
                        \subseteq refusals)

(***************************************************************************)
(* kernel/policy/policies.yaml: "A mandate failing this many cycles in a   *)
(* row is not a collections problem any more.  Stop presenting it and put  *)
(* it in front of a person."                                               *)
(***************************************************************************)
StoppedMandateReachesAPerson ==
  /\ arm = "agent"
  /\ pc = "done"
  /\ "subscriptions.consecutive_failure_stop" \in refusals
  => \E i \in DOMAIN taken : taken[i].iv = "escalate_human"
=============================================================================
