------------------------------- MODULE Batch -------------------------------
(***************************************************************************)
(* The evaluation (src/backend/counterfoil/eval): run_batch plays the      *)
(* cases of one book under each arm in turn, metrics.py adds up what each  *)
(* arm did, and an agenda of such batches is what oracle.py (the same book *)
(* under three regimes of diagnosis) and sensitivity.py (the same book in  *)
(* four worlds) compare.                                                   *)
(*                                                                         *)
(* Every case is played by the steps of Runner.  What Runner leaves open   *)
(* is settled here: the rule table reads the generated codes, and an       *)
(* action lands when the case's own draw is below its chance.              *)
(***************************************************************************)
EXTENDS Runner, Generator, Rules

CONSTANTS
  Books,       \* the batches generate may return
  PerHundred,  \* escalations_per_100_invoices: surface -> number, or NoCapacity
  Agendas      \* what is compared: sequences of settings

Regimes == {"rules", "model", "oracle"}

Settings == [world : Worlds, regime : Regimes]

(***************************************************************************)
(* measure_contribution and run_sensitivity.                               *)
(***************************************************************************)
Contribution ==
  <<[world |-> Modelled, regime |-> "rules"],
    [world |-> Modelled, regime |-> "model"],
    [world |-> Modelled, regime |-> "oracle"]>>

Handicaps ==
  [i \in 1 .. 4 |-> [world |-> WorldOf(Variants[i]), regime |-> "rules"]]

(***************************************************************************)
(* Python's round: to the nearest whole number, a half to the even one.    *)
(***************************************************************************)
Round(n, d) ==
  LET whole == n \div d
      twice == 2 * (n % d)
  IN IF twice > d \/ (twice = d /\ whole % 2 = 1) THEN whole + 1 ELSE whole

(***************************************************************************)
(* _capacity_for: at least one review, whatever the size of the batch.     *)
(***************************************************************************)
CapacityFor(surface, size) ==
  CASE PerHundred[surface] = NoCapacity -> NoCapacity
    [] Round(size * PerHundred[surface], 100) < 1 -> 1
    [] OTHER -> Round(size * PerHundred[surface], 100)

(***************************************************************************)
(* A batch is of one surface, and its cases are ones generate deals and    *)
(* the runner may play.                                                    *)
(***************************************************************************)
BookSurface(b) == b[1].event.surface

DealtCases ==
  [event : Events, truth : Causes, segment : Segments, ambiguous : BOOLEAN,
   signals : [reason : STRING, source : STRING], ripens : Nat \cup {NoDate},
   u : 0 .. Certain - 1, draws : [0 .. MAX_DRAWS - 1 -> 0 .. Certain - 1]]

ASSUME BatchAssumption ==
  /\ PerHundred \in [Surfaces -> Nat \cup {NoCapacity}]
  /\ Agendas \subseteq Seq(Settings) \ {<< >>}
  /\ Arms = {"control", "naive", "agent"}
  /\ Books \subseteq Seq(DealtCases) \ {<< >>}
  /\ \A b \in Books :
       /\ \A i \in DOMAIN b : /\ Generated(b[i])
                              /\ Hidden(b[i]) \in Cases
                              /\ b[i].event.surface = BookSurface(b)
       /\ CapacityFor(BookSurface(b), Len(b)) \in Budgets

VARIABLES
  book,     \* the cases of the batch, in order
  agenda,   \* the settings still to be run, the current one first
  at,       \* the case being played
  results,  \* the ArmResult of each arm
  reports,  \* the BatchReports finished
  phase     \* "running", "reported", or "failed"

batch == <<book, agenda, at, results, reports, phase>>

everything == <<vars, batch>>
-----------------------------------------------------------------------------
dealt   == book[at]
setting == agenda[1]

\* Slip: the oracle knows the cause and not the date.
LabelledWithoutDate(d) ==
  [cause |-> d.truth, confidence |-> 99, path |-> "llm", promise |-> NoPromise]

(***************************************************************************)
(* OracleDiagnoser: the held-back label, and of a promise the day the      *)
(* money arrives, in whole days.                                           *)
(***************************************************************************)
Labelled(d) ==
  [cause |-> d.truth, confidence |-> 99, path |-> "llm",
   promise |-> IF d.truth = "promise_to_pay" /\ d.ripens # NoDate
               THEN Round(d.ripens, 1440) ELSE NoPromise]

(***************************************************************************)
(* _diagnose, with the rule table and the diagnoser of the regime.         *)
(***************************************************************************)
Heard ==
  CASE ReadCodes(dealt.signals) # Undecided -> {ReadCodes(dealt.signals)}
    [] arm # "agent" \/ setting.regime = "rules" -> {Degraded}
    [] setting.regime = "oracle" -> {Labelled(dealt)}
    [] OTHER -> ModelAnswers(case)

\* Slip: the coins are flipped again for every batch.
LandsAfresh ==
  dealt.draws[(step + Len(reports)) % MAX_DRAWS] <
    Chance(setting.world, dealt, chosen.iv, chosen.at, ContactsBefore)

(***************************************************************************)
(* world.attempt: the draw of the step against the chance of the action.   *)
(***************************************************************************)
Lands ==
  dealt.draws[step] <
    Chance(setting.world, dealt, chosen.iv, chosen.at, ContactsBefore)

-----------------------------------------------------------------------------
\* Slip: a recovery is counted net of what it cost.
PlayedNet ==
  [recovered |-> outcome.recovered - outcome.cost,
   attributable |-> outcome.attributable,
   anyway |-> case.anyway,
   cost |-> outcome.cost,
   discretionary |-> IF contacts > notices THEN contacts - notices ELSE 0,
   reviews |-> Cardinality({i \in DOMAIN taken : taken[i].iv = "escalate_human"})]

\* Slip: a case an action closed is credited, whoever would have paid anyway.
PlayedCreditsTheClose ==
  [recovered |-> outcome.recovered,
   attributable |-> outcome.closedBy # "none",
   anyway |-> case.anyway,
   cost |-> outcome.cost,
   discretionary |-> IF contacts > notices THEN contacts - notices ELSE 0,
   reviews |-> Cardinality({i \in DOMAIN taken : taken[i].iv = "escalate_human"})]

(***************************************************************************)
(* What a CaseResult adds to its arm.                                      *)
(***************************************************************************)
Played ==
  [recovered |-> outcome.recovered,
   attributable |-> outcome.attributable,
   anyway |-> case.anyway,
   cost |-> outcome.cost,
   discretionary |-> IF contacts > notices THEN contacts - notices ELSE 0,
   reviews |-> Cardinality({i \in DOMAIN taken : taken[i].iv = "escalate_human"})]

NoResult == [gross |-> 0, attributable |-> 0, wasted |-> 0, cost |-> 0,
             discretionary |-> 0, reviews |-> 0, perCase |-> << >>]

\* Slip: an arm is credited with everything it was standing next to.
CreditsEverything(r, p) ==
  [gross |-> r.gross + p.recovered,
   attributable |-> r.attributable + p.recovered,
   wasted |-> r.wasted + (IF p.anyway THEN p.cost ELSE 0),
   cost |-> r.cost + p.cost,
   discretionary |-> r.discretionary + p.discretionary,
   reviews |-> r.reviews + p.reviews,
   perCase |-> Append(r.perCase, p)]

(***************************************************************************)
(* ArmResult.add.  Reviews are kept in its list of cases only.             *)
(***************************************************************************)
Add(r, p) ==
  [gross |-> r.gross + p.recovered,
   attributable |-> r.attributable + (IF p.attributable THEN p.recovered ELSE 0),
   wasted |-> r.wasted + (IF p.anyway THEN p.cost ELSE 0),
   cost |-> r.cost + p.cost,
   discretionary |-> r.discretionary + p.discretionary,
   reviews |-> r.reviews + p.reviews,
   perCase |-> Append(r.perCase, p)]

-----------------------------------------------------------------------------
(***************************************************************************)
(* A batch starts with the control arm's first case and empty results.     *)
(***************************************************************************)
BatchInit ==
  /\ book \in Books
  /\ agenda \in Agendas
  /\ at = 1
  /\ results = [a \in Arms |-> NoResult]
  /\ reports = << >>
  /\ phase = "running"
  /\ Begin(Hidden(book[1]), "control")
  /\ limit = CapacityFor(BookSurface(book), Len(book))
  /\ used = 0

(***************************************************************************)
(* A step of the case being played.                                        *)
(***************************************************************************)
Play ==
  /\ phase = "running"
  /\ Advance
  /\ pc = "diagnose" => diagnosis' \in Heard
  /\ pc = "act" => LastTaken'.landed = Lands
  /\ UNCHANGED batch

(***************************************************************************)
(* Nothing in run_batch catches what a case raises: the results of every   *)
(* arm are lost with it.                                                   *)
(***************************************************************************)
Fail ==
  /\ phase = "running"
  /\ Abort
  /\ phase' = "failed"
  /\ UNCHANGED <<book, agenda, at, results, reports>>

(***************************************************************************)
(* run_case is called for case d under arm a, from scratch.                *)
(***************************************************************************)
Launch(d, a) ==
  /\ case' = Hidden(d)
  /\ arm' = a
  /\ pc' = "detect"
  /\ diagnosis' = NoDiagnosis
  /\ working' = d.event
  /\ step' = 0
  /\ chosen' = NoChoice
  /\ taken' = << >>
  /\ contacts' = 0
  /\ notices' = 0
  /\ spent' = 0
  /\ refusals' = {}
  /\ violations' = {}
  /\ closedBy' = "none"
  /\ outcome' = NoOutcome
  /\ trail' = << >>

Tallied == [results EXCEPT ![arm] = Add(@, Played)]

\* Slip: every case is given a review budget of its own.
NextCaseRefills ==
  /\ phase = "running"
  /\ pc = "done"
  /\ at < Len(book)
  /\ results' = Tallied
  /\ at' = at + 1
  /\ Launch(book[at + 1], arm)
  /\ used' = 0
  /\ UNCHANGED <<limit, book, agenda, reports, phase>>

(***************************************************************************)
(* The arm's next case shares its engine, and so its review budget.        *)
(***************************************************************************)
NextCase ==
  /\ phase = "running"
  /\ pc = "done"
  /\ at < Len(book)
  /\ results' = Tallied
  /\ at' = at + 1
  /\ Launch(book[at + 1], arm)
  /\ UNCHANGED <<limit, used, book, agenda, reports, phase>>

ArmAfter == [control |-> "naive", naive |-> "agent"]

(***************************************************************************)
(* The next arm plays the book from its start, with a budget of its own.   *)
(***************************************************************************)
NextArm ==
  /\ phase = "running"
  /\ pc = "done"
  /\ at = Len(book)
  /\ arm # "agent"
  /\ results' = Tallied
  /\ at' = 1
  /\ Launch(book[1], ArmAfter[arm])
  /\ used' = 0
  /\ UNCHANGED <<limit, book, agenda, reports, phase>>

LastCase == phase = "running" /\ pc = "done" /\ at = Len(book) /\ arm = "agent"

Report == [setting |-> setting, results |-> Tallied]

(***************************************************************************)
(* run_batch returns, and the next one on the agenda is called.            *)
(***************************************************************************)
NextBatch ==
  /\ LastCase
  /\ Len(agenda) > 1
  /\ reports' = Append(reports, Report)
  /\ agenda' = Tail(agenda)
  /\ results' = [a \in Arms |-> NoResult]
  /\ at' = 1
  /\ Launch(book[1], "control")
  /\ used' = 0
  /\ UNCHANGED <<limit, book, phase>>

Conclude ==
  /\ LastCase
  /\ Len(agenda) = 1
  /\ reports' = Append(reports, Report)
  /\ results' = Tallied
  /\ phase' = "reported"
  /\ UNCHANGED <<vars, book, agenda, at>>

Proceed == Play \/ NextCase \/ NextArm \/ NextBatch \/ Conclude

BatchNext == Proceed \/ Fail

BatchSpec == BatchInit /\ [][BatchNext]_everything

(***************************************************************************)
(* run_batch is called and runs on, unless something raises.               *)
(***************************************************************************)
FairBatchSpec == BatchSpec /\ WF_everything(Proceed)

-----------------------------------------------------------------------------
(***************************************************************************)
(* BatchReport: net_at, and the contact cost from which restraint pays,    *)
(* as a fraction of paise per message.                                     *)
(***************************************************************************)
NetAt(rs, a, cost) ==
  (rs[a].gross - rs["control"].gross) - rs[a].cost
    - rs[a].discretionary * cost

NoBreakEven == [paise |-> -1, per |-> 1]

ContactGap(rs) == rs["naive"].discretionary - rs["agent"].discretionary

ValueGap(rs) == NetAt(rs, "naive", 0) - NetAt(rs, "agent", 0)

\* Slip: a gap in the agent's disfavour is divided by as well.
BreakEvenOfAnyGap(rs) ==
  CASE ContactGap(rs) = 0 -> NoBreakEven
    [] ValueGap(rs) <= 0  -> [paise |-> 0, per |-> 1]
    [] OTHER              -> [paise |-> ValueGap(rs), per |-> ContactGap(rs)]

BreakEven(rs) ==
  CASE ContactGap(rs) <= 0 -> NoBreakEven
    [] ContactGap(rs) > 0 /\ ValueGap(rs) <= 0 -> [paise |-> 0, per |-> 1]
    [] OTHER -> [paise |-> ValueGap(rs), per |-> ContactGap(rs)]

(***************************************************************************)
(* The contact costs of sweep, in paise.                                   *)
(***************************************************************************)
SweepCosts == {200 * i : i \in 0 .. 25}

-----------------------------------------------------------------------------
PlayedCases == [recovered : Nat, attributable : BOOLEAN, anyway : BOOLEAN,
                cost : Nat, discretionary : Nat, reviews : Nat]

ArmResults == [gross : Nat, attributable : Nat, wasted : Nat, cost : Nat,
               discretionary : Nat, reviews : Nat, perCase : Seq(PlayedCases)]

BatchReports == [setting : Settings, results : [Arms -> ArmResults]]

(***************************************************************************)
(* The type invariant, of the loop and of the batch around it.             *)
(***************************************************************************)
BatchTypeOK ==
  /\ TypeOK
  /\ book \in Books
  /\ agenda \in Seq(Settings) \ {<< >>}
  /\ at \in DOMAIN book
  /\ results \in [Arms -> ArmResults]
  /\ reports \in Seq(BatchReports)
  /\ phase \in {"running", "reported", "failed"}

(***************************************************************************)
(* Every case an arm has played it played against the world the control    *)
(* arm saw: what it recovered beyond the control arm, on that very case,   *)
(* is what it caused, and nothing of what it caused is missing.            *)
(***************************************************************************)
PairedDeltas ==
  \A a \in Arms : \A i \in DOMAIN results[a].perCase :
    LET mine == results[a].perCase[i]
        none == results["control"].perCase[i]
    IN /\ i \in DOMAIN results["control"].perCase
       /\ mine.recovered - none.recovered
            = IF mine.attributable THEN mine.recovered ELSE 0

(***************************************************************************)
(* In every report the two ways to measure an arm agree: its recovery      *)
(* above the control arm's, and the recoveries it is credited with.        *)
(***************************************************************************)
AttributionIsIncrement ==
  \A i \in DOMAIN reports : \A a \in Arms :
    LET rs == reports[i].results
    IN rs[a].gross - rs["control"].gross = rs[a].attributable

(***************************************************************************)
(* Over all cases of a batch no arm consumes more human reviews than the   *)
(* batch has, whichever cases come first.                                  *)
(***************************************************************************)
ReviewsAreRationed ==
  LET capacity == CapacityFor(BookSurface(book), Len(book))
  IN capacity # NoCapacity =>
       /\ \A a \in Arms : results[a].reviews <= capacity
       /\ \A i \in DOMAIN reports : \A a \in Arms :
            reports[i].results[a].reviews <= capacity

(***************************************************************************)
(* The break-even is where the two lines of the sweep cross: below it the  *)
(* naive arm nets more and above it the agent, and where there is none no  *)
(* price on a message helps the agent.                                     *)
(***************************************************************************)
BreakEvenIsTheCrossing ==
  \A i \in DOMAIN reports : \A c \in SweepCosts :
    LET rs   == reports[i].results
        even == BreakEven(rs)
        lead == NetAt(rs, "agent", c) - NetAt(rs, "naive", c)
    IN IF even = NoBreakEven
       THEN lead <= NetAt(rs, "agent", 0) - NetAt(rs, "naive", 0)
       ELSE /\ c * even.per > even.paise => lead > 0
            /\ c * even.per < even.paise => lead < 0

(***************************************************************************)
(* In a comparison only what is compared changes.  No regime of diagnosis  *)
(* and no handicap moves the control arm, and no regime moves the naive    *)
(* one.                                                                    *)
(***************************************************************************)
OnlyTheAgentMoves ==
  \A i, j \in DOMAIN reports :
    /\ reports[i].results["control"] = reports[j].results["control"]
    /\ reports[i].setting.world = reports[j].setting.world =>
         reports[i].results["naive"] = reports[j].results["naive"]

(***************************************************************************)
(* The rule table and the generator agree although neither was written     *)
(* from the other: a payload with a code is read as what is true of the    *)
(* case, with the confidence the loop's model gives it, and a payload of   *)
(* prose is left to the model.                                             *)
(***************************************************************************)
RulesReadTheTruth ==
  ReadCodes(dealt.signals) =
    IF dealt.ambiguous THEN Undecided ELSE RuleDiagnosis(case)

(***************************************************************************)
(* With perfect diagnosis nobody who promised to pay is reminded before    *)
(* the money is there, although the date reaches the policy in whole days. *)
(***************************************************************************)
OracleWaitsForTheMoney ==
  /\ setting.regime = "oracle"
  /\ arm = "agent"
  /\ case.truth = "promise_to_pay"
  => \A i \in DOMAIN taken : taken[i].iv \in Contacting =>
       taken[i].at >= case.event.occurred + dealt.ripens

(***************************************************************************)
(* A chance is a probability, and there is one only where the loop's own   *)
(* model of the world allows the action to land.                           *)
(***************************************************************************)
ChancesAreFair ==
  pc = "act" /\ phase = "running" =>
    LET p == Chance(setting.world, dealt, chosen.iv, chosen.at, ContactsBefore)
    IN p \in 0 .. Certain /\ (p > 0 => CanLand(case, chosen.iv))

(***************************************************************************)
(* Every batch comes to an end: all its reports, unless something raised.  *)
(***************************************************************************)
BatchEnds == <>(phase # "running")
=============================================================================
