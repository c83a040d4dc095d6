----------------------------- MODULE BatchProofs -----------------------------
(***************************************************************************)
(* Theorems about Batch, for every policy file, every book of cases, every *)
(* set of model answers, every capacity and every agenda of batches.       *)
(*                                                                         *)
(* A batch plays each case by steps of Runner, so the invariants of Runner *)
(* carry over; to them are added what the outcome of a finished case says  *)
(* and how the results of the arms stand to the cases they were made from. *)
(* Then the world: the codes the rule table reads, the chances an action   *)
(* has, and the date the oracle gives.  Last, the arms that have no        *)
(* diagnoser: the case and the world settle what they do, so that nothing  *)
(* else moves their results.                                               *)
(***************************************************************************)
EXTENDS Batch, RunnerSafetyProofs

-----------------------------------------------------------------------------
(***************************************************************************)
(* The control arm does nothing: its number of steps is zero.              *)
(***************************************************************************)
ControlRests ==
  arm = "control" => closedBy = "none" /\ pc \notin {"act", "record"}

(***************************************************************************)
(* What a result says about a case: what is credited to the arm would not  *)
(* have come by itself, and what is not came by itself or not at all.      *)
(***************************************************************************)
Settled(c, p, a) ==
  /\ p.attributable => ~c.anyway /\ p.recovered = c.event.amount
  /\ ~p.attributable => p.recovered = IF c.anyway THEN c.event.amount ELSE 0
  /\ a = "control" => ~p.attributable

OutcomeSettled ==
  pc = "done" => outcome \in Outcomes /\ Settled(case, outcome, arm)

(***************************************************************************)
(* The reviews this arm consumed in the cases before this one, by r, and   *)
(* in this one are what its budget is short of.                            *)
(***************************************************************************)
Escalations == Cardinality(Executed({"escalate_human"}))

BudgetAccounts(r) ==
  IF limit = NoCapacity THEN used = 0 ELSE r + Escalations = used

Loop == TypeInv /\ PermitInv /\ ControlRests /\ OutcomeSettled

-----------------------------------------------------------------------------
(***************************************************************************)
(* Every step of a case is a step of Runner.                               *)
(***************************************************************************)
LEMMA PlayIsAStep ==
  /\ Play => Next /\ UNCHANGED batch
  /\ Fail => Next /\ UNCHANGED <<book, agenda, at, results, reports>>
BY DEF Play, Fail, Next

(***************************************************************************)
(* An arm without steps is exhausted before the first, so nothing is ever  *)
(* decided in it.                                                          *)
(***************************************************************************)
LEMMA ControlNeverDecides ==
  ASSUME TypeInv, arm = "control"
  PROVE  ~Deciding
BY DEF TypeInv, TypeOK, Deciding, Exhausted, StepLimit

(***************************************************************************)
(* So no step of a control case acts, and none closes the case.            *)
(***************************************************************************)
LEMMA StepRests ==
  ASSUME TypeInv, ControlRests, Next
  PROVE  ControlRests'
<1> SUFFICES ASSUME arm' = "control"
             PROVE  closedBy' = "none" /\ pc' \notin {"act", "record"}
  BY DEF ControlRests
<1>1. arm = "control"
  BY DEF Next, Advance, Detect, Diagnose, Stop, Permit, Defer, Override, Choose,
     Halt, Act, Record, Observe, Abort, given
<1>2. ~Deciding /\ closedBy = "none" /\ pc \notin {"act", "record"}
  BY <1>1, ControlNeverDecides DEF ControlRests
<1> QED
  BY <1>2 DEF Next, Advance, Detect, Diagnose, Stop, Permit, Defer, Override,
     Halt, Act, Record, Observe, Abort

(***************************************************************************)
(* The outcome is made once, by Observe, from who closed the case and from *)
(* what would have happened anyway, and is not changed after.              *)
(***************************************************************************)
LEMMA StepSettles ==
  ASSUME TypeInv, TypeInv', ControlRests, OutcomeSettled, Next
  PROVE  OutcomeSettled'
<1>1. CASE Observe
  <2>1. /\ outcome' \in Outcomes
        /\ arm' = arm /\ case' = case
        /\ outcome'.attributable = (closedBy # "none" /\ ~case.anyway)
        /\ outcome'.recovered = IF closedBy # "none" \/ case.anyway
                                THEN case.event.amount ELSE 0
    BY <1>1 DEF Observe, TypeInv, TypeOK, NoOutcome, given
  <2>2. arm = "control" => closedBy = "none"
    BY DEF ControlRests
  <2> QED
    BY <2>1, <2>2 DEF OutcomeSettled, Settled
<1>2. CASE ~Observe
  BY <1>2 DEF OutcomeSettled, Next, Advance, Detect, Diagnose, Stop, Permit,
     Defer, Override, Choose, Halt, Act, Record, Abort
<1> QED
  BY <1>1, <1>2

(***************************************************************************)
(* A review is taken from the budget exactly when an escalation is         *)
(* executed.                                                               *)
(***************************************************************************)
LEMMA StepAccounts ==
  ASSUME TypeInv, NEW r \in Nat, BudgetAccounts(r), Next
  PROVE  /\ limit' = limit
         /\ IF limit = NoCapacity THEN used' = 0 ELSE r + Escalations' = used'
<1>1. limit' = limit
  BY DEF Next, Advance, Detect, Diagnose, Stop, Permit, Defer, Override, Choose,
     Halt, Act, Record, Observe, Abort, given
<1>2. CASE Act
  <2>1. PICK landed \in BOOLEAN :
          taken' = Append(taken, [iv |-> chosen.iv, at |-> chosen.at,
                                  draw |-> step, before |-> ContactsBefore,
                                  landed |-> landed])
    BY <1>2 DEF Act
  <2> DEFINE last == [iv |-> chosen.iv, at |-> chosen.at, draw |-> step,
                      before |-> ContactsBefore, landed |-> landed]
  <2>2. last \in ActRecords
    BY DEF TypeInv, TypeOK, Proposals, ActRecords, ContactsBefore
  <2>3. Escalations' = Escalations +
                         (IF last.iv \in {"escalate_human"} THEN 1 ELSE 0)
    BY <2>1, <2>2, CountAfter DEF Escalations
  <2>4. used' = used + (IF chosen.iv = "escalate_human" /\ limit # NoCapacity
                        THEN 1 ELSE 0)
    BY <1>2 DEF Act
  <2>5. Escalations \in Nat /\ used \in Nat
    BY ExecutedCounted DEF Escalations, TypeInv, TypeOK
  <2> QED
    BY <1>1, <2>3, <2>4, <2>5 DEF BudgetAccounts
<1>3. CASE ~Act
  <2>1. taken' = taken /\ used' = used
    BY <1>3 DEF Next, Advance, Detect, Diagnose, Stop, Permit, Defer, Override,
       Choose, Halt, Record, Observe, Abort, tallies
  <2> QED
    BY <1>1, <2>1 DEF BudgetAccounts, Escalations, Executed
<1> QED
  BY <1>1, <1>2, <1>3

(***************************************************************************)
(* The four facts about the loop are kept together by its every step.      *)
(***************************************************************************)
LEMMA StepLoop ==
  ASSUME Loop, Next
  PROVE  Loop'
<1>1. TypeInv'
  BY StepTyped DEF Loop
<1>2. PermitInv'
  BY StepPermit DEF Loop
<1> QED
  BY <1>1, <1>2, StepRests, StepSettles DEF Loop

-----------------------------------------------------------------------------
(***************************************************************************)
(* A case starts as Runner's initial states do, and so does every case     *)
(* after it.                                                               *)
(***************************************************************************)
LEMMA InitLoop == Init => Loop
<1>1. Init => ControlRests /\ OutcomeSettled
  BY DEF Init, Begin, ControlRests, OutcomeSettled
<1> QED
  BY <1>1, InitTyped, InitPermit DEF Loop

(***************************************************************************)
(* A case set up anew, with a budget of reviews that may be partly used,   *)
(* is a state the facts about the loop hold in.                            *)
(***************************************************************************)
LEMMA LaunchLoop ==
  ASSUME NEW d, NEW a \in Arms, Hidden(d) \in Cases, Launch(d, a),
         limit' \in Budgets,
         used' \in IF limit' = NoCapacity THEN {0} ELSE 0 .. limit'
  PROVE  /\ Loop'
         /\ pc' = "detect" /\ case' = Hidden(d) /\ arm' = a
         /\ Escalations' = 0
<1>1. Init'
  <2>1. Begin(Hidden(d), a)'
    BY DEF Launch, Begin, Hidden
  <2>2. (\E c \in Cases, b \in Arms : Begin(c, b))'
    BY <2>1
  <2> QED
    BY <2>2 DEF Init
<1>2. (Init => Loop)'
  BY InitLoop, PTL
<1>3. Loop'
  BY <1>1, <1>2
<1>4. Executed({"escalate_human"})' = {}
  BY DEF Launch, Executed
<1>5. Escalations' = 0
  BY <1>4, FS_EmptySet DEF Escalations
<1> QED
  BY <1>3, <1>5 DEF Launch

-----------------------------------------------------------------------------
(***************************************************************************)
(* How many cases of the book each arm has been tallied for.               *)
(***************************************************************************)
Earlier(a, b) == (a = "control" /\ b # "control") \/ (a = "naive" /\ b = "agent")

Tally ==
  [a \in Arms |-> IF phase = "reported" \/ Earlier(a, arm) THEN Len(book)
                  ELSE IF a = arm THEN at - 1 ELSE 0]

Accounts(rs, n) ==
  /\ rs \in [Arms -> ArmResults]
  /\ \A a \in Arms : /\ Len(rs[a].perCase) = n[a]
                     /\ n[a] = 0 => rs[a].reviews = 0
  /\ \A a \in Arms : \A i \in 1 .. n[a] :
       Settled(Hidden(book[i]), rs[a].perCase[i], a)

(***************************************************************************)
(* f is the running sum of what the control arm recovered, case by case.   *)
(* An arm that has played k cases has recovered what it is credited with   *)
(* and the control arm's first k cases.  The sum is carried along by the   *)
(* invariant and defined nowhere.                                          *)
(***************************************************************************)
RunningSum(f, rs) ==
  /\ f[0] = 0
  /\ \A k \in 1 .. Len(rs["control"].perCase) :
       f[k] = f[k - 1] + rs["control"].perCase[k].recovered
  /\ \A a \in Arms :
       rs[a].gross - rs[a].attributable = f[Len(rs[a].perCase)]

Balanced(rs) ==
  /\ rs["control"].attributable = 0
  /\ \E f \in [0 .. Len(rs["control"].perCase) -> Int] : RunningSum(f, rs)

Within(rs) ==
  limit # NoCapacity => \A a \in Arms : rs[a].reviews <= limit

-----------------------------------------------------------------------------
(***************************************************************************)
(* An element of a sequence is one of the set the sequence is over.        *)
(***************************************************************************)
LEMMA ElementsOf ==
  ASSUME NEW S, NEW s \in Seq(S)
  PROVE  \A i \in DOMAIN s : s[i] \in S
OBVIOUS

(***************************************************************************)
(* A sequence of two or more without its first is a sequence still.        *)
(***************************************************************************)
LEMMA TailOf ==
  ASSUME NEW S, NEW s \in Seq(S), Len(s) > 1
  PROVE  Tail(s) \in Seq(S) \ {<< >>}
<1>1. s # << >>
  OBVIOUS
<1>2. Tail(s) \in Seq(S) /\ Len(Tail(s)) = Len(s) - 1 /\ Len(s) \in Nat
  BY <1>1
<1>3. Len(Tail(s)) # 0 /\ Len(<< >>) = 0
  BY <1>2
<1>4. Tail(s) # << >>
  BY <1>3, Zenon
<1> QED
  BY <1>2, <1>4, Zenon

(***************************************************************************)
(* The arms are these three.                                               *)
(***************************************************************************)
LEMMA ThreeArms == Arms = {"control", "naive", "agent"}
BY BatchAssumption

(***************************************************************************)
(* A book is a sequence of cases that were dealt; each can be played, and  *)
(* the capacity for the book is a budget.                                  *)
(***************************************************************************)
LEMMA BookOf ==
  ASSUME book \in Books
  PROVE  /\ book \in Seq(DealtCases) /\ book # << >>
         /\ Len(book) \in Nat \ {0} /\ DOMAIN book = 1 .. Len(book)
         /\ \A i \in 1 .. Len(book) : Hidden(book[i]) \in Cases
         /\ CapacityFor(BookSurface(book), Len(book)) \in Budgets
<1>1. book \in Seq(DealtCases) /\ book # << >>
  BY BatchAssumption
<1>2. Len(book) \in Nat /\ DOMAIN book = 1 .. Len(book)
  BY <1>1
<1>3. Len(book) # 0
  BY <1>1
<1>4. \A i \in DOMAIN book : Hidden(book[i]) \in Cases
  BY BatchAssumption
<1>5. CapacityFor(BookSurface(book), Len(book)) \in Budgets
  BY BatchAssumption
<1> QED
  BY <1>1, <1>2, <1>3, <1>4, <1>5

(***************************************************************************)
(* The result of a finished case.                                          *)
(***************************************************************************)
LEMMA PlayedTyped ==
  ASSUME Loop, pc = "done"
  PROVE  /\ Played \in PlayedCases
         /\ Settled(case, Played, arm)
         /\ Played.reviews = Escalations
<1>1. Settled(case, outcome, arm) /\ outcome \in Outcomes
  BY DEF Loop, OutcomeSettled
<1>2. Played.reviews = Escalations
  <2>1. {i \in DOMAIN taken : taken[i].iv = "escalate_human"}
          = Executed({"escalate_human"})
    BY DEF Executed
  <2> QED
    BY <2>1 DEF Played, Escalations
<1>3. Escalations \in Nat
  BY ExecutedCounted DEF Escalations, Loop
<1>4. case.anyway \in BOOLEAN
  BY RunnerAssumption DEF Loop, TypeInv, TypeOK, LatentCases
<1>5. contacts \in Nat /\ notices \in Nat
  BY DEF Loop, TypeInv, TypeOK
<1>6. /\ Played.recovered = outcome.recovered
      /\ Played.attributable = outcome.attributable
      /\ Played.anyway = case.anyway
      /\ Played.cost = outcome.cost
      /\ Played.discretionary = IF contacts > notices THEN contacts - notices
                                                      ELSE 0
  BY DEF Played
<1>7. Settled(case, Played, arm)
  BY <1>1, <1>6 DEF Settled
<1>8. /\ outcome.recovered \in Nat /\ outcome.attributable \in BOOLEAN
      /\ outcome.cost \in Nat
  BY <1>1 DEF Outcomes
<1>9. (IF contacts > notices THEN contacts - notices ELSE 0) \in Nat
  BY <1>5
<1>10. Played = [recovered |-> Played.recovered,
                 attributable |-> Played.attributable,
                 anyway |-> Played.anyway, cost |-> Played.cost,
                 discretionary |-> Played.discretionary,
                 reviews |-> Played.reviews]
  BY DEF Played
<1>11. Played \in PlayedCases
  <2> HIDE DEF Played
  <2> QED
    BY <1>2, <1>3, <1>4, <1>6, <1>8, <1>9, <1>10 DEF PlayedCases
<1> QED
  BY <1>2, <1>7, <1>11

(***************************************************************************)
(* The results after a finished case has been added.                       *)
(***************************************************************************)
LEMMA AddTyped ==
  ASSUME NEW r \in ArmResults, NEW p \in PlayedCases
  PROVE  /\ Add(r, p) \in ArmResults
         /\ Len(Add(r, p).perCase) = Len(r.perCase) + 1
         /\ \A i \in 1 .. Len(r.perCase) : Add(r, p).perCase[i] = r.perCase[i]
         /\ Add(r, p).perCase[Len(r.perCase) + 1] = p
         /\ Add(r, p).gross = r.gross + p.recovered
         /\ Add(r, p).reviews = r.reviews + p.reviews
<1>1. r.perCase \in Seq(PlayedCases)
  BY DEF ArmResults
<1>2. /\ Append(r.perCase, p) \in Seq(PlayedCases)
      /\ Len(Append(r.perCase, p)) = Len(r.perCase) + 1
      /\ \A i \in 1 .. Len(r.perCase) : Append(r.perCase, p)[i] = r.perCase[i]
      /\ Append(r.perCase, p)[Len(r.perCase) + 1] = p
  BY <1>1
<1>3. /\ r.gross + p.recovered \in Nat
      /\ r.attributable + (IF p.attributable THEN p.recovered ELSE 0) \in Nat
      /\ r.wasted + (IF p.anyway THEN p.cost ELSE 0) \in Nat
      /\ r.cost + p.cost \in Nat
      /\ r.discretionary + p.discretionary \in Nat
      /\ r.reviews + p.reviews \in Nat
  <2>1. /\ r.gross \in Nat /\ r.attributable \in Nat /\ r.wasted \in Nat
        /\ r.cost \in Nat /\ r.discretionary \in Nat /\ r.reviews \in Nat
    BY DEF ArmResults
  <2>2. /\ p.recovered \in Nat /\ p.cost \in Nat /\ p.discretionary \in Nat
        /\ p.reviews \in Nat
    BY DEF PlayedCases
  <2>3. /\ (IF p.attributable THEN p.recovered ELSE 0) \in Nat
        /\ (IF p.anyway THEN p.cost ELSE 0) \in Nat
    BY <2>2, Zenon
  <2> QED
    BY <2>1, <2>2, <2>3
<1>4. Add(r, p) \in ArmResults
  BY <1>2, <1>3 DEF Add, ArmResults
<1>5. /\ Add(r, p).perCase = Append(r.perCase, p)
      /\ Add(r, p).gross = r.gross + p.recovered
      /\ Add(r, p).reviews = r.reviews + p.reviews
  BY DEF Add
<1> QED
  BY <1>2, <1>4, <1>5

(***************************************************************************)
(* What is added to the credits of an arm is the amount of a case that     *)
(* would not have paid by itself, or nothing.                              *)
(***************************************************************************)
LEMMA AddCredits ==
  ASSUME NEW r \in ArmResults, NEW p
  PROVE  /\ p.attributable =>
              Add(r, p).attributable = r.attributable + p.recovered
         /\ ~p.attributable => Add(r, p).attributable = r.attributable
BY DEF Add, ArmResults

(***************************************************************************)
(* The results with this case added are typed, and only those of the arm   *)
(* that played it have changed.                                            *)
(***************************************************************************)
LEMMA TalliedArms ==
  ASSUME Loop, pc = "done", results \in [Arms -> ArmResults]
  PROVE  /\ Tallied \in [Arms -> ArmResults]
         /\ Tallied[arm] = Add(results[arm], Played)
         /\ \A a \in Arms \ {arm} : Tallied[a] = results[a]
         /\ arm \in Arms
<1>1. Add(results[arm], Played) \in ArmResults /\ arm \in Arms
  BY AddTyped, PlayedTyped DEF Loop, TypeInv, TypeOK
<1> QED
  BY <1>1 DEF Tallied

-----------------------------------------------------------------------------
(***************************************************************************)
(* The invariant of a batch.                                               *)
(***************************************************************************)
Playing ==
  /\ book \in Books
  /\ agenda \in Seq(Settings) \ {<< >>}
  /\ at \in 1 .. Len(book)
  /\ phase \in {"running", "reported", "failed"}
  /\ case = Hidden(book[at])
  /\ limit = CapacityFor(BookSurface(book), Len(book))

Incremental(rs) ==
  \A a \in Arms : rs[a].gross - rs["control"].gross = rs[a].attributable

Reported ==
  /\ reports \in Seq(BatchReports)
  /\ \A i \in DOMAIN reports :
       Incremental(reports[i].results) /\ Within(reports[i].results)

Standing(rs, n) == Accounts(rs, n) /\ Balanced(rs) /\ Within(rs)

BatchInv ==
  /\ Loop
  /\ Playing
  /\ Standing(results, Tally)
  /\ phase # "reported" => BudgetAccounts(results[arm].reviews)
  /\ Reported

-----------------------------------------------------------------------------
(***************************************************************************)
(* What adding a finished case to its arm does to the accounts.            *)
(***************************************************************************)
LEMMA TallyNow ==
  ASSUME BatchInv, phase = "running"
  PROVE  /\ arm \in Arms /\ Tally \in [Arms -> Nat] /\ Tally[arm] = at - 1
         /\ arm # "control" => Tally["control"] = Len(book)
         /\ arm = "control" => \A a \in Arms \ {arm} : Tally[a] = 0
         /\ \A a \in Arms : Tally[a] <= Len(book)
         /\ Len(book) \in Nat /\ at \in 1 .. Len(book)
<1>1. arm \in Arms /\ book \in Books /\ at \in 1 .. Len(book)
  BY DEF BatchInv, Loop, TypeInv, TypeOK, Playing
<1>2. Len(book) \in Nat
  BY <1>1, BookOf
<1> QED
  BY <1>1, <1>2, ThreeArms DEF Tally, Earlier

(***************************************************************************)
(* The result added last is the one of the case just played, the ones      *)
(* before are as they were.                                                *)
(***************************************************************************)
LEMMA TalliedArm ==
  ASSUME BatchInv, phase = "running", pc = "done"
  PROVE  /\ Len(results[arm].perCase) = at - 1 /\ at \in Nat \ {0}
         /\ Len(Tallied[arm].perCase) = at
         /\ \A i \in 1 .. at - 1 :
              Tallied[arm].perCase[i] = results[arm].perCase[i]
         /\ Tallied[arm].perCase[at] = Played
         /\ Tallied[arm].gross = results[arm].gross + Played.recovered
         /\ Played.attributable => Tallied[arm].attributable =
                                     results[arm].attributable + Played.recovered
         /\ ~Played.attributable =>
              Tallied[arm].attributable = results[arm].attributable
         /\ Tallied[arm].reviews = results[arm].reviews + Escalations
<1>1. Loop /\ Accounts(results, Tally)
  BY DEF BatchInv, Standing
<1>2. /\ Tallied[arm] = Add(results[arm], Played)
      /\ arm \in Arms /\ results[arm] \in ArmResults
  BY <1>1, TalliedArms DEF Accounts
<1>3. Len(results[arm].perCase) = at - 1 /\ at \in Nat \ {0}
  BY <1>1, <1>2, TallyNow DEF Accounts
<1>4. Played \in PlayedCases /\ Played.reviews = Escalations
  BY <1>1, PlayedTyped
<1>5. Len(results[arm].perCase) + 1 = at
  BY <1>3
<1> DEFINE after == Add(results[arm], Played)
<1>6. /\ Len(after.perCase) = Len(results[arm].perCase) + 1
      /\ \A i \in 1 .. Len(results[arm].perCase) :
           after.perCase[i] = results[arm].perCase[i]
      /\ after.perCase[Len(results[arm].perCase) + 1] = Played
  BY <1>2, <1>4, AddTyped
<1>7. /\ after.gross = results[arm].gross + Played.recovered
      /\ after.reviews = results[arm].reviews + Played.reviews
  BY <1>2, <1>4, AddTyped
<1>8. /\ Played.attributable =>
           after.attributable = results[arm].attributable + Played.recovered
      /\ ~Played.attributable => after.attributable = results[arm].attributable
  BY <1>2, AddCredits, Zenon
<1>9. Tallied[arm] = after
  BY <1>2
<1> HIDE DEF after
<1> QED
  BY <1>3, <1>4, <1>5, <1>6, <1>7, <1>8, <1>9, Zenon

(***************************************************************************)
(* The results with this case added count, arm by arm, the cases that were *)
(* played, and say of each what may be said of it.                         *)
(***************************************************************************)
LEMMA TalliedAccounts ==
  ASSUME BatchInv, phase = "running", pc = "done"
  PROVE  Accounts(Tallied, [Tally EXCEPT ![arm] = at])
<1> DEFINE n == [Tally EXCEPT ![arm] = at]
<1>1. Loop /\ Accounts(results, Tally) /\ case = Hidden(book[at])
  BY DEF BatchInv, Standing, Playing
<1>2. /\ Tallied \in [Arms -> ArmResults]
      /\ Tallied[arm] = Add(results[arm], Played)
      /\ \A a \in Arms \ {arm} : Tallied[a] = results[a]
      /\ arm \in Arms
  BY <1>1, TalliedArms DEF Accounts
<1>3. Len(results[arm].perCase) = at - 1 /\ at \in Nat
  BY <1>1, TallyNow DEF Accounts
<1>4. Played \in PlayedCases /\ Settled(case, Played, arm)
  BY <1>1, PlayedTyped
<1>5. /\ Len(Tallied[arm].perCase) = at
      /\ \A i \in 1 .. at - 1 : Tallied[arm].perCase[i] = results[arm].perCase[i]
      /\ Tallied[arm].perCase[at] = Played
  BY TalliedArm
<1>6. n[arm] = at /\ \A a \in Arms \ {arm} : n[a] = Tally[a]
  BY TallyNow
<1> HIDE DEF n
<1>7. ASSUME NEW a \in Arms
      PROVE  /\ Len(Tallied[a].perCase) = n[a]
             /\ n[a] = 0 => Tallied[a].reviews = 0
             /\ \A i \in 1 .. n[a] :
                  Settled(Hidden(book[i]), Tallied[a].perCase[i], a)
  <2>1. CASE a # arm
    BY <1>1, <1>2, <1>6, <2>1 DEF Accounts
  <2>2. CASE a = arm
    <3>1. ASSUME NEW i \in 1 .. at
          PROVE  Settled(Hidden(book[i]), Tallied[arm].perCase[i], arm)
      <4>1. CASE i = at
        BY <1>1, <1>4, <1>5, <4>1
      <4>2. CASE i # at
        <5>1. i \in 1 .. at - 1 /\ i \in 1 .. Tally[arm]
          BY <1>3, <4>2, TallyNow
        <5> QED
          BY <1>1, <1>2, <1>5, <5>1 DEF Accounts
      <4> QED
        BY <4>1, <4>2
    <3> QED
      BY <1>3, <1>5, <1>6, <2>2, <3>1
  <2> QED
    BY <2>1, <2>2
<1>8. Accounts(Tallied, n)
  BY <1>2, <1>7 DEF Accounts
<1> QED
  BY <1>8 DEF n

(***************************************************************************)
(* The control arm extends the running sum; every other arm recovers on    *)
(* this case what it is credited with and what the control arm recovered.  *)
(***************************************************************************)
LEMMA TalliedBalanced ==
  ASSUME BatchInv, phase = "running", pc = "done"
  PROVE  Balanced(Tallied)
<1>1. /\ Loop /\ Accounts(results, Tally) /\ Balanced(results)
      /\ case = Hidden(book[at])
  BY DEF BatchInv, Standing, Playing
<1>2. /\ Tallied \in [Arms -> ArmResults]
      /\ Tallied[arm] = Add(results[arm], Played)
      /\ \A a \in Arms \ {arm} : Tallied[a] = results[a]
      /\ arm \in Arms /\ "control" \in Arms
  BY <1>1, TalliedArms, ThreeArms DEF Accounts
<1>3. /\ Played \in PlayedCases /\ Settled(case, Played, arm)
      /\ results[arm] \in ArmResults
  BY <1>1, <1>2, PlayedTyped DEF Accounts
<1>4. /\ Len(results[arm].perCase) = at - 1 /\ at \in Nat \ {0}
      /\ \A a \in Arms : Len(results[a].perCase) = Tally[a]
  BY <1>1, TallyNow DEF Accounts
<1>5. /\ Len(Tallied[arm].perCase) = at
      /\ \A i \in 1 .. at - 1 : Tallied[arm].perCase[i] = results[arm].perCase[i]
      /\ Tallied[arm].perCase[at] = Played
      /\ Tallied[arm].gross = results[arm].gross + Played.recovered
      /\ Played.attributable => Tallied[arm].attributable =
                                  results[arm].attributable + Played.recovered
      /\ ~Played.attributable =>
           Tallied[arm].attributable = results[arm].attributable
  BY TalliedArm
<1>6. PICK f \in [0 .. Len(results["control"].perCase) -> Int] :
        RunningSum(f, results)
  BY <1>1 DEF Balanced
<1>7. /\ results[arm].gross \in Nat /\ results[arm].attributable \in Nat
      /\ Played.recovered \in Nat
  BY <1>3 DEF ArmResults, PlayedCases
<1>8. CASE arm = "control"
  <2> DEFINE g == [k \in 0 .. at |-> IF k < at THEN f[k]
                                     ELSE f[at - 1] + Played.recovered]
  <2>1. ~Played.attributable /\ results["control"].attributable = 0
    BY <1>1, <1>3, <1>8 DEF Settled, Balanced
  <2>2. Tallied["control"].attributable = 0
    BY <1>5, <1>8, <2>1
  <2>3. f \in [0 .. at - 1 -> Int] /\ f[0] = 0
    BY <1>4, <1>6, <1>8 DEF RunningSum
  <2>4. /\ g \in [0 .. at -> Int] /\ g[0] = 0
        /\ \A k \in 0 .. at - 1 : g[k] = f[k]
        /\ g[at] = f[at - 1] + Played.recovered
    BY <1>4, <1>7, <2>3
  <2> HIDE DEF g
  <2>5. ASSUME NEW k \in 1 .. at
        PROVE  g[k] = g[k - 1] + Tallied["control"].perCase[k].recovered
    <3>1. CASE k = at
      BY <1>4, <1>5, <1>8, <2>4, <3>1
    <3>2. CASE k # at
      <4>1. k \in 1 .. at - 1 /\ k - 1 \in 0 .. at - 1
        BY <1>4, <3>2
      <4>2. f[k] = f[k - 1] + results["control"].perCase[k].recovered
        BY <1>4, <1>6, <1>8, <4>1 DEF RunningSum
      <4> QED
        <5>1. g[k] = f[k] /\ g[k - 1] = f[k - 1]
          BY <1>4, <2>4, <4>1
        <5>2. Tallied["control"].perCase[k] = results["control"].perCase[k]
          BY <1>5, <1>8, <4>1
        <5> QED
          BY <4>2, <5>1, <5>2
    <3> QED
      BY <3>1, <3>2
  <2>6. ASSUME NEW a \in Arms
        PROVE  Tallied[a].gross - Tallied[a].attributable
                 = g[Len(Tallied[a].perCase)]
    <3>1. results[a].gross - results[a].attributable
            = f[Len(results[a].perCase)]
      BY <1>6 DEF RunningSum
    <3>2. CASE a = "control"
      <4>1. results[arm].gross - results[arm].attributable = f[at - 1]
        BY <1>4, <1>8, <3>1, <3>2
      <4>2. Tallied[arm].gross - Tallied[arm].attributable
              = f[at - 1] + Played.recovered
        BY <1>5, <1>7, <2>1, <4>1
      <4> QED
        BY <1>5, <1>8, <2>4, <3>2, <4>2
    <3>3. CASE a # "control"
      <4>1. Tallied[a] = results[a] /\ Len(results[a].perCase) = 0
        BY <1>2, <1>4, <1>8, <3>3, TallyNow
      <4> QED
        BY <2>3, <2>4, <3>1, <4>1
    <3> QED
      BY <3>2, <3>3
  <2>7. RunningSum(g, Tallied)
    BY <1>5, <1>8, <2>4, <2>5, <2>6 DEF RunningSum
  <2>8. \E h \in [0 .. Len(Tallied["control"].perCase) -> Int] :
          RunningSum(h, Tallied)
    BY <1>5, <1>8, <2>4, <2>7
  <2> QED
    BY <2>2, <2>8 DEF Balanced
<1>9. CASE arm # "control"
  <2>1. /\ Tallied["control"] = results["control"]
        /\ results["control"].attributable = 0
    BY <1>1, <1>2, <1>9 DEF Balanced
  <2>2. /\ Len(results["control"].perCase) = Len(book)
        /\ at \in 1 .. Len(book)
    BY <1>2, <1>4, <1>9, TallyNow
  <2>3. Settled(case, results["control"].perCase[at], "control")
    BY <1>1, <1>2, <1>4, <2>2 DEF Accounts
  <2>4. /\ Played.attributable => results["control"].perCase[at].recovered = 0
        /\ ~Played.attributable =>
             results["control"].perCase[at].recovered = Played.recovered
    BY <1>3, <2>3 DEF Settled
  <2>5. f[at] = f[at - 1] + results["control"].perCase[at].recovered
    BY <1>6, <2>2 DEF RunningSum
  <2>6. results[arm].gross - results[arm].attributable = f[at - 1]
    BY <1>2, <1>4, <1>6 DEF RunningSum
  <2>7. Tallied[arm].gross - Tallied[arm].attributable = f[at]
    <3>1. f[at - 1] \in Int
      BY <1>6, <2>2
    <3>2. CASE Played.attributable
      <4>1. Tallied[arm].attributable = results[arm].attributable + Played.recovered
        BY <1>5, <3>2
      <4>2. f[at] = f[at - 1]
        BY <2>4, <2>5, <3>1, <3>2
      <4> QED
        BY <1>5, <1>7, <2>6, <4>1, <4>2
    <3>3. CASE ~Played.attributable
      <4>1. Tallied[arm].attributable = results[arm].attributable
        BY <1>5, <3>3
      <4>2. f[at] = f[at - 1] + Played.recovered
        BY <2>4, <2>5, <3>3
      <4> QED
        BY <1>5, <1>7, <2>6, <3>1, <4>1, <4>2
    <3> QED
      BY <3>2, <3>3
  <2>8. \A a \in Arms : Tallied[a].gross - Tallied[a].attributable
                          = f[Len(Tallied[a].perCase)]
    BY <1>2, <1>5, <1>6, <2>7 DEF RunningSum
  <2>9. RunningSum(f, Tallied)
    BY <1>6, <2>1, <2>8 DEF RunningSum
  <2> QED
    BY <1>6, <2>1, <2>9 DEF Balanced
<1> QED
  BY <1>8, <1>9

(***************************************************************************)
(* The reviews of the arm, with those of this case, are within the budget  *)
(* of the arm.                                                             *)
(***************************************************************************)
LEMMA TalliedWithin ==
  ASSUME BatchInv, phase = "running", pc = "done"
  PROVE  Within(Tallied)
<1> SUFFICES ASSUME limit # NoCapacity, NEW a \in Arms
             PROVE  Tallied[a].reviews <= limit
  BY DEF Within
<1>1. /\ Loop /\ Accounts(results, Tally) /\ Within(results)
      /\ BudgetAccounts(results[arm].reviews)
  BY DEF BatchInv, Standing
<1>2. /\ Tallied[arm] = Add(results[arm], Played)
      /\ \A b \in Arms \ {arm} : Tallied[b] = results[b]
      /\ arm \in Arms /\ results[arm] \in ArmResults
  BY <1>1, TalliedArms DEF Accounts
<1>3. CASE a = arm
  <2>1. Tallied[arm].reviews = results[arm].reviews + Escalations
    BY TalliedArm
  <2>2. results[arm].reviews + Escalations = used
    BY <1>1 DEF BudgetAccounts
  <2>3. used <= limit
    BY <1>1 DEF Loop, PermitInv, ReviewBudgetHolds
  <2> QED
    BY <1>3, <2>1, <2>2, <2>3
<1>4. CASE a # arm
  BY <1>1, <1>2, <1>4 DEF Within
<1> QED
  BY <1>3, <1>4

-----------------------------------------------------------------------------
(***************************************************************************)
(* Results nobody has added to, and results that are carried over.         *)
(***************************************************************************)
Nothing == [a \in Arms |-> NoResult]

None == [a \in Arms |-> 0]

(***************************************************************************)
(* A batch that has played no case stands.                                 *)
(***************************************************************************)
LEMMA NothingStands ==
  ASSUME book \in Books, limit \in Budgets
  PROVE  Standing(Nothing, None)
<1>1. NoResult \in ArmResults /\ NoResult.perCase = << >> /\ Len(<< >>) = 0
      /\ NoResult.gross = 0 /\ NoResult.attributable = 0 /\ NoResult.reviews = 0
  BY DEF NoResult, ArmResults
<1>2. \A a \in Arms : Nothing[a] = NoResult /\ None[a] = 0
  BY DEF Nothing, None
<1>3. Nothing \in [Arms -> ArmResults] /\ "control" \in Arms
  BY <1>1, ThreeArms DEF Nothing
<1>4. Accounts(Nothing, None)
  BY <1>1, <1>2, <1>3 DEF Accounts
<1>5. Balanced(Nothing)
  <2> DEFINE f == [k \in 0 .. 0 |-> 0]
  <2>1. f \in [0 .. 0 -> Int] /\ f[0] = 0
    OBVIOUS
  <2> HIDE DEF f
  <2>2. RunningSum(f, Nothing)
    BY <1>1, <1>2, <1>3, <2>1 DEF RunningSum
  <2> QED
    BY <1>1, <1>2, <1>3, <2>1, <2>2 DEF Balanced
<1>6. Within(Nothing)
  BY <1>1, <1>2, RunnerAssumption DEF Within
<1> QED
  BY <1>4, <1>5, <1>6 DEF Standing

(***************************************************************************)
(* What is known of the results stays known in a step that puts them in    *)
(* place and leaves the book and the budget.                               *)
(***************************************************************************)
LEMMA StandingMoves ==
  ASSUME NEW rs, NEW n, Standing(rs, n), book' = book, limit' = limit,
         results' = rs, Tally' = n
  PROVE  Standing(results, Tally)'
BY DEF Standing, Accounts, Balanced, RunningSum, Within

(***************************************************************************)
(* Two counts that agree for every arm are one.                            *)
(***************************************************************************)
LEMMA SameCounts ==
  ASSUME NEW m, m = [a \in Arms |-> m[a]], Tally' = [a \in Arms |-> Tally'[a]],
         \A a \in Arms : Tally'[a] = m[a]
  PROVE  Tally' = m
OBVIOUS

(***************************************************************************)
(* All that is known of the results is known of them with this case added. *)
(***************************************************************************)
LEMMA TalliedStands ==
  ASSUME BatchInv, phase = "running", pc = "done"
  PROVE  Standing(Tallied, [Tally EXCEPT ![arm] = at])
BY TalliedAccounts, TalliedBalanced, TalliedWithin DEF Standing

-----------------------------------------------------------------------------
(***************************************************************************)
(* A report is made when every arm has played the whole book: then the     *)
(* running sum ends, for all of them, at what the control arm recovered.   *)
(***************************************************************************)
LEMMA ReportHolds ==
  ASSUME BatchInv, LastCase
  PROVE  /\ Report \in BatchReports
         /\ Incremental(Report.results) /\ Within(Report.results)
         /\ \A a \in Arms : [Tally EXCEPT ![arm] = at][a] = Len(book)
<1> DEFINE n == [Tally EXCEPT ![arm] = at]
<1>1. phase = "running" /\ pc = "done" /\ arm = "agent" /\ at = Len(book)
  BY DEF LastCase
<1>2. Standing(Tallied, n)
  BY <1>1, TalliedStands
<1>3. \A a \in Arms : n[a] = Len(book)
  BY <1>1, TallyNow, ThreeArms DEF Tally, Earlier
<1> HIDE DEF n
<1>4. /\ Tallied \in [Arms -> ArmResults] /\ Within(Tallied)
      /\ \A a \in Arms : Len(Tallied[a].perCase) = Len(book)
      /\ "control" \in Arms
  BY <1>2, <1>3, ThreeArms DEF Standing, Accounts
<1>5. Tallied["control"].attributable = 0
  BY <1>2 DEF Standing, Balanced
<1>6. PICK f \in [0 .. Len(Tallied["control"].perCase) -> Int] :
        RunningSum(f, Tallied)
  BY <1>2 DEF Standing, Balanced
<1>7. \A a \in Arms : Tallied[a].gross - Tallied[a].attributable = f[Len(book)]
  BY <1>4, <1>6 DEF RunningSum
<1>8. Incremental(Tallied)
  <2> SUFFICES ASSUME NEW a \in Arms
               PROVE  Tallied[a].gross - Tallied["control"].gross
                        = Tallied[a].attributable
    BY DEF Incremental
  <2>1. /\ Tallied[a].gross \in Nat /\ Tallied[a].attributable \in Nat
        /\ Tallied["control"].gross \in Nat
    BY <1>4 DEF ArmResults
  <2>2. Tallied[a].gross - Tallied[a].attributable
          = Tallied["control"].gross - Tallied["control"].attributable
    BY <1>4, <1>7
  <2> QED
    BY <1>5, <2>1, <2>2
<1>9. setting \in Settings
  BY DEF BatchInv, Playing, setting
<1>10. Report.results = Tallied /\ Report \in BatchReports
  BY <1>4, <1>9 DEF Report, BatchReports
<1> QED
  BY <1>3, <1>4, <1>8, <1>10 DEF n

(***************************************************************************)
(* The reports, after one more.                                            *)
(***************************************************************************)
LEMMA ReportedMore ==
  ASSUME BatchInv, LastCase, reports' = Append(reports, Report), limit' = limit
  PROVE  Reported'
<1>1. /\ reports \in Seq(BatchReports)
      /\ \A i \in DOMAIN reports :
           Incremental(reports[i].results) /\ Within(reports[i].results)
  BY DEF BatchInv, Reported
<1>2. Report \in BatchReports /\ Incremental(Report.results) /\ Within(Report.results)
  BY ReportHolds
<1> DEFINE rs == Append(reports, Report)
<1>3. /\ rs \in Seq(BatchReports) /\ DOMAIN rs = 1 .. Len(reports) + 1
      /\ DOMAIN reports = 1 .. Len(reports) /\ Len(reports) \in Nat
      /\ rs[Len(reports) + 1] = Report
      /\ \A i \in 1 .. Len(reports) : rs[i] = reports[i]
  BY <1>1, <1>2
<1> HIDE DEF rs
<1>4. \A i \in DOMAIN rs : Incremental(rs[i].results) /\ Within(rs[i].results)
  BY <1>1, <1>2, <1>3
<1>5. reports' = rs
  BY DEF rs
<1> QED
  BY <1>3, <1>4, <1>5 DEF Reported, Incremental, Within

(***************************************************************************)
(* The reports made already stay true.                                     *)
(***************************************************************************)
LEMMA ReportedStill ==
  ASSUME Reported, reports' = reports, limit' = limit
  PROVE  Reported'
BY DEF Reported, Incremental, Within

-----------------------------------------------------------------------------
(***************************************************************************)
(* A batch that starts.                                                    *)
(***************************************************************************)
LEMMA BatchInitInv == BatchInit => BatchInv
<1> SUFFICES ASSUME BatchInit PROVE BatchInv
  OBVIOUS
<1>1. /\ book \in Books /\ agenda \in Agendas /\ at = 1 /\ phase = "running"
      /\ results = Nothing /\ reports = << >> /\ used = 0
      /\ limit = CapacityFor(BookSurface(book), Len(book))
      /\ Begin(Hidden(book[1]), "control")
  BY DEF BatchInit, Nothing
<1>2. /\ Hidden(book[1]) \in Cases /\ limit \in Budgets
      /\ Len(book) \in Nat \ {0} /\ "control" \in Arms
  BY <1>1, BookOf, ThreeArms
<1>3. Init
  BY <1>1, <1>2, RunnerAssumption DEF Init, NoCapacity
<1>4. Loop
  BY <1>3, InitLoop
<1>5. case = Hidden(book[1]) /\ arm = "control" /\ taken = << >>
  BY <1>1 DEF Begin
<1>6. agenda \in Seq(Settings) \ {<< >>}
  BY <1>1, BatchAssumption
<1>7. Playing
  BY <1>1, <1>2, <1>5, <1>6 DEF Playing
<1>8. Tally = None
  BY <1>1, <1>2, <1>5, ThreeArms DEF Tally, None, Earlier
<1>9. Standing(results, Tally)
  BY <1>1, <1>2, <1>8, NothingStands
<1>10. BudgetAccounts(results[arm].reviews)
  <2>1. Executed({"escalate_human"}) = {}
    BY <1>5 DEF Executed
  <2>2. Escalations = 0
    BY <2>1, FS_EmptySet DEF Escalations
  <2>3. results[arm].reviews = 0
    BY <1>1, <1>2, <1>5 DEF Nothing, NoResult
  <2> QED
    BY <1>1, <2>2, <2>3 DEF BudgetAccounts
<1>11. Reported
  BY <1>1 DEF Reported
<1> QED
  BY <1>4, <1>7, <1>9, <1>10, <1>11 DEF BatchInv

(***************************************************************************)
(* A step of the case being played, or its end by an exception, leaves all *)
(* accounts alone.                                                         *)
(***************************************************************************)
LEMMA CaseStepInv ==
  ASSUME BatchInv, Play \/ Fail
  PROVE  BatchInv'
<1>1. /\ Next /\ UNCHANGED <<book, agenda, at, results, reports>>
      /\ phase = "running" /\ phase' \in {"running", "failed"}
  BY PlayIsAStep DEF Play, Fail, batch
<1>2. Loop'
  BY <1>1, StepLoop DEF BatchInv
<1>3. case' = case /\ arm' = arm
  BY <1>1 DEF Next, Advance, Detect, Diagnose, Stop, Permit, Defer, Override,
     Choose, Halt, Act, Record, Observe, Abort, given
<1>4. results[arm].reviews \in Nat
  BY TallyNow, <1>1 DEF BatchInv, Standing, Accounts, ArmResults
<1>5. /\ limit' = limit
      /\ IF limit = NoCapacity THEN used' = 0
         ELSE results[arm].reviews + Escalations' = used'
  BY <1>1, <1>4, StepAccounts DEF BatchInv, Loop
<1>6. Playing'
  BY <1>1, <1>3, <1>5 DEF BatchInv, Playing
<1>7. Tally' = Tally
  BY <1>1, <1>3 DEF Tally
<1>8. Standing(results, Tally)'
  BY <1>1, <1>5, <1>7, StandingMoves DEF BatchInv
<1>9. BudgetAccounts(results[arm].reviews)'
  BY <1>1, <1>3, <1>5 DEF BudgetAccounts
<1>10. Reported'
  BY <1>1, <1>5, ReportedStill DEF BatchInv
<1> QED
  BY <1>2, <1>6, <1>8, <1>9, <1>10 DEF BatchInv

(***************************************************************************)
(* How the count of cases moves: the case just finished is counted for its *)
(* arm, whether another case, another arm or nothing follows.              *)
(***************************************************************************)
LEMMA TallyNextCase ==
  ASSUME BatchInv, NextCase
  PROVE  Tally' = [Tally EXCEPT ![arm] = at]
<1> DEFINE m == [Tally EXCEPT ![arm] = at]
<1>1. /\ phase = "running" /\ phase' = phase /\ at' = at + 1 /\ book' = book
      /\ arm' = arm /\ arm \in Arms /\ at \in 1 .. Len(book)
  BY TallyNow DEF NextCase, Launch
<1>2. m = [a \in Arms |-> m[a]] /\ Tally' = [a \in Arms |-> Tally'[a]]
  BY DEF Tally
<1>3. \A a \in Arms : m[a] = IF a = arm THEN at
                              ELSE IF Earlier(a, arm) THEN Len(book) ELSE 0
  BY <1>1 DEF Tally
<1>4. \A a \in Arms : Tally'[a] = IF Earlier(a, arm) THEN Len(book)
                                   ELSE IF a = arm THEN at ELSE 0
  <2>1. (at + 1) - 1 = at
    BY <1>1
  <2> QED
    BY <1>1, <2>1 DEF Tally, Earlier
<1>5. ~Earlier(arm, arm)
  BY <1>1 DEF Earlier
<1> HIDE DEF m
<1>6. \A a \in Arms : Tally'[a] = m[a]
  BY <1>3, <1>4, <1>5
<1> QED
  BY <1>2, <1>6, SameCounts DEF m

(***************************************************************************)
(* So when the next arm starts, ...                                        *)
(***************************************************************************)
LEMMA TallyNextArm ==
  ASSUME BatchInv, NextArm
  PROVE  Tally' = [Tally EXCEPT ![arm] = at]
<1> DEFINE m == [Tally EXCEPT ![arm] = at]
<1>1. /\ phase = "running" /\ phase' = phase /\ at = Len(book) /\ at' = 1
      /\ book' = book /\ arm # "agent" /\ arm' = ArmAfter[arm] /\ arm \in Arms
  BY TallyNow DEF NextArm, Launch
<1>2. \/ arm = "control" /\ ArmAfter[arm] = "naive"
      \/ arm = "naive" /\ ArmAfter[arm] = "agent"
  BY <1>1, ThreeArms DEF ArmAfter
<1>3. m = [a \in Arms |-> m[a]] /\ Tally' = [a \in Arms |-> Tally'[a]]
  BY DEF Tally
<1>4. \A a \in Arms : m[a] = IF a = arm \/ Earlier(a, arm) THEN Len(book) ELSE 0
  BY <1>1 DEF Tally
<1>5. \A a \in Arms : Tally'[a] = IF Earlier(a, ArmAfter[arm]) THEN Len(book)
                                                               ELSE 0
  BY <1>1 DEF Tally, Earlier
<1>6. \A a \in Arms : Earlier(a, ArmAfter[arm]) <=> a = arm \/ Earlier(a, arm)
  BY <1>2, ThreeArms DEF Earlier
<1> HIDE DEF m
<1>7. \A a \in Arms : Tally'[a] = m[a]
  BY <1>4, <1>5, <1>6
<1> QED
  BY <1>3, <1>7, SameCounts DEF m

(***************************************************************************)
(* ... and when the last batch is reported.                                *)
(***************************************************************************)
LEMMA TallyConclude ==
  ASSUME BatchInv, Conclude
  PROVE  Tally' = [Tally EXCEPT ![arm] = at]
<1> DEFINE m == [Tally EXCEPT ![arm] = at]
<1>1. LastCase /\ phase' = "reported" /\ book' = book
  BY DEF Conclude
<1>2. m = [a \in Arms |-> m[a]] /\ Tally' = [a \in Arms |-> Tally'[a]]
  BY DEF Tally
<1>3. \A a \in Arms : m[a] = Len(book)
  BY <1>1, ReportHolds
<1>4. \A a \in Arms : Tally'[a] = Len(book)
  BY <1>1 DEF Tally
<1> HIDE DEF m
<1>5. \A a \in Arms : Tally'[a] = m[a]
  BY <1>3, <1>4
<1> QED
  BY <1>2, <1>5, SameCounts DEF m

(***************************************************************************)
(* and a batch that follows another counts from nothing.                   *)
(***************************************************************************)
LEMMA TallyNextBatch ==
  ASSUME NextBatch
  PROVE  Tally' = None
<1>1. phase' = "running" /\ at' = 1 /\ arm' = "control" /\ book' = book
  BY DEF NextBatch, LastCase, Launch
<1> QED
  BY <1>1, ThreeArms DEF Tally, None, Earlier

(***************************************************************************)
(* A case is finished and the next one of the arm launched.  It inherits   *)
(* what is left of the budget, which is what the results account for.      *)
(***************************************************************************)
LEMMA NextCaseInv ==
  ASSUME BatchInv, NextCase
  PROVE  BatchInv'
<1>1. /\ phase = "running" /\ pc = "done" /\ at < Len(book)
      /\ results' = Tallied /\ at' = at + 1 /\ Launch(book[at + 1], arm)
      /\ UNCHANGED <<limit, used, book, agenda, reports, phase>>
  BY DEF NextCase
<1>2. /\ arm \in Arms /\ at \in 1 .. Len(book) /\ Len(book) \in Nat
      /\ Playing /\ Loop
  BY <1>1, TallyNow DEF BatchInv
<1>3. Hidden(book[at + 1]) \in Cases /\ limit \in Budgets /\ at + 1 \in 1 .. Len(book)
  BY <1>1, <1>2, BookOf DEF Playing
<1>4. /\ results[arm].reviews \in Nat /\ BudgetAccounts(results[arm].reviews)
      /\ Escalations \in Nat
  BY <1>1, <1>2, ExecutedCounted
     DEF BatchInv, Standing, Accounts, ArmResults, Loop, Escalations
<1>5. used \in IF limit = NoCapacity THEN {0} ELSE 0 .. limit
  BY <1>2, <1>3, <1>4, RunnerAssumption
     DEF BudgetAccounts, Loop, PermitInv, ReviewBudgetHolds, TypeInv, TypeOK
<1>6. /\ Loop' /\ case' = Hidden(book[at + 1]) /\ arm' = arm
      /\ Escalations' = 0
  BY <1>1, <1>2, <1>3, <1>5, LaunchLoop
<1>7. Playing'
  BY <1>1, <1>2, <1>3, <1>6 DEF Playing
<1>8. Tally' = [Tally EXCEPT ![arm] = at]
  BY TallyNextCase
<1>9. Standing(results, Tally)'
  BY <1>1, <1>8, TalliedStands, StandingMoves
<1>10. results'[arm'].reviews = results[arm].reviews + Escalations
  BY <1>1, <1>6, TalliedArm
<1>11. BudgetAccounts(results[arm].reviews)'
  BY <1>1, <1>4, <1>6, <1>10 DEF BudgetAccounts
<1>12. Reported'
  BY <1>1, ReportedStill DEF BatchInv
<1> QED
  BY <1>6, <1>7, <1>9, <1>11, <1>12 DEF BatchInv

(***************************************************************************)
(* The next arm starts on the first case with a budget of its own.         *)
(***************************************************************************)
LEMMA NextArmInv ==
  ASSUME BatchInv, NextArm
  PROVE  BatchInv'
<1>1. /\ phase = "running" /\ pc = "done" /\ at = Len(book) /\ arm # "agent"
      /\ results' = Tallied /\ at' = 1 /\ Launch(book[1], ArmAfter[arm])
      /\ used' = 0 /\ UNCHANGED <<limit, book, agenda, reports, phase>>
  BY DEF NextArm
<1>2. /\ arm \in Arms /\ Len(book) \in Nat \ {0} /\ Playing
  BY <1>1, TallyNow, BookOf DEF BatchInv, Playing
<1>3. \/ arm = "control" /\ ArmAfter[arm] = "naive"
      \/ arm = "naive" /\ ArmAfter[arm] = "agent"
  BY <1>1, <1>2, ThreeArms DEF ArmAfter
<1>4. /\ Hidden(book[1]) \in Cases /\ limit \in Budgets
      /\ ArmAfter[arm] \in Arms
  BY <1>2, <1>3, BookOf, ThreeArms DEF Playing
<1>5. used' \in IF limit' = NoCapacity THEN {0} ELSE 0 .. limit'
  BY <1>1, <1>4, RunnerAssumption DEF NoCapacity
<1>6. /\ Loop' /\ case' = Hidden(book[1]) /\ arm' = ArmAfter[arm]
      /\ Escalations' = 0
  BY <1>1, <1>4, <1>5, LaunchLoop
<1>7. Playing'
  BY <1>1, <1>2, <1>6 DEF Playing
<1>8. Tally' = [Tally EXCEPT ![arm] = at]
  BY TallyNextArm
<1>9. Standing(results, Tally)'
  BY <1>1, <1>8, TalliedStands, StandingMoves
<1>10. Tally'[arm'] = 0 /\ arm' \in Arms
  BY <1>1, <1>4, <1>6, ThreeArms DEF Tally, Earlier
<1>11. results'[arm'].reviews = 0
  BY <1>9, <1>10 DEF Standing, Accounts
<1>12. BudgetAccounts(results[arm].reviews)'
  BY <1>1, <1>6, <1>11 DEF BudgetAccounts
<1>13. Reported'
  BY <1>1, ReportedStill DEF BatchInv
<1> QED
  BY <1>6, <1>7, <1>9, <1>12, <1>13 DEF BatchInv

(***************************************************************************)
(* The batch is reported and the next one on the agenda starts from        *)
(* nothing.                                                                *)
(***************************************************************************)
LEMMA NextBatchInv ==
  ASSUME BatchInv, NextBatch
  PROVE  BatchInv'
<1>1. /\ phase = "running" /\ LastCase /\ Len(agenda) > 1
      /\ reports' = Append(reports, Report) /\ agenda' = Tail(agenda)
      /\ results' = Nothing /\ at' = 1 /\ Launch(book[1], "control")
      /\ used' = 0 /\ UNCHANGED <<limit, book, phase>>
  BY DEF NextBatch, LastCase, Nothing
<1>2. /\ Len(book) \in Nat \ {0} /\ Playing
      /\ Hidden(book[1]) \in Cases /\ limit \in Budgets
      /\ "control" \in Arms
  BY <1>1, BookOf, ThreeArms DEF BatchInv, Playing
<1>3. used' \in IF limit' = NoCapacity THEN {0} ELSE 0 .. limit'
  BY <1>1, <1>2, RunnerAssumption DEF NoCapacity
<1>4. /\ Loop' /\ case' = Hidden(book[1]) /\ arm' = "control"
      /\ Escalations' = 0
  BY <1>1, <1>2, <1>3, LaunchLoop
<1>5. Tail(agenda) \in Seq(Settings) \ {<< >>}
  BY <1>1, <1>2, TailOf DEF Playing
<1>6. Playing'
  BY <1>1, <1>2, <1>4, <1>5 DEF Playing
<1>7. Tally' = None
  BY TallyNextBatch
<1>8. Standing(results, Tally)'
  BY <1>1, <1>2, <1>7, NothingStands, StandingMoves DEF Playing
<1>9. BudgetAccounts(results[arm].reviews)'
  <2>1. results'[arm'].reviews = 0
    BY <1>1, <1>2, <1>4 DEF Nothing, NoResult
  <2> QED
    BY <1>1, <1>4, <2>1 DEF BudgetAccounts
<1>10. Reported'
  BY <1>1, ReportedMore
<1> QED
  BY <1>4, <1>6, <1>8, <1>9, <1>10 DEF BatchInv

(***************************************************************************)
(* The facts about the loop hold on while the loop stands still.           *)
(***************************************************************************)
LEMMA LoopStill == Loop /\ UNCHANGED vars => Loop'
<1> SUFFICES ASSUME Loop, UNCHANGED vars PROVE Loop'
  OBVIOUS
<1>1. TypeInv' /\ PermitInv'
  BY StepTyped, StepPermit DEF Loop
<1>2. ControlRests' /\ OutcomeSettled'
  BY DEF Loop, ControlRests, OutcomeSettled, vars
<1> QED
  BY <1>1, <1>2 DEF Loop

(***************************************************************************)
(* The last case of the last arm is counted and the batch reported.        *)
(***************************************************************************)
LEMMA ConcludeInv ==
  ASSUME BatchInv, Conclude
  PROVE  BatchInv'
<1>1. /\ phase = "running" /\ pc = "done" /\ LastCase
      /\ reports' = Append(reports, Report) /\ results' = Tallied
      /\ phase' = "reported" /\ UNCHANGED <<vars, book, agenda, at>>
  BY DEF Conclude, LastCase
<1>2. UNCHANGED <<limit, arm, case>>
  BY <1>1 DEF vars
<1>3. Loop'
  BY <1>1, LoopStill DEF BatchInv
<1>4. Playing'
  BY <1>1, <1>2 DEF BatchInv, Playing
<1>5. Tally' = [Tally EXCEPT ![arm] = at]
  BY TallyConclude
<1>6. Standing(results, Tally)'
  BY <1>1, <1>2, <1>5, TalliedStands, StandingMoves
<1>7. Reported'
  BY <1>1, <1>2, ReportedMore
<1> QED
  BY <1>1, <1>3, <1>4, <1>6, <1>7 DEF BatchInv

(***************************************************************************)
(* The invariant is inductive.                                             *)
(***************************************************************************)
LEMMA BatchStepInv ==
  ASSUME BatchInv, [BatchNext]_everything
  PROVE  BatchInv'
<1>1. CASE UNCHANGED everything
  <2>1. /\ UNCHANGED <<vars, book, agenda, at, results, reports, phase>>
        /\ UNCHANGED <<limit, used, arm, case, taken>>
    BY <1>1 DEF everything, batch, vars
  <2>2. Loop' /\ Playing'
    BY <2>1, LoopStill DEF BatchInv, Playing
  <2>3. Tally' = Tally
    BY <2>1 DEF Tally
  <2>4. Standing(results, Tally)' /\ Reported'
    BY <2>1, <2>3, StandingMoves, ReportedStill DEF BatchInv
  <2>5. Escalations' = Escalations
    BY <2>1 DEF Escalations, Executed
  <2>6. (phase # "reported" => BudgetAccounts(results[arm].reviews))'
    BY <2>1, <2>5 DEF BatchInv, BudgetAccounts
  <2> QED
    BY <2>2, <2>4, <2>6 DEF BatchInv
<1>2. CASE Play \/ Fail
  BY <1>2, CaseStepInv
<1>3. CASE NextCase
  BY <1>3, NextCaseInv
<1>4. CASE NextArm
  BY <1>4, NextArmInv
<1>5. CASE NextBatch
  BY <1>5, NextBatchInv
<1>6. CASE Conclude
  BY <1>6, ConcludeInv
<1> QED
  BY <1>1, <1>2, <1>3, <1>4, <1>5, <1>6 DEF BatchNext, Proceed

(***************************************************************************)
(* The invariant holds in every state of every program of batches.         *)
(***************************************************************************)
LEMMA BatchInvHolds == BatchSpec => []BatchInv
BY BatchInitInv, BatchStepInv, PTL DEF BatchSpec

-----------------------------------------------------------------------------
(***************************************************************************)
(* Every state of a batch is typed: the loop, the results of every arm and *)
(* the reports.                                                            *)
(***************************************************************************)
THEOREM BatchTypeCorrect == BatchSpec => []BatchTypeOK
<1>1. BatchInv => BatchTypeOK
  <2> SUFFICES ASSUME BatchInv PROVE BatchTypeOK
    OBVIOUS
  <2>1. TypeOK /\ Playing /\ Reported /\ results \in [Arms -> ArmResults]
    BY DEF BatchInv, Loop, TypeInv, Standing, Accounts
  <2>2. at \in DOMAIN book
    BY <2>1, BookOf DEF Playing
  <2> QED
    BY <2>1, <2>2 DEF BatchTypeOK, Playing, Reported
<1> QED
  BY <1>1, BatchInvHolds, PTL

(***************************************************************************)
(* On every case, what an arm recovered beyond the control arm is what it  *)
(* caused: both arms were played against one draw of what happens by       *)
(* itself.                                                                 *)
(***************************************************************************)
THEOREM DeltasArePaired == BatchSpec => []PairedDeltas
<1>1. BatchInv => PairedDeltas
  <2> SUFFICES ASSUME BatchInv, NEW a \in Arms,
                      NEW i \in DOMAIN results[a].perCase
               PROVE  /\ i \in DOMAIN results["control"].perCase
                      /\ results[a].perCase[i].recovered
                           - results["control"].perCase[i].recovered
                             = IF results[a].perCase[i].attributable
                               THEN results[a].perCase[i].recovered ELSE 0
    BY DEF PairedDeltas
  <2> DEFINE mine == results[a].perCase[i]
             none == results["control"].perCase[i]
  <2>1. Accounts(results, Tally) /\ book \in Books /\ at \in 1 .. Len(book)
        /\ Len(book) \in Nat /\ arm \in Arms
    BY BookOf DEF BatchInv, Standing, Playing, Loop, TypeInv, TypeOK
  <2>2. results[a] \in ArmResults /\ results["control"] \in ArmResults
        /\ "control" \in Arms
    BY <2>1, ThreeArms DEF Accounts
  <2>3. /\ DOMAIN results[a].perCase = 1 .. Tally[a]
        /\ DOMAIN results["control"].perCase = 1 .. Tally["control"]
    <3>1. /\ results[a].perCase \in Seq(PlayedCases)
          /\ results["control"].perCase \in Seq(PlayedCases)
      BY <2>2 DEF ArmResults
    <3> QED
      BY <2>1, <2>2, <3>1 DEF Accounts
  <2>4. Tally[a] <= Tally["control"] /\ Tally[a] \in Nat /\ Tally["control"] \in Nat
    BY <2>1, ThreeArms DEF Tally, Earlier
  <2>5. i \in 1 .. Tally[a] /\ i \in 1 .. Tally["control"]
    BY <2>3, <2>4
  <2>6. Settled(Hidden(book[i]), mine, a) /\ Settled(Hidden(book[i]), none, "control")
    BY <2>1, <2>2, <2>5 DEF Accounts
  <2>7. mine.recovered \in Nat /\ none.recovered \in Nat
    <3>1. /\ results[a].perCase \in Seq(PlayedCases)
          /\ results["control"].perCase \in Seq(PlayedCases)
      BY <2>2 DEF ArmResults
    <3>2. mine \in PlayedCases /\ none \in PlayedCases
      BY <2>3, <2>5, <3>1, ElementsOf
    <3> QED
      BY <3>2 DEF PlayedCases
  <2> HIDE DEF mine, none
  <2>8. CASE mine.attributable
    <3>1. none.recovered = 0
      BY <2>6, <2>8 DEF Settled
    <3> QED
      BY <2>3, <2>5, <2>7, <2>8, <3>1 DEF mine, none
  <2>9. CASE ~mine.attributable
    <3>1. none.recovered = mine.recovered
      BY <2>6, <2>9 DEF Settled
    <3>2. mine.recovered - none.recovered = 0
      BY <2>7, <3>1
    <3> QED
      BY <2>3, <2>5, <2>9, <3>2 DEF mine, none
  <2> QED
    BY <2>8, <2>9
<1> QED
  BY <1>1, BatchInvHolds, PTL

(***************************************************************************)
(* The two ways to measure an arm agree in every report, for every book:   *)
(* its recovery above the control arm's is the sum of the recoveries it is *)
(* credited with.                                                          *)
(***************************************************************************)
THEOREM AttributionMeasuresIncrement == BatchSpec => []AttributionIsIncrement
<1>1. BatchInv => AttributionIsIncrement
  BY DEF BatchInv, Reported, Incremental, AttributionIsIncrement
<1> QED
  BY <1>1, BatchInvHolds, PTL

(***************************************************************************)
(* The review budget is one for all cases of an arm and is never exceeded, *)
(* in whichever order the cases come.                                      *)
(***************************************************************************)
THEOREM ReviewsRationed == BatchSpec => []ReviewsAreRationed
<1>1. BatchInv => ReviewsAreRationed
  BY DEF BatchInv, Playing, Standing, Reported, Within, ReviewsAreRationed
<1> QED
  BY <1>1, BatchInvHolds, PTL

-----------------------------------------------------------------------------
(***************************************************************************)
(* The lead of the agent over the naive arm falls on a line: what it is    *)
(* behind when messages are free, made up for message by message.          *)
(***************************************************************************)
LEMMA LeadIsALine ==
  ASSUME NEW rs \in [Arms -> ArmResults], NEW c \in Nat
  PROVE  /\ NetAt(rs, "agent", c) - NetAt(rs, "naive", c)
              = ContactGap(rs) * c - ValueGap(rs)
         /\ NetAt(rs, "agent", 0) - NetAt(rs, "naive", 0) = 0 - ValueGap(rs)
         /\ ContactGap(rs) \in Int /\ ValueGap(rs) \in Int
<1>1. {"agent", "naive", "control"} \subseteq Arms
  BY ThreeArms
<1>2. \A a \in Arms : /\ rs[a].gross \in Nat /\ rs[a].cost \in Nat
                       /\ rs[a].discretionary \in Nat
  BY DEF ArmResults
<1> DEFINE A == rs["agent"].discretionary
           B == rs["naive"].discretionary
<1>3. A \in Nat /\ B \in Nat /\ A * 0 = 0 /\ B * 0 = 0
  BY <1>1, <1>2
<1>4. A * c \in Int /\ B * c \in Int /\ (B - A) * c = B * c - A * c
  BY <1>3
<1> QED
  BY <1>1, <1>2, <1>3, <1>4 DEF NetAt, ContactGap, ValueGap

(***************************************************************************)
(* Where that line crosses zero is the break-even, at every price of the   *)
(* sweep and for every report.                                             *)
(***************************************************************************)
THEOREM BreakEvenCrosses == BatchSpec => []BreakEvenIsTheCrossing
<1>1. BatchInv => BreakEvenIsTheCrossing
  <2> SUFFICES ASSUME BatchInv, NEW i \in DOMAIN reports, NEW c \in SweepCosts
               PROVE  LET rs   == reports[i].results
                          even == BreakEven(rs)
                          lead == NetAt(rs, "agent", c) - NetAt(rs, "naive", c)
                      IN IF even = NoBreakEven
                         THEN lead <= NetAt(rs, "agent", 0) - NetAt(rs, "naive", 0)
                         ELSE /\ c * even.per > even.paise => lead > 0
                              /\ c * even.per < even.paise => lead < 0
    BY DEF BreakEvenIsTheCrossing
  <2> DEFINE rs   == reports[i].results
             even == BreakEven(rs)
             lead == NetAt(rs, "agent", c) - NetAt(rs, "naive", c)
             gap  == ContactGap(rs)
             loss == ValueGap(rs)
  <2>1. rs \in [Arms -> ArmResults]
    <3>1. reports \in Seq(BatchReports)
      BY DEF BatchInv, Reported
    <3>2. reports[i] \in BatchReports
      BY <3>1, ElementsOf
    <3> QED
      BY <3>2 DEF BatchReports
  <2>2. c \in Nat
    BY DEF SweepCosts
  <2>3. /\ lead = gap * c - loss
        /\ NetAt(rs, "agent", 0) - NetAt(rs, "naive", 0) = 0 - loss
        /\ gap \in Int /\ loss \in Int
    BY <2>1, <2>2, LeadIsALine
  <2>4. CASE gap <= 0
    <3>1. even = NoBreakEven
      BY <2>3, <2>4 DEF BreakEven
    <3>2. gap * c <= 0
      BY <2>2, <2>3, <2>4
    <3> QED
      BY <2>2, <2>3, <3>1, <3>2
  <2>5. CASE gap > 0 /\ loss <= 0
    <3>1. even = [paise |-> 0, per |-> 1] /\ even # NoBreakEven
      BY <2>3, <2>5 DEF BreakEven, NoBreakEven
    <3>2. c > 0 => gap * c > 0
      BY <2>2, <2>3, <2>5
    <3>3. /\ c * even.per > even.paise => lead > 0
          /\ c * even.per < even.paise => lead < 0
      BY <2>2, <2>3, <2>5, <3>1, <3>2
    <3> QED
      BY <3>1, <3>3
  <2>6. CASE gap > 0 /\ loss > 0
    <3>1. even = [paise |-> loss, per |-> gap] /\ even # NoBreakEven
      BY <2>3, <2>6 DEF BreakEven, NoBreakEven
    <3>2. c * gap = gap * c /\ gap * c \in Int
      BY <2>2, <2>3
    <3>3. /\ c * even.per > even.paise => lead > 0
          /\ c * even.per < even.paise => lead < 0
      BY <2>3, <3>1, <3>2
    <3> QED
      BY <3>1, <3>3
  <2> QED
    BY <2>3, <2>4, <2>5, <2>6
<1> QED
  BY <1>1, BatchInvHolds, PTL

-----------------------------------------------------------------------------
(***************************************************************************)
(* An action is never dated before the failure it answers.                 *)
(***************************************************************************)
OnTime == pc = "act" => chosen.at >= case.event.occurred

(***************************************************************************)
(* What is proposed is due after the failure.                              *)
(***************************************************************************)
LEMMA OfferOnTime ==
  ASSUME TypeInv, ContextInv, Deciding
  PROVE  /\ Offer \in Proposals
         /\ Offer.at >= case.event.occurred
         /\ case.event.occurred \in Nat
<1>1. working.occurred = case.event.occurred
  BY CurrentFields DEF ContextInv, ContextIsCurrent, CurrentReads, Deciding
<1>2. Plan[step + 1] \in Steps
  <2>1. Plan \in Seq(Steps)
    BY PlanTyped DEF TypeInv
  <2>2. step \in Nat /\ step < Len(Plan)
    BY <2>1 DEF TypeInv, TypeOK, Deciding, Exhausted, StepLimit
  <2> QED
    BY <2>1, <2>2
<1>3. working \in Events /\ diagnosis \in Diagnoses
  BY DEF TypeInv, TypeOK
<1>4. /\ working.occurred \in Nat /\ Plan[step + 1].after \in Nat
      /\ diagnosis.promise # NoPromise => diagnosis.promise \in Nat
  BY <1>2, <1>3 DEF Events, Steps, Diagnoses
<1>5. /\ Anchor(working, diagnosis, Plan[step + 1]) \in Nat
      /\ Anchor(working, diagnosis, Plan[step + 1]) >= working.occurred
  BY <1>4 DEF Anchor
<1>6. Offer.at = Anchor(working, diagnosis, Plan[step + 1]) + Plan[step + 1].after
  BY DEF Offer, Propose
<1>7. Offer \in Proposals
  BY OfferTyped DEF TypeInv, Deciding
<1> QED
  BY <1>1, <1>4, <1>5, <1>6, <1>7

(***************************************************************************)
(* Every step keeps the actions after the failure; the engine defers, and  *)
(* never advances, a message.                                              *)
(***************************************************************************)
LEMMA StepOnTime ==
  ASSUME TypeInv, ContextInv, OnTime, [Next]_vars
  PROVE  OnTime'
<1>1. CASE Permit \/ Override
  <2>1. Deciding /\ chosen' = Offer /\ case' = case
    BY <1>1 DEF Permit, Override, Choose, given
  <2> QED
    BY <2>1, OfferOnTime DEF OnTime
<1>2. CASE Defer
  <2>1. Deciding /\ chosen' = Substitute(Offer) /\ case' = case
    BY <1>2 DEF Defer, Choose, given
  <2>2. QuietBlocks(Offer)
    <3>1. "contact.quiet_hours"
            \in Blocking(working, diagnosis, Offer, used, limit)
      BY <1>2 DEF Defer, HasSubstitute, Refused
    <3> QED
      BY <3>1, BlockingCites
  <2>3. Offer \in Proposals /\ Offer.at \in Nat /\ InQuietHours(Offer.at)
    BY <2>1, <2>2, OfferOnTime DEF Proposals, QuietBlocks
  <2>4. chosen'.at >= Offer.at /\ chosen'.at \in Nat
    BY <2>1, <2>3, SubstituteTyped, DeferralAwake
  <2> QED
    BY <2>1, <2>3, <2>4, OfferOnTime DEF OnTime
<1>3. CASE ~(Permit \/ Override \/ Defer)
  BY <1>3 DEF OnTime, Next, Advance, Detect, Diagnose, Stop, Halt, Act, Record,
     Observe, Abort, vars
<1> QED
  BY <1>1, <1>2, <1>3

-----------------------------------------------------------------------------
(***************************************************************************)
(* A batch plays Runner: a case is begun as Runner begins one, and what    *)
(* happens until the next is begun are steps of Runner.                    *)
(***************************************************************************)
LEMMA LaunchBegins ==
  ASSUME NEW d, NEW a, Launch(d, a), Loop', BudgetAccounts(results[arm].reviews)'
  PROVE  Init'
<1>1. case' \in Cases /\ arm' \in Arms /\ limit' \in Budgets /\ used' \in Nat
  BY DEF Loop, TypeInv, TypeOK
<1>2. Begin(case, arm)'
  BY DEF Launch, Begin, Hidden
<1>3. (\E c \in Cases, b \in Arms : Begin(c, b))'
  BY <1>1, <1>2
<1>4. used' \in IF limit' = NoCapacity THEN {0} ELSE 0 .. limit'
  <2>1. limit' = NoCapacity => used' = 0
    BY DEF BudgetAccounts
  <2>2. limit' # NoCapacity => used' <= limit' /\ limit' \in Nat
    BY <1>1, RunnerAssumption DEF Loop, PermitInv, ReviewBudgetHolds
  <2> QED
    BY <1>1, <2>1, <2>2
<1> QED
  BY <1>1, <1>3, <1>4 DEF Init

(***************************************************************************)
(* A step of a batch is a step of Runner, or Runner begins again.          *)
(***************************************************************************)
LEMMA BatchStepRuns ==
  ASSUME BatchInv, BatchInv', [BatchNext]_everything
  PROVE  [Next]_vars \/ (Init /\ phase = "running")'
<1>1. CASE Play \/ Fail
  BY <1>1, PlayIsAStep
<1>2. CASE NextCase \/ NextArm \/ NextBatch
  <2>1. phase' = "running"
    BY <1>2 DEF NextCase, NextArm, NextBatch, LastCase
  <2>2. PICK d, a : Launch(d, a)
    BY <1>2 DEF NextCase, NextArm, NextBatch
  <2> QED
    BY <2>1, <2>2, LaunchBegins DEF BatchInv
<1>3. CASE Conclude \/ UNCHANGED everything
  BY <1>3 DEF Conclude, everything
<1> QED
  BY <1>1, <1>2, <1>3 DEF BatchNext, Proceed

(***************************************************************************)
(* A batch starts in a state Runner may start in.                          *)
(***************************************************************************)
LEMMA BatchInitRuns == BatchInit => Init
<1> SUFFICES ASSUME BatchInit PROVE Init
  OBVIOUS
<1>1. book \in Books /\ Begin(Hidden(book[1]), "control") /\ used = 0
      /\ limit = CapacityFor(BookSurface(book), Len(book))
  BY DEF BatchInit
<1>2. Hidden(book[1]) \in Cases /\ limit \in Budgets /\ "control" \in Arms
  BY <1>1, BookOf, ThreeArms
<1>3. used \in IF limit = NoCapacity THEN {0} ELSE 0 .. limit
  BY <1>1, <1>2, RunnerAssumption DEF NoCapacity
<1> QED
  BY <1>1, <1>2, <1>3 DEF Init

(***************************************************************************)
(* So the invariants of Runner hold in every batch.                        *)
(***************************************************************************)
RunInv == ContextInv /\ CustomerInv /\ ReplayInv /\ OnTime

(***************************************************************************)
(* They hold where a case begins, ...                                      *)
(***************************************************************************)
LEMMA InitRun == Init => RunInv
<1>1. Init => OnTime
  BY DEF Init, Begin, OnTime
<1> QED
  BY <1>1, InitContext, InitCustomer, InitReplay DEF RunInv

(***************************************************************************)
(* ... are kept by every step of the loop, ...                             *)
(***************************************************************************)
LEMMA StepRun ==
  ASSUME Loop, Loop', RunInv, [Next]_vars
  PROVE  RunInv'
<1>1. ContextInv'
  BY StepContext DEF Loop, RunInv
<1>2. CustomerInv'
  BY StepCustomer DEF Loop, RunInv
<1>3. ReplayInv'
  BY StepReplay DEF Loop, RunInv
<1>4. OnTime'
  BY StepOnTime DEF Loop, RunInv
<1> QED
  BY <1>1, <1>2, <1>3, <1>4 DEF RunInv

(***************************************************************************)
(* ... and so by every step of a batch, ...                                *)
(***************************************************************************)
LEMMA BatchStepRun ==
  ASSUME BatchInv, BatchInv', RunInv, [BatchNext]_everything
  PROVE  RunInv'
<1>1. CASE [Next]_vars
  BY <1>1, StepRun DEF BatchInv
<1>2. CASE Init'
  <2>1. (Init => RunInv)'
    BY InitRun, PTL
  <2> QED
    BY <1>2, <2>1
<1> QED
  BY <1>1, <1>2, BatchStepRuns

(***************************************************************************)
(* ... and hold throughout.                                                *)
(***************************************************************************)
LEMMA BatchRuns == BatchSpec => []RunInv
<1>1. BatchInit => RunInv
  BY BatchInitRuns, InitRun
<1>2. BatchInv /\ BatchInv' /\ RunInv /\ [BatchNext]_everything => RunInv'
  BY BatchStepRun
<1> QED
  BY <1>1, <1>2, BatchInvHolds, PTL DEF BatchSpec

(***************************************************************************)
(* What a batch does to a case is what Runner does: every behaviour of     *)
(* Batch, read in the variables of Runner alone, is a sequence of          *)
(* behaviours of Runner, one case after the other, each begun as Runner    *)
(* begins one.                                                             *)
(***************************************************************************)
THEOREM BatchPlaysTheLoop == BatchSpec => [][Next \/ Init']_vars
<1>1. BatchInv /\ BatchInv' /\ [BatchNext]_everything => [Next \/ Init']_vars
  BY BatchStepRuns
<1> QED
  BY <1>1, BatchInvHolds, PTL DEF BatchSpec

-----------------------------------------------------------------------------
(***************************************************************************)
(* The causes of a surface are the rows of its table.                      *)
(***************************************************************************)
LEMMA CausesOf ==
  /\ DOMAIN SurfaceBehaviour["payments"] = PaymentCauses
  /\ DOMAIN SurfaceBehaviour["subscriptions"] =
       {"mandate_balance_low", "insufficient_funds", "bank_downtime",
        "technical_gateway", "mandate_revoked", "expired_instrument"}
  /\ DOMAIN SurfaceBehaviour["receivables"] = InvoiceCauses \cup {"unknown"}
BY DEF SurfaceBehaviour, PaymentBehaviour, SubscriptionBehaviour,
       ReceivableBehaviour, PaymentCauses, InvoiceCauses

(***************************************************************************)
(* What is dealt.                                                          *)
(***************************************************************************)
LEMMA DealtOf ==
  ASSUME Playing
  PROVE  /\ dealt \in DealtCases /\ Generated(dealt)
         /\ case = Hidden(dealt)
<1>1. at \in 1 .. Len(book) /\ book \in Books /\ case = Hidden(book[at])
  BY DEF Playing
<1>2. book \in Seq(DealtCases) /\ DOMAIN book = 1 .. Len(book)
  BY <1>1, BookOf
<1>3. book[at] \in DealtCases
  BY <1>1, <1>2
<1>4. Generated(book[at])
  BY <1>1, <1>2, BatchAssumption
<1> QED
  BY <1>1, <1>3, <1>4 DEF dealt

(***************************************************************************)
(* What the rule table makes of a reason and a source.                     *)
(***************************************************************************)
Read(cause, confidence) == [cause |-> cause, confidence |-> confidence,
                            path |-> "rule", promise |-> NoPromise]

(***************************************************************************)
(* A reason the table maps is read as its cause, as sure as reason and     *)
(* source together make it.                                                *)
(***************************************************************************)
LEMMA ReasonRead ==
  ASSUME NEW reason \in DOMAIN ReasonMap \ GenericReasons, NEW source
  PROVE  LET cause == ReasonMap[reason].cause
             sum   == ReasonMap[reason].confidence + Corroboration(source, cause)
         IN ReadCodes(Reports(reason, source)) =
              Read(cause, IF sum > 99 THEN 99 ELSE sum)
BY DEF ReadCodes, Reports, Read

(***************************************************************************)
(* The rows of REASON_MAP for the reasons that are generated, of           *)
(* SOURCE_CORROBORATION for the sources they come with, and of what the    *)
(* generator reports for each cause.                                       *)
(***************************************************************************)
LEMMA ReasonsMean ==
  /\ ReasonMap["insufficient_funds"] = Means("insufficient_funds", 96)
  /\ ReasonMap["card_expired"] = Means("expired_instrument", 98)
  /\ ReasonMap["card_blocked"] = Means("issuer_decline_hard", 94)
  /\ ReasonMap["payment_declined_by_issuer"] = Means("issuer_decline_soft", 80)
  /\ ReasonMap["international_transaction_not_allowed"] =
       Means("international_blocked", 96)
  /\ ReasonMap["bank_technical_error"] = Means("bank_downtime", 90)
  /\ ReasonMap["gateway_technical_error"] = Means("technical_gateway", 90)
  /\ ReasonMap["payment_authentication_failed"] =
       Means("authentication_dropoff", 86)
  /\ ReasonMap["payment_cancelled_by_customer"] = Means("customer_abandoned", 93)
  /\ ReasonMap["mandate_insufficient_balance"] = Means("mandate_balance_low", 93)
  /\ ReasonMap["mandate_revoked"] = Means("mandate_revoked", 95)
BY DEF ReasonMap

(***************************************************************************)
(* The reasons that are generated are in the map, and none is a generic    *)
(* one.                                                                    *)
(***************************************************************************)
LEMMA ReasonsMapped ==
  {"insufficient_funds",
   "card_expired",
   "card_blocked",
   "payment_declined_by_issuer",
   "international_transaction_not_allowed",
   "bank_technical_error",
   "gateway_technical_error",
   "payment_authentication_failed",
   "payment_cancelled_by_customer",
   "mandate_insufficient_balance",
   "mandate_revoked"}
    \subseteq DOMAIN ReasonMap \ GenericReasons
BY DEF ReasonMap, GenericReasons

(***************************************************************************)
(* What the source a code comes with adds to it.                           *)
(***************************************************************************)
LEMMA SourcesCorroborate ==
  /\ Corroboration("issuer", "insufficient_funds") = 2
  /\ Corroboration("issuer", "expired_instrument") = 0
  /\ Corroboration("issuer", "issuer_decline_hard") = 3
  /\ Corroboration("issuer", "issuer_decline_soft") = 3
  /\ Corroboration("issuer", "international_blocked") = 0
  /\ Corroboration("bank", "bank_downtime") = 4
  /\ Corroboration("gateway", "technical_gateway") = 4
  /\ Corroboration("customer", "authentication_dropoff") = 5
  /\ Corroboration("customer", "customer_abandoned") = 4
  /\ Corroboration("issuer", "mandate_balance_low") = 0
  /\ Corroboration("customer", "mandate_revoked") = 0
BY DEF Corroboration

(***************************************************************************)
(* What is reported of a card, ...                                         *)
(***************************************************************************)
LEMMA CardCodes ==
  /\ CardSignals["insufficient_funds"] =
       Reports("insufficient_funds", "issuer")
  /\ CardSignals["expired_instrument"] =
       Reports("card_expired", "issuer")
  /\ CardSignals["issuer_decline_hard"] =
       Reports("card_blocked", "issuer")
  /\ CardSignals["issuer_decline_soft"] =
       Reports("payment_declined_by_issuer", "issuer")
  /\ CardSignals["international_blocked"] =
       Reports("international_transaction_not_allowed", "issuer")
  /\ CardSignals["bank_downtime"] =
       Reports("bank_technical_error", "bank")
  /\ CardSignals["technical_gateway"] =
       Reports("gateway_technical_error", "gateway")
  /\ CardSignals["authentication_dropoff"] =
       Reports("payment_authentication_failed", "customer")
  /\ CardSignals["customer_abandoned"] =
       Reports("payment_cancelled_by_customer", "customer")
BY DEF CardSignals

(***************************************************************************)
(* ... and of a mandate.                                                   *)
(***************************************************************************)
LEMMA MandateCodes ==
  /\ MandateSignals["mandate_balance_low"] =
       Reports("mandate_insufficient_balance", "issuer")
  /\ MandateSignals["insufficient_funds"] =
       Reports("insufficient_funds", "issuer")
  /\ MandateSignals["mandate_revoked"] =
       Reports("mandate_revoked", "customer")
  /\ MandateSignals["expired_instrument"] =
       Reports("card_expired", "issuer")
  /\ MandateSignals["bank_downtime"] =
       Reports("bank_technical_error", "bank")
  /\ MandateSignals["technical_gateway"] =
       Reports("gateway_technical_error", "gateway")
BY DEF MandateSignals

(***************************************************************************)
(* Every code that is generated is read as the cause it was generated for, *)
(* with the confidence the loop gives that cause.                          *)
(***************************************************************************)
IsRead(reason, source, cause) ==
  ReadCodes(Reports(reason, source)) = Read(cause, RuleConfidence(cause))

LEMMA CodesRead ==
  /\ IsRead("insufficient_funds", "issuer", "insufficient_funds")
  /\ IsRead("card_expired", "issuer", "expired_instrument")
  /\ IsRead("card_blocked", "issuer", "issuer_decline_hard")
  /\ IsRead("payment_declined_by_issuer", "issuer", "issuer_decline_soft")
  /\ IsRead("international_transaction_not_allowed", "issuer",
             "international_blocked")
  /\ IsRead("bank_technical_error", "bank", "bank_downtime")
  /\ IsRead("gateway_technical_error", "gateway", "technical_gateway")
  /\ IsRead("payment_authentication_failed", "customer", "authentication_dropoff")
  /\ IsRead("payment_cancelled_by_customer", "customer", "customer_abandoned")
  /\ IsRead("mandate_insufficient_balance", "issuer", "mandate_balance_low")
  /\ IsRead("mandate_revoked", "customer", "mandate_revoked")
<1>1. IsRead("insufficient_funds", "issuer", "insufficient_funds")
  BY ReasonRead, ReasonsMean, ReasonsMapped, SourcesCorroborate
     DEF RuleConfidence, Means, IsRead
<1>2. IsRead("card_expired", "issuer", "expired_instrument")
  BY ReasonRead, ReasonsMean, ReasonsMapped, SourcesCorroborate
     DEF RuleConfidence, Means, IsRead
<1>3. IsRead("card_blocked", "issuer", "issuer_decline_hard")
  BY ReasonRead, ReasonsMean, ReasonsMapped, SourcesCorroborate
     DEF RuleConfidence, Means, IsRead
<1>4. IsRead("payment_declined_by_issuer", "issuer", "issuer_decline_soft")
  BY ReasonRead, ReasonsMean, ReasonsMapped, SourcesCorroborate
     DEF RuleConfidence, Means, IsRead
<1>5. IsRead("international_transaction_not_allowed", "issuer",
             "international_blocked")
  BY ReasonRead, ReasonsMean, ReasonsMapped, SourcesCorroborate
     DEF RuleConfidence, Means, IsRead
<1>6. IsRead("bank_technical_error", "bank", "bank_downtime")
  BY ReasonRead, ReasonsMean, ReasonsMapped, SourcesCorroborate
     DEF RuleConfidence, Means, IsRead
<1>7. IsRead("gateway_technical_error", "gateway", "technical_gateway")
  BY ReasonRead, ReasonsMean, ReasonsMapped, SourcesCorroborate
     DEF RuleConfidence, Means, IsRead
<1>8. IsRead("payment_authentication_failed", "customer", "authentication_dropoff")
  BY ReasonRead, ReasonsMean, ReasonsMapped, SourcesCorroborate
     DEF RuleConfidence, Means, IsRead
<1>9. IsRead("payment_cancelled_by_customer", "customer", "customer_abandoned")
  BY ReasonRead, ReasonsMean, ReasonsMapped, SourcesCorroborate
     DEF RuleConfidence, Means, IsRead
<1>10. IsRead("mandate_insufficient_balance", "issuer", "mandate_balance_low")
  BY ReasonRead, ReasonsMean, ReasonsMapped, SourcesCorroborate
     DEF RuleConfidence, Means, IsRead
<1>11. IsRead("mandate_revoked", "customer", "mandate_revoked")
  BY ReasonRead, ReasonsMean, ReasonsMapped, SourcesCorroborate
     DEF RuleConfidence, Means, IsRead
<1> QED
  BY <1>1, <1>2, <1>3, <1>4, <1>5, <1>6, <1>7, <1>8, <1>9, <1>10, <1>11

(***************************************************************************)
(* So a card is read as what is true of it, ...                            *)
(***************************************************************************)
LEMMA CardRead ==
  ASSUME NEW cause \in PaymentCauses
  PROVE  ReadCodes(CardSignals[cause]) = Read(cause, RuleConfidence(cause))
BY CardCodes, CodesRead DEF PaymentCauses, IsRead

(***************************************************************************)
(* ... and so is a mandate.                                                *)
(***************************************************************************)
LEMMA MandateRead ==
  ASSUME NEW cause \in DOMAIN SurfaceBehaviour["subscriptions"]
  PROVE  ReadCodes(MandateSignals[cause]) = Read(cause, RuleConfidence(cause))
BY MandateCodes, CodesRead, CausesOf DEF IsRead

(***************************************************************************)
(* Prose, with no code or a generic one, is left undecided.                *)
(***************************************************************************)
LEMMA ProseUnread ==
  /\ ReadCodes(Reports("", "")) = Undecided
  /\ ReadCodes(Reports("payment_failed", "gateway")) = Undecided
BY DEF ReadCodes, Reports, GenericReasons

(***************************************************************************)
(* The rule table reads every code the generator deals as the truth of the *)
(* case, and leaves prose to the model, for every case that may be         *)
(* generated.                                                              *)
(***************************************************************************)
THEOREM CodesReadAsTrue == BatchSpec => []RulesReadTheTruth
<1>1. BatchInv => RulesReadTheTruth
  <2> SUFFICES ASSUME BatchInv PROVE RulesReadTheTruth
    OBVIOUS
  <2> DEFINE surface == dealt.event.surface
             roll == RollOf(dealt)
  <2>1. /\ dealt \in DealtCases /\ Generated(dealt)
        /\ case = Hidden(dealt)
    BY DealtOf DEF BatchInv
  <2>2. surface \in Surfaces /\ dealt.truth \in DOMAIN SurfaceBehaviour[surface]
        /\ dealt.ambiguous \in BOOLEAN
    BY <2>1 DEF DealtCases, Events, Generated, Rollable, RollOf
  <2>3. /\ dealt.signals = Signals(surface, roll)
        /\ dealt.ambiguous = Ambiguous(surface, roll)
        /\ roll.cause = dealt.truth
    <3>1. dealt = Dealt(surface, roll)
      BY <2>1 DEF Generated
    <3>2. /\ Dealt(surface, roll).signals = Signals(surface, roll)
          /\ Dealt(surface, roll).ambiguous = Ambiguous(surface, roll)
      BY DEF Dealt
    <3> HIDE DEF roll
    <3>3. /\ dealt.signals = Signals(surface, roll)
          /\ dealt.ambiguous = Ambiguous(surface, roll)
      BY <3>1, <3>2
    <3> QED
      BY <3>3 DEF roll, RollOf
  <2>4. RuleDiagnosis(case) = Read(dealt.truth, RuleConfidence(dealt.truth))
    BY <2>1 DEF RuleDiagnosis, Hidden, Read
  <2> HIDE DEF surface, roll
  <2>5. CASE dealt.ambiguous
    <3>1. ReadCodes(dealt.signals) = Undecided
      BY <2>3, <2>5, ProseUnread DEF Signals
    <3> QED
      BY <2>5, <3>1 DEF RulesReadTheTruth
  <2>6. CASE ~dealt.ambiguous /\ surface = "payments"
    <3>1. dealt.signals = CardSignals[dealt.truth]
      BY <2>3, <2>6 DEF Signals
    <3>2. dealt.truth \in PaymentCauses
      BY <2>2, <2>6, CausesOf
    <3> QED
      BY <2>4, <2>6, <3>1, <3>2, CardRead DEF RulesReadTheTruth
  <2>7. CASE ~dealt.ambiguous /\ surface = "subscriptions"
    <3>1. dealt.signals = MandateSignals[dealt.truth]
      BY <2>3, <2>7 DEF Signals
    <3>2. dealt.truth \in DOMAIN SurfaceBehaviour["subscriptions"]
      BY <2>2, <2>7
    <3> QED
      BY <2>4, <2>7, <3>1, <3>2, MandateRead DEF RulesReadTheTruth
  <2>8. surface = "receivables" => dealt.ambiguous
    BY <2>2, <2>3 DEF Ambiguous
  <2> QED
    BY <2>2, <2>5, <2>6, <2>7, <2>8 DEF Surfaces
<1> QED
  BY <1>1, BatchInvHolds, PTL

-----------------------------------------------------------------------------
(***************************************************************************)
(* The rows of the tables: percentages, a dead instrument for every        *)
(* terminal cause, and nothing to retry on an invoice.                     *)
(***************************************************************************)
RowFits(surface, cause, row) ==
  /\ row.ripens \in Nat
  /\ row.retry \in 0 .. 100
  /\ row.alternate \in 0 .. 100
  /\ row.nudge \in 0 .. 33
  /\ row.escalation \in 0 .. 55
  /\ row.terminal \in BOOLEAN
  /\ cause \in TerminalCauses => row.terminal
  /\ surface = "receivables" => row.retry = 0 /\ row.alternate = 0

(***************************************************************************)
(* The rows of a payment ...                                               *)
(***************************************************************************)
LEMMA PaymentTable ==
  /\ PaymentBehaviour["technical_gateway"] = Responds(34, 72, 6, 66, 5)
  /\ PaymentBehaviour["bank_downtime"] = Responds(28, 78, 90, 71, 3)
  /\ PaymentBehaviour["insufficient_funds"] = Responds(19, 46, 1440, 24, 14)
  /\ PaymentBehaviour["authentication_dropoff"] = Responds(22, 8, 0, 31, 27)
  /\ PaymentBehaviour["customer_abandoned"] = Responds(15, 5, 0, 22, 24)
  /\ PaymentBehaviour["issuer_decline_soft"] = Responds(16, 33, 360, 48, 9)
  /\ PaymentBehaviour["issuer_decline_hard"] = Dead(Responds(4, 0, 0, 39, 21))
  /\ PaymentBehaviour["expired_instrument"] = Dead(Responds(6, 0, 0, 44, 29))
  /\ PaymentBehaviour["international_blocked"] = Dead(Responds(5, 0, 0, 35, 18))
BY DEF PaymentBehaviour

(***************************************************************************)
(* ... fit.                                                                *)
(***************************************************************************)
LEMMA PaymentRows ==
  ASSUME NEW cause \in DOMAIN SurfaceBehaviour["payments"]
  PROVE  RowFits("payments", cause, PaymentBehaviour[cause])
<1> DEFINE fits(c) == RowFits("payments", c, PaymentBehaviour[c])
<1>1. fits("technical_gateway")
  BY PaymentTable DEF Responds, Dead, ByHand, RowFits, TerminalCauses
<1>2. fits("bank_downtime")
  BY PaymentTable DEF Responds, Dead, ByHand, RowFits, TerminalCauses
<1>3. fits("insufficient_funds")
  BY PaymentTable DEF Responds, Dead, ByHand, RowFits, TerminalCauses
<1>4. fits("authentication_dropoff")
  BY PaymentTable DEF Responds, Dead, ByHand, RowFits, TerminalCauses
<1>5. fits("customer_abandoned")
  BY PaymentTable DEF Responds, Dead, ByHand, RowFits, TerminalCauses
<1>6. fits("issuer_decline_soft")
  BY PaymentTable DEF Responds, Dead, ByHand, RowFits, TerminalCauses
<1>7. fits("issuer_decline_hard")
  BY PaymentTable DEF Responds, Dead, ByHand, RowFits, TerminalCauses
<1>8. fits("expired_instrument")
  BY PaymentTable DEF Responds, Dead, ByHand, RowFits, TerminalCauses
<1>9. fits("international_blocked")
  BY PaymentTable DEF Responds, Dead, ByHand, RowFits, TerminalCauses
<1> QED
  BY <1>1, <1>2, <1>3, <1>4, <1>5, <1>6, <1>7, <1>8, <1>9, CausesOf
     DEF PaymentCauses, InvoiceCauses

(***************************************************************************)
(* The rows of a subscription ...                                          *)
(***************************************************************************)
LEMMA SubscriptionTable ==
  /\ SubscriptionBehaviour["mandate_balance_low"] = Responds(11, 63, 4320, 18, 17)
  /\ SubscriptionBehaviour["insufficient_funds"] = Responds(13, 57, 4320, 20, 16)
  /\ SubscriptionBehaviour["bank_downtime"] = Responds(21, 74, 240, 44, 4)
  /\ SubscriptionBehaviour["technical_gateway"] = Responds(26, 70, 60, 48, 5)
  /\ SubscriptionBehaviour["mandate_revoked"] = Dead(Responds(2, 0, 0, 21, 33))
  /\ SubscriptionBehaviour["expired_instrument"] = Dead(Responds(4, 0, 0, 29, 31))
BY DEF SubscriptionBehaviour

(***************************************************************************)
(* ... fit.                                                                *)
(***************************************************************************)
LEMMA SubscriptionRows ==
  ASSUME NEW cause \in DOMAIN SurfaceBehaviour["subscriptions"]
  PROVE  RowFits("subscriptions", cause, SubscriptionBehaviour[cause])
<1> DEFINE fits(c) == RowFits("subscriptions", c, SubscriptionBehaviour[c])
<1>1. fits("mandate_balance_low")
  BY SubscriptionTable DEF Responds, Dead, ByHand, RowFits, TerminalCauses
<1>2. fits("insufficient_funds")
  BY SubscriptionTable DEF Responds, Dead, ByHand, RowFits, TerminalCauses
<1>3. fits("bank_downtime")
  BY SubscriptionTable DEF Responds, Dead, ByHand, RowFits, TerminalCauses
<1>4. fits("technical_gateway")
  BY SubscriptionTable DEF Responds, Dead, ByHand, RowFits, TerminalCauses
<1>5. fits("mandate_revoked")
  BY SubscriptionTable DEF Responds, Dead, ByHand, RowFits, TerminalCauses
<1>6. fits("expired_instrument")
  BY SubscriptionTable DEF Responds, Dead, ByHand, RowFits, TerminalCauses
<1> QED
  BY <1>1, <1>2, <1>3, <1>4, <1>5, <1>6, CausesOf
     DEF PaymentCauses, InvoiceCauses

(***************************************************************************)
(* The rows of an invoice ...                                              *)
(***************************************************************************)
LEMMA ReceivableTable ==
  /\ ReceivableBehaviour["invoice_awaiting_approval"] =
       ByHand(Responds(44, 0, 0, 0, 31), 34)
  /\ ReceivableBehaviour["promise_to_pay"] = ByHand(Responds(58, 0, 0, 0, 16), 18)
  /\ ReceivableBehaviour["invoice_cashflow_delay"] =
       ByHand(Responds(21, 0, 0, 0, 24), 30)
  /\ ReceivableBehaviour["invoice_disputed"] =
       ByHand(Dead(Responds(6, 0, 0, 0, 4)), 55)
  /\ ReceivableBehaviour["unknown"] = ByHand(Responds(17, 0, 0, 0, 19), 25)
BY DEF ReceivableBehaviour

(***************************************************************************)
(* ... fit.                                                                *)
(***************************************************************************)
LEMMA ReceivableRows ==
  ASSUME NEW cause \in DOMAIN SurfaceBehaviour["receivables"]
  PROVE  RowFits("receivables", cause, ReceivableBehaviour[cause])
<1> DEFINE fits(c) == RowFits("receivables", c, ReceivableBehaviour[c])
<1>1. fits("invoice_awaiting_approval")
  BY ReceivableTable DEF Responds, Dead, ByHand, RowFits, TerminalCauses
<1>2. fits("promise_to_pay")
  BY ReceivableTable DEF Responds, Dead, ByHand, RowFits, TerminalCauses
<1>3. fits("invoice_cashflow_delay")
  BY ReceivableTable DEF Responds, Dead, ByHand, RowFits, TerminalCauses
<1>4. fits("invoice_disputed")
  BY ReceivableTable DEF Responds, Dead, ByHand, RowFits, TerminalCauses
<1>5. fits("unknown")
  BY ReceivableTable DEF Responds, Dead, ByHand, RowFits, TerminalCauses
<1> QED
  BY <1>1, <1>2, <1>3, <1>4, <1>5, CausesOf
     DEF PaymentCauses, InvoiceCauses

(***************************************************************************)
(* A quotient is bounded by the multiple its dividend is bounded by.       *)
(***************************************************************************)
LEMMA DivBound ==
  ASSUME NEW x \in Nat, NEW r \in Nat \ {0}, NEW k \in Nat, x <= k * r
  PROVE  x \div r \in Nat /\ x \div r <= k
OBVIOUS

(***************************************************************************)
(* A product of bounded numbers is bounded.                                *)
(***************************************************************************)
LEMMA ProductBound ==
  ASSUME NEW x \in Nat, NEW y \in Nat, NEW k \in Nat, NEW m \in Nat,
         x <= k, y <= m
  PROVE  x * y \in Nat /\ x * y <= k * m
OBVIOUS

Scaled(x, y) == (x * y) \div Certain

(***************************************************************************)
(* A number scaled by a chance does not grow, ...                          *)
(***************************************************************************)
LEMMA ScaledBound ==
  ASSUME NEW x \in Nat, NEW y \in Nat, y <= Certain
  PROVE  Scaled(x, y) \in Nat /\ Scaled(x, y) <= x
<1>1. Certain \in Nat \ {0}
  BY DEF Certain
<1>2. x * y \in Nat /\ x * y <= x * Certain
  BY <1>1
<1> QED
  BY <1>1, <1>2, DivBound DEF Scaled

(***************************************************************************)
(* ... nor does a part of it, ...                                          *)
(***************************************************************************)
LEMMA PercentBound ==
  ASSUME NEW x \in Nat, NEW p \in 0 .. 100
  PROVE  Percent(x, p) \in Nat /\ Percent(x, p) <= x
<1>1. x * p \in Nat /\ x * p <= x * 100
  OBVIOUS
<1> QED
  BY <1>1, DivBound DEF Percent

(***************************************************************************)
(* ... and ripeness is a chance however long one waits.                    *)
(***************************************************************************)
LEMMA RipenessBound ==
  ASSUME NEW w, NEW ripens \in Nat, NEW delay \in Nat
  PROVE  /\ Ripeness(w, ripens, delay) \in Nat
         /\ Ripeness(w, ripens, delay) <= Certain
<1> DEFINE floor == IF w.curve = "flat" THEN 7000 ELSE 1500
           rest  == Certain - floor
           least == Least(ripens, delay)
<1>1. CASE ripens = 0
  BY <1>1 DEF Ripeness, Certain
<1>2. CASE ripens # 0
  <2>1. least \in Nat /\ least <= ripens
    BY DEF Least
  <2>2. rest * least \in Nat /\ rest * least <= rest * ripens
    BY <2>1 DEF Certain
  <2>3. rest \in Nat /\ floor \in Nat /\ floor + rest = Certain
    BY DEF Certain
  <2>4. Ripeness(w, ripens, delay) = floor + (rest * least) \div ripens
    BY <1>2 DEF Ripeness
  <2> HIDE DEF floor, rest, least
  <2>5. (rest * least) \div ripens \in Nat /\ (rest * least) \div ripens <= rest
    BY <1>2, <2>2, <2>3, DivBound
  <2> QED
    BY <2>3, <2>4, <2>5
<1> QED
  BY <1>1, <1>2

(***************************************************************************)
(* Fatigue takes from a chance and adds nothing to it.                     *)
(***************************************************************************)
LEMMA TiredBound ==
  ASSUME NEW chance \in Nat, NEW before \in Nat
  PROVE  Tired(chance, before) \in Nat /\ Tired(chance, before) <= chance
<1> DEFINE V == 0 .. chance
           next == [p \in Nat \X V |-> Percent(p[2], 55)]
           Left(f) == f = [n \in 0 .. before |->
                             IF n = 0 THEN chance ELSE Percent(f[n - 1], 55)]
           left == CHOOSE f : Left(f)
<1>1. ASSUME NEW m \in 1 .. before, NEW v \in V
      PROVE  next[<<m, v>>] \in V /\ next[<<m, v>>] = Percent(v, 55)
  <2>1. Percent(v, 55) \in Nat /\ Percent(v, 55) <= v
    BY PercentBound
  <2> QED
    BY <2>1
<1>2. PICK f : Runs(f, before, chance, next, V)
  <2> HIDE DEF next, V
  <2>1. chance \in V
    BY DEF V
  <2> QED
    BY <1>1, <2>1, RecursionExists
<1>3. /\ f[0] = chance
      /\ \A m \in 1 .. before : f[m] = Percent(f[m - 1], 55)
      /\ \A m \in 0 .. before : f[m] \in V
  <2>1. ASSUME NEW m \in 1 .. before PROVE f[m] = Percent(f[m - 1], 55)
    <3>1. m - 1 \in 0 .. before
      OBVIOUS
    <3>2. f[m - 1] \in V /\ f[m] = next[<<m, f[m - 1]>>]
      BY <1>2, <3>1 DEF Runs
    <3> HIDE DEF next, V
    <3> QED
      BY <1>1, <3>2
  <2> QED
    BY <1>2, <2>1 DEF Runs
<1> DEFINE h == [n \in 0 .. before |-> f[n]]
<1>4. Left(h)
  <2>1. \A n \in 0 .. before :
          f[n] = IF n = 0 THEN chance ELSE Percent(h[n - 1], 55)
    <3> TAKE n \in 0 .. before
    <3>1. n # 0 => n \in 1 .. before /\ n - 1 \in 0 .. before
      OBVIOUS
    <3>2. n # 0 => h[n - 1] = f[n - 1]
      BY <3>1
    <3> HIDE DEF h
    <3> QED
      BY <1>3, <3>1, <3>2
  <2> QED
    BY <2>1
<1>5. Left(left)
  <2> HIDE DEF h, Left
  <2> QED
    BY <1>4, Zenon DEF left
<1>6. /\ left[0] = chance
      /\ \A m \in 1 .. before : left[m] = Percent(left[m - 1], 55)
  <2> HIDE DEF left
  <2> QED
    BY <1>5
<1>7. \A m \in 0 .. before : left[m] = f[m]
  <2> HIDE DEF left
  <2>1. Same(left, f, 0)
    BY <1>3, <1>6 DEF Same
  <2>2. \A m \in 1 .. before : Same(left, f, m - 1) => Same(left, f, m)
    BY <1>3, <1>6 DEF Same
  <2>3. \A m \in 0 .. before : Same(left, f, m)
    BY <2>1, <2>2, RecursionAgrees
  <2> QED
    BY <2>3 DEF Same
<1>8. Tired(chance, before) = left[before]
  BY DEF Tired
<1>9. f[before] \in 0 .. chance /\ left[before] = f[before]
  BY <1>3, <1>7
<1> QED
  BY <1>8, <1>9

(***************************************************************************)
(* A number that may be a chance, in basis points.                         *)
(***************************************************************************)
IsChance(x) == x \in Nat /\ x <= Certain

(***************************************************************************)
(* The row of a case that was dealt.                                       *)
(***************************************************************************)
LEMMA RowOf ==
  ASSUME NEW d \in DealtCases, Generated(d)
  PROVE  RowFits(d.event.surface, d.truth, BehaviourFor(d))
<1>1. d.event.surface \in Surfaces
      /\ d.truth \in DOMAIN SurfaceBehaviour[d.event.surface]
  BY DEF DealtCases, Events, Generated, Rollable, RollOf
<1>2. /\ SurfaceBehaviour["payments"] = PaymentBehaviour
      /\ SurfaceBehaviour["subscriptions"] = SubscriptionBehaviour
      /\ SurfaceBehaviour["receivables"] = ReceivableBehaviour
  BY DEF SurfaceBehaviour
<1> QED
  BY <1>1, <1>2, PaymentRows, SubscriptionRows, ReceivableRows
     DEF Surfaces, BehaviourFor

(***************************************************************************)
(* How ripe a case is when it is acted on after its failure.               *)
(***************************************************************************)
LEMMA RipeEnough ==
  ASSUME NEW d \in DealtCases, Generated(d), NEW w, NEW t \in Nat,
         t >= d.event.occurred
  PROVE  /\ IsChance(Ripeness(w, RipensAfter(d), t - d.event.occurred))
         /\ d.ripens # NoDate =>
              IsChance(Ripeness(w, d.ripens, t - d.event.occurred))
<1>1. d.event.occurred \in Nat /\ d.ripens \in Nat \cup {NoDate}
  BY DEF DealtCases, Events
<1>2. t - d.event.occurred \in Nat
  BY <1>1
<1>3. BehaviourFor(d).ripens \in Nat
  BY RowOf DEF RowFits
<1>4. RipensAfter(d) \in Nat /\ (d.ripens # NoDate => d.ripens \in Nat)
  BY <1>1, <1>3 DEF RipensAfter
<1> QED
  BY <1>2, <1>4, RipenessBound DEF IsChance

(***************************************************************************)
(* A percentage of a chance is a chance, and no per cent is none.          *)
(***************************************************************************)
LEMMA PartOf ==
  ASSUME NEW x, IsChance(x), NEW p \in 0 .. 100
  PROVE  /\ IsChance(Percent(x, p))
         /\ p = 0 => Percent(x, p) = 0
<1>1. x \in Nat /\ x <= Certain /\ Certain \in Nat
  BY DEF IsChance, Certain
<1>2. Percent(x, p) \in Nat /\ Percent(x, p) <= x
  BY <1>1, PercentBound
<1>3. IsChance(Percent(x, p))
  BY <1>1, <1>2 DEF IsChance
<1>4. p = 0 => Percent(x, p) = 0
  BY <1>1 DEF Percent
<1> QED
  BY <1>3, <1>4

(***************************************************************************)
(* A retry: no chance on a dead instrument, and none on an invoice.        *)
(***************************************************************************)
LEMMA RetryBound ==
  ASSUME NEW d \in DealtCases, Generated(d), NEW w, NEW t \in Nat,
         t >= d.event.occurred
  PROVE  /\ IsChance(RetryChance(w, d, t))
         /\ d.truth \in TerminalCauses \/ d.event.surface = "receivables"
              => RetryChance(w, d, t) = 0
<1> DEFINE row == BehaviourFor(d)
           ripe == Ripeness(w, RipensAfter(d), t - d.event.occurred)
<1>1. RowFits(d.event.surface, d.truth, row) /\ IsChance(ripe)
  BY RowOf, RipeEnough
<1>2. RetryChance(w, d, t) = IF row.terminal THEN 0 ELSE Percent(ripe, row.retry)
  BY DEF RetryChance
<1>3. IsChance(0)
  BY DEF IsChance, Certain
<1> HIDE DEF row, ripe
<1>4. /\ row.retry \in 0 .. 100 /\ row.terminal \in BOOLEAN
      /\ d.truth \in TerminalCauses => row.terminal
      /\ d.event.surface = "receivables" => row.retry = 0
  BY <1>1 DEF RowFits
<1>5. /\ IsChance(Percent(ripe, row.retry))
      /\ row.retry = 0 => Percent(ripe, row.retry) = 0
  BY <1>1, <1>4, PartOf
<1> QED
  BY <1>2, <1>3, <1>4, <1>5

(***************************************************************************)
(* A retry on another rail: no chance on an invoice.                       *)
(***************************************************************************)
LEMMA AlternateBound ==
  ASSUME NEW d \in DealtCases, Generated(d), NEW w, NEW t \in Nat,
         t >= d.event.occurred
  PROVE  /\ IsChance(AlternateChance(w, d, t))
         /\ d.event.surface = "receivables" => AlternateChance(w, d, t) = 0
<1> DEFINE row == BehaviourFor(d)
           ripe == Ripeness(w, RipensAfter(d), t - d.event.occurred)
           grown == 5500 + Percent(ripe, 45)
<1>1. RowFits(d.event.surface, d.truth, row) /\ IsChance(ripe)
  BY RowOf, RipeEnough
<1>2. AlternateChance(w, d, t) = Percent(grown, row.alternate)
  BY DEF AlternateChance
<1> HIDE DEF row, ripe
<1>3. IsChance(grown)
  BY <1>1 DEF IsChance, Percent, Certain
<1> HIDE DEF grown
<1>4. /\ row.alternate \in 0 .. 100
      /\ d.event.surface = "receivables" => row.alternate = 0
  BY <1>1 DEF RowFits
<1> QED
  BY <1>2, <1>3, <1>4, PartOf

(***************************************************************************)
(* How every segment responds.                                             *)
(***************************************************************************)
LEMMA SegmentResponds ==
  ASSUME NEW d \in DealtCases
  PROVE  /\ Responsiveness[d.segment] \in Nat /\ Responsiveness[d.segment] <= 130
         /\ RootResponsiveness[d.segment] \in Nat
         /\ RootResponsiveness[d.segment] <= 114
<1>1. d.segment \in Segments
  BY DEF DealtCases
<1>2. \A s \in Segments : Responsiveness[s] \in Nat /\ Responsiveness[s] <= 130
  BY DEF Segments, Responsiveness
<1>3. \A s \in Segments : /\ RootResponsiveness[s] \in Nat
                            /\ RootResponsiveness[s] <= 114
  BY DEF Segments, RootResponsiveness
<1> QED
  BY <1>1, <1>2, <1>3

(***************************************************************************)
(* A message, fitting or not, in time or not, fresh or not.                *)
(***************************************************************************)
LEMMA MessageBound ==
  ASSUME NEW d \in DealtCases, Generated(d), NEW w, NEW iv, NEW t \in Nat,
         t >= d.event.occurred, NEW before \in Nat
  PROVE  IsChance(MessageChance(w, d, iv, t, before))
<1> DEFINE row     == BehaviourFor(d)
           pull    == row.nudge * Responsiveness[d.segment]
           fit     == Fit(w, iv, d.truth)
           ripe    == Ripeness(w, d.ripens, t - d.event.occurred)
           fitting == Percent(pull, fit)
           timely  == IF d.event.surface = "receivables" /\ d.ripens # NoDate
                      THEN (fitting * ripe) \div Certain ELSE fitting
<1>1. /\ row.nudge \in Nat /\ row.nudge <= 33
      /\ d.ripens # NoDate => IsChance(ripe)
  <2>1. RowFits(d.event.surface, d.truth, row)
    BY RowOf
  <2> HIDE DEF row
  <2>2. row.nudge \in Nat /\ row.nudge <= 33
    BY <2>1 DEF RowFits
  <2> QED
    BY <2>2, RipeEnough
<1>2. fit \in Nat /\ fit <= 170
  BY DEF Fit
<1>3. MessageChance(w, d, iv, t, before) = Tired(timely, before)
  BY DEF MessageChance
<1>4. pull \in Nat /\ pull <= 33 * 130
  <2> DEFINE nudge == row.nudge
             heard == Responsiveness[d.segment]
  <2>1. nudge \in Nat /\ nudge <= 33 /\ heard \in Nat /\ heard <= 130
    BY <1>1, SegmentResponds
  <2> HIDE DEF nudge, heard
  <2>2. nudge * heard \in Nat /\ nudge * heard <= 33 * 130
    BY <2>1, ProductBound
  <2> QED
    BY <2>2 DEF nudge, heard
<1> HIDE DEF row, fit, ripe, pull
<1>5. fitting \in Nat /\ fitting <= 7293
  <2>1. pull * fit \in Nat /\ pull * fit <= 4290 * 170
    BY <1>2, <1>4, ProductBound
  <2> QED
    BY <2>1 DEF Percent
<1> HIDE DEF fitting
<1>6. IsChance(timely)
  <2>1. CASE d.ripens # NoDate
    <3>1. ripe \in Nat /\ ripe <= Certain
      BY <1>1, <2>1 DEF IsChance
    <3>2. Scaled(fitting, ripe) \in Nat /\ Scaled(fitting, ripe) <= fitting
      BY <1>5, <3>1, ScaledBound
    <3> DEFINE cut == Scaled(fitting, ripe)
    <3>3. timely \in {cut, fitting} /\ cut \in Nat /\ cut <= fitting
      BY <3>2 DEF Scaled
    <3> HIDE DEF cut, timely
    <3> QED
      BY <1>5, <3>3 DEF IsChance, Certain
  <2>2. CASE d.ripens = NoDate
    BY <1>5, <2>2 DEF IsChance, Certain
  <2> QED
    BY <2>1, <2>2
<1> HIDE DEF timely
<1>7. timely \in Nat /\ timely <= Certain
  BY <1>6 DEF IsChance
<1>8. Tired(timely, before) \in Nat /\ Tired(timely, before) <= timely
  BY <1>7, TiredBound
<1> QED
  BY <1>3, <1>7, <1>8 DEF IsChance, Certain

(***************************************************************************)
(* A call by a person.                                                     *)
(***************************************************************************)
LEMMA EscalationBound ==
  ASSUME NEW d \in DealtCases, Generated(d)
  PROVE  IsChance(BehaviourFor(d).escalation * RootResponsiveness[d.segment])
<1> DEFINE hand == BehaviourFor(d).escalation
           root == RootResponsiveness[d.segment]
<1>1. hand \in Nat /\ hand <= 55
  BY RowOf DEF RowFits
<1>2. root \in Nat /\ root <= 114
  BY SegmentResponds
<1> HIDE DEF hand, root
<1>3. hand * root \in Nat /\ hand * root <= 55 * 114
  BY <1>1, <1>2, ProductBound
<1>4. IsChance(hand * root)
  BY <1>3 DEF IsChance, Certain
<1> QED
  BY <1>4 DEF hand, root

(***************************************************************************)
(* Every action: its chance is one, and there is none where the loop says  *)
(* it cannot land.                                                         *)
(***************************************************************************)
LEMMA ChanceBound ==
  ASSUME NEW d \in DealtCases, Generated(d), NEW w, NEW iv \in Interventions,
         NEW t \in Nat, t >= d.event.occurred, NEW before \in Nat
  PROVE  /\ IsChance(Chance(w, d, iv, t, before))
         /\ Chance(w, d, iv, t, before) # 0 => CanLand(Hidden(d), iv)
<1>1. Hidden(d).truth = d.truth /\ Hidden(d).event = d.event
  BY DEF Hidden
<1>2. CASE iv = "no_action"
  BY <1>2 DEF Chance, Certain, IsChance
<1>3. CASE iv = "escalate_human"
  BY <1>3, EscalationBound DEF Chance, CanLand, Billable
<1>4. CASE iv = "retry_same_rail"
  BY <1>1, <1>4, RetryBound DEF Chance, CanLand
<1>5. CASE iv = "retry_alternate_rail"
  BY <1>1, <1>5, AlternateBound DEF Chance, CanLand
<1>6. CASE iv \in Contacting
  <2>1. Chance(w, d, iv, t, before) = MessageChance(w, d, iv, t, before)
        /\ CanLand(Hidden(d), iv)
    BY <1>6 DEF Chance, CanLand, Contacting, Billable
  <2> QED
    BY <2>1, MessageBound
<1> QED
  BY <1>2, <1>3, <1>4, <1>5, <1>6 DEF Interventions, Billable, AlwaysSafe

(***************************************************************************)
(* Every chance the world gives an action is a probability, whatever the   *)
(* case, the world, the hour and the messages before; and no action lands  *)
(* that Runner says cannot.                                                *)
(***************************************************************************)
THEOREM ChancesAreProbabilities == BatchSpec => []ChancesAreFair
<1>1. BatchInv /\ RunInv => ChancesAreFair
  <2> DEFINE p == Chance(setting.world, dealt, chosen.iv, chosen.at,
                         ContactsBefore)
  <2> SUFFICES ASSUME BatchInv, RunInv, pc = "act"
               PROVE  p \in 0 .. Certain /\ (p > 0 => CanLand(case, chosen.iv))
    BY DEF ChancesAreFair
  <2>1. /\ dealt \in DealtCases /\ Generated(dealt) /\ case = Hidden(dealt)
    BY DealtOf DEF BatchInv
  <2>2. chosen.iv \in Interventions /\ chosen.at \in Nat /\ ContactsBefore \in Nat
    BY DEF BatchInv, Loop, TypeInv, TypeOK, Proposals, ContactsBefore
  <2>3. chosen.at >= dealt.event.occurred
    BY <2>1 DEF RunInv, OnTime, Hidden
  <2>4. IsChance(p) /\ (p # 0 => CanLand(case, chosen.iv))
    BY <2>1, <2>2, <2>3, ChanceBound
  <2> HIDE DEF p
  <2>5. p \in Nat /\ p <= Certain
    BY <2>4 DEF IsChance
  <2>6. p \in 0 .. Certain /\ (p > 0 => p # 0)
    BY <2>5 DEF Certain
  <2> QED
    BY <2>4, <2>6, Zenon
<1> QED
  BY <1>1, BatchInvHolds, BatchRuns, PTL

-----------------------------------------------------------------------------
(***************************************************************************)
(* Under the oracle a promise is known by its day, once it is known.       *)
(***************************************************************************)
Knows ==
  setting.regime = "oracle" /\ arm = "agent" /\ dealt.truth = "promise_to_pay" =>
    \/ taken = << >> /\ pc \in {"detect", "diagnose", "aborted"}
    \/ diagnosis = Labelled(dealt)

(***************************************************************************)
(* A promise is an invoice's, has a date, and is read off no code.         *)
(***************************************************************************)
LEMMA PromiseDealt ==
  ASSUME NEW d \in DealtCases, Generated(d), d.truth = "promise_to_pay"
  PROVE  /\ d.event.surface = "receivables"
         /\ d.ripens \in Nat
         /\ ReadCodes(d.signals) = Undecided
<1>1. d.event.surface \in Surfaces
      /\ d.truth \in DOMAIN SurfaceBehaviour[d.event.surface]
  BY DEF DealtCases, Events, Generated, Rollable, RollOf
<1>2. d.event.surface = "receivables"
  BY <1>1, CausesOf DEF Surfaces, PaymentCauses
<1>3. DateInRange("receivables", "promise_to_pay", d.ripens)
  <2> DEFINE roll == RollOf(d)
  <2>1. roll.cause = d.truth /\ roll.ripens = d.ripens
    BY DEF RollOf
  <2> HIDE DEF roll
  <2>2. Rollable(d.event.surface, roll)
    BY DEF Generated, roll
  <2>3. DateInRange(d.event.surface, roll.cause, roll.ripens)
    BY <2>2, Zenon DEF Rollable
  <2> QED
    BY <1>2, <2>1, <2>3
<1>4. d.ripens \in Nat
  <2> DEFINE first == 24 * 60
             last  == 340 * 60
             date  == d.ripens
  <2>1. date \in first .. last
    BY <1>3, Zenon DEF DateInRange
  <2>2. first \in Nat /\ last \in Nat
    OBVIOUS
  <2> HIDE DEF first, last, date
  <2>3. date \in Nat
    BY <2>1, <2>2
  <2> QED
    BY <2>3 DEF date
<1>5. d.signals = Reports("", "")
  <2> DEFINE roll == RollOf(d)
  <2>1. d = Dealt("receivables", roll)
    BY <1>2 DEF Generated
  <2> HIDE DEF roll
  <2>2. Dealt("receivables", roll).signals = Reports("", "")
    BY DEF Dealt, Signals
  <2> QED
    BY <2>1, <2>2
<1> QED
  BY <1>2, <1>4, <1>5, ProseUnread

(***************************************************************************)
(* Nothing is done before the diagnosis, ...                               *)
(***************************************************************************)
LEMMA LaunchKnows ==
  ASSUME NEW d, NEW a, Launch(d, a)
  PROVE  Knows'
BY DEF Launch, Knows

(***************************************************************************)
(* ... which is the label, because an invoice has no codes to read, ...    *)
(***************************************************************************)
LEMMA PlayKnows ==
  ASSUME BatchInv, Knows, Play \/ Fail
  PROVE  Knows'
<1>1. dealt' = dealt /\ setting' = setting /\ arm' = arm
  BY DEF Play, Fail, batch, dealt, setting, Advance, Abort, Detect, Diagnose,
     Stop, Permit, Defer, Override, Choose, Halt, Act, Record, Observe, given
<1>2. Labelled(dealt)' = Labelled(dealt)
  BY <1>1 DEF Labelled
<1> SUFFICES ASSUME setting.regime = "oracle", arm = "agent",
                    dealt.truth = "promise_to_pay"
             PROVE  \/ taken' = << >> /\ pc' \in {"detect", "diagnose", "aborted"}
                    \/ diagnosis' = Labelled(dealt)
  BY <1>1, <1>2 DEF Knows
<1>3. CASE Play /\ pc = "diagnose"
  <2>1. diagnosis' \in Heard
    BY <1>3 DEF Play
  <2>2. ReadCodes(dealt.signals) = Undecided
    BY DealtOf, PromiseDealt DEF BatchInv
  <2>3. Heard = {Labelled(dealt)}
    BY <2>2 DEF Heard
  <2> QED
    BY <2>1, <2>3
<1>4. CASE Play /\ pc # "diagnose"
  <2>1. diagnosis' = diagnosis
    BY <1>4 DEF Play, Advance, Detect, Diagnose, Stop, Permit, Defer, Override,
       Choose, Halt, Act, Record, Observe
  <2>2. CASE taken = << >> /\ pc \in {"detect", "diagnose", "aborted"}
    BY <1>4, <2>2 DEF Play, Advance, Detect, Diagnose, Stop, Permit, Defer,
       Override, Deciding, Halt, Act, Record, Observe, tallies
  <2> QED
    BY <2>1, <2>2 DEF Knows
<1>5. CASE Fail
  BY <1>5 DEF Knows, Fail, Abort, tallies
<1> QED
  BY <1>3, <1>4, <1>5

(***************************************************************************)
(* ... in every step of a batch, ...                                       *)
(***************************************************************************)
LEMMA BatchStepKnows ==
  ASSUME BatchInv, Knows, [BatchNext]_everything
  PROVE  Knows'
<1>1. CASE Play \/ Fail
  BY <1>1, PlayKnows
<1>2. CASE NextCase \/ NextArm \/ NextBatch
  <2>1. PICK d, a : Launch(d, a)
    BY <1>2 DEF NextCase, NextArm, NextBatch
  <2> QED
    BY <2>1, LaunchKnows
<1>3. CASE Conclude \/ UNCHANGED everything
  BY <1>3 DEF Conclude, everything, batch, vars, Knows, Labelled, dealt, setting
<1> QED
  BY <1>1, <1>2, <1>3 DEF BatchNext, Proceed

(***************************************************************************)
(* ... and so throughout.                                                  *)
(***************************************************************************)
LEMMA BatchKnows == BatchSpec => []Knows
<1>1. BatchInit => Knows
  BY DEF BatchInit, Begin, Knows
<1>2. BatchInv /\ Knows /\ [BatchNext]_everything => Knows'
  BY BatchStepKnows
<1> QED
  BY <1>1, <1>2, BatchInvHolds, PTL DEF BatchSpec

(***************************************************************************)
(* A date rounded to whole days is at most half a day early.               *)
(***************************************************************************)
LEMMA RoundedDay ==
  ASSUME NEW minutes \in Nat
  PROVE  /\ Round(minutes, 1440) \in Nat
         /\ 1440 * Round(minutes, 1440) >= minutes - 720
BY DEF Round

(***************************************************************************)
(* The first step of a promise's playbook is due a day after the day that  *)
(* was promised, and no step before it.                                    *)
(***************************************************************************)
Due(d) == d.event.occurred + 1440 * Round(d.ripens, 1440) + 1440

Promised ==
  setting.regime = "oracle" /\ arm = "agent" /\ dealt.truth = "promise_to_pay"

Dated ==
  Promised => /\ pc = "act" => chosen.at >= Due(dealt)
              /\ \A i \in DOMAIN taken : taken[i].at >= Due(dealt)

(***************************************************************************)
(* Every step of that playbook hangs on the promised day, by a day or more.*)
(***************************************************************************)
LEMMA PromisePlan ==
  ASSUME NEW i \in DOMAIN ReceivablePlaybook("promise_to_pay")
  PROVE  LET step0 == ReceivablePlaybook("promise_to_pay")[i]
         IN step0.fromPromise /\ step0.after \in Nat /\ step0.after >= 1440
<1> DEFINE plan == <<SincePromise(Message("invoice_reminder", Hours(24), "email")),
                     SincePromise(Message("invoice_reminder", Hours(168), "email")),
                     SincePromise(Silent("escalate_human", Hours(336)))>>
<1>1. ReceivablePlaybook("promise_to_pay") = plan
  BY DEF ReceivablePlaybook
<1>2. i \in 1 .. 3
  BY <1>1
<1>3. CASE i = 1
  BY <1>1, <1>3 DEF SincePromise, Message, Hours
<1>4. CASE i = 2
  BY <1>1, <1>4 DEF SincePromise, Message, Hours
<1>5. CASE i = 3
  BY <1>1, <1>5 DEF SincePromise, Silent, Hours
<1> QED
  BY <1>2, <1>3, <1>4, <1>5

(***************************************************************************)
(* So what the agent proposes is.                                          *)
(***************************************************************************)
LEMMA PromiseOffer ==
  ASSUME BatchInv, RunInv, Knows, Promised, Deciding
  PROVE  Offer.at >= Due(dealt)
<1>1. /\ dealt \in DealtCases /\ Generated(dealt) /\ case = Hidden(dealt)
  BY DealtOf DEF BatchInv
<1>2. /\ case.event = dealt.event /\ case.event.surface = "receivables"
      /\ dealt.ripens \in Nat
  BY <1>1, PromiseDealt DEF Hidden, Promised
<1>3. working.occurred = case.event.occurred
      /\ working.surface = case.event.surface
  BY CurrentFields DEF BatchInv, Loop, RunInv, ContextInv, ContextIsCurrent,
     CurrentReads, Deciding
<1>4. diagnosis = Labelled(dealt)
  BY DEF Knows, Promised, Deciding
<1> DEFINE day == Round(dealt.ripens, 1440)
<1>5. day \in Nat
  BY <1>2, RoundedDay
<1>6. /\ diagnosis.cause = "promise_to_pay" /\ diagnosis.path # "degraded"
      /\ diagnosis.promise = day /\ diagnosis.promise # NoPromise
  BY <1>2, <1>4, <1>5 DEF Labelled, NoDate, NoPromise, Promised
<1>7. Plan = ReceivablePlaybook("promise_to_pay")
  BY <1>2, <1>3, <1>6 DEF Plan, PlaybookFor, Promised
<1>8. step + 1 \in DOMAIN Plan
  <2>1. Plan \in Seq(Steps)
    BY PlanTyped DEF BatchInv, Loop, TypeInv
  <2>2. step \in Nat /\ step < Len(Plan)
    BY <2>1 DEF BatchInv, Loop, TypeInv, TypeOK, Deciding, Exhausted, StepLimit
  <2> QED
    BY <2>1, <2>2
<1>9. /\ Plan[step + 1].fromPromise
      /\ Plan[step + 1].after \in Nat /\ Plan[step + 1].after >= 1440
  BY <1>7, <1>8, PromisePlan
<1>10. Offer.at = working.occurred + 1440 * day + Plan[step + 1].after
  BY <1>6, <1>9 DEF Offer, Propose, Anchor
<1>11. working.occurred \in Nat
  BY DEF BatchInv, Loop, TypeInv, TypeOK, Events
<1> HIDE DEF day
<1>12. Offer.at >= working.occurred + 1440 * day + 1440
  BY <1>5, <1>9, <1>10, <1>11
<1> QED
  BY <1>2, <1>3, <1>12 DEF Due, day

(***************************************************************************)
(* A step of the case decides on such an action, or executes one it has    *)
(* decided on; the engine defers, and never advances, a message.           *)
(***************************************************************************)
LEMMA PlayDated ==
  ASSUME BatchInv, RunInv, Knows, Dated, Play \/ Fail
  PROVE  Dated'
<1>1. dealt' = dealt /\ setting' = setting /\ arm' = arm
  BY DEF Play, Fail, batch, dealt, setting, Advance, Abort, Detect, Diagnose,
     Stop, Permit, Defer, Override, Choose, Halt, Act, Record, Observe, given
<1>2. Promised' = Promised /\ Due(dealt)' = Due(dealt)
  BY <1>1 DEF Promised, Due
<1> SUFFICES ASSUME Promised
             PROVE  /\ pc' = "act" => chosen'.at >= Due(dealt)
                    /\ \A i \in DOMAIN taken' : taken'[i].at >= Due(dealt)
  BY <1>1, <1>2 DEF Dated
<1>3. TypeInv /\ ContextInv
  BY DEF BatchInv, Loop, RunInv
<1>4. Next
  BY PlayIsAStep
<1>5. CASE Permit \/ Override
  <2>1. Deciding /\ chosen' = Offer /\ taken' = taken
    BY <1>5 DEF Permit, Override, Choose, tallies
  <2> QED
    BY <2>1, PromiseOffer DEF Dated
<1>6. CASE Defer
  <2>1. Deciding /\ chosen' = Substitute(Offer) /\ taken' = taken
    BY <1>6 DEF Defer, Choose, tallies
  <2>2. QuietBlocks(Offer)
    <3>1. "contact.quiet_hours"
            \in Blocking(working, diagnosis, Offer, used, limit)
      BY <1>6 DEF Defer, HasSubstitute, Refused
    <3> QED
      BY <3>1, BlockingCites
  <2>3. Offer \in Proposals /\ Offer.at \in Nat /\ InQuietHours(Offer.at)
    BY <1>3, <2>1, <2>2, OfferOnTime DEF Proposals, QuietBlocks
  <2>4. chosen'.at >= Offer.at /\ chosen'.at \in Nat
    BY <2>1, <2>3, SubstituteTyped, DeferralAwake
  <2>5. Offer.at >= Due(dealt) /\ Due(dealt) \in Int
    <3>1. dealt \in DealtCases /\ Generated(dealt)
      BY DealtOf DEF BatchInv
    <3>2. Round(dealt.ripens, 1440) \in Nat
      BY <3>1, PromiseDealt, RoundedDay DEF Promised
    <3>3. dealt.event.occurred \in Nat
      BY <3>1 DEF DealtCases, Events
    <3>4. Due(dealt) \in Int
      BY <3>2, <3>3 DEF Due
    <3> QED
      BY <2>1, <3>4, PromiseOffer
  <2> QED
    BY <2>1, <2>3, <2>4, <2>5 DEF Dated
<1>7. CASE Act
  <2>1. /\ pc = "act" /\ pc' # "act"
        /\ \E r : taken' = Append(taken, r) /\ r.at = chosen.at
    BY <1>7 DEF Act
  <2>2. taken \in Seq(ActRecords)
    BY <1>3 DEF TypeInv, TypeOK
  <2>3. PICK r : taken' = Append(taken, r) /\ r.at = chosen.at
    BY <2>1
  <2>4. \A i \in DOMAIN taken' : taken'[i] = r \/ (i \in DOMAIN taken /\ taken'[i] = taken[i])
    BY <2>2, <2>3
  <2> QED
    BY <2>1, <2>3, <2>4 DEF Dated
<1>8. CASE ~(Permit \/ Override \/ Defer \/ Act)
  BY <1>4, <1>8 DEF Dated, Next, Advance, Detect, Diagnose, Stop, Halt, Record,
     Observe, Abort, tallies
<1> QED
  BY <1>5, <1>6, <1>7, <1>8

(***************************************************************************)
(* So throughout a batch.                                                  *)
(***************************************************************************)
LEMMA BatchStepDated ==
  ASSUME BatchInv, RunInv, Knows, Dated, [BatchNext]_everything
  PROVE  Dated'
<1>1. CASE Play \/ Fail
  BY <1>1, PlayDated
<1>2. CASE NextCase \/ NextArm \/ NextBatch
  <2>1. pc' = "detect" /\ taken' = << >>
    BY <1>2 DEF NextCase, NextArm, NextBatch, Launch
  <2> QED
    BY <2>1 DEF Dated
<1>3. CASE Conclude \/ UNCHANGED everything
  BY <1>3 DEF Conclude, everything, batch, vars, Dated, Promised, Due, dealt, setting
<1> QED
  BY <1>1, <1>2, <1>3 DEF BatchNext, Proceed

LEMMA BatchDated == BatchSpec => []Dated
<1>1. BatchInit => Dated
  BY DEF BatchInit, Begin, Dated
<1>2. BatchInv /\ RunInv /\ Knows /\ Dated /\ [BatchNext]_everything => Dated'
  BY BatchStepDated
<1> QED
  BY <1>1, <1>2, BatchInvHolds, BatchRuns, BatchKnows, PTL DEF BatchSpec

(***************************************************************************)
(* With the oracle nobody who promised to pay is reminded before the money *)
(* is there. The day is rounded, by up to half of one; the playbook, which *)
(* writes a day after the promise, makes up for it, whatever grace the     *)
(* policy gives.                                                           *)
(***************************************************************************)
THEOREM OracleWaits == BatchSpec => []OracleWaitsForTheMoney
<1>1. BatchInv /\ Dated => OracleWaitsForTheMoney
  <2> SUFFICES ASSUME BatchInv, Dated,
                      setting.regime = "oracle", arm = "agent",
                      case.truth = "promise_to_pay",
                      NEW i \in DOMAIN taken
               PROVE  taken[i].at >= case.event.occurred + dealt.ripens
    BY DEF OracleWaitsForTheMoney
  <2>1. /\ dealt \in DealtCases /\ Generated(dealt) /\ case = Hidden(dealt)
    BY DealtOf DEF BatchInv
  <2>2. /\ case.truth = dealt.truth /\ case.event = dealt.event
        /\ case.event.occurred \in Nat
    BY <2>1 DEF Hidden, DealtCases, Events
  <2>3. dealt.ripens \in Nat
    BY <2>1, <2>2, PromiseDealt
  <2> DEFINE day == Round(dealt.ripens, 1440)
  <2>4. day \in Nat /\ 1440 * day >= dealt.ripens - 720
    BY <2>3, RoundedDay
  <2>5. taken[i].at \in Nat
    <3>1. taken[i] \in ActRecords
      BY DEF BatchInv, Loop, TypeInv, TypeOK
    <3> QED
      BY <3>1 DEF ActRecords
  <2>6. taken[i].at >= case.event.occurred + 1440 * day + 1440
    BY <2>2 DEF Dated, Promised, Due
  <2> HIDE DEF day
  <2> QED
    BY <2>2, <2>3, <2>4, <2>5, <2>6
<1> QED
  BY <1>1, BatchInvHolds, BatchDated, PTL

-----------------------------------------------------------------------------
(***************************************************************************)
(* What the arms without a diagnoser do is settled by the case and the     *)
(* world before they are run: the control arm does nothing, and the naive  *)
(* arm follows its plan until an action lands.                             *)
(***************************************************************************)
Script(a, d) == IF a = "naive" THEN NaivePlan(d.event) ELSE << >>

Deed(w, d, script, i) ==
  LET iv     == script[i].iv
      time   == d.event.occurred + script[i].after
      before == MessagesAmong(script, i - 1)
  IN [iv |-> iv, at |-> time, draw |-> i - 1, before |-> before,
      landed |-> d.draws[i - 1] < Chance(w, d, iv, time, before)]

Keeps(acts, a, w, d) ==
  /\ acts \in Seq(ActRecords)
  /\ Len(acts) <= Len(Script(a, d))
  /\ \A i \in 1 .. Len(acts) : acts[i] = Deed(w, d, Script(a, d), i)

Finished(acts, a, w, d) ==
  /\ Keeps(acts, a, w, d)
  /\ \A i \in 1 .. Len(acts) : acts[i].landed => i = Len(acts)
  /\ Len(acts) < Len(Script(a, d)) => \E i \in 1 .. Len(acts) : acts[i].landed

(***************************************************************************)
(* While a case is played without a diagnoser, what was done is what the   *)
(* script says so far, and what is about to be done is the next of it.     *)
(***************************************************************************)
Scripted ==
  arm # "agent" =>
    LET script == Script(arm, dealt)
    IN /\ notices = 0
       /\ Keeps(taken, arm, setting.world, dealt)
       /\ pc = "act" => /\ step < Len(script)
                        /\ chosen.iv = script[step + 1].iv
                        /\ chosen.at = case.event.occurred
                                         + script[step + 1].after
       /\ pc \in {"observe", "done"} /\ Landings = {} =>
            Len(taken) = Len(script)

(***************************************************************************)
(* What a finished case adds to its arm, from its actions alone, and from  *)
(* the one way there is to finish it.                                      *)
(***************************************************************************)
PlayedOf(d, acts) ==
  LET end == Resolve(Hidden(d), acts)
  IN [recovered |-> end.recovered,
      attributable |-> end.attributable,
      anyway |-> Hidden(d).anyway,
      cost |-> end.cost,
      discretionary |-> MessagesAmong(acts, Len(acts)),
      reviews |->
        Cardinality({i \in DOMAIN acts : acts[i].iv = "escalate_human"})]

Fate(a, w, d) == PlayedOf(d, CHOOSE acts : Finished(acts, a, w, d))

(***************************************************************************)
(* A script is a sequence of steps: of few, none from a promise and none   *)
(* a mandatory notice.                                                     *)
(***************************************************************************)
LEMMA ScriptReads ==
  ASSUME NEW a, NEW d
  PROVE  /\ Script(a, d) \in Seq(Steps)
         /\ Len(Script(a, d)) \in 0 .. 5
         /\ a # "naive" => Len(Script(a, d)) = 0
         /\ \A i \in 1 .. Len(Script(a, d)) :
              /\ Script(a, d)[i] \in Steps
              /\ ~Script(a, d)[i].fromPromise
              /\ Script(a, d)[i].iv # "pre_debit_notice"
<1>1. CASE a = "naive"
  <2> DEFINE plan == NaivePlan(d.event)
  <2>1. Script(a, d) = plan
    BY <1>1 DEF Script
  <2>2. plan \in Seq(Steps)
    BY NaivePlanTyped
  <2>3. Len(plan) \in 0 .. 5
    BY DEF NaivePlan
  <2>4. \A i \in 1 .. Len(plan) :
          ~plan[i].fromPromise /\ plan[i].iv # "pre_debit_notice"
    <3> TAKE i \in 1 .. Len(plan)
    <3> QED
      BY DEF NaivePlan, Silent, Message
  <2> HIDE DEF plan
  <2>5. \A i \in 1 .. Len(plan) : plan[i] \in Steps
    BY <2>2
  <2> QED
    BY <1>1, <2>1, <2>2, <2>3, <2>4, <2>5
<1>2. CASE a # "naive"
  <2>1. Script(a, d) = << >>
    BY <1>2 DEF Script
  <2>2. << >> \in Seq(Steps) /\ Len(<< >>) = 0
    OBVIOUS
  <2> QED
    BY <2>1, <2>2
<1> QED
  BY <1>1, <1>2

(***************************************************************************)
(* What is decided in an arm without a diagnoser is decided in the naive   *)
(* arm, and is the next step of its script.                                *)
(***************************************************************************)
LEMMA ScriptOffered ==
  ASSUME BatchInv, RunInv, arm # "agent", Deciding
  PROVE  LET script == Script(arm, dealt)
         IN /\ arm = "naive"
            /\ step \in Nat /\ step < Len(script)
            /\ Offer.iv = script[step + 1].iv
            /\ Offer.at = case.event.occurred + script[step + 1].after
<1> DEFINE script == Script(arm, dealt)
<1>1. /\ TypeInv /\ case = Hidden(dealt) /\ arm \in Arms /\ step \in Nat
  BY DealtOf DEF BatchInv, Loop, TypeInv, TypeOK
<1>2. arm = "naive"
  BY <1>1, ControlNeverDecides, ThreeArms
<1>3. /\ working.surface = case.event.surface
      /\ working.occurred = case.event.occurred
  BY <1>1, CurrentFields
     DEF RunInv, ContextInv, ContextIsCurrent, CurrentReads, Deciding
<1>4. working.surface = dealt.event.surface
  BY <1>1, <1>3 DEF Hidden
<1>5. Plan = script
  BY <1>2, <1>4 DEF Plan, Script, NaivePlan
<1>6. script \in Seq(Steps) /\ Len(script) \in Nat
  BY ScriptReads
<1> HIDE DEF script
<1>7. step < Len(script)
  BY <1>1, <1>5, <1>6 DEF Deciding, Exhausted
<1>8. step + 1 \in 1 .. Len(script)
  BY <1>1, <1>6, <1>7
<1>9. ~script[step + 1].fromPromise
  BY <1>8, ScriptReads DEF script
<1>10. /\ Offer.iv = script[step + 1].iv
       /\ Offer.at = case.event.occurred + script[step + 1].after
  BY <1>3, <1>5, <1>9 DEF Offer, Propose, Anchor
<1> QED
  BY <1>1, <1>2, <1>7, <1>10 DEF script

(***************************************************************************)
(* A deed is what the step of the script says.                             *)
(***************************************************************************)
LEMMA DeedIsTheStep ==
  ASSUME NEW w, NEW d, NEW script, NEW i
  PROVE  Deed(w, d, script, i).iv = script[i].iv
BY DEF Deed

(***************************************************************************)
(* The messages among the first steps of a script are those among the      *)
(* actions that were taken from it.                                        *)
(***************************************************************************)
LEMMA SameMessages ==
  ASSUME NEW x, NEW y, NEW n \in Nat, \A i \in 1 .. n : x[i].iv = y[i].iv
  PROVE  MessagesAmong(x, n) = MessagesAmong(y, n)
<1>1. {i \in 1 .. n : x[i].iv \in Contacting}
        = {i \in 1 .. n : y[i].iv \in Contacting}
  OBVIOUS
<1> QED
  BY <1>1 DEF MessagesAmong

(***************************************************************************)
(* The action taken is the next deed of the script: it consumes the draw   *)
(* of its step, tired by the messages before it, and it lands as the world *)
(* says.                                                                   *)
(***************************************************************************)
LEMMA ActScripted ==
  ASSUME BatchInv, RunInv, Scripted, Play, Act, arm # "agent"
  PROVE  /\ Keeps(taken', arm, setting.world, dealt)
         /\ notices' = notices
<1> DEFINE script == Script(arm, dealt)
           k == Len(taken)
           w == setting.world
           d == dealt
<1>1. /\ TypeInv /\ pc = "act" /\ case.event = dealt.event
  BY DealtOf DEF BatchInv, Loop, Act, Hidden
<1>2. /\ script \in Seq(Steps) /\ Len(script) \in Nat
      /\ step = k /\ k \in Nat /\ taken \in Seq(ActRecords)
      /\ step < Len(script)
      /\ chosen.iv = script[k + 1].iv
      /\ chosen.at = d.event.occurred + script[k + 1].after
  BY <1>1, ScriptReads
     DEF Scripted, RunInv, ReplayInv, OnlyTheLastLands, TypeInv, TypeOK
<1>3. PICK landed \in BOOLEAN :
        taken' = Append(taken, [iv |-> chosen.iv, at |-> chosen.at,
                                draw |-> step, before |-> ContactsBefore,
                                landed |-> landed])
  BY DEF Act
<1> DEFINE r == [iv |-> chosen.iv, at |-> chosen.at, draw |-> step,
                 before |-> ContactsBefore, landed |-> landed]
<1>4. r \in ActRecords
  BY <1>1 DEF TypeInv, TypeOK, Proposals, ContactsBefore, ActRecords
<1>5. /\ r.landed = landed /\ taken' = Append(taken, r)
  BY <1>3
<1> HIDE DEF r
<1>6. /\ taken' \in Seq(ActRecords) /\ Len(taken') = k + 1
      /\ taken'[k + 1] = r /\ \A i \in 1 .. k : taken'[i] = taken[i]
  BY <1>2, <1>4, <1>5
<1>7. landed = (d.draws[k] < Chance(w, d, chosen.iv, chosen.at, ContactsBefore))
  <2>1. LastTaken'.landed = Lands
    BY <1>1 DEF Play
  <2>2. LastTaken' = r
    BY <1>6 DEF LastTaken
  <2> QED
    BY <1>2, <1>5, <2>1, <2>2 DEF Lands
<1>8. \A i \in 1 .. k : taken[i] = Deed(w, d, script, i)
  BY DEF Scripted, Keeps
<1>9. ContactsBefore = MessagesAmong(script, k)
  <2>1. ContactsBefore = MessagesAmong(taken, k)
    BY DEF RunInv, ReplayInv, TalliesAreSums, ContactsBefore
  <2>2. \A i \in 1 .. k : taken[i].iv = script[i].iv
    BY <1>8, DeedIsTheStep
  <2> HIDE DEF k, script
  <2> QED
    BY <1>2, <2>1, <2>2, SameMessages
<1>10. r = Deed(w, d, script, k + 1)
  <2>1. (k + 1) - 1 = k
    BY <1>2
  <2> HIDE DEF k, script, w, d
  <2> QED
    BY <1>2, <1>7, <1>9, <2>1 DEF r, Deed
<1>11. Keeps(taken', arm, w, d)
  <2> HIDE DEF k, w, d
  <2>1. k + 1 <= Len(script)
    BY <1>2
  <2>2. \A i \in 1 .. k + 1 : taken'[i] = Deed(w, d, script, i)
    <3> TAKE i \in 1 .. k + 1
    <3>1. CASE i = k + 1
      BY <1>6, <1>10, <3>1
    <3>2. CASE i # k + 1
      <4>1. i \in 1 .. k
        BY <1>2, <3>2
      <4> QED
        BY <1>6, <1>8, <4>1
    <3> QED
      BY <3>1, <3>2
  <2> QED
    BY <1>6, <2>1, <2>2 DEF Keeps, w, d
<1>12. chosen.iv # "pre_debit_notice"
  <2>1. k + 1 \in 1 .. Len(script)
    BY <1>2
  <2> QED
    BY <1>2, <2>1, ScriptReads
<1>13. notices' = notices
  <2>1. notices \in Nat
    BY <1>1 DEF TypeInv, TypeOK
  <2> QED
    BY <1>12, <2>1 DEF Act
<1> QED
  BY <1>11, <1>13

(***************************************************************************)
(* Every step of a case keeps to the script.                               *)
(***************************************************************************)
LEMMA PlayScripted ==
  ASSUME BatchInv, BatchInv', RunInv, RunInv', Scripted, Play \/ Fail
  PROVE  Scripted'
<1>1. /\ dealt' = dealt /\ setting' = setting /\ arm' = arm /\ case' = case
  BY DEF Play, Fail, batch, dealt, setting, Advance, Abort, Detect, Diagnose,
     Stop, Permit, Defer, Override, Choose, Halt, Act, Record, Observe, given
<1> SUFFICES ASSUME arm # "agent" PROVE Scripted'
  BY <1>1 DEF Scripted
<1> DEFINE script == Script(arm, dealt)
           kept(acts) == Keeps(acts, arm, setting.world, dealt)
           aimed == /\ step < Len(script)
                    /\ chosen.iv = script[step + 1].iv
                    /\ chosen.at = case.event.occurred + script[step + 1].after
           ended == Landings = {} => Len(taken) = Len(script)
<1>2. /\ notices = 0 /\ kept(taken)
      /\ pc = "act" => aimed
      /\ pc \in {"observe", "done"} => ended
  BY DEF Scripted
<1>3. script' = script
  BY <1>1
<1>4. ASSUME notices' = 0, kept(taken'), pc' = "act" => aimed',
             pc' \in {"observe", "done"} => ended'
      PROVE  Scripted'
  <2> HIDE DEF kept, aimed, ended, script
  <2>1. (Keeps(taken, arm, setting.world, dealt))' = kept(taken')
    BY <1>1 DEF kept, Keeps, Script, Deed
  <2> QED
    BY <1>4, <2>1 DEF Scripted, aimed, ended, script
<1>5. CASE Play /\ Act
  <2>1. kept(taken') /\ notices' = notices
    BY <1>5, ActScripted
  <2>2. pc' = "record"
    BY <1>5 DEF Act
  <2> QED
    BY <1>2, <1>4, <2>1, <2>2
<1>6. CASE ~Act /\ (Permit \/ Defer \/ Override \/ Halt)
  <2>1. Deciding /\ taken' = taken /\ notices' = notices /\ step' = step
    BY <1>6 DEF Permit, Defer, Override, Choose, Halt, tallies
  <2>2. /\ arm = "naive" /\ step < Len(script)
        /\ Offer.iv = script[step + 1].iv
        /\ Offer.at = case.event.occurred + script[step + 1].after
    BY <2>1, ScriptOffered
  <2>3. chosen' = Offer /\ pc' = "act"
    BY <1>6, <2>2 DEF Permit, Defer, Override, Choose, Halt, Enforces
  <2>4. aimed'
    BY <1>1, <1>3, <2>1, <2>2, <2>3
  <2> HIDE DEF script, aimed, kept, ended
  <2> QED
    BY <1>2, <1>4, <2>1, <2>3, <2>4
<1>7. CASE Stop
  <2>1. /\ UNCHANGED <<taken, notices, step>> /\ pc = "loop" /\ pc' = "observe"
        /\ Exhausted
    BY <1>7 DEF Stop, tallies
  <2> DEFINE n == Len(script)
             m == Len(taken)
  <2>2. n \in 0 .. 5 /\ step = m /\ m \in Nat /\ m <= n
    <3>1. step = Len(taken) /\ taken \in Seq(ActRecords)
      BY <2>1 DEF RunInv, ReplayInv, OnlyTheLastLands, BatchInv, Loop, TypeInv,
         TypeOK
    <3> QED
      BY <1>2, <3>1, ScriptReads DEF Keeps
  <2>3. m = n
    <3>1. CASE arm = "naive"
      <4>1. Plan = script
        <5>1. working.surface = dealt.event.surface
          BY <2>1, CurrentFields, DealtOf
             DEF RunInv, ContextInv, ContextIsCurrent, CurrentReads, BatchInv,
                 Loop, Hidden
        <5> QED
          BY <3>1, <5>1 DEF Plan, Script, NaivePlan
      <4>2. StepLimit = 5
        BY <3>1 DEF StepLimit
      <4>3. step >= 5 \/ step >= n
        <5> HIDE DEF script
        <5> QED
          BY <2>1, <4>1, <4>2 DEF Exhausted
      <4> HIDE DEF n, m
      <4> QED
        BY <2>2, <4>3
    <3>2. CASE arm # "naive"
      <4>1. n = 0
        BY <3>2, ScriptReads
      <4> HIDE DEF n, m
      <4> QED
        BY <2>2, <4>1
    <3> QED
      BY <3>1, <3>2
  <2>4. ended'
    BY <1>3, <2>1, <2>3
  <2> HIDE DEF script, aimed, kept, ended
  <2> QED
    BY <1>2, <1>4, <2>1, <2>4
<1>8. CASE Record
  <2>1. /\ UNCHANGED <<taken, notices>> /\ pc = "record"
        /\ (pc' = "observe" /\ LastTaken.landed) \/ pc' = "loop"
    BY <1>8 DEF Record, tallies
  <2>2. pc' = "observe" => ended'
    <3>1. Len(taken) \in DOMAIN taken
      BY <2>1 DEF BatchInv, Loop, TypeInv, TypeOK, Recording
    <3>2. pc' = "observe" => Landings' # {}
      BY <2>1, <3>1 DEF Landings, LastTaken
    <3> QED
      BY <3>2
  <2> HIDE DEF script, aimed, kept, ended
  <2> QED
    BY <1>2, <1>4, <2>1, <2>2
<1>9. CASE Observe
  <2>1. UNCHANGED <<taken, notices>> /\ pc = "observe" /\ pc' = "done"
    BY <1>9 DEF Observe, tallies
  <2>2. ended'
    BY <1>2, <1>3, <2>1 DEF Landings
  <2> HIDE DEF script, aimed, kept, ended
  <2> QED
    BY <1>2, <1>4, <2>1, <2>2
<1>10. CASE Detect \/ Diagnose \/ Abort
  <2>1. UNCHANGED <<taken, notices>> /\ pc' \in {"diagnose", "loop", "aborted"}
    BY <1>10 DEF Detect, Diagnose, Abort, tallies
  <2> HIDE DEF script, aimed, kept, ended
  <2> QED
    BY <1>2, <1>4, <2>1
<1> HIDE DEF script, aimed, kept, ended
<1> QED
  BY <1>5, <1>6, <1>7, <1>8, <1>9, <1>10 DEF Play, Fail, Advance

(***************************************************************************)
(* A case that begins has kept to its script so far.                       *)
(***************************************************************************)
LEMMA FreshScripted ==
  ASSUME taken = << >>, notices = 0, pc = "detect"
  PROVE  Scripted
<1>1. << >> \in Seq(ActRecords) /\ Len(<< >>) = 0
  OBVIOUS
<1>2. Len(Script(arm, dealt)) \in 0 .. 5
  BY ScriptReads
<1>3. Keeps(taken, arm, setting.world, dealt)
  BY <1>1, <1>2 DEF Keeps
<1> QED
  BY <1>3 DEF Scripted

(***************************************************************************)
(* Every step of a batch does, ...                                         *)
(***************************************************************************)
LEMMA BatchStepScripted ==
  ASSUME BatchInv, BatchInv', RunInv, RunInv', Scripted, [BatchNext]_everything
  PROVE  Scripted'
<1>1. CASE Play \/ Fail
  BY <1>1, PlayScripted
<1>2. CASE NextCase \/ NextArm \/ NextBatch
  <2>1. PICK d, a : Launch(d, a)
    BY <1>2 DEF NextCase, NextArm, NextBatch
  <2>2. (taken = << >> /\ notices = 0 /\ pc = "detect")'
    BY <2>1 DEF Launch
  <2>3. (taken = << >> /\ notices = 0 /\ pc = "detect" => Scripted)'
    BY FreshScripted, PTL
  <2> QED
    BY <2>2, <2>3
<1>3. CASE Conclude \/ UNCHANGED everything
  <2>1. UNCHANGED <<arm, notices, taken, pc, step, chosen, case>>
        /\ dealt' = dealt /\ setting' = setting
    BY <1>3 DEF Conclude, everything, batch, vars, dealt, setting
  <2>2. Landings' = Landings
    BY <2>1 DEF Landings
  <2> QED
    BY <2>1, <2>2 DEF Scripted, Keeps, Script, Deed
<1> QED
  BY <1>1, <1>2, <1>3 DEF BatchNext, Proceed

(***************************************************************************)
(* ... and so the script is kept throughout.                               *)
(***************************************************************************)
LEMMA BatchScripted == BatchSpec => []Scripted
<1>1. BatchInit => Scripted
  BY FreshScripted DEF BatchInit, Begin
<1>2. BatchInv /\ BatchInv' /\ RunInv /\ RunInv' /\ Scripted
        /\ [BatchNext]_everything => Scripted'
  BY BatchStepScripted
<1> QED
  BY <1>1, <1>2, BatchInvHolds, BatchRuns, PTL DEF BatchSpec

(***************************************************************************)
(* Of two ways to finish a script neither ends before the other: an action *)
(* that landed in one would have landed in the other.                      *)
(***************************************************************************)
LEMMA FinishedNoSooner ==
  ASSUME NEW x, NEW y, NEW a, NEW w, NEW d,
         Finished(x, a, w, d), Finished(y, a, w, d)
  PROVE  ~(Len(x) < Len(y))
<1> DEFINE script == Script(a, d)
<1> SUFFICES ASSUME Len(x) < Len(y) PROVE FALSE
  OBVIOUS
<1>1. /\ x \in Seq(ActRecords) /\ y \in Seq(ActRecords)
      /\ Len(y) <= Len(script)
      /\ \A i \in 1 .. Len(x) : x[i] = Deed(w, d, script, i)
      /\ \A i \in 1 .. Len(y) : y[i] = Deed(w, d, script, i)
      /\ \A i \in 1 .. Len(y) : y[i].landed => i = Len(y)
      /\ Len(x) < Len(script) => \E i \in 1 .. Len(x) : x[i].landed
  BY DEF Finished, Keeps
<1>2. script \in Seq(Steps)
  BY ScriptReads
<1> HIDE DEF script
<1>3. Len(x) < Len(script)
  BY <1>1, <1>2
<1>4. PICK i \in 1 .. Len(x) : x[i].landed
  BY <1>1, <1>3
<1>5. i \in 1 .. Len(y) /\ i # Len(y)
  BY <1>1
<1>6. y[i] = x[i]
  BY <1>1, <1>5
<1> QED
  BY <1>1, <1>4, <1>5, <1>6

(***************************************************************************)
(* So there is one way to finish a script.                                 *)
(***************************************************************************)
LEMMA FinishedOnce ==
  ASSUME NEW x, NEW y, NEW a, NEW w, NEW d,
         Finished(x, a, w, d), Finished(y, a, w, d)
  PROVE  x = y
<1>1. /\ x \in Seq(ActRecords) /\ y \in Seq(ActRecords)
      /\ \A i \in 1 .. Len(x) : x[i] = Deed(w, d, Script(a, d), i)
      /\ \A i \in 1 .. Len(y) : y[i] = Deed(w, d, Script(a, d), i)
  BY DEF Finished, Keeps
<1>2. Len(x) = Len(y)
  BY <1>1, FinishedNoSooner
<1>3. \A i \in 1 .. Len(x) : x[i] = y[i]
  BY <1>1, <1>2
<1> QED
  BY <1>1, <1>2, <1>3

(***************************************************************************)
(* So a case played to its end adds to its arm what it was bound to.       *)
(***************************************************************************)
LEMMA DoneAsFated ==
  ASSUME BatchInv, RunInv, Scripted, pc = "done", arm # "agent"
  PROVE  Played = Fate(arm, setting.world, dealt)
<1> DEFINE w == setting.world
           right(acts) == Finished(acts, arm, w, dealt)
<1>1. /\ TypeInv /\ case = Hidden(dealt)
      /\ taken \in Seq(ActRecords) /\ contacts \in Nat
      /\ DOMAIN taken = 1 .. Len(taken)
  BY DealtOf DEF BatchInv, Loop, TypeInv, TypeOK
<1>2. right(taken)
  <2>1. /\ Keeps(taken, arm, w, dealt)
        /\ Landings = {} => Len(taken) = Len(Script(arm, dealt))
    BY DEF Scripted
  <2>2. Landings \subseteq {Len(taken)}
    <3>1. ReplayInv
      BY Zenon DEF RunInv
    <3>2. OnlyTheLastLands
      BY <3>1, Zenon DEF ReplayInv
    <3> QED
      BY <3>2, Zenon DEF OnlyTheLastLands
  <2>3. \A i \in 1 .. Len(taken) : taken[i].landed => i = Len(taken)
    BY <1>1, <2>2 DEF Landings
  <2>4. Landings # {} => \E i \in 1 .. Len(taken) : taken[i].landed
    BY <1>1 DEF Landings
  <2>5. Len(taken) < Len(Script(arm, dealt)) => Landings # {}
    BY <2>1, ScriptReads, <1>1
  <2> QED
    BY <2>1, <2>3, <2>4, <2>5 DEF Finished
<1>3. (CHOOSE acts : right(acts)) = taken
  <2> DEFINE one == CHOOSE acts : right(acts)
  <2>1. right(one)
    BY <1>2, Zenon
  <2> HIDE DEF one
  <2>2. one = taken
    BY <1>2, <2>1, FinishedOnce
  <2> QED
    BY <2>2 DEF one
<1>4. Played = PlayedOf(dealt, taken)
  <2>1. outcome = Resolve(Hidden(dealt), taken)
    BY <1>1 DEF RunInv, ReplayInv, Resolved
  <2>2. contacts = MessagesAmong(taken, Len(taken)) /\ notices = 0
    BY DEF RunInv, ReplayInv, TalliesAreSums, Scripted
  <2>3. (IF contacts > notices THEN contacts - notices ELSE 0)
          = MessagesAmong(taken, Len(taken))
    BY <1>1, <2>2
  <2> QED
    BY <1>1, <2>1, <2>3 DEF Played, PlayedOf
<1> QED
  BY <1>3, <1>4 DEF Fate

(***************************************************************************)
(* The control arm does nothing in any world.                              *)
(***************************************************************************)
LEMMA ControlFate ==
  ASSUME NEW w, NEW v, NEW d
  PROVE  Fate("control", w, d) = Fate("control", v, d)
<1>1. ASSUME NEW u, NEW acts
      PROVE  Finished(acts, "control", u, d) <=> acts = << >>
  <2>1. /\ Script("control", d) = << >>
        /\ Len(<< >>) = 0 /\ << >> \in Seq(ActRecords)
    BY DEF Script
  <2>2. Finished(acts, "control", u, d) => acts = << >>
    <3> SUFFICES ASSUME Finished(acts, "control", u, d) PROVE acts = << >>
      OBVIOUS
    <3>1. acts \in Seq(ActRecords) /\ Len(acts) <= 0
      BY <2>1 DEF Finished, Keeps
    <3> QED
      BY <3>1
  <2>3. acts = << >> => Finished(acts, "control", u, d)
    BY <2>1 DEF Finished, Keeps
  <2> QED
    BY <2>2, <2>3
<1>2. (CHOOSE acts : Finished(acts, "control", w, d))
        = (CHOOSE acts : Finished(acts, "control", v, d))
  <2>1. \A acts : Finished(acts, "control", w, d)
                    <=> Finished(acts, "control", v, d)
    BY <1>1
  <2> QED
    BY <2>1, Zenon
<1> QED
  BY <1>2 DEF Fate

-----------------------------------------------------------------------------
(***************************************************************************)
(* r is the result of an arm after the first n cases of the book: f leads  *)
(* to it, one fate after the other.                                        *)
(***************************************************************************)
AddsUp(f, n, a, w) ==
  /\ f[0] = NoResult
  /\ \A k \in 1 .. n : f[k] = Add(f[k - 1], Fate(a, w, book[k]))

Bound(r, n, a, w) == \E f : AddsUp(f, n, a, w) /\ r = f[n]

(***************************************************************************)
(* An arm that has played no case has nothing, ...                         *)
(***************************************************************************)
LEMMA BoundAtFirst ==
  ASSUME NEW a, NEW w
  PROVE  Bound(NoResult, 0, a, w)
<1> DEFINE f == [k \in 0 .. 0 |-> NoResult]
<1>1. f[0] = NoResult
  OBVIOUS
<1> HIDE DEF f
<1>2. AddsUp(f, 0, a, w) /\ NoResult = f[0]
  BY <1>1 DEF AddsUp
<1> QED
  BY <1>2 DEF Bound

(***************************************************************************)
(* ... the next case adds its fate, ...                                    *)
(***************************************************************************)
LEMMA BoundNext ==
  ASSUME NEW r, NEW n \in Nat, NEW a, NEW w, Bound(r, n, a, w)
  PROVE  Bound(Add(r, Fate(a, w, book[n + 1])), n + 1, a, w)
<1>1. PICK f : AddsUp(f, n, a, w) /\ r = f[n]
  BY DEF Bound
<1> DEFINE s == Add(r, Fate(a, w, book[n + 1]))
           g == [k \in 0 .. n + 1 |-> IF k = n + 1 THEN s ELSE f[k]]
<1>2. g[n + 1] = s /\ \A k \in 0 .. n : g[k] = f[k]
  OBVIOUS
<1> HIDE DEF g
<1>3. \A k \in 1 .. n + 1 : g[k] = Add(g[k - 1], Fate(a, w, book[k]))
  <2> TAKE k \in 1 .. n + 1
  <2>1. CASE k = n + 1
    <3>1. k - 1 = n /\ n \in 0 .. n
      BY <2>1
    <3> QED
      BY <1>1, <1>2, <2>1, <3>1
  <2>2. CASE k # n + 1
    <3>1. k \in 1 .. n /\ k \in 0 .. n /\ k - 1 \in 0 .. n
      BY <2>2
    <3> QED
      BY <1>1, <1>2, <3>1 DEF AddsUp
  <2> QED
    BY <2>1, <2>2
<1>4. g[0] = NoResult
  BY <1>1, <1>2 DEF AddsUp
<1>5. AddsUp(g, n + 1, a, w)
  BY <1>3, <1>4 DEF AddsUp
<1> QED
  BY <1>2, <1>5 DEF Bound

(***************************************************************************)
(* ... and so there is one result an arm can have, in all worlds that hold *)
(* the same fates.                                                         *)
(***************************************************************************)
LEMMA BoundOnce ==
  ASSUME NEW r, NEW s, NEW n \in Nat, NEW a, NEW w, NEW v,
         \A d : Fate(a, w, d) = Fate(a, v, d),
         Bound(r, n, a, w), Bound(s, n, a, v)
  PROVE  r = s
<1>1. PICK f : AddsUp(f, n, a, w) /\ r = f[n]
  BY DEF Bound
<1>2. PICK g : AddsUp(g, n, a, v) /\ s = g[n]
  BY DEF Bound
<1>3. Same(f, g, 0)
  BY <1>1, <1>2 DEF AddsUp, Same
<1>4. \A m \in 1 .. n : Same(f, g, m - 1) => Same(f, g, m)
  BY <1>1, <1>2 DEF AddsUp, Same
<1>5. \A m \in 0 .. n : Same(f, g, m)
  BY <1>3, <1>4, RecursionAgrees
<1> QED
  BY <1>1, <1>2, <1>5 DEF Same

-----------------------------------------------------------------------------
(***************************************************************************)
(* The arms without a diagnoser have the results they were bound to have:  *)
(* so far in the batch that runs, and over the whole book in every report. *)
(***************************************************************************)
Unaided == {"control", "naive"}

BoundSoFar(rs, n, w) == \A a \in Unaided : Bound(rs[a], n[a], a, w)

Fated ==
  /\ BoundSoFar(results, Tally, setting.world)
  /\ \A i \in DOMAIN reports : \A a \in Unaided :
       Bound(reports[i].results[a], Len(book), a, reports[i].setting.world)

(***************************************************************************)
(* The case just finished is the next of the fates of its arm.             *)
(***************************************************************************)
LEMMA TalliedBound ==
  ASSUME BatchInv, RunInv, Scripted, Fated, phase = "running", pc = "done"
  PROVE  BoundSoFar(Tallied, [Tally EXCEPT ![arm] = at], setting.world)
<1> DEFINE n == [Tally EXCEPT ![arm] = at]
           w == setting.world
<1>1. /\ Loop /\ results \in [Arms -> ArmResults] /\ Unaided \subseteq Arms
  BY ThreeArms DEF BatchInv, Standing, Accounts, Unaided
<1>2. /\ Tallied[arm] = Add(results[arm], Played)
      /\ \A a \in Arms \ {arm} : Tallied[a] = results[a]
  BY <1>1, TalliedArms
<1>3. /\ n[arm] = at /\ Tally[arm] = at - 1 /\ at - 1 \in Nat
      /\ (at - 1) + 1 = at
      /\ \A a \in Arms \ {arm} : n[a] = Tally[a]
  BY TallyNow
<1> HIDE DEF n
<1>4. ASSUME NEW a \in Unaided
      PROVE  Bound(Tallied[a], n[a], a, w)
  <2>1. Bound(results[a], Tally[a], a, w)
    BY DEF Fated, BoundSoFar
  <2>2. CASE a # arm
    BY <1>1, <1>2, <1>3, <2>1, <2>2
  <2>3. CASE a = arm
    <3>1. Played = Fate(arm, w, book[at])
      BY <2>3, DoneAsFated DEF Unaided, dealt
    <3> DEFINE k == at - 1
    <3>2. k \in Nat /\ k + 1 = at /\ Bound(results[arm], k, arm, w)
      BY <1>3, <2>1, <2>3
    <3> HIDE DEF k, w
    <3>3. Bound(Add(results[arm], Fate(arm, w, book[k + 1])), k + 1, arm, w)
      BY <3>2, BoundNext
    <3> QED
      BY <1>2, <1>3, <2>3, <3>1, <3>2, <3>3
  <2> QED
    BY <2>2, <2>3
<1> QED
  BY <1>4 DEF BoundSoFar, n

(***************************************************************************)
(* What was bound stays bound while the book stays.                        *)
(***************************************************************************)
LEMMA BoundMoves ==
  ASSUME NEW rs, NEW n, NEW w, BoundSoFar(rs, n, w), book' = book,
         results' = rs, Tally' = n, setting'.world = w
  PROVE  BoundSoFar(results, Tally, setting.world)'
BY DEF BoundSoFar, Bound, AddsUp

(***************************************************************************)
(* The reports made already stay as they were bound to be, ...             *)
(***************************************************************************)
LEMMA ReportsStill ==
  ASSUME Fated, book' = book, reports' = reports
  PROVE  \A i \in DOMAIN reports' : \A a \in Unaided :
           Bound(reports[i].results[a], Len(book), a, reports[i].setting.world)'
BY DEF Fated, Bound, AddsUp

(***************************************************************************)
(* ... and so is the one that is made now.                                 *)
(***************************************************************************)
LEMMA ReportsMore ==
  ASSUME BatchInv, RunInv, Scripted, Fated, LastCase,
         book' = book, reports' = Append(reports, Report)
  PROVE  \A i \in DOMAIN reports' : \A a \in Unaided :
           Bound(reports[i].results[a], Len(book), a, reports[i].setting.world)'
<1> DEFINE n == [Tally EXCEPT ![arm] = at]
           Good(r) == \A a \in Unaided :
                        Bound(r.results[a], Len(book), a, r.setting.world)
<1>1. BoundSoFar(Tallied, n, setting.world)
  BY TalliedBound DEF LastCase
<1>2. \A a \in Unaided : n[a] = Len(book)
  BY ReportHolds, ThreeArms DEF Unaided
<1> HIDE DEF n
<1>3. Good(Report)
  BY <1>1, <1>2 DEF BoundSoFar, Report
<1>4. \A i \in DOMAIN reports : Good(reports[i])
  BY DEF Fated
<1>5. reports \in Seq(BatchReports)
  BY DEF BatchInv, Reported
<1> HIDE DEF Good
<1>6. \A i \in DOMAIN reports' : Good(reports'[i])
  <2> DEFINE k == Len(reports)
             rs == Append(reports, Report)
  <2>1. /\ DOMAIN rs = 1 .. k + 1 /\ DOMAIN reports = 1 .. k /\ k \in Nat
        /\ rs[k + 1] = Report /\ \A i \in 1 .. k : rs[i] = reports[i]
    BY <1>5
  <2> HIDE DEF rs, k
  <2>2. \A i \in DOMAIN rs : Good(rs[i])
    BY <1>3, <1>4, <2>1
  <2> QED
    BY <2>2 DEF rs
<1> QED
  BY <1>6 DEF Good, Bound, AddsUp

(***************************************************************************)
(* Every step of a batch keeps the fates.                                  *)
(***************************************************************************)
LEMMA BatchStepFated ==
  ASSUME BatchInv, BatchInv', RunInv, Scripted, Fated, [BatchNext]_everything
  PROVE  Fated'
<1>1. CASE Play \/ Fail \/ UNCHANGED everything
  <2>1. /\ UNCHANGED <<book, at, results, reports, arm>> /\ setting' = setting
    BY <1>1 DEF Play, Fail, batch, everything, vars, setting, Advance, Abort,
       Detect, Diagnose, Stop, Permit, Defer, Override, Choose, Halt, Act,
       Record, Observe, given
  <2>2. (phase' = "reported") <=> (phase = "reported")
    BY <1>1 DEF Play, Fail, batch, everything
  <2>3. Tally' = Tally
    BY <2>1, <2>2 DEF Tally
  <2>4. BoundSoFar(results, Tally, setting.world)'
    BY <2>1, <2>3, BoundMoves DEF Fated
  <2> QED
    BY <2>1, <2>4, ReportsStill DEF Fated
<1>2. CASE NextCase \/ NextArm
  <2>1. /\ UNCHANGED <<book, reports>> /\ setting' = setting
        /\ results' = Tallied /\ phase = "running" /\ pc = "done"
    BY <1>2 DEF NextCase, NextArm, setting
  <2>2. Tally' = [Tally EXCEPT ![arm] = at]
    BY <1>2, TallyNextCase, TallyNextArm
  <2>3. BoundSoFar(results, Tally, setting.world)'
    BY <2>1, <2>2, TalliedBound, BoundMoves
  <2> QED
    BY <2>1, <2>3, ReportsStill DEF Fated
<1>3. CASE NextBatch
  <2>1. /\ book' = book /\ reports' = Append(reports, Report) /\ LastCase
        /\ results' = Nothing
    BY <1>3 DEF NextBatch, Nothing
  <2>2. Tally' = None
    BY <1>3, TallyNextBatch
  <2>3. BoundSoFar(Nothing, None, setting'.world)
    <3>1. \A a \in Unaided : Nothing[a] = NoResult /\ None[a] = 0
      BY ThreeArms DEF Nothing, None, Unaided
    <3> QED
      BY <3>1, BoundAtFirst DEF BoundSoFar
  <2>4. BoundSoFar(results, Tally, setting.world)'
    BY <2>1, <2>2, <2>3, BoundMoves
  <2> QED
    BY <2>1, <2>4, ReportsMore DEF Fated
<1>4. CASE Conclude
  <2>1. /\ book' = book /\ reports' = Append(reports, Report) /\ LastCase
        /\ results' = Tallied /\ setting' = setting
        /\ phase = "running" /\ pc = "done"
    BY <1>4 DEF Conclude, LastCase, setting
  <2>2. Tally' = [Tally EXCEPT ![arm] = at]
    BY <1>4, TallyConclude
  <2>3. BoundSoFar(results, Tally, setting.world)'
    BY <2>1, <2>2, TalliedBound, BoundMoves
  <2> QED
    BY <2>1, <2>3, ReportsMore DEF Fated
<1> QED
  BY <1>1, <1>2, <1>3, <1>4 DEF BatchNext, Proceed

(***************************************************************************)
(* ... and so they hold throughout.                                        *)
(***************************************************************************)
LEMMA BatchFated == BatchSpec => []Fated
<1>1. BatchInit => Fated
  <2> SUFFICES ASSUME BatchInit PROVE Fated
    OBVIOUS
  <2>1. results = Nothing /\ reports = << >> /\ at = 1 /\ arm = "control"
        /\ phase = "running"
    BY DEF BatchInit, Nothing, Begin
  <2>2. Tally = None
    BY <2>1, ThreeArms DEF Tally, None, Earlier
  <2>3. \A a \in Unaided : Nothing[a] = NoResult /\ None[a] = 0
    BY ThreeArms DEF Nothing, None, Unaided
  <2>4. BoundSoFar(results, Tally, setting.world)
    BY <2>1, <2>2, <2>3, BoundAtFirst DEF BoundSoFar
  <2> QED
    BY <2>1, <2>4 DEF Fated
<1>2. BatchInv /\ BatchInv' /\ RunInv /\ Scripted /\ Fated
        /\ [BatchNext]_everything => Fated'
  BY BatchStepFated
<1> QED
  BY <1>1, <1>2, BatchInvHolds, BatchRuns, BatchScripted, PTL DEF BatchSpec

(***************************************************************************)
(* In a comparison only the agent moves: whatever diagnoses the agent is   *)
(* given, the naive arm has one result in every report of one world, and   *)
(* the control arm one result in every world.                              *)
(***************************************************************************)
THEOREM OthersStandStill == BatchSpec => []OnlyTheAgentMoves
<1>1. BatchInv /\ Fated => OnlyTheAgentMoves
  <2> SUFFICES ASSUME BatchInv, Fated,
                      NEW i \in DOMAIN reports, NEW j \in DOMAIN reports
               PROVE  /\ reports[i].results["control"]
                           = reports[j].results["control"]
                      /\ reports[i].setting.world = reports[j].setting.world =>
                           reports[i].results["naive"]
                             = reports[j].results["naive"]
    BY DEF OnlyTheAgentMoves
  <2> DEFINE w == reports[i].setting.world
             v == reports[j].setting.world
             n == Len(book)
             r(a) == reports[i].results[a]
             s(a) == reports[j].results[a]
  <2>1. \A a \in Unaided : Bound(r(a), n, a, w) /\ Bound(s(a), n, a, v)
    BY DEF Fated
  <2>2. n \in Nat
    BY BookOf DEF BatchInv, Playing
  <2>3. \A d : Fate("control", w, d) = Fate("control", v, d)
    BY ControlFate
  <2> HIDE DEF w, v, n, r, s
  <2>4. r("control") = s("control")
    <3>1. /\ Bound(r("control"), n, "control", w)
          /\ Bound(s("control"), n, "control", v)
      BY <2>1 DEF Unaided
    <3> QED
      BY <2>2, <2>3, <3>1, BoundOnce
  <2>5. w = v => r("naive") = s("naive")
    <3> SUFFICES ASSUME w = v PROVE r("naive") = s("naive")
      OBVIOUS
    <3>1. Bound(r("naive"), n, "naive", w) /\ Bound(s("naive"), n, "naive", v)
      BY <2>1 DEF Unaided
    <3>2. \A d : Fate("naive", w, d) = Fate("naive", v, d)
      OBVIOUS
    <3> QED
      BY <2>2, <3>1, <3>2, BoundOnce
  <2> QED
    BY <2>4, <2>5 DEF w, v, r, s
<1> QED
  BY <1>1, BatchInvHolds, BatchFated, PTL
==============================================================================
