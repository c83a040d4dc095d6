------------------------- MODULE RunnerSafetyProofs -------------------------
(***************************************************************************)
(* The safety of Runner, for every policy file, every set of cases, every  *)
(* set of answers of the diagnoser and every review budget: what an arm    *)
(* that enforces the engine's decisions never does to a customer, what the *)
(* ledger says of a case, and that the outcome is the world's own.         *)
(***************************************************************************)
EXTENDS RunnerProofs, FiniteSetTheorems, WellFoundedInduction

-----------------------------------------------------------------------------
(***************************************************************************)
(* What is about to be executed was permitted, and stays so until it is    *)
(* recorded: the clauses other than capacity read nothing that executing   *)
(* the action changes.                                                     *)
(***************************************************************************)
Vetted ==
  pc \in {"act", "record"} /\ Enforces =>
    Blocking(working, diagnosis, chosen, 0, NoCapacity) = {}

(***************************************************************************)
(* The naive plans contain no step that goes to a person.                  *)
(***************************************************************************)
NaiveNeverEscalates ==
  pc = "act" /\ ~Enforces => chosen.iv # "escalate_human"

PermitInv == ActsArePermitted /\ Vetted /\ NaiveNeverEscalates /\ ReviewBudgetHolds

(***************************************************************************)
(* What passes every clause passes every clause but capacity.              *)
(***************************************************************************)
LEMMA CapacityAside ==
  ASSUME NEW ev, NEW dx, NEW pr, NEW used0, NEW limit0,
         Blocking(ev, dx, pr, used0, limit0) = {}
  PROVE  Blocking(ev, dx, pr, 0, NoCapacity) = {}
<1>1. ~CapacityBlocks(pr, 0, NoCapacity)
  BY DEF CapacityBlocks
<1>2. QED
  BY <1>1, BlockingCites, ClauseIsCited

(***************************************************************************)
(* No step of the naive plans goes to a person.                            *)
(***************************************************************************)
LEMMA NaivePlanEscalatesNothing ==
  ASSUME NEW ev, NEW i \in 1 .. Len(NaivePlan(ev))
  PROVE  NaivePlan(ev)[i].iv # "escalate_human"
BY DEF NaivePlan, Silent, Message

(***************************************************************************)
(* Nothing is chosen yet and the budget is not overdrawn.                  *)
(***************************************************************************)
LEMMA InitPermit == Init => PermitInv
<1> SUFFICES ASSUME Init PROVE PermitInv
  OBVIOUS
<1>1. pc = "detect"
  BY DEF Init, Begin
<1>2. ReviewBudgetHolds
  BY RunnerAssumption DEF Init, ReviewBudgetHolds, NoCapacity
<1>3. QED
  BY <1>1, <1>2 DEF PermitInv, ActsArePermitted, Vetted, NaiveNeverEscalates

(***************************************************************************)
(* A step that touches nothing the engine judged, or leaves the loop.      *)
(***************************************************************************)
LEMMA ElsewherePermit ==
  ASSUME PermitInv, pc' \notin {"act", "record"}, used' = used, limit' = limit
  PROVE  PermitInv'
BY DEF PermitInv, ActsArePermitted, Vetted, NaiveNeverEscalates, ReviewBudgetHolds

(***************************************************************************)
(* A permitted proposal is chosen, or one of the naive plan.               *)
(***************************************************************************)
LEMMA ChoosePermit ==
  ASSUME PermitInv, NEW pr, Choose(pr),
         Enforces => Blocking(working, diagnosis, pr, used, limit) = {},
         ~Enforces => pr.iv # "escalate_human"
  PROVE  PermitInv'
<1>1. ReviewBudgetHolds'
  BY DEF Choose, given, tallies, PermitInv, ReviewBudgetHolds
<1>2. ActsArePermitted' /\ NaiveNeverEscalates'
  BY DEF Choose, given, tallies, ActsArePermitted, NaiveNeverEscalates, Enforces
<1>3. Vetted'
  <2>1. SUFFICES ASSUME Enforces
                 PROVE  Blocking(working, diagnosis, pr, 0, NoCapacity) = {}
    BY DEF Choose, given, Vetted, Enforces
  <2>2. QED
    BY <2>1, CapacityAside
<1>4. QED
  BY <1>1, <1>2, <1>3 DEF PermitInv

(***************************************************************************)
(* The review consumed by executing an escalation is one the engine found  *)
(* in the budget.                                                          *)
(***************************************************************************)
LEMMA ActPermit ==
  ASSUME TypeInv, PermitInv, Act
  PROVE  PermitInv'
<1>1. ReviewBudgetHolds'
  <2>1. CASE chosen.iv = "escalate_human" /\ limit # NoCapacity
    <3>1. Enforces
      BY <2>1 DEF PermitInv, NaiveNeverEscalates, Act
    <3>2. Blocking(working, diagnosis, chosen, used, limit) = {}
      BY <3>1 DEF PermitInv, ActsArePermitted, Act
    <3>3. ~CapacityBlocks(chosen, used, limit)
      BY <3>2, ClauseIsCited
    <3>4. used \in Nat /\ limit \in Nat
      BY <2>1, RunnerAssumption DEF TypeInv, TypeOK
    <3>5. used < limit
      BY <2>1, <3>3, <3>4 DEF CapacityBlocks
    <3>6. QED
      BY <2>1, <3>4, <3>5 DEF Act, given, ReviewBudgetHolds
  <2>2. CASE ~(chosen.iv = "escalate_human" /\ limit # NoCapacity)
    <3>1. used' = used /\ limit' = limit
      BY <2>2 DEF Act, given, TypeInv, TypeOK
    <3>2. QED
      BY <3>1 DEF PermitInv, ReviewBudgetHolds
  <2>3. QED
    BY <2>1, <2>2
<1>2. pc = "act" /\ pc' = "record"
  BY DEF Act
<1>3. Vetted'
  BY <1>2 DEF PermitInv, Vetted, Act, given, Enforces
<1>4. QED
  BY <1>1, <1>2, <1>3 DEF PermitInv, ActsArePermitted, NaiveNeverEscalates

(***************************************************************************)
(* Every step keeps the invariant.                                         *)
(***************************************************************************)
LEMMA StepPermit == TypeInv /\ PermitInv /\ [Next]_vars => PermitInv'
<1> SUFFICES ASSUME TypeInv, PermitInv, [Next]_vars PROVE PermitInv'
  OBVIOUS
<1>1. CASE Detect
  BY <1>1, ElsewherePermit DEF Detect, given, tallies
<1>2. CASE Diagnose
  BY <1>2, ElsewherePermit DEF Diagnose, given, tallies
<1>3. CASE Stop
  BY <1>3, ElsewherePermit DEF Stop, given, tallies
<1>4. CASE Permit
  <2>1. ~Enforces => Offer.iv # "escalate_human"
    <3>1. SUFFICES ASSUME ~Enforces PROVE Offer.iv # "escalate_human"
      OBVIOUS
    <3>2. Plan = NaivePlan(working)
      BY <3>1 DEF Plan, Enforces
    <3>3. step + 1 \in 1 .. Len(Plan)
      BY <1>4, PlanTyped DEF Permit, Deciding, Exhausted, TypeInv, TypeOK
    <3>4. QED
      BY <3>2, <3>3, NaivePlanEscalatesNothing DEF Offer, Propose
  <2>2. QED
    BY <1>4, <2>1, ChoosePermit DEF Permit, Refused
<1>5. CASE Defer
  <2>1. Offer \in Proposals
    BY <1>5, OfferTyped DEF Defer, Deciding, TypeInv
  <2>2. working \in Events /\ diagnosis \in Diagnoses
    BY DEF TypeInv, TypeOK
  <2>3. Blocking(working, diagnosis, Substitute(Offer), used, limit) = {}
    BY <1>5, <2>1, <2>2, SubstitutePermitted DEF Defer, Refused
  <2>4. QED
    BY <1>5, <2>3, ChoosePermit DEF Defer
<1>6. CASE Override
  <2>1. Plan = NaivePlan(working)
    BY <1>6 DEF Plan, Enforces, Override
  <2>2. step + 1 \in 1 .. Len(Plan)
    BY <1>6, PlanTyped DEF Override, Deciding, Exhausted, TypeInv, TypeOK
  <2>3. Offer.iv # "escalate_human"
    BY <2>1, <2>2, NaivePlanEscalatesNothing DEF Offer, Propose
  <2>4. QED
    BY <1>6, <2>3, ChoosePermit DEF Override
<1>7. CASE Halt
  BY <1>7, ElsewherePermit DEF Halt, given, tallies
<1>8. CASE Act
  BY <1>8, ActPermit
<1>9. CASE Record
  BY <1>9, ElsewherePermit DEF Record, given, tallies
<1>10. CASE Observe
  BY <1>10, ElsewherePermit DEF Observe, given, tallies
<1>11. CASE Abort
  BY <1>11, ElsewherePermit DEF Abort, given, tallies
<1>12. CASE UNCHANGED vars
  BY <1>12 DEF vars, PermitInv, ActsArePermitted, Vetted, NaiveNeverEscalates,
               ReviewBudgetHolds, Enforces
<1>13. QED
  BY <1>1, <1>2, <1>3, <1>4, <1>5, <1>6, <1>7, <1>8, <1>9, <1>10, <1>11, <1>12
     DEF Next, Advance

(***************************************************************************)
(* The engine is the only thing with authority to act: whatever an         *)
(* enforcing arm executes, the substitute that is never evaluated          *)
(* included, passes every clause of the engine in the context in which it  *)
(* is executed.                                                            *)
(***************************************************************************)
THEOREM OnlyPermittedActs == Spec => []ActsArePermitted
<1>1. PermitInv => ActsArePermitted
  BY DEF PermitInv
<1>2. QED
  BY InitTyped, StepTyped, InitPermit, StepPermit, <1>1, PTL DEF Spec

(***************************************************************************)
(* No arm, the one in shadow mode included, consumes more human reviews    *)
(* than its budget: the agent because the engine refuses the next one, the *)
(* naive arm because its plans never ask for one.                          *)
(***************************************************************************)
THEOREM ReviewsWithinBudget == Spec => []ReviewBudgetHolds
<1>1. PermitInv => ReviewBudgetHolds
  BY DEF PermitInv
<1>2. QED
  BY InitTyped, StepTyped, InitPermit, StepPermit, <1>1, PTL DEF Spec

-----------------------------------------------------------------------------
(***************************************************************************)
(* What was executed, after one action more.                               *)
(***************************************************************************)
LEMMA ExecutedAfter ==
  ASSUME TypeInv, NEW r \in ActRecords, taken' = Append(taken, r), NEW kind
  PROVE  /\ r.iv \in kind => Executed(kind)' = Executed(kind) \cup {Len(taken) + 1}
         /\ r.iv \notin kind => Executed(kind)' = Executed(kind)
         /\ Executed(kind) \subseteq 1 .. Len(taken)
<1>1. taken \in Seq(ActRecords)
  BY DEF TypeInv, TypeOK
<1>2. /\ DOMAIN taken = 1 .. Len(taken)
      /\ DOMAIN taken' = 1 .. Len(taken) + 1
      /\ Len(taken) \in Nat
  BY <1>1
<1>3. /\ \A i \in 1 .. Len(taken) : taken'[i] = taken[i]
      /\ taken'[Len(taken) + 1] = r
  BY <1>1
<1>4. Executed(kind)' = {i \in 1 .. Len(taken) + 1 : taken'[i].iv \in kind}
  BY <1>2 DEF Executed
<1>5. Executed(kind) = {i \in 1 .. Len(taken) : taken[i].iv \in kind}
  BY <1>2 DEF Executed
<1>6. QED
  BY <1>2, <1>3, <1>4, <1>5

(***************************************************************************)
(* The executed actions of a kind are finitely many.                       *)
(***************************************************************************)
LEMMA ExecutedCounted ==
  ASSUME TypeInv, NEW kind
  PROVE  IsFiniteSet(Executed(kind)) /\ Cardinality(Executed(kind)) \in Nat
<1>1. Executed(kind) \subseteq 1 .. Len(taken) /\ Len(taken) \in Nat
  BY DEF TypeInv, TypeOK, Executed
<1>2. IsFiniteSet(1 .. Len(taken))
  BY <1>1, FS_Interval
<1>3. QED
  BY <1>1, <1>2, FS_Subset, FS_CardinalityType

(***************************************************************************)
(* The count of the executed actions of a kind, after one action more.     *)
(***************************************************************************)
LEMMA CountAfter ==
  ASSUME TypeInv, NEW r \in ActRecords, taken' = Append(taken, r), NEW kind
  PROVE  Cardinality(Executed(kind)') =
           Cardinality(Executed(kind)) + (IF r.iv \in kind THEN 1 ELSE 0)
<1>1. CASE r.iv \in kind
  <2>1. Len(taken) + 1 \notin Executed(kind)
    BY ExecutedAfter DEF TypeInv, TypeOK
  <2>2. Executed(kind)' = Executed(kind) \cup {Len(taken) + 1}
    BY <1>1, ExecutedAfter
  <2>3. QED
    BY <1>1, <2>1, <2>2, ExecutedCounted, FS_AddElement
<1>2. CASE r.iv \notin kind
  BY <1>2, ExecutedAfter, ExecutedCounted
<1>3. QED
  BY <1>1, <1>2

(***************************************************************************)
(* A set of positions has at most one last.                                *)
(***************************************************************************)
LEMMA LastChosen ==
  ASSUME NEW S \in SUBSET Nat, NEW i \in S, \A j \in S : j <= i
  PROVE  (CHOOSE k \in S : \A j \in S : j <= k) = i
<1> DEFINE last == CHOOSE k \in S : \A j \in S : j <= k
<1>1. \E k \in S : \A j \in S : j <= k
  OBVIOUS
<1>2. last \in S /\ \A j \in S : j <= last
  BY <1>1, Zenon
<1> HIDE DEF last
<1>3. last <= i /\ i <= last
  BY <1>2
<1>4. last = i
  BY <1>2, <1>3
<1>5. QED
  BY <1>4 DEF last

(***************************************************************************)
(* Among the notices sent, if any, one is the last.                        *)
(***************************************************************************)
Notices == Executed({"pre_debit_notice"})

NoticesEnd ==
  Notices # {} => \E i \in Notices : \A j \in Notices : j <= i

(***************************************************************************)
(* The last notice sent is dated by the last of the notices.               *)
(***************************************************************************)
LEMMA LastNoticeIs ==
  ASSUME TypeInv, NEW i \in Notices, \A j \in Notices : j <= i
  PROVE  LastNotice = taken[i].at
<1>1. Notices \subseteq Nat
  BY DEF Notices, Executed, TypeInv, TypeOK
<1>2. (CHOOSE k \in Notices : \A j \in Notices : j <= k) = i
  BY <1>1, LastChosen
<1>3. QED
  BY <1>2 DEF LastNotice, Notices

(***************************************************************************)
(* The date of the last notice is a date, or none.                         *)
(***************************************************************************)
LEMMA LastNoticeTyped ==
  ASSUME TypeInv, NoticesEnd
  PROVE  LastNotice \in Nat \cup {NoNotice}
<1>1. CASE Notices = {}
  BY <1>1 DEF Notices, LastNotice
<1>2. CASE Notices # {}
  <2>1. PICK i \in Notices : \A j \in Notices : j <= i
    BY <1>2 DEF NoticesEnd
  <2>2. taken[i] \in ActRecords
    BY <2>1 DEF Notices, Executed, TypeInv, TypeOK
  <2>3. QED
    BY <2>1, <2>2, LastNoticeIs DEF ActRecords
<1>3. QED
  BY <1>1, <1>2

(***************************************************************************)
(* After one action more the last notice is that action, or the one it     *)
(* was.                                                                    *)
(***************************************************************************)
LEMMA NoticesAfter ==
  ASSUME TypeInv, NoticesEnd, NEW r \in ActRecords, taken' = Append(taken, r),
         TypeInv'
  PROVE  /\ NoticesEnd'
         /\ LastNotice' = IF r.iv = "pre_debit_notice" THEN r.at ELSE LastNotice
<1>1. /\ taken \in Seq(ActRecords)
      /\ Len(taken) \in Nat
      /\ taken'[Len(taken) + 1] = r
      /\ \A i \in 1 .. Len(taken) : taken'[i] = taken[i]
  BY DEF TypeInv, TypeOK
<1>2. CASE r.iv = "pre_debit_notice"
  <2>1. Notices' = Notices \cup {Len(taken) + 1} /\ Notices \subseteq 1 .. Len(taken)
    BY <1>2, ExecutedAfter DEF Notices
  <2>2. \A j \in Notices' : j <= Len(taken) + 1
    BY <1>1, <2>1
  <2>3. (CHOOSE k \in Notices' : \A j \in Notices' : j <= k) = Len(taken) + 1
    <3>1. Len(taken) + 1 \in Nat /\ Len(taken) + 1 \in Notices'
      BY <1>1, <2>1
    <3>2. Notices' \in SUBSET Nat
      <4>1. \A j \in 1 .. Len(taken) : j \in Nat
        BY <1>1
      <4>2. \A j \in Notices : j \in Nat
        BY <4>1, <2>1
      <4>3. \A j \in Notices' : j \in Nat
        BY <4>2, <3>1, <2>1
      <4>4. QED
        BY <4>3
    <3>3. QED
      BY <3>1, <3>2, <2>2, LastChosen
  <2>4. LastNotice' = r.at
    BY <1>1, <2>1, <2>3 DEF LastNotice, Notices
  <2>5. QED
    BY <1>2, <2>1, <2>2, <2>4 DEF NoticesEnd
<1>3. CASE r.iv # "pre_debit_notice"
  <2>1. Notices' = Notices /\ Notices \subseteq 1 .. Len(taken)
    BY <1>3, ExecutedAfter DEF Notices
  <2>2. CASE Notices = {}
    BY <1>3, <2>1, <2>2 DEF NoticesEnd, LastNotice, Notices
  <2>3. CASE Notices # {}
    <3>1. PICK i \in Notices : \A j \in Notices : j <= i
      BY <2>3 DEF NoticesEnd
    <3>2. LastNotice = taken[i].at
      BY <3>1, LastNoticeIs
    <3>3. (CHOOSE k \in Notices' : \A j \in Notices' : j <= k) = i
      <4>1. Notices' \in SUBSET Nat /\ i \in Notices'
        BY <1>1, <2>1
      <4>2. QED
        BY <4>1, <2>1, <3>1, LastChosen
    <3>4. LastNotice' = taken'[i].at
      BY <2>1, <2>3, <3>3 DEF LastNotice, Notices
    <3>5. QED
      BY <1>1, <1>3, <2>1, <3>1, <3>2, <3>4 DEF NoticesEnd
  <2>4. QED
    BY <2>2, <2>3
<1>4. QED
  BY <1>2, <1>3

-----------------------------------------------------------------------------
(***************************************************************************)
(* The context, by induction: while an action is being recorded, the       *)
(* context is the one that bringing it up to date will make current.       *)
(***************************************************************************)
Fresh == pc \in {"detect", "diagnose"} => taken = << >>

AboutToBeCurrent ==
  pc = "record" => Updated(working, LastTaken.iv, LastTaken.at) = Current

ContextInv == Fresh /\ NoticesEnd /\ ContextIsCurrent /\ AboutToBeCurrent

(***************************************************************************)
(* Two events that agree in every field are one.                           *)
(***************************************************************************)
LEMMA EventsEqual ==
  ASSUME NEW x \in Events, NEW y \in Events,
         x.surface = y.surface, x.occurred = y.occurred, x.amount = y.amount,
         x.attempts = y.attempts, x.contacts = y.contacts,
         x.actions = y.actions, x.failures = y.failures,
         x.noticeAt = y.noticeAt
  PROVE  x = y
BY DEF Events

(***************************************************************************)
(* The current context, field by field.                                    *)
(***************************************************************************)
CurrentReads ==
  /\ Current \in Events
  /\ Current.surface = case.event.surface
  /\ Current.occurred = case.event.occurred
  /\ Current.amount = case.event.amount
  /\ Current.attempts = case.event.attempts + Cardinality(Executed(Billable))
  /\ Current.contacts = case.event.contacts + Cardinality(Executed(Contacting))
  /\ Current.actions = Len(taken)
  /\ Current.failures = case.event.failures
  /\ Current.noticeAt = LastNotice

(***************************************************************************)
(* The fields of the context the actions executed call for.                *)
(***************************************************************************)
LEMMA CurrentFields == TypeInv /\ NoticesEnd => CurrentReads
<1> SUFFICES ASSUME TypeInv, NoticesEnd PROVE CurrentReads
  OBVIOUS
<1> DEFINE ev == case.event
           m  == Cardinality(Executed(Billable))
           n  == Cardinality(Executed(Contacting))
           k  == Len(taken)
           t  == LastNotice
           x  == [ev EXCEPT !.attempts = @ + m, !.contacts = @ + n,
                            !.actions = k, !.noticeAt = t]
<1>1. ev \in Events
  BY RunnerAssumption DEF TypeInv, TypeOK, LatentCases
<1>2. m \in Nat /\ n \in Nat /\ k \in Nat /\ t \in Nat \cup {NoNotice}
  BY ExecutedCounted, LastNoticeTyped DEF TypeInv, TypeOK
<1>3. Current = x
  BY DEF Current
<1>4. /\ x \in Events
      /\ x.surface = ev.surface
      /\ x.occurred = ev.occurred
      /\ x.amount = ev.amount
      /\ x.attempts = ev.attempts + m
      /\ x.contacts = ev.contacts + n
      /\ x.actions = k
      /\ x.failures = ev.failures
      /\ x.noticeAt = t
  <2> HIDE DEF ev, m, n, k, t
  <2>1. ev.attempts + m \in Nat /\ ev.contacts + n \in Nat
    BY <1>1, <1>2 DEF Events
  <2>2. x \in Events
    BY <1>1, <1>2, <2>1 DEF Events
  <2>3. /\ x.surface = ev.surface
        /\ x.occurred = ev.occurred
        /\ x.amount = ev.amount
        /\ x.failures = ev.failures
    BY <1>1 DEF Events
  <2>4. x.attempts = ev.attempts + m
    BY <1>1 DEF Events
  <2>5. x.contacts = ev.contacts + n
    BY <1>1 DEF Events
  <2>6. x.actions = k /\ x.noticeAt = t
    BY <1>1 DEF Events
  <2>7. QED
    BY <2>2, <2>3, <2>4, <2>5, <2>6
<1> HIDE DEF x
<1>5. QED
  BY <1>3, <1>4 DEF CurrentReads

(***************************************************************************)
(* The fields of the context the runner writes.                            *)
(***************************************************************************)
LEMMA UpdatedFields ==
  ASSUME NEW ev \in Events, NEW iv, NEW at \in Nat
  PROVE  LET up == Updated(ev, iv, at) IN
         /\ up \in Events
         /\ up.surface = ev.surface
         /\ up.occurred = ev.occurred
         /\ up.amount = ev.amount
         /\ up.attempts = ev.attempts + (IF iv \in Billable THEN 1 ELSE 0)
         /\ up.contacts = ev.contacts + (IF iv \in Contacting THEN 1 ELSE 0)
         /\ up.actions = ev.actions + 1
         /\ up.failures = ev.failures
         /\ up.noticeAt = IF iv = "pre_debit_notice" THEN at ELSE ev.noticeAt
<1>1. Updated(ev, iv, at) \in Events
  BY UpdatedTyped
<1>2. QED
  BY <1>1 DEF Updated, Events

(***************************************************************************)
(* Executing one action more, the current context is the one brought up to *)
(* date with it.                                                           *)
(***************************************************************************)
LEMMA CurrentAfter ==
  ASSUME TypeInv, TypeInv', NoticesEnd, case' = case,
         NEW r \in ActRecords, taken' = Append(taken, r)
  PROVE  Current' = Updated(Current, r.iv, r.at)
<1>1. NoticesEnd' /\ LastNotice' = IF r.iv = "pre_debit_notice" THEN r.at ELSE LastNotice
  BY NoticesAfter
<1>2. /\ Cardinality(Executed(Billable)') =
            Cardinality(Executed(Billable)) + (IF r.iv \in Billable THEN 1 ELSE 0)
      /\ Cardinality(Executed(Contacting)') =
            Cardinality(Executed(Contacting)) + (IF r.iv \in Contacting THEN 1 ELSE 0)
  BY CountAfter
<1>3. /\ Cardinality(Executed(Billable)) \in Nat
      /\ Cardinality(Executed(Contacting)) \in Nat
      /\ case.event.attempts \in Nat
      /\ case.event.contacts \in Nat
  BY ExecutedCounted, RunnerAssumption DEF TypeInv, TypeOK, LatentCases, Events
<1>4. Len(taken') = Len(taken) + 1
  BY DEF TypeInv, TypeOK
<1>5. CurrentReads /\ CurrentReads'
  <2>1. TypeInv' /\ NoticesEnd' => CurrentReads'
    BY CurrentFields, PTL
  <2>2. QED
    BY <1>1, <2>1, CurrentFields
<1>6. r.at \in Nat
  BY DEF ActRecords
<1> DEFINE up == Updated(Current, r.iv, r.at)
<1>7. Current \in Events
  BY <1>5 DEF CurrentReads
<1>8. /\ up \in Events
      /\ up.surface = Current.surface
      /\ up.occurred = Current.occurred
      /\ up.amount = Current.amount
      /\ up.attempts = Current.attempts + (IF r.iv \in Billable THEN 1 ELSE 0)
      /\ up.contacts = Current.contacts + (IF r.iv \in Contacting THEN 1 ELSE 0)
      /\ up.actions = Current.actions + 1
      /\ up.failures = Current.failures
      /\ up.noticeAt = IF r.iv = "pre_debit_notice" THEN r.at ELSE Current.noticeAt
  BY <1>6, <1>7, UpdatedFields
<1> HIDE DEF up
<1>9. /\ up.surface = Current'.surface
      /\ up.occurred = Current'.occurred
      /\ up.amount = Current'.amount
      /\ up.attempts = Current'.attempts
      /\ up.contacts = Current'.contacts
      /\ up.actions = Current'.actions
      /\ up.failures = Current'.failures
      /\ up.noticeAt = Current'.noticeAt
  <2>1. /\ up.surface = Current'.surface
        /\ up.occurred = Current'.occurred
        /\ up.amount = Current'.amount
        /\ up.failures = Current'.failures
    BY <1>5, <1>8 DEF CurrentReads
  <2>2. up.attempts = Current'.attempts
    <3> DEFINE start == case.event.attempts
               n     == Cardinality(Executed(Billable))
               after == Cardinality(Executed(Billable)')
               one   == IF r.iv \in Billable THEN 1 ELSE 0
    <3>1. up.attempts = start + n + one
      BY <1>5, <1>8 DEF CurrentReads
    <3>2. Current'.attempts = start + after
      BY <1>5 DEF CurrentReads
    <3>3. after = n + one /\ start \in Nat /\ n \in Nat /\ one \in Nat
      BY <1>2, <1>3
    <3> HIDE DEF start, n, after, one
    <3>4. QED
      BY <3>1, <3>2, <3>3
  <2>3. up.contacts = Current'.contacts
    <3> DEFINE start == case.event.contacts
               n     == Cardinality(Executed(Contacting))
               after == Cardinality(Executed(Contacting)')
               one   == IF r.iv \in Contacting THEN 1 ELSE 0
    <3>1. up.contacts = start + n + one
      BY <1>5, <1>8 DEF CurrentReads
    <3>2. Current'.contacts = start + after
      BY <1>5 DEF CurrentReads
    <3>3. after = n + one /\ start \in Nat /\ n \in Nat /\ one \in Nat
      BY <1>2, <1>3
    <3> HIDE DEF start, n, after, one
    <3>4. QED
      BY <3>1, <3>2, <3>3
  <2>4. up.actions = Current'.actions
    BY <1>4, <1>5, <1>8 DEF CurrentReads
  <2>5. up.noticeAt = Current'.noticeAt
    BY <1>1, <1>5, <1>8 DEF CurrentReads
  <2>6. QED
    BY <2>1, <2>2, <2>3, <2>4, <2>5
<1>10. Current' = up
  BY <1>5, <1>8, <1>9, EventsEqual DEF CurrentReads
<1>11. QED
  BY <1>10 DEF up

(***************************************************************************)
(* Executing an action appends one record of it.                           *)
(***************************************************************************)
LEMMA ActAppends ==
  ASSUME TypeInv, Act
  PROVE  \E r \in ActRecords : /\ taken' = Append(taken, r)
                               /\ r.iv = chosen.iv
                               /\ r.at = chosen.at
<1>1. /\ chosen.iv \in Interventions
      /\ chosen.at \in Nat
      /\ step \in Nat
      /\ ContactsBefore \in Nat
  BY DEF TypeInv, TypeOK, Proposals, ContactsBefore
<1>2. PICK landed \in BOOLEAN :
        taken' = Append(taken, [iv |-> chosen.iv, at |-> chosen.at,
                                draw |-> step, before |-> ContactsBefore,
                                landed |-> landed])
  BY DEF Act
<1>3. [iv |-> chosen.iv, at |-> chosen.at, draw |-> step,
       before |-> ContactsBefore, landed |-> landed] \in ActRecords
  BY <1>1 DEF ActRecords
<1>4. QED
  BY <1>2, <1>3

(***************************************************************************)
(* Nothing was executed, and the context is the one of the case.           *)
(***************************************************************************)
LEMMA InitContext == Init => ContextInv
<1> SUFFICES ASSUME Init PROVE ContextInv
  OBVIOUS
<1>1. PICK c \in Cases, a \in Arms : Begin(c, a)
  BY DEF Init
<1>2. pc = "detect" /\ taken = << >> /\ working = case.event /\ case \in Cases
  BY <1>1 DEF Begin
<1>3. case.event \in Events /\ case.event.actions = 0 /\ case.event.noticeAt = NoNotice
  BY <1>2, RunnerAssumption DEF LatentCases
<1>4. \A kind : Executed(kind) = {}
  BY <1>2 DEF Executed
<1>5. Cardinality({}) = 0
  BY FS_EmptySet
<1>6. LastNotice = NoNotice
  BY <1>4 DEF LastNotice
<1>7. Current = case.event
  <2>1. /\ case.event.attempts + 0 = case.event.attempts
        /\ case.event.contacts + 0 = case.event.contacts
        /\ Len(taken) = 0
    BY <1>2, <1>3 DEF Events
  <2>2. QED
    BY <2>1, <1>3, <1>4, <1>5, <1>6 DEF Current, Events
<1>8. QED
  BY <1>2, <1>4, <1>7
     DEF ContextInv, Fresh, NoticesEnd, Notices, ContextIsCurrent, AboutToBeCurrent

(***************************************************************************)
(* A step that executes nothing and leaves the context alone.              *)
(***************************************************************************)
LEMMA ElsewhereContext ==
  ASSUME ContextInv, UNCHANGED <<case, taken, working>>,
         pc' # "record", pc' \in {"detect", "diagnose"} => taken = << >>,
         pc' \in {"detect", "diagnose", "loop", "act"} =>
           pc \in {"detect", "diagnose", "loop", "act"}
  PROVE  ContextInv'
<1>1. Current' = Current /\ Notices' = Notices
  BY DEF Current, Executed, LastNotice, Notices
<1>2. QED
  BY <1>1 DEF ContextInv, Fresh, NoticesEnd, ContextIsCurrent, AboutToBeCurrent

(***************************************************************************)
(* After the action the context lacks that action and nothing else.        *)
(***************************************************************************)
LEMMA ActContext ==
  ASSUME TypeInv, TypeInv', ContextInv, Act
  PROVE  ContextInv'
<1>1. PICK r \in ActRecords : /\ taken' = Append(taken, r)
                              /\ r.iv = chosen.iv
                              /\ r.at = chosen.at
  BY ActAppends
<1>2. pc = "act" /\ pc' = "record" /\ case' = case /\ working' = working
  BY DEF Act, given
<1>3. Current' = Updated(Current, r.iv, r.at) /\ NoticesEnd'
  BY <1>1, <1>2, CurrentAfter, NoticesAfter DEF ContextInv
<1>4. working = Current
  BY <1>2 DEF ContextInv, ContextIsCurrent
<1>5. LastTaken' = r
  BY <1>1 DEF LastTaken, TypeInv, TypeOK
<1>6. Updated(working', LastTaken'.iv, LastTaken'.at) = Current'
  BY <1>2, <1>3, <1>4, <1>5
<1>7. QED
  BY <1>2, <1>3, <1>6 DEF ContextInv, Fresh, ContextIsCurrent, AboutToBeCurrent, Updated, LastTaken

(***************************************************************************)
(* Recording the action brings the context up to date.                     *)
(***************************************************************************)
LEMMA RecordContext ==
  ASSUME TypeInv, ContextInv, Record
  PROVE  ContextInv'
<1>1. /\ pc = "record"
      /\ pc' \in {"loop", "observe"}
      /\ case' = case
      /\ taken' = taken
      /\ pc' = "loop" => working' = Updated(working, LastTaken.iv, LastTaken.at)
  BY DEF Record, given, tallies
<1>2. Current' = Current /\ Notices' = Notices
  BY <1>1 DEF Current, Executed, LastNotice, Notices
<1>3. pc' = "loop" => working' = Current
  BY <1>1 DEF ContextInv, AboutToBeCurrent
<1>4. QED
  BY <1>1, <1>2, <1>3
     DEF ContextInv, Fresh, NoticesEnd, ContextIsCurrent, AboutToBeCurrent

(***************************************************************************)
(* Every step keeps the invariant.                                         *)
(***************************************************************************)
LEMMA StepContext == TypeInv /\ TypeInv' /\ ContextInv /\ [Next]_vars => ContextInv'
<1> SUFFICES ASSUME TypeInv, TypeInv', ContextInv, [Next]_vars PROVE ContextInv'
  OBVIOUS
<1>1. CASE Detect
  BY <1>1, ElsewhereContext DEF Detect, given, tallies, ContextInv, Fresh
<1>2. CASE Diagnose
  BY <1>2, ElsewhereContext DEF Diagnose, given, tallies
<1>3. CASE Stop
  BY <1>3, ElsewhereContext DEF Stop, given, tallies
<1>4. CASE Permit
  BY <1>4, ElsewhereContext DEF Permit, Choose, Deciding, given, tallies
<1>5. CASE Defer
  BY <1>5, ElsewhereContext DEF Defer, Choose, Deciding, given, tallies
<1>6. CASE Override
  BY <1>6, ElsewhereContext DEF Override, Choose, Deciding, given, tallies
<1>7. CASE Halt
  BY <1>7, ElsewhereContext DEF Halt, given, tallies
<1>8. CASE Act
  BY <1>8, ActContext
<1>9. CASE Record
  BY <1>9, RecordContext
<1>10. CASE Observe
  BY <1>10, ElsewhereContext DEF Observe, given, tallies
<1>11. CASE Abort
  BY <1>11, ElsewhereContext DEF Abort, given, tallies
<1>12. CASE UNCHANGED vars
  <2>1. UNCHANGED <<pc, case, taken, working>>
    BY <1>12 DEF vars
  <2>2. Current' = Current /\ Notices' = Notices /\ LastTaken' = LastTaken
    BY <2>1 DEF Current, Executed, LastNotice, Notices, LastTaken
  <2>3. QED
    BY <2>1, <2>2
       DEF ContextInv, Fresh, NoticesEnd, ContextIsCurrent, AboutToBeCurrent, Updated
<1>13. QED
  BY <1>1, <1>2, <1>3, <1>4, <1>5, <1>6, <1>7, <1>8, <1>9, <1>10, <1>11, <1>12
     DEF Next, Advance

(***************************************************************************)
(* Every decision is made, and every action executed, in a context that    *)
(* counts exactly what the case started with and what was executed since:  *)
(* a deferred notice is dated by its execution, no message is missed and   *)
(* none is counted twice.                                                  *)
(***************************************************************************)
THEOREM ContextNeverStale == Spec => []ContextIsCurrent
<1>1. ContextInv => ContextIsCurrent
  BY DEF ContextInv
<1>2. QED
  BY InitTyped, StepTyped, InitContext, StepContext, <1>1, PTL DEF Spec

-----------------------------------------------------------------------------
(***************************************************************************)
(* What an enforcing arm has done to the customer.  Each part follows at   *)
(* an Act from what the engine vetted in the current context; the notices  *)
(* must in addition have been sent at waking hours.                        *)
(***************************************************************************)
NoticesAwake ==
  Enforces => \A i \in DOMAIN taken :
                taken[i].iv \in Contacting => ~InQuietHours(taken[i].at)

CustomerInv == /\ NoticesAwake
               /\ NoticePrecedesPresentation
               /\ PromiseIsHonoured
               /\ CapsHoldOverTheCase

(***************************************************************************)
(* Nothing was executed.                                                   *)
(***************************************************************************)
LEMMA InitCustomer == Init => CustomerInv
<1> SUFFICES ASSUME Init PROVE CustomerInv
  OBVIOUS
<1>1. taken = << >>
  BY DEF Init, Begin
<1>2. DOMAIN taken = {} /\ \A kind : Executed(kind) = {}
  BY <1>1 DEF Executed
<1>3. QED
  BY <1>2 DEF CustomerInv, NoticesAwake, NoticePrecedesPresentation,
              PromiseIsHonoured, CapsHoldOverTheCase

(***************************************************************************)
(* A step that executes nothing, and diagnoses only before anything was    *)
(* executed.                                                               *)
(***************************************************************************)
LEMMA ElsewhereCustomer ==
  ASSUME CustomerInv, UNCHANGED <<case, arm, taken>>,
         diagnosis' = diagnosis \/ taken = << >>
  PROVE  CustomerInv'
<1>1. \A kind : Executed(kind)' = Executed(kind)
  BY DEF Executed
<1>2. NoticesAwake' /\ NoticePrecedesPresentation' /\ CapsHoldOverTheCase'
  BY <1>1 DEF CustomerInv, NoticesAwake, NoticePrecedesPresentation,
              CapsHoldOverTheCase, Enforces
<1>3. PromiseIsHonoured'
  BY DEF CustomerInv, PromiseIsHonoured, Enforces
<1>4. QED
  BY <1>2, <1>3 DEF CustomerInv

(***************************************************************************)
(* A permitted action, judged in a context that is current, breaks no      *)
(* promise, no notice period and no cap.                                   *)
(***************************************************************************)
LEMMA ActCustomer ==
  ASSUME TypeInv, PermitInv, ContextInv, CustomerInv, Act
  PROVE  CustomerInv'
<1>1. PICK r \in ActRecords : /\ taken' = Append(taken, r)
                              /\ r.iv = chosen.iv
                              /\ r.at = chosen.at
  BY ActAppends
<1>2. /\ pc = "act"
      /\ UNCHANGED <<case, arm, diagnosis>>
      /\ Enforces' = Enforces
  BY DEF Act, given, Enforces
<1>3. /\ taken \in Seq(ActRecords)
      /\ Len(taken) \in Nat
      /\ DOMAIN taken = 1 .. Len(taken)
      /\ DOMAIN taken' = 1 .. Len(taken) + 1
      /\ taken'[Len(taken) + 1] = r
      /\ \A i \in 1 .. Len(taken) : taken'[i] = taken[i]
  BY <1>1 DEF TypeInv, TypeOK
<1>4. r.at \in Nat
  BY DEF ActRecords
<1>5. CurrentReads /\ working = Current
  BY <1>2, CurrentFields DEF ContextInv, ContextIsCurrent
<1>6. Enforces => Blocking(working, diagnosis, chosen, used, limit) = {}
  BY <1>2 DEF PermitInv, ActsArePermitted
<1>7. NoticesAwake'
  <2>1. Enforces /\ r.iv \in Contacting => ~InQuietHours(r.at)
    BY <1>1, <1>6, ClauseIsCited DEF QuietBlocks
  <2>2. SUFFICES ASSUME Enforces, NEW i \in 1 .. Len(taken) + 1,
                        taken'[i].iv \in Contacting
                 PROVE  ~InQuietHours(taken'[i].at)
    BY <1>2, <1>3 DEF NoticesAwake
  <2>3. CASE i = Len(taken) + 1
    BY <2>1, <2>2, <2>3, <1>3
  <2>4. CASE i \in 1 .. Len(taken)
    BY <2>2, <2>4, <1>3 DEF CustomerInv, NoticesAwake
  <2>5. QED
    BY <2>3, <2>4, <1>3
<1>8. NoticePrecedesPresentation'
  <2>1. SUFFICES ASSUME Enforces, case.event.surface = "subscriptions",
                        NEW i \in 1 .. Len(taken) + 1,
                        taken'[i].iv \in Billable
                 PROVE  \E j \in 1 .. i - 1 :
                          /\ taken'[j].iv = "pre_debit_notice"
                          /\ ~InQuietHours(taken'[j].at)
                          /\ taken'[i].at - taken'[j].at >= 60 * NoticeHours
    BY <1>2, <1>3 DEF NoticePrecedesPresentation
  <2>2. CASE i \in 1 .. Len(taken)
    <3>1. PICK j \in 1 .. i - 1 :
            /\ taken[j].iv = "pre_debit_notice"
            /\ ~InQuietHours(taken[j].at)
            /\ taken[i].at - taken[j].at >= 60 * NoticeHours
      BY <2>1, <2>2, <1>3 DEF CustomerInv, NoticePrecedesPresentation
    <3>2. taken'[j] = taken[j] /\ taken'[i] = taken[i]
      BY <2>2, <1>3
    <3>3. QED
      BY <3>1, <3>2
  <2>3. CASE i = Len(taken) + 1
    <3>1. chosen.iv \in Billable /\ working.surface = "subscriptions"
      BY <2>1, <2>3, <1>1, <1>3, <1>5 DEF CurrentReads
    <3>2. ~NoticeBlocks(working, chosen)
      BY <2>1, <1>6, ClauseIsCited
    <3>3. /\ LastNotice # NoNotice
          /\ ~(r.at - LastNotice < 60 * NoticeHours)
      BY <3>1, <3>2, <1>1, <1>5 DEF NoticeBlocks, CurrentReads
    <3>4. Notices # {}
      BY <3>3 DEF LastNotice, Notices
    <3>5. PICK j \in Notices : \A k \in Notices : k <= j
      BY <3>4 DEF ContextInv, NoticesEnd
    <3>6. LastNotice = taken[j].at
      BY <3>5, LastNoticeIs
    <3>7. j \in 1 .. Len(taken) /\ taken[j].iv = "pre_debit_notice"
      BY <1>3 DEF Notices, Executed
    <3>8. ~InQuietHours(taken[j].at)
      BY <2>1, <3>7, <1>3 DEF CustomerInv, NoticesAwake, Contacting
    <3>9. taken[j].at \in Nat /\ 60 * NoticeHours \in Nat
      <4>1. NoticeHours \in Nat
        BY PolicyAssumption
      <4>2. taken[j] \in ActRecords
        BY <3>7, <1>3
      <4>3. QED
        BY <4>1, <4>2 DEF ActRecords
    <3>10. r.at - taken[j].at >= 60 * NoticeHours
      BY <3>3, <3>6, <3>9, <1>4
    <3>11. taken'[j] = taken[j] /\ taken'[i] = r /\ j \in 1 .. i - 1
      BY <2>3, <3>7, <1>3
    <3>12. QED
      BY <3>7, <3>8, <3>10, <3>11
  <2>4. QED
    BY <2>2, <2>3, <1>3
<1>9. PromiseIsHonoured'
  <2>1. SUFFICES ASSUME Enforces, case.event.surface = "receivables",
                        diagnosis.promise # NoPromise,
                        NEW i \in 1 .. Len(taken) + 1,
                        taken'[i].iv \in Contacting
                 PROVE  taken'[i].at >= case.event.occurred
                                        + 1440 * diagnosis.promise + 60 * GraceHours
    BY <1>2, <1>3 DEF PromiseIsHonoured
  <2>2. CASE i \in 1 .. Len(taken)
    BY <2>1, <2>2, <1>3 DEF CustomerInv, PromiseIsHonoured
  <2>3. CASE i = Len(taken) + 1
    <3>1. ~PromiseBlocks(working, diagnosis, chosen)
      BY <2>1, <1>6, ClauseIsCited
    <3>2. /\ working.surface = "receivables"
          /\ working.occurred = case.event.occurred
          /\ chosen.iv \in Contacting
          /\ chosen.at = taken'[i].at
          /\ chosen.at \in Nat
      BY <2>1, <2>3, <1>1, <1>3, <1>4, <1>5 DEF CurrentReads
    <3>3. case.event.occurred + 1440 * diagnosis.promise + 60 * GraceHours \in Int
      <4>1. case \in LatentCases /\ diagnosis \in Diagnoses
        BY RunnerAssumption DEF TypeInv, TypeOK
      <4>2. case.event.occurred \in Nat
        BY <4>1 DEF LatentCases, Events
      <4>3. diagnosis.promise \in Nat
        BY <2>1, <4>1 DEF Diagnoses
      <4>4. GraceHours \in Nat
        BY PolicyAssumption
      <4>5. QED
        BY <4>2, <4>3, <4>4
    <3>4. QED
      BY <2>1, <3>1, <3>2, <3>3 DEF PromiseBlocks
  <2>4. QED
    BY <2>2, <2>3, <1>3
<1>10. CapsHoldOverTheCase'
  <2>1. SUFFICES ASSUME Enforces
                 PROVE  /\ Executed(Contacting)' # {} =>
                             case.event.contacts + Cardinality(Executed(Contacting)')
                               <= MaxContacts
                        /\ Executed(Billable)' # {} =>
                             case.event.attempts + Cardinality(Executed(Billable)')
                               <= MaxAttempts[case.event.surface]
    BY <1>2 DEF CapsHoldOverTheCase
  <2>2. /\ case.event.contacts \in Nat
        /\ case.event.attempts \in Nat
        /\ MaxContacts \in Nat
        /\ MaxAttempts[case.event.surface] \in Nat
    BY RunnerAssumption, PolicyAssumption DEF TypeInv, TypeOK, LatentCases, Events
  <2>3. /\ Cardinality(Executed(Contacting)) \in Nat
        /\ Cardinality(Executed(Billable)) \in Nat
    BY ExecutedCounted
  <2>4. ~FrequencyBlocks(working, chosen) /\ ~RetryCapBlocks(working, chosen)
    BY <2>1, <1>6, ClauseIsCited
  <2>5. Executed(Contacting)' # {} =>
          case.event.contacts + Cardinality(Executed(Contacting)') <= MaxContacts
    <3>1. CASE r.iv \in Contacting
      <4>1. case.event.contacts + Cardinality(Executed(Contacting)) < MaxContacts
        BY <2>2, <2>3, <2>4, <3>1, <1>1, <1>5 DEF FrequencyBlocks, CurrentReads
      <4>2. Cardinality(Executed(Contacting)') = Cardinality(Executed(Contacting)) + 1
        BY <3>1, <1>1, CountAfter
      <4>3. QED
        BY <4>1, <4>2, <2>2, <2>3
    <3>2. CASE r.iv \notin Contacting
      BY <2>1, <3>2, <1>1, ExecutedAfter DEF CustomerInv, CapsHoldOverTheCase
    <3>3. QED
      BY <3>1, <3>2
  <2>6. Executed(Billable)' # {} =>
          case.event.attempts + Cardinality(Executed(Billable)')
            <= MaxAttempts[case.event.surface]
    <3>1. CASE r.iv \in Billable
      <4>1. case.event.attempts + Cardinality(Executed(Billable))
              < MaxAttempts[case.event.surface]
        BY <2>2, <2>3, <2>4, <3>1, <1>1, <1>5 DEF RetryCapBlocks, CurrentReads
      <4>2. Cardinality(Executed(Billable)') = Cardinality(Executed(Billable)) + 1
        BY <3>1, <1>1, CountAfter
      <4>3. QED
        BY <4>1, <4>2, <2>2, <2>3
    <3>2. CASE r.iv \notin Billable
      BY <2>1, <3>2, <1>1, ExecutedAfter DEF CustomerInv, CapsHoldOverTheCase
    <3>3. QED
      BY <3>1, <3>2
  <2>7. QED
    BY <2>5, <2>6
<1>11. QED
  BY <1>7, <1>8, <1>9, <1>10 DEF CustomerInv

(***************************************************************************)
(* Every step keeps the invariant.                                         *)
(***************************************************************************)
LEMMA StepCustomer ==
  TypeInv /\ PermitInv /\ ContextInv /\ CustomerInv /\ [Next]_vars => CustomerInv'
<1> SUFFICES ASSUME TypeInv, PermitInv, ContextInv, CustomerInv, [Next]_vars
             PROVE  CustomerInv'
  OBVIOUS
<1>1. CASE Detect
  BY <1>1, ElsewhereCustomer DEF Detect, given, tallies
<1>2. CASE Diagnose
  BY <1>2, ElsewhereCustomer DEF Diagnose, given, tallies, ContextInv, Fresh
<1>3. CASE Stop
  BY <1>3, ElsewhereCustomer DEF Stop, given, tallies
<1>4. CASE Permit
  BY <1>4, ElsewhereCustomer DEF Permit, Choose, given, tallies
<1>5. CASE Defer
  BY <1>5, ElsewhereCustomer DEF Defer, Choose, given, tallies
<1>6. CASE Override
  BY <1>6, ElsewhereCustomer DEF Override, Choose, given, tallies
<1>7. CASE Halt
  BY <1>7, ElsewhereCustomer DEF Halt, given, tallies
<1>8. CASE Act
  BY <1>8, ActCustomer
<1>9. CASE Record
  BY <1>9, ElsewhereCustomer DEF Record, given, tallies
<1>10. CASE Observe
  BY <1>10, ElsewhereCustomer DEF Observe, given, tallies
<1>11. CASE Abort
  BY <1>11, ElsewhereCustomer DEF Abort, given, tallies
<1>12. CASE UNCHANGED vars
  BY <1>12, ElsewhereCustomer DEF vars
<1>13. QED
  BY <1>1, <1>2, <1>3, <1>4, <1>5, <1>6, <1>7, <1>8, <1>9, <1>10, <1>11, <1>12
     DEF Next, Advance

(***************************************************************************)
(* The invariant holds of every behaviour.                                 *)
(***************************************************************************)
LEMMA CustomerProtected == Spec => []CustomerInv
BY InitTyped, StepTyped, InitPermit, StepPermit, InitContext, StepContext,
   InitCustomer, StepCustomer, PTL DEF Spec

(***************************************************************************)
(* A mandate is never presented unless a notice was executed before it, at *)
(* a waking hour and NoticeHours earlier: the context's single date is     *)
(* enough, deferrals included.                                             *)
(***************************************************************************)
THEOREM NoticeAlwaysPrecedes == Spec => []NoticePrecedesPresentation
<1>1. CustomerInv => NoticePrecedesPresentation
  BY DEF CustomerInv
<1>2. QED
  BY CustomerProtected, <1>1, PTL

(***************************************************************************)
(* A buyer who gave a date is not contacted before it, plus grace.         *)
(***************************************************************************)
THEOREM PromisesHonoured == Spec => []PromiseIsHonoured
<1>1. CustomerInv => PromiseIsHonoured
  BY DEF CustomerInv
<1>2. QED
  BY CustomerProtected, <1>1, PTL

(***************************************************************************)
(* Neither the contact cap nor the attempts of an instrument is exceeded   *)
(* over a whole case, by what was executed.                                *)
(***************************************************************************)
THEOREM CapsHold == Spec => []CapsHoldOverTheCase
<1>1. CustomerInv => CapsHoldOverTheCase
  BY DEF CustomerInv
<1>2. QED
  BY CustomerProtected, <1>1, PTL

-----------------------------------------------------------------------------
(***************************************************************************)
(* A set of natural numbers that is not empty has a least member.          *)
(***************************************************************************)
LEMMA NatLeast ==
  ASSUME NEW T, T \subseteq Nat, T # {}
  PROVE  \E x \in T : \A y \in T : x <= y
<1> DEFINE R == {ss \in Nat \X Nat : ss[1] < ss[2]}
<1>1. IsWellFoundedOn(R, Nat)
  BY NatLessThanWellFounded DEF OpToRel
<1>2. PICK x \in T : \A y \in T : ~ (<<y, x>> \in R)
  BY <1>1, WFMin
<1>3. \A y \in T : x <= y
  <2> TAKE y \in T
  <2>1. x \in Nat /\ y \in Nat
    OBVIOUS
  <2>2. ~(y < x)
    BY <1>2, <2>1
  <2>3. QED
    BY <2>1, <2>2
<1>4. QED
  BY <1>3

(***************************************************************************)
(* Induction: a set that holds 0 and the successor of every number it      *)
(* holds is all of Nat.                                                    *)
(***************************************************************************)
LEMMA SetInduction ==
  ASSUME NEW S, 0 \in S, \A n \in Nat : n \in S => n + 1 \in S
  PROVE  \A n \in Nat : n \in S
<1> DEFINE T == {n \in Nat : n \notin S}
<1>1. SUFFICES ASSUME T # {} PROVE FALSE
  OBVIOUS
<1>2. PICK x \in T : \A y \in T : x <= y
  <2> HIDE DEF T
  <2>1. T \subseteq Nat
    BY DEF T
  <2>2. QED
    BY <1>1, <2>1, NatLeast
<1>3. x \in Nat /\ x # 0
  OBVIOUS
<1>4. x - 1 \in Nat /\ ~(x <= x - 1)
  BY <1>3
<1>5. x - 1 \in S
  BY <1>2, <1>4
<1>6. (x - 1) + 1 \in S
  BY <1>4, <1>5
<1>7. QED
  BY <1>3, <1>6

(***************************************************************************)
(* A function f runs through 0 .. n from b, by the steps of next, in V.    *)
(***************************************************************************)
Runs(f, n, b, next, V) ==
  /\ f[0] = b
  /\ \A m \in 1 .. n : f[m] = next[<<m, f[m - 1]>>]
  /\ \A m \in 0 .. n : f[m] \in V

(***************************************************************************)
(* A function defined by recursion over the first numbers exists.          *)
(***************************************************************************)
LEMMA RecursionExists ==
  ASSUME NEW V, NEW b, b \in V, NEW n \in Nat, NEW next,
         \A m \in 1 .. n : \A v \in V : next[<<m, v>>] \in V
  PROVE  \E f : Runs(f, n, b, next, V)
<1> DEFINE Upto(k, f) == /\ f \in [0 .. k -> V]
                         /\ f[0] = b
                         /\ \A m \in 1 .. k : f[m] = next[<<m, f[m - 1]>>]
           S == {k \in Nat : k <= n => \E f : Upto(k, f)}
<1>1. 0 \in S
  <2>1. Upto(0, [m \in 0 .. 0 |-> b])
    OBVIOUS
  <2>2. QED
    BY <2>1
<1>2. ASSUME NEW k \in Nat, k \in S
      PROVE  k + 1 \in S
  <2>1. SUFFICES ASSUME k + 1 <= n PROVE \E f : Upto(k + 1, f)
    OBVIOUS
  <2>2. PICK f : Upto(k, f)
    BY <1>2, <2>1
  <2>3. k + 1 \in 1 .. n /\ k \in 0 .. k
    BY <2>1
  <2>4. f[k] \in V
    BY <2>2, <2>3
  <2>5. next[<<k + 1, f[k]>>] \in V
    BY <2>3, <2>4
  <2> DEFINE g == [m \in 0 .. k + 1 |-> IF m = k + 1 THEN next[<<k + 1, f[k]>>]
                                                     ELSE f[m]]
  <2>6. g \in [0 .. k + 1 -> V]
    BY <2>2, <2>5
  <2>7. \A m \in 0 .. k : g[m] = f[m]
    OBVIOUS
  <2>8. g[k + 1] = next[<<k + 1, f[k]>>] /\ g[0] = b
    BY <2>2
  <2> HIDE DEF g
  <2>9. ASSUME NEW m \in 1 .. k + 1
        PROVE  g[m] = next[<<m, g[m - 1]>>]
    <3>1. CASE m = k + 1
      BY <3>1, <2>3, <2>7, <2>8
    <3>2. CASE m \in 1 .. k
      <4>1. m \in 0 .. k /\ m - 1 \in 0 .. k
        BY <3>2
      <4>2. QED
        BY <3>2, <4>1, <2>2, <2>7
    <3>3. QED
      BY <3>1, <3>2
  <2>10. Upto(k + 1, g)
    BY <2>6, <2>8, <2>9
  <2>11. QED
    BY <2>10
<1>3. n \in S
  <2> HIDE DEF S
  <2>1. QED
    BY <1>1, <1>2, SetInduction
<1>4. PICK f : Upto(n, f)
  BY <1>3
<1>5. Runs(f, n, b, next, V)
  BY <1>4 DEF Runs
<1>6. QED
  BY <1>5

(***************************************************************************)
(* Two functions that start alike and continue alike are alike.            *)
(***************************************************************************)
Same(f, g, m) == f[m] = g[m]

LEMMA RecursionAgrees ==
  ASSUME NEW n \in Nat, NEW f, NEW g, Same(f, g, 0),
         \A m \in 1 .. n : Same(f, g, m - 1) => Same(f, g, m)
  PROVE  \A m \in 0 .. n : Same(f, g, m)
<1> USE DEF Same
<1> DEFINE S == {m \in Nat : m <= n => f[m] = g[m]}
<1>1. 0 \in S
  OBVIOUS
<1>2. ASSUME NEW m \in Nat, m \in S
      PROVE  m + 1 \in S
  <2>1. SUFFICES ASSUME m + 1 <= n PROVE f[m + 1] = g[m + 1]
    OBVIOUS
  <2>2. m + 1 \in 1 .. n /\ (m + 1) - 1 = m /\ m <= n
    BY <2>1
  <2>3. f[m] = g[m]
    BY <1>2, <2>2
  <2>4. QED
    BY <2>2, <2>3
<1>3. \A m \in Nat : m \in S
  <2> HIDE DEF S
  <2>1. QED
    BY <1>1, <1>2, SetInduction
<1>4. QED
  BY <1>3

(***************************************************************************)
(* The records collected of a stage, after one record more.                *)
(***************************************************************************)
Plus(found, r, stage) == IF r.stage = stage THEN Append(found, r) ELSE found

(***************************************************************************)
(* A function f collects the records of a stage, one record at a time.     *)
(***************************************************************************)
Collects(f, s, stage) ==
  /\ f[0] = << >>
  /\ \A n \in 1 .. Len(s) : f[n] = Plus(f[n - 1], s[n], stage)
  /\ \A n \in 0 .. Len(s) : f[n] \in Seq(TrailRecords)
  /\ Among(s, stage) = f[Len(s)]

(***************************************************************************)
(* The records of a stage are collected by a recursion over the trail.     *)
(***************************************************************************)
LEMMA AmongCollects ==
  ASSUME NEW s \in Seq(TrailRecords), NEW stage
  PROVE  \E f : Collects(f, s, stage)
<1> DEFINE k == Len(s)
           V == Seq(TrailRecords)
           next == [p \in (1 .. k) \X V |->
                      IF s[p[1]].stage = stage THEN Append(p[2], s[p[1]])
                                               ELSE p[2]]
           Found(f) ==
             f = [n \in 0 .. k |->
                    IF n = 0 THEN << >>
                    ELSE IF s[n].stage = stage THEN Append(f[n - 1], s[n])
                         ELSE f[n - 1]]
           found == CHOOSE f : Found(f)
<1>1. \A n \in 1 .. k, v \in V :
        /\ next[<<n, v>>] = IF s[n].stage = stage THEN Append(v, s[n]) ELSE v
        /\ next[<<n, v>>] \in V
  <2> TAKE n \in 1 .. k, v \in V
  <2>1. s[n] \in TrailRecords
    OBVIOUS
  <2>2. Append(v, s[n]) \in V
    BY <2>1
  <2> HIDE DEF k, V
  <2>3. QED
    BY <2>2
<1>2. k \in Nat /\ << >> \in V
  OBVIOUS
<1>3. Among(s, stage) = found[k]
  BY DEF Among
<1> HIDE DEF k, V, next
<1>4. PICK f : /\ f[0] = << >>
               /\ \A n \in 1 .. k : f[n] = next[<<n, f[n - 1]>>]
               /\ \A n \in 0 .. k : f[n] \in V
  <2>1. \A n \in 1 .. k : \A v \in V : next[<<n, v>>] \in V
    BY <1>1
  <2> DEFINE b == << >>
  <2> HIDE DEF b
  <2>2. PICK f : Runs(f, k, b, next, V)
    BY <1>2, <2>1, RecursionExists DEF b
  <2>3. QED
    BY <2>2 DEF Runs, b
<1>5. \A n \in 1 .. k :
        f[n] = IF s[n].stage = stage THEN Append(f[n - 1], s[n]) ELSE f[n - 1]
  <2> TAKE n \in 1 .. k
  <2>1. n - 1 \in 0 .. k
    BY <1>2
  <2>2. f[n - 1] \in V
    BY <1>4, <2>1
  <2>3. QED
    BY <1>1, <1>4, <2>2
<1>6. \A n \in 0 .. k : n = 0 \/ n \in 1 .. k
  BY <1>2
<1> DEFINE h == [n \in 0 .. k |-> f[n]]
<1>7. Found(h)
  <2>1. \A n \in 1 .. k : n - 1 \in 0 .. k
    BY <1>2
  <2>2. \A n \in 0 .. k :
          h[n] = IF n = 0 THEN << >>
                 ELSE IF s[n].stage = stage THEN Append(h[n - 1], s[n])
                      ELSE h[n - 1]
    BY <1>4, <1>5, <1>6, <2>1
  <2>3. h = [n \in 0 .. k |-> h[n]]
    OBVIOUS
  <2> HIDE DEF h
  <2>4. QED
    BY <2>2, <2>3
<1>8. Found(found)
  <2> HIDE DEF Found
  <2>1. QED
    BY <1>7, Zenon
<1> HIDE DEF found
<1>9. /\ found[0] = << >>
      /\ \A n \in 1 .. k :
           found[n] = IF s[n].stage = stage THEN Append(found[n - 1], s[n])
                                            ELSE found[n - 1]
  <2>1. 0 \in 0 .. k /\ \A n \in 1 .. k : n \in 0 .. k /\ n # 0
    BY <1>2
  <2>2. QED
    BY <1>8, <2>1
<1> HIDE DEF Found, h
<1>10. \A n \in 0 .. k : found[n] = f[n]
  <2>1. Same(found, f, 0)
    BY <1>4, <1>9 DEF Same
  <2>2. \A n \in 1 .. k : Same(found, f, n - 1) => Same(found, f, n)
    BY <1>5, <1>9 DEF Same
  <2>3. \A n \in 0 .. k : Same(found, f, n)
    BY <1>2, <2>1, <2>2, RecursionAgrees
  <2>4. QED
    BY <2>3 DEF Same
<1>11. \A n \in 0 .. k : found[n] \in V
  BY <1>4, <1>10
<1>12. Collects(found, s, stage)
  BY <1>3, <1>9, <1>11 DEF k, V, Collects, Plus
<1>13. QED
  BY <1>12

(***************************************************************************)
(* An empty trail has no records of any stage.                             *)
(***************************************************************************)
LEMMA AmongEmpty == ASSUME NEW stage PROVE Among(<< >>, stage) = << >>
<1> DEFINE s == << >>
<1>1. s \in Seq(TrailRecords) /\ Len(s) = 0
  OBVIOUS
<1> HIDE DEF s
<1>2. PICK f : Collects(f, s, stage)
  BY <1>1, AmongCollects
<1>3. QED
  BY <1>1, <1>2 DEF s, Collects

(***************************************************************************)
(* One record more adds itself to those of its stage and to no other.      *)
(***************************************************************************)
LEMMA AmongAppend ==
  ASSUME NEW s \in Seq(TrailRecords), NEW r \in TrailRecords, NEW stage
  PROVE  /\ Among(s, stage) \in Seq(TrailRecords)
         /\ Among(Append(s, r), stage) = Plus(Among(s, stage), r, stage)
<1> DEFINE t == Append(s, r)
           k == Len(s)
           V == Seq(TrailRecords)
<1>1. /\ t \in V
      /\ Len(t) = k + 1
      /\ k \in Nat
      /\ t[k + 1] = r
      /\ \A n \in 1 .. k : t[n] = s[n]
  OBVIOUS
<1>2. PICK f : Collects(f, s, stage)
  BY AmongCollects
<1>3. PICK g : Collects(g, t, stage)
  BY <1>1, AmongCollects
<1> HIDE DEF t
<1>4. /\ f[0] = << >>
      /\ \A n \in 1 .. k : f[n] = Plus(f[n - 1], s[n], stage)
      /\ \A n \in 0 .. k : f[n] \in V
      /\ Among(s, stage) = f[k]
  BY <1>2 DEF Collects
<1>5. /\ g[0] = << >>
      /\ \A n \in 1 .. Len(t) : g[n] = Plus(g[n - 1], t[n], stage)
      /\ Among(t, stage) = g[Len(t)]
  BY <1>3 DEF Collects
<1> HIDE DEF k, V
<1>6. /\ k \in 0 .. k
      /\ k + 1 \in 1 .. Len(t)
      /\ (k + 1) - 1 = k
      /\ \A n \in 1 .. k : n \in 1 .. Len(t)
  BY <1>1
<1>7. \A n \in 0 .. k : f[n] = g[n]
  <2>1. k \in Nat /\ Same(f, g, 0)
    BY <1>1, <1>4, <1>5 DEF Same
  <2>2. \A n \in 1 .. k : Same(f, g, n - 1) => Same(f, g, n)
    BY <1>1, <1>4, <1>5, <1>6 DEF Same
  <2>3. \A n \in 0 .. k : Same(f, g, n)
    BY <2>1, <2>2, RecursionAgrees
  <2>4. QED
    BY <2>3 DEF Same
<1>8. g[k + 1] = Plus(g[k], r, stage)
  BY <1>1, <1>5, <1>6
<1>9. f[k] \in V /\ g[k] = f[k]
  BY <1>4, <1>6, <1>7
<1>10. QED
  BY <1>1, <1>4, <1>5, <1>8, <1>9 DEF t, V

-----------------------------------------------------------------------------
(***************************************************************************)
(* The ledger of a case, by induction.  At every point of the loop it is   *)
(* known how many decisions and executions are on record, which of them    *)
(* the last record is, and that nothing was refused yet.                   *)
(***************************************************************************)
Decisions  == EntriesOf("DECIDED")
Executions == EntriesOf("EXECUTED")

Entry == [stage |-> "DECIDED", step |-> step + 1, iv |-> chosen.iv]

Pace ==
  /\ pc \in {"detect", "diagnose", "loop"} =>
       Len(Decisions) = Len(taken) /\ Len(Executions) = Len(taken) /\ step = Len(taken)
  /\ pc = "act" =>
       /\ Len(Decisions) = Len(taken) + 1
       /\ Len(Executions) = Len(taken)
       /\ step = Len(taken)
       /\ Decisions[Len(taken) + 1] = Entry
  /\ pc = "record" =>
       /\ Len(Decisions) = Len(taken)
       /\ Len(Executions) + 1 = Len(taken)
       /\ step + 1 = Len(taken)
  /\ pc \in {"act", "record"} =>
       trail # << >> /\ trail[Len(trail)] = Entry
  /\ pc \in {"observe", "done"} =>
       Len(Decisions) = Len(taken) /\ Len(Executions) = Len(taken)
  /\ pc = "aborted" =>
       /\ Len(Decisions) \in {Len(taken), Len(taken) + 1}
       /\ Len(taken) \in {Len(Executions), Len(Executions) + 1}

DecidedInOrder ==
  \A i \in DOMAIN taken :
    Decisions[i].step = i /\ Decisions[i].iv = taken[i].iv

ExecutedInOrder ==
  \A i \in DOMAIN Executions :
    Executions[i].step = i /\ Executions[i].iv = taken[i].iv

DecidedFirst ==
  \A i \in DOMAIN trail : trail[i].stage = "EXECUTED" =>
    i - 1 \in DOMAIN trail /\ trail[i - 1] = [trail[i] EXCEPT !.stage = "DECIDED"]

HaltsLast ==
  \A i \in DOMAIN trail : trail[i].stage = "HALTED" =>
    \A j \in i + 1 .. Len(trail) : trail[j].stage = "OBSERVED"

ObservedLast ==
  \A i \in DOMAIN trail : trail[i].stage = "OBSERVED" =>
    i = Len(trail) /\ pc = "done"

NotHalted ==
  pc \in {"detect", "diagnose", "loop", "act", "record"} =>
    \A i \in DOMAIN trail : trail[i].stage # "HALTED"

InOrder   == DecidedInOrder /\ ExecutedInOrder
Sequenced == DecidedFirst /\ HaltsLast /\ ObservedLast /\ NotHalted

AuditInv == arm \in LedgerArms => Pace /\ InOrder /\ Sequenced

(***************************************************************************)
(* The entries of a stage are records, and those of a growing trail grow   *)
(* by the record added when it is of the stage.                            *)
(***************************************************************************)
LEMMA EntriesAfter ==
  ASSUME TypeInv, NEW r \in TrailRecords, trail' = Append(trail, r), NEW stage
  PROVE  /\ EntriesOf(stage) \in Seq(TrailRecords)
         /\ EntriesOf(stage)' = Plus(EntriesOf(stage), r, stage)
BY AmongAppend DEF EntriesOf, TypeInv, TypeOK

(***************************************************************************)
(* The entries of a stage are records.                                     *)
(***************************************************************************)
LEMMA EntriesTyped ==
  ASSUME TypeInv, NEW stage
  PROVE  EntriesOf(stage) \in Seq(TrailRecords)
<1>1. trail \in Seq(TrailRecords)
  BY DEF TypeInv, TypeOK
<1>2. [stage |-> "HALTED", step |-> 0, iv |-> "none"] \in TrailRecords
  BY DEF TrailRecords
<1>3. QED
  BY <1>1, <1>2, AmongAppend DEF EntriesOf

(***************************************************************************)
(* A growing trail keeps its order when an execution follows its decision, *)
(* nothing but the observation follows a refusal, and nothing follows the  *)
(* observation.                                                            *)
(***************************************************************************)
LEMMA TrailGrows ==
  ASSUME TypeInv, NEW r \in TrailRecords, trail' = Append(trail, r),
         Sequenced, pc # "done",
         r.stage = "EXECUTED" =>
           trail # << >> /\ trail[Len(trail)] = [r EXCEPT !.stage = "DECIDED"],
         r.stage = "OBSERVED" => pc' = "done",
         r.stage # "OBSERVED" => pc \in {"detect", "diagnose", "loop", "act", "record"},
         r.stage \in {"OBSERVED", "HALTED"} => pc' \in {"observe", "done"}
  PROVE  Sequenced'
<1>1. /\ trail \in Seq(TrailRecords)
      /\ Len(trail) \in Nat
      /\ DOMAIN trail = 1 .. Len(trail)
      /\ DOMAIN trail' = 1 .. Len(trail) + 1
      /\ Len(trail') = Len(trail) + 1
      /\ trail'[Len(trail) + 1] = r
      /\ \A i \in 1 .. Len(trail) : trail'[i] = trail[i]
      /\ trail # << >> => Len(trail) \in 1 .. Len(trail)
  BY DEF TypeInv, TypeOK
<1> DEFINE k == Len(trail)
<1> HIDE DEF k
<1>2. /\ k \in Nat
      /\ DOMAIN trail = 1 .. k
      /\ DOMAIN trail' = 1 .. k + 1
      /\ Len(trail') = k + 1
      /\ trail'[k + 1] = r
      /\ \A i \in 1 .. k : trail'[i] = trail[i]
      /\ trail # << >> => k \in 1 .. k
  BY <1>1 DEF k
<1>3. \A i \in 1 .. k : trail[i].stage # "OBSERVED"
  BY <1>2 DEF Sequenced, ObservedLast
<1>4. r.stage # "OBSERVED" => \A i \in 1 .. k : trail[i].stage # "HALTED"
  BY <1>2 DEF Sequenced, NotHalted
<1>5. \A i \in 1 .. k + 1 : i \in 1 .. k \/ i = k + 1
  BY <1>2
<1>6. DecidedFirst'
  <2>1. SUFFICES ASSUME NEW i \in 1 .. k + 1, trail'[i].stage = "EXECUTED"
                 PROVE  /\ i - 1 \in 1 .. k + 1
                        /\ trail'[i - 1] = [trail'[i] EXCEPT !.stage = "DECIDED"]
    BY <1>2 DEF DecidedFirst
  <2>2. CASE i \in 1 .. k
    <3>1. trail[i].stage = "EXECUTED" /\ trail'[i] = trail[i]
      BY <2>1, <2>2, <1>2
    <3>2. i - 1 \in 1 .. k /\ trail[i - 1] = [trail[i] EXCEPT !.stage = "DECIDED"]
      BY <2>2, <3>1, <1>2 DEF Sequenced, DecidedFirst
    <3>3. QED
      BY <3>1, <3>2, <1>2
  <2>3. CASE i = k + 1
    <3>1. r.stage = "EXECUTED"
      BY <2>1, <2>3, <1>2
    <3>2. k \in 1 .. k /\ trail[k] = [r EXCEPT !.stage = "DECIDED"]
      BY <3>1, <1>2 DEF k
    <3>3. i - 1 = k /\ k \in 1 .. k + 1 /\ trail'[k] = trail[k]
      BY <2>3, <3>2, <1>2
    <3>4. QED
      BY <2>3, <3>2, <3>3, <1>2
  <2>4. QED
    BY <2>2, <2>3, <1>5
<1>7. HaltsLast'
  <2>1. SUFFICES ASSUME NEW i \in 1 .. k + 1, trail'[i].stage = "HALTED",
                        NEW j \in i + 1 .. k + 1
                 PROVE  trail'[j].stage = "OBSERVED"
    BY <1>2 DEF HaltsLast
  <2>2. i \in 1 .. k
    BY <1>2
  <2>3. trail[i].stage = "HALTED"
    BY <2>1, <2>2, <1>2
  <2>4. r.stage = "OBSERVED"
    BY <2>2, <2>3, <1>4
  <2>5. CASE j = k + 1
    BY <2>4, <2>5, <1>2
  <2>6. CASE j \in i + 1 .. k
    <3>1. trail[j].stage = "OBSERVED" /\ j \in 1 .. k
      BY <2>2, <2>3, <2>6, <1>2 DEF Sequenced, HaltsLast, k
    <3>2. QED
      BY <3>1, <1>3
  <2>7. QED
    BY <2>2, <2>5, <2>6, <1>2
<1>8. ObservedLast'
  BY <1>2, <1>3, <1>5 DEF ObservedLast
<1>9. NotHalted'
  BY <1>2, <1>4, <1>5 DEF NotHalted
<1>10. QED
  BY <1>6, <1>7, <1>8, <1>9 DEF Sequenced

(***************************************************************************)
(* Nothing is on record and nothing was executed.                          *)
(***************************************************************************)
LEMMA InitAudit == Init => AuditInv
<1> SUFFICES ASSUME Init PROVE AuditInv
  OBVIOUS
<1>1. trail = << >> /\ taken = << >> /\ pc = "detect" /\ step = 0
  BY DEF Init, Begin
<1>2. Decisions = << >> /\ Executions = << >>
  BY <1>1, AmongEmpty DEF Decisions, Executions, EntriesOf
<1>3. DOMAIN taken = {} /\ DOMAIN trail = {} /\ DOMAIN Executions = {}
  BY <1>1, <1>2
<1>4. Len(taken) = 0 /\ Len(Decisions) = 0 /\ Len(Executions) = 0
  BY <1>1, <1>2
<1>5. Pace
  BY <1>1, <1>4 DEF Pace
<1>6. InOrder /\ Sequenced
  BY <1>3 DEF InOrder, Sequenced, DecidedInOrder, ExecutedInOrder, DecidedFirst,
              HaltsLast, ObservedLast, NotHalted
<1>7. QED
  BY <1>5, <1>6 DEF AuditInv

(***************************************************************************)
(* A record that is neither a decision nor an execution counts for none.   *)
(***************************************************************************)
LEMMA OtherRecord ==
  ASSUME TypeInv, NEW r \in TrailRecords, trail' = Append(trail, r),
         r.stage \notin {"DECIDED", "EXECUTED"}, taken' = taken, InOrder
  PROVE  Decisions' = Decisions /\ Executions' = Executions /\ InOrder'
<1>1. Decisions' = Decisions /\ Executions' = Executions
  BY EntriesAfter DEF Decisions, Executions, Plus
<1>2. QED
  BY <1>1 DEF InOrder, DecidedInOrder, ExecutedInOrder

(***************************************************************************)
(* A decision is the next one on record.                                   *)
(***************************************************************************)
LEMMA ChooseAudit ==
  ASSUME TypeInv, AuditInv, arm \in LedgerArms, pc = "loop",
         NEW pr \in Proposals, Choose(pr)
  PROVE  Pace' /\ InOrder' /\ Sequenced'
<1> DEFINE r == [stage |-> "DECIDED", step |-> step + 1, iv |-> pr.iv]
           k == Len(taken)
<1>1. r \in TrailRecords
  BY DEF TypeInv, TypeOK, TrailRecords, Proposals
<1>2. trail' = Append(trail, r) /\ taken' = taken /\ step' = step
      /\ chosen' = pr /\ pc' = "act"
  BY DEF Choose, Log, tallies
<1>3. Decisions' = Append(Decisions, r) /\ Executions' = Executions
  BY <1>1, <1>2, EntriesAfter DEF Decisions, Executions, Plus
<1>4. Decisions \in Seq(TrailRecords) /\ Len(Decisions) = k /\ k \in Nat
      /\ Len(Executions) = k /\ step = k /\ DOMAIN taken = 1 .. k
  BY EntriesTyped DEF AuditInv, Pace, Decisions, TypeInv, TypeOK
<1>5. /\ Len(Decisions') = k + 1
      /\ Decisions'[k + 1] = r
      /\ \A i \in 1 .. k : Decisions'[i] = Decisions[i]
  BY <1>1, <1>3, <1>4
<1>6. Entry' = r
  BY <1>2 DEF Entry
<1>7. trail' # << >> /\ trail'[Len(trail')] = r
  BY <1>1, <1>2 DEF TypeInv, TypeOK
<1>8. Pace'
  BY <1>2, <1>3, <1>4, <1>5, <1>6, <1>7 DEF Pace
<1>9. InOrder'
  BY <1>2, <1>3, <1>4, <1>5
     DEF AuditInv, InOrder, DecidedInOrder, ExecutedInOrder
<1>10. Sequenced'
  BY <1>1, <1>2, TrailGrows DEF AuditInv
<1>11. QED
  BY <1>8, <1>9, <1>10

(***************************************************************************)
(* What is executed is what the last record decided.                       *)
(***************************************************************************)
LEMMA ActAudit ==
  ASSUME TypeInv, AuditInv, arm \in LedgerArms, Act
  PROVE  Pace' /\ InOrder' /\ Sequenced'
<1>1. PICK r \in ActRecords : /\ taken' = Append(taken, r)
                              /\ r.iv = chosen.iv
                              /\ r.at = chosen.at
  BY ActAppends
<1>2. pc = "act" /\ pc' = "record" /\ trail' = trail /\ step' = step
      /\ chosen' = chosen
  BY DEF Act
<1>3. Decisions' = Decisions /\ Executions' = Executions /\ Entry' = Entry
  BY <1>2 DEF Decisions, Executions, EntriesOf, Entry
<1> DEFINE k == Len(taken)
<1>4. /\ k \in Nat
      /\ DOMAIN taken = 1 .. k
      /\ DOMAIN taken' = 1 .. k + 1
      /\ Len(taken') = k + 1
      /\ taken'[k + 1] = r
      /\ \A i \in 1 .. k : taken'[i] = taken[i]
  BY <1>1 DEF TypeInv, TypeOK
<1>5. /\ Len(Decisions) = k + 1
      /\ Len(Executions) = k
      /\ step = k
      /\ Decisions[k + 1] = Entry
      /\ trail # << >> /\ trail[Len(trail)] = Entry
  BY <1>2 DEF AuditInv, Pace
<1>6. Executions \in Seq(TrailRecords)
  BY EntriesTyped DEF Executions
<1>7. DOMAIN Executions = 1 .. k
  BY <1>5, <1>6
<1> HIDE DEF k
<1>8. Pace'
  BY <1>2, <1>3, <1>4, <1>5 DEF Pace
<1>9. InOrder'
  <2>1. DecidedInOrder'
    <3>1. Decisions[k + 1].step = k + 1 /\ Decisions[k + 1].iv = r.iv
      BY <1>1, <1>5 DEF Entry
    <3>2. \A i \in 1 .. k + 1 : i \in 1 .. k \/ i = k + 1
      BY <1>4
    <3>3. QED
      BY <1>3, <1>4, <3>1, <3>2 DEF AuditInv, InOrder, DecidedInOrder
  <2>2. ExecutedInOrder'
    BY <1>3, <1>4, <1>7 DEF AuditInv, InOrder, ExecutedInOrder
  <2>3. QED
    BY <2>1, <2>2 DEF InOrder
<1>10. Sequenced'
  BY <1>2 DEF AuditInv, Sequenced, DecidedFirst, HaltsLast, ObservedLast, NotHalted
<1>11. QED
  BY <1>8, <1>9, <1>10

(***************************************************************************)
(* The execution follows its decision on record.                           *)
(***************************************************************************)
LEMMA RecordAudit ==
  ASSUME TypeInv, AuditInv, arm \in LedgerArms, Record
  PROVE  Pace' /\ InOrder' /\ Sequenced'
<1> DEFINE r == [stage |-> "EXECUTED", step |-> step + 1, iv |-> LastTaken.iv]
           k == Len(taken)
<1>1. /\ taken \in Seq(ActRecords) /\ taken # << >>
      /\ LastTaken.iv = chosen.iv
      /\ k \in Nat
      /\ DOMAIN taken = 1 .. k
  BY DEF TypeInv, TypeOK, Recording, Record
<1>2. LastTaken \in ActRecords /\ LastTaken = taken[k]
  BY <1>1 DEF LastTaken
<1>3. r \in TrailRecords
  BY <1>2 DEF TypeInv, TypeOK, TrailRecords, ActRecords
<1>4. /\ pc = "record"
      /\ trail' = Append(trail, r)
      /\ taken' = taken
      /\ pc' \in {"loop", "observe"}
      /\ pc' = "loop" => step' = step + 1
  BY DEF Record, Log, tallies
<1>5. Decisions' = Decisions /\ Executions' = Append(Executions, r)
  BY <1>3, <1>4, EntriesAfter DEF Decisions, Executions, Plus
<1>6. /\ Len(Decisions) = k
      /\ Len(Executions) + 1 = k
      /\ step + 1 = k
      /\ trail # << >> /\ trail[Len(trail)] = Entry
  BY <1>4 DEF AuditInv, Pace
<1>7. Executions \in Seq(TrailRecords) /\ Len(Executions) \in Nat
  BY EntriesTyped DEF Executions
<1>8. /\ Len(Executions') = k
      /\ DOMAIN Executions' = 1 .. k
      /\ Executions'[k] = r
      /\ \A i \in DOMAIN Executions : Executions'[i] = Executions[i]
      /\ \A i \in 1 .. k : i \in DOMAIN Executions \/ i = k
  <2>1. Len(Executions') = Len(Executions) + 1
    BY <1>5, <1>7
  <2>2. Executions'[Len(Executions) + 1] = r
    BY <1>5, <1>7
  <2>3. \A i \in DOMAIN Executions : Executions'[i] = Executions[i]
    BY <1>5, <1>7
  <2>4. DOMAIN Executions = 1 .. Len(Executions)
    BY <1>7
  <2>5. DOMAIN Executions' = 1 .. Len(Executions')
    BY <1>3, <1>5, <1>7
  <2> HIDE DEF k
  <2>6. QED
    BY <1>1, <1>6, <1>7, <2>1, <2>2, <2>3, <2>4, <2>5
<1>9. Pace'
  <2> HIDE DEF k, r
  <2>1. Len(taken') = k /\ Len(Decisions') = k /\ Len(Executions') = k
    BY <1>4, <1>5, <1>6, <1>8 DEF k
  <2>2. pc' = "loop" => step' = k
    BY <1>4, <1>6
  <2>3. QED
    BY <1>4, <2>1, <2>2 DEF Pace
<1>10. InOrder'
  <2>1. DecidedInOrder'
    BY <1>4, <1>5 DEF AuditInv, InOrder, DecidedInOrder
  <2>2. r.step = k /\ r.iv = taken[k].iv
    BY <1>2, <1>6
  <2> HIDE DEF k, r
  <2>3. ASSUME NEW i \in 1 .. k
        PROVE  Executions'[i].step = i /\ Executions'[i].iv = taken[i].iv
    <3>1. CASE i = k
      BY <3>1, <2>2, <1>8
    <3>2. CASE i \in DOMAIN Executions
      BY <3>2, <1>8 DEF AuditInv, InOrder, ExecutedInOrder
    <3>3. QED
      BY <3>1, <3>2, <1>8
  <2>4. ExecutedInOrder'
    BY <2>3, <1>4, <1>8 DEF ExecutedInOrder
  <2>5. QED
    BY <2>1, <2>4 DEF InOrder
<1>11. Sequenced'
  <2>1. [r EXCEPT !.stage = "DECIDED"] = Entry
    BY <1>1 DEF Entry
  <2>2. r.stage = "EXECUTED"
    OBVIOUS
  <2> HIDE DEF r
  <2>3. QED
    BY <1>3, <1>4, <1>6, <2>1, <2>2, TrailGrows DEF AuditInv
<1>12. QED
  BY <1>9, <1>10, <1>11

(***************************************************************************)
(* A record that is neither a decision nor an execution, and a step that   *)
(* executes nothing: the counts stay what they were.                       *)
(***************************************************************************)
LEMMA RemarkAudit ==
  ASSUME TypeInv, AuditInv, arm \in LedgerArms,
         NEW stage \in {"DETECTED", "DIAGNOSED", "HALTED", "OBSERVED"},
         NEW iv \in Interventions \cup {"none"}, Log(stage, 0, iv),
         taken' = taken, step' = step,
         \/ pc \in {"detect", "diagnose", "loop"}
            /\ pc' \in {"detect", "diagnose", "loop", "observe"}
         \/ pc = "observe" /\ pc' = "done" /\ stage = "OBSERVED",
         stage = "OBSERVED" => pc = "observe",
         stage = "HALTED" => pc' = "observe"
  PROVE  Pace' /\ InOrder' /\ Sequenced'
<1> DEFINE r == [stage |-> stage, step |-> 0, iv |-> iv]
<1>1. r \in TrailRecords
  BY DEF TrailRecords
<1>2. trail' = Append(trail, r)
  BY DEF Log
<1>3. r.stage = stage
  OBVIOUS
<1> HIDE DEF r
<1>4. Decisions' = Decisions /\ Executions' = Executions /\ InOrder'
  BY <1>1, <1>2, <1>3, OtherRecord DEF AuditInv
<1>5. Pace'
  BY <1>4 DEF AuditInv, Pace
<1>6. Sequenced'
  BY <1>1, <1>2, <1>3, TrailGrows DEF AuditInv
<1>7. QED
  BY <1>4, <1>5, <1>6

(***************************************************************************)
(* A step that records nothing and executes nothing.                       *)
(***************************************************************************)
LEMMA SilentAudit ==
  ASSUME TypeInv, AuditInv, UNCHANGED <<arm, trail, taken, step, chosen>>,
         \/ pc' = pc
         \/ pc = "loop" /\ pc' = "observe"
         \/ pc # "done" /\ pc' = "aborted"
  PROVE  AuditInv'
<1>1. Decisions' = Decisions /\ Executions' = Executions /\ Entry' = Entry
  BY DEF Decisions, Executions, EntriesOf, Entry
<1>2. SUFFICES ASSUME arm \in LedgerArms
               PROVE  Pace' /\ InOrder' /\ Sequenced'
  BY DEF AuditInv
<1>3. pc \in {"detect", "diagnose", "loop", "act", "record", "observe", "done", "aborted"}
  BY DEF TypeInv, TypeOK
<1>4. Len(Executions) \in Nat /\ Len(Decisions) \in Nat /\ Len(taken) \in Nat
  BY EntriesTyped DEF Executions, Decisions, TypeInv, TypeOK
<1>5. Pace'
  BY <1>1, <1>2, <1>3, <1>4 DEF AuditInv, Pace
<1>6. InOrder'
  BY <1>1, <1>2 DEF AuditInv, InOrder, DecidedInOrder, ExecutedInOrder
<1>7. Sequenced'
  BY <1>2 DEF AuditInv, Sequenced, DecidedFirst, HaltsLast, ObservedLast, NotHalted
<1>8. QED
  BY <1>5, <1>6, <1>7

(***************************************************************************)
(* Every step keeps the invariant.                                         *)
(***************************************************************************)
LEMMA StepAudit == TypeInv /\ AuditInv /\ [Next]_vars => AuditInv'
<1> SUFFICES ASSUME TypeInv, AuditInv, [Next]_vars PROVE AuditInv'
  OBVIOUS
<1>1. CASE Detect
  BY <1>1, RemarkAudit DEF Detect, given, tallies, AuditInv
<1>2. CASE Diagnose
  BY <1>2, RemarkAudit DEF Diagnose, given, tallies, AuditInv
<1>3. CASE Stop
  BY <1>3, SilentAudit DEF Stop, given, tallies
<1>4. CASE Permit
  <2>1. Offer \in Proposals
    BY <1>4, OfferTyped DEF Permit, Deciding, TypeInv
  <2>2. QED
    BY <1>4, <2>1, ChooseAudit DEF Permit, Choose, Deciding, given, AuditInv
<1>5. CASE Defer
  <2>1. Substitute(Offer) \in Proposals
    BY <1>5, OfferTyped, SubstituteTyped DEF Defer, Deciding, TypeInv
  <2>2. QED
    BY <1>5, <2>1, ChooseAudit DEF Defer, Choose, Deciding, given, AuditInv
<1>6. CASE Override
  <2>1. Offer \in Proposals
    BY <1>6, OfferTyped DEF Override, Deciding, TypeInv
  <2>2. QED
    BY <1>6, <2>1, ChooseAudit DEF Override, Choose, Deciding, given, AuditInv
<1>7. CASE Halt
  <2>1. Offer.iv \in Interventions
    BY <1>7, OfferTyped DEF Halt, Deciding, Proposals, TypeInv
  <2>2. QED
    BY <1>7, <2>1, RemarkAudit DEF Halt, Deciding, given, tallies, AuditInv
<1>8. CASE Act
  BY <1>8, ActAudit DEF Act, given, AuditInv
<1>9. CASE Record
  BY <1>9, RecordAudit DEF Record, given, AuditInv
<1>10. CASE Observe
  BY <1>10, RemarkAudit DEF Observe, given, tallies, AuditInv
<1>11. CASE Abort
  BY <1>11, SilentAudit DEF Abort, given, tallies
<1>12. CASE UNCHANGED vars
  BY <1>12, SilentAudit DEF vars
<1>13. QED
  BY <1>1, <1>2, <1>3, <1>4, <1>5, <1>6, <1>7, <1>8, <1>9, <1>10, <1>11, <1>12
     DEF Next, Advance

(***************************************************************************)
(* The invariant accounts for the case.                                    *)
(***************************************************************************)
LEMMA AuditHolds == TypeInv /\ AuditInv => AuditTrailAccounts
<1> SUFFICES ASSUME TypeInv, AuditInv, arm \in LedgerArms
             PROVE  AuditTrailAccounts
  BY DEF AuditTrailAccounts
<1>1. pc \in {"detect", "diagnose", "loop", "act", "record", "observe", "done", "aborted"}
  BY DEF TypeInv, TypeOK
<1>2. Len(Executions) \in Nat /\ Len(Decisions) \in Nat /\ Len(taken) \in Nat
  BY EntriesTyped DEF Executions, Decisions, TypeInv, TypeOK
<1>3. Len(Decisions) - Len(taken) \in {0, 1}
  BY <1>1, <1>2 DEF AuditInv, Pace
<1>4. LET missing == Len(taken) - Len(Executions)
      IN missing = 0 \/ (missing = 1 /\ pc \in {"record", "aborted"})
  BY <1>1, <1>2 DEF AuditInv, Pace
<1>5. QED
  BY <1>3, <1>4
     DEF AuditInv, AuditTrailAccounts, Decisions, Executions, InOrder, Sequenced,
         DecidedInOrder, ExecutedInOrder, DecidedFirst, HaltsLast, ObservedLast

(***************************************************************************)
(* Wherever a case is cut short, the ledger accounts for it: no execution  *)
(* without its decision on record just before it, at most the last         *)
(* execution missing, nothing but the observation after a refusal.         *)
(***************************************************************************)
THEOREM LedgerAccounts == Spec => []AuditTrailAccounts
BY InitTyped, StepTyped, InitAudit, StepAudit, AuditHolds, PTL DEF Spec

-----------------------------------------------------------------------------
(***************************************************************************)
(* A function f adds up the costs of the first n actions.                  *)
(***************************************************************************)
Totals(f, acts, n) ==
  /\ f[0] = 0
  /\ \A i \in 1 .. n : f[i] = f[i - 1] + CostOf(acts[i].iv)
  /\ \A i \in 0 .. n : f[i] \in Nat
  /\ CostAmong(acts, n) = f[n]

(***************************************************************************)
(* Costs are added up by a recursion over the actions.                     *)
(***************************************************************************)
LEMMA CostsAddUp ==
  ASSUME NEW acts, NEW n \in Nat
  PROVE  \E f : Totals(f, acts, n)
<1> DEFINE next == [p \in (1 .. n) \X Nat |-> p[2] + CostOf(acts[p[1]].iv)]
           Total(f) ==
             f = [i \in 0 .. n |->
                    IF i = 0 THEN 0 ELSE f[i - 1] + CostOf(acts[i].iv)]
           total == CHOOSE f : Total(f)
<1>1. \A i \in 1 .. n, v \in Nat :
        /\ next[<<i, v>>] = v + CostOf(acts[i].iv)
        /\ next[<<i, v>>] \in Nat
  BY CostTyped
<1>2. CostAmong(acts, n) = total[n]
  BY DEF CostAmong
<1> HIDE DEF next
<1>3. PICK f : /\ f[0] = 0
               /\ \A i \in 1 .. n : f[i] = next[<<i, f[i - 1]>>]
               /\ \A i \in 0 .. n : f[i] \in Nat
  <2>1. \A i \in 1 .. n : \A v \in Nat : next[<<i, v>>] \in Nat
    BY <1>1
  <2>2. PICK f : Runs(f, n, 0, next, Nat)
    BY <2>1, RecursionExists
  <2>3. QED
    BY <2>2 DEF Runs
<1>4. \A i \in 1 .. n : f[i] = f[i - 1] + CostOf(acts[i].iv)
  <2> TAKE i \in 1 .. n
  <2>1. i - 1 \in 0 .. n
    OBVIOUS
  <2>2. f[i - 1] \in Nat
    BY <1>3, <2>1
  <2>3. QED
    BY <1>1, <1>3, <2>2
<1>5. \A i \in 0 .. n : i = 0 \/ i \in 1 .. n
  OBVIOUS
<1> DEFINE h == [i \in 0 .. n |-> f[i]]
<1>6. Total(h)
  <2>1. \A i \in 1 .. n : i - 1 \in 0 .. n
    OBVIOUS
  <2>2. \A i \in 0 .. n :
          h[i] = IF i = 0 THEN 0 ELSE h[i - 1] + CostOf(acts[i].iv)
    BY <1>3, <1>4, <1>5, <2>1
  <2>3. h = [i \in 0 .. n |-> h[i]]
    OBVIOUS
  <2> HIDE DEF h
  <2>4. QED
    BY <2>2, <2>3
<1>7. Total(total)
  <2> HIDE DEF Total
  <2>1. QED
    BY <1>6, Zenon
<1> HIDE DEF total
<1>8. /\ total[0] = 0
      /\ \A i \in 1 .. n : total[i] = total[i - 1] + CostOf(acts[i].iv)
  <2>1. 0 \in 0 .. n /\ \A i \in 1 .. n : i \in 0 .. n /\ i # 0
    OBVIOUS
  <2>2. QED
    BY <1>7, <2>1
<1> HIDE DEF Total, h
<1>9. \A i \in 0 .. n : total[i] = f[i]
  <2>1. Same(total, f, 0)
    BY <1>3, <1>8 DEF Same
  <2>2. \A i \in 1 .. n : Same(total, f, i - 1) => Same(total, f, i)
    BY <1>4, <1>8 DEF Same
  <2>3. \A i \in 0 .. n : Same(total, f, i)
    BY <2>1, <2>2, RecursionAgrees
  <2>4. QED
    BY <2>3 DEF Same
<1>10. \A i \in 0 .. n : total[i] \in Nat
  BY <1>3, <1>9
<1>11. Totals(total, acts, n)
  BY <1>2, <1>8, <1>10 DEF Totals
<1>12. QED
  BY <1>11

(***************************************************************************)
(* Nothing costs nothing.                                                  *)
(***************************************************************************)
LEMMA CostOfNone == ASSUME NEW acts PROVE CostAmong(acts, 0) = 0
<1>1. PICK f : Totals(f, acts, 0)
  BY CostsAddUp
<1>2. QED
  BY <1>1 DEF Totals

(***************************************************************************)
(* One action more costs what it costs, and the actions before it cost     *)
(* what they did.                                                          *)
(***************************************************************************)
LEMMA CostAfter ==
  ASSUME NEW acts, NEW more, NEW n \in Nat,
         \A i \in 1 .. n : more[i] = acts[i]
  PROVE  CostAmong(more, n + 1) = CostAmong(acts, n) + CostOf(more[n + 1].iv)
<1>1. PICK f : Totals(f, acts, n)
  BY CostsAddUp
<1>2. PICK g : Totals(g, more, n + 1)
  BY CostsAddUp
<1>3. /\ n \in 0 .. n
      /\ n + 1 \in 1 .. n + 1
      /\ (n + 1) - 1 = n
      /\ \A i \in 1 .. n : i \in 1 .. n + 1
  OBVIOUS
<1>4. \A i \in 0 .. n : f[i] = g[i]
  <2>1. Same(f, g, 0)
    BY <1>1, <1>2 DEF Same, Totals
  <2>2. \A i \in 1 .. n : Same(f, g, i - 1) => Same(f, g, i)
    BY <1>1, <1>2, <1>3 DEF Same, Totals
  <2>3. \A i \in 0 .. n : Same(f, g, i)
    BY <2>1, <2>2, RecursionAgrees
  <2>4. QED
    BY <2>3 DEF Same
<1>5. g[n + 1] = g[n] + CostOf(more[n + 1].iv)
  BY <1>2, <1>3 DEF Totals
<1>6. QED
  BY <1>1, <1>2, <1>3, <1>4, <1>5 DEF Totals

-----------------------------------------------------------------------------
(***************************************************************************)
(* The replay, by induction: draws and fatigue are those of resolve, the   *)
(* tallies are its sums over all the actions, and only the last action may *)
(* have landed, which is why resolve, that stops at the first landing,     *)
(* adds up the same actions.                                               *)
(***************************************************************************)
Landings == {i \in DOMAIN taken : taken[i].landed}

DrawnAsResolved ==
  \A i \in DOMAIN taken : /\ taken[i].draw = i - 1
                          /\ taken[i].before = MessagesAmong(taken, i - 1)

TalliesAreSums ==
  /\ contacts = MessagesAmong(taken, Len(taken))
  /\ spent = CostAmong(taken, Len(taken))

OnlyTheLastLands ==
  /\ Landings \subseteq {Len(taken)}
  /\ pc \in {"detect", "diagnose", "loop", "act"} =>
       Landings = {} /\ step = Len(taken)
  /\ pc = "record" => step + 1 = Len(taken)
  /\ pc \in {"detect", "diagnose", "loop", "act", "record"} => closedBy = "none"
  /\ pc \in {"observe", "done"} =>
       closedBy = IF Landings = {} THEN "none" ELSE LastTaken.iv

Resolved == pc = "done" => outcome = Resolve(case, taken)

ReplayInv == DrawnAsResolved /\ TalliesAreSums /\ OnlyTheLastLands /\ Resolved

(***************************************************************************)
(* Nothing was executed.                                                   *)
(***************************************************************************)
LEMMA InitReplay == Init => ReplayInv
<1> SUFFICES ASSUME Init PROVE ReplayInv
  OBVIOUS
<1>1. /\ taken = << >> /\ pc = "detect" /\ step = 0 /\ contacts = 0
      /\ spent = 0 /\ closedBy = "none"
  BY DEF Init, Begin
<1>2. DOMAIN taken = {} /\ Len(taken) = 0 /\ Landings = {}
  BY <1>1 DEF Landings
<1>3. MessagesAmong(taken, 0) = 0
  <2>1. {i \in 1 .. 0 : taken[i].iv \in Contacting} = {}
    OBVIOUS
  <2>2. QED
    BY <2>1, FS_EmptySet DEF MessagesAmong
<1>4. CostAmong(taken, 0) = 0
  BY CostOfNone
<1>5. QED
  BY <1>1, <1>2, <1>3, <1>4
     DEF ReplayInv, DrawnAsResolved, TalliesAreSums, OnlyTheLastLands, Resolved

(***************************************************************************)
(* A step that executes nothing and concludes nothing.                     *)
(***************************************************************************)
LEMMA ElsewhereReplay ==
  ASSUME TypeInv, ReplayInv,
         UNCHANGED <<taken, contacts, spent, closedBy, step>>,
         \/ pc' = pc /\ UNCHANGED <<case, outcome>>
         \/ /\ pc \in {"detect", "diagnose", "loop"}
            /\ pc' \in {"diagnose", "loop", "act", "observe"}
         \/ pc' = "aborted"
  PROVE  ReplayInv'
<1>1. DrawnAsResolved'
  BY DEF ReplayInv, DrawnAsResolved, MessagesAmong
<1>2. TalliesAreSums'
  BY DEF ReplayInv, TalliesAreSums, MessagesAmong, CostAmong
<1>3. Landings' = Landings /\ LastTaken' = LastTaken
  BY DEF Landings, LastTaken
<1>4. OnlyTheLastLands'
  BY <1>3 DEF ReplayInv, OnlyTheLastLands
<1>5. Resolved'
  <2>1. CASE pc' = pc /\ UNCHANGED <<case, outcome>>
    <3>1. Resolve(case, taken)' = Resolve(case, taken)
      BY <2>1 DEF Resolve, CostAmong, MessagesAmong
    <3>2. QED
      BY <2>1, <3>1 DEF ReplayInv, Resolved
  <2>2. CASE pc' # "done"
    BY <2>2 DEF Resolved
  <2>3. QED
    BY <2>1, <2>2
<1>6. QED
  BY <1>1, <1>2, <1>4, <1>5 DEF ReplayInv

(***************************************************************************)
(* The messages among all actions are those executed.                      *)
(***************************************************************************)
LEMMA MessagesExecuted ==
  ASSUME taken \in Seq(ActRecords)
  PROVE  MessagesAmong(taken, Len(taken)) = Cardinality(Executed(Contacting))
<1>1. DOMAIN taken = 1 .. Len(taken)
  OBVIOUS
<1>2. QED
  BY <1>1 DEF MessagesAmong, Executed

(***************************************************************************)
(* One action more is drawn, tallied and played as resolve would.          *)
(***************************************************************************)
LEMMA ActReplay ==
  ASSUME TypeInv, TypeInv', ReplayInv, Act
  PROVE  ReplayInv'
<1>1. PICK landed \in BOOLEAN :
        taken' = Append(taken, [iv |-> chosen.iv, at |-> chosen.at,
                                draw |-> step, before |-> ContactsBefore,
                                landed |-> landed])
  BY DEF Act
<1> DEFINE r == [iv |-> chosen.iv, at |-> chosen.at, draw |-> step,
                 before |-> ContactsBefore, landed |-> landed]
           k == Len(taken)
<1>2. r \in ActRecords
  BY DEF TypeInv, TypeOK, Proposals, ContactsBefore, ActRecords
<1>3. /\ r.iv = chosen.iv
      /\ r.draw = step
      /\ r.before = contacts
  BY DEF ContactsBefore
<1> HIDE DEF r
<1>4. taken' = Append(taken, r)
  BY <1>1 DEF r
<1>5. /\ taken \in Seq(ActRecords)
      /\ taken' \in Seq(ActRecords)
      /\ k \in Nat
      /\ DOMAIN taken = 1 .. k
      /\ DOMAIN taken' = 1 .. k + 1
      /\ Len(taken') = k + 1
      /\ taken'[k + 1] = r
      /\ \A i \in 1 .. k : taken'[i] = taken[i]
  BY <1>2, <1>4 DEF TypeInv, TypeOK
<1>6. pc = "act" /\ pc' = "record" /\ step' = step /\ closedBy' = closedBy
  BY DEF Act
<1>7. Landings = {} /\ step = k /\ closedBy = "none"
  BY <1>6 DEF ReplayInv, OnlyTheLastLands
<1>8. \A n \in 0 .. k : MessagesAmong(taken, n)' = MessagesAmong(taken, n)
  <2> TAKE n \in 0 .. k
  <2> HIDE DEF k
  <2>1. \A i \in 1 .. n : i \in 1 .. k
    BY <1>5
  <2>2. {i \in 1 .. n : taken'[i].iv \in Contacting}
          = {i \in 1 .. n : taken[i].iv \in Contacting}
    BY <1>5, <2>1
  <2>3. QED
    BY <2>2 DEF MessagesAmong
<1>9. TalliesAreSums'
  <2>1. contacts' = contacts + (IF r.iv \in Contacting THEN 1 ELSE 0)
        /\ spent' = spent + CostOf(r.iv)
    BY <1>3 DEF Act
  <2>2. MessagesAmong(taken', Len(taken')) = Cardinality(Executed(Contacting)')
    BY <1>5 DEF MessagesAmong, Executed
  <2>3. Cardinality(Executed(Contacting)')
          = Cardinality(Executed(Contacting)) + (IF r.iv \in Contacting THEN 1 ELSE 0)
    BY <1>2, <1>4, CountAfter
  <2>4. CostAmong(taken', k + 1) = CostAmong(taken, k) + CostOf(r.iv)
    <3> HIDE DEF k
    <3>1. QED
      BY <1>5, CostAfter
  <2>5. contacts' = MessagesAmong(taken', Len(taken'))
    BY <1>5, <2>1, <2>2, <2>3, MessagesExecuted DEF ReplayInv, TalliesAreSums
  <2>6. spent' = CostAmong(taken', Len(taken'))
    BY <1>5, <2>1, <2>4 DEF ReplayInv, TalliesAreSums
  <2>7. QED
    BY <2>5, <2>6 DEF TalliesAreSums
<1>10. DrawnAsResolved'
  <2>1. contacts = MessagesAmong(taken, k)
    BY DEF ReplayInv, TalliesAreSums
  <2> HIDE DEF k
  <2>2. ASSUME NEW i \in 1 .. k + 1
        PROVE  /\ taken'[i].draw = i - 1
               /\ taken'[i].before = MessagesAmong(taken, i - 1)'
    <3>1. CASE i = k + 1
      <4>1. i - 1 = k /\ k \in 0 .. k
        BY <3>1, <1>5
      <4>2. QED
        BY <3>1, <4>1, <2>1, <1>3, <1>5, <1>7, <1>8
    <3>2. CASE i \in 1 .. k
      <4>1. i - 1 \in 0 .. k
        BY <3>2, <1>5
      <4>2. QED
        BY <3>2, <4>1, <1>5, <1>8 DEF ReplayInv, DrawnAsResolved
    <3>3. QED
      BY <3>1, <3>2, <1>5
  <2>3. QED
    BY <2>2, <1>5 DEF DrawnAsResolved, MessagesAmong
<1>11. OnlyTheLastLands'
  <2> HIDE DEF k
  <2>1. \A i \in 1 .. k : ~taken'[i].landed
    BY <1>5, <1>7 DEF Landings
  <2>2. Landings' \subseteq {Len(taken')}
    BY <1>5, <2>1 DEF Landings
  <2>3. QED
    BY <1>5, <1>6, <1>7, <2>2 DEF OnlyTheLastLands
<1>12. Resolved'
  BY <1>6 DEF Resolved
<1>13. QED
  BY <1>9, <1>10, <1>11, <1>12 DEF ReplayInv

(***************************************************************************)
(* The loop goes on exactly when the action did not land.                  *)
(***************************************************************************)
LEMMA RecordReplay ==
  ASSUME TypeInv, ReplayInv, Record
  PROVE  ReplayInv'
<1>1. /\ pc = "record"
      /\ UNCHANGED <<taken, contacts, spent>>
      /\ LastTaken.landed => closedBy' = LastTaken.iv /\ pc' = "observe" /\ step' = step
      /\ ~LastTaken.landed => closedBy' = closedBy /\ pc' = "loop" /\ step' = step + 1
  BY DEF Record, tallies
<1>2. DrawnAsResolved'
  BY <1>1 DEF ReplayInv, DrawnAsResolved, MessagesAmong
<1>3. TalliesAreSums'
  BY <1>1 DEF ReplayInv, TalliesAreSums, MessagesAmong, CostAmong
<1>4. Landings' = Landings /\ LastTaken' = LastTaken
  BY <1>1 DEF Landings, LastTaken
<1>5. Landings = IF LastTaken.landed THEN {Len(taken)} ELSE {}
  <2>1. Len(taken) \in DOMAIN taken
    BY <1>1 DEF TypeInv, TypeOK, Recording
  <2>2. Landings \subseteq {Len(taken)}
    BY DEF ReplayInv, OnlyTheLastLands
  <2>3. Len(taken) \in Landings <=> LastTaken.landed
    BY <2>1 DEF Landings, LastTaken
  <2>4. QED
    BY <2>2, <2>3
<1>6. OnlyTheLastLands'
  BY <1>1, <1>4, <1>5 DEF ReplayInv, OnlyTheLastLands
<1>7. Resolved'
  BY <1>1 DEF Resolved
<1>8. QED
  BY <1>2, <1>3, <1>6, <1>7 DEF ReplayInv

(***************************************************************************)
(* The outcome observed is the one resolve returns: it stops at the first  *)
(* landing, which is the last action.                                      *)
(***************************************************************************)
LEMMA ObserveReplay ==
  ASSUME TypeInv, ReplayInv, Observe
  PROVE  ReplayInv'
<1>1. /\ pc = "observe" /\ pc' = "done"
      /\ UNCHANGED <<taken, contacts, spent, closedBy, step, case>>
  BY DEF Observe, tallies, given
<1>2. DrawnAsResolved'
  BY <1>1 DEF ReplayInv, DrawnAsResolved, MessagesAmong
<1>3. TalliesAreSums'
  BY <1>1 DEF ReplayInv, TalliesAreSums, MessagesAmong, CostAmong
<1>4. Landings' = Landings /\ LastTaken' = LastTaken
  BY <1>1 DEF Landings, LastTaken
<1>5. OnlyTheLastLands'
  BY <1>1, <1>4 DEF ReplayInv, OnlyTheLastLands
<1> DEFINE first == CHOOSE i \in Landings : \A j \in Landings : i <= j
           last  == IF Landings = {} THEN Len(taken) ELSE first
<1>6. last = Len(taken)
  <2>1. CASE Landings = {}
    BY <2>1
  <2>2. CASE Landings = {Len(taken)}
    <3>1. Len(taken) \in Nat
      BY DEF TypeInv, TypeOK
    <3>2. \E i \in Landings : \A j \in Landings : i <= j
      BY <2>2, <3>1
    <3>3. first \in Landings
      BY <3>2, Zenon
    <3> HIDE DEF first
    <3>4. QED
      BY <2>2, <3>3
  <2>3. QED
    BY <2>1, <2>2 DEF ReplayInv, OnlyTheLastLands
<1>7. closedBy = IF Landings = {} THEN "none" ELSE taken[last].iv
  BY <1>1, <1>6 DEF ReplayInv, OnlyTheLastLands, LastTaken
<1>8. spent = CostAmong(taken, last) /\ contacts = MessagesAmong(taken, last)
  BY <1>6 DEF ReplayInv, TalliesAreSums
<1>9. Resolve(case, taken)
        = [state |-> OutcomeState(closedBy, case.anyway, taken),
           recovered |-> IF closedBy # "none" \/ case.anyway
                         THEN case.event.amount ELSE 0,
           at |-> IF taken = << >> THEN case.event.occurred ELSE LastTaken.at,
           cost |-> spent,
           contacts |-> contacts,
           closedBy |-> closedBy,
           attributable |-> closedBy # "none" /\ ~case.anyway]
  <2> HIDE DEF last
  <2>1. Resolve(case, taken)
          = [state |-> OutcomeState(closedBy, case.anyway, taken),
             recovered |-> IF closedBy # "none" \/ case.anyway
                           THEN case.event.amount ELSE 0,
             at |-> IF taken = << >> THEN case.event.occurred
                                     ELSE taken[Len(taken)].at,
             cost |-> CostAmong(taken, last),
             contacts |-> MessagesAmong(taken, last),
             closedBy |-> closedBy,
             attributable |-> closedBy # "none" /\ ~case.anyway]
    BY <1>7 DEF Resolve, Landings, last
  <2>2. QED
    BY <1>8, <2>1 DEF LastTaken
<1>10. Resolve(case, taken)' = Resolve(case, taken)
  BY <1>1 DEF Resolve, CostAmong, MessagesAmong
<1>11. Resolved'
  BY <1>9, <1>10 DEF Observe, Resolved
<1>12. QED
  BY <1>2, <1>3, <1>5, <1>11 DEF ReplayInv

(***************************************************************************)
(* Every step keeps the invariant.                                         *)
(***************************************************************************)
LEMMA StepReplay == TypeInv /\ TypeInv' /\ ReplayInv /\ [Next]_vars => ReplayInv'
<1> SUFFICES ASSUME TypeInv, TypeInv', ReplayInv, [Next]_vars PROVE ReplayInv'
  OBVIOUS
<1>1. CASE Detect
  BY <1>1, ElsewhereReplay DEF Detect, tallies
<1>2. CASE Diagnose
  BY <1>2, ElsewhereReplay DEF Diagnose, tallies
<1>3. CASE Stop
  BY <1>3, ElsewhereReplay DEF Stop, tallies
<1>4. CASE Permit
  BY <1>4, ElsewhereReplay DEF Permit, Choose, Deciding, tallies
<1>5. CASE Defer
  BY <1>5, ElsewhereReplay DEF Defer, Choose, Deciding, tallies
<1>6. CASE Override
  BY <1>6, ElsewhereReplay DEF Override, Choose, Deciding, tallies
<1>7. CASE Halt
  BY <1>7, ElsewhereReplay DEF Halt, Deciding, tallies
<1>8. CASE Act
  BY <1>8, ActReplay
<1>9. CASE Record
  BY <1>9, RecordReplay
<1>10. CASE Observe
  BY <1>10, ObserveReplay
<1>11. CASE Abort
  BY <1>11, ElsewhereReplay DEF Abort, tallies
<1>12. CASE UNCHANGED vars
  BY <1>12, ElsewhereReplay DEF vars
<1>13. QED
  BY <1>1, <1>2, <1>3, <1>4, <1>5, <1>6, <1>7, <1>8, <1>9, <1>10, <1>11, <1>12
     DEF Next, Advance

(***************************************************************************)
(* The outcome the runner observes, one action at a time, is the one       *)
(* resolve reaches with all the actions at once: the same draws, the same  *)
(* fatigue, the same state, cost, contacts and attribution.                *)
(***************************************************************************)
THEOREM RunnerAgreesWithResolve == Spec => []AgreesWithResolve
<1>1. ReplayInv => AgreesWithResolve
  BY DEF ReplayInv, AgreesWithResolve, DrawnAsResolved, Resolved
<1>2. QED
  BY InitTyped, StepTyped, InitReplay, StepReplay, <1>1, PTL DEF Spec
=============================================================================
