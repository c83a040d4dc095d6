-------------------------- MODULE ModelAccessProofs --------------------------
(***************************************************************************)
(* What TLAPS proves of ModelAccess, for any questions, answers, prices,   *)
(* cap, pacing and number of processes.                                    *)
(***************************************************************************)
EXTENDS ModelAccess, FiniteSetTheorems, TLAPS

-----------------------------------------------------------------------------
(***************************************************************************)
(* Every step is one of these.                                             *)
(***************************************************************************)
LEMMA StepCases ==
  ASSUME Next
  PROVE  \/ \E m \in {"replay", "record", "live"} : Start(m)
         \/ \E q \in Questions : Recall(q)
         \/ \E q \in Questions : RecallRaises(q)
         \/ \E q \in Questions : Withhold(q)
         \/ \E q \in Questions : Consult(q)
         \/ Talk \/ ModelUnavailable \/ ReplyRaises
         \/ \E p \in Payloads, price \in Prices : Charge(p, price)
         \/ Put \/ Write \/ WriteRaises \/ Validate \/ ValidateRaises
         \/ Exit
BY DEF Next, Call, Proceed

(***************************************************************************)
(* Whatever ends a process leaves the directory as it is.                  *)
(***************************************************************************)
Over == ProcessGone /\ UNCHANGED <<disk, bought>> /\ raised' \in {raised, TRUE}

(***************************************************************************)
(* An exception and an exit are both the end of the process.               *)
(***************************************************************************)
LEMMA Endings ==
  /\ Exit => Over
  /\ WriteRaises => Over
  /\ ValidateRaises => Over
  /\ ReplyRaises => Over
  /\ \A q \in Questions : RecallRaises(q) => Over
BY DEF Exit, WriteRaises, ValidateRaises, ReplyRaises, RecallRaises, Raise, Over

-----------------------------------------------------------------------------
(***************************************************************************)
(* A gap that is slowed down is a gap.                                     *)
(***************************************************************************)
LEMMA SlowedDownTyped ==
  ASSUME interval \in Nat
  PROVE  SlowedDown \in Nat
<1>1. Wider(interval) \in Nat
  BY DEF Wider
<1>2. QED
  BY <1>1, ClientAssumption DEF SlowedDown

(***************************************************************************)
(* The client keeps its type while it talks.                               *)
(***************************************************************************)
LEMMA ExchangeTyped ==
  ASSUME ClientTypeOK, Exchange
  PROVE  ClientTypeOK'
<1>1. CASE Pace
  BY <1>1 DEF Pace, ClientTypeOK
<1>2. CASE Answered \/ GivesUp
  BY <1>2 DEF Answered, GivesUp, Ended, ClientTypeOK
<1>3. ASSUME NEW limited \in BOOLEAN, NEW delay \in Delays,
             Refused(limited, delay)
      PROVE  ClientTypeOK'
  <2>1. interval' \in Nat
    BY <1>3, SlowedDownTyped DEF Refused, ClientTypeOK
  <2>2. since' \in Nat /\ asked' \in Nat /\ attempt' \in 0 .. MaxRetries
    BY <1>3, ClientAssumption DEF Refused, RetriesLeft, ClientTypeOK
  <2>3. QED
    BY <1>3, <2>1, <2>2 DEF Refused, ClientTypeOK
<1>4. CASE Unreachable
  BY <1>4, ClientAssumption DEF Unreachable, RetriesLeft, ClientTypeOK
<1>5. QED
  BY <1>1, <1>2, <1>3, <1>4 DEF Exchange

(***************************************************************************)
(* A new client, one that is asked and one that has answered are typed.    *)
(***************************************************************************)
LEMMA ClientTyped ==
  ASSUME ClientTypeOK
  PROVE  /\ Disused /\ UNCHANGED interval => ClientTypeOK'
         /\ Ask => ClientTypeOK'
         /\ Idle => ClientTypeOK'
         /\ interval' \in Intervals /\ UNCHANGED <<since, phase, attempt, asked>>
              => ClientTypeOK'
         /\ UNCHANGED client => ClientTypeOK'
<1>1. Disused /\ UNCHANGED interval => ClientTypeOK'
  BY ClientAssumption DEF Disused, ClientTypeOK
<1>2. Ask => ClientTypeOK'
  BY ClientAssumption DEF Ask, ClientTypeOK
<1>3. QED
  BY <1>1, <1>2, ClientAssumption DEF Idle, ClientTypeOK, client

(***************************************************************************)
(* The initial state is typed.                                             *)
(***************************************************************************)
LEMMA InitTyped == Init => TypeOK
<1> SUFFICES ASSUME Init PROVE TypeOK
  OBVIOUS
<1>1. ClientTypeOK
  BY ClientAssumption DEF Init, Unused, ClientTypeOK
<1>2. starts \in 0 .. MaxStarts
  BY AccessAssumption DEF Init
<1>3. QED
  BY <1>1, <1>2 DEF Init, TypeOK, Nothing

(***************************************************************************)
(* Every step keeps the types.                                             *)
(***************************************************************************)
LEMMA NextTyped == TypeOK /\ [Next]_vars => TypeOK'
<1> SUFFICES ASSUME TypeOK, [Next]_vars PROVE TypeOK'
  OBVIOUS
<1> USE DEF store, budget, progress, history
<1>1. ASSUME Over PROVE TypeOK'
  BY <1>1, ClientTyped DEF Over, ProcessGone, TypeOK, Nothing
<1>2. ASSUME NEW m \in {"replay", "record", "live"}, Start(m) PROVE TypeOK'
  BY <1>2, ClientTyped, AccessAssumption DEF Start, TypeOK, Nothing
<1>3. ASSUME NEW q \in Questions, Recall(q) PROVE TypeOK'
  BY <1>3, ClientTyped DEF Recall, Kept, Goto, TypeOK
<1>4. ASSUME NEW q \in Questions, Withhold(q) PROVE TypeOK'
  BY <1>4, ClientTyped DEF Withhold, Tell, TypeOK
<1>5. ASSUME NEW q \in Questions, Consult(q) PROVE TypeOK'
  BY <1>5, ClientTyped DEF Consult, Goto, TypeOK
<1>6. CASE Talk
  BY <1>6, ExchangeTyped DEF Talk, TypeOK
<1>7. CASE ModelUnavailable
  BY <1>7, ClientTyped DEF ModelUnavailable, Tell, TypeOK
<1>8. ASSUME NEW p \in Payloads, NEW price \in Prices, Charge(p, price)
      PROVE  TypeOK'
  BY <1>8, ClientTyped, AccessAssumption DEF Charge, Goto, TypeOK
<1>9. CASE Put
  BY <1>9, ClientTyped DEF Put, Goto, TypeOK
<1>10. CASE Write
  BY <1>10, ClientTyped DEF Write, Goto, TypeOK
<1>11. CASE Validate
  BY <1>11, ClientTyped DEF Validate, Tell, DiagnosisOf, TypeOK
<1>12. CASE UNCHANGED vars
  BY <1>12, ClientTyped DEF vars, TypeOK
<1>13. QED
  BY <1>1, <1>2, <1>3, <1>4, <1>5, <1>6, <1>7, <1>8, <1>9, <1>10, <1>11,
     <1>12, StepCases, Endings

(***************************************************************************)
(* The shape of the state: in every reachable state the client, the store, *)
(* the meter and the call in progress are well typed.                      *)
(***************************************************************************)
THEOREM AccessTypeCorrect == Spec => []TypeOK
<1>1. Init => TypeOK
  BY InitTyped
<1>2. TypeOK /\ [Next]_vars => TypeOK'
  BY NextTyped
<1>3. QED
  BY <1>1, <1>2, PTL DEF Spec

-----------------------------------------------------------------------------
(***************************************************************************)
(* What is in memory is what is on disk, where both are.                   *)
(***************************************************************************)
Coherent ==
  \A q \in Questions : memo[q] # "none" /\ Kept(disk, q) => memo[q] = disk[q]

(***************************************************************************)
(* A question the model is asked has no answer yet, and the answer in hand *)
(* is the one in memory.                                                   *)
(***************************************************************************)
InHand ==
  /\ pc \in {"ask", "put"} => memo[question] = "none" /\ disk[question] = "none"
  /\ pc = "write" => disk[question] = "torn"
  /\ pc \in {"put", "write", "validate"} => payload \in Payloads
  /\ pc \in {"write", "validate"} => memo[question] = payload

(***************************************************************************)
(* ToldIsTheRecord, but for the question a call is about to answer.        *)
(***************************************************************************)
ToldSoFar ==
  mode # "down" =>
    \A q \in Questions :
      ~ (pc = "validate" /\ q = question) =>
        (told[q] # "none" /\ Kept(disk, q) => told[q] = DiagnosisOf(disk[q]))

RecordInv ==
  /\ TypeOK
  /\ mode = "down" => pc = "idle"
  /\ Coherent
  /\ InHand
  /\ ToldSoFar

(***************************************************************************)
(* No process, no answer.                                                  *)
(***************************************************************************)
LEMMA InitRecord == Init => RecordInv
BY InitTyped
   DEF Init, RecordInv, Nothing, Coherent, InHand, ToldSoFar

(***************************************************************************)
(* A process that ends takes what it has in hand with it.                  *)
(***************************************************************************)
LEMMA OverRecord == RecordInv /\ Over => RecordInv'
<1> SUFFICES ASSUME RecordInv, Over PROVE RecordInv'
  OBVIOUS
<1>1. TypeOK'
  BY ClientTyped DEF RecordInv, Over, ProcessGone, TypeOK, Nothing
<1>2. QED
  BY <1>1 DEF RecordInv, Over, ProcessGone, Nothing, Coherent, InHand, ToldSoFar

(***************************************************************************)
(* Every step keeps memory, disk and what is told in agreement.            *)
(***************************************************************************)
LEMMA NextRecord == RecordInv /\ [Next]_vars => RecordInv'
<1> SUFFICES ASSUME RecordInv, [Next]_vars PROVE RecordInv'
  OBVIOUS
<1> USE DEF store, budget, progress, history
<1>1. TypeOK /\ TypeOK'
  BY NextTyped DEF RecordInv
<1>2. ASSUME Over PROVE RecordInv'
  BY <1>2, OverRecord
<1>3. ASSUME NEW m \in {"replay", "record", "live"}, Start(m) PROVE RecordInv'
  BY <1>1, <1>3 DEF RecordInv, Start, Nothing, Coherent, InHand, ToldSoFar
<1>4. ASSUME NEW q \in Questions, Recall(q) PROVE RecordInv'
  <2>1. /\ pc = "idle" /\ pc' = "validate" /\ question' = q
        /\ UNCHANGED <<mode, disk, told>>
    BY <1>4 DEF Recall, Goto
  <2>2. /\ payload' \in Payloads
        /\ memo' = [memo EXCEPT ![q] = payload']
        /\ Kept(disk, q) => payload' = disk[q]
    BY <1>1, <1>4 DEF Recall, RecordInv, TypeOK, Coherent, Kept
  <2>3. Coherent'
    BY <1>1, <2>1, <2>2 DEF RecordInv, Coherent, Kept, TypeOK
  <2>4. InHand'
    BY <1>1, <2>1, <2>2 DEF InHand, TypeOK
  <2>5. ToldSoFar'
    BY <2>1 DEF RecordInv, ToldSoFar, Kept
  <2>6. QED
    BY <1>1, <1>4, <2>1, <2>3, <2>4, <2>5 DEF RecordInv, Recall
<1>5. ASSUME NEW q \in Questions, Withhold(q) PROVE RecordInv'
  BY <1>1, <1>5, AccessAssumption
     DEF RecordInv, Withhold, Unknown, Tell, Kept, Coherent, InHand, ToldSoFar,
         TypeOK
<1>6. ASSUME NEW q \in Questions, Consult(q) PROVE RecordInv'
  BY <1>1, <1>6
     DEF RecordInv, Consult, Unknown, Goto, Kept, Coherent, InHand, ToldSoFar
<1>7. CASE Talk
  BY <1>1, <1>7 DEF RecordInv, Talk, Kept, Coherent, InHand, ToldSoFar
<1>8. CASE ModelUnavailable
  BY <1>1, <1>8, AccessAssumption
     DEF RecordInv, ModelUnavailable, Tell, Kept, Coherent, InHand, ToldSoFar,
         TypeOK
<1>9. ASSUME NEW p \in Payloads, NEW price \in Prices, Charge(p, price)
      PROVE  RecordInv'
  BY <1>1, <1>9
     DEF RecordInv, Charge, Goto, Kept, Coherent, InHand, ToldSoFar
<1>10. CASE Put
  <2>1. /\ memo' = [memo EXCEPT ![question] = payload]
        /\ UNCHANGED <<mode, question, payload, told>>
        /\ payload \in Payloads
        /\ \/ disk' = [disk EXCEPT ![question] = "torn"] /\ pc' = "write"
           \/ disk' = disk /\ pc' = "validate"
    BY <1>10 DEF Put, Goto, RecordInv, InHand
  <2>2. disk[question] = "none" /\ ~Kept(disk', question)
    BY <1>1, <1>10, <2>1, AccessAssumption DEF Put, RecordInv, InHand, Kept, TypeOK
  <2>3. \A q \in Questions \ {question} : memo'[q] = memo[q] /\ disk'[q] = disk[q]
    BY <1>1, <2>1 DEF TypeOK
  <2>4. Coherent'
    BY <2>1, <2>2, <2>3 DEF RecordInv, Coherent, Kept
  <2>5. InHand'
    BY <1>1, <2>1 DEF InHand, TypeOK
  <2>6. ToldSoFar'
    BY <1>10, <2>1, <2>2, <2>3 DEF Put, RecordInv, ToldSoFar, Kept
  <2>7. QED
    BY <1>1, <1>10, <2>1, <2>4, <2>5, <2>6 DEF RecordInv, Put
<1>11. CASE Write
  <2>1. /\ disk' = [disk EXCEPT ![question] = payload]
        /\ pc = "write" /\ pc' = "validate"
        /\ UNCHANGED <<mode, memo, question, payload, told>>
        /\ payload \in Payloads /\ memo[question] = payload
    BY <1>11 DEF Write, Goto, RecordInv, InHand
  <2>2. \A q \in Questions \ {question} : disk'[q] = disk[q]
    BY <1>1, <2>1 DEF TypeOK
  <2>3. disk'[question] = payload
    BY <1>1, <2>1 DEF TypeOK
  <2>4. Coherent'
    BY <2>1, <2>2, <2>3 DEF RecordInv, Coherent, Kept
  <2>5. InHand'
    BY <2>1 DEF InHand
  <2>6. ToldSoFar'
    BY <2>1, <2>2 DEF RecordInv, ToldSoFar, Kept
  <2>7. QED
    BY <1>1, <2>1, <2>4, <2>5, <2>6 DEF RecordInv
<1>12. CASE Validate
  <2>1. /\ told' = [told EXCEPT ![question] = DiagnosisOf(payload)]
        /\ pc = "validate" /\ pc' = "idle"
        /\ UNCHANGED <<mode, memo, disk, question>>
        /\ memo[question] = payload /\ payload \in Payloads
    BY <1>12 DEF Validate, Tell, RecordInv, InHand
  <2>2. Kept(disk, question) => payload = disk[question]
    BY <1>1, <2>1, AccessAssumption DEF RecordInv, Coherent, TypeOK
  <2>3. Coherent' /\ InHand'
    BY <2>1 DEF RecordInv, Coherent, InHand, Kept
  <2>4. ToldSoFar'
    BY <1>1, <2>1, <2>2 DEF RecordInv, ToldSoFar, Kept, TypeOK
  <2>5. QED
    BY <1>1, <2>1, <2>3, <2>4 DEF RecordInv
<1>13. CASE UNCHANGED vars
  BY <1>1, <1>13 DEF vars, RecordInv, Coherent, InHand, ToldSoFar, Kept
<1>14. QED
  BY <1>2, <1>3, <1>4, <1>5, <1>6, <1>7, <1>8, <1>9, <1>10, <1>11, <1>12,
     <1>13, StepCases, Endings

(***************************************************************************)
(* Memory, directory and the call in progress agree in every state.        *)
(***************************************************************************)
LEMMA RecordAlways == Spec => []RecordInv
<1>1. RecordInv /\ [Next]_vars => RecordInv'
  BY NextRecord
<1>2. QED
  BY <1>1, InitRecord, PTL DEF Spec

(***************************************************************************)
(* A process tells of a question what the recorded answer says, whatever   *)
(* its mode, its budget, and the processes stopped before it.              *)
(***************************************************************************)
THEOREM ToldAsRecorded == Spec => []ToldIsTheRecord
<1>1. RecordInv => ToldIsTheRecord
  BY DEF RecordInv, ToldSoFar, ToldIsTheRecord
<1>2. QED
  BY <1>1, RecordAlways, PTL

(***************************************************************************)
(* An answer that is known is never bought again.                          *)
(***************************************************************************)
THEOREM NeverBoughtTwice == Spec => NotBoughtTwice
<1>1. ASSUME RecordInv, [Next]_vars
      PROVE  [calls' > calls => memo[question] = "none" /\ ~Kept(disk, question)]_vars
  <2> USE DEF store, budget, progress, history
  <2>1. TypeOK
    BY <1>1 DEF RecordInv
  <2>2. ASSUME Over PROVE ~ (calls' > calls)
    BY <2>1, <2>2 DEF Over, ProcessGone, TypeOK
  <2>3. ASSUME NEW p \in Payloads, NEW price \in Prices, Charge(p, price)
        PROVE  memo[question] = "none" /\ ~Kept(disk, question)
    BY <1>1, <2>3, AccessAssumption DEF Charge, RecordInv, InHand, Kept
  <2>4. ASSUME calls' = calls PROVE ~ (calls' > calls)
    BY <2>1, <2>4 DEF TypeOK
  <2>5. CASE UNCHANGED vars
    BY <2>5
  <2>6. CASE Next
    BY <2>2, <2>3, <2>4, <2>6, StepCases, Endings
       DEF Start, Recall, Withhold, Consult, Talk, ModelUnavailable, Put, Write,
           Validate
  <2>7. QED
    BY <1>1, <2>5, <2>6
<1>2. QED
  BY <1>1, RecordAlways, PTL DEF Spec, NotBoughtTwice

-----------------------------------------------------------------------------
(***************************************************************************)
(* While a call is under way the cap has not been reached.                 *)
(***************************************************************************)
SpendInv ==
  /\ TypeOK
  /\ mode = "down" => pc = "idle"
  /\ SpendIsBounded
  /\ pc = "ask" => spent < Cap

(***************************************************************************)
(* What can be afforded, at the mean of the calls so far, leaves something *)
(* of the cap.                                                             *)
(***************************************************************************)
LEMMA AffordableIsUnderTheCap ==
  ASSUME TypeOK, CanAfford, calls = 0 => spent = 0
  PROVE  spent < Cap
<1>1. CASE calls = 0
  BY <1>1 DEF CanAfford
<1>2. CASE calls # 0
  <2>1. calls \in Nat \ {0} /\ spent \in Nat /\ Cap \in Nat
    BY <1>2, AccessAssumption DEF TypeOK
  <2>2. spent * calls + spent < Cap * calls
    BY <1>2 DEF CanAfford
  <2>3. ASSUME Cap <= spent PROVE FALSE
    <3>1. Cap * calls <= spent * calls
      BY <2>1, <2>3
    <3>2. spent * calls \in Nat /\ Cap * calls \in Nat
      BY <2>1
    <3>3. QED
      BY <2>1, <2>2, <3>1, <3>2
  <2>4. QED
    BY <2>1, <2>3
<1>3. QED
  BY <1>1, <1>2

MeterInv == SpendInv /\ (calls = 0 => spent = 0)

(***************************************************************************)
(* Nothing was spent.                                                      *)
(***************************************************************************)
LEMMA InitMeter == Init => MeterInv
BY InitTyped DEF Init, MeterInv, SpendInv, SpendIsBounded

(***************************************************************************)
(* Only a call that was affordable is charged.                             *)
(***************************************************************************)
LEMMA NextMeter == MeterInv /\ [Next]_vars => MeterInv'
<1> SUFFICES ASSUME MeterInv, [Next]_vars PROVE MeterInv'
  OBVIOUS
<1> USE DEF store, budget, progress, history
<1>1. TypeOK /\ TypeOK'
  BY NextTyped DEF MeterInv, SpendInv
<1>2. ASSUME Over PROVE MeterInv'
  BY <1>1, <1>2 DEF Over, ProcessGone, MeterInv, SpendInv, SpendIsBounded
<1>3. ASSUME NEW m \in {"replay", "record", "live"}, Start(m) PROVE MeterInv'
  BY <1>1, <1>3 DEF Start, MeterInv, SpendInv, SpendIsBounded
<1>4. ASSUME NEW q \in Questions, Recall(q) \/ Withhold(q) PROVE MeterInv'
  BY <1>1, <1>4
     DEF Recall, Withhold, Unknown, Tell, Goto, MeterInv, SpendInv, SpendIsBounded
<1>5. ASSUME NEW q \in Questions, Consult(q) PROVE MeterInv'
  <2>1. spent < Cap
    BY <1>1, <1>5, AffordableIsUnderTheCap DEF Consult, MayCall, MeterInv
  <2>2. QED
    BY <1>1, <1>5, <2>1
       DEF Consult, Unknown, Goto, MeterInv, SpendInv, SpendIsBounded
<1>6. CASE Talk
  BY <1>1, <1>6 DEF Talk, MeterInv, SpendInv, SpendIsBounded
<1>7. CASE ModelUnavailable \/ Put \/ Write \/ Validate
  BY <1>1, <1>7
     DEF ModelUnavailable, Put, Write, Validate, Tell, Goto, MeterInv, SpendInv,
         SpendIsBounded
<1>8. ASSUME NEW p \in Payloads, NEW price \in Prices, Charge(p, price)
      PROVE  MeterInv'
  <2>1. spent' < Cap + price
    BY <1>1, <1>8, AccessAssumption DEF Charge, MeterInv, SpendInv, TypeOK
  <2>2. SpendIsBounded'
    BY <2>1 DEF SpendIsBounded
  <2>3. calls' # 0
    BY <1>1, <1>8 DEF Charge, TypeOK
  <2>4. QED
    BY <1>1, <1>8, <2>2, <2>3 DEF Charge, Goto, MeterInv, SpendInv
<1>9. CASE UNCHANGED vars
  BY <1>1, <1>9 DEF vars, MeterInv, SpendInv, SpendIsBounded
<1>10. QED
  BY <1>2, <1>3, <1>4, <1>5, <1>6, <1>7, <1>8, <1>9, StepCases, Endings

(***************************************************************************)
(* A process passes its cap by less than the price of one call.            *)
(***************************************************************************)
THEOREM SpendBounded == Spec => []SpendIsBounded
<1>1. MeterInv /\ [Next]_vars => MeterInv'
  BY NextMeter
<1>2. MeterInv => SpendIsBounded
  BY DEF MeterInv, SpendInv
<1>3. QED
  BY <1>1, <1>2, InitMeter, PTL DEF Spec

-----------------------------------------------------------------------------
(***************************************************************************)
(* A retry has waited as long as it was asked to before it is paced, and   *)
(* the client is at work only in a call of a process that runs.            *)
(***************************************************************************)
SpacingInv ==
  /\ TypeOK
  /\ RequestsAreSpaced
  /\ phase = "pace" /\ attempt > 0 => since # NeverCalled /\ since >= asked
  /\ phase # "idle" => pc = "ask" /\ mode # "down"

(***************************************************************************)
(* Nothing was sent.                                                       *)
(***************************************************************************)
LEMMA InitSpacing == Init => SpacingInv
BY InitTyped DEF Init, Unused, SpacingInv, RequestsAreSpaced

(***************************************************************************)
(* The exchange keeps the requests apart.                                  *)
(***************************************************************************)
LEMMA ExchangeSpacing ==
  ASSUME SpacingInv, Talk, TypeOK'
  PROVE  SpacingInv'
<1> USE DEF NeverCalled
<1>0. pc = "ask" /\ UNCHANGED <<mode, pc>> /\ Exchange
  BY DEF Talk, progress
<1>1. CASE Pace
  BY <1>0, <1>1 DEF Pace, SpacingInv, RequestsAreSpaced, TypeOK, ClientTypeOK
<1>2. CASE Answered \/ GivesUp
  BY <1>0, <1>2 DEF Answered, GivesUp, Ended, SpacingInv, RequestsAreSpaced
<1>3. ASSUME NEW limited \in BOOLEAN, NEW delay \in Delays,
             Refused(limited, delay)
      PROVE  SpacingInv'
  <2>1. delay \in Nat /\ Backoff[attempt] \in Nat
    BY <1>3, ClientAssumption
       DEF Refused, RetriesLeft, SpacingInv, TypeOK, ClientTypeOK
  <2>2. QED
    BY <1>0, <1>3, <2>1 DEF Refused, RetriesLeft, SpacingInv, RequestsAreSpaced
<1>4. CASE Unreachable
  <2>1. Backoff[attempt] \in Nat
    BY <1>4, ClientAssumption
       DEF Unreachable, RetriesLeft, SpacingInv, TypeOK, ClientTypeOK
  <2>2. QED
    BY <1>0, <1>4, <2>1 DEF Unreachable, RetriesLeft, SpacingInv, RequestsAreSpaced
<1>5. QED
  BY <1>0, <1>1, <1>2, <1>3, <1>4 DEF Exchange

(***************************************************************************)
(* Nothing but the exchange sends.                                         *)
(***************************************************************************)
LEMMA NextSpacing == SpacingInv /\ [Next]_vars => SpacingInv'
<1> SUFFICES ASSUME SpacingInv, [Next]_vars PROVE SpacingInv'
  OBVIOUS
<1> USE DEF store, budget, progress, history, NeverCalled
<1>1. TypeOK'
  BY NextTyped DEF SpacingInv
<1>2. ASSUME Over PROVE SpacingInv'
  BY <1>1, <1>2 DEF Over, ProcessGone, Disused, SpacingInv, RequestsAreSpaced
<1>3. ASSUME NEW m \in {"replay", "record", "live"}, Start(m) PROVE SpacingInv'
  BY <1>1, <1>3 DEF Start, SpacingInv, RequestsAreSpaced
<1>4. ASSUME NEW q \in Questions, Recall(q) \/ Withhold(q) PROVE SpacingInv'
  BY <1>1, <1>4
     DEF Recall, Withhold, Unknown, Tell, Goto, SpacingInv, RequestsAreSpaced, client
<1>5. ASSUME NEW q \in Questions, Consult(q) PROVE SpacingInv'
  BY <1>1, <1>5 DEF Consult, Unknown, Goto, Ask, SpacingInv, RequestsAreSpaced
<1>6. CASE Talk
  BY <1>1, <1>6, ExchangeSpacing
<1>7. CASE ModelUnavailable
  BY <1>1, <1>7 DEF ModelUnavailable, Idle, SpacingInv, RequestsAreSpaced
<1>8. ASSUME NEW p \in Payloads, NEW price \in Prices, Charge(p, price)
      PROVE  SpacingInv'
  BY <1>1, <1>8 DEF Charge, Idle, SpacingInv, RequestsAreSpaced
<1>9. CASE Put \/ Write \/ Validate
  BY <1>1, <1>9
     DEF Put, Write, Validate, SpacingInv, RequestsAreSpaced, client
<1>10. CASE UNCHANGED vars
  BY <1>1, <1>10 DEF vars, client, SpacingInv, RequestsAreSpaced
<1>11. QED
  BY <1>2, <1>3, <1>4, <1>5, <1>6, <1>7, <1>8, <1>9, <1>10, StepCases, Endings

(***************************************************************************)
(* No request is sent sooner than the gap in force, no retry sooner than   *)
(* the provider asked.                                                     *)
(***************************************************************************)
THEOREM RequestsSpaced == Spec => []RequestsAreSpaced
<1>1. SpacingInv /\ [Next]_vars => SpacingInv'
  BY NextSpacing
<1>2. SpacingInv => RequestsAreSpaced
  BY DEF SpacingInv
<1>3. QED
  BY <1>1, <1>2, InitSpacing, PTL DEF Spec
-----------------------------------------------------------------------------
(***************************************************************************)
(* What was paid for and is not on disk; of that, what the processes that  *)
(* ended have left behind; and how many they are.                          *)
(***************************************************************************)
Lost == {q \in bought : ~Kept(disk, q)}

Abandoned ==
  IF mode = "record" /\ pc \in {"put", "write"} THEN Lost \ {question} ELSE Lost

Departed == IF mode = "down" THEN starts ELSE starts - 1

LossInv ==
  /\ RecordInv
  /\ IsFiniteSet(Lost)
  /\ Cardinality(Abandoned) <= Departed

(***************************************************************************)
(* The bound holds on while no more is abandoned.                          *)
(***************************************************************************)
LEMMA NoMoreAbandoned ==
  ASSUME LossInv, RecordInv', NEW x, Lost' \subseteq Lost \cup {x},
         Abandoned' \subseteq Abandoned, Departed' = Departed
  PROVE  LossInv'
<1>1. IsFiniteSet(Lost \cup {x}) /\ IsFiniteSet(Lost)
  BY FS_AddElement DEF LossInv
<1>2. IsFiniteSet(Lost')
  BY <1>1, FS_Subset
<1>3. Abandoned \subseteq Lost
  BY DEF Abandoned
<1>4. IsFiniteSet(Abandoned)
  BY <1>1, <1>3, FS_Subset
<1>5. /\ Cardinality(Abandoned') <= Cardinality(Abandoned)
      /\ IsFiniteSet(Abandoned')
  BY <1>4, FS_Subset
<1>6. Cardinality(Abandoned) \in Nat /\ Cardinality(Abandoned') \in Nat
  BY <1>4, <1>5, FS_CardinalityType
<1>7. Departed \in Int
  BY DEF LossInv, RecordInv, TypeOK, Departed
<1>8. Cardinality(Abandoned') <= Departed'
  BY <1>5, <1>6, <1>7 DEF LossInv
<1> QED
  BY <1>2, <1>8 DEF LossInv

(***************************************************************************)
(* A process that ends leaves behind at most what it has in hand.          *)
(***************************************************************************)
LEMMA EndingAbandonsOne == ASSUME LossInv, Over PROVE LossInv'
<1>1. RecordInv'
  BY OverRecord DEF LossInv
<1>2. /\ Lost' = Lost /\ Abandoned' = Lost
      /\ Departed' = Departed + 1 /\ Departed \in Int
  BY <1>1 DEF Over, ProcessGone, Lost, Abandoned, Departed, Kept, LossInv, RecordInv,
              TypeOK
<1>3. Lost \subseteq Abandoned \cup {question} /\ Abandoned \subseteq Lost
  BY DEF Abandoned
<1>4. IsFiniteSet(Abandoned) /\ IsFiniteSet(Lost)
  BY <1>3, FS_Subset DEF LossInv
<1>5. /\ IsFiniteSet(Abandoned \cup {question})
      /\ Cardinality(Abandoned \cup {question}) <= Cardinality(Abandoned) + 1
  <2>1. Cardinality(Abandoned) \in Nat
    BY <1>4, FS_CardinalityType
  <2> QED
    BY <1>4, <2>1, FS_AddElement
<1>6. Cardinality(Lost) <= Cardinality(Abandoned \cup {question})
  BY <1>3, <1>5, FS_Subset
<1>7. /\ Cardinality(Lost) \in Nat /\ Cardinality(Abandoned) \in Nat
      /\ Cardinality(Abandoned \cup {question}) \in Nat
  BY <1>4, <1>5, FS_CardinalityType
<1>8. Cardinality(Lost) <= Departed + 1
  BY <1>2, <1>5, <1>6, <1>7 DEF LossInv
<1> QED
  BY <1>1, <1>2, <1>4, <1>8 DEF LossInv

(***************************************************************************)
(* Every other step abandons nothing.                                      *)
(***************************************************************************)
LEMMA NextLoss == LossInv /\ [Next]_vars => LossInv'
<1> SUFFICES ASSUME LossInv, [Next]_vars PROVE LossInv'
  OBVIOUS
<1> USE DEF store, budget, progress, history
<1>1. RecordInv /\ RecordInv' /\ TypeOK /\ TypeOK'
  BY NextRecord DEF LossInv, RecordInv
<1>2. ASSUME Over PROVE LossInv'
  BY <1>2, EndingAbandonsOne
<1>3. ASSUME NEW m \in {"replay", "record", "live"}, Start(m) PROVE LossInv'
  <2>1. Lost' = Lost /\ Abandoned' = Lost /\ Abandoned = Lost
    BY <1>1, <1>3 DEF Start, Lost, Abandoned, Kept, RecordInv
  <2>2. Departed' = Departed
    BY <1>1, <1>3 DEF Start, Departed, TypeOK
  <2> QED
    BY <1>1, <2>1, <2>2, NoMoreAbandoned
<1>4. ASSUME UNCHANGED <<disk, bought, mode, starts>>,
             pc \notin {"put", "write"} \/ mode # "record",
             pc' \notin {"put", "write"} \/ mode # "record"
      PROVE  LossInv'
  <2>1. Lost' = Lost /\ Abandoned' = Lost /\ Abandoned = Lost /\ Departed' = Departed
    BY <1>4 DEF Lost, Abandoned, Departed, Kept
  <2> QED
    BY <1>1, <2>1, NoMoreAbandoned
<1>5. ASSUME NEW q \in Questions, Recall(q) \/ Withhold(q) \/ Consult(q)
      PROVE  LossInv'
  BY <1>4, <1>5 DEF Recall, Withhold, Consult, Unknown, Tell, Goto
<1>6. CASE Talk \/ ModelUnavailable \/ Validate
  BY <1>4, <1>6 DEF Talk, ModelUnavailable, Validate, Tell
<1>7. ASSUME NEW p \in Payloads, NEW price \in Prices, Charge(p, price)
      PROVE  LossInv'
  <2>1. /\ pc = "ask" /\ pc' = "put" /\ UNCHANGED <<disk, mode, question, starts>>
        /\ bought' = IF mode = "record" THEN bought \cup {question} ELSE bought
    BY <1>7 DEF Charge, Goto
  <2>2. Lost' \subseteq Lost \cup {question} /\ Departed' = Departed
    BY <2>1 DEF Lost, Departed, Kept
  <2>3. Abandoned' \subseteq Abandoned
    BY <2>1 DEF Lost, Abandoned, Kept
  <2> QED
    BY <1>1, <2>2, <2>3, NoMoreAbandoned
<1>8. CASE Put /\ mode = "record"
  <2>1. /\ pc = "put" /\ pc' = "write"
        /\ UNCHANGED <<mode, bought, question, starts>>
        /\ disk' = [disk EXCEPT ![question] = "torn"]
    BY <1>8 DEF Put, Goto
  <2>2. \A q \in Questions \ {question} : disk'[q] = disk[q]
    BY <1>1, <2>1 DEF TypeOK
  <2>3. Lost' \subseteq Lost \cup {question} /\ Departed' = Departed
    BY <1>1, <2>1, <2>2 DEF Lost, Departed, Kept, TypeOK
  <2>4. Abandoned' \subseteq Abandoned
    BY <1>1, <1>8, <2>1, <2>3 DEF Abandoned
  <2> QED
    BY <1>1, <2>3, <2>4, NoMoreAbandoned
<1>9. CASE Put /\ mode # "record"
  BY <1>4, <1>9 DEF Put, Goto
<1>10. CASE Write
  <2>1. /\ pc = "write" /\ pc' = "validate"
        /\ UNCHANGED <<mode, bought, question, starts>>
        /\ disk' = [disk EXCEPT ![question] = payload]
        /\ payload \in Payloads
    BY <1>1, <1>10 DEF Write, Goto, RecordInv, InHand
  <2>2. /\ \A q \in Questions \ {question} : disk'[q] = disk[q]
        /\ Kept(disk', question)
    BY <1>1, <2>1 DEF TypeOK, Kept
  <2>3. Lost' \subseteq Lost \ {question}
    BY <1>1, <2>1, <2>2 DEF Lost, Kept, TypeOK
  <2>4. Abandoned' \subseteq Abandoned /\ Departed' = Departed
    BY <2>1, <2>3 DEF Abandoned, Departed
  <2> QED
    BY <1>1, <2>3, <2>4, NoMoreAbandoned
<1>11. CASE UNCHANGED vars
  <2>1. Lost' = Lost /\ Abandoned' = Abandoned /\ Departed' = Departed
    BY <1>11 DEF vars, Lost, Abandoned, Departed, Kept
  <2> QED
    BY <1>1, <2>1, NoMoreAbandoned
<1> QED
  BY <1>2, <1>3, <1>5, <1>6, <1>7, <1>8, <1>9, <1>10, <1>11, StepCases, Endings

(***************************************************************************)
(* Over all its restarts a recorder loses at most the answer each process  *)
(* had in hand when it ended.                                              *)
(***************************************************************************)
THEOREM AtMostOneLostEach == Spec => []LosesAtMostOneEach
<1>1. Init => LossInv
  <2> SUFFICES ASSUME Init PROVE LossInv
    OBVIOUS
  <2>1. Lost = {} /\ Abandoned = {} /\ Departed = 0
    BY DEF Init, Lost, Abandoned, Departed
  <2> QED
    BY <2>1, InitRecord, FS_EmptySet DEF LossInv
<1>2. LossInv => LosesAtMostOneEach
  <2> SUFFICES ASSUME LossInv PROVE Cardinality(Lost) <= starts
    BY DEF LosesAtMostOneEach, Lost
  <2>1. CASE Abandoned = Lost
    <3>1. Cardinality(Lost) \in Nat
      BY FS_CardinalityType DEF LossInv
    <3> QED
      BY <2>1, <3>1 DEF LossInv, Departed, RecordInv, TypeOK
  <2>2. CASE Abandoned # Lost
    <3>1. Abandoned = Lost \ {question} /\ mode # "down" /\ question \in Lost
      BY <2>2 DEF Abandoned
    <3>2. /\ IsFiniteSet(Abandoned)
          /\ Abandoned \cup {question} = Lost
      BY <3>1, FS_Subset DEF LossInv
    <3>3. Cardinality(Abandoned) \in Nat
      BY <3>2, FS_CardinalityType
    <3>4. Cardinality(Lost) <= Cardinality(Abandoned) + 1
      BY <3>2, <3>3, FS_AddElement
    <3>5. Cardinality(Lost) \in Nat /\ starts \in Nat
      BY FS_CardinalityType DEF LossInv, RecordInv, TypeOK
    <3> QED
      BY <3>1, <3>3, <3>4, <3>5 DEF LossInv, Departed
  <2> QED
    BY <2>1, <2>2
<1>3. LossInv /\ [Next]_vars => LossInv'
  BY NextLoss
<1> QED
  BY <1>1, <1>2, <1>3, PTL DEF Spec
=============================================================================
