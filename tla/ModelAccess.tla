----------------------------- MODULE ModelAccess -----------------------------
(***************************************************************************)
(* The model behind the diagnoser: LLMDiagnoser.__call__                   *)
(* (src/backend/counterfoil/kernel/diagnose/llm.py) with the FixtureStore, *)
(* the Budget and the client it is given, over the life of several         *)
(* processes that share one directory of fixtures: the recorder, stopped   *)
(* and run again (src/tools/record_fixtures.py), and batches that replay.  *)
(*                                                                         *)
(* A question is what case_fingerprint makes of an event.  An answer is    *)
(* one of Payloads: Accepted if validation makes a diagnosis of it,        *)
(* Malformed if it is no JSON object, else one validation rejects.         *)
(***************************************************************************)
EXTENDS ModelClient, FiniteSets

CONSTANTS
  Questions,
  Payloads,
  Accepted,
  Malformed,
  Prices,      \* what a call may cost
  Cap,         \* Budget.cap_usd
  MaxStarts    \* processes in a behaviour

ASSUME AccessAssumption ==
  /\ Accepted \cup Malformed \subseteq Payloads
  /\ Accepted \cap Malformed = {}
  /\ {"none", "torn", "degraded"} \cap Payloads = {}
  /\ Prices \subseteq Nat
  /\ {Cap, MaxStarts} \subseteq Nat

VARIABLES
  mode,       \* FixtureStore.mode, or "down" between two processes
  disk,       \* the file of each question
  memo,       \* FixtureStore._memo
  spent,      \* Budget.spent_usd
  calls,      \* Budget.calls, the length of its _history
  pc,         \* where __call__ is
  question,   \* what it was called with
  payload,    \* the answer it has in hand
  told,       \* what this process was last told of each question
  bought,     \* the questions the recorder ever paid for
  starts,     \* processes started
  raised      \* a call has ended in an exception

store == <<disk, memo>>
budget == <<spent, calls>>
progress == <<pc, question, payload>>
history == <<told, bought, starts, raised>>

vars == <<client, mode, store, budget, progress, history>>

Kept(files, q) == files[q] \in Payloads

-----------------------------------------------------------------------------
Nothing == [q \in Questions |-> "none"]

Init ==
  /\ interval \in Intervals
  /\ Unused
  /\ mode = "down"
  /\ disk = Nothing
  /\ memo = Nothing
  /\ spent = 0
  /\ calls = 0
  /\ pc = "idle"
  /\ question \in Questions
  /\ payload = "none"
  /\ told = Nothing
  /\ bought = {}
  /\ starts = 0
  /\ raised = FALSE

(***************************************************************************)
(* A process begins, with a store, a budget and a client of its own.  One  *)
(* in record or live mode that has no client answers as one in replay.     *)
(***************************************************************************)
Start(m) ==
  /\ mode = "down"
  /\ starts < MaxStarts
  /\ starts' = starts + 1
  /\ mode' = m
  /\ told' = Nothing
  /\ interval' \in Intervals
  /\ UNCHANGED <<since, phase, attempt, asked, store, budget, progress,
                 bought, raised>>

ProcessGone ==
  /\ mode # "down"
  /\ mode' = "down"
  /\ memo' = Nothing
  /\ spent' = 0
  /\ calls' = 0
  /\ pc' = "idle"
  /\ payload' = "none"
  /\ Disused
  /\ UNCHANGED <<interval, question, told, starts>>

(***************************************************************************)
(* The process ends, or is stopped, anywhere in a call.                    *)
(***************************************************************************)
Exit == ProcessGone /\ UNCHANGED <<disk, bought, raised>>

(***************************************************************************)
(* An exception leaves __call__.  Neither run_case nor the recorder has a  *)
(* handler for it.                                                         *)
(***************************************************************************)
Raise == ProcessGone /\ UNCHANGED <<disk, bought>> /\ raised' = TRUE

-----------------------------------------------------------------------------
Goto(place) == pc' = place

(***************************************************************************)
(* The call returns.                                                       *)
(***************************************************************************)
Tell(q, diagnosis) ==
  /\ told' = [told EXCEPT ![q] = diagnosis]
  /\ pc' = "idle"
  /\ payload' = "none"

(***************************************************************************)
(* FixtureStore.get: the answer is in memory, or in a file that parses.    *)
(***************************************************************************)
Recall(q) ==
  /\ mode # "down"
  /\ pc = "idle"
  /\ \/ memo[q] # "none" /\ payload' = memo[q]
     \/ memo[q] = "none" /\ Kept(disk, q) /\ payload' = disk[q]
  /\ memo' = [memo EXCEPT ![q] = payload']
  /\ question' = q
  /\ Goto("validate")
  /\ UNCHANGED <<client, mode, disk, budget, history>>

(***************************************************************************)
(* The file is there and does not parse.                                   *)
(***************************************************************************)
RecallRaises(q) ==
  /\ pc = "idle"
  /\ memo[q] = "none"
  /\ disk[q] = "torn"
  /\ Raise

\* Slip: only what this process has seen is known.
UnknownToMemory(q) ==
  /\ mode # "down"
  /\ pc = "idle"
  /\ memo[q] = "none"

\* Slip: the budget is asked before the store.
UnknownOrTooDear(q) ==
  /\ mode # "down"
  /\ pc = "idle"
  /\ memo[q] = "none"
  /\ disk[q] = "none" \/ spent >= Cap

(***************************************************************************)
(* Nobody has answered the question: a miss.                               *)
(***************************************************************************)
Unknown(q) ==
  /\ mode # "down"
  /\ pc = "idle"
  /\ memo[q] = "none"
  /\ disk[q] = "none"

\* Slip: a cap that is just reached still leaves room for a call.
CanAffordAtTheCap == spent <= Cap

(***************************************************************************)
(* can_afford(mean_call_usd): spent + spent / calls < cap.                 *)
(***************************************************************************)
CanAfford == IF calls = 0 THEN Cap > 0
                          ELSE spent * calls + spent < Cap * calls

MayCall == mode \in {"record", "live"} /\ CanAfford

(***************************************************************************)
(* A miss in replay mode, or with the cap reached, degrades.               *)
(***************************************************************************)
Withhold(q) ==
  /\ Unknown(q)
  /\ ~MayCall
  /\ question' = q
  /\ Tell(q, "degraded")
  /\ UNCHANGED <<client, mode, store, budget, bought, starts, raised>>

(***************************************************************************)
(* The client is called.                                                   *)
(***************************************************************************)
Consult(q) ==
  /\ Unknown(q)
  /\ MayCall
  /\ question' = q
  /\ Ask
  /\ Goto("ask")
  /\ UNCHANGED <<mode, store, budget, payload, history>>

(***************************************************************************)
(* The client is at it.                                                    *)
(***************************************************************************)
Talk ==
  /\ pc = "ask"
  /\ Exchange
  /\ UNCHANGED <<mode, store, budget, progress, history>>

(***************************************************************************)
(* except LLMError.                                                        *)
(***************************************************************************)
ModelUnavailable ==
  /\ pc = "ask"
  /\ phase = "failed"
  /\ Idle
  /\ Tell(question, "degraded")
  /\ UNCHANGED <<mode, store, budget, question, bought, starts, raised>>

(***************************************************************************)
(* A reply whose body is no JSON at all, or whose parts have types other   *)
(* than the ones ask takes it apart by: what that raises is no LLMError.   *)
(***************************************************************************)
ReplyRaises ==
  /\ pc = "ask"
  /\ phase = "send"
  /\ Raise

(***************************************************************************)
(* The answer is paid for.                                                 *)
(***************************************************************************)
Charge(p, price) ==
  /\ pc = "ask"
  /\ phase = "answered"
  /\ Idle
  /\ payload' = p
  /\ spent' = spent + price
  /\ calls' = calls + 1
  /\ bought' = IF mode = "record" THEN bought \cup {question} ELSE bought
  /\ Goto("put")
  /\ UNCHANGED <<mode, store, question, told, starts, raised>>

\* Slip: only an answer that was accepted is kept.
PutIfAccepted ==
  /\ pc = "put"
  /\ memo' = [memo EXCEPT ![question] = payload]
  /\ IF mode = "record" /\ payload \in Accepted
     THEN disk' = [disk EXCEPT ![question] = "torn"] /\ Goto("write")
     ELSE UNCHANGED disk /\ Goto("validate")
  /\ UNCHANGED <<client, mode, budget, question, payload, history>>

(***************************************************************************)
(* FixtureStore.put keeps the answer in memory and, when it records, opens *)
(* the file for writing: until all is written it does not parse.           *)
(***************************************************************************)
Put ==
  /\ pc = "put"
  /\ memo' = [memo EXCEPT ![question] = payload]
  /\ IF mode = "record"
     THEN disk' = [disk EXCEPT ![question] = "torn"] /\ Goto("write")
     ELSE UNCHANGED disk /\ Goto("validate")
  /\ UNCHANGED <<client, mode, budget, question, payload, history>>

Write ==
  /\ pc = "write"
  /\ disk' = [disk EXCEPT ![question] = payload]
  /\ Goto("validate")
  /\ UNCHANGED <<client, mode, memo, budget, question, payload, history>>

WriteRaises ==
  /\ pc = "write"
  /\ Raise

\* Slip: the answer is taken for a diagnosis as it stands.
DiagnosisUnchecked(p) == p

(***************************************************************************)
(* _to_diagnosis: a cause the surface cannot have, "unknown", a confidence *)
(* that is no number make a degraded diagnosis; an answer that is no       *)
(* object cannot even be looked at.                                        *)
(***************************************************************************)
DiagnosisOf(p) == IF p \in Accepted THEN p ELSE "degraded"

Validate ==
  /\ pc = "validate"
  /\ payload \notin Malformed
  /\ Tell(question, DiagnosisOf(payload))
  /\ UNCHANGED <<client, mode, store, budget, question, bought, starts, raised>>

ValidateRaises ==
  /\ pc = "validate"
  /\ payload \in Malformed
  /\ Raise

-----------------------------------------------------------------------------
Call(q) == Recall(q) \/ RecallRaises(q) \/ Withhold(q) \/ Consult(q)

Proceed ==
  \/ Talk
  \/ ModelUnavailable
  \/ ReplyRaises
  \/ \E p \in Payloads, price \in Prices : Charge(p, price)
  \/ Put \/ Write \/ WriteRaises
  \/ Validate \/ ValidateRaises

Next ==
  \/ \E m \in {"replay", "record", "live"} : Start(m)
  \/ \E q \in Questions : Call(q)
  \/ Proceed
  \/ Exit

Spec == Init /\ [][Next]_vars

(***************************************************************************)
(* __call__ is a plain function: once called it runs on.  A request ends   *)
(* by itself, and the file system answers.                                 *)
(***************************************************************************)
FairSpec == Spec /\ WF_vars(Proceed)

-----------------------------------------------------------------------------
(***************************************************************************)
(* The shape of the state.                                                 *)
(***************************************************************************)
TypeOK ==
  /\ ClientTypeOK
  /\ mode \in {"down", "replay", "record", "live"}
  /\ disk \in [Questions -> Payloads \cup {"none", "torn"}]
  /\ memo \in [Questions -> Payloads \cup {"none"}]
  /\ spent \in Nat
  /\ calls \in Nat
  /\ pc \in {"idle", "ask", "put", "write", "validate"}
  /\ question \in Questions
  /\ payload \in Payloads \cup {"none"}
  /\ told \in [Questions -> Accepted \cup {"none", "degraded"}]
  /\ bought \subseteq Questions
  /\ starts \in 0 .. MaxStarts
  /\ raised \in BOOLEAN

(***************************************************************************)
(* The meter is read before a call and charged after it, against the mean  *)
(* of calls that may have been cheaper: a process passes its cap, but by   *)
(* less than the price of one call.                                        *)
(***************************************************************************)
SpendIsBounded ==
  \/ spent = 0
  \/ \E price \in Prices : spent < Cap + price

(***************************************************************************)
(* An answer that is known, to this process or to the directory, is never  *)
(* bought again, by whichever process and however many were stopped.       *)
(***************************************************************************)
NotBoughtTwice ==
  [][calls' > calls => memo[question] = "none" /\ ~Kept(disk, question)]_vars

(***************************************************************************)
(* What the recorder paid for is on disk, except what a process had in     *)
(* hand when it ended: at most one answer for each process, accepted or    *)
(* not, and never one that was on disk before.                             *)
(***************************************************************************)
LosesAtMostOneEach ==
  Cardinality({q \in bought : ~Kept(disk, q)}) <= starts

(***************************************************************************)
(* A process tells of a question what the recorded answer says, whatever   *)
(* its mode, its budget and what it was told before the answer was there.  *)
(***************************************************************************)
ToldIsTheRecord ==
  pc = "idle" /\ mode # "down" =>
    \A q \in Questions :
      told[q] # "none" /\ Kept(disk, q) => told[q] = DiagnosisOf(disk[q])

(***************************************************************************)
(* Every question is answered, in whatever way, or the process ends.       *)
(***************************************************************************)
EveryQuestionEnds == pc # "idle" ~> pc = "idle"

-----------------------------------------------------------------------------
(***************************************************************************)
(* README.md: "Every failure degrades rather than propagates.  Unparseable *)
(* JSON, an unknown cause [...] all produce a DEGRADED diagnosis".  No     *)
(* call of the diagnoser ends in an exception.                             *)
(***************************************************************************)
EveryFailureDegrades == ~raised
=============================================================================
