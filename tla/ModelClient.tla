----------------------------- MODULE ModelClient -----------------------------
(***************************************************************************)
(* The client of a rate-limited model: pacing, retries and back-off of     *)
(* class GeminiClient (src/backend/counterfoil/llm/gemini_client.py).      *)
(*                                                                         *)
(* Time is what the code measures: since, the time that has passed since   *)
(* the last request ended.  A sleep lasts as long as it was asked to; a    *)
(* request ends by itself, because the transport has a timeout.            *)
(***************************************************************************)
EXTENDS Integers

CONSTANTS
  Intervals,     \* the gaps a client may be configured with
  FirstGap,      \* BACKOFF_BASE, the gap of a client that had none
  MaxInterval,   \* MAX_INTERVAL_SECONDS
  MaxRetries,    \* max_retries
  Backoff,       \* BACKOFF_BASE * 2 ** attempt, for each attempt
  Delays,        \* the retryDelay a refusal may state; 0 if it states none
  Pauses         \* what may pass between two questions

ASSUME ClientAssumption ==
  /\ Intervals \cup Delays \cup Pauses \subseteq Nat
  /\ FirstGap \in Nat \ {0}
  /\ {MaxInterval, MaxRetries} \subseteq Nat
  /\ Backoff \in [0 .. MaxRetries -> Nat]

VARIABLES
  interval,   \* min_interval_seconds
  since,      \* clock() - _last_call_at
  phase,      \* where ask is, or how it ended: an answer, or an LLMError
  attempt,
  asked       \* the wait the last reply asked for

client == <<interval, since, phase, attempt, asked>>

NeverCalled == -1   \* _last_call_at is None

-----------------------------------------------------------------------------
Unused ==
  /\ since = NeverCalled
  /\ phase = "idle"
  /\ attempt = 0
  /\ asked = 0

Disused ==
  /\ since' = NeverCalled
  /\ phase' = "idle"
  /\ attempt' = 0
  /\ asked' = 0

Idle == phase' = "idle" /\ UNCHANGED <<interval, since, attempt, asked>>

(***************************************************************************)
(* ask is called, some time after the last request.                        *)
(***************************************************************************)
Ask ==
  /\ \E t \in Pauses :
       since' = IF since = NeverCalled THEN NeverCalled ELSE since + t
  /\ phase' = "pace"
  /\ attempt' = 0
  /\ UNCHANGED <<interval, asked>>

(***************************************************************************)
(* _pace, before every attempt.                                            *)
(***************************************************************************)
Pace ==
  /\ phase = "pace"
  /\ since' = IF since # NeverCalled /\ since < interval
              THEN interval ELSE since
  /\ phase' = "send"
  /\ UNCHANGED <<interval, attempt, asked>>

(***************************************************************************)
(* The request has ended, and so has ask.                                  *)
(***************************************************************************)
Ended(how) ==
  /\ phase = "send"
  /\ since' = 0
  /\ phase' = how
  /\ asked' = 0
  /\ UNCHANGED <<interval, attempt>>

Answered == Ended("answered")

(***************************************************************************)
(* LLMError: an answer that is an error, empty, cut off or no JSON; a      *)
(* status that is not worth a retry; or the last attempt refused.          *)
(***************************************************************************)
GivesUp == Ended("failed")

(***************************************************************************)
(* _slow_down, the growth by 1.6 in whole units.                           *)
(***************************************************************************)
Wider(i) == (8 * i) \div 5

SlowedDown ==
  CASE interval = 0                  -> FirstGap
    [] Wider(interval) > MaxInterval -> MaxInterval
    [] OTHER                         -> Wider(interval)

RetriesLeft == phase = "send" /\ attempt < MaxRetries

\* Slip: the client waits as long as it would have guessed.
RefusedGuessing(limited, delay) ==
  /\ RetriesLeft
  /\ interval' = IF limited THEN SlowedDown ELSE interval
  /\ since' = Backoff[attempt]
  /\ asked' = delay
  /\ attempt' = attempt + 1
  /\ phase' = "pace"

\* Slip: a refusal that states its own delay is not counted as an attempt.
RefusedUncounted(limited, delay) ==
  /\ RetriesLeft
  /\ interval' = IF limited THEN SlowedDown ELSE interval
  /\ since' = IF delay # 0 THEN delay ELSE Backoff[attempt]
  /\ asked' = delay
  /\ attempt' = IF delay # 0 THEN attempt ELSE attempt + 1
  /\ phase' = "pace"

(***************************************************************************)
(* A status worth a retry, 429 (limited) or a fault of the server.  The    *)
(* client sleeps as long as it was told to, or as long as it guesses.      *)
(***************************************************************************)
Refused(limited, delay) ==
  /\ RetriesLeft
  /\ interval' = IF limited THEN SlowedDown ELSE interval
  /\ since' = IF delay # 0 THEN delay ELSE Backoff[attempt]
  /\ asked' = delay
  /\ attempt' = attempt + 1
  /\ phase' = "pace"

(***************************************************************************)
(* The transport failed: no connection, a timeout, a reply cut short.      *)
(***************************************************************************)
Unreachable ==
  /\ RetriesLeft
  /\ since' = Backoff[attempt]
  /\ asked' = 0
  /\ attempt' = attempt + 1
  /\ phase' = "pace"
  /\ UNCHANGED interval

Exchange ==
  \/ Pace
  \/ Answered
  \/ GivesUp
  \/ \E limited \in BOOLEAN, delay \in Delays : Refused(limited, delay)
  \/ Unreachable

-----------------------------------------------------------------------------
ClientTypeOK ==
  /\ interval \in Nat
  /\ since \in Nat \cup {NeverCalled}
  /\ phase \in {"idle", "pace", "send", "answered", "failed"}
  /\ attempt \in 0 .. MaxRetries
  /\ asked \in Nat

(***************************************************************************)
(* No request is sent sooner after the one before it than the gap in       *)
(* force, however that gap has changed since, and no retry sooner than the *)
(* provider asked.                                                         *)
(***************************************************************************)
RequestsAreSpaced ==
  phase = "send" /\ since # NeverCalled =>
    /\ since >= interval
    /\ attempt > 0 => since >= asked
=============================================================================
