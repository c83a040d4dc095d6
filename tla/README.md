# Counterfoil in TLA+

Counterfoil plays failed payments, bounced subscription mandates and overdue
invoices forward: it diagnoses why a payment failed, proposes an intervention,
lets a policy engine judge it, executes it against a synthetic world and keeps
a hash-chained ledger of all of it. An HTTP service runs batches of cases and
serves the ledgers.

This directory models the parts of it whose behaviour is hard to test: the
recovery loop with its policy engine, the ledger with its threads, failures and
restarts, the runs of the service, the path from the diagnoser to a paid,
rate-limited model, the evaluation that plays one book of cases three times
over, and the studies that patch the world it is played in. TLC checks the models on small
instances; TLAPS proves the safety properties that matter most for every value
of the constants. Paths below are relative to the repository (`src/` in
PROJECT.json's map).

    cd tla
    tlc -workers 2 -config MCRunner.cfg MCRunner     # a run
    tlapm RunnerSafetyProofs.tla                     # the proofs of a module

## 1. The system

### Components

| Component | State it keeps | Operations | Correct when |
|---|---|---|---|
| domain vocabulary (`domain/*`) | none; frozen dataclasses | `with_context`, money arithmetic | money is integral; a context is replaced, never changed in place |
| policy engine (`kernel/policy/engine.py`, `policies.yaml`) | `Capacity(limit, used)`, shared by the cases of an arm | `evaluate`, `_substitute`, `Capacity.consume` | nothing a clause forbids is ever executed, the engine's own substitutes included; the review budget is never overdrawn |
| proposer (`kernel/propose.py`; the naive plan in `eval/arms.py`) | none | `playbook_for`, `next_proposal` | every offered step is one the engine can judge; a promised date moves the steps that hang on it |
| rules diagnoser (`kernel/diagnose/rules.py`) | none | `diagnose` | resolves a reason code or says it cannot |
| model-backed diagnoser (`kernel/diagnose/llm.py`) | counts of calls, hits, degradations | `__call__` | any failure ends in a degraded diagnosis; its confidence is capped |
| fixture store, budget (`llm/cache.py`, `llm/budget.py`) | files of answers; calls and money spent | `get`, `put`, `charge`, `can_afford` | replay never calls out; the ceiling on spending holds |
| model clients (`llm/*client.py`, `factory.py`) | pacing interval, calls made, exhausted quota | `ask`, `_send`, `_pace`, `_slow_down` | retries end, pacing respects the quota |
| recovery loop (`kernel/runner.py`) | per case: context, step, actions, counters, refusals, outcome | `run_case` | section 4 |
| synthetic world (`synth/world.py`, `profiles.py`) | none; draws fixed per case | `attempt`, `resolve`, `_success_probability` | both ways to play a case agree; a chance is a probability |
| batch generator (`synth/generator.py`) | none; seeded streams | `generate` | a seed names a batch; all that is random about a case is drawn with it |
| ledger (`ledger/chain.py`) | the file; per handle `_seq`, `_head`, `_lock` | `Ledger()`, `append`, `entries`, `verify` | section 4 |
| harness, arms, metrics (`eval/harness.py`, `arms.py`, `metrics.py`) | totals per arm | `run_batch`, `add`, `net_at`, `break_even_contact_cost` | arms see the same cases; one review budget per arm; the credit of an arm is its increment |
| sensitivity (`eval/sensitivity.py`) | patches functions of the world module while it runs | `run_sensitivity` | what it patched is put back; a variant is measured in the world it names |
| oracle comparison (`eval/oracle.py`) | none | `OracleDiagnoser`, `measure_contribution` | only the diagnosis differs between the regimes |
| API service (`api/main.py`, `service.py`) | `RunStore`: runs by name, order of names; a ledger file per run name | `create_run`, `execute`, `RunStore.add/get/latest`, `verify_ledger`, readers | a served run stands beside its own ledger; the last runs are held |
| Razorpay lane, live lane | none kept by this code | requests to a sandbox, mapping of payloads | |
| configuration guards, secret scanner, command line tools, fixture recorder, dashboard page, CI | environment, output | start-up checks, printing, recording | |

### How they interact

* `run_batch` (harness) calls `run_case` for one case after another, with one
  `PolicyEngine`, hence one `Capacity`, per arm, and one `Ledger` for the run.
* `run_case` calls the diagnoser once, then in a loop `next_proposal`,
  `engine.evaluate`, `try_action`, and rewrites the event's context by hand
  after every action. It appends to the ledger before and after each of them.
  It has no exception handler: what an append or the diagnoser raises leaves the
  case where it was.
* `execute` (service) deletes the ledger file of a run's name, opens a new
  handle on the path and calls `run_batch`. FastAPI runs the endpoints, which
  are plain functions, on a pool of threads, so requests interleave; the only
  lock is around the insertion into `RunStore`.
* Readers (`verify_ledger`, `run_summary`, `event_detail`) read the file of the
  run again at each request.
* `run_sensitivity` assigns two names of the world module, which all threads
  share, around each of its four batches. It is called by an endpoint, beside
  whatever else the service runs.
* `measure_contribution` calls `run_batch` three times on one book, with no
  model, with the model and with an oracle that reads the held-back labels.

### What is hard here

* *Judged once, executed otherwise.* The engine defers a message out of quiet
  hours by building a substitute, and never evaluates the substitute.
* *State rewritten by hand.* Counters of contacts, attempts and actions and the
  date of the pre-debit notice live in a context that the loop rebuilds after
  every action; every later decision depends on it.
* *Schedules from the failure.* Steps are timed from the failure, not from the
  step before, so a deferral can move a step past its successor.
* *Cut short anywhere.* A ledger append can raise between deciding, acting and
  recording.
* *Many hands on one file.* Threads with one handle (the lock), requests with
  handles of their own (no lock), restarts, torn lines, lost tails, edits.
* *An answer that costs money.* The recorder may be stopped between paying for
  an answer and writing it, and is run again; batches replay what it left.
* *A client that is refused.* Pacing, a delay the provider states and
  exponential back-off all make it wait, and the pace changes between attempts.
* *Names that repeat.* A run is named by its parameters, so repeats share a
  file and a place in the store.
* *A patch all threads see.* A study puts back what it found, and two at once
  find each other's.
* *A comparison is only as good as what is held fixed.* Arms, regimes and worlds
  must meet the same customers with the same luck, or the differences the
  evaluation reports are noise.
* *Edges of arithmetic.* A budget rounded and raised to one, a break-even that
  divides by a gap, a date handed on in whole days, products of chances.

PROJECT.json lists each of them at its line under "hazards", with the
properties that are about it.

## 2. The modules

    Policy  <-- Playbook <-- Runner <-- MCRunner        (TLC)
                               ^------- RunnerProofs <-- RunnerSafetyProofs
    Chain   <-- Ledger  <-- MCLedger                    (TLC)
      ^           |  ^------- LedgerProofs <-- LedgerSafetyProofs
      |           '-- implements AppendOnly
      '------- RunService <-- MCRunService              (TLC)
                    ^--------- RunServiceProofs
    ModelClient <-- ModelAccess <-- MCModelAccess       (TLC)
                         ^--------- ModelAccessProofs
    Policy, Handicap <-- World <-- Generator
    Policy <-- Rules
    Runner, Generator, Rules <-- Batch <-- MCBatch      (TLC)
                                   ^------ BatchProofs
    Handicap <-- Sensitivity <-- MCSensitivity          (TLC)
                      ^--------- SensitivityProofs

| Module | Models | Correspondence |
|---|---|---|
| `Policy` | `engine.py`, `policies.yaml` | one predicate per clause, true when the clause *blocks*; `Blocking` is `evaluate` (the set of ids of the blocking clauses; empty is `allowed`); `Deferral`, `HasSubstitute`, `Substitute` are `_substitute`. The numbers of the policy file are constants. |
| `Playbook` | `propose.py`, `_naive_plan` | each playbook as a sequence of steps; `Propose` is `next_proposal`. |
| `Runner` | `run_case`, plus what it needs of the diagnosers, `try_action`, `resolve` | `pc` is the place in `run_case`. `Detect`, `Diagnose` are the appends before the loop; `Permit`, `Defer`, `Override`, `Halt` are the four ways a decision goes (allowed, substituted, shadow mode, refused); `Act` is the call to the world with its counters; `Record` the append after it and the new context; `Observe` the outcome; `Abort` an exception or the end of the process. |
| `Chain` | the datum of `chain.py`: entries, hashes, `_resume`, `verify` | pure operators, shared by `Ledger` and `RunService`. |
| `Ledger` | class `Ledger` and the life of the process that holds it | `Open` is the constructor; `Begin`, `Write`, `Return` the three parts of `append`; `Fail` a write that raises; `Exit`, `PowerLoss` end the process; `Unlink` is what `execute` and the tools do before a run; `Rewrite`, `Delete` are the edits the ledger's tests make. |
| `AppendOnly` | the docstring's promise, as an abstract specification | a log to which accepted payloads are added and which can be cut short. |
| `RunService` | `create_run`, `execute`, `RunStore` | one action per step another request may fall between: `Check` and `Unlink` of the old file, `Open`, each `AppendEntry`, `Add` under the store's lock, `Summarise`. |
| `ModelClient` | `GeminiClient` | `Ask` is the call of `ask`; `Pace` is `_pace`; `Refused` a status worth a retry, `Unreachable` a failure of the transport, both with their sleep; `Answered` and `GivesUp` the two ways `ask` ends; `SlowedDown` is `_slow_down`. `since` is `clock() - _last_call_at`. |
| `ModelAccess` | `LLMDiagnoser.__call__`, `FixtureStore`, `Budget`, `record_fixtures.py` | extends `ModelClient`. `Recall` and `Unknown` are `FixtureStore.get`; `Withhold` a miss that degrades; `Consult`, `Talk`, `ModelUnavailable` the call of the client; `Charge` the meter; `Put`, `Write` the two parts of `FixtureStore.put`; `Validate` is `_to_diagnosis`; `Raise` an exception that leaves `__call__`; `Start` and `Exit` the life of a process. |
| `Handicap` | the variants of `sensitivity.py` | a world is what its two patched names are bound to: whether interventions fit, and the curve of ripeness; `WorldOf` is the world each label names. |
| `World` | `profiles.py`, `world.py` | the profiles in percent, chances in basis points: `Ripeness`, `Fit`, `Tired` (fatigue) and `Chance` are `_ripeness`, `INTERVENTION_FIT`, `CONTACT_FATIGUE` and `_success_probability`. The world is a parameter. |
| `Rules` | `diagnose/rules.py` | the reason table, the corroborating sources and the cut at 0.99; `ReadCodes` is `diagnose`. |
| `Generator` | `generator.py`, the signal catalogue of `profiles.py` | `Rollable` are the ranges of all it draws, `Dealt` the case one roll makes, `Generated` whether a case is one of those, `Hidden` what the runner knows of it. |
| `Batch` | `harness.py`, `metrics.py`, `oracle.py` | composes `Runner`, `World`, `Rules` and `Generator`. `Play` is a step of the case being played, with the diagnosis the codes or the regime give (`Heard`) and the landing the draw decides (`Lands`); `NextCase`, `NextArm`, `NextBatch`, `Conclude` are the loops of `run_batch` and around it; `Fail` is a case that raises. `Add` is `ArmResult.add`, `NetAt` and `BreakEven` are those of `BatchReport`, `Labelled` is the oracle. |
| `Sensitivity` | `sensitivity.py` under the threads of `api/main.py` | one action per line of `_handicap`: `SaveFit`, `SaveRipeness`, `PatchFit`, `PatchRipeness`, `RestoreFit`, `RestoreRipeness`; a batch is a number of reads of the two names (`ReadFit`, `ReadRipeness`) and ends (`Measured`, `PostEnds`) or raises (`BatchRaises`). |

A definition whose comment starts with `Slip:` is a variant of the definition
after it with a plausible mistake. No specification uses it; PROJECT.json's
"mutants" name one per property and run, to show that the property would notice.

### Abstractions

* SHA-256 over canonical JSON is taken as injective: a hash *is* the sequence of
  what it commits to (`HashOf`). A forged chain, with every later hash
  recomputed, is therefore outside the model of `Rewrite`; an edited entry keeps
  the hash it had.
* A payload is a member of a small set, some of which the personal-data scan
  refuses; the patterns of the scan are not modelled.
* Time is in minutes from the IST midnight before the failure, money in paise,
  confidence in hundredths.
* In `Runner` the draws are fixed per case and draw index but arbitrary: an
  attempt lands or not, except where the simulator's probability is zero (`CanLand`). No
  property is about how likely an outcome is.
* The switches `require_pre_debit_notice` and `honour_promise_to_pay` of the
  policy file are taken as on, which is how it ships.
* What the model-backed diagnoser may answer is the constant `Answers`, cut to
  the causes of the surface as its validation does; any failure of it is the
  degraded diagnosis. What the oracle may say is `Labels`.
* `Runner` leaves open which diagnosis a case gets and which attempts land.
  `Batch` settles both, with the draws the case was dealt. A draw, and a chance,
  is in basis points, cut to a whole number after every product, and the square
  root of a responsiveness is a table: a case on the edge between two chances
  may differ from the code by one draw in ten thousand. No property is about
  where that edge is.
* In `Sensitivity` the outcome of a batch is the world it read; what a batch
  computes in a given world is checked by `Batch`.
* In `ModelAccess` a question is its fingerprint, and an answer is a payload of
  which the model knows whether validation accepts it, rejects it or cannot take
  it apart. A sleep lasts exactly as long as it was asked to, and a request
  takes no time of its own. Two processes never run at once.
* In `RunService` an entry says only which post wrote it.

## 3. What each run checks

| Run | Asks | Result |
|---|---|---|
| `runner` (MCRunner.cfg) | every arm over every case of the book, any answer of the diagnoser, any outcome of each attempt, an exception at any point | passes, 121 thousand states |
| `quiet_hours` | do quiet hours only delay? (`engine.py`) | no: see findings |
| `mandate_stop` | does a stopped mandate reach a person? (`policies.yaml`) | no |
| `ledger` (MCLedger.cfg) | two threads, failed writes, restarts, lost tails, two edits; also that it implements `AppendOnly` | passes, 222 thousand states |
| `run_service` (MCRunService.cfg) | two requests at a time, repeats, evictions, runs that raise | passes, 2.3 million states |
| `run_store` | is the latest run held? (`service.py`) | no: after a repeat it may be dropped |
| `shared_file` | is the ledger of a run just posted intact? (`test_api.py`) | no: two posts of one run at once |
| `model_access` (MCModelAccess.cfg) | three processes that record, replay or call, over one directory; refusals, torn files, answers rejected and malformed, a cap on spending, a stop at any point | passes, 407 thousand states |
| `model_failures` | does every failure degrade? (README) | no: some raise |
| `batch` (MCBatch.cfg) | books of two cases, with every cause of every surface first, under three arms, compared over three regimes of diagnosis or over four worlds; a case that raises at any point | passes, 199 thousand states |
| `sensitivity` (MCSensitivity.cfg) | studies and posted runs on the threads of the service, with batches that raise | passes, 177 thousand states |
| `handicap` | do handicaps stay inside their study? (`test_eval_harness.py`) | no: two studies at once leave one behind |

The runs that end in a violation each check one sentence of the repository
against what the code does; PROJECT.json's "findings" quote the sentence.

### Bounds, and why they are enough

* *runner.* The numbers are those of `policies.yaml`. The book has every cause
  of payments and receivables and the six of subscriptions that have a playbook
  (all others share one); failures at 10:00, 20:30, 21:30 and 02:00, which put
  messages before, inside and after quiet hours on both sides of midnight;
  amounts under, between and over the value and escalation floors; contacts and
  attempts that start at, one under and clear of each cap; mandates at and under
  the failure stop. `Answers` has confidences under and over the floor and
  promises for today and for two weeks. The review budget is none or one, and
  any part of it may have been used by earlier cases. Nothing else is bounded:
  plans have at most five steps.
* *ledger.* Two threads, since the interference is between one that drafts and
  one that writes. `MaxLines` = 3: no append begins on a file that long, so a
  line can be torn, joined, lost or edited with lines before and after it.
  `MaxEdits` = 2: one edit may hide another. Of three payloads one is refused.
* *run_service.* Two requests in flight are the smallest interference; three
  run names and `Keep` = 2 make an eviction; four posts allow a repeat before,
  during and after an eviction; two entries per run let a run raise, or be
  read, in the middle.
* *model_access.* Two questions, since the budget and the pace couple one
  question with the next; three processes, so that one may be stopped, a second
  record again and a third replay. Prices 1 and 4 under a cap of 4: the mean may
  say there is room when there is not, the cap may be met exactly, and one call
  may reach it. Two retries with gaps of 0 and 12 seconds, stated delays of none
  or 30, pauses of 0 or 20: each of gap, delay and back-off is the longest wait
  somewhere. Two answers are accepted, one is rejected, one is malformed.
* *batch.* Two cases are the smallest book in which one case can take the review
  another wants, and the second of each surface is one that wants it; a batch of
  two has the one review `_capacity_for` grants at least. The first case runs
  over every cause of the surface, told by a code or in prose, with a customer
  who pays anyway, one whom every attempt that can land wins, and one nothing
  wins; amounts on both sides of the escalation floor. A mandate's balance is back after 30 hours, after 400 (when the
  plan is over) or never; an invoice's money is there after 35, 60 or 340. Sixty hours are two days
  and a half, which become two: the most that rounding brings a date forward.
  The model answers rightly and wrongly. One book is played by three
  arms three or four times: the longest behaviours are the agendas themselves.
  The constants are those of `policies.yaml` and the harness.
* *sensitivity.* Two threads are the smallest interference of two studies, or of
  a study with a posted run; three requests let a study follow one that raised
  while a run is posted beside both.
* Deadlock is checked for the ledger, which never has to stop. It is switched
  off where the system stops: for `Runner` when its case has ended, for `Batch`
  when it is reported or has failed, for `RunService` and `Sensitivity` when the
  requests are answered, and for `ModelAccess` after the last process.

### Fairness

* `Runner!FairSpec` is `WF_vars(Advance)`: `run_case` is a plain function, and
  once called runs on unless it raises. `Abort` is never fair. The world and the
  diagnoser return or raise (the clients give up after a bounded number of
  tries).
* `Ledger!FairSpec` is weak fairness of `Holding(w)`: a thread inside the `with`
  block is not stopped there for ever. Nothing is assumed of the lock, so no
  claim is made that a waiting thread gets it (`threading.Lock` is not fair).
* `ModelAccess!FairSpec` is `WF_vars(Proceed)`: `__call__` is a plain function,
  and every request has a timeout. Nothing makes a provider answer, the next
  question be asked or a process stop.
* `Batch!FairBatchSpec` is `WF_everything(Proceed)`: `run_batch` is a loop over
  `run_case` and ends as it does. `Fail` is never fair.
* `RunService` and `Sensitivity` state no liveness: a request is answered
  because the functions it calls return, which is what the other three show.

## 4. What the properties say

`Runner`

* `ActsArePermitted`: what an enforcing arm is about to execute passes every
  clause, in the context it is executed in, substitutes included.
* `ContextIsCurrent`: that context is the case's own brought up to date with
  exactly what was executed.
* `NoticePrecedesPresentation`, `PromiseIsHonoured`, `CapsHoldOverTheCase`:
  the promises made to a customer, read off the actions executed and not off
  the context the engine reads.
* `ReviewBudgetHolds`: checked on evaluation, consumed on execution, never
  overdrawn, in shadow mode included.
* `AgreesWithResolve`: replaying the actions through the world's `resolve`
  gives the outcome the runner recorded.
* `AuditTrailAccounts`: wherever the case was cut short, every executed action
  has its decision on record before it, and at most the last execution is missing.
* `EveryCaseEnds` (liveness).

`Ledger`

* `IntactUnlessEdited`: a file nobody edited verifies whenever it can be read.
* `EditsShowWhereTheyAre`: verification breaks at exactly the first line that
  is not the one the ledger wrote there.
* `ReturnedAreRecorded`: what `append` returned is where it was put.
* `LockIsGivenBack` (liveness), `ImplementsAppendOnly` (refinement: the
  payloads of the verified part of the file are the abstract log).

`RunService`

* `ServedLedgerIsTheRuns`: unless two posts of one run overlap (the variable
  `overlap` says whether they may in this behaviour), a run in the store stands
  beside the whole of its ledger or none of it.
* `HeldRunsAreListed`: the store is bounded, whatever interleaves.

`ModelAccess`

* `ToldIsTheRecord`: what a process tells of a question is what the recorded
  answer says, so a replay repeats the recording, whatever the budget and
  whatever was told before.
* `NotBoughtTwice`: an answer that is in memory or on disk is never paid for
  again, by whichever process.
* `LosesAtMostOneEach`: a recorder loses, over all its restarts, at most the
  answer each process had in hand.
* `SpendIsBounded`: a process passes its cap by less than the price of one call,
  although it judges each call by the mean of those before.
* `RequestsAreSpaced`: no request is sent sooner than the gap in force, which may
  have grown since, and no retry sooner than the provider asked.
* `EveryQuestionEnds` (liveness).

`Batch`

* `PairedDeltas`: on each case, what an arm recovered beyond the control arm is
  what the case says it caused. It needs the cases, the draws and the
  spontaneous payment to be the same under every arm.
* `AttributionIsIncrement`: the two ways `metrics.py` measures an arm agree in
  every report.
* `ReviewsAreRationed`: over all cases of a batch, in each arm.
* `BreakEvenIsTheCrossing`: the number the evaluation headlines is where the two
  lines of the sweep cross, at each of its edges.
* `OnlyTheAgentMoves`: a regime moves neither the control arm nor the naive one,
  a world not the control arm.
* `RulesReadTheTruth`: two hand-written tables, the rules and the generator's
  signals, agree.
* `OracleWaitsForTheMoney`: a date rounded to whole days reminds nobody early, because
  the playbook writes a day after it.
* `ChancesAreFair`: a chance is a probability, and `Runner`'s simpler model of
  the world (`CanLand`) allows what `World` gives a chance. This is what makes
  the outcomes `Runner` is checked with cover those of the code.
* `BatchEnds` (liveness).

`Sensitivity`

* `WorldIsPutBack`: as long as studies do not overlap (the variable `overlap`
  says whether they may in this behaviour) the world is the modelled one when
  none is under way, however the last one ended.
* `MeasuredAsLabelled`: under the same condition every variant is measured from
  start to end in its own world, and a posted run that no study coincides with
  in the modelled one. A run that does coincide with one sees the handicap.

### Where the code and its documents differ

Each of the first six is shown by a run.

1. `engine.py` says quiet hours delay revenue rather than forfeit it. A pre-debit
   notice deferred to 09:00 leaves less than 24 hours to the presentation, which
   keeps its hour, is refused, and ends the plan.
2. `policies.yaml` says a mandate that keeps failing is put in front of a person.
   The clause refuses the first message of the playbook and the plan ends.
3. `RunStore` says it keeps the last few runs. A run posted twice is named twice;
   when the older name goes, so does the run.
4. `test_api.py` expects the ledger of a fresh run to be intact. Two posts of one
   run at the same time write one file.
5. The README says every failure of the model degrades rather than propagates. A
   reply that is no JSON, a fixture cut short and an answer that is a list raise
   through the diagnoser and end the batch; the last is recorded first, so that
   every replay of it raises too.
6. `test_eval_harness.py` has a test that handicaps do not leak into later runs.
   Two studies that overlap may each save the other's handicap and put that back;
   the process keeps it.

These were met while reading and modelling, and no run is spent on them:

* `engine.py` and `policies.yaml` name a cap on contacts in a trailing week. The
  count of a case (`engine.py:193`) never forgets one.
* The README (`src/README.md:231`) says editing or removing any past record breaks
  verification. Removing records from the end does not (`chain.py:173`); what is
  left is a chain.
* `_slow_down` (`gemini_client.py:208`) says it widens the gap. A gap configured
  above 45 seconds (`record_fixtures.py --rpm 1`) is narrowed to 45 by the first
  rate limit.
* `sensitivity_rows` (`service.py:243`) takes a run but not its surface: the study
  of a subscription or receivables run is one of payments.
* `run_eval.py` reports that the agent sends more whenever there is no break-even,
  also when both send the same number.
* `oracle.py` calls perfect diagnosis a ceiling. On a single book the rules or the
  model may be luckier; no property claims otherwise.
* Steps are timed from the failure, so a link deferred to the morning is executed
  before a retry scheduled for half an hour earlier is decided on. No sentence
  promises an order.

## 5. What is proved

For every value of the constants that meets `PolicyAssumption` (numbers are
natural, quiet hours run over midnight), `RunnerAssumption` (cases and answers are
typed, a case starts without actions or notice, answers are capped at 92 and only
promises carry a date), `LedgerAssumption`, `ClientAssumption` (times are natural,
there is a back-off for each attempt) and `AccessAssumption` (prices and cap are
natural, an accepted answer is not malformed), `RunServiceAssumption` (numbers
are natural, there is a run), `BatchAssumption` (three arms; a book is a sequence
of one surface's cases, each of which the generator may deal (`Generated`) and the
runner may play; its budget is one of `Budgets`)
and `SensitivityAssumption` (the bound on requests is natural):

| Theorem | States |
|---|---|
| `RunnerProofs!TypeCorrect` | `Spec => []TypeOK` |
| `RunnerSafetyProofs!OnlyPermittedActs` | `Spec => []ActsArePermitted` |
| `RunnerSafetyProofs!ReviewsWithinBudget` | `Spec => []ReviewBudgetHolds` |
| `RunnerSafetyProofs!ContextNeverStale` | `Spec => []ContextIsCurrent` |
| `RunnerSafetyProofs!NoticeAlwaysPrecedes` | `Spec => []NoticePrecedesPresentation` |
| `RunnerSafetyProofs!PromisesHonoured` | `Spec => []PromiseIsHonoured` |
| `RunnerSafetyProofs!CapsHold` | `Spec => []CapsHoldOverTheCase` |
| `RunnerSafetyProofs!LedgerAccounts` | `Spec => []AuditTrailAccounts` |
| `RunnerSafetyProofs!RunnerAgreesWithResolve` | `Spec => []AgreesWithResolve` |
| `LedgerProofs!LedgerTypeCorrect` | `Spec => []TypeOK` |
| `LedgerSafetyProofs!LedgerVerifies` | `Spec => []IntactUnlessEdited` |
| `LedgerSafetyProofs!ReturnedStay` | `Spec => []ReturnedAreRecorded` |
| `LedgerSafetyProofs!LedgerIsAppendOnly` | `Spec => ImplementsAppendOnly` |
| `LedgerSafetyProofs!EditsShow` | `Spec => []EditsShowWhereTheyAre` |
| `ModelAccessProofs!AccessTypeCorrect` | `Spec => []TypeOK` |
| `ModelAccessProofs!ToldAsRecorded` | `Spec => []ToldIsTheRecord` |
| `ModelAccessProofs!NeverBoughtTwice` | `Spec => NotBoughtTwice` |
| `ModelAccessProofs!AtMostOneLostEach` | `Spec => []LosesAtMostOneEach` |
| `ModelAccessProofs!SpendBounded` | `Spec => []SpendIsBounded` |
| `ModelAccessProofs!RequestsSpaced` | `Spec => []RequestsAreSpaced` |
| `RunServiceProofs!TypeCorrect` | `Spec => []TypeOK` |
| `RunServiceProofs!StoreIsBounded` | `Spec => []HeldRunsAreListed` |
| `RunServiceProofs!ServedLedgers` | `Spec => []ServedLedgerIsTheRuns` |
| `BatchProofs!BatchTypeCorrect` | `BatchSpec => []BatchTypeOK` |
| `BatchProofs!DeltasArePaired` | `BatchSpec => []PairedDeltas` |
| `BatchProofs!AttributionMeasuresIncrement` | `BatchSpec => []AttributionIsIncrement` |
| `BatchProofs!ReviewsRationed` | `BatchSpec => []ReviewsAreRationed` |
| `BatchProofs!BreakEvenCrosses` | `BatchSpec => []BreakEvenIsTheCrossing` |
| `BatchProofs!BatchPlaysTheLoop` | `BatchSpec => [][Next \/ Init']_vars` |
| `BatchProofs!CodesReadAsTrue` | `BatchSpec => []RulesReadTheTruth` |
| `BatchProofs!ChancesAreProbabilities` | `BatchSpec => []ChancesAreFair` |
| `BatchProofs!OracleWaits` | `BatchSpec => []OracleWaitsForTheMoney` |
| `BatchProofs!OthersStandStill` | `BatchSpec => []OnlyTheAgentMoves` |
| `SensitivityProofs!TypeCorrect` | `Spec => []TypeOK` |
| `SensitivityProofs!HandicapsAreTemporary` | `Spec => []WorldIsPutBack` |
| `SensitivityProofs!VariantsAreMeasured` | `Spec => []MeasuredAsLabelled` |

Every invariant and every action property of the passing runs is the statement
of one of these theorems; `BatchPlaysTheLoop`, which no run checks, joins two
modules. (`Next`, `Init` and `vars` are `Runner`'s in it.)

**Runner.** For what reaches a customer, three inductive invariants, one on another. `PermitInv` says what
is chosen was vetted: either it passed every clause, or it is the substitute of
a proposal that only quiet hours blocked, and then the lemmas on `Deferral` do
the work: the deferred hour is outside the window and not earlier than the
proposed one, and every other clause that reads the hour is of the form "not
before", so it stays satisfied. It also carries that the naive arm, which acts
whatever the engine says, has no escalation in its plans; without that the
budget is not inductive. `ContextInv` says the context equals the case's
brought up to date, and for the states between acting and recording, where it
lags by one action, that it will (`AboutToBeCurrent`). `CustomerInv` then reads
the promises to the customer off the executed actions: at each `Act` the clause
spoke of the context, the context is current, so it spoke of the actions.

Two more are about the record of a case. `AuditInv` knows, at every point of the
loop, how many decisions and executions are on record (`Pace`), that they are
those of the executed actions in order (`InOrder`), and what the last record is and
that nothing was refused yet (`Sequenced`), so that it is known what is missing
wherever an append raises. `ReplayInv` says why two loops that add up
separately agree: the draws and the fatigue of each action are those of `resolve`
(`DrawnAsResolved`), the runner's tallies are sums over *all* actions
(`TalliesAreSums`), and only the last action may have landed
(`OnlyTheLastLands`), so that `resolve`, which stops at the first that lands, adds
up the same ones.

`EntriesOf`, `MessagesAmong` and `CostAmong` are recursive functions, and the
library's induction theorems cannot be instantiated. Induction is had from
`WFMin`, which says a well-founded relation has least elements and has no
operator as a parameter: a set of numbers with 0 and closed under successor is
all of them (`SetInduction`), since the least number outside it would be the
successor of one inside. From it, a function defined by recursion over the first
numbers exists (`RecursionExists`) and any two agree (`RecursionAgrees`), so that
the CHOOSE behind such a definition is known by its equations.

**Ledger.** `LedgerInv` strengthens both safety properties by what the lock and
the handle guarantee: at most one thread is inside `append` (`Excluded`); the
readable lines of an unedited file are a chain (`ChainedFile`); the handle
stands at the tail (`HandleAtTail`) unless the file holds a line that cannot be
read; a draft follows from the handle (`DraftFromHandle`) and, once written, is
at the tail (`DraftAtTail`); what was returned is on record
(`ReturnedOnRecord`). Everything is conditional on no edit and on readability,
because a piece of a line left by a failed write makes the rest of the file
unverifiable without making it wrong.

The other two theorems hold whatever is edited, and so can condition on nothing.
`LogInv` adds what makes the trusted lines (those that verify, from the start) an
append-only log: the trusted part could grow by lines that were already there,
were one before them deleted; it does not, because no readable line has a number
below its place (`NumbersAhead`), the handle's next number included
(`HandleAhead`). It carries the length of the trusted part as a witness, so that
`TrustedLines`, a CHOOSE, is evaluated once. `NextMoves` then says how each action
moves that length: down, not at all, or by the one line just written, which is a
payload the scan let through. `EditInv` adds that the trusted lines are the first
of what the ledger wrote (`Agrees`), and that a live handle on a file without a
break has written all of it (`LiveIsWritten`), which is what a write needs to keep
the two equal; `DifferenceIsTheBreak` turns that into the equality of
`FirstBreak` and `FirstDifference`.

**Model access.** `RecordInv` says that memory and directory agree
(`Coherent`), that a question the model is asked has no answer yet and that the
answer in hand is the one in memory (`InHand`), and `ToldIsTheRecord` except for
the question a call is about to answer (`ToldSoFar`): while an answer is being
recorded a diagnosis told earlier, degraded for want of it, may differ from it.
`MeterInv` carries to the moment of the charge that the cap was not reached
when the call was allowed, which is what spent * calls + spent < cap * calls
gives (`AffordableIsUnderTheCap`). `SpacingInv` carries the wait a refusal asked
for to the next `Pace`. `LossInv` bounds what was paid for and is not on
disk, less the answer a live recorder has in hand, by the processes that *ended*:
a process that ends gives up one answer and is counted from then on, and no other
step abandons any.

**Run service.** `IInv` is the types and the bound on the store (`TInv`), which
hold whatever interleaves, and, unless posts of one run overlap, `SInv`: a run is
written by one request at a time (`Alone`); a request's number is above that of
the run it is to replace (`Numbered`), so what an older request left in the file
is never taken for the new one's; a request under way stands at the tail of a
file that holds exactly what it has written (`Mine`); and a run in the store
whose file holds any entry of it has the whole of it (`Served`). `StepIsLocal`
says a step changes nothing another request knows. An entry is followed from
`Resume` through `AppendEntry` by the lemmas on `Whole`, the file all of whose
lines are one post's and link up.

**Batch.** `BatchInv` carries Runner's inductive invariants through the cases
(`Loop`): a step of a case is a step of `Runner`, and `Launch` starts one as
`Runner!Init` does. On top of it: what a settled case says of itself (`Settled`:
its recovery is the control arm's, or it is attributable), kept for every case an
arm has been tallied for (`Accounts`); the review budget, which is what this arm
used in the cases before and in this one (`BudgetAccounts`); and, for the sum over
cases, `Balanced`: there *is* a function that sums the control arm's recoveries
case by case, and each arm's gross less its credits is that function at the
number of cases the arm has played. Each finished case of the control arm extends
that witness by one. `BreakEvenCrosses` is arithmetic on any two typed results.

`BatchPlaysTheLoop` lifts the rest of `Runner`: whatever is inductive for its steps
holds through a batch. `RunInv` is that, for the context, the customer and the
replay, with `OnTime` (nothing is executed before the failure), which the world's
clock needs.

`CodesReadAsTrue` and `ChancesAreProbabilities` are about tables, and hold of a
case because `Generated` says which rows it may have. The first reads each code of
each surface through the reason table and the corroborating sources. The second
bounds each factor of a chance: fatigue, by induction over the messages before,
never raises it, then the fit and the ripeness of each cause in every world, and
then the products.

`OracleWaits` needs that an agent who has an oracle has its answer (`Knows`), the
bound of `Round` (half a day early at most), and that every step of a promise's
playbook hangs on the promised day and comes a day or more after it
(`PromisePlan`), so that whatever is decided on or executed does (`Dated`). The
playbook alone makes up for the rounding: the theorem asks nothing of the grace
the policy gives.

`OnlyTheAgentMoves` compares two batches that share no state but the book. The
proof names what settles a case without a diagnoser: `Script` is the plan of its
arm, and `Deed` the action the world and the draws make of each step of it.
`Scripted` says every unaided arm follows its script (`Keeps`, and `Finished` when
the case is done). A script is finished in one way only (`FinishedOnce`), so its
outcome is a function of arm, world and case, `Fate`, and of arm and case for the
control arm (`ControlFate`). `Fated` then says that every result of an unaided
arm, in progress or reported, is the sum of the fates of the book so far
(`Bound`), and equal sums are equal results.

**Sensitivity.** `IInv` is the types and, unless studies overlap, `Ordered`: one
study at a time, and for each line of `_handicap` what the world and the saved
names are at that line (`Stage`), which is enough for `RestoreRipeness` to arrive
at the modelled world from every variant.

**Only model-checked.** Liveness is out of the prover's reach, and so are
`EveryCaseEnds`, `LockIsGivenBack`, `EveryQuestionEnds` and `BatchEnds`. The six
properties of the runs that end in a violation are refuted and have no theorem.
No theorem has a hypothesis beyond the assumptions on the constants above.

## 6. The order of the work

What acts on customers came first, then the record of it, then what runs beside
it, then what is claimed of it: (1) `Policy`, `Playbook`, `Runner`; (2) `Chain`,
`Ledger`, `AppendOnly`; (3) `RunService`; (4) `ModelClient`, `ModelAccess`;
(5) `Handicap`, `World`, `Rules`, `Generator`, `Batch`; (6) `Sensitivity`. All six
are modelled, checked and, as section 5 has it, proved. A next step would be the
recorder's own loop, which stops when the budget is exhausted.

## 7. What is not modelled

* The seeded random streams of `generator.py`, and with them frequencies and the
  order of the draws: `test_generator_stability.py` pins those. `Generator` has
  what they range over.
* The bootstrap of `metrics.py`, which resamples at random, and the shares and
  tables `oracle.py` and `run_eval.py` print: arithmetic on finished reports.
* The counters of `ArmResult` that are only reported (violations, refusals, model
  calls).
* `surfaces/razorpay.py`, `tools/live_lane.py`: requests to an external sandbox
  and the mapping of its payloads, one call after another, with neither retries
  nor state. What they hand on is an event as `Policy` has it.
* The Anthropic client, whose SDK retries by itself (in the model it is a client
  that never has to wait), the wire format of the Gemini client and the prompts.
* `config.py`: a conjunction over environment variables, evaluated at start-up.
* `tools/scan_secrets.py`: a pattern search over text; `tools/run_eval.py`,
  `check_llm.py`: calls of what is modelled, and printing. The dashboard and CI.
* The patterns of the ledger's personal-data scan and of the secret scanner:
  string matching, which the model takes as a set of refused payloads.
* The remaining parts marked "partly" in PROJECT.json say there what is missing.
