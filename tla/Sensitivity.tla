---------------------------- MODULE Sensitivity ----------------------------
(***************************************************************************)
(* The sensitivity endpoint (src/backend/counterfoil/eval/sensitivity.py,  *)
(* called from api/main.py).  A study runs the batch in four worlds, and   *)
(* makes each of them by assigning two names of the module synth.world,    *)
(* which every thread of the process shares: the endpoints are plain       *)
(* functions on a pool of threads, and there is no lock.                   *)
(*                                                                         *)
(* What a batch computes is the business of Batch.  Here it is a number of *)
(* reads of the two names, each of which sees what they are bound to at    *)
(* that moment.                                                            *)
(***************************************************************************)
EXTENDS Handicap

CONSTANTS
  Threads,   \* threads of the server that answer these requests
  MaxCalls   \* requests in a behaviour

ASSUME SensitivityAssumption == MaxCalls \in Nat

VARIABLES
  overlap,    \* whether two studies may ever overlap
  world,      \* what world.INTERVENTION_FIT and world._ripeness are bound to
  pc,         \* where each thread is
  variant,    \* the variant its study is at, by number
  saved,      \* saved_fit and saved_ripeness
  seen,       \* what its batch has read of the two names
  disturbed,  \* whether a study was under way during its batch
  raised,     \* whether the batch of its study raised
  calls       \* requests made

vars == <<overlap, world, pc, variant, saved, seen, disturbed, raised, calls>>

Studying == {"save_fit", "save_ripeness", "patch_fit", "patch_ripeness",
             "measure", "restore_fit", "restore_ripeness"}

InStudy(t) == pc[t] \in Studying

StudyUnderWay == \E t \in Threads : InStudy(t)

NothingSeen == [fits |-> {}, curves |-> {}]

Key(t) == Variants[variant[t]]

-----------------------------------------------------------------------------
Init ==
  /\ overlap \in BOOLEAN
  /\ world = Modelled
  /\ pc = [t \in Threads |-> "idle"]
  /\ variant = [t \in Threads |-> 1]
  /\ saved = [t \in Threads |-> Modelled]
  /\ seen = [t \in Threads |-> NothingSeen]
  /\ disturbed = [t \in Threads |-> FALSE]
  /\ raised = [t \in Threads |-> FALSE]
  /\ calls = 0

Go(t, where) == pc' = [pc EXCEPT ![t] = where]

(***************************************************************************)
(* GET /api/runs/{run_id}/sensitivity: the batches posted meanwhile are    *)
(* disturbed by it.                                                        *)
(***************************************************************************)
Ask(t) ==
  /\ pc[t] = "idle"
  /\ calls < MaxCalls
  /\ ~overlap => ~StudyUnderWay
  /\ calls' = calls + 1
  /\ variant' = [variant EXCEPT ![t] = 1]
  /\ raised' = [raised EXCEPT ![t] = FALSE]
  /\ disturbed' = [u \in Threads |-> disturbed[u] \/ pc[u] = "post"]
  /\ Go(t, "save_fit")
  /\ UNCHANGED <<overlap, world, saved, seen>>

(***************************************************************************)
(* POST /api/runs: a batch in whatever world there is.                     *)
(***************************************************************************)
Post(t) ==
  /\ pc[t] = "idle"
  /\ calls < MaxCalls
  /\ calls' = calls + 1
  /\ disturbed' = [disturbed EXCEPT ![t] = StudyUnderWay]
  /\ Go(t, "post")
  /\ UNCHANGED <<overlap, world, variant, saved, seen, raised>>

-----------------------------------------------------------------------------
(***************************************************************************)
(* _handicap up to its yield: both names are saved, then the variant's are *)
(* assigned.                                                               *)
(***************************************************************************)
SaveFit(t) ==
  /\ pc[t] = "save_fit"
  /\ saved' = [saved EXCEPT ![t].fits = world.fits]
  /\ Go(t, "save_ripeness")
  /\ UNCHANGED <<overlap, world, variant, seen, disturbed, raised, calls>>

SaveRipeness(t) ==
  /\ pc[t] = "save_ripeness"
  /\ saved' = [saved EXCEPT ![t].curve = world.curve]
  /\ Go(t, "patch_fit")
  /\ UNCHANGED <<overlap, world, variant, seen, disturbed, raised, calls>>

PatchFit(t) ==
  /\ pc[t] = "patch_fit"
  /\ world' = IF WorldOf(Key(t)).fits THEN world
              ELSE [world EXCEPT !.fits = FALSE]
  /\ Go(t, "patch_ripeness")
  /\ UNCHANGED <<overlap, variant, saved, seen, disturbed, raised, calls>>

PatchRipeness(t) ==
  /\ pc[t] = "patch_ripeness"
  /\ world' = IF WorldOf(Key(t)).curve = "ripening" THEN world
              ELSE [world EXCEPT !.curve = "flat"]
  /\ Go(t, "measure")
  /\ UNCHANGED <<overlap, variant, saved, seen, disturbed, raised, calls>>

-----------------------------------------------------------------------------
(***************************************************************************)
(* run_batch looks the two names up again for every action it plays, one   *)
(* at a time.                                                              *)
(***************************************************************************)
ReadFit(t) ==
  /\ pc[t] \in {"measure", "post"}
  /\ seen' = [seen EXCEPT ![t].fits = @ \cup {world.fits}]
  /\ UNCHANGED <<overlap, world, pc, variant, saved, disturbed, raised, calls>>

ReadRipeness(t) ==
  /\ pc[t] \in {"measure", "post"}
  /\ seen' = [seen EXCEPT ![t].curves = @ \cup {world.curve}]
  /\ UNCHANGED <<overlap, world, pc, variant, saved, disturbed, raised, calls>>

Forget(t) == seen' = [seen EXCEPT ![t] = NothingSeen]

(***************************************************************************)
(* A posted batch is done, or raises, and its request with it.             *)
(***************************************************************************)
PostEnds(t) ==
  /\ pc[t] = "post"
  /\ Go(t, "idle")
  /\ Forget(t)
  /\ UNCHANGED <<overlap, world, variant, saved, disturbed, raised, calls>>

Measured(t) ==
  /\ pc[t] = "measure"
  /\ Go(t, "restore_fit")
  /\ Forget(t)
  /\ UNCHANGED <<overlap, world, variant, saved, disturbed, raised, calls>>

\* Slip: without a finally, a batch that raises leaves the world as it is.
BatchRaisesThrough(t) ==
  /\ pc[t] = "measure"
  /\ raised' = [raised EXCEPT ![t] = TRUE]
  /\ Go(t, "idle")
  /\ Forget(t)
  /\ UNCHANGED <<overlap, world, variant, saved, disturbed, calls>>

(***************************************************************************)
(* The batch raises: the finally clause runs all the same, and the study   *)
(* is over after it.                                                       *)
(***************************************************************************)
BatchRaises(t) ==
  /\ pc[t] = "measure"
  /\ raised' = [raised EXCEPT ![t] = TRUE]
  /\ Go(t, "restore_fit")
  /\ Forget(t)
  /\ UNCHANGED <<overlap, world, variant, saved, disturbed, calls>>

-----------------------------------------------------------------------------
(***************************************************************************)
(* The finally clause of _handicap, whichever variant it is.               *)
(***************************************************************************)
RestoreFit(t) ==
  /\ pc[t] = "restore_fit"
  /\ world' = [world EXCEPT !.fits = saved[t].fits]
  /\ Go(t, "restore_ripeness")
  /\ UNCHANGED <<overlap, variant, saved, seen, disturbed, raised, calls>>

\* Slip: the next variant is begun on top of the last one's curve.
RestoreNoRipeness(t) ==
  /\ pc[t] = "restore_ripeness"
  /\ world' = IF variant[t] < Len(Variants) THEN world
              ELSE [world EXCEPT !.curve = saved[t].curve]
  /\ IF raised[t] \/ variant[t] = Len(Variants)
     THEN Go(t, "idle") /\ UNCHANGED variant
     ELSE Go(t, "save_fit") /\ variant' = [variant EXCEPT ![t] = @ + 1]
  /\ UNCHANGED <<overlap, saved, seen, disturbed, raised, calls>>

\* Slip: the study does not stop at the last variant.
RestoreRipenessForEver(t) ==
  /\ pc[t] = "restore_ripeness"
  /\ world' = [world EXCEPT !.curve = saved[t].curve]
  /\ IF raised[t] \/ variant[t] > Len(Variants)
     THEN Go(t, "idle") /\ UNCHANGED variant
     ELSE Go(t, "save_fit") /\ variant' = [variant EXCEPT ![t] = @ + 1]
  /\ UNCHANGED <<overlap, saved, seen, disturbed, raised, calls>>

(***************************************************************************)
(* run_sensitivity goes on to the next variant, or answers, or raises what *)
(* its batch raised.                                                       *)
(***************************************************************************)
RestoreRipeness(t) ==
  /\ pc[t] = "restore_ripeness"
  /\ world' = [world EXCEPT !.curve = saved[t].curve]
  /\ IF raised[t] \/ variant[t] = Len(Variants)
     THEN Go(t, "idle") /\ UNCHANGED variant
     ELSE Go(t, "save_fit") /\ variant' = [variant EXCEPT ![t] = @ + 1]
  /\ UNCHANGED <<overlap, saved, seen, disturbed, raised, calls>>

Step(t) ==
  \/ Ask(t) \/ Post(t)
  \/ SaveFit(t) \/ SaveRipeness(t) \/ PatchFit(t) \/ PatchRipeness(t)
  \/ ReadFit(t) \/ ReadRipeness(t) \/ PostEnds(t) \/ Measured(t) \/ BatchRaises(t)
  \/ RestoreFit(t) \/ RestoreRipeness(t)

Next == \E t \in Threads : Step(t)

Spec == Init /\ [][Next]_vars

-----------------------------------------------------------------------------
Reads == [fits : SUBSET BOOLEAN, curves : SUBSET {"ripening", "flat"}]

(***************************************************************************)
(* The type invariant.                                                     *)
(***************************************************************************)
TypeOK ==
  /\ overlap \in BOOLEAN
  /\ world \in Worlds
  /\ pc \in [Threads -> Studying \cup {"idle", "post"}]
  /\ variant \in [Threads -> 1 .. 4]
  /\ saved \in [Threads -> Worlds]
  /\ seen \in [Threads -> Reads]
  /\ disturbed \in [Threads -> BOOLEAN]
  /\ raised \in [Threads -> BOOLEAN]
  /\ calls \in 0 .. MaxCalls

(***************************************************************************)
(* As long as studies do not overlap the world is the modelled one         *)
(* whenever no study is under way, however the last one ended.             *)
(***************************************************************************)
WorldIsPutBack == ~overlap /\ ~StudyUnderWay => world = Modelled

(***************************************************************************)
(* As long as studies do not overlap every variant is measured from start  *)
(* to end in the world its label names, whatever else the server runs, and *)
(* a posted run that no study coincides with in the modelled world.        *)
(***************************************************************************)
Saw(t, w) == seen[t].fits \subseteq {w.fits} /\ seen[t].curves \subseteq {w.curve}

MeasuredAsLabelled ==
  ~overlap => \A t \in Threads :
    /\ pc[t] = "measure" => Saw(t, WorldOf(Key(t)))
    /\ pc[t] = "post" /\ ~disturbed[t] => Saw(t, Modelled)

-----------------------------------------------------------------------------
(***************************************************************************)
(* What a test says and the code does not do.                              *)
(*                                                                         *)
(* tests/test_eval_harness.py: "test_handicaps_do_not_leak_into_later_runs"*)
(* Two studies that overlap may save each other's handicap and put that    *)
(* back, and the process keeps it for good.                                *)
(***************************************************************************)
HandicapsDoNotLeak == ~StudyUnderWay => world = Modelled
=============================================================================
