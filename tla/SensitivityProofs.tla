-------------------------- MODULE SensitivityProofs --------------------------
(***************************************************************************)
(* For any number of threads and requests: studies that do not overlap put *)
(* the world back, whatever their batches do, and measure what they say.   *)
(*                                                                         *)
(* The invariant follows a study line by line: what it has saved is the    *)
(* modelled world, what it has assigned is its variant's, and no other     *)
(* thread assigns anything.                                                *)
(***************************************************************************)
EXTENDS Sensitivity, TLAPS

Alone == \A t, u \in Threads : InStudy(t) /\ InStudy(u) => t = u

(***************************************************************************)
(* What a thread knows at each line of _handicap.                          *)
(***************************************************************************)
Stage(t) ==
  /\ pc[t] = "save_fit"       => world = Modelled
  /\ pc[t] = "save_ripeness"  => world = Modelled /\ saved[t].fits = TRUE
  /\ pc[t] \in {"patch_fit", "patch_ripeness", "measure", "restore_fit",
                "restore_ripeness"} => saved[t] = Modelled
  /\ pc[t] = "patch_fit"      => world = Modelled
  /\ pc[t] = "patch_ripeness" => /\ world.fits = WorldOf(Key(t)).fits
                                 /\ world.curve = "ripening"
  /\ pc[t] = "measure"        => world = WorldOf(Key(t))
  /\ pc[t] = "restore_ripeness" => world.fits = TRUE

Fresh(t) == pc[t] \notin {"measure", "post"} => seen[t] = NothingSeen

Faithful(t) ==
  /\ pc[t] = "measure" => Saw(t, WorldOf(Key(t)))
  /\ pc[t] = "post" /\ ~disturbed[t] => ~StudyUnderWay /\ Saw(t, Modelled)

Ordered ==
  /\ Alone
  /\ ~StudyUnderWay => world = Modelled
  /\ \A t \in Threads : Stage(t)
  /\ \A t \in Threads : Fresh(t)
  /\ \A t \in Threads : Faithful(t)

IInv == TypeOK /\ (~overlap => Ordered)

-----------------------------------------------------------------------------
(***************************************************************************)
(* Of the two worlds compared in a proof the parts are compared.           *)
(***************************************************************************)
LEMMA SameWorld ==
  ASSUME NEW v \in Worlds, NEW w \in Worlds, v.fits = w.fits, v.curve = w.curve
  PROVE  v = w
BY DEF Worlds

(***************************************************************************)
(* The world of every variant is a world.                                  *)
(***************************************************************************)
LEMMA VariantWorlds ==
  ASSUME NEW key
  PROVE  /\ WorldOf(key) \in Worlds
         /\ WorldOf(key).curve \in {"ripening", "flat"}
         /\ WorldOf(key).fits \in BOOLEAN
BY DEF WorldOf, Worlds

(***************************************************************************)
(* A study is of four variants.                                            *)
(***************************************************************************)
LEMMA FourVariants == Len(Variants) = 4
BY DEF Variants

(***************************************************************************)
(* The world as modelled is one, and which.                                *)
(***************************************************************************)
LEMMA ModelledIsAWorld ==
  Modelled \in Worlds /\ Modelled.fits = TRUE /\ Modelled.curve = "ripening"
BY DEF Modelled, Worlds

(***************************************************************************)
(* At the start no study is under way and the world is the modelled one.   *)
(***************************************************************************)
LEMMA InitOrdered == Init => TypeOK /\ Ordered
<1> SUFFICES ASSUME Init PROVE TypeOK /\ Ordered
  OBVIOUS
<1>1. TypeOK
  BY SensitivityAssumption DEF SensitivityAssumption, Init, TypeOK, Modelled,
     Worlds, NothingSeen, Reads
<1>2. \A t \in Threads : pc[t] = "idle" /\ seen[t] = NothingSeen
  BY DEF Init
<1>3. ~StudyUnderWay /\ world = Modelled
  BY <1>2 DEF StudyUnderWay, InStudy, Studying, Init
<1> QED
  BY <1>1, <1>2, <1>3 DEF Ordered, Alone, Stage, Fresh, Faithful, InStudy, Studying

-----------------------------------------------------------------------------
(***************************************************************************)
(* The type invariant, action by action.                                   *)
(***************************************************************************)
LEMMA StepTyped ==
  ASSUME TypeOK, NEW t \in Threads, Step(t)
  PROVE  TypeOK'
<1> USE SensitivityAssumption DEF SensitivityAssumption, TypeOK, Studying, Go
<1>1. CASE Ask(t)
  BY <1>1 DEF Ask
<1>2. CASE Post(t)
  <2>1. StudyUnderWay \in BOOLEAN
    BY DEF StudyUnderWay
  <2>2. disturbed' \in [Threads -> BOOLEAN]
    BY <1>2, <2>1 DEF Post
  <2> QED
    BY <1>2, <2>2 DEF Post
<1>3. CASE SaveFit(t)
  BY <1>3 DEF SaveFit, Worlds
<1>4. CASE SaveRipeness(t)
  BY <1>4 DEF SaveRipeness, Worlds
<1>5. CASE PatchFit(t)
  BY <1>5 DEF PatchFit, Worlds
<1>6. CASE PatchRipeness(t)
  BY <1>6 DEF PatchRipeness, Worlds
<1>7. CASE ReadFit(t)
  BY <1>7 DEF ReadFit, Worlds, Reads
<1>8. CASE ReadRipeness(t)
  BY <1>8 DEF ReadRipeness, Worlds, Reads
<1>9. CASE PostEnds(t)
  BY <1>9 DEF PostEnds, Forget, NothingSeen, Reads
<1>10. CASE Measured(t)
  BY <1>10 DEF Measured, Forget, NothingSeen, Reads
<1>11. CASE BatchRaises(t)
  BY <1>11 DEF BatchRaises, Forget, NothingSeen, Reads
<1>12. CASE RestoreFit(t)
  BY <1>12 DEF RestoreFit, Worlds
<1>13. CASE RestoreRipeness(t)
  BY <1>13, FourVariants DEF RestoreRipeness, Worlds
<1> QED
  BY <1>1, <1>2, <1>3, <1>4, <1>5, <1>6, <1>7, <1>8, <1>9, <1>10, <1>11,
     <1>12, <1>13 DEF Step

-----------------------------------------------------------------------------
(***************************************************************************)
(* Where the threads are when one of them is in a study of its own.        *)
(***************************************************************************)
LEMMA OthersWait ==
  ASSUME Alone, NEW t \in Threads, InStudy(t), NEW u \in Threads, u # t
  PROVE  ~InStudy(u)
BY DEF Alone

(***************************************************************************)
(* A step within a study moves one thread from line to line.  The others   *)
(* keep their place and what they know, and the batches posted meanwhile   *)
(* are disturbed already.                                                  *)
(***************************************************************************)
LEMMA WithinAStudy ==
  ASSUME TypeOK, Ordered, NEW t \in Threads, InStudy(t), InStudy(t)',
         pc' = [pc EXCEPT ![t] = pc'[t]],
         \A u \in Threads \ {t} :
           saved'[u] = saved[u] /\ seen'[u] = seen[u] /\ variant'[u] = variant[u],
         UNCHANGED disturbed,
         Stage(t)', Fresh(t)', pc'[t] = "measure" => Saw(t, WorldOf(Key(t)))'
  PROVE  Ordered'
<1>1. \A u \in Threads \ {t} : pc'[u] = pc[u] /\ ~InStudy(u)
  BY OthersWait DEF Ordered, TypeOK
<1>2. \A u \in Threads \ {t} : ~InStudy(u)'
  BY <1>1 DEF InStudy
<1>3. Alone'
  BY <1>2 DEF Alone
<1>4. StudyUnderWay /\ StudyUnderWay'
  BY DEF StudyUnderWay
<1>5. ASSUME NEW u \in Threads PROVE Stage(u)'
  <2>1. CASE u = t
    BY <2>1
  <2>2. CASE u # t
    BY <1>2, <2>2 DEF Stage, InStudy, Studying
  <2> QED
    BY <2>1, <2>2
<1>6. ASSUME NEW u \in Threads PROVE Fresh(u)'
  <2>1. CASE u # t
    BY <1>1, <2>1 DEF Fresh, Ordered
  <2> QED
    BY <2>1
<1>7. ASSUME NEW u \in Threads PROVE Faithful(u)'
  <2>1. CASE u = t
    BY <2>1 DEF Faithful, InStudy, Studying
  <2>2. CASE u # t
    <3>1. pc'[u] # "measure"
      BY <1>2, <2>2 DEF InStudy, Studying
    <3>2. ~(pc[u] = "post" /\ ~disturbed[u])
      BY <1>4 DEF Ordered, Faithful
    <3> QED
      BY <1>1, <2>2, <3>1, <3>2 DEF Faithful
  <2> QED
    BY <2>1, <2>2
<1> QED
  BY <1>3, <1>4, <1>5, <1>6, <1>7 DEF Ordered

(***************************************************************************)
(* The steps of a study that only move it along.                           *)
(***************************************************************************)
LEMMA SavingAndPatching ==
  ASSUME TypeOK, TypeOK', Ordered, NEW t \in Threads,
         SaveFit(t) \/ SaveRipeness(t) \/ PatchFit(t) \/ PatchRipeness(t)
  PROVE  Ordered'
<1> USE DEF InStudy, Studying, Go
<1>1. Stage(t) /\ Fresh(t)
  BY DEF Ordered
<1>2. /\ InStudy(t) /\ InStudy(t)'
      /\ pc' = [pc EXCEPT ![t] = pc'[t]]
      /\ \A u \in Threads \ {t} :
           saved'[u] = saved[u] /\ seen'[u] = seen[u] /\ variant'[u] = variant[u]
      /\ UNCHANGED <<disturbed, seen, variant>>
  BY DEF SaveFit, SaveRipeness, PatchFit, PatchRipeness, TypeOK
<1>3. seen[t] = NothingSeen
  BY <1>1 DEF Fresh, SaveFit, SaveRipeness, PatchFit, PatchRipeness
<1>4. Fresh(t)' /\ (pc'[t] = "measure" => Saw(t, WorldOf(Key(t)))')
  BY <1>2, <1>3 DEF Fresh, Saw, NothingSeen
<1>5. Key(t)' = Key(t)
  BY <1>2 DEF Key
<1>6. Stage(t)'
  <2> USE <1>1, <1>5, ModelledIsAWorld DEF Stage
  <2>1. CASE SaveFit(t)
    BY <2>1 DEF SaveFit, TypeOK, Worlds
  <2>2. CASE SaveRipeness(t)
    <3>1. saved'[t].fits = TRUE /\ saved'[t].curve = "ripening" /\ world = Modelled
      BY <2>2 DEF SaveRipeness, TypeOK, Worlds
    <3>2. saved'[t] = Modelled
      BY <3>1, SameWorld DEF TypeOK
    <3> QED
      BY <2>2, <3>1, <3>2 DEF SaveRipeness, TypeOK
  <2>3. CASE PatchFit(t)
    <3>1. WorldOf(Key(t)).fits \in BOOLEAN
      BY VariantWorlds
    <3>2. /\ world'.fits = WorldOf(Key(t)).fits
          /\ world'.curve = "ripening"
      BY <2>3, <3>1 DEF PatchFit, TypeOK, Worlds
    <3> QED
      BY <2>3, <3>2 DEF PatchFit, TypeOK
  <2>4. CASE PatchRipeness(t)
    <3>1. WorldOf(Key(t)).curve \in {"ripening", "flat"}
      BY VariantWorlds
    <3>2. /\ world'.fits = WorldOf(Key(t)).fits
          /\ world'.curve = WorldOf(Key(t)).curve
      BY <2>4, <3>1 DEF PatchRipeness, TypeOK, Worlds
    <3>3. world' = WorldOf(Key(t))
      BY <3>2, SameWorld, VariantWorlds DEF TypeOK
    <3> QED
      BY <2>4, <3>3 DEF PatchRipeness, TypeOK
  <2> QED
    BY <2>1, <2>2, <2>3, <2>4
<1> QED
  BY <1>2, <1>4, <1>6, WithinAStudy

(***************************************************************************)
(* What a batch of a study reads is its variant's, and however the batch   *)
(* ends the world is put back.                                             *)
(***************************************************************************)
LEMMA Measuring ==
  ASSUME TypeOK, TypeOK', Ordered, NEW t \in Threads, pc[t] = "measure",
         ReadFit(t) \/ ReadRipeness(t) \/ Measured(t) \/ BatchRaises(t)
  PROVE  Ordered'
<1> USE DEF InStudy, Studying, Go
<1>1. Stage(t) /\ Faithful(t)
  BY DEF Ordered
<1>2. /\ InStudy(t) /\ InStudy(t)'
      /\ pc' = [pc EXCEPT ![t] = pc'[t]]
      /\ \A u \in Threads \ {t} :
           saved'[u] = saved[u] /\ seen'[u] = seen[u] /\ variant'[u] = variant[u]
      /\ UNCHANGED <<world, saved, disturbed, variant>>
  BY DEF ReadFit, ReadRipeness, Measured, BatchRaises, Forget, TypeOK
<1>3. Key(t)' = Key(t)
  BY <1>2 DEF Key
<1>4. Fresh(t)'
  BY DEF ReadFit, ReadRipeness, Measured, BatchRaises, Forget, Fresh, TypeOK
<1>5. Stage(t)'
  BY <1>1, <1>2, <1>3 DEF Stage, ReadFit, ReadRipeness, Measured, BatchRaises,
     TypeOK
<1>6. ASSUME pc'[t] = "measure" PROVE Saw(t, WorldOf(Key(t)))'
  <2>1. world = WorldOf(Key(t)) /\ Saw(t, WorldOf(Key(t)))
    BY <1>1 DEF Stage, Faithful
  <2>2. CASE ReadFit(t)
    BY <1>3, <2>1, <2>2 DEF ReadFit, Saw, TypeOK, Reads
  <2>3. CASE ReadRipeness(t)
    BY <1>3, <2>1, <2>3 DEF ReadRipeness, Saw, TypeOK, Reads
  <2>4. ~Measured(t) /\ ~BatchRaises(t)
    BY <1>6 DEF Measured, BatchRaises, TypeOK
  <2> QED
    BY <2>2, <2>3, <2>4
<1> QED
  BY <1>2, <1>4, <1>5, <1>6, WithinAStudy

-----------------------------------------------------------------------------
(***************************************************************************)
(* The finally clause, between two variants and after the last.            *)
(***************************************************************************)
LEMMA Restoring ==
  ASSUME TypeOK, TypeOK', Ordered, NEW t \in Threads,
         RestoreFit(t) \/ RestoreRipeness(t)
  PROVE  Ordered'
<1> USE DEF InStudy, Studying, Go
<1>1. Stage(t) /\ Fresh(t) /\ InStudy(t) /\ saved[t] = Modelled
  BY DEF Ordered, Stage, RestoreFit, RestoreRipeness
<1>2. /\ pc' = [pc EXCEPT ![t] = pc'[t]]
      /\ \A u \in Threads \ {t} :
           saved'[u] = saved[u] /\ seen'[u] = seen[u] /\ variant'[u] = variant[u]
      /\ UNCHANGED <<saved, disturbed, seen>>
      /\ pc'[t] \in {"restore_ripeness", "save_fit", "idle"}
  BY DEF RestoreFit, RestoreRipeness, TypeOK
<1>3. Fresh(t)' /\ (pc'[t] = "measure" => Saw(t, WorldOf(Key(t)))')
  BY <1>1, <1>2 DEF Fresh, RestoreFit, RestoreRipeness, TypeOK
<1>4. RestoreFit(t) => world'.fits = TRUE /\ pc'[t] = "restore_ripeness"
  BY <1>1, ModelledIsAWorld DEF RestoreFit, TypeOK, Worlds
<1>5. RestoreRipeness(t) => world' = Modelled /\ pc'[t] \in {"save_fit", "idle"}
  <2> SUFFICES ASSUME RestoreRipeness(t)
               PROVE  world' = Modelled /\ pc'[t] \in {"save_fit", "idle"}
    OBVIOUS
  <2>1. world'.fits = TRUE /\ world'.curve = "ripening"
    BY <1>1, ModelledIsAWorld DEF Stage, RestoreRipeness, TypeOK, Worlds
  <2>2. world' = Modelled
    BY <2>1, SameWorld, ModelledIsAWorld DEF TypeOK
  <2> QED
    BY <2>2 DEF RestoreRipeness, TypeOK
<1>6. Stage(t)'
  BY <1>1, <1>2, <1>4, <1>5 DEF Stage
<1>7. CASE InStudy(t)'
  BY <1>1, <1>2, <1>3, <1>6, <1>7, WithinAStudy
<1>8. CASE ~InStudy(t)'
  <2>1. pc'[t] = "idle" /\ world' = Modelled
    BY <1>2, <1>4, <1>5, <1>8
  <2>2. \A u \in Threads \ {t} : pc'[u] = pc[u] /\ ~InStudy(u)
    BY <1>1, <1>2, OthersWait DEF Ordered, TypeOK
  <2>3. ~StudyUnderWay' /\ StudyUnderWay
    BY <1>1, <2>1, <2>2 DEF StudyUnderWay
  <2>4. Alone'
    BY <2>3 DEF Alone, StudyUnderWay
  <2>5. \A u \in Threads : Stage(u)' /\ Fresh(u)'
    BY <1>2, <1>3, <1>6, <2>1, <2>2 DEF Stage, Fresh, Ordered
  <2>6. \A u \in Threads : Faithful(u)'
    BY <1>2, <2>1, <2>2, <2>3 DEF Faithful, Ordered
  <2> QED
    BY <2>1, <2>3, <2>4, <2>5, <2>6 DEF Ordered
<1> QED
  BY <1>7, <1>8

(***************************************************************************)
(* A study begins while there is none, and every posted batch is told.     *)
(***************************************************************************)
LEMMA Beginning ==
  ASSUME TypeOK, TypeOK', Ordered, ~overlap, NEW t \in Threads, Ask(t)
  PROVE  Ordered'
<1> USE DEF InStudy, Studying, Go
<1>1. ~StudyUnderWay /\ world = Modelled
  BY DEF Ask, Ordered
<1>2. /\ pc'[t] = "save_fit"
      /\ \A u \in Threads \ {t} : pc'[u] = pc[u] /\ ~InStudy(u)
      /\ UNCHANGED <<world, saved, seen>>
      /\ \A u \in Threads : pc[u] = "post" => disturbed'[u]
  BY <1>1 DEF Ask, TypeOK, StudyUnderWay
<1>3. StudyUnderWay'
  BY <1>2 DEF StudyUnderWay
<1>4. Alone'
  BY <1>2 DEF Alone
<1>5. \A u \in Threads : Stage(u)' /\ Fresh(u)'
  <2>1. pc[t] = "idle"
    BY DEF Ask
  <2> QED
    BY <1>1, <1>2, <2>1 DEF Stage, Fresh, Ordered
<1>6. \A u \in Threads : Faithful(u)'
  BY <1>2 DEF Faithful
<1> QED
  BY <1>3, <1>4, <1>5, <1>6 DEF Ordered

(***************************************************************************)
(* A posted batch begins, reads and ends.  It moves no study.              *)
(***************************************************************************)
LEMMA Posting ==
  ASSUME TypeOK, TypeOK', Ordered, NEW t \in Threads,
         \/ Post(t)
         \/ pc[t] = "post" /\ (ReadFit(t) \/ ReadRipeness(t))
         \/ PostEnds(t)
  PROVE  Ordered'
<1> USE DEF InStudy, Studying, Go
<1>1. /\ \A u \in Threads \ {t} :
           /\ pc'[u] = pc[u] /\ seen'[u] = seen[u]
           /\ disturbed'[u] = disturbed[u]
      /\ pc[t] \in {"idle", "post"} /\ pc'[t] \in {"idle", "post"}
      /\ UNCHANGED <<world, saved, variant>>
  BY DEF Post, ReadFit, ReadRipeness, PostEnds, Forget, TypeOK
<1>2. \A u \in Threads : InStudy(u)' <=> InStudy(u)
  BY <1>1
<1>3. StudyUnderWay' <=> StudyUnderWay
  BY <1>2 DEF StudyUnderWay
<1>4. Alone'
  BY <1>2 DEF Alone, Ordered
<1>5. \A u \in Threads : Key(u)' = Key(u)
  BY <1>1 DEF Key
<1>6. \A u \in Threads : Stage(u)'
  BY <1>1, <1>5 DEF Stage, Ordered
<1>7. \A u \in Threads : Fresh(u)'
  <2>1. Fresh(t)'
    BY DEF Fresh, Post, ReadFit, ReadRipeness, PostEnds, Forget, TypeOK
  <2> QED
    BY <1>1, <2>1 DEF Fresh, Ordered
<1>8. \A u \in Threads : Faithful(u)'
  <2>1. ASSUME NEW u \in Threads, u # t PROVE Faithful(u)'
    BY <1>1, <1>3, <1>5, <2>1 DEF Faithful, Saw, Ordered
  <2>2. Faithful(t)'
    <3>1. CASE Post(t)
      <4>1. seen'[t] = NothingSeen /\ pc'[t] = "post"
        BY <3>1 DEF Post, TypeOK, Ordered, Fresh
      <4>2. disturbed'[t] = StudyUnderWay
        BY <3>1 DEF Post, TypeOK
      <4> QED
        BY <1>3, <4>1, <4>2 DEF Faithful, Saw, NothingSeen
    <3>2. ASSUME pc[t] = "post", ReadFit(t) \/ ReadRipeness(t), ~disturbed'[t]
          PROVE  ~StudyUnderWay' /\ Saw(t, Modelled)'
      <4>1. ~StudyUnderWay /\ Saw(t, Modelled) /\ world = Modelled
        BY <3>2 DEF Ordered, Faithful, ReadFit, ReadRipeness
      <4>2. CASE ReadFit(t)
        BY <1>3, <4>1, <4>2 DEF ReadFit, Saw, TypeOK, Reads
      <4>3. CASE ReadRipeness(t)
        BY <1>3, <4>1, <4>3 DEF ReadRipeness, Saw, TypeOK, Reads
      <4> QED
        BY <3>2, <4>2, <4>3
    <3>3. ASSUME pc[t] = "post", ReadFit(t) \/ ReadRipeness(t)
          PROVE  pc'[t] = "post"
      BY <3>3 DEF ReadFit, ReadRipeness
    <3>4. CASE PostEnds(t)
      BY <3>4 DEF PostEnds, Faithful, TypeOK
    <3> QED
      BY <3>1, <3>2, <3>3, <3>4 DEF Faithful
  <2> QED
    BY <2>1, <2>2
<1> QED
  BY <1>1, <1>3, <1>4, <1>6, <1>7, <1>8 DEF Ordered

-----------------------------------------------------------------------------
(***************************************************************************)
(* The invariant is inductive.                                             *)
(***************************************************************************)
LEMMA StepKeeps ==
  ASSUME IInv, [Next]_vars
  PROVE  IInv'
<1>1. CASE UNCHANGED vars
  BY <1>1 DEF vars, IInv, TypeOK, Ordered, Alone, Stage, Fresh, Faithful, Saw,
     Key, StudyUnderWay, InStudy
<1>2. ASSUME NEW t \in Threads, Step(t) PROVE IInv'
  <2>1. TypeOK /\ TypeOK'
    BY <1>2, StepTyped DEF IInv
  <2>2. overlap' = overlap
    BY <1>2 DEF Step, Ask, Post, SaveFit, SaveRipeness, PatchFit, PatchRipeness,
       ReadFit, ReadRipeness, PostEnds, Measured, BatchRaises, RestoreFit,
       RestoreRipeness
  <2>3. ASSUME ~overlap PROVE Ordered'
    <3>1. Ordered
      BY <2>3 DEF IInv
    <3>2. CASE Ask(t)
      BY <2>1, <2>3, <3>1, <3>2, Beginning
    <3>3. CASE SaveFit(t) \/ SaveRipeness(t) \/ PatchFit(t) \/ PatchRipeness(t)
      BY <2>1, <3>1, <3>3, SavingAndPatching
    <3>4. CASE ReadFit(t) \/ ReadRipeness(t)
      <4>1. pc[t] \in {"measure", "post"}
        BY <3>4 DEF ReadFit, ReadRipeness
      <4> QED
        BY <2>1, <3>1, <3>4, <4>1, Measuring, Posting
    <3>5. CASE Post(t) \/ PostEnds(t)
      BY <2>1, <3>1, <3>5, Posting
    <3>6. CASE Measured(t) \/ BatchRaises(t)
      <4>1. pc[t] = "measure"
        BY <3>6 DEF Measured, BatchRaises
      <4> QED
        BY <2>1, <3>1, <3>6, <4>1, Measuring
    <3>7. CASE RestoreFit(t) \/ RestoreRipeness(t)
      BY <2>1, <3>1, <3>7, Restoring
    <3> QED
      BY <1>2, <3>2, <3>3, <3>4, <3>5, <3>6, <3>7 DEF Step
  <2> QED
    BY <2>1, <2>2, <2>3 DEF IInv
<1> QED
  BY <1>1, <1>2 DEF Next

(***************************************************************************)
(* The invariant in every state; the order is only of studies that do not  *)
(* overlap.                                                                *)
(***************************************************************************)
LEMMA InvariantHolds == Spec => []IInv
<1>1. Init => IInv
  BY InitOrdered DEF IInv
<1>2. IInv /\ [Next]_vars => IInv'
  BY StepKeeps
<1> QED
  BY <1>1, <1>2, PTL DEF Spec

-----------------------------------------------------------------------------
(***************************************************************************)
(* Every state is typed (run sensitivity).                                 *)
(***************************************************************************)
THEOREM TypeCorrect == Spec => []TypeOK
<1>1. IInv => TypeOK
  BY DEF IInv
<1> QED
  BY <1>1, InvariantHolds, PTL

(***************************************************************************)
(* Studies that do not overlap leave the modelled world behind, whatever   *)
(* they ran into: _handicap restores what it has found, and what it has    *)
(* found is what the study before it restored.                             *)
(***************************************************************************)
THEOREM HandicapsAreTemporary == Spec => []WorldIsPutBack
<1>1. IInv => WorldIsPutBack
  BY DEF IInv, Ordered, WorldIsPutBack
<1> QED
  BY <1>1, InvariantHolds, PTL

(***************************************************************************)
(* Every variant is measured in its own world from the first read of its   *)
(* batch to the last, and every run without a study beside it in the       *)
(* modelled one.                                                           *)
(***************************************************************************)
THEOREM VariantsAreMeasured == Spec => []MeasuredAsLabelled
<1>1. IInv => MeasuredAsLabelled
  BY DEF IInv, Ordered, Faithful, MeasuredAsLabelled
<1> QED
  BY <1>1, InvariantHolds, PTL
===============================================================================
