------------------------------ MODULE Handicap ------------------------------
(***************************************************************************)
(* What eval/sensitivity.py replaces in the synthetic world: the table of  *)
(* fitting interventions, which may be taken away, and the curve of        *)
(* ripeness, which may be made flat.                                       *)
(***************************************************************************)
EXTENDS Integers, Sequences

Worlds == [fits : BOOLEAN, curve : {"ripening", "flat"}]

Modelled == [fits |-> TRUE, curve |-> "ripening"]

(***************************************************************************)
(* VARIANTS of sensitivity.py, and the world each of them measures.        *)
(***************************************************************************)
Variants == <<"baseline", "no_intervention_fit", "timing_barely_matters", "both">>

WorldOf(key) ==
  [fits  |-> key \notin {"no_intervention_fit", "both"},
   curve |-> IF key \in {"timing_barely_matters", "both"} THEN "flat"
                                                         ELSE "ripening"]
=============================================================================
