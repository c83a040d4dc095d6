--------------------------- MODULE MCSensitivity ---------------------------
(***************************************************************************)
(* Sensitivity with two threads: studies one after another or at once, and *)
(* runs posted before, during and after them.                              *)
(***************************************************************************)
EXTENDS Sensitivity, TLC

CONSTANTS t1, t2

MCThreads == {t1, t2}

\* No property tells the threads apart, and none of them is temporal.
Alike == Permutations(MCThreads)
=============================================================================
