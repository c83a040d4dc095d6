---------------------------- MODULE MCRunService ----------------------------
(***************************************************************************)
(* RunService with two requests at a time and a store smaller than the     *)
(* number of runs, so that runs are evicted.                               *)
(***************************************************************************)
EXTENDS RunService

CONSTANTS c1, c2

MCClients == {c1, c2}
=============================================================================
