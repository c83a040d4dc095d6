------------------------------ MODULE MCLedger ------------------------------
(***************************************************************************)
(* Ledger with two threads, two payloads that may be written, which is     *)
(* enough for one to be rewritten to the other, and one that is refused.   *)
(***************************************************************************)
EXTENDS Ledger

CONSTANTS w1, w2

MCWriters == {w1, w2}
=============================================================================
