----------------------------- MODULE AppendOnly -----------------------------
(***************************************************************************)
(* What the ledger promises a reader of its file, after the docstring of   *)
(* src/backend/counterfoil/ledger/chain.py ("an append-only record of      *)
(* every decision"): the records that verify are the ones accepted, one at *)
(* a time and in order.  A record is never changed and none is put between *)
(* two others; all that can happen to the log besides growing is to be cut *)
(* short.                                                                  *)
(***************************************************************************)
EXTENDS Integers, Sequences

CONSTANT Acceptable   \* the payloads the ledger does not refuse

VARIABLE log

Init == log = << >>

Add == \E body \in Acceptable : log' = Append(log, body)

CutShort == \E n \in 0 .. Len(log) - 1 : log' = SubSeq(log, 1, n)

Next == Add \/ CutShort

Spec == Init /\ [][Next]_log
=============================================================================
