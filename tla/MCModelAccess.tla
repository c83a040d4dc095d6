--------------------------- MODULE MCModelAccess ---------------------------
(***************************************************************************)
(* Two questions and three processes; times in seconds.                    *)
(***************************************************************************)
EXTENDS ModelAccess

MCBackoff == [a \in 0 .. 2 |-> 8 * 2^a]
=============================================================================
