------------------------------- MODULE Chain --------------------------------
(***************************************************************************)
(* The hash chain of src/backend/counterfoil/ledger/chain.py as a datum:   *)
(* a file of lines, each of which commits to the line before it, and the   *)
(* walk that verifies it.                                                  *)
(*                                                                         *)
(* SHA-256 over the canonical JSON of an entry is taken to be injective: a *)
(* hash IS the sequence of everything it commits to, so two entries have   *)
(* one hash only if they agree, and so do all the entries before them.     *)
(*                                                                         *)
(* A definition introduced by a comment "Slip:" is a variant of the one    *)
(* after it with a plausible mistake that no specification uses.           *)
(***************************************************************************)
EXTENDS Integers, Sequences

Genesis == << >>

HashOf(seq, body, prev) == Append(prev, <<seq, body>>)

(***************************************************************************)
(* A LedgerEntry on its line.  The time, the run and the event it names    *)
(* are part of the body.                                                   *)
(***************************************************************************)
Entry(seq, body, prev) ==
  [readable |-> TRUE, seq |-> seq, body |-> body, prev |-> prev,
   hash |-> HashOf(seq, body, prev)]

(***************************************************************************)
(* A write cut short leaves a piece of an entry without an end of line;    *)
(* the next entry is written onto the same line, and neither can be read.  *)
(***************************************************************************)
Torn    == [readable |-> FALSE, ended |-> FALSE]
Garbled == [readable |-> FALSE, ended |-> TRUE]

LastOf(file) == file[Len(file)]

(***************************************************************************)
(* path.open("a") and one write of the line.                               *)
(***************************************************************************)
Store(file, line) ==
  IF file # << >> /\ LastOf(file) = Torn
  THEN [file EXCEPT ![Len(file)] = Garbled]
  ELSE Append(file, line)

StorePiece(file) ==
  IF file # << >> /\ LastOf(file) = Torn THEN file ELSE Append(file, Torn)

(***************************************************************************)
(* _resume: where a chain is taken up again.  It parses every line, so it  *)
(* raises on a file with one that cannot be read.                          *)
(***************************************************************************)
Readable(file) == \A i \in DOMAIN file : file[i].readable

\* Slip: the handle's number is taken for the last one written.
NextSeqIsTheLast(file) == IF file = << >> THEN -1 ELSE LastOf(file).seq

NextSeq(file) == IF file = << >> THEN 0 ELSE LastOf(file).seq + 1

HeadHash(file) == IF file = << >> THEN Genesis ELSE LastOf(file).hash

-----------------------------------------------------------------------------
PrevHash(file, i) == IF i = 1 THEN Genesis ELSE file[i - 1].hash

\* Slip: the links are followed, but no entry is hashed again.
LinksUpUnhashed(file, i) ==
  /\ file[i].readable
  /\ file[i].seq = i - 1
  /\ file[i].prev = PrevHash(file, i)

(***************************************************************************)
(* The checks verify makes of one line, the position counted from zero.    *)
(***************************************************************************)
LinksUp(file, i) ==
  /\ file[i].readable
  /\ file[i].seq = i - 1
  /\ file[i].prev = PrevHash(file, i)
  /\ file[i].hash = HashOf(file[i].seq, file[i].body, file[i].prev)

(***************************************************************************)
(* verify walks the file from the start and stops at the first line that   *)
(* does not link up, or raises if that line cannot be read.                *)
(***************************************************************************)
Sound(file, n) == \A i \in 1 .. n : LinksUp(file, i)

Intact(file) == Sound(file, Len(file))

FirstBreak(file) ==
  IF Intact(file) THEN 0
  ELSE CHOOSE i \in DOMAIN file : Sound(file, i - 1) /\ ~LinksUp(file, i)
=============================================================================
