------------------------------- MODULE Ledger -------------------------------
(***************************************************************************)
(* One ledger file and the life of the process that appends to it (class   *)
(* Ledger, src/backend/counterfoil/ledger/chain.py).                       *)
(*                                                                         *)
(* Several threads may call append on the one handle the process holds.    *)
(* The payload is scanned before the lock is taken; the entry is drafted   *)
(* from the handle's seq and head, written, and only then is the handle    *)
(* moved on, all under the lock.  A write may fail, leaving a piece of a   *)
(* line or nothing; the process may die between any two steps; and since   *)
(* nothing is synced, a machine that goes down may lose the end of the     *)
(* file.  Between two processes the file may be edited by hand, resumed,   *)
(* or deleted (as api/service.py does before every run).                   *)
(***************************************************************************)
EXTENDS Chain, SequencesExt

CONSTANTS
  Writers,     \* threads that share the handle
  Bodies,      \* what may be appended
  Personal,    \* the bodies _scan_for_pii refuses
  NoWriter,    \* nobody holds the lock
  MaxLines,    \* no append is called once the file has this many lines
  MaxEdits     \* edits by hand in the life of a file

ASSUME LedgerAssumption ==
  /\ Personal \subseteq Bodies
  /\ NoWriter \notin Writers
  /\ MaxLines \in Nat
  /\ MaxEdits \in Nat

VARIABLES
  file,      \* the lines of the file; no file is the same as an empty one
  live,      \* a process holds a handle
  seq,       \* its _seq
  head,      \* its _head
  lock,      \* who holds its _lock
  pc,        \* where each thread is in append
  draft,     \* the entry each thread is appending
  returned,  \* the entries append returned, less those lost with the disk
  written,   \* the file as the ledger itself wrote it, until it was changed
  edits      \* edits by hand since the file was created

vars == <<file, live, seq, head, lock, pc, draft, returned, written, edits>>

handle == <<live, seq, head, lock>>

NoEntry == [readable |-> FALSE]

-----------------------------------------------------------------------------
Init ==
  /\ file = << >>
  /\ live = FALSE
  /\ seq = 0
  /\ head = Genesis
  /\ lock = NoWriter
  /\ pc = [w \in Writers |-> "idle"]
  /\ draft = [w \in Writers |-> NoEntry]
  /\ returned = {}
  /\ written = << >>
  /\ edits = 0

\* Slip: the file is opened for writing afresh.
OpenAfresh ==
  /\ ~live
  /\ Readable(file)
  /\ file' = << >>
  /\ live' = TRUE
  /\ seq' = 0
  /\ head' = Genesis
  /\ UNCHANGED <<lock, pc, draft, returned, written, edits>>

(***************************************************************************)
(* Ledger(path): the chain is resumed from its last line.  A file with a   *)
(* line that cannot be read makes the constructor raise.                   *)
(***************************************************************************)
Open ==
  /\ ~live
  /\ Readable(file)
  /\ live' = TRUE
  /\ seq' = NextSeq(file)
  /\ head' = HeadHash(file)
  /\ written' = IF IsPrefix(file, written) THEN file ELSE written
  /\ UNCHANGED <<file, lock, pc, draft, returned, edits>>

\* Slip: the payload is not scanned.
BeginUnscanned(w, b) ==
  /\ live
  /\ pc[w] = "idle"
  /\ Len(file) < MaxLines
  /\ lock = NoWriter
  /\ lock' = w
  /\ draft' = [draft EXCEPT ![w] = Entry(seq, b, head)]
  /\ pc' = [pc EXCEPT ![w] = "writing"]
  /\ UNCHANGED <<file, live, seq, head, returned, written, edits>>

(***************************************************************************)
(* append is called, the payload passes the scan, the lock is taken and    *)
(* the entry drafted.  A payload that does not pass raises before anything *)
(* is locked or written.                                                   *)
(***************************************************************************)
Begin(w, b) ==
  /\ live
  /\ pc[w] = "idle"
  /\ Len(file) < MaxLines
  /\ b \notin Personal
  /\ lock = NoWriter
  /\ lock' = w
  /\ draft' = [draft EXCEPT ![w] = Entry(seq, b, head)]
  /\ pc' = [pc EXCEPT ![w] = "writing"]
  /\ UNCHANGED <<file, live, seq, head, returned, written, edits>>

\* Slip: the lock guards the write only.
WriteAndUnlock(w) ==
  /\ pc[w] = "writing"
  /\ file' = Store(file, draft[w])
  /\ written' = IF file = written THEN Append(written, draft[w]) ELSE written
  /\ lock' = NoWriter
  /\ pc' = [pc EXCEPT ![w] = "written"]
  /\ UNCHANGED <<live, seq, head, draft, returned, edits>>

Write(w) ==
  /\ pc[w] = "writing"
  /\ file' = Store(file, draft[w])
  /\ written' = IF file = written THEN Append(written, draft[w]) ELSE written
  /\ pc' = [pc EXCEPT ![w] = "written"]
  /\ UNCHANGED <<handle, draft, returned, edits>>

Released(w) ==
  /\ lock' = NoWriter
  /\ pc' = [pc EXCEPT ![w] = "idle"]
  /\ draft' = [draft EXCEPT ![w] = NoEntry]

(***************************************************************************)
(* The handle moves on, the lock is released and append returns.           *)
(***************************************************************************)
Return(w) ==
  /\ pc[w] = "written"
  /\ seq' = seq + 1
  /\ head' = draft[w].hash
  /\ returned' = returned \cup {draft[w]}
  /\ Released(w)
  /\ UNCHANGED <<file, live, written, edits>>

\* Slip: acquire and release instead of "with".
FailKeepsTheLock(w) ==
  /\ pc[w] = "writing"
  /\ file' \in {file, StorePiece(file)}
  /\ pc' = [pc EXCEPT ![w] = "idle"]
  /\ draft' = [draft EXCEPT ![w] = NoEntry]
  /\ UNCHANGED <<handle, returned, written, edits>>

(***************************************************************************)
(* The write raises, with a piece of the line in the file or nothing.  The *)
(* handle does not move and the lock is released.                          *)
(***************************************************************************)
Fail(w) ==
  /\ pc[w] = "writing"
  /\ file' \in {file, StorePiece(file)}
  /\ Released(w)
  /\ UNCHANGED <<live, seq, head, returned, written, edits>>

-----------------------------------------------------------------------------
ProcessGone ==
  /\ live
  /\ live' = FALSE
  /\ seq' = 0
  /\ head' = Genesis
  /\ lock' = NoWriter
  /\ pc' = [w \in Writers |-> "idle"]
  /\ draft' = [w \in Writers |-> NoEntry]
  /\ UNCHANGED edits

(***************************************************************************)
(* The process ends, wherever its threads are.  What was written stays.    *)
(***************************************************************************)
Exit == ProcessGone /\ UNCHANGED <<file, returned, written>>

(***************************************************************************)
(* The machine goes down: of the lines that were never synced any number   *)
(* may be gone, and the first of them may be there in part.                *)
(***************************************************************************)
PowerLoss ==
  /\ ProcessGone
  /\ \E n \in 0 .. Len(file) - 1 :
       /\ file' \in {SubSeq(file, 1, n), Append(SubSeq(file, 1, n), Torn)}
       /\ returned' = {l \in returned : \E i \in 1 .. n : file[i] = l}
  /\ UNCHANGED written

(***************************************************************************)
(* The caller starts over, as execute and the command line tools do.       *)
(***************************************************************************)
Unlink ==
  /\ ~live
  /\ file # << >>
  /\ file' = << >>
  /\ returned' = {}
  /\ written' = << >>
  /\ edits' = 0
  /\ UNCHANGED <<handle, pc, draft>>

(***************************************************************************)
(* Between two processes an entry is rewritten in the file, or deleted     *)
(* from it, as the tests of the ledger do.                                 *)
(***************************************************************************)
Edit ==
  /\ ~live
  /\ edits < MaxEdits
  /\ edits' = edits + 1
  /\ UNCHANGED <<handle, pc, draft, returned, written>>

Rewrite(i, b) ==
  /\ Edit
  /\ i \in DOMAIN file
  /\ file[i].readable
  /\ file[i].hash = HashOf(file[i].seq, file[i].body, file[i].prev)
  /\ b # file[i].body
  /\ file' = [file EXCEPT ![i].body = b]

Delete(i) ==
  /\ Edit
  /\ i \in DOMAIN file
  /\ file[i].readable
  /\ file' = RemoveAt(file, i)

-----------------------------------------------------------------------------
Holding(w) == Write(w) \/ Return(w) \/ Fail(w)

Appending(w) ==
  \/ \E b \in Bodies : Begin(w, b)
  \/ Holding(w)

Editing ==
  \E i \in 1 .. Len(file) : Delete(i) \/ \E b \in Bodies : Rewrite(i, b)

Next ==
  \/ Open
  \/ \E w \in Writers : Appending(w)
  \/ Exit
  \/ PowerLoss
  \/ Unlink
  \/ Editing

Spec == Init /\ [][Next]_vars

(***************************************************************************)
(* A thread that holds the lock is not stopped inside append.  Nothing is  *)
(* assumed of the lock: it is under no obligation to be fair.              *)
(***************************************************************************)
FairSpec == Spec /\ \A w \in Writers : WF_vars(Holding(w))

-----------------------------------------------------------------------------
(***************************************************************************)
(* The shape of the state.                                                 *)
(***************************************************************************)
Hashes  == Seq(Nat \X Bodies)
Entries == [readable : {TRUE}, seq : Nat, body : Bodies, prev : Hashes,
            hash : Hashes]
Lines   == Entries \cup {Torn, Garbled}

TypeOK ==
  /\ file \in Seq(Lines)
  /\ written \in Seq(Entries)
  /\ live \in BOOLEAN
  /\ seq \in Nat
  /\ head \in Hashes
  /\ lock \in Writers \cup {NoWriter}
  /\ pc \in [Writers -> {"idle", "writing", "written"}]
  /\ draft \in [Writers -> Entries \cup {NoEntry}]
  /\ \A w \in Writers : draft[w] = NoEntry <=> pc[w] = "idle"
  /\ returned \subseteq Entries
  /\ edits \in 0 .. MaxEdits

(***************************************************************************)
(* A ledger nobody edited verifies, at every moment: while its threads     *)
(* append, between a write and the handle's move, after failed writes,     *)
(* restarts and lost tails, as long as every line of it can be read.       *)
(***************************************************************************)
IntactUnlessEdited == edits = 0 /\ Readable(file) => Intact(file)

(***************************************************************************)
(* What was edited shows, and shows where it is: verification breaks at    *)
(* the first line that is not the one the ledger wrote there, however much *)
(* was appended or cut off since; and a file it passes is what the ledger  *)
(* wrote, from the start, with nothing missing in between.                 *)
(***************************************************************************)
FirstDifference ==
  IF IsPrefix(file, written) THEN 0
  ELSE CHOOSE i \in DOMAIN file :
         /\ IsPrefix(SubSeq(file, 1, i - 1), written)
         /\ i \in DOMAIN written => file[i] # written[i]

EditsShowWhereTheyAre == Readable(file) => FirstBreak(file) = FirstDifference

(***************************************************************************)
(* An entry that append returned stays where it was put, across the other  *)
(* threads, failed writes and restarts.                                    *)
(***************************************************************************)
ReturnedAreRecorded ==
  edits = 0 /\ Readable(file) =>
    \A entry \in returned :
      entry.seq + 1 \in DOMAIN file /\ file[entry.seq + 1] = entry

(***************************************************************************)
(* The lock is given back, whatever becomes of the write.                  *)
(***************************************************************************)
LockIsGivenBack == \A w \in Writers : lock = w ~> lock # w

(***************************************************************************)
(* The part of the file that verifies is an append-only log of payloads    *)
(* the ledger accepts.                                                     *)
(***************************************************************************)
TrustedLines == CHOOSE n \in 0 .. Len(file) :
                  Sound(file, n) /\ (n = Len(file) \/ ~LinksUp(file, n + 1))

Trusted == [i \in 1 .. TrustedLines |-> file[i].body]

Log == INSTANCE AppendOnly WITH log <- Trusted, Acceptable <- Bodies \ Personal

ImplementsAppendOnly == Log!Spec

=============================================================================
