------------------------- MODULE LedgerSafetyProofs -------------------------
(***************************************************************************)
(* That a ledger nobody edited verifies, and that what append returned     *)
(* stays on record; that what verifies of any ledger is an append-only     *)
(* log; and that edits show where they are.                                *)
(*                                                                         *)
(* The first two speak of files that can be read.  The invariant behind    *)
(* them may not: a file that a failed write left unreadable becomes        *)
(* readable again when a machine that goes down cuts the bad line off, so  *)
(* it says of every file that it is chained up to its first bad line.  The *)
(* other half ties the handle to the file: the thread in append, if there  *)
(* is one, is the only one, and between appends the handle stands at the   *)
(* tail of the file.                                                       *)
(***************************************************************************)
EXTENDS LedgerProofs

(***************************************************************************)
(* Whoever is inside append holds the lock of a live handle.               *)
(***************************************************************************)
Excluded == \A w \in Writers : pc[w] # "idle" => live /\ lock = w

Unedited == edits = 0

ChainedFile == Unedited => Chained(file)

HandleAtTail ==
  Unedited /\ live /\ Readable(file) /\ (\A w \in Writers : pc[w] # "written") =>
    seq = Len(file) /\ head = HeadHash(file)

(***************************************************************************)
(* What the thread in append has drafted, before and after it is written.  *)
(***************************************************************************)
DraftFromHandle ==
  \A w \in Writers : pc[w] = "writing" =>
    /\ draft[w].seq = seq
    /\ draft[w].prev = head
    /\ draft[w].hash = HashOf(draft[w].seq, draft[w].body, draft[w].prev)

DraftAtTail ==
  \A w \in Writers : Unedited /\ Readable(file) /\ pc[w] = "written" =>
    /\ file # << >>
    /\ draft[w] = LastOf(file)
    /\ seq + 1 = Len(file)

OnRecord(f, entry) == entry.seq + 1 \in DOMAIN f /\ f[entry.seq + 1] = entry

ReturnedOnRecord ==
  Unedited /\ Readable(file) => \A entry \in returned : OnRecord(file, entry)

LedgerInv ==
  /\ TypeOK
  /\ Excluded
  /\ ChainedFile
  /\ HandleAtTail
  /\ DraftFromHandle
  /\ DraftAtTail
  /\ ReturnedOnRecord

-----------------------------------------------------------------------------
(***************************************************************************)
(* Only one thread is inside append.                                       *)
(***************************************************************************)
LEMMA OneInside ==
  ASSUME Excluded, NEW w \in Writers, pc[w] # "idle"
  PROVE  \A v \in Writers : v # w => pc[v] = "idle"
BY DEF Excluded

(***************************************************************************)
(* The file is empty and nobody is inside append.                          *)
(***************************************************************************)
LEMMA InitInv == Init => LedgerInv
<1> SUFFICES ASSUME Init PROVE LedgerInv
  OBVIOUS
<1>1. TypeOK
  BY InitTyped
<1>2. Len(file) = 0
  BY EmptySeq DEF Init
<1>3. ChainedFile
  BY <1>2 DEF ChainedFile, Chained
<1> QED
  BY <1>1, <1>3 DEF LedgerInv, Init, Excluded, HandleAtTail, DraftFromHandle,
                    DraftAtTail, ReturnedOnRecord

(***************************************************************************)
(* A handle is opened at the tail of a chain that can be read.             *)
(***************************************************************************)
LEMMA OpenInv == LedgerInv /\ Open => LedgerInv'
<1> SUFFICES ASSUME LedgerInv, Open PROVE LedgerInv'
  OBVIOUS
<1>1. TypeOK'
  BY OpenTyped DEF LedgerInv
<1>2. \A w \in Writers : pc[w] = "idle"
  BY DEF LedgerInv, Open, Excluded, TypeOK
<1>3. HandleAtTail'
  <2> SUFFICES ASSUME Unedited, Readable(file)
               PROVE  NextSeq(file) = Len(file)
    BY DEF HandleAtTail, Open, Unedited
  <2> QED
    BY ReadableChainIsIntact DEF LedgerInv, TypeOK, ChainedFile
<1> QED
  BY <1>1, <1>2, <1>3 DEF LedgerInv, Open, Excluded, ChainedFile, DraftFromHandle,
                          DraftAtTail, ReturnedOnRecord, Unedited

(***************************************************************************)
(* The draft is taken from a handle at the tail, by the only thread        *)
(* inside.                                                                 *)
(***************************************************************************)
LEMMA BeginInv ==
  ASSUME LedgerInv, NEW w \in Writers, NEW b \in Bodies, Begin(w, b)
  PROVE  LedgerInv'
<1>1. TypeOK'
  BY BeginTyped DEF LedgerInv
<1>2. \A v \in Writers : pc[v] = "idle"
  BY LedgerAssumption DEF LedgerInv, Begin, Excluded
<1>3. pc' = [pc EXCEPT ![w] = "writing"] /\ pc \in [Writers -> {"idle", "writing", "written"}]
  BY DEF Begin, LedgerInv, TypeOK
<1>4. \A v \in Writers : pc'[v] # "idle" => v = w
  BY <1>2, <1>3
<1>5. Excluded'
  BY <1>4 DEF Begin, Excluded
<1>6. DraftFromHandle'
  <2>1. draft'[w] = Entry(seq, b, head) /\ seq' = seq /\ head' = head
    BY DEF Begin, LedgerInv, TypeOK
  <2>2. /\ Entry(seq, b, head).seq = seq
        /\ Entry(seq, b, head).body = b
        /\ Entry(seq, b, head).prev = head
        /\ Entry(seq, b, head).hash = HashOf(seq, b, head)
    BY EntryTyped DEF LedgerInv, TypeOK
  <2> QED
    BY <1>4, <2>1, <2>2 DEF DraftFromHandle
<1>7. HandleAtTail'
  BY <1>2 DEF LedgerInv, HandleAtTail, Begin, Unedited
<1>8. DraftAtTail'
  BY <1>2, <1>3 DEF DraftAtTail
<1> QED
  BY <1>1, <1>5, <1>6, <1>7, <1>8
  DEF LedgerInv, Begin, ChainedFile, ReturnedOnRecord, Unedited

(***************************************************************************)
(* The draft lands at the tail of the file it was drafted for.             *)
(***************************************************************************)
LEMMA WriteInv ==
  ASSUME LedgerInv, NEW w \in Writers, Write(w)
  PROVE  LedgerInv'
<1>1. TypeOK'
  BY HoldingTyped DEF LedgerInv, Holding
<1>2. pc[w] = "writing" /\ draft[w] \in Entries /\ file \in Seq(Lines)
  BY DEF Write, LedgerInv, TypeOK
<1>3. \A v \in Writers : v # w => pc[v] = "idle"
  BY <1>2, OneInside DEF LedgerInv
<1>4. pc' = [pc EXCEPT ![w] = "written"] /\ pc \in [Writers -> {"idle", "writing", "written"}]
  BY DEF Write, LedgerInv, TypeOK
<1>5. \A v \in Writers : pc'[v] = IF v = w THEN "written" ELSE "idle"
  BY <1>3, <1>4
<1>6. Excluded'
  BY <1>2, <1>5 DEF LedgerInv, Excluded, Write, handle
<1>7. HandleAtTail' /\ DraftFromHandle'
  BY <1>5 DEF HandleAtTail, DraftFromHandle
<1>8. ASSUME Unedited
      PROVE  /\ Chained(file')
             /\ Readable(file') =>
                  /\ Readable(file)
                  /\ seq = Len(file)
                  /\ LastOf(file') = draft[w]
                  /\ Len(file') = Len(file) + 1
                  /\ \A i \in 1 .. Len(file) : file'[i] = file[i]
  <2>1. Readable(file) => seq = Len(file) /\ head = HeadHash(file)
    BY <1>2, <1>3, <1>8 DEF LedgerInv, HandleAtTail, Excluded
  <2>2. Readable(file) => /\ draft[w].seq = Len(file)
                          /\ draft[w].prev = HeadHash(file)
                          /\ draft[w].hash = HashOf(draft[w].seq, draft[w].body, draft[w].prev)
    BY <1>2, <2>1 DEF LedgerInv, DraftFromHandle
  <2>3. file' = Store(file, draft[w]) /\ Chained(file)
    BY <1>8 DEF Write, LedgerInv, ChainedFile
  <2> QED
    BY <1>2, <2>1, <2>2, <2>3, StoredIsChained
<1>9. Unedited' = Unedited /\ returned' = returned /\ seq' = seq /\ draft' = draft
  BY DEF Write, Unedited, handle
<1>10. ChainedFile'
  BY <1>8, <1>9 DEF ChainedFile
<1>11. file' # << >>
  BY <1>2, StoreProperties DEF Write
<1>12. DraftAtTail'
  BY <1>5, <1>8, <1>9, <1>11 DEF DraftAtTail
<1>13. ReturnedOnRecord'
  <2> SUFFICES ASSUME Unedited, Readable(file'), NEW entry \in returned
               PROVE  OnRecord(file', entry)
    BY <1>9 DEF ReturnedOnRecord
  <2>1. OnRecord(file, entry)
    BY <1>8 DEF LedgerInv, ReturnedOnRecord
  <2>2. DOMAIN file = 1 .. Len(file) /\ DOMAIN file' = 1 .. Len(file') /\ Len(file) \in Nat
    BY <1>1, <1>2, LenProperties DEF TypeOK
  <2> QED
    BY <1>8, <2>1, <2>2 DEF OnRecord
<1> QED
  BY <1>1, <1>6, <1>7, <1>10, <1>12, <1>13 DEF LedgerInv

(***************************************************************************)
(* The handle moves to the entry just written, which is on record.         *)
(***************************************************************************)
LEMMA ReturnInv ==
  ASSUME LedgerInv, NEW w \in Writers, Return(w)
  PROVE  LedgerInv'
<1>1. TypeOK'
  BY HoldingTyped DEF LedgerInv, Holding
<1>2. pc[w] = "written" /\ file \in Seq(Lines) /\ file' = file
  BY DEF Return, LedgerInv, TypeOK
<1>3. \A v \in Writers : v # w => pc[v] = "idle"
  BY <1>2, OneInside DEF LedgerInv
<1>4. pc' = [pc EXCEPT ![w] = "idle"] /\ pc \in [Writers -> {"idle", "writing", "written"}]
  BY DEF Return, Released, LedgerInv, TypeOK
<1>5. \A v \in Writers : pc'[v] = "idle"
  BY <1>3, <1>4
<1>6. Excluded' /\ DraftFromHandle' /\ DraftAtTail'
  BY <1>5 DEF Excluded, DraftFromHandle, DraftAtTail
<1>7. Unedited' = Unedited /\ ChainedFile'
  BY DEF LedgerInv, Return, Unedited, ChainedFile
<1>8. ASSUME Unedited, Readable(file)
      PROVE  /\ file # << >> /\ draft[w] = LastOf(file) /\ seq + 1 = Len(file)
             /\ OnRecord(file, draft[w])
  <2>1. file # << >> /\ draft[w] = LastOf(file) /\ seq + 1 = Len(file)
    BY <1>2, <1>8 DEF LedgerInv, DraftAtTail
  <2>2. /\ Len(file) \in 1 .. Len(file) /\ DOMAIN file = 1 .. Len(file)
    BY <1>2, <2>1, EmptySeq, LenProperties
  <2>3. file[Len(file)].seq = Len(file) - 1
    BY <1>2, <1>8, <2>2, ReadableChainIsIntact DEF LedgerInv, ChainedFile
  <2> QED
    BY <2>1, <2>2, <2>3 DEF OnRecord, LastOf
<1>9. HandleAtTail'
  BY <1>7, <1>8 DEF HandleAtTail, Return, HeadHash, Unedited
<1>10. ReturnedOnRecord'
  BY <1>8 DEF LedgerInv, ReturnedOnRecord, Return, Unedited
<1> QED
  BY <1>1, <1>6, <1>7, <1>9, <1>10 DEF LedgerInv

(***************************************************************************)
(* A failed write leaves the file as it was or unreadable, and the handle  *)
(* alone.                                                                  *)
(***************************************************************************)
LEMMA FailInv ==
  ASSUME LedgerInv, NEW w \in Writers, Fail(w)
  PROVE  LedgerInv'
<1>1. TypeOK'
  BY HoldingTyped DEF LedgerInv, Holding
<1>2. pc[w] = "writing" /\ file \in Seq(Lines)
  BY DEF Fail, LedgerInv, TypeOK
<1>3. \A v \in Writers : v # w => pc[v] = "idle"
  BY <1>2, OneInside DEF LedgerInv
<1>4. pc' = [pc EXCEPT ![w] = "idle"] /\ pc \in [Writers -> {"idle", "writing", "written"}]
  BY DEF Fail, Released, LedgerInv, TypeOK
<1>5. \A v \in Writers : pc'[v] = "idle" /\ pc[v] # "written"
  BY <1>2, <1>3, <1>4
<1>6. Excluded' /\ DraftFromHandle' /\ DraftAtTail'
  BY <1>5 DEF Excluded, DraftFromHandle, DraftAtTail
<1>7. /\ Unedited' = Unedited
      /\ live' = live /\ seq' = seq /\ head' = head /\ returned' = returned
  BY DEF Fail, Unedited
<1>8. CASE file' = file
  BY <1>1, <1>5, <1>6, <1>7, <1>8
  DEF LedgerInv, ChainedFile, HandleAtTail, ReturnedOnRecord, Unedited
<1>9. CASE file' = StorePiece(file)
  <2>1. Unedited => Chained(file') /\ ~Readable(file')
    BY <1>2, <1>9, PieceIsChained DEF LedgerInv, ChainedFile
  <2> QED
    BY <1>1, <1>6, <1>7, <2>1
    DEF LedgerInv, ChainedFile, HandleAtTail, ReturnedOnRecord
<1> QED
  BY <1>8, <1>9 DEF Fail

(***************************************************************************)
(* What is left of the file is a chain, and of the returned entries those  *)
(* are kept that it holds.                                                 *)
(***************************************************************************)
LEMMA PowerLossInv ==
  ASSUME LedgerInv, PowerLoss
  PROVE  LedgerInv'
<1>1. TypeOK'
  BY NextTyped DEF LedgerInv, Next
<1>2. \A w \in Writers : pc'[w] = "idle"
  BY DEF PowerLoss, ProcessGone
<1>3. live' = FALSE /\ Unedited' = Unedited
  BY DEF PowerLoss, ProcessGone, Unedited
<1>4. Excluded' /\ HandleAtTail' /\ DraftFromHandle' /\ DraftAtTail'
  BY <1>2, <1>3 DEF Excluded, HandleAtTail, DraftFromHandle, DraftAtTail
<1>5. PICK n \in 0 .. Len(file) - 1 :
        /\ n \in Nat /\ n <= Len(file)
        /\ file' \in {SubSeq(file, 1, n), Append(SubSeq(file, 1, n), Torn)}
        /\ SubSeq(file, 1, n) \in Seq(Lines)
        /\ returned' = {l \in returned : \E i \in 1 .. n : file[i] = l}
  BY LeftOver DEF LedgerInv
<1> DEFINE kept == SubSeq(file, 1, n)
<1>6. /\ kept \in Seq(Lines) /\ Len(kept) = n /\ DOMAIN kept = 1 .. n
      /\ \A i \in 1 .. n : kept[i] = file[i]
  BY <1>5, CutProperties, LenProperties DEF LedgerInv, TypeOK
<1>7. Unedited => Chained(kept)
  BY <1>5, CutIsChained DEF LedgerInv, TypeOK, ChainedFile
<1> HIDE DEF kept
<1>8. CASE file' = kept
  <2>1. ASSUME Unedited, Readable(kept), NEW entry \in returned'
        PROVE  OnRecord(kept, entry)
    <3>1. PICK i \in 1 .. n : kept[i] = entry
      BY <1>5, <1>6, <2>1
    <3>2. kept[i].seq = i - 1
      BY <1>6, <1>7, <2>1, ReadableChainIsIntact
    <3> QED
      BY <1>5, <1>6, <3>1, <3>2 DEF OnRecord
  <2> QED
    BY <1>1, <1>3, <1>4, <1>7, <1>8, <2>1 DEF LedgerInv, ChainedFile, ReturnedOnRecord
<1>9. CASE file' = Append(kept, Torn)
  <2>1. /\ file' \in Seq(Lines) /\ Len(file') = n + 1 /\ file'[n + 1] = Torn
        /\ \A i \in 1 .. n : file'[i] = kept[i]
    BY <1>6, <1>9, AppendProperties DEF Lines
  <2>2. ~file'[n + 1].readable
    BY <2>1, EntriesReadable
  <2>3. n < Len(file') /\ n <= Len(kept)
    BY <1>5, <1>6, <2>1
  <2>4. Unedited => Chained(file') /\ ~Readable(file')
    BY <1>5, <1>6, <1>7, <2>1, <2>2, <2>3, GrownUnreadable
  <2> QED
    BY <1>1, <1>3, <1>4, <2>4 DEF LedgerInv, ChainedFile, ReturnedOnRecord
<1> QED
  BY <1>5, <1>8, <1>9 DEF kept

(***************************************************************************)
(* Every step keeps the invariant.                                         *)
(***************************************************************************)
LEMMA NextInv == LedgerInv /\ [Next]_vars => LedgerInv'
<1> SUFFICES ASSUME LedgerInv, [Next]_vars PROVE LedgerInv'
  OBVIOUS
<1>0. TypeOK'
  BY NextTyped DEF LedgerInv
<1>1. CASE Open
  BY <1>1, OpenInv
<1>2. ASSUME NEW w \in Writers, Appending(w) PROVE LedgerInv'
  BY <1>2, BeginInv, WriteInv, ReturnInv, FailInv DEF Appending, Holding
<1>3. CASE Exit
  BY <1>0, <1>3
  DEF Exit, ProcessGone, LedgerInv, Excluded, ChainedFile, HandleAtTail,
      DraftFromHandle, DraftAtTail, ReturnedOnRecord, Unedited
<1>4. CASE PowerLoss
  BY <1>4, PowerLossInv
<1>5. CASE Unlink
  <2>1. Chained(file')
    BY <1>5, EmptySeq DEF Unlink, Chained
  <2>2. \A w \in Writers : pc'[w] = "idle"
    BY <1>5 DEF Unlink, LedgerInv, Excluded
  <2> QED
    BY <1>0, <1>5, <2>1, <2>2
    DEF Unlink, LedgerInv, Excluded, ChainedFile, HandleAtTail,
        DraftFromHandle, DraftAtTail, ReturnedOnRecord, handle
<1>6. CASE Editing
  <2>1. Edit
    BY <1>6 DEF Editing, Delete, Rewrite
  <2>2. ~Unedited'
    BY <2>1 DEF Edit, Unedited, LedgerInv, TypeOK
  <2>3. \A w \in Writers : pc'[w] = "idle"
    BY <2>1 DEF Edit, LedgerInv, Excluded
  <2> QED
    BY <1>0, <2>2, <2>3
    DEF LedgerInv, Excluded, ChainedFile, HandleAtTail, DraftFromHandle,
        DraftAtTail, ReturnedOnRecord
<1>7. CASE UNCHANGED vars
  BY <1>0, <1>7
  DEF vars, LedgerInv, Excluded, ChainedFile, HandleAtTail, DraftFromHandle,
      DraftAtTail, ReturnedOnRecord, Unedited
<1> QED
  BY <1>1, <1>2, <1>3, <1>4, <1>5, <1>6, <1>7 DEF Next

(***************************************************************************)
(* The invariant holds of every behaviour.                                 *)
(***************************************************************************)
LEMMA InvHolds == Spec => []LedgerInv
<1> QED
  BY InitInv, NextInv, PTL DEF Spec

-----------------------------------------------------------------------------
(***************************************************************************)
(* A ledger nobody edited verifies, whatever its threads, failed writes,   *)
(* restarts and machines that go down have done to it, as long as it can   *)
(* be read at all.                                                         *)
(***************************************************************************)
THEOREM LedgerVerifies == Spec => []IntactUnlessEdited
<1>1. LedgerInv => IntactUnlessEdited
  BY ReadableChainIsIntact
  DEF LedgerInv, TypeOK, ChainedFile, Unedited, IntactUnlessEdited
<1> QED
  BY <1>1, InvHolds, PTL

(***************************************************************************)
(* An entry that append returned stays at its place in the file.           *)
(***************************************************************************)
THEOREM ReturnedStay == Spec => []ReturnedAreRecorded
<1>1. LedgerInv => ReturnedAreRecorded
  BY DEF LedgerInv, ReturnedOnRecord, OnRecord, Unedited, ReturnedAreRecorded
<1> QED
  BY <1>1, InvHolds, PTL

-----------------------------------------------------------------------------
(***************************************************************************)
(* That the part of the file that verifies is an append-only log.          *)
(*                                                                         *)
(* A step that touches the file leaves the first lines of it alone, so the *)
(* part that verifies grows by the line just written, is cut short, or     *)
(* stays.  It could also grow by what came after a line that is deleted;   *)
(* that it does not is because the numbers of the lines never fall behind  *)
(* their places.                                                           *)
(***************************************************************************)
TrustedTo(f, n) ==
  /\ n \in 0 .. Len(f)
  /\ Sound(f, n)
  /\ n = Len(f) \/ ~LinksUp(f, n + 1)

NumbersAhead(f) == \A i \in 1 .. Len(f) : f[i].readable => f[i].seq >= i - 1

(***************************************************************************)
(* The place of the next line: that of a piece of one, which it will share.*)
(***************************************************************************)
Room(f) == IF f # << >> /\ LastOf(f) = Torn THEN Len(f) - 1 ELSE Len(f)

HandleAhead ==
  live => IF \E w \in Writers : pc[w] = "written" THEN seq + 1 >= Len(file)
          ELSE seq >= Room(file)

DraftsAllowed ==
  \A w \in Writers : pc[w] # "idle" => draft[w].body \in Bodies \ Personal

LogInv ==
  /\ LedgerInv
  /\ NumbersAhead(file)
  /\ HandleAhead
  /\ DraftsAllowed
  /\ \E n \in Nat : TrustedTo(file, n)

(***************************************************************************)
(* A step by which the trusted part, of n lines, comes to have k.          *)
(***************************************************************************)
Moves(n, k) ==
  /\ TrustedTo(file, n)
  /\ TrustedTo(file', k)
  /\ \A i \in 1 .. k : i <= n => file'[i] = file[i]
  /\ \/ k <= n
     \/ /\ k = n + 1 /\ n = Len(file)
        /\ file'[k].body \in Bodies \ Personal
        /\ \E w \in Writers : Write(w)

-----------------------------------------------------------------------------
(***************************************************************************)
(* No file has two trusted parts.                                          *)
(***************************************************************************)
LEMMA TrustedIsUnique ==
  ASSUME NEW f \in Seq(Lines), NEW n, NEW m, TrustedTo(f, n), TrustedTo(f, m)
  PROVE  n = m
<1>1. Len(f) \in Nat
  BY LenProperties
<1>2. ASSUME NEW i, NEW j, TrustedTo(f, i), TrustedTo(f, j), i < j PROVE FALSE
  <2>1. i + 1 \in 1 .. j /\ i # Len(f)
    BY <1>1, <1>2 DEF TrustedTo
  <2> QED
    BY <1>2, <2>1 DEF TrustedTo, Sound
<1>3. n \in Int /\ m \in Int
  BY <1>1 DEF TrustedTo
<1>4. ~(n < m) /\ ~(m < n)
  BY <1>2
<1> QED
  BY <1>3, <1>4

(***************************************************************************)
(* A file that agrees with another on its first k trusted lines, and whose *)
(* next line does not link up, is trusted to k.                            *)
(***************************************************************************)
LEMMA TrustedFollows ==
  ASSUME NEW f \in Seq(Lines), NEW g \in Seq(Lines), NEW n, TrustedTo(f, n),
         NEW k \in Nat, k <= n, k <= Len(g), \A i \in 1 .. k : g[i] = f[i],
         k = Len(g) \/ ~LinksUp(g, k + 1)
  PROVE  TrustedTo(g, k)
<1>1. Len(f) \in Nat /\ Len(g) \in Nat /\ n \in Nat /\ n <= Len(f)
  BY LenProperties DEF TrustedTo
<1>2. ASSUME NEW i \in 1 .. k PROVE LinksUp(g, i)
  <2>1. /\ i \in Nat \ {0} /\ i \in 1 .. n /\ g[i] = f[i]
        /\ i > 1 => g[i - 1] = f[i - 1]
    BY <1>1, <1>2
  <2>2. LinksUp(f, i)
    BY <2>1 DEF TrustedTo, Sound
  <2> QED
    BY <2>1, <2>2, LinksUpIsLocal
<1> QED
  BY <1>1, <1>2 DEF TrustedTo, Sound

(***************************************************************************)
(* A line is no better trusted when lines after it change.                 *)
(***************************************************************************)
LEMMA StillBroken ==
  ASSUME NEW f \in Seq(Lines), NEW g \in Seq(Lines), NEW n \in Nat,
         n + 1 <= Len(f), n + 1 <= Len(g), \A i \in 1 .. n + 1 : g[i] = f[i],
         ~LinksUp(f, n + 1)
  PROVE  ~LinksUp(g, n + 1)
<1>1. /\ n + 1 \in Nat \ {0} /\ g[n + 1] = f[n + 1]
      /\ n + 1 > 1 => g[(n + 1) - 1] = f[(n + 1) - 1]
  OBVIOUS
<1> QED
  BY <1>1, LinksUpIsLocal

(***************************************************************************)
(* The trusted part is as long as TrustedLines says.                       *)
(***************************************************************************)
LEMMA TrustedLength ==
  ASSUME NEW f \in Seq(Lines), NEW n, TrustedTo(f, n)
  PROVE  (CHOOSE m \in 0 .. Len(f) :
            Sound(f, m) /\ (m = Len(f) \/ ~LinksUp(f, m + 1))) = n
<1>1. \A m \in 0 .. Len(f) :
        Sound(f, m) /\ (m = Len(f) \/ ~LinksUp(f, m + 1)) <=> m = n
  BY TrustedIsUnique DEF TrustedTo
<1>2. n \in 0 .. Len(f)
  BY DEF TrustedTo
<1> QED
  BY <1>1, <1>2

(***************************************************************************)
(* It is a log of the bodies of that many lines.                           *)
(***************************************************************************)
LEMMA TrustedBodies ==
  ASSUME NEW f \in Seq(Lines), NEW n, TrustedTo(f, n)
  PROVE  /\ n \in Nat
         /\ [i \in 1 .. n |-> f[i].body] \in Seq(Bodies)
         /\ Len([i \in 1 .. n |-> f[i].body]) = n
<1>1. n \in Nat /\ n <= Len(f) /\ Len(f) \in Nat
  BY LenProperties DEF TrustedTo
<1>2. ASSUME NEW i \in 1 .. n PROVE f[i].body \in Bodies
  <2>1. f[i] \in Lines /\ f[i].readable
    BY <1>1, ElementOfSeq DEF TrustedTo, Sound, LinksUp
  <2> QED
    BY <2>1, EntriesReadable DEF Entries
<1>3. [i \in 1 .. n |-> f[i].body] \in [1 .. n -> Bodies]
  BY <1>2
<1>4. [i \in 1 .. n |-> f[i].body] \in Seq(Bodies)
  BY <1>1, <1>3, SeqDef
<1> QED
  BY <1>1, <1>4, LenProperties

(***************************************************************************)
(* Such a step is one of the abstract log, or leaves it alone.             *)
(***************************************************************************)
LEMMA MoveIsALogStep ==
  ASSUME file \in Seq(Lines), file' \in Seq(Lines), NEW n, NEW k, Moves(n, k)
  PROVE  [Log!Next]_Trusted
<1> DEFINE old == [i \in 1 .. n |-> file[i].body]
           new == [i \in 1 .. k |-> file'[i].body]
<1>1. Trusted = old /\ Trusted' = new
  BY TrustedLength DEF Moves, Trusted, TrustedLines
<1>2. /\ n \in Nat /\ old \in Seq(Bodies) /\ Len(old) = n
      /\ k \in Nat /\ new \in Seq(Bodies) /\ Len(new) = k
  BY TrustedBodies DEF Moves
<1>3. \A i \in 1 .. k : i <= n => new[i] = old[i]
  BY <1>2 DEF Moves
<1>4. k = n + 1 => new[k] = file'[k].body
  BY <1>2
<1> HIDE DEF old, new
<1>5. CASE k < n
  <2>1. /\ SubSeq(old, 1, k) \in Seq(Bodies) /\ Len(SubSeq(old, 1, k)) = k
        /\ \A i \in 1 .. k : SubSeq(old, 1, k)[i] = old[i]
    BY <1>2, <1>5, CutProperties
  <2>2. \A i \in 1 .. k : new[i] = old[i]
    BY <1>2, <1>3, <1>5
  <2>3. new = SubSeq(old, 1, k)
    BY <1>2, <2>1, <2>2, SeqEqual
  <2>4. k \in 0 .. Len(old) - 1
    BY <1>2, <1>5
  <2> QED
    BY <1>1, <2>3, <2>4 DEF Log!Next, Log!CutShort
<1>6. CASE k = n
  <2>1. \A i \in 1 .. k : new[i] = old[i]
    BY <1>2, <1>3, <1>6
  <2>2. new = old
    BY <1>2, <1>6, <2>1, SeqEqual
  <2> QED
    BY <1>1, <2>2
<1>7. CASE k = n + 1 /\ file'[k].body \in Bodies \ Personal
  <2> DEFINE last == file'[k].body
  <2>1. /\ Append(old, last) \in Seq(Bodies) /\ Len(Append(old, last)) = n + 1
        /\ \A i \in 1 .. n : Append(old, last)[i] = old[i]
        /\ Append(old, last)[n + 1] = last
    BY <1>2, <1>7, AppendProperties
  <2>2. \A i \in 1 .. k : new[i] = Append(old, last)[i]
    BY <1>2, <1>3, <1>4, <1>7, <2>1
  <2>3. new = Append(old, last)
    BY <1>2, <1>7, <2>1, <2>2, SeqEqual
  <2> QED
    BY <1>1, <1>7, <2>3 DEF Log!Next, Log!Add
<1> QED
  BY <1>2, <1>5, <1>6, <1>7 DEF Moves

-----------------------------------------------------------------------------
(***************************************************************************)
(* A file that keeps m lines of another and goes on with a line that does  *)
(* not link up, or not at all, is trusted no further than either.          *)
(***************************************************************************)
LEMMA KeptIsTrusted ==
  ASSUME NEW f \in Seq(Lines), NEW g \in Seq(Lines), NEW n, TrustedTo(f, n),
         NEW m \in Nat, m <= Len(f), m <= Len(g), \A i \in 1 .. m : g[i] = f[i],
         m = Len(g) \/ ~LinksUp(g, m + 1)
  PROVE  \E k \in Nat : k <= n /\ k <= m /\ TrustedTo(g, k)
<1>1. Len(f) \in Nat /\ Len(g) \in Nat /\ n \in Nat /\ n <= Len(f)
  BY LenProperties DEF TrustedTo
<1>2. CASE n < m
  <2>1. /\ n + 1 <= Len(f) /\ n + 1 <= Len(g) /\ ~LinksUp(f, n + 1)
        /\ \A i \in 1 .. n + 1 : g[i] = f[i]
    BY <1>1, <1>2 DEF TrustedTo
  <2>2. ~LinksUp(g, n + 1)
    BY <1>1, <2>1, StillBroken
  <2>3. n <= Len(g) /\ \A i \in 1 .. n : g[i] = f[i]
    BY <1>1, <1>2
  <2>4. TrustedTo(g, n)
    BY <1>1, <2>2, <2>3, TrustedFollows
  <2> QED
    BY <1>1, <1>2, <2>4
<1>3. CASE m <= n
  <2>1. TrustedTo(g, m)
    BY <1>3, TrustedFollows
  <2> QED
    BY <1>3, <2>1
<1> QED
  BY <1>1, <1>2, <1>3

(***************************************************************************)
(* So a step that keeps m lines of the file cuts the log short or leaves   *)
(* it alone.                                                               *)
(***************************************************************************)
LEMMA KeepingMoves ==
  ASSUME LogInv, file' \in Seq(Lines),
         NEW m \in Nat, m <= Len(file), m <= Len(file'),
         \A i \in 1 .. m : file'[i] = file[i],
         m = Len(file') \/ ~LinksUp(file', m + 1)
  PROVE  \E n, k : Moves(n, k)
<1>1. PICK n \in Nat : TrustedTo(file, n)
  BY DEF LogInv
<1>2. file \in Seq(Lines)
  BY DEF LogInv, LedgerInv, TypeOK
<1>3. PICK k \in Nat : k <= n /\ k <= m /\ TrustedTo(file', k)
  BY <1>1, <1>2, KeptIsTrusted
<1>4. \A i \in 1 .. k : file'[i] = file[i]
  BY <1>3
<1> QED
  BY <1>1, <1>3, <1>4 DEF Moves

(***************************************************************************)
(* A step that leaves the file alone leaves the log alone.                 *)
(***************************************************************************)
LEMMA SameFileMoves ==
  ASSUME LogInv, file' = file
  PROVE  NumbersAhead(file') /\ \E n, k : Moves(n, k)
<1>1. PICK n \in Nat : TrustedTo(file, n)
  BY DEF LogInv
<1>2. \A i \in 1 .. n : file'[i] = file[i]
  OBVIOUS
<1>3. Moves(n, n)
  BY <1>1, <1>2 DEF Moves
<1> QED
  BY <1>3 DEF LogInv

(***************************************************************************)
(* A handle is opened after the number of the last line.                   *)
(***************************************************************************)
LEMMA OpenIsAhead ==
  ASSUME LogInv, Open
  PROVE  HandleAhead' /\ DraftsAllowed'
<1>1. \A w \in Writers : pc[w] = "idle" /\ pc'[w] = "idle"
  BY DEF LogInv, LedgerInv, Open, Excluded, TypeOK
<1>2. file \in Seq(Lines) /\ Readable(file) /\ file' = file /\ seq' = NextSeq(file)
  BY DEF LogInv, LedgerInv, TypeOK, Open
<1>3. Len(file) \in Nat /\ DOMAIN file = 1 .. Len(file)
  BY <1>2, LenProperties
<1>4. NextSeq(file) \in Nat /\ NextSeq(file) >= Len(file)
  <2>1. CASE file = << >>
    BY <2>1, EmptySeq DEF NextSeq
  <2>2. CASE file # << >>
    <3>1. Len(file) \in 1 .. Len(file)
      BY <1>2, <1>3, <2>2, EmptySeq
    <3>2. LastOf(file).seq >= Len(file) - 1
      BY <1>2, <1>3, <3>1 DEF LogInv, NumbersAhead, Readable, LastOf
    <3>3. NextSeq(file) \in Nat /\ NextSeq(file) = LastOf(file).seq + 1
      BY <1>2, <2>2, ResumeTyped DEF NextSeq
    <3>4. LastOf(file).seq \in Nat
      <4>1. LastOf(file) \in Lines /\ LastOf(file).readable
        BY <1>2, <1>3, <3>1, ElementOfSeq DEF LastOf, Readable
      <4> QED
        BY <4>1, EntriesReadable DEF Entries
    <3> QED
      BY <1>3, <3>2, <3>3, <3>4
  <2> QED
    BY <2>1, <2>2
<1>5. Room(file) <= Len(file) /\ Room(file) \in Int
  BY <1>3 DEF Room
<1>6. seq' >= Room(file')
  BY <1>2, <1>3, <1>4, <1>5
<1> QED
  BY <1>1, <1>6 DEF HandleAhead, DraftsAllowed

(***************************************************************************)
(* What is drafted passed the scan.                                        *)
(***************************************************************************)
LEMMA BeginIsAllowed ==
  ASSUME LogInv, NEW w \in Writers, NEW b \in Bodies, Begin(w, b)
  PROVE  HandleAhead' /\ DraftsAllowed'
<1>1. \A v \in Writers : pc[v] = "idle"
  BY LedgerAssumption DEF LogInv, LedgerInv, Begin, Excluded
<1>2. /\ pc' = [pc EXCEPT ![w] = "writing"]
      /\ draft' = [draft EXCEPT ![w] = Entry(seq, b, head)]
      /\ \A v \in Writers : pc'[v] = IF v = w THEN "writing" ELSE "idle"
  BY <1>1 DEF Begin, LogInv, LedgerInv, TypeOK
<1>3. draft'[w].body = b /\ b \in Bodies \ Personal
  BY <1>2, EntryTyped DEF Begin, LogInv, LedgerInv, TypeOK
<1>4. HandleAhead'
  BY <1>1, <1>2 DEF LogInv, HandleAhead, Begin, Room
<1> QED
  BY <1>2, <1>3, <1>4 DEF DraftsAllowed

(***************************************************************************)
(* A write adds an allowed body to the log, if the file was trusted so far *)
(* and the line links up, and nothing otherwise.                           *)
(***************************************************************************)
LEMMA WriteMoves ==
  ASSUME LogInv, NEW w \in Writers, Write(w), file' \in Seq(Lines)
  PROVE  /\ NumbersAhead(file') /\ HandleAhead' /\ DraftsAllowed'
         /\ \E n, k : Moves(n, k)
<1>1. /\ pc[w] = "writing" /\ live /\ file \in Seq(Lines) /\ seq \in Nat
      /\ draft[w] \in Entries /\ draft[w].seq = seq
      /\ file' = Store(file, draft[w])
  BY DEF LogInv, LedgerInv, Write, TypeOK, Excluded, DraftFromHandle
<1>2. \A v \in Writers : v # w => pc[v] = "idle"
  BY <1>1, OneInside DEF LogInv, LedgerInv
<1>3. /\ pc' = [pc EXCEPT ![w] = "written"] /\ live' = live /\ seq' = seq
      /\ draft' = draft
      /\ \A v \in Writers : pc'[v] = IF v = w THEN "written" ELSE "idle"
  BY <1>2 DEF Write, handle, LogInv, LedgerInv, TypeOK
<1>4. /\ Len(file) \in Nat /\ Len(file') \in Nat
      /\ file # << >> => Len(file) >= 1
  BY <1>1, LenProperties, EmptySeq
<1>5. seq >= Room(file)
  BY <1>1, <1>2 DEF LogInv, HandleAhead
<1>6. DraftsAllowed'
  BY <1>1, <1>3 DEF LogInv, DraftsAllowed
<1>7. CASE /\ file # << >> /\ file[Len(file)] = Torn
           /\ Len(file') = Len(file)
           /\ \A i \in 1 .. Len(file) - 1 : file'[i] = file[i]
           /\ file'[Len(file)] = Garbled
  <2>1. ~file'[Len(file)].readable /\ Room(file) = Len(file) - 1
    BY <1>7, EntriesReadable DEF Room, LastOf
  <2>2. NumbersAhead(file')
    BY <1>4, <1>7, <2>1 DEF LogInv, NumbersAhead
  <2>3. seq + 1 >= Len(file')
    BY <1>1, <1>4, <1>5, <1>7, <2>1
  <2>4. HandleAhead'
    BY <1>3, <2>3 DEF HandleAhead
  <2>5. /\ Len(file) - 1 \in Nat /\ Len(file) - 1 <= Len(file)
        /\ Len(file) - 1 <= Len(file') /\ (Len(file) - 1) + 1 = Len(file)
    BY <1>4, <1>7
  <2>6. ~LinksUp(file', (Len(file) - 1) + 1)
    BY <2>1, <2>5 DEF LinksUp
  <2> QED
    BY <1>6, <1>7, <2>2, <2>4, <2>5, <2>6, KeepingMoves
<1>8. CASE /\ Len(file') = Len(file) + 1
           /\ \A i \in 1 .. Len(file) : file'[i] = file[i]
           /\ file'[Len(file) + 1] = draft[w]
           /\ ~(file # << >> /\ LastOf(file) = Torn)
  <2>1. Room(file) = Len(file)
    BY <1>8 DEF Room
  <2>2. NumbersAhead(file')
    BY <1>1, <1>4, <1>5, <1>8, <2>1 DEF LogInv, NumbersAhead
  <2>3. seq + 1 >= Len(file')
    BY <1>1, <1>4, <1>5, <1>8, <2>1
  <2>4. HandleAhead'
    BY <1>3, <2>3 DEF HandleAhead
  <2>5. PICK n \in Nat : TrustedTo(file, n)
    BY DEF LogInv
  <2>6. CASE n = Len(file) /\ LinksUp(file', Len(file) + 1)
    <3>1. TrustedTo(file', n + 1)
      <4>1. \A i \in 1 .. n : LinksUp(file', i)
        <5>1. ASSUME NEW i \in 1 .. n PROVE LinksUp(file', i)
          <6>1. /\ i \in Nat \ {0} /\ file'[i] = file[i] /\ LinksUp(file, i)
                /\ i > 1 => file'[i - 1] = file[i - 1]
            BY <1>4, <1>8, <2>5, <2>6 DEF TrustedTo, Sound
          <6> QED
            BY <6>1, LinksUpIsLocal
        <5> QED
          BY <5>1
      <4>2. \A i \in 1 .. n + 1 : LinksUp(file', i)
        BY <2>5, <2>6, <4>1
      <4> QED
        BY <1>4, <1>8, <2>5, <2>6, <4>2 DEF TrustedTo, Sound
    <3>2. \A i \in 1 .. n : file'[i] = file[i]
      BY <1>8, <2>6
    <3>3. file'[n + 1].body \in Bodies \ Personal
      BY <1>1, <1>8, <2>6 DEF LogInv, DraftsAllowed
    <3>4. Moves(n, n + 1)
      BY <2>5, <2>6, <3>1, <3>2, <3>3 DEF Moves
    <3> QED
      BY <1>6, <2>2, <2>4, <3>4
  <2>7. CASE ~LinksUp(file', Len(file) + 1)
    BY <1>4, <1>6, <1>8, <2>2, <2>4, <2>7, KeepingMoves
  <2>8. CASE n # Len(file)
    <3>1. /\ n < Len(file) /\ ~LinksUp(file, n + 1)
          /\ n + 1 <= Len(file) /\ n + 1 <= Len(file')
          /\ \A i \in 1 .. n + 1 : file'[i] = file[i]
      BY <1>4, <1>8, <2>5, <2>8 DEF TrustedTo
    <3>2. ~LinksUp(file', n + 1)
      BY <1>1, <3>1, StillBroken
    <3>3. n <= Len(file) /\ n <= Len(file') /\ \A i \in 1 .. n : file'[i] = file[i]
      BY <1>4, <1>8, <3>1
    <3> QED
      BY <1>6, <2>2, <2>4, <3>2, <3>3, KeepingMoves
  <2> QED
    BY <2>6, <2>7, <2>8
<1>9. CASE file # << >> /\ LastOf(file) = Torn
  <2>1. file' = [file EXCEPT ![Len(file)] = Garbled]
    BY <1>1, <1>9 DEF Store
  <2>2. Len(file) \in 1 .. Len(file) /\ Garbled \in Lines
    BY <1>4, <1>9 DEF Lines
  <2>3. /\ Len(file') = Len(file)
        /\ \A i \in 1 .. Len(file) :
             file'[i] = IF i = Len(file) THEN Garbled ELSE file[i]
    BY <1>1, <2>1, <2>2, ExceptSeq
  <2> QED
    BY <1>4, <1>7, <1>9, <2>2, <2>3 DEF LastOf
<1>10. CASE ~(file # << >> /\ LastOf(file) = Torn)
  <2>1. file' = Append(file, draft[w])
    BY <1>1, <1>10 DEF Store
  <2>2. draft[w] \in Lines
    BY <1>1, EntriesReadable
  <2> QED
    BY <1>1, <1>8, <1>10, <2>1, <2>2, AppendProperties
<1> QED
  BY <1>9, <1>10

(***************************************************************************)
(* The handle that moves to the next number is ahead of the file again.    *)
(***************************************************************************)
LEMMA ReturnIsAhead ==
  ASSUME LogInv, NEW w \in Writers, Return(w)
  PROVE  HandleAhead' /\ DraftsAllowed'
<1>1. pc[w] = "written" /\ file' = file /\ seq' = seq + 1 /\ live /\ seq \in Nat
  BY DEF Return, LogInv, LedgerInv, Excluded, TypeOK
<1>2. \A v \in Writers : v # w => pc[v] = "idle"
  BY <1>1, OneInside DEF LogInv, LedgerInv
<1>3. \A v \in Writers : pc'[v] = "idle"
  BY <1>2 DEF Return, Released, LogInv, LedgerInv, TypeOK
<1>4. seq + 1 >= Len(file)
  BY <1>1 DEF LogInv, HandleAhead
<1>5. Len(file) \in Nat
  BY LenProperties DEF LogInv, LedgerInv, TypeOK
<1>6. seq' >= Room(file')
  BY <1>1, <1>4, <1>5 DEF Room
<1> QED
  BY <1>3, <1>6 DEF HandleAhead, DraftsAllowed

(***************************************************************************)
(* A failed write adds nothing, or a line nobody trusts.                   *)
(***************************************************************************)
LEMMA FailMoves ==
  ASSUME LogInv, NEW w \in Writers, Fail(w), file' \in Seq(Lines)
  PROVE  /\ NumbersAhead(file') /\ HandleAhead' /\ DraftsAllowed'
         /\ \E n, k : Moves(n, k)
<1>1. /\ pc[w] = "writing" /\ live /\ live' = live /\ seq' = seq
      /\ file \in Seq(Lines) /\ seq \in Nat
  BY DEF Fail, LogInv, LedgerInv, Excluded, TypeOK
<1>2. \A v \in Writers : v # w => pc[v] = "idle"
  BY <1>1, OneInside DEF LogInv, LedgerInv
<1>3. \A v \in Writers : pc'[v] = "idle"
  BY <1>2 DEF Fail, Released, LogInv, LedgerInv, TypeOK
<1>4. seq >= Room(file)
  BY <1>1, <1>2 DEF LogInv, HandleAhead
<1>5. DraftsAllowed'
  BY <1>3 DEF DraftsAllowed
<1>6. CASE file' = file
  <2>1. HandleAhead'
    BY <1>1, <1>3, <1>4, <1>6 DEF HandleAhead, Room
  <2> QED
    BY <1>5, <1>6, <2>1, SameFileMoves
<1>7. CASE file' # file
  <2>1. /\ ~(file # << >> /\ LastOf(file) = Torn)
        /\ file' = Append(file, Torn)
    BY <1>7 DEF Fail, StorePiece
  <2>2. Torn \in Lines /\ Len(file) \in Nat
    BY <1>1, LenProperties DEF Lines
  <2>3. /\ file' # << >> /\ Len(file') = Len(file) + 1
        /\ file'[Len(file) + 1] = Torn
        /\ \A i \in 1 .. Len(file) : file'[i] = file[i]
    BY <1>1, <2>1, <2>2, AppendProperties
  <2>4. ~file'[Len(file) + 1].readable
    BY <2>3, EntriesReadable
  <2>5. NumbersAhead(file')
    BY <2>2, <2>3, <2>4 DEF LogInv, NumbersAhead
  <2>6. Room(file) = Len(file) /\ Room(file') = Len(file)
    BY <2>1, <2>2, <2>3 DEF Room, LastOf
  <2>7. HandleAhead'
    BY <1>1, <1>3, <1>4, <2>6 DEF HandleAhead, Room
  <2>8. ~LinksUp(file', Len(file) + 1)
    BY <2>4 DEF LinksUp
  <2> QED
    BY <1>5, <2>2, <2>3, <2>5, <2>7, <2>8, KeepingMoves
<1> QED
  BY <1>6, <1>7

-----------------------------------------------------------------------------
(***************************************************************************)
(* Without a process there is no handle and no draft.                      *)
(***************************************************************************)
LEMMA NobodyAhead ==
  ASSUME ~live', \A w \in Writers : pc'[w] = "idle"
  PROVE  HandleAhead' /\ DraftsAllowed'
BY DEF HandleAhead, DraftsAllowed

(***************************************************************************)
(* A machine that goes down cuts the log short.                            *)
(***************************************************************************)
LEMMA PowerLossMoves ==
  ASSUME LogInv, PowerLoss
  PROVE  NumbersAhead(file') /\ \E n, k : Moves(n, k)
<1>1. PICK m \in 0 .. Len(file) - 1 :
        /\ m \in Nat /\ m <= Len(file)
        /\ file' \in {SubSeq(file, 1, m), Append(SubSeq(file, 1, m), Torn)}
        /\ SubSeq(file, 1, m) \in Seq(Lines)
        /\ file' \in Seq(Lines)
  BY LeftOver DEF LogInv, LedgerInv
<1> DEFINE kept == SubSeq(file, 1, m)
<1>2. kept \in Seq(Lines) /\ Len(kept) = m /\ \A i \in 1 .. m : kept[i] = file[i]
  BY <1>1, CutProperties DEF LogInv, LedgerInv, TypeOK
<1>3. file' = kept \/ file' = Append(kept, Torn)
  BY <1>1
<1>4. Torn \in Lines
  BY DEF Lines
<1> HIDE DEF kept
<1>5. \A i \in 1 .. m : file'[i] = file[i]
  BY <1>1, <1>2, <1>3, <1>4, AppendProperties
<1>6. \/ Len(file') = m
      \/ Len(file') = m + 1 /\ ~file'[m + 1].readable
  BY <1>1, <1>2, <1>3, <1>4, AppendProperties, EntriesReadable
<1>7. NumbersAhead(file')
  <2> SUFFICES ASSUME NEW i \in 1 .. Len(file'), file'[i].readable
               PROVE  file'[i].seq >= i - 1
    BY DEF NumbersAhead
  <2>1. i \in 1 .. m /\ i \in 1 .. Len(file)
    BY <1>1, <1>6
  <2> QED
    BY <1>5, <2>1 DEF LogInv, NumbersAhead
<1>8. m <= Len(file') /\ (m = Len(file') \/ ~LinksUp(file', m + 1))
  BY <1>1, <1>6 DEF LinksUp
<1> QED
  BY <1>1, <1>5, <1>7, <1>8, KeepingMoves

(***************************************************************************)
(* What removing a line does to the others.                                *)
(***************************************************************************)
LEMMA RemoveProperties ==
  ASSUME NEW f \in Seq(Lines), NEW i \in 1 .. Len(f)
  PROVE  /\ Len(RemoveAt(f, i)) = Len(f) - 1
         /\ \A j \in 1 .. i - 1 : RemoveAt(f, i)[j] = f[j]
         /\ \A j \in i .. Len(f) - 1 : RemoveAt(f, i)[j] = f[j + 1]
<1>1. Len(f) \in Nat /\ i - 1 \in Nat /\ i - 1 <= Len(f)
  BY LenProperties
<1>2. /\ SubSeq(f, 1, i - 1) \in Seq(Lines) /\ Len(SubSeq(f, 1, i - 1)) = i - 1
      /\ \A j \in 1 .. i - 1 : SubSeq(f, 1, i - 1)[j] = f[j]
  BY <1>1, CutProperties
<1>3. /\ SubSeq(f, i + 1, Len(f)) \in Seq(Lines)
      /\ Len(SubSeq(f, i + 1, Len(f))) = Len(f) - i
      /\ \A j \in 1 .. Len(f) - i : SubSeq(f, i + 1, Len(f))[j] = f[i + j]
  <2>1. \A j \in i + 1 .. Len(f) : f[j] \in Lines
    BY <1>1, ElementOfSeq
  <2>2. /\ SubSeq(f, i + 1, Len(f)) \in Seq(Lines)
        /\ Len(SubSeq(f, i + 1, Len(f))) =
             IF i + 1 <= Len(f) THEN Len(f) - (i + 1) + 1 ELSE 0
        /\ \A j \in 1 .. Len(f) - (i + 1) + 1 :
             SubSeq(f, i + 1, Len(f))[j] = f[(i + 1) + j - 1]
    BY <1>1, <2>1, SubSeqProperties
  <2> QED
    BY <1>1, <2>2
<1> DEFINE front == SubSeq(f, 1, i - 1)
           back  == SubSeq(f, i + 1, Len(f))
<1>4. RemoveAt(f, i) = front \o back
  BY DEF RemoveAt
<1>5. front \in Seq(Lines) /\ back \in Seq(Lines)
  BY <1>2, <1>3
<1> HIDE DEF front, back
<1>6. /\ Len(front \o back) = Len(front) + Len(back)
      /\ \A j \in 1 .. Len(front) + Len(back) : (front \o back)[j] =
           IF j <= Len(front) THEN front[j] ELSE back[j - Len(front)]
  BY <1>5, ConcatProperties
<1>7. /\ Len(front) = i - 1 /\ Len(back) = Len(f) - i
      /\ \A j \in 1 .. i - 1 : front[j] = f[j]
      /\ \A j \in 1 .. Len(f) - i : back[j] = f[i + j]
  BY <1>2, <1>3 DEF front, back
<1>8. ASSUME NEW j \in i .. Len(f) - 1 PROVE (front \o back)[j] = f[j + 1]
  <2>1. /\ j \in 1 .. Len(front) + Len(back) /\ ~(j <= Len(front))
        /\ j - (i - 1) \in 1 .. Len(f) - i /\ i + (j - (i - 1)) = j + 1
    BY <1>1, <1>7
  <2> QED
    BY <1>6, <1>7, <2>1
<1> QED
  BY <1>1, <1>4, <1>6, <1>7, <1>8

(***************************************************************************)
(* A line removed cuts the log short before it, or leaves it alone: the    *)
(* line that takes its place has a number too high for it.                 *)
(***************************************************************************)
LEMMA DeleteMoves ==
  ASSUME LogInv, NEW i \in 1 .. Len(file), Delete(i), file' \in Seq(Lines)
  PROVE  NumbersAhead(file') /\ \E n, k : Moves(n, k)
<1>1. /\ file' = RemoveAt(file, i) /\ file \in Seq(Lines)
      /\ Len(file) \in Nat /\ i - 1 \in Nat /\ i - 1 <= Len(file)
  BY LenProperties DEF Delete, LogInv, LedgerInv, TypeOK
<1>2. /\ Len(file') = Len(file) - 1
      /\ \A j \in 1 .. i - 1 : file'[j] = file[j]
      /\ \A j \in i .. Len(file) - 1 : file'[j] = file[j + 1]
  BY <1>1, RemoveProperties
<1>3. \A j \in 1 .. Len(file) : file[j].readable => file[j].seq >= j - 1
  BY DEF LogInv, NumbersAhead
<1>4. \A j \in 1 .. Len(file) : file[j].readable => file[j].seq \in Nat
  <2> SUFFICES ASSUME NEW j \in 1 .. Len(file), file[j].readable
               PROVE  file[j].seq \in Nat
    OBVIOUS
  <2>1. file[j] \in Entries
    BY <1>1, ElementOfSeq, EntriesReadable
  <2> QED
    BY <2>1 DEF Entries
<1>5. NumbersAhead(file')
  <2> SUFFICES ASSUME NEW j \in 1 .. Len(file'), file'[j].readable
               PROVE  file'[j].seq >= j - 1
    BY DEF NumbersAhead
  <2>1. CASE j < i
    <3>1. j \in 1 .. i - 1 /\ j \in 1 .. Len(file)
      BY <1>1, <2>1
    <3> QED
      BY <1>2, <1>3, <3>1
  <2>2. CASE i <= j
    <3>1. j \in i .. Len(file) - 1 /\ j + 1 \in 1 .. Len(file)
      BY <1>1, <1>2, <2>2
    <3>2. file[j + 1].seq >= (j + 1) - 1 /\ file[j + 1].seq \in Nat
      BY <1>2, <1>3, <1>4, <3>1
    <3> QED
      BY <1>2, <3>1, <3>2
  <2> QED
    BY <1>1, <1>2, <2>1, <2>2
<1>6. i - 1 <= Len(file') /\ (i - 1) + 1 = i
  BY <1>1, <1>2
<1>7. i - 1 = Len(file') \/ ~LinksUp(file', i)
  <2> SUFFICES ASSUME i - 1 # Len(file'), LinksUp(file', i) PROVE FALSE
    OBVIOUS
  <2>1. i \in i .. Len(file) - 1 /\ i + 1 \in 1 .. Len(file)
    BY <1>1, <1>2
  <2>2. file[i + 1].readable /\ file[i + 1].seq = i - 1
    BY <1>2, <2>1 DEF LinksUp
  <2>3. file[i + 1].seq >= (i + 1) - 1
    BY <1>3, <2>1, <2>2
  <2> QED
    BY <1>1, <2>2, <2>3
<1> QED
  BY <1>1, <1>2, <1>5, <1>6, <1>7, KeepingMoves

(***************************************************************************)
(* A line rewritten is no longer what its hash commits to.                 *)
(***************************************************************************)
LEMMA RewriteMoves ==
  ASSUME LogInv, NEW i \in 1 .. Len(file), NEW b \in Bodies, Rewrite(i, b),
         file' \in Seq(Lines)
  PROVE  NumbersAhead(file') /\ \E n, k : Moves(n, k)
<1>1. /\ file \in Seq(Lines) /\ Len(file) \in Nat
      /\ i - 1 \in Nat /\ i - 1 <= Len(file) /\ (i - 1) + 1 = i
  BY LenProperties DEF LogInv, LedgerInv, TypeOK
<1> DEFINE line == [file[i] EXCEPT !.body = b]
<1>2. file[i] \in Entries
  BY <1>1, ElementOfSeq, EntriesReadable DEF Rewrite
<1>3. /\ line \in Lines /\ line.readable /\ line.seq = file[i].seq
      /\ line.body = b /\ line.prev = file[i].prev /\ line.hash = file[i].hash
  BY <1>2 DEF Entries, Lines
<1>4. file' = [file EXCEPT ![i] = line]
  BY DEF Rewrite
<1> HIDE DEF line
<1>5. /\ Len(file') = Len(file)
      /\ \A j \in 1 .. Len(file) : file'[j] = IF j = i THEN line ELSE file[j]
  BY <1>1, <1>3, <1>4, ExceptSeq
<1>6. NumbersAhead(file')
  BY <1>3, <1>5 DEF LogInv, NumbersAhead, Rewrite
<1>7. HashOf(file[i].seq, b, file[i].prev) # file[i].hash
  <2>1. /\ file[i].hash = Append(file[i].prev, <<file[i].seq, file[i].body>>)
        /\ b # file[i].body /\ file[i].body \in Bodies /\ file[i].seq \in Nat
        /\ file[i].prev \in Seq(Nat \X Bodies)
    BY <1>2 DEF Rewrite, HashOf, Entries, Hashes
  <2>2. /\ Append(file[i].prev, <<file[i].seq, file[i].body>>)[Len(file[i].prev) + 1]
             = <<file[i].seq, file[i].body>>
        /\ Append(file[i].prev, <<file[i].seq, b>>)[Len(file[i].prev) + 1]
             = <<file[i].seq, b>>
    BY <2>1, AppendProperties
  <2> QED
    BY <2>1, <2>2 DEF HashOf
<1>8. ~LinksUp(file', i)
  BY <1>3, <1>5, <1>7 DEF LinksUp
<1>9. \A j \in 1 .. i - 1 : file'[j] = file[j]
  BY <1>1, <1>5
<1> QED
  BY <1>1, <1>5, <1>6, <1>8, <1>9, KeepingMoves

-----------------------------------------------------------------------------
(***************************************************************************)
(* Every step keeps the invariant and is a step of the log.                *)
(***************************************************************************)
LEMMA NextMoves ==
  ASSUME LogInv, [Next]_vars
  PROVE  /\ NumbersAhead(file') /\ HandleAhead' /\ DraftsAllowed'
         /\ \E n, k : Moves(n, k)
<1>1. file' \in Seq(Lines)
  BY NextInv DEF LogInv, LedgerInv, TypeOK
<1>2. CASE Open
  <2>1. file' = file
    BY <1>2 DEF Open
  <2> QED
    BY <1>2, <2>1, OpenIsAhead, SameFileMoves
<1>3. ASSUME NEW w \in Writers, Appending(w)
      PROVE  /\ NumbersAhead(file') /\ HandleAhead' /\ DraftsAllowed'
             /\ \E n, k : Moves(n, k)
  <2>1. CASE \E b \in Bodies : Begin(w, b)
    <3>1. file' = file
      BY <2>1 DEF Begin
    <3> QED
      BY <2>1, <3>1, BeginIsAllowed, SameFileMoves
  <2>2. CASE Write(w)
    BY <1>1, <2>2, WriteMoves
  <2>3. CASE Return(w)
    <3>1. file' = file
      BY <2>3 DEF Return
    <3> QED
      BY <2>3, <3>1, ReturnIsAhead, SameFileMoves
  <2>4. CASE Fail(w)
    BY <1>1, <2>4, FailMoves
  <2> QED
    BY <1>3, <2>1, <2>2, <2>3, <2>4 DEF Appending, Holding
<1>4. CASE Exit
  <2>1. file' = file /\ ~live' /\ \A w \in Writers : pc'[w] = "idle"
    BY <1>4 DEF Exit, ProcessGone
  <2> QED
    BY <2>1, NobodyAhead, SameFileMoves
<1>5. CASE PowerLoss
  <2>1. ~live' /\ \A w \in Writers : pc'[w] = "idle"
    BY <1>5 DEF PowerLoss, ProcessGone
  <2> QED
    BY <1>5, <2>1, NobodyAhead, PowerLossMoves
<1>6. CASE Unlink \/ Editing
  <2>1. /\ Unlink \/ Edit
        /\ ~live /\ live' = live /\ pc' = pc
    BY <1>6 DEF Unlink, Editing, Delete, Rewrite, Edit, handle
  <2>2. \A w \in Writers : pc'[w] = "idle"
    BY <2>1 DEF LogInv, LedgerInv, Excluded
  <2>3. HandleAhead' /\ DraftsAllowed'
    BY <2>1, <2>2, NobodyAhead
  <2>4. CASE Unlink
    <3>1. Len(file') = 0 /\ Len(file) \in Nat
      BY <2>4, EmptySeq, LenProperties DEF Unlink, LogInv, LedgerInv, TypeOK
    <3>2. NumbersAhead(file') /\ \A i \in 1 .. 0 : file'[i] = file[i]
      BY <3>1 DEF NumbersAhead
    <3> QED
      BY <1>1, <2>3, <3>1, <3>2, KeepingMoves
  <2>5. CASE Editing
    BY <1>1, <2>3, <2>5, DeleteMoves, RewriteMoves DEF Editing
  <2> QED
    BY <1>6, <2>4, <2>5
<1>7. CASE UNCHANGED vars
  <2>1. file' = file
    BY <1>7 DEF vars
  <2>2. HandleAhead' /\ DraftsAllowed'
    BY <1>7 DEF LogInv, HandleAhead, DraftsAllowed, vars, Room
  <2> QED
    BY <2>1, <2>2, SameFileMoves
<1> QED
  BY <1>2, <1>3, <1>4, <1>5, <1>6, <1>7 DEF Next

(***************************************************************************)
(* An empty file is an empty log.                                          *)
(***************************************************************************)
LEMMA InitIsAnEmptyLog == Init => LogInv /\ Log!Init
<1> SUFFICES ASSUME Init PROVE LogInv /\ Log!Init
  OBVIOUS
<1>1. file = << >> /\ file \in Seq(Lines) /\ Len(file) = 0
  BY EmptySeq DEF Init
<1>2. TrustedTo(file, 0)
  BY <1>1 DEF TrustedTo, Sound
<1>3. LogInv
  BY <1>1, <1>2, InitInv DEF LogInv, NumbersAhead, HandleAhead, DraftsAllowed, Init
<1>4. Trusted = [i \in 1 .. 0 |-> file[i].body]
  BY <1>1, <1>2, TrustedLength DEF Trusted, TrustedLines
<1>5. /\ [i \in 1 .. 0 |-> file[i].body] \in Seq(Bodies)
      /\ Len([i \in 1 .. 0 |-> file[i].body]) = 0
  BY <1>1, <1>2, TrustedBodies
<1>6. Trusted = << >>
  BY <1>4, <1>5, EmptySeq
<1> QED
  BY <1>3, <1>6 DEF Log!Init

(***************************************************************************)
(* A step that moves the trusted part keeps the invariant.                 *)
(***************************************************************************)
LEMMA NextKeepsTheLog ==
  ASSUME LogInv, [Next]_vars
  PROVE  LogInv' /\ [Log!Next]_Trusted
<1>1. PICK n, k : Moves(n, k)
  BY NextMoves
<1>2. LedgerInv'
  BY NextInv DEF LogInv
<1>3. file \in Seq(Lines) /\ file' \in Seq(Lines)
  BY <1>2 DEF LogInv, LedgerInv, TypeOK
<1>4. k \in Nat /\ TrustedTo(file', k)
  BY <1>1, <1>3, TrustedBodies DEF Moves
<1>5. LogInv'
  BY <1>2, <1>4, NextMoves DEF LogInv
<1> QED
  BY <1>1, <1>3, <1>5, MoveIsALogStep

(***************************************************************************)
(* The invariant holds of every behaviour.                                 *)
(***************************************************************************)
LEMMA LogHolds == Spec => []LogInv
<1>1. LogInv /\ [Next]_vars => LogInv'
  BY NextKeepsTheLog
<1> QED
  BY <1>1, InitIsAnEmptyLog, PTL DEF Spec

(***************************************************************************)
(* The part of the file that verifies is an append-only log: whatever the  *)
(* threads, failed writes, restarts, machines that go down and editors of  *)
(* the file do, nothing but an accepted payload is ever added to it, and   *)
(* only at its end; all else cuts it short.                                *)
(***************************************************************************)
THEOREM LedgerIsAppendOnly == Spec => ImplementsAppendOnly
<1>1. LogInv /\ [Next]_vars => [Log!Next]_Trusted
  BY NextKeepsTheLog
<1> QED
  BY <1>1, LogHolds, InitIsAnEmptyLog, PTL DEF Spec, ImplementsAppendOnly, Log!Spec

-----------------------------------------------------------------------------
(***************************************************************************)
(* That an edit shows, and shows where it was made.                        *)
(*                                                                         *)
(* The trusted lines of the file are the first lines the ledger itself     *)
(* wrote.  While a process is live that is kept because whoever finds the  *)
(* whole file trusted has taken it for what the ledger wrote, and appends  *)
(* to both what follows from both.                                         *)
(***************************************************************************)
NobodyWrote == \A w \in Writers : pc[w] # "written"

HandleExact ==
  live /\ Readable(file) /\ NobodyWrote =>
    seq = NextSeq(file) /\ head = HeadHash(file)

DraftExact ==
  \A w \in Writers : pc[w] = "written" /\ Readable(file) =>
    /\ file # << >>
    /\ LastOf(file) = draft[w]
    /\ draft[w].seq = seq

LiveIsWritten == live /\ Intact(file) => file = written

Agrees(f, g) ==
  \A n \in Nat : TrustedTo(f, n) =>
    n <= Len(g) /\ \A i \in 1 .. n : f[i] = g[i]

EditInv ==
  /\ LogInv
  /\ HandleExact
  /\ DraftExact
  /\ LiveIsWritten
  /\ Agrees(file, written)
  /\ Intact(written)

-----------------------------------------------------------------------------
(***************************************************************************)
(* An intact file can be read, and is resumed at its length.               *)
(***************************************************************************)
LEMMA IntactIsReadable ==
  ASSUME NEW f \in Seq(Lines), Intact(f)
  PROVE  /\ Readable(f)
         /\ TrustedTo(f, Len(f))
         /\ NextSeq(f) = Len(f)
<1>1. Len(f) \in Nat /\ DOMAIN f = 1 .. Len(f)
  BY LenProperties
<1>2. \A i \in 1 .. Len(f) : f[i].readable /\ f[i].seq = i - 1
  BY DEF Intact, Sound, LinksUp
<1>3. NextSeq(f) = Len(f)
  <2>1. CASE f = << >>
    BY <2>1, EmptySeq DEF NextSeq
  <2>2. CASE f # << >>
    <3>1. Len(f) \in 1 .. Len(f)
      BY <1>1, <2>2, EmptySeq
    <3> QED
      BY <1>1, <1>2, <2>2, <3>1 DEF NextSeq, LastOf
  <2> QED
    BY <2>1, <2>2
<1> QED
  BY <1>1, <1>2, <1>3 DEF Readable, TrustedTo, Intact

(***************************************************************************)
(* An entry that follows from an intact file keeps it intact.              *)
(***************************************************************************)
LEMMA FollowingIsIntact ==
  ASSUME NEW f \in Seq(Lines), Intact(f), NEW e \in Entries,
         e.seq = NextSeq(f), e.prev = HeadHash(f),
         e.hash = HashOf(e.seq, e.body, e.prev)
  PROVE  Intact(Append(f, e))
<1> DEFINE g == Append(f, e)
<1>1. e \in Lines /\ e.readable /\ Len(f) \in Nat
  BY EntriesReadable, LenProperties
<1>2. /\ Len(g) = Len(f) + 1 /\ g[Len(f) + 1] = e
      /\ \A i \in 1 .. Len(f) : g[i] = f[i]
  BY <1>1, AppendProperties
<1> HIDE DEF g
<1>3. ASSUME NEW i \in 1 .. Len(f) PROVE LinksUp(g, i)
  <2>1. /\ i \in Nat \ {0} /\ g[i] = f[i] /\ LinksUp(f, i)
        /\ i > 1 => g[i - 1] = f[i - 1]
    BY <1>1, <1>2 DEF Intact, Sound
  <2> QED
    BY <2>1, LinksUpIsLocal
<1>4. LinksUp(g, Len(f) + 1)
  <2>1. e.seq = Len(f)
    BY IntactIsReadable
  <2>2. HeadHash(f) = PrevHash(g, Len(f) + 1)
    <3>1. CASE f = << >>
      BY <3>1, EmptySeq DEF HeadHash, PrevHash
    <3>2. CASE f # << >>
      <4>1. Len(f) \in 1 .. Len(f) /\ Len(f) + 1 # 1 /\ (Len(f) + 1) - 1 = Len(f)
        BY <1>1, <3>2, EmptySeq
      <4> QED
        BY <1>2, <3>2, <4>1 DEF HeadHash, PrevHash, LastOf
    <3> QED
      BY <3>1, <3>2
  <2> QED
    BY <1>1, <1>2, <2>1, <2>2 DEF LinksUp
<1>5. \A i \in 1 .. Len(g) : LinksUp(g, i)
  BY <1>1, <1>2, <1>3, <1>4
<1> QED
  BY <1>5 DEF Intact, Sound, g

(***************************************************************************)
(* The state, typed.                                                       *)
(***************************************************************************)
LEMMA EditTypes ==
  ASSUME EditInv
  PROVE  /\ file \in Seq(Lines) /\ written \in Seq(Lines)
         /\ Len(file) \in Nat /\ Len(written) \in Nat
         /\ written \in Seq(Entries)
<1>1. file \in Seq(Lines) /\ written \in Seq(Entries)
  BY DEF EditInv, LogInv, LedgerInv, TypeOK
<1>2. \A i \in 1 .. Len(written) : written[i] \in Lines
  BY <1>1, ElementOfSeq, EntriesReadable
<1>3. written \in Seq(Lines)
  BY <1>1, <1>2, LenProperties, SeqDef
<1> QED
  BY <1>1, <1>3, LenProperties

(***************************************************************************)
(* A step that leaves alone what was written, and writes nothing, leaves   *)
(* the trusted lines the first of it.                                      *)
(***************************************************************************)
LEMMA AgreementStays ==
  ASSUME EditInv, [Next]_vars, LogInv', written' = written,
         ~(\E w \in Writers : Write(w))
  PROVE  Agrees(file', written') /\ Intact(written')
<1>1. PICK n, k : Moves(n, k)
  BY NextMoves DEF EditInv
<1>2. k <= n
  BY <1>1 DEF Moves
<1>3. /\ file' \in Seq(Lines) /\ file \in Seq(Lines)
      /\ n \in Nat /\ k \in Nat
  BY <1>1, EditTypes, TrustedBodies DEF Moves, LogInv, LedgerInv, TypeOK
<1>4. n <= Len(written) /\ \A i \in 1 .. n : file[i] = written[i]
  BY <1>1, <1>3 DEF EditInv, Agrees, Moves
<1>5. Len(written) \in Nat
  BY EditTypes
<1>6. k <= Len(written) /\ \A i \in 1 .. k : file'[i] = written[i]
  BY <1>1, <1>2, <1>3, <1>4, <1>5 DEF Moves
<1>7. \A m \in Nat : TrustedTo(file', m) => m = k
  BY <1>1, <1>3, TrustedIsUnique DEF Moves
<1> QED
  BY <1>6, <1>7 DEF Agrees, EditInv

(***************************************************************************)
(* A write that lands after an intact file was drafted for it, and what    *)
(* the ledger wrote has grown by it as well; after any other file it       *)
(* leaves what was written alone.                                          *)
(***************************************************************************)
LEMMA WriteAgrees ==
  ASSUME EditInv, LogInv', NEW w \in Writers, Write(w)
  PROVE  HandleExact' /\ DraftExact' /\ LiveIsWritten' /\ Agrees(file', written')
         /\ Intact(written')
<1>1. /\ pc[w] = "writing" /\ live
      /\ draft[w] \in Entries /\ draft[w].seq = seq /\ draft[w].prev = head
      /\ draft[w].hash = HashOf(draft[w].seq, draft[w].body, draft[w].prev)
      /\ file' = Store(file, draft[w])
      /\ written' = IF file = written THEN Append(written, draft[w]) ELSE written
  BY DEF EditInv, LogInv, LedgerInv, Write, TypeOK, Excluded, DraftFromHandle
<1>2. \A v \in Writers : v # w => pc[v] = "idle"
  BY <1>1, OneInside DEF EditInv, LogInv, LedgerInv
<1>3. /\ live' = live /\ seq' = seq /\ head' = head /\ draft' = draft
      /\ \A v \in Writers : pc'[v] = IF v = w THEN "written" ELSE "idle"
  BY <1>2 DEF Write, handle, EditInv, LogInv, LedgerInv, TypeOK
<1>4. /\ file \in Seq(Lines) /\ file' \in Seq(Lines) /\ written \in Seq(Lines)
      /\ Len(file) \in Nat /\ Len(file') \in Nat
  BY EditTypes, LenProperties DEF LogInv, LedgerInv, TypeOK
<1>5. HandleExact'
  BY <1>3 DEF HandleExact, NobodyWrote
<1>6. \/ /\ Len(file') = Len(file) + 1 /\ file' = Append(file, draft[w])
         /\ file'[Len(file) + 1] = draft[w]
         /\ \A i \in 1 .. Len(file) : file'[i] = file[i]
      \/ /\ Len(file') = Len(file) /\ Len(file) \in 1 .. Len(file)
         /\ ~file'[Len(file)].readable /\ ~file[Len(file)].readable
  <2>1. CASE file # << >> /\ LastOf(file) = Torn
    <3>1. file' = [file EXCEPT ![Len(file)] = Garbled]
      BY <1>1, <2>1 DEF Store
    <3>2. Len(file) \in 1 .. Len(file) /\ Garbled \in Lines
      BY <1>4, <2>1, EmptySeq DEF Lines
    <3>3. Len(file') = Len(file) /\ file'[Len(file)] = Garbled
      BY <1>4, <3>1, <3>2, ExceptSeq
    <3> QED
      BY <2>1, <3>2, <3>3, EntriesReadable DEF LastOf
  <2>2. CASE ~(file # << >> /\ LastOf(file) = Torn)
    <3>1. file' = Append(file, draft[w]) /\ draft[w] \in Lines
      BY <1>1, <2>2, EntriesReadable DEF Store
    <3> QED
      BY <1>4, <3>1, AppendProperties
  <2> QED
    BY <2>1, <2>2
<1>7. DraftExact'
  <2> SUFFICES ASSUME Readable(file')
               PROVE  file' # << >> /\ LastOf(file') = draft[w]
    BY <1>1, <1>3 DEF DraftExact
  <2>1. /\ Len(file') = Len(file) + 1 /\ file'[Len(file) + 1] = draft[w]
    BY <1>4, <1>6, LenProperties DEF Readable
  <2> QED
    BY <1>4, <2>1, EmptySeq DEF LastOf
<1>8. CASE file = written
  <2>1. Intact(file) /\ Readable(file) /\ NextSeq(file) = Len(file)
    BY <1>4, <1>8, IntactIsReadable DEF EditInv
  <2>2. seq = NextSeq(file) /\ head = HeadHash(file)
    BY <1>1, <1>2, <2>1 DEF EditInv, HandleExact, NobodyWrote
  <2>3. file' = Append(file, draft[w])
    BY <1>4, <1>6, <2>1, LenProperties DEF Readable
  <2>4. Intact(file') /\ file' = written'
    BY <1>1, <1>4, <1>8, <2>1, <2>2, <2>3, FollowingIsIntact
  <2>5. Agrees(file', written')
    BY <1>4, <2>4 DEF Agrees, TrustedTo
  <2> QED
    BY <1>5, <1>7, <2>4, <2>5 DEF LiveIsWritten
<1>9. CASE file # written
  <2>1. ~Intact(file)
    BY <1>1, <1>9 DEF EditInv, LiveIsWritten
  <2>2. PICK n, k : Moves(n, k)
    BY NextMoves DEF EditInv, Next, Appending, Holding
  <2>3. n \in Nat /\ k \in Nat /\ n # Len(file)
    BY <1>4, <2>1, <2>2, TrustedBodies DEF Moves, TrustedTo, Intact
  <2>4. k <= n /\ \A i \in 1 .. k : file'[i] = file[i]
    BY <2>2, <2>3 DEF Moves
  <2>5. n <= Len(written) /\ \A i \in 1 .. n : file[i] = written[i]
    BY <2>2, <2>3 DEF EditInv, Agrees, Moves
  <2>6. k <= Len(written) /\ \A i \in 1 .. k : file'[i] = written[i]
    BY <2>3, <2>4, <2>5, EditTypes
  <2>7. \A m \in Nat : TrustedTo(file', m) => m = k
    BY <1>4, <2>2, TrustedIsUnique DEF Moves
  <2>8. written' = written
    BY <1>1, <1>9
  <2>9. Agrees(file', written')
    BY <2>6, <2>7, <2>8 DEF Agrees
  <2>10. ~Intact(file')
    <3> SUFFICES ASSUME Intact(file') PROVE FALSE
      OBVIOUS
    <3>1. k = Len(file')
      BY <1>4, <2>7, IntactIsReadable
    <3>2. n < Len(file)
      BY <1>4, <2>2, <2>3 DEF Moves, TrustedTo
    <3>3. Len(file') = Len(file) \/ Len(file') = Len(file) + 1
      BY <1>6
    <3> QED
      BY <1>4, <2>3, <2>4, <3>1, <3>2, <3>3
  <2> QED
    BY <1>5, <1>7, <2>8, <2>9, <2>10 DEF LiveIsWritten, EditInv
<1> QED
  BY <1>8, <1>9

(***************************************************************************)
(* A handle is opened on a file that is the first of what was written, and *)
(* is what was written then, or on one that is not intact.                 *)
(***************************************************************************)
LEMMA OpenAgrees ==
  ASSUME EditInv, Open
  PROVE  HandleExact' /\ DraftExact' /\ LiveIsWritten' /\ Agrees(file', written')
         /\ Intact(written')
<1>1. /\ file' = file /\ seq' = NextSeq(file) /\ head' = HeadHash(file)
      /\ written' = IF IsPrefix(file, written) THEN file ELSE written
  BY DEF Open
<1>2. /\ file \in Seq(Lines) /\ written \in Seq(Lines)
      /\ Len(file) \in Nat /\ Len(written) \in Nat
  BY EditTypes
<1>3. \A w \in Writers : pc'[w] = "idle"
  BY DEF Open, EditInv, LogInv, LedgerInv, Excluded
<1>4. HandleExact' /\ DraftExact'
  BY <1>1, <1>3 DEF HandleExact, DraftExact
<1>5. CASE IsPrefix(file, written)
  <2>1. /\ SubSeq(file, 1, Len(file)) = SubSeq(written, 1, Len(file))
        /\ Len(file) <= Len(written)
    BY <1>5 DEF IsPrefix
  <2>2. \A i \in 1 .. Len(file) : file[i] = written[i]
    <3>1. \A i \in 1 .. Len(file) : SubSeq(file, 1, Len(file))[i] = file[i]
      BY <1>2, CutProperties
    <3>2. \A i \in 1 .. Len(file) : SubSeq(written, 1, Len(file))[i] = written[i]
      BY <1>2, <2>1, CutProperties
    <3> QED
      BY <2>1, <3>1, <3>2
  <2>3. TrustedTo(written, Len(written))
    BY <1>2, IntactIsReadable DEF EditInv
  <2>4. TrustedTo(file, Len(file))
    BY <1>2, <2>1, <2>2, <2>3, TrustedFollows
  <2>5. Intact(file) /\ written' = file
    BY <1>1, <1>5, <2>4 DEF TrustedTo, Intact
  <2>6. Agrees(file', written')
    BY <1>1, <1>2, <2>5 DEF Agrees, TrustedTo
  <2> QED
    BY <1>1, <1>4, <2>5, <2>6 DEF LiveIsWritten
<1>6. CASE ~IsPrefix(file, written)
  <2>1. written' = written
    BY <1>1, <1>6
  <2>2. ~Intact(file)
    <3> SUFFICES ASSUME Intact(file) PROVE FALSE
      OBVIOUS
    <3>1. TrustedTo(file, Len(file))
      BY <1>2, IntactIsReadable
    <3>2. Len(file) <= Len(written) /\ \A i \in 1 .. Len(file) : file[i] = written[i]
      BY <1>2, <3>1 DEF EditInv, Agrees
    <3>3. SubSeq(file, 1, Len(file)) = SubSeq(written, 1, Len(file))
      BY <1>2, <3>2, CutProperties, SeqEqual
    <3> QED
      BY <1>6, <3>2, <3>3 DEF IsPrefix
  <2> QED
    BY <1>1, <1>4, <2>1, <2>2 DEF LiveIsWritten, EditInv
<1> QED
  BY <1>5, <1>6

(***************************************************************************)
(* The handle that moves on takes up the entry it wrote.                   *)
(***************************************************************************)
LEMMA ReturnIsExact ==
  ASSUME EditInv, NEW w \in Writers, Return(w)
  PROVE  HandleExact' /\ DraftExact' /\ LiveIsWritten'
<1>1. /\ pc[w] = "written" /\ file' = file /\ live' = live /\ written' = written
      /\ seq' = seq + 1 /\ head' = draft[w].hash
  BY DEF Return
<1>2. \A v \in Writers : v # w => pc[v] = "idle"
  BY <1>1, OneInside DEF EditInv, LogInv, LedgerInv
<1>3. \A v \in Writers : pc'[v] = "idle"
  BY <1>2 DEF Return, Released, EditInv, LogInv, LedgerInv, TypeOK
<1>4. Readable(file) => seq' = NextSeq(file) /\ head' = HeadHash(file)
  BY <1>1 DEF EditInv, DraftExact, NextSeq, HeadHash
<1>5. HandleExact'
  BY <1>1, <1>4 DEF HandleExact
<1> QED
  BY <1>1, <1>3, <1>5 DEF DraftExact, EditInv, LiveIsWritten

(***************************************************************************)
(* A failed write leaves the file as it was, or ending in a piece of a     *)
(* line.                                                                   *)
(***************************************************************************)
LEMMA FailIsExact ==
  ASSUME EditInv, NEW w \in Writers, Fail(w)
  PROVE  HandleExact' /\ DraftExact' /\ LiveIsWritten'
<1>1. /\ pc[w] = "writing" /\ live' = live /\ written' = written
      /\ seq' = seq /\ head' = head /\ file' \in {file, StorePiece(file)}
      /\ file \in Seq(Lines)
  BY EditTypes DEF Fail
<1>2. \A v \in Writers : v # w => pc[v] = "idle"
  BY <1>1, OneInside DEF EditInv, LogInv, LedgerInv
<1>3. \A v \in Writers : pc'[v] = "idle"
  BY <1>2 DEF Fail, Released, EditInv, LogInv, LedgerInv, TypeOK
<1>4. NobodyWrote
  BY <1>1, <1>2 DEF NobodyWrote
<1>5. CASE file' = file
  BY <1>1, <1>3, <1>4, <1>5 DEF EditInv, HandleExact, DraftExact, LiveIsWritten
<1>6. CASE file' = StorePiece(file)
  <2>1. /\ file' \in Seq(Lines) /\ file' # << >> /\ file'[Len(file')] = Torn
    BY <1>1, <1>6, StorePieceProperties
  <2>2. Len(file') \in 1 .. Len(file') /\ DOMAIN file' = 1 .. Len(file')
    BY <2>1, EmptySeq, LenProperties
  <2>3. ~Readable(file')
    BY <2>1, <2>2, EntriesReadable DEF Readable
  <2>4. ~Intact(file')
    BY <2>1, <2>3, IntactIsReadable
  <2> QED
    BY <2>3, <2>4 DEF HandleExact, DraftExact, LiveIsWritten
<1> QED
  BY <1>1, <1>5, <1>6

(***************************************************************************)
(* Every step keeps what the file and what was written have in common.     *)
(***************************************************************************)
LEMMA NextAgrees ==
  ASSUME EditInv, [Next]_vars, LogInv'
  PROVE  EditInv'
<1>1. CASE Open
  BY <1>1, OpenAgrees DEF EditInv
<1>2. CASE \E w \in Writers : Write(w)
  BY <1>2, WriteAgrees DEF EditInv
<1>3. CASE Unlink
  <2>1. file' = << >> /\ written' = << >> /\ ~live'
    BY <1>3 DEF Unlink, handle
  <2>2. \A w \in Writers : pc'[w] = "idle"
    BY <1>3 DEF Unlink, EditInv, LogInv, LedgerInv, Excluded
  <2>3. Intact(written') /\ Agrees(file', written')
    BY <2>1, EmptySeq DEF Intact, Sound, Agrees, TrustedTo
  <2> QED
    BY <2>1, <2>2, <2>3 DEF EditInv, HandleExact, DraftExact, LiveIsWritten
<1>4. CASE ~(Open \/ Unlink \/ \E w \in Writers : Write(w))
  <2>1. written' = written
    BY <1>4 DEF Next, Appending, Holding, Begin, Return, Fail, Exit, PowerLoss,
                Editing, Delete, Rewrite, Edit, vars
  <2>2. Agrees(file', written') /\ Intact(written')
    BY <1>4, <2>1, AgreementStays
  <2>3. ASSUME NEW w \in Writers, NEW b \in Bodies, Begin(w, b)
        PROVE  HandleExact' /\ DraftExact' /\ LiveIsWritten'
    <3>1. \A v \in Writers : pc[v] = "idle"
      BY <2>3, LedgerAssumption DEF EditInv, LogInv, LedgerInv, Begin, Excluded
    <3>2. \A v \in Writers : pc'[v] # "written"
      BY <2>3, <3>1 DEF Begin, EditInv, LogInv, LedgerInv, TypeOK
    <3> QED
      BY <2>3, <3>1, <3>2
      DEF Begin, EditInv, HandleExact, NobodyWrote, DraftExact, LiveIsWritten
  <2>4. ASSUME ~live', \A w \in Writers : pc'[w] = "idle"
        PROVE  HandleExact' /\ DraftExact' /\ LiveIsWritten'
    BY <2>4 DEF HandleExact, DraftExact, LiveIsWritten
  <2>5. ASSUME Exit \/ PowerLoss
        PROVE  HandleExact' /\ DraftExact' /\ LiveIsWritten'
    BY <2>4, <2>5 DEF Exit, PowerLoss, ProcessGone
  <2>6. ASSUME Editing
        PROVE  HandleExact' /\ DraftExact' /\ LiveIsWritten'
    <3>1. ~live' /\ \A w \in Writers : pc'[w] = "idle"
      BY <2>6 DEF Editing, Delete, Rewrite, Edit, handle, EditInv, LogInv,
                  LedgerInv, Excluded
    <3> QED
      BY <2>4, <3>1
  <2>7. ASSUME UNCHANGED vars
        PROVE  HandleExact' /\ DraftExact' /\ LiveIsWritten'
    BY <2>7 DEF vars, EditInv, HandleExact, NobodyWrote, DraftExact, LiveIsWritten
  <2>8. HandleExact' /\ DraftExact' /\ LiveIsWritten'
    BY <1>4, <2>3, <2>5, <2>6, <2>7, ReturnIsExact, FailIsExact
    DEF Next, Appending, Holding
  <2> QED
    BY <2>2, <2>8 DEF EditInv
<1> QED
  BY <1>1, <1>2, <1>3, <1>4

(***************************************************************************)
(* Where the file first differs from what was written is where it is       *)
(* trusted no further.                                                     *)
(***************************************************************************)
LEMMA DifferenceIsTheBreak ==
  ASSUME EditInv, NEW n \in Nat, TrustedTo(file, n)
  PROVE  FirstDifference = IF n = Len(file) THEN 0 ELSE n + 1
<1>0. Len(file) \in Nat /\ Len(written) \in Nat
  BY EditTypes
<1>1. /\ file \in Seq(Lines) /\ written \in Seq(Lines)
      /\ Len(file) \in Nat /\ Len(written) \in Nat
      /\ DOMAIN file = 1 .. Len(file) /\ DOMAIN written = 1 .. Len(written)
  BY EditTypes, LenProperties
<1>2. n <= Len(written) /\ n <= Len(file) /\ \A i \in 1 .. n : file[i] = written[i]
  <2>1. n <= Len(written) /\ \A i \in 1 .. n : file[i] = written[i]
    BY DEF EditInv, Agrees
  <2>2. n <= Len(file)
    <3>1. n \in 0 .. Len(file)
      BY DEF TrustedTo
    <3> QED
      BY <1>0, <3>1
  <2> QED
    BY <2>1, <2>2
<1>3. ASSUME NEW m \in Nat, m <= Len(file)
      PROVE  IsPrefix(SubSeq(file, 1, m), written) <=>
               m <= Len(written) /\ \A i \in 1 .. m : file[i] = written[i]
  <2> DEFINE front == SubSeq(file, 1, m)
  <2>1. front \in Seq(Lines) /\ Len(front) = m /\ \A i \in 1 .. m : front[i] = file[i]
    BY <1>1, <1>3, CutProperties
  <2> HIDE DEF front
  <2>2. SubSeq(front, 1, m) = front
    <3>1. /\ SubSeq(front, 1, m) \in Seq(Lines) /\ Len(SubSeq(front, 1, m)) = m
          /\ \A i \in 1 .. m : SubSeq(front, 1, m)[i] = front[i]
      BY <2>1, CutProperties
    <3> QED
      BY <2>1, <3>1, SeqEqual
  <2>3. CASE m <= Len(written)
    <3>1. /\ SubSeq(written, 1, m) \in Seq(Lines) /\ Len(SubSeq(written, 1, m)) = m
          /\ \A i \in 1 .. m : SubSeq(written, 1, m)[i] = written[i]
      BY <1>1, <2>3, CutProperties
    <3>2. front = SubSeq(written, 1, m) <=> \A i \in 1 .. m : front[i] = written[i]
      BY <2>1, <3>1, SeqEqual
    <3> QED
      BY <2>1, <2>2, <2>3, <3>2 DEF IsPrefix, front
  <2>4. CASE ~(m <= Len(written))
    BY <2>1, <2>4 DEF IsPrefix, front
  <2> QED
    BY <2>3, <2>4
<1>4. n # Len(file) /\ n < Len(written) => file[n + 1] # written[n + 1]
  <2> SUFFICES ASSUME n # Len(file), n < Len(written), file[n + 1] = written[n + 1]
               PROVE  FALSE
    OBVIOUS
  <2>1. /\ n + 1 \in Nat /\ n + 1 <= Len(file) /\ n + 1 <= Len(written)
        /\ \A i \in 1 .. n + 1 : i \in 1 .. n \/ i = n + 1
    BY <1>0, <1>2
  <2>2. \A i \in 1 .. n + 1 : written[i] = file[i]
    BY <1>2, <2>1
  <2>3. ~LinksUp(file, n + 1)
    BY DEF TrustedTo
  <2>4. ~LinksUp(written, n + 1)
    BY <1>1, <2>1, <2>2, <2>3, StillBroken
  <2>5. n + 1 \in 1 .. Len(written)
    BY <1>0, <2>1
  <2> QED
    BY <2>4, <2>5 DEF EditInv, Intact, Sound
<1>5. IsPrefix(file, written) <=> n = Len(file)
  <2>1. SubSeq(file, 1, Len(file)) = file
    <3>1. /\ SubSeq(file, 1, Len(file)) \in Seq(Lines)
          /\ Len(SubSeq(file, 1, Len(file))) = Len(file)
          /\ \A i \in 1 .. Len(file) : SubSeq(file, 1, Len(file))[i] = file[i]
      BY <1>1, CutProperties
    <3> QED
      BY <1>1, <3>1, SeqEqual
  <2>2. IsPrefix(file, written) <=>
          Len(file) <= Len(written) /\ \A i \in 1 .. Len(file) : file[i] = written[i]
    <3>1. /\ Len(file) <= Len(file)
          /\ IsPrefix(SubSeq(file, 1, Len(file)), written) <=>
               Len(file) <= Len(written) /\ \A i \in 1 .. Len(file) : file[i] = written[i]
      BY <1>1, <1>3
    <3> QED
      BY <2>1, <3>1
  <2>3. n # Len(file) => n + 1 \in 1 .. Len(file)
    BY <1>1, <1>2
  <2> QED
    <3>1. ASSUME IsPrefix(file, written) PROVE n = Len(file)
      <4> SUFFICES ASSUME n # Len(file) PROVE FALSE
        OBVIOUS
      <4>1. n + 1 \in 1 .. Len(file) /\ n < Len(written)
        BY <1>0, <2>2, <2>3, <3>1
      <4> QED
        BY <1>4, <2>2, <3>1, <4>1
    <3>2. ASSUME n = Len(file) PROVE IsPrefix(file, written)
      BY <1>2, <2>2, <3>2
    <3> QED
      BY <3>1, <3>2
<1>6. CASE n = Len(file)
  BY <1>5, <1>6 DEF FirstDifference
<1>7. CASE n # Len(file)
  <2> DEFINE P(i) == /\ IsPrefix(SubSeq(file, 1, i - 1), written)
                     /\ i \in DOMAIN written => file[i] # written[i]
  <2>1. n + 1 \in DOMAIN file
    <3>1. n + 1 \in 1 .. Len(file)
      BY <1>0, <1>2, <1>7
    <3> QED
      BY <1>1, <3>1
  <2>2. P(n + 1)
    <3>1. (n + 1) - 1 = n /\ (n + 1 \in DOMAIN written => n < Len(written))
      BY <1>1
    <3> QED
      BY <1>2, <1>3, <1>4, <1>7, <3>1
  <2>3. ASSUME NEW i \in DOMAIN file, P(i) PROVE i = n + 1
    <3>1. /\ i \in Nat /\ i - 1 \in Nat /\ i - 1 <= Len(file)
      BY <1>1
    <3>2. i - 1 <= Len(written) /\ \A j \in 1 .. i - 1 : file[j] = written[j]
      BY <1>3, <2>3, <3>1
    <3>3. ~(i <= n)
      <4> SUFFICES ASSUME i <= n PROVE FALSE
        OBVIOUS
      <4>1. i \in DOMAIN written /\ i \in 1 .. n
        BY <1>1, <1>2, <3>1
      <4> QED
        BY <1>2, <2>3, <4>1
    <3>4. ~(i > n + 1)
      <4> SUFFICES ASSUME i > n + 1 PROVE FALSE
        OBVIOUS
      <4>1. n + 1 \in 1 .. i - 1 /\ n < Len(written)
        BY <1>1, <3>1, <3>2
      <4> QED
        BY <1>4, <1>7, <3>2, <4>1
    <3> QED
      BY <3>1, <3>3, <3>4
  <2>4. FirstDifference = CHOOSE i \in DOMAIN file : P(i)
    BY <1>5, <1>7 DEF FirstDifference
  <2> HIDE DEF P
  <2> QED
    BY <1>7, <2>1, <2>2, <2>3, <2>4
<1> QED
  BY <1>6, <1>7

(***************************************************************************)
(* Whatever was edited, at the file or at what is left of it, verification *)
(* breaks at the first line that is not the one the ledger wrote there,    *)
(* and a file it passes is the first of what the ledger wrote.             *)
(***************************************************************************)
THEOREM EditsShow == Spec => []EditsShowWhereTheyAre
<1>1. Init => EditInv
  <2> SUFFICES ASSUME Init PROVE EditInv
    OBVIOUS
  <2>1. LogInv
    BY InitIsAnEmptyLog
  <2>2. Intact(written) /\ Agrees(file, written)
    BY EmptySeq DEF Init, Intact, Sound, Agrees, TrustedTo
  <2> QED
    BY <2>1, <2>2 DEF Init, EditInv, HandleExact, DraftExact, LiveIsWritten
<1>2. EditInv /\ LogInv' /\ [Next]_vars => EditInv'
  BY NextAgrees
<1>3. EditInv => EditsShowWhereTheyAre
  <2> SUFFICES ASSUME EditInv PROVE FirstBreak(file) = FirstDifference
    BY DEF EditsShowWhereTheyAre
  <2>1. PICK n \in Nat : TrustedTo(file, n)
    BY DEF EditInv, LogInv
  <2>2. file \in Seq(Lines) /\ Len(file) \in Nat /\ DOMAIN file = 1 .. Len(file)
    BY EditTypes, LenProperties
  <2>3. FirstBreak(file) = IF n = Len(file) THEN 0 ELSE n + 1
    <3>1. Intact(file) <=> n = Len(file)
      BY <2>1, <2>2, IntactIsReadable, TrustedIsUnique DEF TrustedTo, Intact
    <3>2. CASE n = Len(file)
      BY <3>1, <3>2 DEF FirstBreak
    <3>3. CASE n # Len(file)
      <4> DEFINE P(i) == Sound(file, i - 1) /\ ~LinksUp(file, i)
      <4>0. n <= Len(file)
        <5>1. n \in 0 .. Len(file) /\ Len(file) \in Nat
          BY <2>1, EditTypes DEF TrustedTo
        <5> QED
          BY <5>1
      <4>1. n + 1 \in DOMAIN file /\ (n + 1) - 1 = n
        <5>1. n + 1 \in 1 .. Len(file) /\ (n + 1) - 1 = n
          <6>1. Len(file) \in Nat
            BY EditTypes
          <6> QED
            BY <3>3, <4>0, <6>1
        <5> QED
          BY <2>2, <5>1
      <4>2. P(n + 1)
        BY <2>1, <3>3, <4>1 DEF TrustedTo
      <4>3. ASSUME NEW i \in DOMAIN file, P(i) PROVE i = n + 1
        <5>1. /\ i \in Nat /\ i - 1 \in 0 .. Len(file) /\ (i - 1) + 1 = i
          BY <2>2
        <5>2. TrustedTo(file, i - 1)
          BY <4>3, <5>1 DEF TrustedTo
        <5> QED
          BY <2>1, <2>2, <5>1, <5>2, TrustedIsUnique
      <4>4. FirstBreak(file) = CHOOSE i \in DOMAIN file : P(i)
        BY <3>1, <3>3 DEF FirstBreak
      <4> HIDE DEF P
      <4> QED
        BY <3>3, <4>1, <4>2, <4>3, <4>4
    <3> QED
      BY <3>2, <3>3
  <2> QED
    BY <2>1, <2>3, DifferenceIsTheBreak
<1> QED
  BY <1>1, <1>2, <1>3, LogHolds, PTL DEF Spec
=============================================================================
