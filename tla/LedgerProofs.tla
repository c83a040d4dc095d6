---------------------------- MODULE LedgerProofs ----------------------------
(***************************************************************************)
(* Theorems about Ledger, for any number of threads and payloads, any      *)
(* length of the file and any number of edits.                             *)
(***************************************************************************)
EXTENDS Ledger, SequenceTheorems, TLAPS

-----------------------------------------------------------------------------
(***************************************************************************)
(* Lemmas about the operators of Chain.                                    *)
(***************************************************************************)

(***************************************************************************)
(* An entry is readable and is not a piece of one.                         *)
(***************************************************************************)
LEMMA EntriesReadable ==
  /\ \A e \in Entries : e.readable /\ e # Torn /\ e # Garbled /\ e # NoEntry
  /\ ~Torn.readable /\ ~Garbled.readable
  /\ \A l \in Lines : l.readable => l \in Entries
  /\ Entries \subseteq Lines
<1>1. \A e \in Entries : e.readable
  BY DEF Entries
<1>2. ~Torn.readable /\ ~Garbled.readable /\ ~NoEntry.readable
  BY DEF Torn, Garbled, NoEntry
<1>3. \A l \in Lines : l.readable => l \in Entries
  BY <1>2 DEF Lines
<1> QED
  BY <1>1, <1>2, <1>3 DEF Lines

(***************************************************************************)
(* What is drafted from the handle is an entry.                            *)
(***************************************************************************)
LEMMA EntryTyped ==
  ASSUME NEW s \in Nat, NEW b \in Bodies, NEW h \in Hashes
  PROVE  /\ Entry(s, b, h) \in Entries
         /\ Entry(s, b, h).seq = s
         /\ Entry(s, b, h).body = b
         /\ Entry(s, b, h).prev = h
         /\ Entry(s, b, h).hash = HashOf(s, b, h)
BY DEF Entry, Entries, HashOf, Hashes

(***************************************************************************)
(* What a write does to a file: it puts a line at the end, or garbles the  *)
(* piece that is there, and it leaves every other line alone.              *)
(***************************************************************************)
LEMMA StoreProperties ==
  ASSUME NEW f \in Seq(Lines), NEW l \in Entries
  PROVE  /\ Store(f, l) \in Seq(Lines)
         /\ Store(f, l) # << >>
         /\ \/ /\ f # << >> /\ f[Len(f)] = Torn
               /\ Len(Store(f, l)) = Len(f)
               /\ \A i \in 1 .. Len(f) - 1 : Store(f, l)[i] = f[i]
               /\ Store(f, l)[Len(f)] = Garbled
            \/ /\ Len(Store(f, l)) = Len(f) + 1
               /\ \A i \in 1 .. Len(f) : Store(f, l)[i] = f[i]
               /\ Store(f, l)[Len(f) + 1] = l
<1>1. l \in Lines /\ Garbled \in Lines
  BY EntriesReadable DEF Lines
<1>2. CASE f # << >> /\ LastOf(f) = Torn
  <2>1. Len(f) \in 1 .. Len(f)
    BY <1>2, EmptySeq, LenProperties
  <2>2. Store(f, l) = [f EXCEPT ![Len(f)] = Garbled]
    BY <1>2 DEF Store
  <2> QED
    BY <1>1, <1>2, <2>1, <2>2, ExceptSeq, EmptySeq, LenProperties DEF LastOf
<1>3. CASE ~(f # << >> /\ LastOf(f) = Torn)
  <2>1. Store(f, l) = Append(f, l)
    BY <1>3 DEF Store
  <2> QED
    BY <1>1, <2>1, AppendProperties
<1> QED
  BY <1>2, <1>3

(***************************************************************************)
(* What a write that is cut short does: the file ends in a piece of a line *)
(* and keeps every line it had.                                            *)
(***************************************************************************)
LEMMA StorePieceProperties ==
  ASSUME NEW f \in Seq(Lines)
  PROVE  /\ StorePiece(f) \in Seq(Lines)
         /\ StorePiece(f) # << >>
         /\ StorePiece(f)[Len(StorePiece(f))] = Torn
         /\ Len(StorePiece(f)) >= Len(f)
         /\ \A i \in 1 .. Len(f) : StorePiece(f)[i] = f[i]
<1>1. Torn \in Lines
  BY DEF Lines
<1>2. CASE f # << >> /\ LastOf(f) = Torn
  BY <1>2, LenProperties DEF StorePiece, LastOf
<1>3. CASE ~(f # << >> /\ LastOf(f) = Torn)
  <2>1. StorePiece(f) = Append(f, Torn)
    BY <1>3 DEF StorePiece
  <2> QED
    BY <1>1, <2>1, AppendProperties, LenProperties
<1> QED
  BY <1>2, <1>3

(***************************************************************************)
(* A file cut short keeps its first lines.                                 *)
(***************************************************************************)
LEMMA CutProperties ==
  ASSUME NEW S, NEW f \in Seq(S), NEW n \in Nat, n <= Len(f)
  PROVE  /\ SubSeq(f, 1, n) \in Seq(S)
         /\ Len(SubSeq(f, 1, n)) = n
         /\ \A i \in 1 .. n : SubSeq(f, 1, n)[i] = f[i]
<1>1. \A i \in 1 .. n : f[i] \in S
  BY ElementOfSeq, LenProperties
<1>2. /\ SubSeq(f, 1, n) \in Seq(S)
      /\ Len(SubSeq(f, 1, n)) = IF 1 <= n THEN n - 1 + 1 ELSE 0
      /\ \A i \in 1 .. n - 1 + 1 : SubSeq(f, 1, n)[i] = f[1 + i - 1]
  BY <1>1, SubSeqProperties
<1> QED
  BY <1>2

(***************************************************************************)
(* Where a chain is resumed.                                               *)
(***************************************************************************)
LEMMA ResumeTyped ==
  ASSUME NEW f \in Seq(Lines), Readable(f)
  PROVE  /\ NextSeq(f) \in Nat
         /\ HeadHash(f) \in Hashes
         /\ f \in Seq(Entries)
<1>1. Genesis \in Hashes
  BY EmptySeq DEF Genesis, Hashes
<1>2. \A i \in 1 .. Len(f) : f[i] \in Entries
  BY ElementOfSeq, LenProperties, EntriesReadable DEF Readable
<1>3. f \in Seq(Entries)
  BY <1>2, LenProperties, SubSeqFull, SubSeqProperties
<1>4. f # << >> => LastOf(f) \in Entries
  BY <1>2, EmptySeq, LenProperties DEF LastOf
<1>5. \A e \in Entries : e.seq \in Nat /\ e.hash \in Hashes
  BY DEF Entries
<1> QED
  BY <1>1, <1>3, <1>4, <1>5 DEF NextSeq, HeadHash

-----------------------------------------------------------------------------
(***************************************************************************)
(* A chain: every line links up that no unreadable line comes before.      *)
(* Unlike Intact it survives a write that fails, and what a machine that   *)
(* goes down leaves of the file is a chain again.                          *)
(***************************************************************************)
ReadableTo(f, i) == \A j \in 1 .. i : f[j].readable

Chained(f) == \A i \in 1 .. Len(f) : ReadableTo(f, i) => LinksUp(f, i)

(***************************************************************************)
(* Whether a line links up depends on that line and the one before it.     *)
(***************************************************************************)
LEMMA LinksUpIsLocal ==
  ASSUME NEW f, NEW g, NEW i \in Nat \ {0},
         f[i] = g[i], i > 1 => f[i - 1] = g[i - 1]
  PROVE  LinksUp(f, i) <=> LinksUp(g, i)
BY DEF LinksUp, PrevHash

(***************************************************************************)
(* A chain that can be read is what verify accepts, and is resumed at its  *)
(* length.                                                                 *)
(***************************************************************************)
LEMMA ReadableChainIsIntact ==
  ASSUME NEW f \in Seq(Lines), Chained(f), Readable(f)
  PROVE  /\ Intact(f)
         /\ \A i \in 1 .. Len(f) : f[i].seq = i - 1
         /\ NextSeq(f) = Len(f)
<1>1. DOMAIN f = 1 .. Len(f) /\ Len(f) \in Nat
  BY LenProperties
<1>2. \A i \in 1 .. Len(f) : LinksUp(f, i)
  BY <1>1 DEF Chained, Readable, ReadableTo
<1>3. \A i \in 1 .. Len(f) : f[i].seq = i - 1
  BY <1>2 DEF LinksUp
<1>4. NextSeq(f) = Len(f)
  <2>1. CASE f = << >>
    BY <2>1, EmptySeq DEF NextSeq
  <2>2. CASE f # << >>
    <3>1. Len(f) \in 1 .. Len(f)
      BY <1>1, <2>2, EmptySeq
    <3> QED
      BY <1>1, <1>3, <2>2, <3>1 DEF NextSeq, LastOf
  <2> QED
    BY <2>1, <2>2
<1> QED
  BY <1>2, <1>3, <1>4 DEF Intact, Sound

(***************************************************************************)
(* A chain cut short is a chain.                                           *)
(***************************************************************************)
LEMMA CutIsChained ==
  ASSUME NEW f \in Seq(Lines), Chained(f), NEW n \in Nat, n <= Len(f)
  PROVE  Chained(SubSeq(f, 1, n))
<1> DEFINE g == SubSeq(f, 1, n)
<1>1. Len(g) = n /\ \A i \in 1 .. n : g[i] = f[i]
  BY CutProperties
<1>2. Len(f) \in Nat
  BY LenProperties
<1> HIDE DEF g
<1> SUFFICES ASSUME NEW i \in 1 .. n, ReadableTo(g, i)
             PROVE  LinksUp(g, i)
  BY <1>1 DEF Chained, g
<1>3. ReadableTo(f, i)
  BY <1>1 DEF ReadableTo
<1>4. LinksUp(f, i)
  BY <1>2, <1>3 DEF Chained
<1> QED
  BY <1>1, <1>4, LinksUpIsLocal

(***************************************************************************)
(* A file that grows by lines behind an unreadable one is still a chain.   *)
(***************************************************************************)
LEMMA GrownUnreadable ==
  ASSUME NEW f \in Seq(Lines), Chained(f), NEW g \in Seq(Lines), NEW k \in Nat,
         k < Len(g), k <= Len(f), \A i \in 1 .. k : g[i] = f[i], ~g[k + 1].readable
  PROVE  Chained(g) /\ ~Readable(g)
<1>1. Len(f) \in Nat /\ Len(g) \in Nat /\ DOMAIN g = 1 .. Len(g)
  BY LenProperties
<1>2. ~Readable(g)
  BY <1>1 DEF Readable
<1>3. ASSUME NEW i \in 1 .. Len(g), ReadableTo(g, i)
      PROVE  LinksUp(g, i)
  <2>1. i <= k
    BY <1>1, <1>3 DEF ReadableTo
  <2>2. ReadableTo(f, i)
    BY <1>1, <1>3, <2>1 DEF ReadableTo
  <2>3. LinksUp(f, i)
    BY <1>1, <2>1, <2>2 DEF Chained
  <2> QED
    BY <1>1, <2>1, <2>3, LinksUpIsLocal
<1> QED
  BY <1>2, <1>3 DEF Chained

(***************************************************************************)
(* A write that is cut short leaves a chain that cannot be read.           *)
(***************************************************************************)
LEMMA PieceIsChained ==
  ASSUME NEW f \in Seq(Lines), Chained(f)
  PROVE  Chained(StorePiece(f)) /\ ~Readable(StorePiece(f))
<1> DEFINE g == StorePiece(f)
<1>1. /\ g \in Seq(Lines) /\ g # << >> /\ g[Len(g)] = Torn
      /\ Len(g) >= Len(f) /\ \A i \in 1 .. Len(f) : g[i] = f[i]
      /\ g = f \/ Len(g) = Len(f) + 1
  BY StorePieceProperties, AppendProperties DEF StorePiece, Lines
<1>2. Len(f) \in Nat /\ Len(g) \in Nat \ {0}
  BY <1>1, LenProperties, EmptySeq
<1>3. ~g[Len(g)].readable
  BY <1>1, EntriesReadable
<1> HIDE DEF g
<1>4. Len(g) - 1 \in Nat /\ Len(g) - 1 < Len(g) /\ Len(g) - 1 <= Len(f)
  BY <1>1, <1>2
<1>5. \A i \in 1 .. Len(g) - 1 : g[i] = f[i]
  BY <1>1, <1>2
<1>6. ~g[(Len(g) - 1) + 1].readable
  BY <1>2, <1>3
<1>7. Chained(g) /\ ~Readable(g)
  BY <1>1, <1>4, <1>5, <1>6, GrownUnreadable
<1> QED
  BY <1>7 DEF g

(***************************************************************************)
(* An entry drafted from the tail of a chain and stored leaves a chain; if *)
(* the file can be read afterwards it could before, and the entry is last. *)
(***************************************************************************)
LEMMA StoredIsChained ==
  ASSUME NEW f \in Seq(Lines), Chained(f), NEW l \in Entries,
         Readable(f) => /\ l.seq = Len(f) /\ l.prev = HeadHash(f)
                        /\ l.hash = HashOf(l.seq, l.body, l.prev)
  PROVE  /\ Chained(Store(f, l))
         /\ Readable(Store(f, l)) =>
              /\ Readable(f)
              /\ LastOf(Store(f, l)) = l
              /\ Len(Store(f, l)) = Len(f) + 1
              /\ \A i \in 1 .. Len(f) : Store(f, l)[i] = f[i]
<1> DEFINE g == Store(f, l)
<1>1. Len(f) \in Nat /\ g \in Seq(Lines) /\ Len(g) \in Nat /\ DOMAIN f = 1 .. Len(f)
      /\ DOMAIN g = 1 .. Len(g)
  BY StoreProperties, LenProperties
<1>2. CASE f # << >> /\ f[Len(f)] = Torn
  <2>1. Len(f) \in 1 .. Len(f)
    BY <1>1, <1>2, EmptySeq
  <2>2. Len(g) = Len(f) /\ (\A i \in 1 .. Len(f) - 1 : g[i] = f[i]) /\ g[Len(f)] = Garbled
    <3>1. g = [f EXCEPT ![Len(f)] = Garbled]
      BY <1>2 DEF Store, LastOf
    <3> QED
      BY <2>1, <3>1, ExceptSeq, LenProperties DEF Lines
  <2>3. ~g[(Len(f) - 1) + 1].readable
    BY <1>1, <2>2, EntriesReadable
  <2> HIDE DEF g
  <2>4. /\ Len(f) - 1 \in Nat /\ Len(f) - 1 < Len(g) /\ Len(f) - 1 <= Len(f)
        /\ \A i \in 1 .. Len(f) - 1 : g[i] = f[i]
    BY <1>1, <2>1, <2>2
  <2>5. Chained(g) /\ ~Readable(g)
    BY <1>1, <2>3, <2>4, GrownUnreadable
  <2> QED
    BY <2>5 DEF g
<1>3. CASE ~(f # << >> /\ f[Len(f)] = Torn)
  <2>1. /\ Len(g) = Len(f) + 1 /\ g[Len(f) + 1] = l
        /\ \A i \in 1 .. Len(f) : g[i] = f[i]
    <3>1. g = Append(f, l)
      BY <1>3 DEF Store, LastOf
    <3> QED
      BY <3>1, EntriesReadable, AppendProperties
  <2> HIDE DEF g
  <2>2. Readable(g) => Readable(f)
    BY <1>1, <2>1 DEF Readable
  <2>3. LastOf(g) = l
    BY <2>1 DEF LastOf
  <2>4. ASSUME NEW i \in 1 .. Len(g), ReadableTo(g, i)
        PROVE  LinksUp(g, i)
    <3>1. CASE i <= Len(f)
      <4>1. ReadableTo(f, i)
        BY <1>1, <2>1, <2>4, <3>1 DEF ReadableTo
      <4>2. LinksUp(f, i)
        BY <1>1, <3>1, <4>1 DEF Chained
      <4>3. g[i] = f[i] /\ (i > 1 => g[i - 1] = f[i - 1])
        BY <1>1, <2>1, <3>1
      <4> QED
        BY <4>2, <4>3, LinksUpIsLocal
    <3>2. CASE i = Len(f) + 1
      <4>1. Readable(f)
        BY <1>1, <2>1, <2>4, <3>2 DEF Readable, ReadableTo
      <4>2. PrevHash(g, i) = HeadHash(f)
        <5>1. CASE f = << >>
          BY <3>2, <5>1, EmptySeq DEF PrevHash, HeadHash
        <5>2. CASE f # << >>
          <6>1. Len(f) \in 1 .. Len(f) /\ i # 1 /\ i - 1 = Len(f)
            BY <1>1, <3>2, <5>2, EmptySeq
          <6>2. g[i - 1] = f[Len(f)]
            BY <2>1, <6>1
          <6> QED
            BY <5>2, <6>1, <6>2 DEF PrevHash, HeadHash, LastOf
        <5> QED
          BY <5>1, <5>2
      <4>3. g[i] = l /\ l.readable /\ i - 1 = Len(f)
        BY <1>1, <2>1, <3>2, EntriesReadable
      <4> QED
        BY <4>1, <4>2, <4>3 DEF LinksUp
    <3> QED
      BY <1>1, <2>1, <3>1, <3>2
  <2>5. Chained(g)
    BY <2>4 DEF Chained
  <2> QED
    BY <2>1, <2>2, <2>3, <2>5 DEF g
<1> QED
  BY <1>2, <1>3

-----------------------------------------------------------------------------
(***************************************************************************)
(* Type correctness.                                                       *)
(***************************************************************************)
LEMMA InitTyped == Init => TypeOK
<1> SUFFICES ASSUME Init PROVE TypeOK
  OBVIOUS
<1>1. << >> \in Seq(Lines) /\ << >> \in Seq(Entries) /\ << >> \in Hashes
  BY EmptySeq DEF Hashes
<1>2. 0 \in 0 .. MaxEdits
  BY LedgerAssumption
<1> QED
  BY <1>1, <1>2 DEF Init, TypeOK, Genesis

(***************************************************************************)
(* Opening: the handle is resumed from an entry, or from nothing.          *)
(***************************************************************************)
LEMMA OpenTyped == TypeOK /\ Open => TypeOK'
<1> SUFFICES ASSUME TypeOK, Open PROVE TypeOK'
  OBVIOUS
<1>1. file \in Seq(Lines) /\ Readable(file)
  BY DEF TypeOK, Open
<1>2. seq' \in Nat /\ head' \in Hashes /\ written' \in Seq(Entries)
  BY <1>1, ResumeTyped DEF Open, TypeOK
<1> QED
  BY <1>2 DEF TypeOK, Open

(***************************************************************************)
(* Beginning an append: the draft is an entry.                             *)
(***************************************************************************)
LEMMA BeginTyped ==
  ASSUME TypeOK, NEW w \in Writers, NEW b \in Bodies, Begin(w, b)
  PROVE  TypeOK'
<1>1. Entry(seq, b, head) \in Entries
  BY EntryTyped DEF TypeOK
<1>2. Entry(seq, b, head) # NoEntry
  BY <1>1, EntriesReadable
<1> QED
  BY <1>1, <1>2 DEF TypeOK, Begin

(***************************************************************************)
(* Writing, returning and failing, under the lock.                         *)
(***************************************************************************)
LEMMA HoldingTyped ==
  ASSUME TypeOK, NEW w \in Writers, Holding(w)
  PROVE  TypeOK'
<1>1. pc[w] # "idle" /\ draft[w] \in Entries
  BY DEF Holding, Write, Return, Fail, TypeOK
<1>2. CASE Write(w)
  <2>1. file' \in Seq(Lines)
    BY <1>1, <1>2, StoreProperties DEF Write, TypeOK
  <2>2. written' \in Seq(Entries)
    BY <1>1, <1>2, AppendProperties DEF Write, TypeOK
  <2>3. pc' = [pc EXCEPT ![w] = "written"] /\ draft' = draft
    BY <1>2 DEF Write
  <2>4. \A v \in Writers : draft'[v] = NoEntry <=> pc'[v] = "idle"
    BY <1>1, <2>3 DEF TypeOK
  <2> QED
    BY <1>2, <2>1, <2>2, <2>3, <2>4 DEF Write, TypeOK, handle
<1>3. CASE Return(w)
  <2>1. seq' \in Nat /\ head' \in Hashes
    BY <1>1, <1>3 DEF Return, TypeOK, Entries
  <2>2. returned' \subseteq Entries
    BY <1>1, <1>3 DEF Return, TypeOK
  <2> QED
    BY <1>3, <2>1, <2>2 DEF Return, Released, TypeOK
<1>4. CASE Fail(w)
  <2>1. file' \in Seq(Lines)
    BY <1>4, StorePieceProperties DEF Fail, TypeOK
  <2> QED
    BY <1>4, <2>1 DEF Fail, Released, TypeOK
<1> QED
  BY <1>2, <1>3, <1>4 DEF Holding

(***************************************************************************)
(* What is left of the file when the machine goes down.                    *)
(***************************************************************************)
LEMMA LeftOver ==
  ASSUME TypeOK, PowerLoss
  PROVE  \E n \in 0 .. Len(file) - 1 :
           /\ n \in Nat /\ n <= Len(file)
           /\ file' \in {SubSeq(file, 1, n), Append(SubSeq(file, 1, n), Torn)}
           /\ SubSeq(file, 1, n) \in Seq(Lines)
           /\ file' \in Seq(Lines)
           /\ returned' = {l \in returned : \E i \in 1 .. n : file[i] = l}
<1>1. Len(file) \in Nat
  BY LenProperties DEF TypeOK
<1>2. PICK n \in 0 .. Len(file) - 1 :
        /\ file' \in {SubSeq(file, 1, n), Append(SubSeq(file, 1, n), Torn)}
        /\ returned' = {l \in returned : \E i \in 1 .. n : file[i] = l}
  BY DEF PowerLoss
<1>3. n \in Nat /\ n <= Len(file)
  BY <1>1
<1>4. SubSeq(file, 1, n) \in Seq(Lines)
  BY <1>3, CutProperties DEF TypeOK
<1>5. file' \in Seq(Lines)
  BY <1>2, <1>4, AppendProperties DEF Lines
<1> QED
  BY <1>2, <1>3, <1>4, <1>5

(***************************************************************************)
(* An edit leaves lines where lines were.                                  *)
(***************************************************************************)
LEMMA EditingTyped ==
  ASSUME TypeOK, Editing
  PROVE  TypeOK'
<1>1. Len(file) \in Nat /\ DOMAIN file = 1 .. Len(file)
  BY LenProperties DEF TypeOK
<1>2. PICK i \in 1 .. Len(file) : Delete(i) \/ \E b \in Bodies : Rewrite(i, b)
  BY DEF Editing
<1>3. file[i] \in Lines
  BY ElementOfSeq DEF TypeOK
<1>4. file' \in Seq(Lines)
  <2>1. CASE Delete(i)
    <3>1. i - 1 \in Nat /\ i - 1 <= Len(file)
      BY <1>1
    <3>2. SubSeq(file, 1, i - 1) \in Seq(Lines)
      BY <3>1, CutProperties DEF TypeOK
    <3>3. \A j \in i + 1 .. Len(file) : file[j] \in Lines
      BY <1>1, ElementOfSeq DEF TypeOK
    <3>4. SubSeq(file, i + 1, Len(file)) \in Seq(Lines)
      BY <1>1, <3>3, SubSeqProperties
    <3> QED
      BY <2>1, <3>2, <3>4, ConcatProperties DEF Delete, RemoveAt
  <2>2. ASSUME NEW b \in Bodies, Rewrite(i, b)
        PROVE  file' \in Seq(Lines)
    <3>1. file[i] \in Entries
      BY <1>3, <2>2, EntriesReadable DEF Rewrite
    <3>2. [file[i] EXCEPT !.body = b] \in Lines
      BY <3>1 DEF Entries, Lines
    <3>3. file' = [file EXCEPT ![i] = [file[i] EXCEPT !.body = b]]
      BY <2>2 DEF Rewrite
    <3> QED
      BY <3>2, <3>3, ExceptSeq DEF TypeOK
  <2> QED
    BY <1>2, <2>1, <2>2
<1>5. Edit
  BY <1>2 DEF Delete, Rewrite
<1>6. edits' \in 0 .. MaxEdits
  BY <1>5, LedgerAssumption DEF Edit, TypeOK
<1> QED
  BY <1>4, <1>5, <1>6 DEF Edit, TypeOK, handle

(***************************************************************************)
(* Every step keeps the shape of the state.                                *)
(***************************************************************************)
LEMMA NextTyped == TypeOK /\ [Next]_vars => TypeOK'
<1> SUFFICES ASSUME TypeOK, [Next]_vars PROVE TypeOK'
  OBVIOUS
<1>0. << >> \in Seq(Lines) /\ << >> \in Seq(Entries) /\ Genesis \in Hashes
  BY EmptySeq DEF Genesis, Hashes
<1>1. CASE Open
  BY <1>1, OpenTyped
<1>2. ASSUME NEW w \in Writers, Appending(w) PROVE TypeOK'
  BY <1>2, BeginTyped, HoldingTyped DEF Appending
<1>3. CASE Exit
  BY <1>0, <1>3 DEF Exit, ProcessGone, TypeOK
<1>4. CASE PowerLoss
  <2>1. file' \in Seq(Lines) /\ returned' \subseteq returned
    BY <1>4, LeftOver
  <2> QED
    BY <1>0, <1>4, <2>1 DEF PowerLoss, ProcessGone, TypeOK
<1>5. CASE Unlink
  <2>1. 0 \in 0 .. MaxEdits
    BY LedgerAssumption
  <2> QED
    BY <1>0, <1>5, <2>1 DEF Unlink, TypeOK, handle
<1>6. CASE Editing
  BY <1>6, EditingTyped
<1>7. CASE UNCHANGED vars
  BY <1>7 DEF vars, TypeOK
<1> QED
  BY <1>1, <1>2, <1>3, <1>4, <1>5, <1>6, <1>7 DEF Next

(***************************************************************************)
(* The state of a ledger keeps its shape: every line of the file is an     *)
(* entry or what a failed write left, and the handle is one an entry can   *)
(* be drafted from.                                                        *)
(***************************************************************************)
THEOREM LedgerTypeCorrect == Spec => []TypeOK
<1> QED
  BY InitTyped, NextTyped, PTL DEF Spec
=============================================================================
