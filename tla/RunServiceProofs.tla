-------------------------- MODULE RunServiceProofs --------------------------
(***************************************************************************)
(* For any number of clients, runs, entries and places in the store: what  *)
(* the service keeps is bounded, and as long as no two requests for one    *)
(* run overlap a run it serves has a ledger that is its own.               *)
(*                                                                         *)
(* The invariant follows one request line by line, from the file it has    *)
(* emptied to the chain it has completed.  That the other requests do not  *)
(* disturb it is that they work on other files.                            *)
(***************************************************************************)
EXTENDS RunService, TLAPS

Hashes == Seq(Nat \X (1 .. MaxPosts))

Lines == [readable : {TRUE}, seq : Nat, body : 1 .. MaxPosts,
          prev : Hashes, hash : Hashes]

(***************************************************************************)
(* The types in full, with those of the chains.                            *)
(***************************************************************************)
Typed ==
  /\ overlap \in BOOLEAN
  /\ disk \in [RunIds -> Seq(Lines)]
  /\ pc \in [Clients -> {"idle", "check", "unlink", "open", "run", "store",
                         "summarise"}]
  /\ runId \in [Clients -> RunIds]
  /\ post \in [Clients -> 0 .. MaxPosts]
  /\ left \in [Clients -> 0 .. Entries]
  /\ seq \in [Clients -> Nat]
  /\ head \in [Clients -> Hashes]
  /\ runs \in [RunIds -> [post : 0 .. MaxPosts, head : Hashes]]
  /\ order \in Seq(RunIds)
  /\ posts \in 0 .. MaxPosts
  /\ answer \in [Clients -> {"none", "error", "intact", "broken"}]

(***************************************************************************)
(* A request has a number, and writes as many entries as it has left.      *)
(***************************************************************************)
Underway(c) ==
  /\ pc[c] # "idle" => post[c] \in 1 .. MaxPosts
  /\ pc[c] \in {"check", "unlink", "open"} => left[c] = Entries
  /\ pc[c] = "run" => left[c] \in 1 .. Entries

Listed ==
  /\ Len(order) <= Keep
  /\ \A r \in RunIds : Held(r) => \E i \in 1 .. Len(order) : order[i] = r

TInv == Typed /\ (\A c \in Clients : Underway(c)) /\ Listed

-----------------------------------------------------------------------------
(***************************************************************************)
(* Lemmas about the chain: an entry is a line, and resuming is typed.      *)
(***************************************************************************)
LEMMA GenesisIsAHash == Genesis \in Hashes
BY DEF Genesis, Hashes

(***************************************************************************)
(* No line is torn, so what is stored is appended.                         *)
(***************************************************************************)
LEMMA StoreAppends ==
  ASSUME NEW f \in Seq(Lines), NEW e \in Lines
  PROVE  /\ Store(f, e) \in Seq(Lines)
         /\ Len(Store(f, e)) = Len(f) + 1 /\ Len(f) \in Nat
         /\ \A i \in 1 .. Len(f) : Store(f, e)[i] = f[i]
         /\ Store(f, e)[Len(f) + 1] = e
<1>1. \A l \in Lines : l.readable = TRUE
  BY DEF Lines
<1>2. Torn.readable = FALSE
  BY DEF Torn
<1>3. f # << >> => f[Len(f)] \in Lines
  OBVIOUS
<1>4. f # << >> => LastOf(f) # Torn
  BY <1>1, <1>2, <1>3 DEF LastOf
<1>5. Store(f, e) = Append(f, e)
  BY <1>4 DEF Store
<1> QED
  BY <1>5

(***************************************************************************)
(* A handle opened on a file of lines has a number and a hash.             *)
(***************************************************************************)
LEMMA ResumeIsTyped ==
  ASSUME NEW f \in Seq(Lines)
  PROVE  NextSeq(f) \in Nat /\ HeadHash(f) \in Hashes
<1>1. f # << >> => f[Len(f)] \in Lines
  OBVIOUS
<1>2. f # << >> => LastOf(f).seq \in Nat /\ LastOf(f).hash \in Hashes
  BY <1>1 DEF LastOf, Lines
<1> QED
  BY <1>2, GenesisIsAHash DEF NextSeq, HeadHash

-----------------------------------------------------------------------------
(***************************************************************************)
(* The types, the bound of the store and its order.                        *)
(***************************************************************************)
LEMMA InitTInv == Init => TInv
<1> SUFFICES ASSUME Init PROVE TInv
  OBVIOUS
<1>1. (CHOOSE r \in RunIds : TRUE) \in RunIds
  BY RunServiceAssumption
<1>2. /\ << >> \in Seq(Lines) /\ << >> \in Seq(RunIds) /\ Len(<< >>) = 0
      /\ 0 \in 0 .. MaxPosts /\ 0 \in 0 .. Entries
  BY RunServiceAssumption
<1>3. Typed
  BY <1>1, <1>2, GenesisIsAHash DEF Init, Typed, NoRun
<1>4. \A c \in Clients : Underway(c)
  BY DEF Init, Underway
<1>5. Listed
  BY <1>2, RunServiceAssumption DEF Init, Listed, Held
<1> QED
  BY <1>3, <1>4, <1>5 DEF TInv

(***************************************************************************)
(* What RunStore.add does to the order: the run that falls out at the      *)
(* front is not held either, and every other run held stays listed.        *)
(***************************************************************************)
LEMMA AddListed ==
  ASSUME TInv, NEW c \in Clients, Add(c)
  PROVE  Listed' /\ order' \in Seq(RunIds)
         /\ runs' \in [RunIds -> [post : 0 .. MaxPosts, head : Hashes]]
<1> DEFINE mine  == [post |-> post[c], head |-> head[c]]
           added == [runs EXCEPT ![runId[c]] = mine]
           names == Append(order, runId[c])
<1>1. /\ runId[c] \in RunIds /\ mine \in [post : 0 .. MaxPosts, head : Hashes]
      /\ order \in Seq(RunIds) /\ Keep \in Nat \ {0}
      /\ runs \in [RunIds -> [post : 0 .. MaxPosts, head : Hashes]]
      /\ NoRun \in [post : 0 .. MaxPosts, head : Hashes]
  BY RunServiceAssumption, GenesisIsAHash DEF TInv, Typed, NoRun
<1>2. /\ names \in Seq(RunIds) /\ Len(names) = Len(order) + 1
      /\ Len(order) \in Nat /\ Len(order) <= Keep
      /\ \A i \in 1 .. Len(order) : names[i] = order[i]
      /\ names[Len(order) + 1] = runId[c]
      /\ names # << >> /\ Head(names) = names[1] /\ Head(names) \in RunIds
  BY <1>1 DEF TInv, Listed
<1>3. \A r \in RunIds : added[r] # NoRun =>
        \E i \in 1 .. Len(names) : names[i] = r
  <2> SUFFICES ASSUME NEW r \in RunIds, added[r] # NoRun
               PROVE  \E i \in 1 .. Len(names) : names[i] = r
    OBVIOUS
  <2>1. CASE r = runId[c]
    BY <1>2, <2>1
  <2>2. CASE r # runId[c]
    <3>1. Held(r)
      BY <1>1, <2>2 DEF Held
    <3>2. PICK i \in 1 .. Len(order) : order[i] = r
      BY <3>1 DEF TInv, Listed
    <3> QED
      BY <1>2, <3>2
  <2> QED
    BY <2>1, <2>2
<1>4. added \in [RunIds -> [post : 0 .. MaxPosts, head : Hashes]]
  BY <1>1
<1>5. CASE Len(names) > Keep
  <2>1. /\ runs' = [added EXCEPT ![Head(names)] = NoRun]
        /\ order' = Tail(names)
    BY <1>5 DEF Add
  <2> HIDE DEF added, names
  <2>2. /\ Tail(names) \in Seq(RunIds) /\ Len(Tail(names)) = Len(names) - 1
        /\ \A i \in 1 .. Len(names) - 1 : Tail(names)[i] = names[i + 1]
    BY <1>2
  <2>3. ASSUME NEW r \in RunIds, runs'[r] # NoRun
        PROVE  \E i \in 1 .. Len(Tail(names)) : Tail(names)[i] = r
    <3>1. r # Head(names) /\ added[r] # NoRun
      BY <1>4, <2>1, <2>3
    <3>2. PICK j \in 1 .. Len(names) : names[j] = r
      BY <1>3, <3>1
    <3>3. j # 1
      BY <1>2, <3>1, <3>2
    <3>4. j - 1 \in 1 .. Len(names) - 1 /\ (j - 1) + 1 = j
      BY <1>2, <3>3
    <3>5. j - 1 \in 1 .. Len(Tail(names)) /\ Tail(names)[j - 1] = r
      BY <2>2, <3>2, <3>4
    <3> QED
      BY <3>5
  <2>4. Len(order') <= Keep
    BY <1>2, <2>1, <2>2
  <2>5. Listed'
    BY <2>1, <2>3, <2>4 DEF Listed, Held
  <2> QED
    BY <1>1, <1>2, <1>4, <2>1, <2>2, <2>5
<1>6. CASE ~(Len(names) > Keep)
  <2>1. runs' = added /\ order' = names
    BY <1>6 DEF Add
  <2> HIDE DEF added, names
  <2>2. Listed'
    BY <1>1, <1>2, <1>3, <1>6, <2>1 DEF Listed, Held
  <2> QED
    BY <1>2, <1>4, <2>1, <2>2
<1> QED
  BY <1>5, <1>6

(***************************************************************************)
(* A call that ends forgets what it knew, and leaves the others alone.     *)
(***************************************************************************)
LEMMA AnswerTyped ==
  ASSUME TInv, NEW c \in Clients, NEW what \in {"error", "intact", "broken"},
         Answer(c, what), UNCHANGED <<disk, store>>
  PROVE  TInv'
<1>1. 0 \in 0 .. MaxPosts /\ 0 \in 0 .. Entries
  BY RunServiceAssumption
<1>2. Typed'
  BY <1>1, GenesisIsAHash DEF TInv, Typed, Answer, store
<1>3. \A d \in Clients : Underway(d)'
  BY DEF TInv, Typed, Underway, Answer
<1>4. Listed'
  BY DEF TInv, Listed, Held, store
<1> QED
  BY <1>2, <1>3, <1>4 DEF TInv

(***************************************************************************)
(* The order and the runs it lists are Add's alone.                        *)
(***************************************************************************)
LEMMA ListedStands ==
  ASSUME Listed, UNCHANGED store
  PROVE  Listed'
BY DEF Listed, Held, store

(***************************************************************************)
(* What a handle writes is a line that commits to its head.                *)
(***************************************************************************)
LEMMA WrittenIsALine ==
  ASSUME NEW c \in Clients, seq[c] \in Nat, post[c] \in 1 .. MaxPosts,
         head[c] \in Hashes
  PROVE  /\ Written(c) \in Lines /\ Written(c).hash \in Hashes
         /\ Written(c).readable = TRUE
         /\ Written(c).seq = seq[c] /\ Written(c).body = post[c]
         /\ Written(c).prev = head[c]
         /\ Written(c).hash = HashOf(seq[c], post[c], head[c])
<1>1. <<seq[c], post[c]>> \in Nat \X (1 .. MaxPosts)
  OBVIOUS
<1>2. HashOf(seq[c], post[c], head[c]) \in Hashes
  BY <1>1 DEF HashOf, Hashes
<1> QED
  BY <1>2 DEF Written, Entry, Lines

(***************************************************************************)
(* The types, action by action.                                            *)
(***************************************************************************)
LEMMA StepTInv ==
  ASSUME TInv, NEW c \in Clients, Step(c)
  PROVE  TInv'
<1> USE RunServiceAssumption
<1>1. ASSUME NEW r \in RunIds, Post(c, r)
      PROVE  TInv'
  <2>1. posts + 1 \in 1 .. MaxPosts /\ Entries \in 0 .. Entries
    BY <1>1 DEF Post, TInv, Typed
  <2>2. Typed'
    BY <1>1, <2>1 DEF Post, TInv, Typed, store
  <2>3. \A d \in Clients : Underway(d)'
    BY <1>1, <2>1 DEF Post, TInv, Typed, Underway
  <2> QED
    BY <1>1, <2>2, <2>3, ListedStands DEF Post, TInv, store
<1>2. CASE Check(c)
  <2>1. Typed'
    BY <1>2 DEF Check, TInv, Typed, request, ledger, store
  <2>2. \A d \in Clients : Underway(d)'
    BY <1>2 DEF Check, TInv, Typed, Underway, request, ledger
  <2> QED
    BY <1>2, <2>1, <2>2, ListedStands DEF Check, TInv
<1>3. CASE Unlink(c)
  <2>1. Typed'
    BY <1>3 DEF Unlink, TInv, Typed, request, ledger, store
  <2>2. \A d \in Clients : Underway(d)'
    BY <1>3 DEF Unlink, TInv, Typed, Underway, request, ledger
  <2> QED
    BY <1>3, <2>1, <2>2, ListedStands DEF Unlink, TInv
<1>4. CASE UnlinkRaises(c)
  BY <1>4, AnswerTyped DEF UnlinkRaises
<1>5. CASE Open(c)
  <2>1. NextSeq(File(c)) \in Nat /\ HeadHash(File(c)) \in Hashes
    BY ResumeIsTyped DEF File, TInv, Typed
  <2>2. Typed'
    BY <1>5, <2>1 DEF Open, TInv, Typed, request, store
  <2>3. \A d \in Clients : Underway(d)'
    BY <1>5 DEF Open, TInv, Typed, Underway, request
  <2> QED
    BY <1>5, <2>2, <2>3, ListedStands DEF Open, TInv
<1>6. CASE AppendEntry(c)
  <2>1. post[c] \in 1 .. MaxPosts /\ left[c] \in 1 .. Entries
    BY <1>6 DEF AppendEntry, TInv, Typed, Underway
  <2>2. seq[c] \in Nat /\ head[c] \in Hashes
    BY DEF TInv, Typed
  <2>3. Written(c) \in Lines /\ Written(c).hash \in Hashes
    BY <2>1, <2>2, WrittenIsALine
  <2>4. Store(disk[runId[c]], Written(c)) \in Seq(Lines)
    BY <2>3, StoreAppends DEF TInv, Typed
  <2>5. disk' \in [RunIds -> Seq(Lines)]
    BY <1>6, <2>4 DEF AppendEntry, TInv, Typed
  <2>6. /\ head' \in [Clients -> Hashes]
        /\ left[c] - 1 \in 0 .. Entries /\ seq[c] + 1 \in Nat
        /\ left[c] # 1 => left[c] - 1 \in 1 .. Entries
    BY <1>6, <2>1, <2>2, <2>3 DEF AppendEntry, TInv, Typed
  <2>7. Typed'
    BY <1>6, <2>5, <2>6 DEF AppendEntry, TInv, Typed, request, store
  <2>8. \A d \in Clients : Underway(d)'
    BY <1>6, <2>6 DEF AppendEntry, TInv, Typed, Underway, request
  <2> QED
    BY <1>6, <2>7, <2>8, ListedStands DEF AppendEntry, TInv
<1>7. CASE RunRaises(c)
  BY <1>7, AnswerTyped DEF RunRaises
<1>8. CASE Add(c)
  <2>1. /\ Listed' /\ order' \in Seq(RunIds)
        /\ runs' \in [RunIds -> [post : 0 .. MaxPosts, head : Hashes]]
    BY <1>8, AddListed
  <2>2. Typed'
    BY <1>8, <2>1 DEF Add, TInv, Typed, request, ledger
  <2>3. \A d \in Clients : Underway(d)'
    BY <1>8 DEF Add, TInv, Typed, Underway, request, ledger
  <2> QED
    BY <2>1, <2>2, <2>3 DEF TInv
<1>9. CASE Summarise(c)
  BY <1>9, AnswerTyped DEF Summarise
<1> QED
  BY <1>1, <1>2, <1>3, <1>4, <1>5, <1>6, <1>7, <1>8, <1>9 DEF Step

(***************************************************************************)
(* The types, the numbers of the requests and the bound of the store, in   *)
(* every state.                                                            *)
(***************************************************************************)
LEMMA TypedAlways == Spec => []TInv
<1>1. TInv /\ [Next]_vars => TInv'
  <2> SUFFICES ASSUME TInv, [Next]_vars PROVE TInv'
    OBVIOUS
  <2>1. CASE Next
    BY <2>1, StepTInv DEF Next
  <2>2. CASE UNCHANGED vars
    BY <2>2 DEF vars, TInv, Typed, Underway, Listed, Held
  <2> QED
    BY <2>1, <2>2
<1> QED
  BY <1>1, InitTInv, PTL DEF Spec

(***************************************************************************)
(* The shape of the state of the requests, the files and the store.        *)
(***************************************************************************)
THEOREM TypeCorrect == Spec => []TypeOK
<1>1. TInv => TypeOK
  <2> SUFFICES ASSUME TInv PROVE TypeOK
    OBVIOUS
  <2>1. ASSUME NEW r \in RunIds, NEW i \in DOMAIN disk[r]
        PROVE  /\ disk[r][i].readable
               /\ disk[r][i].seq \in Nat
               /\ disk[r][i].body \in 1 .. MaxPosts
    <3>1. disk[r] \in Seq(Lines)
      BY DEF TInv, Typed
    <3>2. disk[r][i] \in Lines
      BY <3>1
    <3> QED
      BY <3>2 DEF Lines
  <2>2. \A r \in RunIds : runs[r].post \in 0 .. MaxPosts
    BY DEF TInv, Typed
  <2> QED
    BY <2>1, <2>2 DEF TInv, Typed, TypeOK
<1> QED
  BY <1>1, TypedAlways, PTL

(***************************************************************************)
(* A run held is one of the last Keep added: the store is bounded however  *)
(* the requests interleave (RunStore.add, api/service.py:250).             *)
(***************************************************************************)
THEOREM StoreIsBounded == Spec => []HeldRunsAreListed
<1>1. TInv => HeldRunsAreListed
  <2> SUFFICES ASSUME TInv PROVE HeldRunsAreListed
    OBVIOUS
  <2>1. order \in Seq(RunIds) /\ DOMAIN order = 1 .. Len(order)
    BY DEF TInv, Typed
  <2> QED
    BY <2>1 DEF TInv, Listed, HeldRunsAreListed, Range
<1> QED
  BY <1>1, TypedAlways, PTL

-----------------------------------------------------------------------------
(***************************************************************************)
(* The requests do not meet.  A file is whole up to n when it has n lines, *)
(* all of one post, that link up.                                          *)
(***************************************************************************)
Whole(f, p, n) ==
  /\ Len(f) = n
  /\ \A i \in 1 .. n : f[i].body = p /\ LinksUp(f, i)

Alone ==
  \A c, d \in Clients :
    pc[c] # "idle" /\ pc[d] # "idle" /\ runId[c] = runId[d] => c = d

(***************************************************************************)
(* The number of a request is above that of the run it is to replace.      *)
(***************************************************************************)
Above(c) ==
  /\ post[c] <= posts
  /\ pc[c] \in {"check", "unlink", "open", "run", "store"} =>
       runs[runId[c]].post < post[c]

Numbered ==
  /\ \A r \in RunIds : runs[r].post <= posts
  /\ \A c \in Clients : Above(c)

(***************************************************************************)
(* What a request knows of its file at each line.                          *)
(***************************************************************************)
Mine(c) ==
  /\ pc[c] = "open" => File(c) = << >>
  /\ pc[c] = "run" => /\ Whole(File(c), post[c], Entries - left[c])
                      /\ seq[c] = Len(File(c))
                      /\ head[c] = HeadHash(File(c))
  /\ pc[c] = "store" => /\ Whole(File(c), post[c], Entries)
                        /\ head[c] = HeadHash(File(c))
  /\ pc[c] = "summarise" => Whole(File(c), post[c], Entries)

Served(r) ==
  Held(r) /\ (\E i \in 1 .. Len(disk[r]) : disk[r][i].body = runs[r].post) =>
    /\ Whole(disk[r], runs[r].post, Entries)
    /\ HeadHash(disk[r]) = runs[r].head

SInv ==
  /\ Alone /\ Numbered
  /\ \A c \in Clients : Mine(c)
  /\ \A r \in RunIds : Served(r)
  /\ \A c \in Clients : answer[c] # "broken"

IInv == TInv /\ (~overlap => SInv)

(***************************************************************************)
(* A step is one client's: it changes nothing another client knows, no     *)
(* file but its own and that only under way, and no run but by Add.        *)
(***************************************************************************)
LEMMA StepIsLocal ==
  ASSUME TInv, NEW c \in Clients, Step(c), NEW d \in Clients, d # c
  PROVE  /\ pc'[d] = pc[d] /\ runId'[d] = runId[d] /\ post'[d] = post[d]
         /\ left'[d] = left[d] /\ seq'[d] = seq[d] /\ head'[d] = head[d]
         /\ answer'[d] = answer[d]
<1> USE DEF TInv, Typed
<1>1. ASSUME NEW r \in RunIds, Post(c, r)
      PROVE  /\ pc'[d] = pc[d] /\ runId'[d] = runId[d] /\ post'[d] = post[d]
             /\ left'[d] = left[d] /\ seq'[d] = seq[d] /\ head'[d] = head[d]
             /\ answer'[d] = answer[d]
  BY <1>1 DEF Post
<1>2. CASE Check(c) \/ Unlink(c) \/ Open(c) \/ AppendEntry(c) \/ Add(c)
  BY <1>2 DEF Check, Unlink, Open, AppendEntry, Add, request, ledger
<1>3. CASE UnlinkRaises(c) \/ RunRaises(c) \/ Summarise(c)
  BY <1>3 DEF UnlinkRaises, RunRaises, Summarise, Answer
<1> QED
  BY <1>1, <1>2, <1>3 DEF Step

(***************************************************************************)
(* Only a request under way changes a file, and only the file it names.    *)
(***************************************************************************)
LEMMA OtherFilesStand ==
  ASSUME TInv, NEW c \in Clients, Step(c), NEW r \in RunIds, disk'[r] # disk[r]
  PROVE  /\ r = runId[c] /\ pc[c] # "idle"
         /\ Unlink(c) \/ AppendEntry(c)
<1> USE DEF TInv, Typed
<1>1. CASE Unlink(c)
  BY <1>1 DEF Unlink
<1>2. CASE AppendEntry(c)
  BY <1>2 DEF AppendEntry
<1>3. CASE ~Unlink(c) /\ ~AppendEntry(c)
  BY <1>3 DEF Step, Post, Check, Open, Add, UnlinkRaises, RunRaises, Summarise
<1> QED
  BY <1>1, <1>2, <1>3

(***************************************************************************)
(* Only Add changes a run: its own, and one it drops.                      *)
(***************************************************************************)
LEMMA OtherRunsStand ==
  ASSUME TInv, NEW c \in Clients, Step(c), NEW r \in RunIds,
         runs'[r] # runs[r], runs'[r] # NoRun
  PROVE  /\ r = runId[c] /\ Add(c)
         /\ runs'[r] = [post |-> post[c], head |-> head[c]]
<1> USE DEF TInv, Typed
<1>1. CASE Add(c)
  <2> DEFINE mine == [post |-> post[c], head |-> head[c]]
             added == [runs EXCEPT ![runId[c]] = mine]
             names == Append(order, runId[c])
  <2>1. runs' = added \/ runs' = [added EXCEPT ![Head(names)] = NoRun]
    BY <1>1 DEF Add
  <2>2. runs'[r] = added[r]
    BY <2>1
  <2> QED
    BY <1>1, <2>2
<1>2. CASE ~Add(c)
  BY <1>2 DEF Step, Post, Check, Unlink, Open, AppendEntry, UnlinkRaises,
     RunRaises, Summarise, store
<1> QED
  BY <1>1, <1>2

-----------------------------------------------------------------------------
(***************************************************************************)
(* The requests keep apart, and their numbers grow.                        *)
(***************************************************************************)
LEMMA AloneStep ==
  ASSUME TInv, ~overlap, Alone, NEW c \in Clients, Step(c)
  PROVE  Alone'
<1>1. ASSUME NEW r \in RunIds, Post(c, r)
      PROVE  Alone'
  BY <1>1 DEF Post, Alone, Executing, TInv, Typed
<1>2. CASE ~\E r \in RunIds : Post(c, r)
  <2>1. pc[c] # "idle" /\ runId' = runId
    BY <1>2 DEF Step, Check, Unlink, Open, AppendEntry, Add, UnlinkRaises,
       RunRaises, Summarise, Answer, request
  <2> QED
    BY <2>1, StepIsLocal DEF Alone
<1> QED
  BY <1>1, <1>2

(***************************************************************************)
(* A post is given a number above all before it, so the run it is to       *)
(* replace stays below it until it is replaced.                            *)
(***************************************************************************)
LEMMA NumberedStep ==
  ASSUME TInv, Alone, Numbered, NEW c \in Clients, Step(c)
  PROVE  Numbered'
<1>1. /\ posts \in Nat /\ \A d \in Clients : post[d] \in Nat
      /\ \A r \in RunIds : runs[r].post \in Nat /\ runs[r].post <= posts
      /\ \A d \in Clients : runId[d] \in RunIds
      /\ NoRun.post = 0
  BY RunServiceAssumption DEF TInv, Typed, Numbered, NoRun
<1>2. posts' \in Nat /\ posts <= posts'
  BY <1>1 DEF Step, Post, Check, Unlink, Open, AppendEntry, Add, UnlinkRaises,
     RunRaises, Summarise, Answer
<1>3. ASSUME NEW r \in RunIds
      PROVE  runs'[r].post \in Nat /\ runs'[r].post <= posts'
  <2>1. CASE runs'[r] = runs[r] \/ runs'[r] = NoRun
    BY <1>1, <1>2, <2>1
  <2>2. CASE runs'[r] # runs[r] /\ runs'[r] # NoRun
    <3>1. runs'[r] = [post |-> post[c], head |-> head[c]]
      BY <2>2, OtherRunsStand
    <3>2. post[c] <= posts
      BY DEF Numbered, Above
    <3> QED
      BY <1>1, <1>2, <3>1, <3>2
  <2> QED
    BY <2>1, <2>2
<1>4. ASSUME NEW d \in Clients, d # c
      PROVE  Above(d)'
  <2>1. pc'[d] = pc[d] /\ runId'[d] = runId[d] /\ post'[d] = post[d]
    BY <1>4, StepIsLocal
  <2>2. Above(d) /\ post'[d] <= posts'
    BY <1>1, <1>2, <2>1 DEF Numbered, Above
  <2>3. CASE pc[d] \in {"check", "unlink", "open", "run", "store"}
    <3>1. 0 < post[d]
      BY <1>1, <2>2, <2>3 DEF Above
    <3>2. runs'[runId[d]] = runs[runId[d]] \/ runs'[runId[d]] = NoRun
      <4>1. Add(c) => runId[c] # runId[d]
        BY <1>4, <2>3 DEF Alone, Add
      <4> QED
        BY <1>1, <4>1, OtherRunsStand
    <3> QED
      BY <1>1, <2>1, <2>2, <3>1, <3>2 DEF Above
  <2> QED
    BY <2>1, <2>2, <2>3 DEF Above
<1>5. Above(c)'
  <2> USE DEF TInv, Typed
  <2>1. ASSUME NEW r \in RunIds, Post(c, r)
        PROVE  Above(c)'
    BY <1>1, <2>1 DEF Post, Above, store
  <2>2. CASE Check(c) \/ Unlink(c) \/ Open(c) \/ AppendEntry(c)
    BY <1>1, <2>2 DEF Check, Unlink, Open, AppendEntry, Above, Numbered,
       request, store
  <2>3. CASE Add(c)
    BY <1>1, <2>3 DEF Add, Above, Numbered, request
  <2>4. CASE UnlinkRaises(c) \/ RunRaises(c) \/ Summarise(c)
    BY <1>1, <2>4 DEF UnlinkRaises, RunRaises, Summarise, Answer, Above
  <2> QED
    BY <2>1, <2>2, <2>3, <2>4 DEF Step
<1> QED
  BY <1>3, <1>4, <1>5 DEF Numbered

-----------------------------------------------------------------------------
(***************************************************************************)
(* The chain is made longer by an entry that names its head.               *)
(***************************************************************************)
LEMMA LongerChain ==
  ASSUME NEW f \in Seq(Lines), NEW p, NEW n \in Nat, Whole(f, p, n),
         NEW e \in Lines, e.seq = n, e.body = p, e.prev = HeadHash(f),
         e.hash = HashOf(e.seq, e.body, e.prev)
  PROVE  /\ Whole(Store(f, e), p, n + 1)
         /\ HeadHash(Store(f, e)) = e.hash
<1> DEFINE g == Store(f, e)
<1>1. /\ g \in Seq(Lines) /\ Len(f) = n /\ Len(g) = n + 1
      /\ \A i \in 1 .. n : g[i] = f[i]
      /\ g[n + 1] = e
  <2>1. Len(f) = n
    BY DEF Whole
  <2>2. /\ Store(f, e) \in Seq(Lines)
        /\ Len(Store(f, e)) = Len(f) + 1
        /\ \A i \in 1 .. Len(f) : Store(f, e)[i] = f[i]
        /\ Store(f, e)[Len(f) + 1] = e
    BY StoreAppends, Zenon
  <2> QED
    BY <2>1, <2>2
<1> HIDE DEF g
<1>2. ASSUME NEW i \in 1 .. n PROVE g[i].body = p /\ LinksUp(g, i)
  <2>1. f[i].body = p /\ LinksUp(f, i)
    BY DEF Whole
  <2>2. PrevHash(g, i) = PrevHash(f, i)
    <3>1. i # 1 => i - 1 \in 1 .. n
      OBVIOUS
    <3> QED
      BY <1>1, <3>1 DEF PrevHash
  <2> QED
    BY <1>1, <2>1, <2>2 DEF LinksUp
<1>3. PrevHash(g, n + 1) = HeadHash(f)
  <2>1. CASE n = 0
    <3>1. f = << >>
      BY <1>1, <2>1
    <3> QED
      BY <2>1, <3>1 DEF PrevHash, HeadHash
  <2>2. CASE n # 0
    <3>1. n \in 1 .. n /\ f # << >> /\ n + 1 # 1 /\ (n + 1) - 1 = n
      BY <1>1, <2>2
    <3> QED
      BY <1>1, <3>1 DEF PrevHash, HeadHash, LastOf
  <2> QED
    BY <2>1, <2>2
<1>4. g[n + 1].body = p /\ LinksUp(g, n + 1)
  <2>1. e.readable
    BY DEF Lines
  <2>2. (n + 1) - 1 = n
    OBVIOUS
  <2> QED
    BY <1>1, <1>3, <2>1, <2>2 DEF LinksUp
<1>5. Whole(g, p, n + 1)
  <2>1. \A i \in 1 .. n + 1 : i \in 1 .. n \/ i = n + 1
    OBVIOUS
  <2> QED
    BY <1>1, <1>2, <1>4, <2>1 DEF Whole
<1>6. HeadHash(g) = e.hash
  <2>1. g # << >>
    BY <1>1
  <2> QED
    BY <1>1, <2>1 DEF HeadHash, LastOf
<1> QED
  BY <1>5, <1>6 DEF g

-----------------------------------------------------------------------------
(***************************************************************************)
(* What another request knows of its file is not disturbed.                *)
(***************************************************************************)
LEMMA OthersMine ==
  ASSUME TInv, Alone, NEW c \in Clients, Step(c),
         NEW d \in Clients, d # c, Mine(d)
  PROVE  Mine(d)'
<1>1. /\ pc'[d] = pc[d] /\ runId'[d] = runId[d] /\ post'[d] = post[d]
      /\ left'[d] = left[d] /\ seq'[d] = seq[d] /\ head'[d] = head[d]
  BY StepIsLocal
<1>2. CASE pc[d] = "idle"
  BY <1>1, <1>2 DEF Mine
<1>3. CASE pc[d] # "idle"
  <2>1. runId[d] \in RunIds
    BY DEF TInv, Typed
  <2>2. disk'[runId[d]] = disk[runId[d]]
    BY <1>3, <2>1, OtherFilesStand DEF Alone
  <2>3. File(d)' = File(d)
    BY <1>1, <2>2 DEF File
  <2> QED
    BY <1>1, <2>3 DEF Mine
<1> QED
  BY <1>2, <1>3

(***************************************************************************)
(* What the acting request knows follows its program.                      *)
(***************************************************************************)
LEMMA OwnMine ==
  ASSUME TInv, NEW c \in Clients, Mine(c), Step(c)
  PROVE  Mine(c)'
<1> USE DEF TInv, Typed
<1>1. ASSUME NEW r \in RunIds, Post(c, r)
      PROVE  Mine(c)'
  BY <1>1 DEF Post, Mine
<1>2. CASE Check(c)
  <2>1. File(c)' = File(c)
    BY <1>2 DEF Check, request, File
  <2>2. pc'[c] \in {"open", "unlink"} /\ (pc'[c] = "open" => File(c) = << >>)
    BY <1>2 DEF Check
  <2> QED
    BY <2>1, <2>2 DEF Mine
<1>3. CASE Unlink(c)
  <2>1. pc'[c] = "open" /\ File(c)' = << >>
    BY <1>3 DEF Unlink, request, File
  <2> QED
    BY <2>1 DEF Mine
<1>4. CASE Open(c)
  <2>1. File(c) = << >> /\ left[c] = Entries
    BY <1>4 DEF Open, Mine, Underway
  <2>2. /\ seq'[c] = 0 /\ head'[c] = HeadHash(File(c)) /\ pc'[c] = "run"
        /\ left'[c] = Entries /\ File(c)' = File(c)
    BY <1>4, <2>1 DEF Open, request, File, NextSeq
  <2>3. Whole(<< >>, post'[c], 0) /\ Entries - Entries = 0 /\ Len(<< >>) = 0
    BY RunServiceAssumption DEF Whole
  <2> QED
    BY <2>1, <2>2, <2>3 DEF Mine
<1>5. CASE AppendEntry(c)
  <2> DEFINE f == disk[runId[c]]
             n == Entries - left[c]
             g == Store(f, Written(c))
  <2>1. /\ Whole(f, post[c], n) /\ seq[c] = Len(f) /\ head[c] = HeadHash(f)
        /\ left[c] \in 1 .. Entries /\ post[c] \in 1 .. MaxPosts
        /\ n \in Nat /\ f \in Seq(Lines) /\ pc[c] = "run"
    BY <1>5, RunServiceAssumption DEF AppendEntry, Mine, File, Underway
  <2>2. /\ Written(c) \in Lines /\ Written(c).readable = TRUE
        /\ Written(c).seq = seq[c] /\ Written(c).body = post[c]
        /\ Written(c).prev = head[c]
        /\ Written(c).hash = HashOf(seq[c], post[c], head[c])
    BY <2>1, WrittenIsALine
  <2>3. seq[c] = n
    BY <2>1 DEF Whole
  <2>4. File(c)' = g
    BY <1>5 DEF AppendEntry, request, File
  <2> HIDE DEF f, n
  <2>5. Whole(g, post[c], n + 1) /\ HeadHash(g) = Written(c).hash
    <3>1. /\ f \in Seq(Lines) /\ n \in Nat /\ Whole(f, post[c], n)
          /\ Written(c) \in Lines /\ Written(c).seq = n
          /\ Written(c).body = post[c] /\ Written(c).prev = HeadHash(f)
          /\ Written(c).hash = HashOf(Written(c).seq, Written(c).body,
                                      Written(c).prev)
      BY <2>1, <2>2, <2>3
    <3> QED
      BY <3>1, LongerChain, Zenon
  <2> HIDE DEF g
  <2>6. /\ post'[c] = post[c] /\ seq'[c] = n + 1 /\ head'[c] = Written(c).hash
        /\ left'[c] = left[c] - 1
        /\ pc'[c] = IF left[c] = 1 THEN "store" ELSE "run"
    BY <1>5, <2>3 DEF AppendEntry, request
  <2>7. n + 1 = Entries - (left[c] - 1) /\ (left[c] = 1 => n + 1 = Entries)
    BY <2>1, RunServiceAssumption DEF n
  <2>8. Len(g) = n + 1
    BY <2>5 DEF Whole
  <2>9. CASE left[c] = 1
    <3>1. pc'[c] = "store" /\ Whole(File(c)', post'[c], Entries)
      BY <2>4, <2>5, <2>6, <2>7, <2>9
    <3> QED
      BY <2>4, <2>5, <2>6, <3>1 DEF Mine
  <2>10. CASE left[c] # 1
    <3>1. pc'[c] = "run" /\ Whole(File(c)', post'[c], Entries - left'[c])
      BY <2>4, <2>5, <2>6, <2>7, <2>10
    <3> QED
      BY <2>4, <2>5, <2>6, <2>8, <3>1 DEF Mine
  <2> QED
    BY <2>9, <2>10
<1>6. CASE Add(c)
  <2>1. /\ File(c)' = File(c) /\ post'[c] = post[c] /\ pc'[c] = "summarise"
        /\ pc[c] = "store"
    BY <1>6 DEF Add, request, File
  <2> QED
    BY <2>1 DEF Mine
<1>7. CASE UnlinkRaises(c) \/ RunRaises(c) \/ Summarise(c)
  <2>1. pc'[c] = "idle"
    BY <1>7 DEF UnlinkRaises, RunRaises, Summarise, Answer
  <2> QED
    BY <2>1 DEF Mine
<1> QED
  BY <1>1, <1>2, <1>3, <1>4, <1>5, <1>6, <1>7 DEF Step

(***************************************************************************)
(* A run served keeps its ledger, loses the whole of it to the request     *)
(* that replaces it, or is replaced with the ledger.                       *)
(***************************************************************************)
LEMMA ServedStep ==
  ASSUME TInv, NEW c \in Clients, Mine(c), Above(c), Step(c),
         Mine(c)', NEW r \in RunIds, Served(r)
  PROVE  Served(r)'
<1> USE DEF TInv, Typed
<1>1. CASE disk'[r] = disk[r] /\ runs'[r] = runs[r]
  BY <1>1 DEF Served, Held
<1>2. CASE runs'[r] = NoRun
  BY <1>2 DEF Served, Held
<1>3. CASE runs'[r] # runs[r] /\ runs'[r] # NoRun
  <2>1. /\ r = runId[c] /\ Add(c)
        /\ runs'[r] = [post |-> post[c], head |-> head[c]]
    BY <1>3, OtherRunsStand
  <2>2. disk'[r] = disk[r] /\ File(c) = disk[r] /\ pc[c] = "store"
    BY <2>1 DEF Add, File
  <2>3. Whole(disk[r], post[c], Entries) /\ head[c] = HeadHash(disk[r])
    BY <2>2 DEF Mine
  <2> QED
    BY <2>1, <2>2, <2>3 DEF Served
<1>4. CASE disk'[r] # disk[r] /\ runs'[r] = runs[r]
  <2>1. r = runId[c] /\ (Unlink(c) \/ AppendEntry(c))
    BY <1>4, OtherFilesStand
  <2>2. CASE Unlink(c)
    <3>1. disk'[r] = << >>
      BY <2>1, <2>2 DEF Unlink
    <3> QED
      BY <3>1 DEF Served
  <2>3. CASE AppendEntry(c)
    <3>1. /\ runs[r].post < post[c] /\ runs[r].post \in Nat /\ post[c] \in Nat
          /\ runId'[c] = r /\ post'[c] = post[c]
          /\ pc'[c] \in {"run", "store"}
      BY <2>1, <2>3, RunServiceAssumption DEF AppendEntry, Above, request
    <3>2. \E n : Whole(disk'[r], post[c], n)
      BY <3>1 DEF Mine, File
    <3>3. \A i \in 1 .. Len(disk'[r]) : disk'[r][i].body = post[c]
      BY <3>2 DEF Whole
    <3>4. ~\E i \in 1 .. Len(disk'[r]) : disk'[r][i].body = runs'[r].post
      BY <1>4, <3>1, <3>3
    <3> QED
      BY <3>4 DEF Served
  <2> QED
    BY <2>1, <2>2, <2>3
<1> QED
  BY <1>1, <1>2, <1>3, <1>4

(***************************************************************************)
(* A ledger found whole is intact, so no post is told otherwise.           *)
(***************************************************************************)
LEMMA NoneBroken ==
  ASSUME TInv, NEW c \in Clients, Mine(c), Step(c),
         \A d \in Clients : answer[d] # "broken"
  PROVE  \A d \in Clients : answer'[d] # "broken"
<1> USE DEF TInv, Typed
<1>1. answer'[c] # "broken"
  <2>1. CASE Summarise(c)
    <3>1. Whole(File(c), post[c], Entries)
      BY <2>1 DEF Summarise, Mine
    <3>2. Intact(File(c))
      BY <3>1 DEF Whole, Intact, Sound
    <3> QED
      BY <2>1, <3>2 DEF Summarise, Answer
  <2>2. CASE UnlinkRaises(c) \/ RunRaises(c)
    BY <2>2 DEF UnlinkRaises, RunRaises, Answer
  <2>3. CASE \E r \in RunIds : Post(c, r)
    BY <2>3 DEF Post
  <2>4. CASE Check(c) \/ Unlink(c) \/ Open(c) \/ AppendEntry(c) \/ Add(c)
    BY <2>4 DEF Check, Unlink, Open, AppendEntry, Add
  <2> QED
    BY <2>1, <2>2, <2>3, <2>4 DEF Step
<1>2. \A d \in Clients : d # c => answer'[d] = answer[d]
  BY StepIsLocal
<1> QED
  BY <1>1, <1>2

-----------------------------------------------------------------------------
(***************************************************************************)
(* At the start nobody is under way and nothing is held.                   *)
(***************************************************************************)
LEMMA InitSInv == Init => SInv
<1> SUFFICES ASSUME Init PROVE SInv
  OBVIOUS
<1>1. /\ Alone /\ (\A c \in Clients : Mine(c))
      /\ \A c \in Clients : answer[c] # "broken"
  BY DEF Init, Alone, Mine
<1>2. Numbered
  BY DEF Init, Numbered, Above, NoRun
<1>3. \A r \in RunIds : Served(r)
  BY DEF Init, Served, Held
<1> QED
  BY <1>1, <1>2, <1>3 DEF SInv

(***************************************************************************)
(* A step of any request keeps the requests apart and their ledgers their  *)
(* own.                                                                    *)
(***************************************************************************)
LEMMA StepSInv ==
  ASSUME TInv, ~overlap, SInv, NEW c \in Clients, Step(c)
  PROVE  SInv'
<1>1. Alone' /\ Numbered'
  BY AloneStep, NumberedStep DEF SInv
<1>2. Mine(c)'
  BY OwnMine DEF SInv
<1>3. \A d \in Clients : Mine(d)'
  BY <1>2, OthersMine DEF SInv
<1>4. \A r \in RunIds : Served(r)'
  BY <1>2, ServedStep DEF SInv, Numbered
<1>5. \A d \in Clients : answer'[d] # "broken"
  BY NoneBroken DEF SInv
<1> QED
  BY <1>1, <1>3, <1>4, <1>5 DEF SInv

(***************************************************************************)
(* The whole invariant in every state; a behaviour in which two requests   *)
(* for one run overlap keeps its types only.                               *)
(***************************************************************************)
LEMMA IInvAlways == Spec => []IInv
<1>1. IInv /\ [Next]_vars => IInv'
  <2> SUFFICES ASSUME IInv, [Next]_vars PROVE IInv'
    OBVIOUS
  <2>1. CASE Next
    <3>1. PICK c \in Clients : Step(c)
      BY <2>1 DEF Next
    <3>2. TInv'
      BY <3>1, StepTInv DEF IInv
    <3>3. overlap' = overlap
      BY <3>1 DEF Step, Post, Check, Unlink, Open, AppendEntry, Add,
         UnlinkRaises, RunRaises, Summarise, Answer, request
    <3> QED
      BY <3>1, <3>2, <3>3, StepSInv DEF IInv
  <2>2. CASE UNCHANGED vars
    BY <2>2 DEF vars, IInv, TInv, Typed, Underway, Listed, Held, SInv, Alone,
       Numbered, Above, Mine, File, Served
  <2> QED
    BY <2>1, <2>2
<1>2. Init => IInv
  BY InitTInv, InitSInv DEF IInv
<1> QED
  BY <1>1, <1>2, PTL DEF Spec

(***************************************************************************)
(* Of requests that do not overlap on a run: a run is served beside the    *)
(* whole of its own ledger or none of it, and every post is told that its  *)
(* ledger is intact (create_run of api/main.py:133-135, RunStore).         *)
(***************************************************************************)
THEOREM ServedLedgers == Spec => []ServedLedgerIsTheRuns
<1>1. IInv => ServedLedgerIsTheRuns
  <2> SUFFICES ASSUME IInv, ~overlap PROVE ServedLedgerIsTheRuns
    BY DEF ServedLedgerIsTheRuns
  <2>1. SInv /\ TInv
    BY DEF IInv
  <2>2. ASSUME NEW r \in RunIds, Held(r),
               \E i \in DOMAIN disk[r] : disk[r][i].body = runs[r].post
        PROVE  /\ Intact(disk[r]) /\ Len(disk[r]) = Entries
               /\ \A i \in DOMAIN disk[r] : disk[r][i].body = runs[r].post
               /\ HeadHash(disk[r]) = runs[r].head
    <3>1. disk[r] \in Seq(Lines) /\ DOMAIN disk[r] = 1 .. Len(disk[r])
      BY <2>1 DEF TInv, Typed
    <3>2. Whole(disk[r], runs[r].post, Entries) /\ HeadHash(disk[r]) = runs[r].head
      BY <2>1, <2>2, <3>1 DEF SInv, Served
    <3> QED
      BY <3>1, <3>2 DEF Whole, Intact, Sound
  <2> QED
    BY <2>1, <2>2 DEF ServedLedgerIsTheRuns, SInv
<1> QED
  BY <1>1, IInvAlways, PTL
=============================================================================
