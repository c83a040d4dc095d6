----------------------------- MODULE RunService -----------------------------
(***************************************************************************)
(* The runs of the HTTP service: create_run of                             *)
(* src/backend/counterfoil/api/main.py, with execute and RunStore of       *)
(* api/service.py.  The endpoints are plain functions, which the server    *)
(* runs on a pool of threads: the steps of two requests interleave, and    *)
(* nothing but the insertion into the store is under a lock.               *)
(*                                                                         *)
(* A run is named by its parameters, so a request repeated has the name of *)
(* the run it repeats, and writes the same ledger file: it deletes the     *)
(* file there is, opens a ledger on the path and appends one entry after   *)
(* another.  What the entries say is abstracted to which post wrote them.  *)
(***************************************************************************)
EXTENDS Chain, SequencesExt

CONSTANTS
  Clients,     \* concurrent requests
  RunIds,      \* run_<surface>_<seed>_<size>
  Keep,        \* RunStore(keep)
  Entries,     \* entries a run appends to its ledger
  MaxPosts     \* requests in a behaviour

ASSUME RunServiceAssumption ==
  /\ {Keep, Entries} \subseteq Nat \ {0}
  /\ MaxPosts \in Nat
  /\ RunIds # {}

VARIABLES
  overlap,  \* whether two requests for one run may ever overlap
  disk,     \* the ledger file of each run; no file is an empty one
  pc,       \* where each request is
  runId,    \* the run it executes
  post,     \* its number
  left,     \* the entries it has still to append
  seq,      \* its ledger handle
  head,
  runs,     \* RunStore._runs
  order,    \* RunStore._order
  posts,    \* requests made
  answer    \* what the last request of each client was told

vars == <<overlap, disk, pc, runId, post, left, seq, head, runs, order, posts,
          answer>>

request == <<overlap, runId, post>>
ledger  == <<left, seq, head>>
store   == <<runs, order>>

NoRun == [post |-> 0, head |-> Genesis]

-----------------------------------------------------------------------------
Init ==
  /\ overlap \in BOOLEAN
  /\ disk = [r \in RunIds |-> << >>]
  /\ pc = [c \in Clients |-> "idle"]
  /\ runId \in [Clients -> {CHOOSE r \in RunIds : TRUE}]
  /\ post = [c \in Clients |-> 0]
  /\ left = [c \in Clients |-> 0]
  /\ seq = [c \in Clients |-> 0]
  /\ head = [c \in Clients |-> Genesis]
  /\ runs = [r \in RunIds |-> NoRun]
  /\ order = << >>
  /\ posts = 0
  /\ answer = [c \in Clients |-> "none"]

Executing(c, r) == pc[c] # "idle" /\ runId[c] = r

Post(c, r) ==
  /\ pc[c] = "idle"
  /\ posts < MaxPosts
  /\ ~overlap => \A d \in Clients : ~Executing(d, r)
  /\ posts' = posts + 1
  /\ runId' = [runId EXCEPT ![c] = r]
  /\ post' = [post EXCEPT ![c] = posts + 1]
  /\ pc' = [pc EXCEPT ![c] = "check"]
  /\ left' = [left EXCEPT ![c] = Entries]
  /\ answer' = [answer EXCEPT ![c] = "none"]
  /\ UNCHANGED <<overlap, disk, seq, head, store>>

File(c) == disk[runId[c]]

\* Slip: the file of the run before is left where it is.
CheckAndKeep(c) ==
  /\ pc[c] = "check"
  /\ pc' = [pc EXCEPT ![c] = "open"]
  /\ UNCHANGED <<disk, request, ledger, store, posts, answer>>

(***************************************************************************)
(* if path.exists(): the answer may be out of date when it is acted on.    *)
(***************************************************************************)
Check(c) ==
  /\ pc[c] = "check"
  /\ pc' = [pc EXCEPT ![c] = IF File(c) = << >> THEN "open" ELSE "unlink"]
  /\ UNCHANGED <<disk, request, ledger, store, posts, answer>>

Unlink(c) ==
  /\ pc[c] = "unlink"
  /\ File(c) # << >>
  /\ disk' = [disk EXCEPT ![runId[c]] = << >>]
  /\ pc' = [pc EXCEPT ![c] = "open"]
  /\ UNCHANGED <<request, ledger, store, posts, answer>>

(***************************************************************************)
(* The call ends, and its local variables with it.                         *)
(***************************************************************************)
Answer(c, what) ==
  /\ answer' = [answer EXCEPT ![c] = what]
  /\ pc' = [pc EXCEPT ![c] = "idle"]
  /\ post' = [post EXCEPT ![c] = 0]
  /\ left' = [left EXCEPT ![c] = 0]
  /\ seq' = [seq EXCEPT ![c] = 0]
  /\ head' = [head EXCEPT ![c] = Genesis]
  /\ UNCHANGED <<overlap, runId, posts>>

(***************************************************************************)
(* The file was deleted since it was looked for: unlink raises.            *)
(***************************************************************************)
UnlinkRaises(c) ==
  /\ pc[c] = "unlink"
  /\ File(c) = << >>
  /\ Answer(c, "error")
  /\ UNCHANGED <<disk, store>>

(***************************************************************************)
(* Ledger(path) takes up whatever chain it finds there.                    *)
(***************************************************************************)
Open(c) ==
  /\ pc[c] = "open"
  /\ seq' = [seq EXCEPT ![c] = NextSeq(File(c))]
  /\ head' = [head EXCEPT ![c] = HeadHash(File(c))]
  /\ pc' = [pc EXCEPT ![c] = "run"]
  /\ UNCHANGED <<disk, request, left, store, posts, answer>>

Written(c) == Entry(seq[c], post[c], head[c])

(***************************************************************************)
(* One append of run_batch.  The handle is this request's own; the path is *)
(* opened again for every entry.                                           *)
(***************************************************************************)
AppendEntry(c) ==
  /\ pc[c] = "run"
  /\ disk' = [disk EXCEPT ![runId[c]] = Store(@, Written(c))]
  /\ seq' = [seq EXCEPT ![c] = @ + 1]
  /\ head' = [head EXCEPT ![c] = Written(c).hash]
  /\ left' = [left EXCEPT ![c] = @ - 1]
  /\ pc' = [pc EXCEPT ![c] = IF left[c] = 1 THEN "store" ELSE "run"]
  /\ UNCHANGED <<request, store, posts, answer>>

(***************************************************************************)
(* The run raises: a payload the ledger refuses, a fixture that cannot be  *)
(* parsed.  The client is told, the file stays as it is and no run is      *)
(* stored.                                                                 *)
(***************************************************************************)
RunRaises(c) ==
  /\ pc[c] = "run"
  /\ Answer(c, "error")
  /\ UNCHANGED <<disk, store>>

\* Slip: the run that falls out of the order stays in the store.
AddWithoutEviction(c) ==
  /\ pc[c] = "store"
  /\ runs' = [runs EXCEPT ![runId[c]] = [post |-> post[c], head |-> head[c]]]
  /\ order' = IF Len(order) < Keep THEN Append(order, runId[c])
              ELSE Append(Tail(order), runId[c])
  /\ pc' = [pc EXCEPT ![c] = "summarise"]
  /\ UNCHANGED <<disk, request, ledger, posts, answer>>

(***************************************************************************)
(* RunStore.add, under the store's lock: the run replaces one of its name, *)
(* its name is appended to the order even so, and the run whose name falls *)
(* out at the front is dropped, by name.                                   *)
(***************************************************************************)
Add(c) ==
  /\ pc[c] = "store"
  /\ LET added == [runs EXCEPT ![runId[c]] =
                      [post |-> post[c], head |-> head[c]]]
         names == Append(order, runId[c])
     IN IF Len(names) > Keep
        THEN /\ runs' = [added EXCEPT ![Head(names)] = NoRun]
             /\ order' = Tail(names)
        ELSE runs' = added /\ order' = names
  /\ pc' = [pc EXCEPT ![c] = "summarise"]
  /\ UNCHANGED <<disk, request, ledger, posts, answer>>

(***************************************************************************)
(* run_summary reads the file again and verifies it.                       *)
(***************************************************************************)
Summarise(c) ==
  /\ pc[c] = "summarise"
  /\ Answer(c, IF Intact(File(c)) THEN "intact" ELSE "broken")
  /\ UNCHANGED <<disk, store>>

Step(c) ==
  \/ \E r \in RunIds : Post(c, r)
  \/ Check(c) \/ Unlink(c) \/ UnlinkRaises(c) \/ Open(c)
  \/ AppendEntry(c) \/ RunRaises(c) \/ Add(c) \/ Summarise(c)

Next == \E c \in Clients : Step(c)

Spec == Init /\ [][Next]_vars

-----------------------------------------------------------------------------
(***************************************************************************)
(* The shape of the state.                                                 *)
(***************************************************************************)
TypeOK ==
  /\ overlap \in BOOLEAN
  /\ \A r \in RunIds : \A i \in DOMAIN disk[r] :
       /\ disk[r][i].readable
       /\ disk[r][i].seq \in Nat
       /\ disk[r][i].body \in 1 .. MaxPosts
  /\ pc \in [Clients -> {"idle", "check", "unlink", "open", "run", "store",
                         "summarise"}]
  /\ runId \in [Clients -> RunIds]
  /\ post \in [Clients -> 0 .. MaxPosts]
  /\ left \in [Clients -> 0 .. Entries]
  /\ seq \in [Clients -> Nat]
  /\ \A r \in RunIds : runs[r].post \in 0 .. MaxPosts
  /\ order \in Seq(RunIds)
  /\ posts \in 0 .. MaxPosts
  /\ answer \in [Clients -> {"none", "error", "intact", "broken"}]

(***************************************************************************)
(* A run that is served stands beside the whole of its own ledger or none  *)
(* of it: as long as one entry of the run is on disk the file is exactly   *)
(* the run's, verifies, is complete and ends at the head the handle of the *)
(* run reports; and every post is told that its ledger is intact.  Posts   *)
(* of other runs, repeats and runs that raise do not disturb it; two posts *)
(* of one run at once do.                                                  *)
(***************************************************************************)
Held(r) == runs[r] # NoRun

ServedLedgerIsTheRuns ==
  ~overlap =>
    /\ \A r \in RunIds :
         Held(r) /\ (\E i \in DOMAIN disk[r] : disk[r][i].body = runs[r].post) =>
           /\ Intact(disk[r])
           /\ Len(disk[r]) = Entries
           /\ \A i \in DOMAIN disk[r] : disk[r][i].body = runs[r].post
           /\ HeadHash(disk[r]) = runs[r].head
    /\ \A c \in Clients : answer[c] # "broken"

(***************************************************************************)
(* The store is bounded: a run it holds is one of the last Keep that were  *)
(* added, whatever requests interleave.                                    *)
(***************************************************************************)
HeldRunsAreListed ==
  /\ Len(order) <= Keep
  /\ \A r \in RunIds : Held(r) => r \in Range(order)

-----------------------------------------------------------------------------
(***************************************************************************)
(* What the documents say and the code does not do.                        *)
(*                                                                         *)
(* RunStore: "The last few runs, newest first."  The run added last is     *)
(* held, and an endpoint asked for the latest run finds one.               *)
(***************************************************************************)
TheLatestIsHeld == order # << >> => Held(LastOf(order))

(***************************************************************************)
(* tests/test_api.py: "assert body["intact"] is True", of the ledger of    *)
(* the run a post has just made.                                           *)
(***************************************************************************)
EveryPostIsIntact == \A c \in Clients : answer[c] # "broken"
=============================================================================
