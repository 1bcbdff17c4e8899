------------------------------ MODULE ObjectStore -----------------------------
(***************************************************************************)
(* The content-addressed store of internal/objectstore, as adoption and    *)
(* update use it: a directory that its user goes on editing is captured    *)
(* file by file, the captured tree is materialized as a generation, and    *)
(* the directory is looked at once more before the generation is accepted  *)
(* (lifecycle/adopt.go: FingerprintTree; for an update it is the Manager   *)
(* that compares the live generation with the snapshot).                   *)
(*                                                                         *)
(* What a file holds, its kind and mode included, is a number, its hash    *)
(* with it; 0: there is no file.  A tree manifest is the function it        *)
(* stands for.  Every edit leaves something that was not there before.     *)
(***************************************************************************)
EXTENDS Integers, FiniteSets

CONSTANTS
  Procs,     \* processes that capture the directory
  Files,     \* names a file may have in it
  MaxEdit,   \* bound: edits by the user
  MaxFault   \* bound: objects that rot, processes that die

(* What the bounds have to be for the theorems of ObjectStoreProofs.       *)
StoreBounds == MaxEdit \in Nat

VARIABLES
  tree, edits,     \* the directory; how often it was edited
  blobs, trees,    \* the objects of the store: contents, manifests
  rotten,          \* contents whose object no longer has its digest
  pc, job,         \* of each process: where it is, what it has read so far
  generation,      \* of each process: what its destination holds, {} if it does not exist
  been,            \* history: what the directory has held since the process began
  faults

user == <<tree, edits>>
store == <<blobs, trees, rotten>>
work == <<pc, job>>
vars == <<user, store, work, generation, been, faults>>

Content == 1..(MaxEdit + 1)
Tree == [Files -> Content \cup {0}]
PCs == {"idle", "read", "manifest", "copy", "rename", "list", "look", "compare", "accepted"}
Empty == [f \in Files |-> 0]
(* left: the listed files that the walk has still to visit.  next: what    *)
(* the walk has found, or written, so far.                                 *)
NoJob == [left |-> {}, next |-> Empty, hash |-> Empty]
Entries(t) == {f \in Files : t[f] # 0}
Goto(p, to) == pc' = [pc EXCEPT ![p] = to]
(* The temporary directory is removed, and the generation with it.         *)
Stop(p) ==
  /\ Goto(p, "idle") /\ job' = [job EXCEPT ![p] = NoJob]
  /\ generation' = [generation EXCEPT ![p] = {}]
Visit(p, f, content, done) ==
  LET left == job[p].left \ {f} IN
  /\ job' = [job EXCEPT ![p].left = left, ![p].next[f] = content]
  /\ IF left = {} THEN Goto(p, done) ELSE UNCHANGED pc
(* filepath.WalkDir lists a directory before it visits what it has listed. *)
Walk(p, first, done) ==
  /\ job' = [job EXCEPT ![p].left = Entries(tree), ![p].next = Empty]
  /\ Goto(p, IF Entries(tree) = {} THEN done ELSE first)

(***************************************************************************)
(* CaptureTree                                                             *)
(***************************************************************************)
CaptureTree(p) ==
  /\ pc[p] = "idle" /\ generation[p] = {}
  /\ Walk(p, "read", "manifest")
  /\ been' = [been EXCEPT ![p] = {tree}]
  /\ UNCHANGED <<user, store, generation, faults>>

(* commitTemp: an object that exists must still have its digest.           *)
Storable(content) == content \in blobs => content \notin rotten
(* One file: read, written beside the objects, renamed to its hash.        *)
PutBlob(p, f) ==
  /\ pc[p] = "read" /\ f \in job[p].left
  /\ IF tree[f] # 0 /\ Storable(tree[f])
     THEN /\ blobs' = blobs \cup {tree[f]}
          /\ Visit(p, f, tree[f], "manifest")
          /\ UNCHANGED generation
     ELSE Stop(p) /\ UNCHANGED blobs
  /\ UNCHANGED <<user, trees, rotten, been, faults>>

PutTree(p) ==
  /\ pc[p] = "manifest"
  /\ trees' = trees \cup {job[p].next}
  /\ LET t == job[p].next
     IN  /\ job' = [job EXCEPT ![p] = [left |-> Entries(t), next |-> Empty, hash |-> t]]
         /\ Goto(p, IF Entries(t) = {} THEN "rename" ELSE "copy")
  /\ UNCHANGED <<user, blobs, rotten, generation, been, faults>>

(***************************************************************************)
(* MaterializeTree                                                         *)
(***************************************************************************)
(* What OpenBlob gives to read, nothing when it fails.                     *)
OpenBlob(content) == IF content \in blobs \ rotten THEN {content} ELSE {}
MaterializeFile(p, f) ==
  /\ pc[p] = "copy" /\ f \in job[p].left
  /\ LET found == OpenBlob(job[p].hash[f])
     IN  IF found = {} THEN Stop(p)
         ELSE /\ \E content \in found : Visit(p, f, content, "rename")
              /\ UNCHANGED generation
  /\ UNCHANGED <<user, store, been, faults>>
(* The whole tree appears at once.                                         *)
Rename(p) ==
  /\ pc[p] = "rename"
  /\ generation' = [generation EXCEPT ![p] = {job[p].next}]
  /\ Goto(p, "list")
  /\ UNCHANGED <<user, store, job, been, faults>>

(***************************************************************************)
(* FingerprintTree: the same walk, nothing written                         *)
(***************************************************************************)
FingerprintTree(p) ==
  /\ pc[p] = "list"
  /\ Walk(p, "look", "compare")
  /\ UNCHANGED <<user, store, generation, been, faults>>
HashFile(p, f) ==
  /\ pc[p] = "look" /\ f \in job[p].left
  /\ IF tree[f] # 0 THEN Visit(p, f, tree[f], "compare") /\ UNCHANGED generation ELSE Stop(p)
  /\ UNCHANGED <<user, store, been, faults>>

\* mutant: the directory is not compared again
Unchanged_NotLooked(p) == TRUE
(* "local binding content changed during adoption"                         *)
Unchanged(p) == job[p].next = job[p].hash
Compare(p) ==
  /\ pc[p] = "compare"
  /\ IF Unchanged(p) THEN Goto(p, "accepted") /\ UNCHANGED <<job, generation>> ELSE Stop(p)
  /\ UNCHANGED <<user, store, been, faults>>

(***************************************************************************)
(* The world                                                               *)
(***************************************************************************)
(* The user writes, adds or removes a file.                                *)
Edit(f) ==
  /\ edits < MaxEdit /\ edits' = edits + 1
  /\ \E content \in {0, edits'+1} \ {tree[f]} : tree' = [tree EXCEPT ![f] = content]
  /\ been' = [p \in Procs |-> been[p] \cup {tree'}]
  /\ UNCHANGED <<store, work, generation, faults>>
Rot ==
  /\ faults < MaxFault /\ faults' = faults + 1
  /\ \E content \in blobs \ rotten : rotten' = rotten \cup {content}
  /\ UNCHANGED <<user, blobs, trees, work, generation, been>>
(* A process that dies leaves its generation, which nothing refers to.     *)
Crash(p) ==
  /\ pc[p] \notin {"idle", "accepted"}
  /\ faults < MaxFault /\ faults' = faults + 1
  /\ Goto(p, "idle") /\ job' = [job EXCEPT ![p] = NoJob]
  /\ UNCHANGED <<user, store, generation, been>>

Init ==
  /\ tree = [f \in Files |-> 1] /\ edits = 0
  /\ blobs = {} /\ trees = {} /\ rotten = {}
  /\ pc = [p \in Procs |-> "idle"] /\ job = [p \in Procs |-> NoJob]
  /\ generation = [p \in Procs |-> {}] /\ been = [p \in Procs |-> {}]
  /\ faults = 0

Step(p) ==
  \/ CaptureTree(p) \/ PutTree(p) \/ Rename(p) \/ FingerprintTree(p) \/ Compare(p)
  \/ \E f \in Files : PutBlob(p, f) \/ MaterializeFile(p, f) \/ HashFile(p, f)
Next ==
  \/ \E p \in Procs : Step(p) \/ Crash(p)
  \/ \E f \in Files : Edit(f)
  \/ Rot
Spec == Init /\ [][Next]_vars

(***************************************************************************)
(* Properties                                                              *)
(***************************************************************************)
TypeOK ==
  /\ tree \in Tree /\ edits \in 0..MaxEdit
  /\ blobs \subseteq Content /\ rotten \subseteq blobs /\ trees \subseteq Tree
  /\ pc \in [Procs -> PCs]
  /\ \A p \in Procs : /\ generation[p] \subseteq Tree /\ been[p] \subseteq Tree
                      /\ job[p].left \subseteq Files /\ job[p].next \in Tree

(* A tree is read while its owner edits it and still nobody gets a mixture *)
(* of two of its states: every manifest of the store has its files, a      *)
(* destination holds a captured tree, all of it, whatever has rotted, and  *)
(* a generation that is accepted is what the directory held, all of it at  *)
(* one moment since the capture began (objectstore/store.go, adopt.go).    *)
CapturesAreReal ==
  /\ \A t \in trees : \A f \in Entries(t) : t[f] \in blobs
  /\ \A p \in Procs : generation[p] \subseteq trees
  /\ \A p \in Procs : pc[p] = "accepted" => generation[p] # {} /\ generation[p] \subseteq been[p]
===============================================================================
