--------------------------- MODULE ObjectStoreProofs --------------------------
(***************************************************************************)
(* Theorems about ObjectStore: for any number of processes, any names of   *)
(* files and any number of edits and faults, what a capture accepts is a   *)
(* state that the directory was in.                                        *)
(*                                                                         *)
(* The argument.  No edit leaves a content that was there before, so a     *)
(* file that once differs from what the first walk has read differs from   *)
(* it forever (Looked).  The second walk lists the directory at one        *)
(* moment, and finds the same entries and the same contents only if each   *)
(* file had the content of the manifest at that moment.  The directory of  *)
(* that moment is therefore the manifest.                                  *)
(***************************************************************************)
EXTENDS ObjectStore, TLAPS

(***************************************************************************)
(* The inductive invariant                                                 *)
(***************************************************************************)
Job == [left : SUBSET Files, next : Tree, hash : Tree]
StoreTypes ==
  /\ TypeOK
  /\ job \in [Procs -> Job]
  /\ generation \in [Procs -> SUBSET Tree] /\ been \in [Procs -> SUBSET Tree]

(* Nothing is newer than the last edit.                                    *)
Fresh ==
  /\ \A f \in Files : tree[f] <= edits + 1
  /\ \A p \in Procs : \A f \in Files : job[p].hash[f] <= edits + 1 /\ job[p].next[f] <= edits + 1
(* What a manifest names, or will name, is in the store.                   *)
Stored ==
  /\ \A t \in trees : \A f \in Entries(t) : t[f] \in blobs
  /\ \A p \in Procs : pc[p] \in {"read", "manifest"} =>
       \A f \in Entries(job[p].next) : job[p].next[f] \in blobs
(* What is copied, so far and in the end, is the manifest.                 *)
Materialized ==
  /\ \A p \in Procs : generation[p] \subseteq trees
  /\ \A p \in Procs : pc[p] \in {"copy", "rename", "list", "look", "compare", "accepted"} =>
       job[p].hash \in trees
  /\ \A p \in Procs : pc[p] \in {"copy", "rename"} =>
       \A f \in Files : f \notin job[p].left => job[p].next[f] = job[p].hash[f]
  /\ \A p \in Procs : pc[p] \in {"rename", "compare"} => job[p].left = {}
  /\ \A p \in Procs : pc[p] \in {"list", "look", "compare", "accepted"} =>
       generation[p] = {job[p].hash}
(* The history begins with the process and knows the present.              *)
Remembered == \A p \in Procs : pc[p] # "idle" => tree \in been[p]
(* t: the directory when the second walk listed it.  A file that differed  *)
(* then from the manifest still does, or was found to differ.              *)
Agrees(p, t, f) ==
  IF f \in job[p].left
  THEN job[p].hash[f] # 0 /\ tree[f] = job[p].hash[f] => t[f] = job[p].hash[f]
  ELSE job[p].next[f] = job[p].hash[f] => t[f] = job[p].hash[f]
Looked ==
  /\ \A p \in Procs : pc[p] \in {"look", "compare"} =>
       \E t \in been[p] : \A f \in Files : Agrees(p, t, f)
  /\ \A p \in Procs : pc[p] = "accepted" => job[p].hash \in been[p]

StoreInv == StoreTypes /\ Fresh /\ Stored /\ Materialized /\ Remembered /\ Looked

-------------------------------------------------------------------------------
(* What the steps write.                                                   *)

\* A walk that begins: the list of what is there, nothing visited.
LEMMA WalkWritten ==
  ASSUME StoreTypes, NEW p \in Procs, NEW first \in PCs, NEW done \in PCs, Walk(p, first, done)
  PROVE  /\ job' \in [Procs -> Job] /\ pc' \in [Procs -> PCs]
         /\ job'[p].left = Entries(tree) /\ job'[p].next = Empty /\ job'[p].hash = job[p].hash
         /\ pc'[p] = (IF Entries(tree) = {} THEN done ELSE first)
         /\ \A q \in Procs \ {p} : job'[q] = job[q] /\ pc'[q] = pc[q]
<1>1. Entries(tree) \subseteq Files /\ Empty \in Tree
  BY DEF Entries, Empty, Tree
<1>2. job[p] \in Job
  BY DEF StoreTypes
<1> DEFINE row == job[p]
           new == [row EXCEPT !.left = Entries(tree), !.next = Empty]
<1>3. new \in Job /\ new.left = Entries(tree) /\ new.next = Empty /\ new.hash = row.hash
  BY <1>1, <1>2 DEF Job
<1>4. job' = [job EXCEPT ![p] = new]
  BY DEF Walk, StoreTypes
<1> HIDE DEF new
<1>5. job' \in [Procs -> Job] /\ job'[p] = new /\ \A q \in Procs \ {p} : job'[q] = job[q]
  BY <1>3, <1>4 DEF StoreTypes
<1>6. QED  BY <1>3, <1>5 DEF Walk, Goto, StoreTypes, TypeOK

\* A file that is visited: one less to visit, its content noted.
LEMMA VisitWritten ==
  ASSUME StoreTypes, NEW p \in Procs, NEW f \in Files, NEW content \in Content \cup {0},
         NEW done \in PCs, Visit(p, f, content, done)
  PROVE  /\ job' \in [Procs -> Job] /\ pc' \in [Procs -> PCs]
         /\ job'[p].left = job[p].left \ {f} /\ job'[p].hash = job[p].hash
         /\ job'[p].next[f] = content
         /\ \A g \in Files \ {f} : job'[p].next[g] = job[p].next[g]
         /\ pc'[p] = (IF job[p].left \ {f} = {} THEN done ELSE pc[p])
         /\ \A q \in Procs \ {p} : job'[q] = job[q] /\ pc'[q] = pc[q]
<1>1. job[p] \in Job
  BY DEF StoreTypes
<1> DEFINE row == job[p]
           next == [row.next EXCEPT ![f] = content]
           new == [row EXCEPT !.left = row.left \ {f}, !.next = next]
<1>2. next \in Tree /\ next[f] = content /\ \A g \in Files \ {f} : next[g] = row.next[g]
  BY <1>1 DEF Job, Tree
<1>3. job' = [job EXCEPT ![p] = new]
  BY <1>1 DEF Visit, StoreTypes, Job
<1> HIDE DEF next
<1>4. new \in Job /\ new.left = row.left \ {f} /\ new.next = next /\ new.hash = row.hash
  BY <1>1, <1>2 DEF Job
<1> HIDE DEF new
<1>5. job' \in [Procs -> Job] /\ job'[p] = new /\ \A q \in Procs \ {p} : job'[q] = job[q]
  BY <1>3, <1>4 DEF StoreTypes
<1>6. pc' \in [Procs -> PCs] /\ \A q \in Procs \ {p} : pc'[q] = pc[q]
  BY DEF Visit, Goto, StoreTypes, TypeOK
<1>7. pc'[p] = (IF job[p].left \ {f} = {} THEN done ELSE pc[p])
  BY DEF Visit, Goto, StoreTypes, TypeOK
<1>8. QED  BY <1>2, <1>4, <1>5, <1>6, <1>7

\* A command that stops, or whose process dies.
LEMMA StopWritten ==
  ASSUME StoreTypes, NEW p \in Procs, Goto(p, "idle"), job' = [job EXCEPT ![p] = NoJob]
  PROVE  /\ job' \in [Procs -> Job] /\ pc' \in [Procs -> PCs]
         /\ job'[p] = NoJob /\ pc'[p] = "idle"
         /\ \A q \in Procs \ {p} : job'[q] = job[q] /\ pc'[q] = pc[q]
<1>1. NoJob \in Job
  BY DEF NoJob, Job, Empty, Tree
<1>2. QED  BY <1>1 DEF Goto, StoreTypes, TypeOK, PCs

\* The manifest is written and its copy begins.
LEMMA PutTreeWritten ==
  ASSUME StoreTypes, NEW p \in Procs, PutTree(p)
  PROVE  /\ job' \in [Procs -> Job] /\ pc' \in [Procs -> PCs]
         /\ job'[p].left = Entries(job[p].next) /\ job'[p].next = Empty
         /\ job'[p].hash = job[p].next
         /\ pc'[p] = (IF Entries(job[p].next) = {} THEN "rename" ELSE "copy")
         /\ \A q \in Procs \ {p} : job'[q] = job[q] /\ pc'[q] = pc[q]
<1>1. job[p] \in Job
  BY DEF StoreTypes
<1> DEFINE t == job[p].next
           new == [left |-> Entries(t), next |-> Empty, hash |-> t]
<1>2. new \in Job /\ new.left = Entries(t) /\ new.next = Empty /\ new.hash = t
  BY <1>1 DEF Job, Empty, Tree, Entries
<1>3. job' = [job EXCEPT ![p] = new]
  BY DEF PutTree
<1> HIDE DEF new
<1>4. job' \in [Procs -> Job] /\ job'[p] = new /\ \A q \in Procs \ {p} : job'[q] = job[q]
  BY <1>2, <1>3 DEF StoreTypes
<1>5. QED  BY <1>2, <1>4 DEF PutTree, Goto, StoreTypes, TypeOK, PCs

\* An edit: one file, nothing or a content that was never there.
LEMMA EditWritten ==
  ASSUME StoreBounds, StoreTypes, NEW f \in Files, Edit(f)
  PROVE  /\ tree' \in Tree /\ edits' \in 0..MaxEdit /\ edits' = edits + 1
         /\ tree'[f] = 0 \/ tree'[f] = edits + 2
         /\ \A g \in Files \ {f} : tree'[g] = tree[g]
         /\ been' \in [Procs -> SUBSET Tree]
         /\ \A p \in Procs : been'[p] = been[p] \cup {tree'}
<1>1. edits' \in 0..MaxEdit /\ edits' = edits + 1
  BY DEF StoreBounds, StoreTypes, TypeOK, Edit
<1>2. PICK content \in {0, edits'+1} : tree' = [tree EXCEPT ![f] = content]
  BY DEF Edit
<1>3. content \in Content \cup {0} /\ (content = 0 \/ content = edits + 2)
  BY <1>1, <1>2 DEF Content, StoreBounds, StoreTypes, TypeOK
<1>4. tree' \in Tree /\ tree'[f] = content /\ \A g \in Files \ {f} : tree'[g] = tree[g]
  BY <1>2, <1>3 DEF Tree, StoreTypes, TypeOK
<1>5. been' \in [Procs -> SUBSET Tree] /\ \A p \in Procs : been'[p] = been[p] \cup {tree'}
  BY <1>4 DEF Edit, StoreTypes
<1>6. QED  BY <1>1, <1>3, <1>4, <1>5

-------------------------------------------------------------------------------
(* Types. *)

LEMMA StoreTypesStep ==
  ASSUME StoreBounds, StoreTypes, [Next]_vars
  PROVE  StoreTypes'
<1> USE DEF TypeOK, user, store, work
<1>0. \A p \in Procs : job[p].left \subseteq Files /\ job[p].next \in Tree /\ job[p].hash \in Tree
  BY DEF StoreTypes, Job
<1>1. ASSUME NEW p \in Procs, CaptureTree(p)  PROVE StoreTypes'
  <2>1. Walk(p, "read", "manifest") /\ "read" \in PCs /\ "manifest" \in PCs
    BY <1>1 DEF CaptureTree, PCs
  <2>2. job' \in [Procs -> Job] /\ pc' \in [Procs -> PCs]
    BY <2>1, WalkWritten
  <2>3. QED  BY <1>1, <2>2 DEF StoreTypes, CaptureTree, Job
<1>2. ASSUME NEW p \in Procs, NEW f \in Files, PutBlob(p, f)  PROVE StoreTypes'
  <2>1. CASE tree[f] # 0 /\ Storable(tree[f])
    <3>1. tree[f] \in Content
      BY <2>1 DEF StoreTypes, Tree
    <3>2. Visit(p, f, tree[f], "manifest") /\ "manifest" \in PCs
      BY <1>2, <2>1 DEF PutBlob, PCs
    <3>3. job' \in [Procs -> Job] /\ pc' \in [Procs -> PCs]
      BY <3>1, <3>2, VisitWritten
    <3>4. QED  BY <1>2, <2>1, <3>1, <3>3 DEF StoreTypes, PutBlob, Job
  <2>2. CASE ~(tree[f] # 0 /\ Storable(tree[f]))
    <3>1. job' \in [Procs -> Job] /\ pc' \in [Procs -> PCs]
      BY <1>2, <2>2, StopWritten DEF PutBlob, Stop
    <3>2. QED  BY <1>2, <2>2, <3>1 DEF StoreTypes, PutBlob, Stop, Job
  <2>3. QED  BY <2>1, <2>2
<1>3. ASSUME NEW p \in Procs, PutTree(p)  PROVE StoreTypes'
  <2>1. job' \in [Procs -> Job] /\ pc' \in [Procs -> PCs]
    BY <1>3, PutTreeWritten
  <2>2. QED  BY <1>0, <1>3, <2>1 DEF StoreTypes, PutTree, Job
<1>4. ASSUME NEW p \in Procs, NEW f \in Files, MaterializeFile(p, f)  PROVE StoreTypes'
  <2>1. CASE OpenBlob(job[p].hash[f]) = {}
    <3>1. job' \in [Procs -> Job] /\ pc' \in [Procs -> PCs]
      BY <1>4, <2>1, StopWritten DEF MaterializeFile, Stop
    <3>2. QED  BY <1>4, <2>1, <3>1 DEF StoreTypes, MaterializeFile, Stop, Job
  <2>2. CASE OpenBlob(job[p].hash[f]) # {}
    <3>1. PICK content \in OpenBlob(job[p].hash[f]) : Visit(p, f, content, "rename")
      BY <1>4, <2>2 DEF MaterializeFile
    <3>2. content \in Content /\ "rename" \in PCs
      BY <3>1 DEF OpenBlob, StoreTypes, PCs
    <3>3. job' \in [Procs -> Job] /\ pc' \in [Procs -> PCs]
      BY <3>1, <3>2, VisitWritten
    <3>4. QED  BY <1>4, <2>2, <3>3 DEF StoreTypes, MaterializeFile, Job
  <2>3. QED  BY <2>1, <2>2
<1>5. ASSUME NEW p \in Procs, Rename(p)  PROVE StoreTypes'
  BY <1>0, <1>5 DEF StoreTypes, Rename, Goto, PCs
<1>6. ASSUME NEW p \in Procs, FingerprintTree(p)  PROVE StoreTypes'
  <2>1. Walk(p, "look", "compare") /\ "look" \in PCs /\ "compare" \in PCs
    BY <1>6 DEF FingerprintTree, PCs
  <2>2. job' \in [Procs -> Job] /\ pc' \in [Procs -> PCs]
    BY <2>1, WalkWritten
  <2>3. QED  BY <1>6, <2>2 DEF StoreTypes, FingerprintTree, Job
<1>7. ASSUME NEW p \in Procs, NEW f \in Files, HashFile(p, f)  PROVE StoreTypes'
  <2>1. CASE tree[f] # 0
    <3>1. tree[f] \in Content /\ "compare" \in PCs
      BY <2>1 DEF StoreTypes, Tree, PCs
    <3>2. job' \in [Procs -> Job] /\ pc' \in [Procs -> PCs]
      BY <1>7, <2>1, <3>1, VisitWritten DEF HashFile
    <3>3. QED  BY <1>7, <2>1, <3>2 DEF StoreTypes, HashFile, Job
  <2>2. CASE tree[f] = 0
    <3>1. job' \in [Procs -> Job] /\ pc' \in [Procs -> PCs]
      BY <1>7, <2>2, StopWritten DEF HashFile, Stop
    <3>2. QED  BY <1>7, <2>2, <3>1 DEF StoreTypes, HashFile, Stop, Job
  <2>3. QED  BY <2>1, <2>2
<1>8. ASSUME NEW p \in Procs, Compare(p)  PROVE StoreTypes'
  <2>1. CASE Unchanged(p)
    BY <1>8, <2>1 DEF StoreTypes, Compare, Goto, PCs
  <2>2. CASE ~Unchanged(p)
    <3>1. job' \in [Procs -> Job] /\ pc' \in [Procs -> PCs]
      BY <1>8, <2>2, StopWritten DEF Compare, Stop
    <3>2. QED  BY <1>8, <2>2, <3>1 DEF StoreTypes, Compare, Stop, Job
  <2>3. QED  BY <2>1, <2>2
<1>9. ASSUME NEW p \in Procs, Crash(p)  PROVE StoreTypes'
  <2>1. job' \in [Procs -> Job] /\ pc' \in [Procs -> PCs]
    BY <1>9, StopWritten DEF Crash
  <2>2. QED  BY <1>9, <2>1 DEF StoreTypes, Crash, Job
<1>10. ASSUME NEW f \in Files, Edit(f)  PROVE StoreTypes'
  BY <1>10, EditWritten DEF StoreTypes, Edit, Job
<1>11. CASE Rot
  BY <1>11 DEF StoreTypes, Rot
<1>12. CASE UNCHANGED vars
  BY <1>12 DEF StoreTypes, vars
<1>13. QED
  BY <1>1, <1>2, <1>3, <1>4, <1>5, <1>6, <1>7, <1>8, <1>9, <1>10, <1>11, <1>12 DEF Next, Step

-------------------------------------------------------------------------------
(* The other parts of the invariant, action by action.                     *)

\* A capture begins.
LEMMA CaptureKeeps ==
  ASSUME StoreBounds, StoreInv, NEW p \in Procs, CaptureTree(p)
  PROVE  Fresh' /\ Stored' /\ Materialized' /\ Remembered' /\ Looked'
<1> USE DEF StoreInv
<1>1. /\ job'[p].left = Entries(tree) /\ job'[p].next = Empty /\ job'[p].hash = job[p].hash
      /\ pc'[p] \in {"read", "manifest"}
      /\ \A q \in Procs \ {p} : job'[q] = job[q] /\ pc'[q] = pc[q]
  BY WalkWritten DEF CaptureTree, PCs
<1>2. been'[p] = {tree} /\ \A q \in Procs \ {p} : been'[q] = been[q]
  BY DEF CaptureTree, StoreTypes
<1>3. UNCHANGED <<user, store, generation>> /\ edits \in Nat /\ \A f \in Files : Empty[f] = 0
  BY DEF CaptureTree, StoreTypes, TypeOK, StoreBounds, Empty
<1> USE DEF user, store
<1>4. Fresh'
  BY <1>1, <1>3 DEF Fresh
<1>5. Stored'
  BY <1>1, <1>3 DEF Stored, Entries
<1>6. Materialized'
  BY <1>1, <1>3 DEF Materialized
<1>7. Remembered'
  BY <1>1, <1>2, <1>3 DEF Remembered
<1>8. Looked'
  <2>1. ASSUME NEW q \in Procs \ {p}, NEW t, NEW f \in Files, Agrees(q, t, f)
        PROVE  Agrees(q, t, f)'
    BY <1>1, <1>3, <2>1 DEF Agrees
  <2>2. QED  BY <1>1, <1>2, <2>1 DEF Looked
<1>9. QED  BY <1>4, <1>5, <1>6, <1>7, <1>8

\* A step that stops a process, or kills it: what a generation holds stays or goes.
LEMMA StopKeeps ==
  ASSUME StoreBounds, StoreInv, NEW p \in Procs, Goto(p, "idle"), job' = [job EXCEPT ![p] = NoJob],
         UNCHANGED <<user, store, been>>,
         generation' = generation \/ generation' = [generation EXCEPT ![p] = {}]
  PROVE  Fresh' /\ Stored' /\ Materialized' /\ Remembered' /\ Looked'
<1> USE DEF StoreInv, user, store
<1>1. /\ job'[p] = NoJob /\ pc'[p] = "idle"
      /\ \A q \in Procs \ {p} : job'[q] = job[q] /\ pc'[q] = pc[q]
  BY StopWritten
<1>2. /\ \A q \in Procs : generation'[q] = generation[q] \/ generation'[q] = {}
      /\ \A q \in Procs \ {p} : generation'[q] = generation[q]
  BY DEF StoreTypes
<1>3. /\ edits \in Nat /\ \A f \in Files : Empty[f] = 0
      /\ NoJob.left = {} /\ NoJob.next = Empty /\ NoJob.hash = Empty
  BY DEF StoreTypes, TypeOK, StoreBounds, Empty, NoJob
<1>4. Fresh'
  BY <1>1, <1>3 DEF Fresh
<1>5. Stored'
  BY <1>1 DEF Stored, Entries
<1>6. Materialized'
  BY <1>1, <1>2 DEF Materialized
<1>7. Remembered'
  BY <1>1 DEF Remembered
<1>8. Looked'
  <2>1. ASSUME NEW q \in Procs \ {p}, NEW t, NEW f \in Files, Agrees(q, t, f)
        PROVE  Agrees(q, t, f)'
    BY <1>1, <2>1 DEF Agrees
  <2>2. QED  BY <1>1, <2>1 DEF Looked
<1>9. QED  BY <1>4, <1>5, <1>6, <1>7, <1>8

\* A file is read and its content stored.
LEMMA PutBlobKeeps ==
  ASSUME StoreBounds, StoreInv, NEW p \in Procs, NEW f \in Files, PutBlob(p, f)
  PROVE  Fresh' /\ Stored' /\ Materialized' /\ Remembered' /\ Looked'
<1> USE DEF StoreInv, user, store
<1>1. CASE ~(tree[f] # 0 /\ Storable(tree[f]))
  <2>1. Goto(p, "idle") /\ job' = [job EXCEPT ![p] = NoJob] /\ UNCHANGED <<user, store, been>>
        /\ generation' = [generation EXCEPT ![p] = {}]
    BY <1>1 DEF PutBlob, Stop
  <2>2. QED  BY <2>1, StopKeeps
<1>2. CASE tree[f] # 0 /\ Storable(tree[f])
  <2>1. tree[f] \in Content /\ "manifest" \in PCs /\ pc[p] = "read" /\ Visit(p, f, tree[f], "manifest")
    BY <1>2 DEF PutBlob, PCs, StoreTypes, TypeOK, Tree
  <2>2. /\ job'[p].left = job[p].left \ {f} /\ job'[p].hash = job[p].hash
        /\ job'[p].next[f] = tree[f]
        /\ \A g \in Files \ {f} : job'[p].next[g] = job[p].next[g]
        /\ pc'[p] \in {"read", "manifest"}
        /\ \A q \in Procs \ {p} : job'[q] = job[q] /\ pc'[q] = pc[q]
    BY <2>1, VisitWritten
  <2>3. UNCHANGED <<user, trees, rotten, generation, been>> /\ blobs' = blobs \cup {tree[f]}
    BY <1>2 DEF PutBlob
  <2>4. Fresh'
    BY <2>2, <2>3 DEF Fresh
  <2>5. Stored'
    BY <2>1, <2>2, <2>3 DEF Stored, Entries
  <2>6. Materialized'
    BY <2>2, <2>3 DEF Materialized
  <2>7. Remembered'
    BY <2>1, <2>2, <2>3 DEF Remembered
  <2>8. Looked'
    <3>1. ASSUME NEW q \in Procs \ {p}, NEW t, NEW g \in Files, Agrees(q, t, g)
          PROVE  Agrees(q, t, g)'
      BY <2>2, <2>3, <3>1 DEF Agrees
    <3>2. QED  BY <2>2, <2>3, <3>1 DEF Looked
  <2>9. QED  BY <2>4, <2>5, <2>6, <2>7, <2>8
<1>3. QED  BY <1>1, <1>2

\* The manifest is written.
LEMMA PutTreeKeeps ==
  ASSUME StoreBounds, StoreInv, NEW p \in Procs, PutTree(p)
  PROVE  Fresh' /\ Stored' /\ Materialized' /\ Remembered' /\ Looked'
<1> USE DEF StoreInv, user, store
<1>1. /\ job'[p].left = Entries(job[p].next) /\ job'[p].next = Empty
      /\ job'[p].hash = job[p].next
      /\ pc'[p] = (IF Entries(job[p].next) = {} THEN "rename" ELSE "copy")
      /\ \A q \in Procs \ {p} : job'[q] = job[q] /\ pc'[q] = pc[q]
  BY PutTreeWritten
<1>2. /\ UNCHANGED <<user, blobs, rotten, generation, been>> /\ pc[p] = "manifest"
      /\ trees' = trees \cup {job[p].next}
      /\ edits \in Nat /\ \A f \in Files : Empty[f] = 0
  BY DEF PutTree, StoreTypes, TypeOK, StoreBounds, Empty
<1>3. Fresh'
  BY <1>1, <1>2 DEF Fresh
<1>4. Stored'
  BY <1>1, <1>2 DEF Stored
<1>5. Materialized'
  BY <1>1, <1>2 DEF Materialized, Entries
<1>6. Remembered'
  BY <1>1, <1>2 DEF Remembered
<1>7. Looked'
  <2>1. ASSUME NEW q \in Procs \ {p}, NEW t, NEW f \in Files, Agrees(q, t, f)
        PROVE  Agrees(q, t, f)'
    BY <1>1, <1>2, <2>1 DEF Agrees
  <2>2. QED  BY <1>1, <1>2, <2>1 DEF Looked
<1>8. QED  BY <1>3, <1>4, <1>5, <1>6, <1>7

\* A file of the manifest is copied: what can be opened is what the manifest names.
LEMMA MaterializeFileKeeps ==
  ASSUME StoreBounds, StoreInv, NEW p \in Procs, NEW f \in Files, MaterializeFile(p, f)
  PROVE  Fresh' /\ Stored' /\ Materialized' /\ Remembered' /\ Looked'
<1> USE DEF StoreInv, user, store
<1>1. CASE OpenBlob(job[p].hash[f]) = {}
  <2>1. Goto(p, "idle") /\ job' = [job EXCEPT ![p] = NoJob] /\ UNCHANGED <<user, store, been>>
        /\ generation' = [generation EXCEPT ![p] = {}]
    BY <1>1 DEF MaterializeFile, Stop
  <2>2. QED  BY <2>1, StopKeeps
<1>2. CASE OpenBlob(job[p].hash[f]) # {}
  <2>1. /\ Visit(p, f, job[p].hash[f], "rename")
        /\ job[p].hash[f] \in blobs /\ pc[p] = "copy"
        /\ UNCHANGED <<user, store, generation, been>>
    BY <1>2 DEF MaterializeFile, OpenBlob
  <2>2. job[p].hash[f] \in Content /\ "rename" \in PCs
    BY <2>1 DEF StoreTypes, TypeOK, PCs
  <2>3. /\ job'[p].left = job[p].left \ {f} /\ job'[p].hash = job[p].hash
        /\ job'[p].next[f] = job[p].hash[f]
        /\ \A g \in Files \ {f} : job'[p].next[g] = job[p].next[g]
        /\ pc'[p] = (IF job[p].left \ {f} = {} THEN "rename" ELSE "copy")
        /\ \A q \in Procs \ {p} : job'[q] = job[q] /\ pc'[q] = pc[q]
    BY <2>1, <2>2, VisitWritten
  <2>4. Fresh'
    BY <2>1, <2>3 DEF Fresh
  <2>5. Stored'
    BY <2>1, <2>3 DEF Stored
  <2>6. Materialized'
    BY <2>1, <2>3 DEF Materialized
  <2>7. Remembered'
    BY <2>1, <2>3 DEF Remembered
  <2>8. Looked'
    <3>1. ASSUME NEW q \in Procs \ {p}, NEW t, NEW g \in Files, Agrees(q, t, g)
          PROVE  Agrees(q, t, g)'
      BY <2>1, <2>3, <3>1 DEF Agrees
    <3>2. QED  BY <2>1, <2>3, <3>1 DEF Looked
  <2>9. QED  BY <2>4, <2>5, <2>6, <2>7, <2>8
<1>3. QED  BY <1>1, <1>2

\* The generation appears: all of the manifest.
LEMMA RenameKeeps ==
  ASSUME StoreBounds, StoreInv, NEW p \in Procs, Rename(p)
  PROVE  Fresh' /\ Stored' /\ Materialized' /\ Remembered' /\ Looked'
<1> USE DEF StoreInv, user, store
<1>1. /\ pc[p] = "rename" /\ pc'[p] = "list" /\ generation'[p] = {job[p].next}
      /\ \A q \in Procs \ {p} : pc'[q] = pc[q] /\ generation'[q] = generation[q]
      /\ UNCHANGED <<user, store, job, been>>
  BY DEF Rename, Goto, StoreTypes, TypeOK
<1>2. job[p].next = job[p].hash
  <2>1. \A f \in Files : job[p].next[f] = job[p].hash[f]
    BY <1>1 DEF Materialized
  <2>2. job[p].next \in Tree /\ job[p].hash \in Tree
    BY DEF StoreTypes, Job
  <2>3. QED  BY <2>1, <2>2 DEF Tree
<1>3. Fresh'
  BY <1>1 DEF Fresh
<1>4. Stored'
  BY <1>1 DEF Stored
<1>5. Materialized'
  BY <1>1, <1>2 DEF Materialized
<1>6. Remembered'
  BY <1>1 DEF Remembered
<1>7. Looked'
  <2>1. ASSUME NEW q \in Procs, NEW t, NEW f \in Files, Agrees(q, t, f)  PROVE Agrees(q, t, f)'
    BY <1>1, <2>1 DEF Agrees
  <2>2. QED  BY <1>1, <2>1 DEF Looked
<1>8. QED  BY <1>3, <1>4, <1>5, <1>6, <1>7

\* The second walk begins: the directory of this moment is the one it will be judged by.
LEMMA FingerprintKeeps ==
  ASSUME StoreBounds, StoreInv, NEW p \in Procs, FingerprintTree(p)
  PROVE  Fresh' /\ Stored' /\ Materialized' /\ Remembered' /\ Looked'
<1> USE DEF StoreInv, user, store
<1>1. /\ job'[p].left = Entries(tree) /\ job'[p].next = Empty /\ job'[p].hash = job[p].hash
      /\ pc'[p] = (IF Entries(tree) = {} THEN "compare" ELSE "look")
      /\ \A q \in Procs \ {p} : job'[q] = job[q] /\ pc'[q] = pc[q]
  BY WalkWritten DEF FingerprintTree, PCs
<1>2. /\ UNCHANGED <<user, store, generation, been>> /\ pc[p] = "list"
      /\ edits \in Nat /\ \A f \in Files : Empty[f] = 0
  BY DEF FingerprintTree, StoreTypes, TypeOK, StoreBounds, Empty
<1>3. Fresh'
  BY <1>1, <1>2 DEF Fresh
<1>4. Stored'
  BY <1>1, <1>2 DEF Stored
<1>5. Materialized'
  BY <1>1, <1>2 DEF Materialized
<1>6. Remembered'
  BY <1>1, <1>2 DEF Remembered
<1>7. Looked'
  <2>1. ASSUME NEW q \in Procs \ {p}, NEW t, NEW f \in Files, Agrees(q, t, f)
        PROVE  Agrees(q, t, f)'
    BY <1>1, <1>2, <2>1 DEF Agrees
  <2>2. tree \in been'[p]
    BY <1>2 DEF Remembered
  <2>3. \A f \in Files : Agrees(p, tree, f)'
    BY <1>1, <1>2 DEF Agrees, Entries
  <2>4. QED  BY <1>1, <1>2, <2>1, <2>2, <2>3 DEF Looked
<1>8. QED  BY <1>3, <1>4, <1>5, <1>6, <1>7

\* A file is looked at again.
LEMMA HashFileKeeps ==
  ASSUME StoreBounds, StoreInv, NEW p \in Procs, NEW f \in Files, HashFile(p, f)
  PROVE  Fresh' /\ Stored' /\ Materialized' /\ Remembered' /\ Looked'
<1> USE DEF StoreInv, user, store
<1>1. CASE tree[f] = 0
  <2>1. Goto(p, "idle") /\ job' = [job EXCEPT ![p] = NoJob] /\ UNCHANGED <<user, store, been>>
        /\ generation' = [generation EXCEPT ![p] = {}]
    BY <1>1 DEF HashFile, Stop
  <2>2. QED  BY <2>1, StopKeeps
<1>2. CASE tree[f] # 0
  <2>1. tree[f] \in Content /\ "compare" \in PCs /\ pc[p] = "look" /\ Visit(p, f, tree[f], "compare")
        /\ f \in job[p].left
    BY <1>2 DEF HashFile, PCs, StoreTypes, TypeOK, Tree
  <2>2. /\ job'[p].left = job[p].left \ {f} /\ job'[p].hash = job[p].hash
        /\ job'[p].next[f] = tree[f]
        /\ \A g \in Files \ {f} : job'[p].next[g] = job[p].next[g]
        /\ pc'[p] = (IF job[p].left \ {f} = {} THEN "compare" ELSE "look")
        /\ \A q \in Procs \ {p} : job'[q] = job[q] /\ pc'[q] = pc[q]
    BY <2>1, VisitWritten
  <2>3. UNCHANGED <<user, store, generation, been>>
    BY <1>2 DEF HashFile
  <2>4. Fresh'
    BY <2>2, <2>3 DEF Fresh
  <2>5. Stored'
    BY <2>2, <2>3 DEF Stored
  <2>6. Materialized'
    BY <2>1, <2>2, <2>3 DEF Materialized
  <2>7. Remembered'
    BY <2>1, <2>2, <2>3 DEF Remembered
  <2>8. Looked'
    <3>1. ASSUME NEW q \in Procs \ {p}, NEW t, NEW g \in Files, Agrees(q, t, g)
          PROVE  Agrees(q, t, g)'
      BY <2>2, <2>3, <3>1 DEF Agrees
    <3>2. PICK t \in been[p] : \A g \in Files : Agrees(p, t, g)
      BY <2>1 DEF Looked
    <3>3. \A g \in Files : Agrees(p, t, g)'
      BY <1>2, <2>1, <2>2, <2>3, <3>2 DEF Agrees
    <3>4. QED  BY <2>2, <2>3, <3>1, <3>3 DEF Looked
  <2>9. QED  BY <2>4, <2>5, <2>6, <2>7, <2>8
<1>3. QED  BY <1>1, <1>2

\* The comparison: a tree that is accepted is the one the second walk has listed.
LEMMA CompareKeeps ==
  ASSUME StoreBounds, StoreInv, NEW p \in Procs, Compare(p)
  PROVE  Fresh' /\ Stored' /\ Materialized' /\ Remembered' /\ Looked'
<1> USE DEF StoreInv, user, store
<1>1. CASE ~Unchanged(p)
  <2>1. Goto(p, "idle") /\ job' = [job EXCEPT ![p] = NoJob] /\ UNCHANGED <<user, store, been>>
        /\ generation' = [generation EXCEPT ![p] = {}]
    BY <1>1 DEF Compare, Stop
  <2>2. QED  BY <2>1, StopKeeps
<1>2. CASE Unchanged(p)
  <2>1. /\ pc[p] = "compare" /\ pc'[p] = "accepted" /\ \A q \in Procs \ {p} : pc'[q] = pc[q]
        /\ UNCHANGED <<user, store, job, generation, been>>
    BY <1>2 DEF Compare, Goto, StoreTypes, TypeOK
  <2>2. job[p].hash \in been[p]
    <3>1. PICK t \in been[p] : \A f \in Files : Agrees(p, t, f)
      BY <2>1 DEF Looked
    <3>2. job[p].left = {} /\ job[p].next = job[p].hash
      BY <1>2, <2>1 DEF Materialized, Unchanged
    <3>3. \A f \in Files : t[f] = job[p].hash[f]
      BY <3>1, <3>2 DEF Agrees
    <3>4. t \in Tree /\ job[p].hash \in Tree
      BY <3>1 DEF StoreTypes, Job
    <3>5. t = job[p].hash
      BY <3>3, <3>4 DEF Tree
    <3>6. QED  BY <3>1, <3>5
  <2>3. Fresh'
    BY <2>1 DEF Fresh
  <2>4. Stored'
    BY <2>1 DEF Stored
  <2>5. Materialized'
    BY <2>1 DEF Materialized
  <2>6. Remembered'
    BY <2>1 DEF Remembered
  <2>7. Looked'
    <3>1. ASSUME NEW q \in Procs, NEW t, NEW f \in Files, Agrees(q, t, f)  PROVE Agrees(q, t, f)'
      BY <2>1, <3>1 DEF Agrees
    <3>2. QED  BY <2>1, <2>2, <3>1 DEF Looked
  <2>8. QED  BY <2>3, <2>4, <2>5, <2>6, <2>7
<1>3. QED  BY <1>1, <1>2

\* An edit: what it leaves agrees with no manifest.
LEMMA EditKeeps ==
  ASSUME StoreBounds, StoreInv, NEW f \in Files, Edit(f)
  PROVE  Fresh' /\ Stored' /\ Materialized' /\ Remembered' /\ Looked'
<1> USE DEF StoreInv, store, work
<1>1. /\ edits' = edits + 1 /\ (tree'[f] = 0 \/ tree'[f] = edits + 2)
      /\ \A g \in Files \ {f} : tree'[g] = tree[g]
      /\ \A p \in Procs : been'[p] = been[p] \cup {tree'}
  BY EditWritten
<1>2. UNCHANGED <<store, work, generation>> /\ edits \in Nat
  BY DEF Edit, StoreTypes, TypeOK, StoreBounds
<1>3. /\ \A g \in Files : tree[g] \in Int
      /\ \A p \in Procs : \A g \in Files : job[p].hash[g] \in Int /\ job[p].next[g] \in Int
  BY DEF StoreBounds, StoreTypes, TypeOK, Job, Tree, Content
<1>4. Fresh'
  BY <1>1, <1>2, <1>3 DEF Fresh
<1>5. Stored'
  BY <1>2 DEF Stored
<1>6. Materialized'
  BY <1>2 DEF Materialized
<1>7. Remembered'
  BY <1>1 DEF Remembered
<1>8. Looked'
  <2>1. ASSUME NEW q \in Procs, NEW t, NEW g \in Files, Agrees(q, t, g)  PROVE Agrees(q, t, g)'
    <3>1. job[q].hash[g] <= edits + 1
      BY DEF Fresh
    <3>2. job[q].hash[g] # 0 /\ tree'[g] = job[q].hash[g] => tree[g] = job[q].hash[g]
      BY <1>1, <1>2, <1>3, <3>1
    <3>3. QED  BY <1>2, <2>1, <3>2 DEF Agrees
  <2>2. QED  BY <1>1, <1>2, <2>1 DEF Looked
<1>9. QED  BY <1>4, <1>5, <1>6, <1>7, <1>8

\* What rots, and what does not happen at all.
LEMMA NothingReadKeeps ==
  ASSUME StoreInv, UNCHANGED <<user, blobs, trees, work, generation, been>>
  PROVE  Fresh' /\ Stored' /\ Materialized' /\ Remembered' /\ Looked'
<1> USE DEF StoreInv, user, work
<1>1. Fresh'
  BY DEF Fresh
<1>2. Stored'
  BY DEF Stored
<1>3. Materialized'
  BY DEF Materialized
<1>4. Remembered'
  BY DEF Remembered
<1>5. Looked'
  BY DEF Looked, Agrees
<1>6. QED  BY <1>1, <1>2, <1>3, <1>4, <1>5

-------------------------------------------------------------------------------
(* The theorems. *)

LEMMA StoreInvInit ==
  ASSUME StoreBounds, Init
  PROVE  StoreInv
<1>1. /\ tree \in Tree /\ \A f \in Files : tree[f] = 1
      /\ NoJob \in Job /\ NoJob.hash = Empty /\ NoJob.next = Empty
      /\ \A f \in Files : Empty[f] = 0
  BY DEF Init, Tree, Content, StoreBounds, NoJob, Job, Empty
<1>2. StoreTypes
  BY <1>1 DEF Init, StoreTypes, TypeOK, PCs, StoreBounds, Job
<1>3. Fresh
  BY <1>1 DEF Init, Fresh
<1>4. Stored /\ Materialized /\ Remembered /\ Looked
  BY DEF Init, Stored, Materialized, Remembered, Looked
<1>5. QED  BY <1>2, <1>3, <1>4 DEF StoreInv

LEMMA StoreInvStep ==
  ASSUME StoreBounds, StoreInv, [Next]_vars
  PROVE  StoreInv'
<1>1. StoreTypes'
  BY StoreTypesStep DEF StoreInv
<1>2. Fresh' /\ Stored' /\ Materialized' /\ Remembered' /\ Looked'
  <2>1. ASSUME NEW p \in Procs, Crash(p)
        PROVE  Fresh' /\ Stored' /\ Materialized' /\ Remembered' /\ Looked'
    <3>1. Goto(p, "idle") /\ job' = [job EXCEPT ![p] = NoJob]
          /\ UNCHANGED <<user, store, been>> /\ generation' = generation
      BY <2>1 DEF Crash
    <3>2. QED  BY <3>1, StopKeeps
  <2>2. CASE Rot
    BY <2>2, NothingReadKeeps DEF Rot
  <2>3. CASE UNCHANGED vars
    BY <2>3, NothingReadKeeps DEF vars, store
  <2>4. QED
    BY <2>1, <2>2, <2>3, CaptureKeeps, PutBlobKeeps, PutTreeKeeps, MaterializeFileKeeps,
       RenameKeeps, FingerprintKeeps, HashFileKeeps, CompareKeeps, EditKeeps DEF Next, Step
<1>3. QED  BY <1>1, <1>2 DEF StoreInv

\* The invariant holds in every reachable state.
THEOREM StoreInvariant ==
  ASSUME StoreBounds
  PROVE  Spec => []StoreInv
<1>1. Init => StoreInv
  BY StoreInvInit
<1>2. StoreInv /\ [Next]_vars => StoreInv'
  BY StoreInvStep
<1>3. QED  BY <1>1, <1>2, PTL DEF Spec

\* The directory, the store and what a process has read have the types the
\* operators of the store expect (objectstore/store.go).
THEOREM StoreTypeCorrect ==
  ASSUME StoreBounds
  PROVE  Spec => []TypeOK
<1>1. StoreInv => TypeOK
  BY DEF StoreInv, StoreTypes
<1>2. QED  BY <1>1, StoreInvariant, PTL

\* However often the owner edits the directory during a capture, whatever rots
\* and whoever dies: manifests have their files, a destination holds a captured
\* tree, all of it, and an accepted generation is the directory of one moment
\* since the capture began (objectstore/store.go, lifecycle/adopt.go).
THEOREM CapturesAreRealAlways ==
  ASSUME StoreBounds
  PROVE  Spec => []CapturesAreReal
<1>1. StoreInv => CapturesAreReal
  BY DEF StoreInv, CapturesAreReal, Stored, Materialized, Looked
<1>2. QED  BY <1>1, StoreInvariant, PTL
===============================================================================
