--------------------------- MODULE SelfUpdateProofs ---------------------------
(***************************************************************************)
(* Theorems about SelfUpdate: for any number of processes, directories,    *)
(* releases, crashes and installations by the user, an update goes forward.*)
(*                                                                         *)
(* The argument.  Only the holder of the lock writes pending.json and the  *)
(* sequence, so what it applies is still pending in its directory and is   *)
(* newer than the recorded sequence until it records it itself (Applying). *)
(* An executable that came from a directory is recorded there, or still    *)
(* pending there when a crash came between (Recorded).  So a release that  *)
(* is older than the executable can be put in its place only if that one   *)
(* came from elsewhere.                                                    *)
(***************************************************************************)
EXTENDS SelfUpdate, TLAPS

(***************************************************************************)
(* The inductive invariant                                                 *)
(***************************************************************************)
(* Every command has a directory, and what it applies or stages is a       *)
(* release.                                                                *)
Targeted ==
  \A p \in Procs : /\ pc[p] # "idle" => job[p].dir \in Dirs
                   /\ pc[p] \notin {"idle", "apply"} => job[p].target \in Release
(* The holder of the lock, and what its directory records meanwhile.       *)
Applying ==
  \A p \in Procs :
    LET j == job[p] IN
    /\ pc[p] \in {"decide", "backup", "replace", "sequence", "clean"} => pending[j.dir] = j.target
    /\ pc[p] \in {"backup", "replace"} => j.target > j.built /\ j.target > seq[j.dir]
    /\ pc[p] = "sequence" => j.target >= seq[j.dir]
    /\ pc[p] = "clean" => j.target = seq[j.dir]
    /\ pc[p] = "pending" => pending[j.dir] = 0
(* The executable whose hash was taken is there, unless the user has       *)
(* replaced it.                                                            *)
Compared ==
  \A p \in Procs :
    LET j == job[p] IN
    /\ pc[p] = "backup" => j.seen = 0 \/ (j.seen = live /\ live # j.target)
    /\ pc[p] = "replace" => j.seen = 0 \/ (j.seen = live /\ previous = live)
Recorded == \A d \in Dirs : origin = d => seq[d] >= live \/ pending[d] = live

UpdateInv == TypeOK /\ Targeted /\ Applying /\ Compared /\ Recorded

-------------------------------------------------------------------------------
(* The operators, and what the steps write.                                *)

Jobs == [dir : Dirs \cup {None}, built : 0..MaxRelease,
         target : 0..MaxRelease, seen : 0..MaxRelease]

\* The newer of two.
LEMMA MaxOfTwo ==
  ASSUME NEW a \in Int, NEW b \in Int
  PROVE  Max({a, b}) \in {a, b} /\ Max({a, b}) >= a /\ Max({a, b}) >= b
<1>1. \E x \in {a, b} : \A y \in {a, b} : x >= y
  <2>1. CASE a >= b
    BY <2>1
  <2>2. CASE ~(a >= b)
    BY <2>2
  <2>3. QED  BY <2>1, <2>2
<1>2. Max({a, b}) \in {a, b} /\ \A y \in {a, b} : Max({a, b}) >= y
  BY <1>1, Zenon DEF Max
<1>3. QED  BY <1>2

\* What is accepted is newer than what runs and than what is recorded.
LEMMA AcceptedIsNewer ==
  ASSUME UpdateBounds, TypeOK, NEW p \in Procs, job[p].dir \in Dirs
  PROVE  /\ Current(p) >= job[p].built /\ Current(p) >= seq[job[p].dir]
         /\ Current(p) \in Int
<1>1. job[p].built \in Int /\ seq[job[p].dir] \in Int
  BY DEF TypeOK, UpdateBounds
<1>2. QED  BY <1>1, MaxOfTwo DEF Current, CurrentOf

\* Only one process is past the lock.
LEMMA LockIsHeldByOne ==
  ASSUME UpdateBounds, TypeOK, NEW p \in Procs, NEW q \in Procs, p # q,
         pc[p] \notin {"idle", "apply", "confirm"}
  PROVE  lock = p /\ pc[q] \in {"idle", "apply", "confirm"}
BY DEF TypeOK, UpdateBounds

\* A command that ends.
LEMMA EndWritten ==
  ASSUME UpdateBounds, TypeOK, NEW p \in Procs, End(p)
  PROVE  /\ job' \in [Procs -> Jobs] /\ pc' \in [Procs -> PCs] /\ pc'[p] = "idle"
         /\ \A q \in Procs \ {p} : job'[q] = job[q] /\ pc'[q] = pc[q]
<1>1. NoJob \in Jobs
  BY DEF NoJob, Jobs, UpdateBounds
<1>2. QED  BY <1>1 DEF End, Goto, TypeOK, Jobs, PCs

\* The command itself, after the pending release: it ends, or shows a release.
LEMMA RunsWritten ==
  ASSUME UpdateBounds, TypeOK, NEW p \in Procs, NEW j \in Jobs, j.dir \in Dirs, Runs(p, j)
  PROVE  /\ job' \in [Procs -> Jobs] /\ pc' \in [Procs -> PCs] /\ pc'[p] \in {"idle", "confirm"}
         /\ pc'[p] = "confirm" => job'[p].dir \in Dirs /\ job'[p].target \in Release
         /\ \A q \in Procs \ {p} : job'[q] = job[q] /\ pc'[q] = pc[q]
<1>1. CASE End(p)
  BY <1>1, EndWritten
<1>2. CASE ~End(p)
  <2>1. PICK r \in Release : job' = [job EXCEPT ![p] = [j EXCEPT !.target = r, !.seen = 0]]
    BY <1>2 DEF Runs
  <2> DEFINE new == [j EXCEPT !.target = r, !.seen = 0]
  <2>2. new \in Jobs /\ new.dir = j.dir /\ new.target = r
    <3>1. r \in 0..MaxRelease /\ 0 \in 0..MaxRelease
      BY DEF Release, UpdateBounds
    <3>2. QED  BY <3>1 DEF Jobs
  <2>3. job' = [job EXCEPT ![p] = new]
    BY <2>1
  <2> HIDE DEF new
  <2>4. job' \in [Procs -> Jobs] /\ job'[p] = new /\ \A q \in Procs \ {p} : job'[q] = job[q]
    BY <2>2, <2>3 DEF TypeOK, Jobs
  <2>5. Goto(p, "confirm")
    BY <1>2 DEF Runs
  <2>6. pc' \in [Procs -> PCs] /\ pc'[p] = "confirm" /\ \A q \in Procs \ {p} : pc'[q] = pc[q]
    BY <2>5 DEF Goto, TypeOK, PCs
  <2>7. QED  BY <2>2, <2>4, <2>6
<1>3. QED  BY <1>1, <1>2

\* A process without the lock takes a step that touches only itself.
LEMMA UnlockedStepKeeps ==
  ASSUME UpdateBounds, UpdateInv, NEW p \in Procs,
         pc[p] \in {"idle", "apply", "confirm"}, UNCHANGED <<exe, dirs, lock>>,
         job' \in [Procs -> Jobs], pc' \in [Procs -> PCs],
         pc'[p] \in {"idle", "apply", "confirm"},
         pc'[p] # "idle" => job'[p].dir \in Dirs,
         pc'[p] = "confirm" => job'[p].target \in Release,
         \A q \in Procs \ {p} : job'[q] = job[q] /\ pc'[q] = pc[q]
  PROVE  UpdateInv'
<1> USE DEF UpdateInv, exe, dirs
<1>1. TypeOK'
  BY DEF TypeOK, Jobs
<1>2. Targeted'
  BY DEF Targeted
<1>3. Applying'
  BY DEF Applying
<1>4. Compared'
  BY DEF Compared
<1>5. Recorded'
  BY DEF Recorded
<1>6. QED  BY <1>1, <1>2, <1>3, <1>4, <1>5

\* The holder of the lock lets go of it and is through with its directory.
LEMMA UnlockingStepKeeps ==
  ASSUME UpdateBounds, UpdateInv, NEW p \in Procs,
         pc[p] \notin {"idle", "apply", "confirm"}, Unlock, UNCHANGED <<exe, seq>>,
         pending' \in [Dirs -> 0..MaxRelease], staged' \in [Dirs -> SUBSET Release],
         job' \in [Procs -> Jobs], pc' \in [Procs -> PCs],
         pc'[p] \in {"idle", "confirm"},
         pc'[p] = "confirm" => job'[p].dir \in Dirs /\ job'[p].target \in Release,
         \A q \in Procs \ {p} : job'[q] = job[q] /\ pc'[q] = pc[q],
         Recorded'
  PROVE  UpdateInv'
<1> USE DEF UpdateInv, exe
<1>1. lock = p /\ \A q \in Procs \ {p} : pc[q] \in {"idle", "apply", "confirm"}
  BY LockIsHeldByOne DEF TypeOK
<1>2. \A q \in Procs : pc'[q] \in {"idle", "apply", "confirm"}
  BY <1>1
<1>3. TypeOK'
  <2>1. lock' = None /\ \A q \in Procs : lock' # q
    BY DEF Unlock, UpdateBounds
  <2>2. QED  BY <1>2, <2>1 DEF TypeOK, Jobs
<1>4. Targeted'
  BY DEF Targeted
<1>5. Applying' /\ Compared'
  BY <1>2 DEF Applying, Compared
<1>6. QED  BY <1>3, <1>4, <1>5

-------------------------------------------------------------------------------
(* Every command applies what is pending first.                            *)

\* A look without the lock.
LEMMA CommandKeeps ==
  ASSUME UpdateBounds, UpdateInv, NEW p \in Procs, NEW d \in Dirs, Command(p, d)
  PROVE  UpdateInv'
<1> DEFINE j == [NoJob EXCEPT !.dir = d, !.built = live]
<1>1. j \in Jobs /\ j.dir = d
  <2>1. live \in 0..MaxRelease /\ 0 \in 0..MaxRelease
    BY DEF UpdateInv, TypeOK, Release, UpdateBounds
  <2>2. QED  BY <2>1 DEF NoJob, Jobs
<1>2. pc[p] = "idle" /\ UNCHANGED <<exe, dirs, lock>>
  BY DEF Command
<1>3. CASE pending[d] = 0
  <2>1. Runs(p, j)
    BY <1>3 DEF Command
  <2> HIDE DEF j
  <2>2. QED  BY <1>1, <1>2, <2>1, RunsWritten, UnlockedStepKeeps DEF UpdateInv
<1>4. CASE pending[d] # 0
  <2>1. pc' = [pc EXCEPT ![p] = "apply"] /\ job' = [job EXCEPT ![p] = j]
    BY <1>4 DEF Command, Goto
  <2> HIDE DEF j
  <2>2. /\ job' \in [Procs -> Jobs] /\ pc' \in [Procs -> PCs] /\ pc'[p] = "apply" /\ job'[p] = j
        /\ \A q \in Procs \ {p} : job'[q] = job[q] /\ pc'[q] = pc[q]
    BY <1>1, <2>1 DEF UpdateInv, TypeOK, Jobs, PCs
  <2>3. QED  BY <1>1, <1>2, <2>2, UnlockedStepKeeps
<1>5. QED  BY <1>3, <1>4

\* pending.json is read again under the lock.
LEMMA ApplyLockKeeps ==
  ASSUME UpdateBounds, UpdateInv, NEW p \in Procs, ApplyLock(p)
  PROVE  UpdateInv'
<1> USE DEF UpdateInv
<1>1. /\ pc[p] = "apply" /\ lock = None /\ UNCHANGED <<exe, dirs>>
      /\ job[p] \in Jobs /\ job[p].dir \in Dirs
  BY DEF ApplyLock, TypeOK, Jobs, Targeted
<1>2. CASE pending[job[p].dir] = 0
  <2>1. Runs(p, job[p]) /\ UNCHANGED lock
    BY <1>2 DEF ApplyLock
  <2>2. QED  BY <1>1, <2>1, RunsWritten, UnlockedStepKeeps
<1>3. CASE pending[job[p].dir] # 0
  <2> DEFINE row == job[p]
             r == pending[row.dir]
             new == [row EXCEPT !.target = r]
  <2>1. r \in Release
    BY <1>1, <1>3 DEF TypeOK, Release, UpdateBounds
  <2>2. new \in Jobs /\ new.dir = row.dir /\ new.target = r
    BY <1>1, <2>1 DEF Jobs, Release, UpdateBounds
  <2>3. lock' = p /\ pc' = [pc EXCEPT ![p] = "decide"] /\ job' = [job EXCEPT ![p] = new]
    BY <1>3 DEF ApplyLock, Goto
  <2> HIDE DEF new
  <2>4. /\ job' \in [Procs -> Jobs] /\ job'[p] = new
        /\ pc' \in [Procs -> PCs] /\ pc'[p] = "decide"
        /\ \A q \in Procs \ {p} : job'[q] = job[q] /\ pc'[q] = pc[q]
    BY <2>2, <2>3 DEF TypeOK, Jobs, PCs
  <2>5. \A q \in Procs : pc[q] \in {"idle", "apply", "confirm"}
    BY <1>1 DEF TypeOK, UpdateBounds
  <2>6. TypeOK'
    BY <1>1, <2>3, <2>4, <2>5 DEF TypeOK, Jobs, exe, dirs
  <2>7. Targeted'
    BY <1>1, <2>1, <2>2, <2>4 DEF Targeted
  <2>8. Applying'
    BY <1>1, <2>2, <2>4, <2>5 DEF Applying, dirs
  <2>9. Compared' /\ Recorded'
    BY <1>1, <2>4, <2>5 DEF Compared, Recorded, exe, dirs
  <2>10. QED  BY <2>6, <2>7, <2>8, <2>9
<1>4. QED  BY <1>2, <1>3

\* A step of the holder that goes on: what changes is its own place.
Holds(p, to) ==
  /\ pc[p] \notin {"idle", "apply", "confirm"} /\ to \notin {"idle", "apply", "confirm"}
  /\ to \in PCs /\ Goto(p, to) /\ UNCHANGED lock
LEMMA HolderWritten ==
  ASSUME UpdateBounds, UpdateInv, NEW p \in Procs, NEW to, Holds(p, to)
  PROVE  /\ pc' \in [Procs -> PCs] /\ pc'[p] = to /\ \A q \in Procs \ {p} : pc'[q] = pc[q]
         /\ lock = p /\ \A q \in Procs \ {p} : pc[q] \in {"idle", "apply", "confirm"}
         /\ lock' \in Procs \cup {None}
         /\ \A q \in Procs : lock' = q <=> pc'[q] \notin {"idle", "apply", "confirm"}
<1>1. pc' \in [Procs -> PCs] /\ pc'[p] = to /\ \A q \in Procs \ {p} : pc'[q] = pc[q]
  BY DEF Holds, Goto, UpdateInv, TypeOK
<1>2. lock = p /\ \A q \in Procs \ {p} : pc[q] \in {"idle", "apply", "confirm"}
  BY LockIsHeldByOne DEF Holds, UpdateInv, TypeOK
<1>3. QED  BY <1>1, <1>2 DEF Holds, UpdateInv, TypeOK

\* The release is refused.
LEMMA RefuseKeeps ==
  ASSUME UpdateBounds, UpdateInv, NEW p \in Procs, Refuse(p)
  PROVE  UpdateInv'
<1> USE DEF UpdateInv
<1>1. pc[p] = "decide" /\ Unlock /\ End(p) /\ UNCHANGED <<exe, dirs>>
  BY DEF Refuse
<1>2. Recorded' /\ pending' \in [Dirs -> 0..MaxRelease] /\ staged' \in [Dirs -> SUBSET Release]
  BY <1>1 DEF Recorded, exe, dirs, TypeOK
<1>3. QED  BY <1>1, <1>2, EndWritten, UnlockingStepKeeps DEF dirs

\* The executable is compared with the release.
LEMMA CompareKeeps ==
  ASSUME UpdateBounds, UpdateInv, NEW p \in Procs, Compare(p)
  PROVE  UpdateInv'
<1> USE DEF UpdateInv
<1> DEFINE to == IF AlreadyLive(p) THEN "sequence" ELSE "backup"
           row == job[p]
           new == [row EXCEPT !.seen = live]
<1>1. /\ pc[p] = "decide" /\ UNCHANGED <<exe, dirs>> /\ Usable(p) /\ Holds(p, to)
      /\ job' = [job EXCEPT ![p] = new]
  BY DEF Compare, Holds, PCs
<1>2. /\ row \in Jobs /\ row.dir \in Dirs /\ row.target \in Release /\ live \in Release
      /\ pending[row.dir] = row.target
  BY <1>1 DEF TypeOK, Jobs, Targeted, Applying
<1>3. /\ new \in Jobs /\ new.seen = live /\ new.dir = row.dir /\ new.built = row.built
      /\ new.target = row.target
  BY <1>2 DEF Jobs, Release, UpdateBounds
<1> HIDE DEF new
<1>4. job' \in [Procs -> Jobs] /\ job'[p] = new /\ \A q \in Procs \ {p} : job'[q] = job[q]
  BY <1>1, <1>3 DEF TypeOK, Jobs
<1>5. /\ pc' \in [Procs -> PCs] /\ pc'[p] = to /\ \A q \in Procs \ {p} : pc'[q] = pc[q]
      /\ \A q \in Procs \ {p} : pc[q] \in {"idle", "apply", "confirm"}
      /\ lock' \in Procs \cup {None}
      /\ \A q \in Procs : lock' = q <=> pc'[q] \notin {"idle", "apply", "confirm"}
  BY <1>1, HolderWritten
<1>6. TypeOK'
  BY <1>1, <1>4, <1>5 DEF TypeOK, Jobs, exe, dirs
<1>7. Targeted'
  BY <1>2, <1>3, <1>4, <1>5 DEF Targeted
<1>8. Applying'
  <2>1. /\ Current(p) >= row.built /\ Current(p) >= seq[row.dir] /\ Current(p) \in Int
        /\ row.built \in Int /\ seq[row.dir] \in Int /\ row.target \in Int
    BY <1>2, AcceptedIsNewer DEF TypeOK, Jobs, Release, UpdateBounds
  <2>2. row.target >= seq[row.dir]
    BY <1>1, <2>1 DEF Usable, Accepted
  <2>3. ~AlreadyLive(p) => row.target > row.built /\ row.target > seq[row.dir]
    BY <1>1, <2>1 DEF Usable, Accepted, AlreadyLive
  <2>4. QED  BY <1>1, <1>2, <1>3, <1>4, <1>5, <2>2, <2>3 DEF Applying, dirs
<1>9. Compared'
  BY <1>1, <1>3, <1>4, <1>5 DEF Compared, AlreadyLive, exe
<1>10. Recorded'
  BY <1>1 DEF Recorded, exe, dirs
<1>11. QED  BY <1>6, <1>7, <1>8, <1>9, <1>10

\* The executable is kept as executable.previous.
LEMMA BackupKeeps ==
  ASSUME UpdateBounds, UpdateInv, NEW p \in Procs, Backup(p)
  PROVE  UpdateInv'
<1> USE DEF UpdateInv
<1>1. pc[p] = "backup" /\ previous' = live /\ Holds(p, "replace")
      /\ UNCHANGED <<live, origin, seq, pending, staged, job>>
  BY DEF Backup, Holds, PCs, dirs
<1>2. /\ pc' \in [Procs -> PCs] /\ pc'[p] = "replace" /\ \A q \in Procs \ {p} : pc'[q] = pc[q]
      /\ \A q \in Procs \ {p} : pc[q] \in {"idle", "apply", "confirm"}
      /\ lock' \in Procs \cup {None}
      /\ \A q \in Procs : lock' = q <=> pc'[q] \notin {"idle", "apply", "confirm"}
  BY <1>1, HolderWritten
<1>3. TypeOK'
  BY <1>1, <1>2 DEF TypeOK, Release, UpdateBounds
<1>4. Targeted'
  BY <1>1, <1>2 DEF Targeted
<1>5. Applying'
  BY <1>1, <1>2 DEF Applying
<1>6. Compared'
  BY <1>1, <1>2 DEF Compared
<1>7. Recorded'
  BY <1>1 DEF Recorded
<1>8. QED  BY <1>3, <1>4, <1>5, <1>6, <1>7

\* The new executable is put in its place: it is pending in the directory it comes from.
LEMMA ReplaceKeeps ==
  ASSUME UpdateBounds, UpdateInv, NEW p \in Procs, Replace(p)
  PROVE  UpdateInv'
<1> USE DEF UpdateInv
<1>1. /\ pc[p] = "replace" /\ live' = job[p].target /\ origin' = job[p].dir
      /\ Holds(p, "sequence") /\ UNCHANGED <<previous, seq, pending, staged, job>>
  BY DEF Replace, Holds, PCs, dirs
<1>2. /\ pc' \in [Procs -> PCs] /\ pc'[p] = "sequence" /\ \A q \in Procs \ {p} : pc'[q] = pc[q]
      /\ \A q \in Procs \ {p} : pc[q] \in {"idle", "apply", "confirm"}
      /\ lock' \in Procs \cup {None}
      /\ \A q \in Procs : lock' = q <=> pc'[q] \notin {"idle", "apply", "confirm"}
  BY <1>1, HolderWritten
<1>3. /\ job[p].dir \in Dirs /\ job[p].target \in Release /\ pending[job[p].dir] = job[p].target
      /\ job[p].target > seq[job[p].dir]
  BY <1>1 DEF Targeted, Applying
<1>4. TypeOK'
  BY <1>1, <1>2, <1>3 DEF TypeOK
<1>5. Targeted'
  BY <1>1, <1>2, <1>3 DEF Targeted
<1>6. Applying'
  <2>1. job[p].target >= seq[job[p].dir]
    BY <1>3 DEF TypeOK, Release, UpdateBounds
  <2>2. QED  BY <1>1, <1>2, <1>3, <2>1 DEF Applying
<1>7. Compared'
  BY <1>1, <1>2 DEF Compared
<1>8. Recorded'
  BY <1>1, <1>3 DEF Recorded
<1>9. QED  BY <1>4, <1>5, <1>6, <1>7, <1>8

\* The sequence is recorded; it never goes back.
LEMMA CommitSequenceKeeps ==
  ASSUME UpdateBounds, UpdateInv, NEW p \in Procs, CommitSequence(p)
  PROVE  UpdateInv'
<1> USE DEF UpdateInv
<1>1. /\ pc[p] = "sequence" /\ seq' = [seq EXCEPT ![job[p].dir] = job[p].target]
      /\ Holds(p, "clean") /\ UNCHANGED <<live, previous, origin, pending, staged, job>>
  BY DEF CommitSequence, Holds, PCs, exe
<1>2. /\ pc' \in [Procs -> PCs] /\ pc'[p] = "clean" /\ \A q \in Procs \ {p} : pc'[q] = pc[q]
      /\ \A q \in Procs \ {p} : pc[q] \in {"idle", "apply", "confirm"}
      /\ lock' \in Procs \cup {None}
      /\ \A q \in Procs : lock' = q <=> pc'[q] \notin {"idle", "apply", "confirm"}
  BY <1>1, HolderWritten
<1>3. /\ job[p].dir \in Dirs /\ job[p].target \in Release /\ pending[job[p].dir] = job[p].target
      /\ job[p].target >= seq[job[p].dir]
  BY <1>1 DEF Targeted, Applying
<1>4. /\ seq' \in [Dirs -> 0..MaxRelease] /\ seq'[job[p].dir] = job[p].target
      /\ \A d \in Dirs \ {job[p].dir} : seq'[d] = seq[d]
  BY <1>1, <1>3 DEF TypeOK, Release, UpdateBounds
<1>5. TypeOK'
  BY <1>1, <1>2, <1>4 DEF TypeOK
<1>6. Targeted'
  BY <1>1, <1>2, <1>3 DEF Targeted
<1>7. Applying'
  BY <1>1, <1>2, <1>3, <1>4 DEF Applying
<1>8. Compared'
  BY <1>1, <1>2 DEF Compared
<1>9. Recorded'
  <2>1. \A d \in Dirs : seq'[d] >= seq[d] /\ seq[d] \in Int /\ seq'[d] \in Int
    BY <1>3, <1>4 DEF TypeOK, UpdateBounds
  <2>2. live \in Int
    BY DEF TypeOK, Release, UpdateBounds
  <2>3. QED  BY <1>1, <2>1, <2>2 DEF Recorded
<1>10. QED  BY <1>5, <1>6, <1>7, <1>8, <1>9

\* pending.json goes only when what it names is recorded.
LEMMA RemovePendingKeeps ==
  ASSUME UpdateBounds, UpdateInv, NEW p \in Procs, RemovePending(p)
  PROVE  UpdateInv'
<1> USE DEF UpdateInv
<1>1. /\ pc[p] = "clean" /\ pending' = [pending EXCEPT ![job[p].dir] = 0]
      /\ staged' = [staged EXCEPT ![job[p].dir] = @ \ {job[p].target}]
      /\ Unlock /\ Runs(p, job[p]) /\ UNCHANGED <<exe, seq>>
  BY DEF RemovePending
<1>2. /\ job[p] \in Jobs /\ job[p].dir \in Dirs /\ job[p].target = seq[job[p].dir]
      /\ pending[job[p].dir] = job[p].target
  BY <1>1 DEF TypeOK, Jobs, Targeted, Applying
<1>3. /\ pending' \in [Dirs -> 0..MaxRelease] /\ staged' \in [Dirs -> SUBSET Release]
      /\ \A d \in Dirs \ {job[p].dir} : pending'[d] = pending[d]
  <2>1. 0 \in 0..MaxRelease
    BY DEF UpdateBounds
  <2>2. QED  BY <1>1, <1>2, <2>1 DEF TypeOK
<1>4. Recorded'
  <2>1. live \in Int
    BY DEF TypeOK, Release, UpdateBounds
  <2>2. QED  BY <1>1, <1>2, <1>3, <2>1 DEF Recorded, exe
<1>5. QED  BY <1>1, <1>2, <1>3, <1>4, RunsWritten, UnlockingStepKeeps

-------------------------------------------------------------------------------
(* "self update" after its preview.                                        *)

LEMMA DeclineKeeps ==
  ASSUME UpdateBounds, UpdateInv, NEW p \in Procs, Decline(p)
  PROVE  UpdateInv'
<1>1. pc[p] = "confirm" /\ End(p) /\ UNCHANGED <<exe, dirs, lock>>
  BY DEF Decline
<1>2. QED  BY <1>1, EndWritten, UnlockedStepKeeps DEF UpdateInv

LEMMA StageLockKeeps ==
  ASSUME UpdateBounds, UpdateInv, NEW p \in Procs, StageLock(p)
  PROVE  UpdateInv'
<1> USE DEF UpdateInv
<1>1. /\ pc[p] = "confirm" /\ lock = None /\ lock' = p
      /\ UNCHANGED <<exe, dirs, job>>
  BY DEF StageLock
<1>2. /\ pc' \in [Procs -> PCs] /\ pc'[p] = "check" /\ \A q \in Procs \ {p} : pc'[q] = pc[q]
  BY DEF StageLock, Goto, TypeOK, PCs
<1>3. \A q \in Procs : pc[q] \in {"idle", "apply", "confirm"}
  BY <1>1 DEF TypeOK, UpdateBounds
<1>4. TypeOK'
  BY <1>1, <1>2, <1>3 DEF TypeOK, exe, dirs
<1>5. Targeted'
  BY <1>1, <1>2 DEF Targeted
<1>6. Applying' /\ Compared' /\ Recorded'
  BY <1>1, <1>2, <1>3 DEF Applying, Compared, Recorded, exe, dirs
<1>7. QED  BY <1>4, <1>5, <1>6

LEMMA StageEndsKeeps ==
  ASSUME UpdateBounds, UpdateInv, NEW p \in Procs, StageEnds(p)
  PROVE  UpdateInv'
<1> USE DEF UpdateInv
<1>1. pc[p] = "check" /\ Unlock /\ End(p) /\ UNCHANGED <<exe, dirs>>
  BY DEF StageEnds
<1>2. Recorded' /\ pending' \in [Dirs -> 0..MaxRelease] /\ staged' \in [Dirs -> SUBSET Release]
  BY <1>1 DEF Recorded, exe, dirs, TypeOK
<1>3. QED  BY <1>1, <1>2, EndWritten, UnlockingStepKeeps DEF dirs

LEMMA StageFilesKeeps ==
  ASSUME UpdateBounds, UpdateInv, NEW p \in Procs, StageFiles(p)
  PROVE  UpdateInv'
<1> USE DEF UpdateInv
<1>1. /\ pc[p] = "check" /\ pending[job[p].dir] = 0 /\ Holds(p, "pending")
      /\ staged' = [staged EXCEPT ![job[p].dir] = @ \cup {job[p].target}]
      /\ UNCHANGED <<exe, seq, pending, job>>
  BY DEF StageFiles, StageChecks, Holds, PCs
<1>2. /\ pc' \in [Procs -> PCs] /\ pc'[p] = "pending" /\ \A q \in Procs \ {p} : pc'[q] = pc[q]
      /\ \A q \in Procs \ {p} : pc[q] \in {"idle", "apply", "confirm"}
      /\ lock' \in Procs \cup {None}
      /\ \A q \in Procs : lock' = q <=> pc'[q] \notin {"idle", "apply", "confirm"}
  BY <1>1, HolderWritten
<1>3. job[p].dir \in Dirs /\ job[p].target \in Release
  BY <1>1 DEF Targeted
<1>4. staged' \in [Dirs -> SUBSET Release]
  BY <1>1, <1>3 DEF TypeOK
<1>5. TypeOK'
  BY <1>1, <1>2, <1>4 DEF TypeOK, exe
<1>6. Targeted'
  BY <1>1, <1>2, <1>3 DEF Targeted
<1>7. Applying' /\ Compared' /\ Recorded'
  BY <1>1, <1>2 DEF Applying, Compared, Recorded, exe
<1>8. QED  BY <1>5, <1>6, <1>7

\* Nothing was pending, so what is installed from here is recorded already.
LEMMA WritePendingKeeps ==
  ASSUME UpdateBounds, UpdateInv, NEW p \in Procs, WritePending(p)
  PROVE  UpdateInv'
<1> USE DEF UpdateInv
<1>1. /\ pc[p] = "pending" /\ pending' = [pending EXCEPT ![job[p].dir] = job[p].target]
      /\ Unlock /\ End(p) /\ UNCHANGED <<exe, seq, staged>>
  BY DEF WritePending
<1>2. job[p].dir \in Dirs /\ job[p].target \in Release /\ pending[job[p].dir] = 0
  BY <1>1 DEF Targeted, Applying
<1>3. /\ pending' \in [Dirs -> 0..MaxRelease] /\ staged' \in [Dirs -> SUBSET Release]
      /\ \A d \in Dirs \ {job[p].dir} : pending'[d] = pending[d]
  BY <1>1, <1>2 DEF TypeOK, Release, UpdateBounds
<1>4. Recorded'
  <2>1. live # 0
    BY DEF TypeOK, Release, UpdateBounds
  <2>2. QED  BY <1>1, <1>2, <1>3, <2>1 DEF Recorded, exe
<1>5. QED  BY <1>1, <1>3, <1>4, EndWritten, UnlockingStepKeeps

-------------------------------------------------------------------------------
(* The world. *)

\* The user installs a release: nobody has compared it, no directory has recorded it.
LEMMA InstallKeeps ==
  ASSUME UpdateBounds, UpdateInv, Install
  PROVE  UpdateInv'
<1> USE DEF UpdateInv
<1>1. /\ live' \in Release /\ origin' = None
      /\ job' = [p \in Procs |-> [job[p] EXCEPT !.seen = 0]]
      /\ UNCHANGED <<previous, dirs, lock, pc>>
  BY DEF Install
<1>2. ASSUME NEW p \in Procs
      PROVE  /\ job'[p] \in Jobs /\ job'[p].seen = 0 /\ job'[p].dir = job[p].dir
             /\ job'[p].built = job[p].built /\ job'[p].target = job[p].target
  <2> DEFINE row == job[p]
             new == [row EXCEPT !.seen = 0]
  <2>1. row \in Jobs
    BY DEF TypeOK, Jobs
  <2>2. new \in Jobs /\ new.seen = 0 /\ new.dir = row.dir /\ new.built = row.built
        /\ new.target = row.target
    BY <2>1 DEF Jobs, UpdateBounds
  <2>3. job'[p] = new
    BY <1>1
  <2>4. QED  BY <2>2, <2>3
<1>3. job' \in [Procs -> Jobs]
  BY <1>1, <1>2
<1>4. TypeOK'
  BY <1>1, <1>3 DEF TypeOK, Jobs, dirs
<1>5. Targeted'
  BY <1>1, <1>2 DEF Targeted
<1>6. Applying'
  BY <1>1, <1>2 DEF Applying, dirs
<1>7. Compared'
  BY <1>1, <1>2 DEF Compared
<1>8. Recorded'
  BY <1>1 DEF Recorded, UpdateBounds
<1>9. QED  BY <1>4, <1>5, <1>6, <1>7, <1>8

\* A process that dies gives back the lock.
LEMMA CrashKeeps ==
  ASSUME UpdateBounds, UpdateInv, NEW p \in Procs, Crash(p)
  PROVE  UpdateInv'
<1> USE DEF UpdateInv
<1>1. End(p) /\ lock' = (IF lock = p THEN None ELSE lock) /\ UNCHANGED <<exe, dirs>>
  BY DEF Crash
<1>2. CASE pc[p] \in {"idle", "apply", "confirm"}
  <2>1. lock # p
    BY <1>2 DEF TypeOK
  <2>2. QED  BY <1>1, <1>2, <2>1, EndWritten, UnlockedStepKeeps
<1>3. CASE pc[p] \notin {"idle", "apply", "confirm"}
  <2>1. Unlock
    BY <1>1, <1>3 DEF TypeOK, Unlock
  <2>2. Recorded' /\ pending' \in [Dirs -> 0..MaxRelease] /\ staged' \in [Dirs -> SUBSET Release]
    BY <1>1 DEF Recorded, exe, dirs, TypeOK
  <2>3. QED  BY <1>1, <1>3, <2>1, <2>2, EndWritten, UnlockingStepKeeps DEF dirs
<1>4. QED  BY <1>2, <1>3

-------------------------------------------------------------------------------
(* The theorems. *)

LEMMA UpdateInvInit ==
  ASSUME UpdateBounds, Init
  PROVE  UpdateInv
<1>1. TypeOK
  BY DEF Init, TypeOK, NoJob, PCs, Release, UpdateBounds
<1>2. Targeted /\ Applying /\ Compared /\ Recorded
  BY DEF Init, Targeted, Applying, Compared, Recorded, UpdateBounds
<1>3. QED  BY <1>1, <1>2 DEF UpdateInv

LEMMA UpdateInvStep ==
  ASSUME UpdateBounds, UpdateInv, [Next]_vars
  PROVE  UpdateInv'
<1>1. CASE UNCHANGED vars
  BY <1>1 DEF vars, exe, dirs, work, UpdateInv, TypeOK, Targeted, Applying, Compared, Recorded
<1>2. CASE Next
  BY <1>2, CommandKeeps, ApplyLockKeeps, RefuseKeeps, CompareKeeps, BackupKeeps, ReplaceKeeps,
     CommitSequenceKeeps, RemovePendingKeeps, DeclineKeeps, StageLockKeeps, StageEndsKeeps,
     StageFilesKeeps, WritePendingKeeps, InstallKeeps, CrashKeeps DEF Next, Step
<1>3. QED  BY <1>1, <1>2

\* The invariant holds in every reachable state.
THEOREM UpdateInvariant ==
  ASSUME UpdateBounds
  PROVE  SafeSpec => []UpdateInv
<1>1. Init => UpdateInv
  BY UpdateInvInit
<1>2. UpdateInv /\ [Next]_vars => UpdateInv'
  BY UpdateInvStep
<1>3. QED  BY <1>1, <1>2, PTL DEF SafeSpec

\* The executable, the files of the directories and the commands have their types, and
\* the lock is held by exactly the one that is past it (selfupdate/manager.go).
THEOREM UpdateTypeCorrect ==
  ASSUME UpdateBounds
  PROVE  SafeSpec => []TypeOK
<1>1. UpdateInv => TypeOK
  BY DEF UpdateInv
<1>2. QED  BY <1>1, UpdateInvariant, PTL

\* An executable is written only by the holder of the lock, at "backup" and "replace".
LEMMA OnlyTwoStepsWrite ==
  ASSUME UpdateInv, Next, NEW p \in Procs, pc[p] # pc'[p]
  PROVE  UNCHANGED exe \/ Backup(p) \/ Replace(p)
<1>1. ASSUME NEW q \in Procs, Backup(q) \/ Replace(q)  PROVE q = p
  BY <1>1 DEF Backup, Replace, Goto, UpdateInv, TypeOK
<1>2. ASSUME Install  PROVE FALSE
  BY <1>2 DEF Install
<1>3. QED
  BY <1>1, <1>2 DEF Next, Step, Command, ApplyLock, Refuse, Compare, CommitSequence,
     RemovePending, Decline, StageLock, StageEnds, StageFiles, WritePending, Crash

\* No update puts an older release over a newer one, unless the newer one came from
\* elsewhere after the process had started; what it replaces is at executable.previous,
\* and a retry never puts the release it installs there (selfupdate/manager.go).
THEOREM UpdatesGoForwardAlways ==
  ASSUME UpdateBounds
  PROVE  SafeSpec => UpdatesGoForward
<1> DEFINE Forward ==
      \A p \in Procs : pc[p] # pc'[p] =>
        /\ live' # live => previous = live \/ live # job[p].seen
        /\ live' < live => origin # job[p].dir /\ job[p].built < live
        /\ previous' # previous => live # job[p].target \/ live # job[p].seen
<1>1. UpdateInv /\ [Next]_vars => [Forward]_vars
  <2> SUFFICES ASSUME UpdateInv, Next, NEW p \in Procs, pc[p] # pc'[p]
               PROVE  /\ live' # live => previous = live \/ live # job[p].seen
                      /\ live' < live => origin # job[p].dir /\ job[p].built < live
                      /\ previous' # previous => live # job[p].target \/ live # job[p].seen
    OBVIOUS
  <2>1. /\ live \in Int /\ live # 0 /\ job[p].target \in Int /\ job[p].built \in Int
        /\ \A d \in Dirs : seq[d] \in Int
    BY DEF UpdateInv, TypeOK, Release, UpdateBounds
  <2>2. CASE UNCHANGED exe
    BY <2>1, <2>2 DEF exe
  <2>3. CASE Backup(p)
    BY <2>1, <2>3 DEF Backup, UpdateInv, Compared
  <2>4. CASE Replace(p)
    <3>1. live' = job[p].target /\ pc[p] = "replace" /\ previous' = previous
      BY <2>4 DEF Replace
    <3>2. previous = live \/ live # job[p].seen
      BY <2>1, <3>1 DEF UpdateInv, Compared
    <3>3. ASSUME live' < live  PROVE origin # job[p].dir /\ job[p].built < live
      <4>1. /\ job[p].dir \in Dirs /\ pending[job[p].dir] = job[p].target
            /\ job[p].target > job[p].built /\ job[p].target > seq[job[p].dir]
        BY <3>1 DEF UpdateInv, Targeted, Applying
      <4>2. seq[job[p].dir] < live /\ pending[job[p].dir] # live
        BY <2>1, <3>1, <3>3, <4>1
      <4>3. origin # job[p].dir
        BY <2>1, <4>1, <4>2 DEF UpdateInv, Recorded
      <4>4. QED  BY <2>1, <3>1, <3>3, <4>1, <4>3
    <3>4. QED  BY <3>1, <3>2, <3>3
  <2>5. QED  BY <2>2, <2>3, <2>4, OnlyTwoStepsWrite
<1>2. SafeSpec => [][Forward]_vars
  BY <1>1, UpdateInvariant, PTL DEF SafeSpec
<1>3. QED  BY <1>2 DEF UpdatesGoForward
===============================================================================
