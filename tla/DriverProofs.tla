----------------------------- MODULE DriverProofs -----------------------------
(***************************************************************************)
(* Theorems about Driver: for any number of artifacts, of any kinds, and   *)
(* however often a command is run, a transaction ends whole.               *)
(*                                                                         *)
(* The argument.  A path is written only by the command of its own step,   *)
(* while that step is "activating" or "compensating"; the copy that was    *)
(* kept when the step was staged stays until the transaction ends          *)
(* (Staged); so a step that was never touched, or whose compensation has   *)
(* succeeded, is as it was (Untouched), and a compensation that went       *)
(* through without a failure has left no other step (Compensating).        *)
(***************************************************************************)
EXTENDS Driver, WellFoundedInduction, TLAPS

(***************************************************************************)
(* The inductive invariant                                                 *)
(***************************************************************************)
DriverTypes ==
  /\ TypeOK
  /\ kind \in [Items -> DriverKinds]
  /\ first \in [path : [Items -> {"old", "none"}], entries : SUBSET (0..N)]

(* Where the command can be, and what its last system call has done.       *)
Placed ==
  /\ worker = "none" => item = 0
  /\ worker = "recovery" => status = "rolling_back"
  /\ ~Unfinished => worker = "none"
  /\ worker # "none" => /\ status = "staging" => item \in Items
                        /\ status = "activating" => item \in 1..(N + 1)
                        /\ status = "rolling_back" => item \in 0..N
  /\ item \in Items /\ status # "staging" => at \in {"start", "aside", "placed"}
  /\ item \in Items /\ status = "staging" => at \notin {"aside", "placed"}
  /\ item \in Items /\ at = "aside" => Renames(item)
  /\ item \in Items /\ at = "placed" => item \in Git /\ path[item] = Source(item)

(* What is staged is the new version and a copy of what was there.         *)
Ready(i) == /\ stage[i].next = "new" /\ stage[i].kept = first.path[i]
            /\ stage[i].lock = IF i \in Git THEN first.entries ELSE {}
Staging ==
  status = "staging" =>
    /\ path = first.path /\ entries = first.entries /\ \A i \in Items : steps[i] = "staged"
    /\ worker # "none" =>
         /\ \A i \in Items : i < item => Ready(i)
         /\ at \in {"fetched", "kept"} => stage[item].next = "new"
         /\ at = "kept" => stage[item].kept = first.path[item]
Staged == status \in {"activating", "rolling_back"} => \A i \in Items : Ready(i)

(* Steps are activated in order.                                           *)
Activated ==
  status = "activating" /\ worker # "none" =>
    /\ \A i \in Items : /\ i < item => steps[i] = "activating" /\ path[i] = "new"
                        /\ i = item => steps[i] = "activating"
                        /\ i > item => steps[i] = "staged"
    /\ entries = first.entries \ {i \in Git : i < item}

(* A step that was never touched, or is compensated, is as it was.         *)
Untouched ==
  /\ \A i \in Items : steps[i] \in {"staged", "compensated"} =>
       /\ Was(i)
       /\ i \in Git /\ first.path[i] = "old" => (i \in entries <=> i \in first.entries)
  /\ 0 \in entries <=> 0 \in first.entries

(* Steps are compensated from the last to the first, and only a failure    *)
(* leaves one behind.                                                      *)
Compensating ==
  status = "rolling_back" /\ worker # "none" =>
    /\ item \in Items => steps[item] = "compensating"
    /\ ~failures => \A i \in Touched : i <= item

Ended ==
  /\ status = "committed" =>
       /\ \A i \in Items : path[i] = "new"
       /\ entries = first.entries \ Git
  /\ status = "rolled_back" => Touched = {}

DriverInv ==
  /\ DriverTypes /\ Placed /\ Staging /\ Staged /\ Activated /\ Untouched
  /\ Compensating /\ Ended

-------------------------------------------------------------------------------
(* What the operators choose and write.                                    *)

\* The compensation turns to the last of the steps that are left: there is one.
LEMMA GreatestExists ==
  ASSUME DriverBounds, NEW S \in SUBSET Items, S # {}
  PROVE  Max(S) \in S /\ \A y \in S : y <= Max(S)
<1>1. N \in Nat
  BY DEF DriverBounds
<1> DEFINE T == {k \in Nat : N - k \in S}
<1>2. T \in SUBSET Nat
  OBVIOUS
<1>3. T # {}
  <2>1. PICK y \in S : TRUE
    OBVIOUS
  <2>2. N - y \in Nat /\ N - (N - y) = y
    BY <1>1 DEF Items
  <2>3. QED  BY <2>1, <2>2
<1> HIDE DEF T
<1>4. PICK k \in T : \A j \in T : ~(<<j, k>> \in OpToRel(<, Nat))
  BY <1>2, <1>3, NatLessThanWellFounded, WFMin
<1>5. \A j \in T : <<j, k>> \in Nat \X Nat /\ <<j, k>>[1] = j /\ <<j, k>>[2] = k
  BY <1>2
<1>6. \A j \in T : ~(j < k)
  BY <1>4, <1>5, Zenon DEF OpToRel
<1>7. N - k \in S /\ k \in Nat
  BY <1>2 DEF T
<1>8. \A y \in S : y <= N - k
  <2>1. SUFFICES ASSUME NEW y \in S  PROVE y <= N - k
    OBVIOUS
  <2>2. N - y \in Nat /\ N - (N - y) = y
    BY <1>1 DEF Items
  <2>3. N - y \in T
    BY <2>2 DEF T
  <2>4. ~(N - y < k)
    BY <1>6, <2>3
  <2>5. QED  BY <1>1, <1>7, <2>2, <2>4 DEF Items
<1>9. S \subseteq Int
  BY DEF Items
<1>10. QED
  <2>1. \A y \in S : N - k >= y
    BY <1>1, <1>7, <1>8, <1>9
  <2>2. Max(S) \in S /\ \A y \in S : Max(S) >= y
    BY <1>7, <2>1, Zenon DEF Max
  <2>3. QED  BY <1>9, <2>2

\* A compensation that begins, or goes on, turns to the last step of those it is given.
LEMMA CompensateWritten ==
  ASSUME DriverBounds, DriverTypes, NEW todo \in SUBSET Items, Compensate(todo)
  PROVE  /\ steps' \in [Items -> {"staged", "activating", "compensating", "compensated"}]
         /\ \/ todo = {} /\ item' = 0 /\ steps' = steps
            \/ /\ item' \in todo /\ \A i \in todo : i <= item'
               /\ steps'[item'] = "compensating"
               /\ \A i \in Items \ {item'} : steps'[i] = steps[i]
         /\ item' \in 0..N /\ at' = "start" /\ tries' = 0 /\ aside' = "none"
<1>1. CASE todo = {}
  BY <1>1 DEF Compensate, DriverTypes, TypeOK, DriverBounds
<1>2. CASE todo # {}
  <2>1. PICK m \in todo : m = Max(todo) /\ \A i \in todo : i <= m
    BY <1>2, GreatestExists
  <2>2. item' = m /\ at' = "start" /\ tries' = 0 /\ aside' = "none"
        /\ steps' = [steps EXCEPT ![m] = "compensating"]
    BY <1>2, <2>1 DEF Compensate, Start
  <2>3. m \in Items /\ m \in 0..N
    BY DEF Items, DriverBounds
  <2>4. /\ steps' \in [Items -> {"staged", "activating", "compensating", "compensated"}]
        /\ steps'[m] = "compensating" /\ \A i \in Items \ {m} : steps'[i] = steps[i]
    BY <2>2, <2>3 DEF DriverTypes, TypeOK
  <2>5. QED  BY <2>1, <2>2, <2>3, <2>4
<1>3. QED  BY <1>1, <1>2

\* A step whose activation has succeeded.
LEMMA SucceedActivating ==
  ASSUME DriverBounds, DriverTypes, item \in Items, status = "activating", Succeed
  PROVE  /\ steps' \in [Items -> {"staged", "activating", "compensating", "compensated"}]
         /\ item' = item + 1 /\ item' \in 0..(N + 1)
         /\ at' = "start" /\ tries' = 0 /\ aside' = "none" /\ status' = status
         /\ \A i \in Items : steps'[i] = IF i = item + 1 THEN "activating" ELSE steps[i]
<1>1. item' = item + 1 /\ at' = "start" /\ tries' = 0 /\ aside' = "none" /\ status' = status
      /\ steps' = IF item < N THEN [steps EXCEPT ![item + 1] = "activating"] ELSE steps
  BY DEF Succeed, Start
<1>2. item \in 1..N /\ N \in Nat
  BY DEF Items, DriverBounds
<1>3. CASE item < N
  BY <1>1, <1>2, <1>3 DEF DriverTypes, TypeOK, Items
<1>4. CASE ~(item < N)
  BY <1>1, <1>2, <1>4 DEF DriverTypes, TypeOK, Items
<1>5. QED  BY <1>3, <1>4

\* A step whose compensation has succeeded: the one below is next.
LEMMA SucceedCompensating ==
  ASSUME DriverBounds, DriverTypes, item \in Items, status = "rolling_back", Succeed
  PROVE  /\ steps' \in [Items -> {"staged", "activating", "compensating", "compensated"}]
         /\ steps'[item] = "compensated"
         /\ \/ Below = {} /\ item' = 0 /\ \A i \in Items \ {item} : steps'[i] = steps[i]
            \/ /\ item' \in Below /\ \A i \in Below : i <= item'
               /\ steps'[item'] = "compensating"
               /\ \A i \in Items \ {item, item'} : steps'[i] = steps[i]
         /\ item' \in 0..N /\ at' = "start" /\ tries' = 0 /\ aside' = "none" /\ status' = status
<1>1. CASE Below = {}
  BY <1>1 DEF Succeed, DriverTypes, TypeOK, DriverBounds
<1>2. CASE Below # {}
  <2>1. Below \in SUBSET Items /\ \A i \in Below : i # item
    BY DEF Below, Touched, Items
  <2>2. PICK m \in Below : m = Max(Below) /\ \A i \in Below : i <= m
    BY <1>2, <2>1, GreatestExists
  <2>3. /\ item' = m /\ at' = "start" /\ tries' = 0 /\ aside' = "none"
        /\ status' = status
        /\ steps' = [steps EXCEPT ![item] = "compensated", ![m] = "compensating"]
    BY <1>2, <2>2 DEF Succeed, Start
  <2>4. m \in Items /\ m \in 0..N /\ m # item
    BY <2>1 DEF Items, DriverBounds
  <2>5. /\ steps' \in [Items -> {"staged", "activating", "compensating", "compensated"}]
        /\ steps'[m] = "compensating" /\ steps'[item] = "compensated"
        /\ \A i \in Items \ {item, m} : steps'[i] = steps[i]
    BY <2>3, <2>4 DEF DriverTypes, TypeOK
  <2>6. QED  BY <2>2, <2>3, <2>4, <2>5
<1>3. QED  BY <1>1, <1>2

\* What is put at a path is an artifact: the new one when it is activated, what was
\* there when it is compensated.
LEMMA SourceIsRight ==
  ASSUME DriverInv, NEW i \in Items, Active
  PROVE  /\ Source(i) \in Installed
         /\ status = "activating" => Source(i) = "new"
         /\ status = "rolling_back" =>
              \/ Source(i) = first.path[i]
              \/ first.path[i] = "none" /\ kind[i] # "hooks" /\ Source(i) = "old"
BY DEF DriverInv, DriverTypes, TypeOK, Installed, Active, Running, Staged, Ready, Source

\* What a command that fails may leave at its path.
LEMMA LeavesTyped ==
  ASSUME DriverInv, item \in Items
  PROVE  /\ Leaves \subseteq Installed
         /\ status = "staging" => Leaves = {path[item]}
BY DEF DriverInv, DriverTypes, TypeOK, Installed, Leaves

-------------------------------------------------------------------------------
(* Staging. *)

\* The three calls of a stage command that write only its staging directory.
LEMMA StageCallKeeps ==
  ASSUME DriverBounds, DriverInv, ResetStage \/ Fetch \/ BackupPath
  PROVE  DriverInv'
<1> USE DEF DriverInv, machine, journal
<1>1. /\ status = "staging" /\ worker # "none" /\ item \in Items /\ Unfinished
      /\ UNCHANGED <<kind, path, entries, status, steps, item, tries, aside, failures, worker,
                     first>>
  BY DEF ResetStage, Fetch, BackupPath, Running, Reach, Unfinished
<1>2. /\ stage' \in [Items -> [next : Installed, kept : Installed, lock : SUBSET (0..N)]]
      /\ \A i \in Items \ {item} : stage'[i] = stage[i]
      /\ at' \in {"reset", "fetched", "kept"}
      /\ at' \in {"fetched", "kept"} => stage'[item].next = "new"
      /\ at' = "kept" => stage'[item].kept = first.path[item]
  <2>1. stage[item] \in [next : Installed, kept : Installed, lock : SUBSET (0..N)]
    BY <1>1 DEF DriverTypes, TypeOK
  <2>2. CASE ResetStage
    BY <1>1, <2>2 DEF ResetStage, Reach, Nothing, DriverTypes, TypeOK, Installed
  <2>3. CASE Fetch
    BY <1>1, <2>1, <2>3 DEF Fetch, Reach, DriverTypes, TypeOK, Installed
  <2>4. CASE BackupPath
    <3>1. at = "fetched" /\ stage[item].next = "new" /\ path[item] = first.path[item]
          /\ path[item] \in Installed
      BY <1>1, <2>4 DEF BackupPath, Staging, DriverTypes, TypeOK
    <3>2. QED  BY <1>1, <2>1, <2>4, <3>1 DEF BackupPath, Reach, DriverTypes, TypeOK
  <2>5. QED  BY <2>2, <2>3, <2>4
<1>3. DriverTypes'
  BY <1>1, <1>2 DEF DriverTypes, TypeOK, Ats, Items, Was
<1>4. Placed'
  BY <1>1, <1>2 DEF Placed, Unfinished
<1>5. Staging'
  BY <1>1, <1>2 DEF Staging, Ready, Git, Items
<1>6. Staged' /\ Activated' /\ Compensating' /\ Ended'
  BY <1>1 DEF Staged, Activated, Compensating, Ended
<1>7. Untouched'
  BY <1>1 DEF Untouched, Was, Git
<1>8. QED  BY <1>3, <1>4, <1>5, <1>6, <1>7

\* The last call of a stage command: the next command, or the activation.
LEMMA BackupLockKeeps ==
  ASSUME DriverBounds, DriverInv, BackupLock
  PROVE  DriverInv'
<1> USE DEF DriverInv, machine, journal
<1>1. /\ status = "staging" /\ worker # "none" /\ item \in Items /\ at = "kept"
      /\ UNCHANGED <<kind, path, entries, failures, worker, first>>
      /\ N \in Nat \ {0} /\ Retries \in Nat \ {0} /\ item \in 1..N
  BY DEF BackupLock, Running, DriverBounds, Items
<1>2. /\ stage' \in [Items -> [next : Installed, kept : Installed, lock : SUBSET (0..N)]]
      /\ \A i \in Items \ {item} : stage'[i] = stage[i]
      /\ stage'[item].next = "new" /\ stage'[item].kept = first.path[item]
      /\ stage'[item].lock = IF item \in Git THEN first.entries ELSE {}
  <2>1. stage[item] \in [next : Installed, kept : Installed, lock : SUBSET (0..N)]
        /\ entries \subseteq 0..N
    BY <1>1 DEF DriverTypes, TypeOK
  <2>2. stage[item].next = "new" /\ stage[item].kept = first.path[item] /\ entries = first.entries
    BY <1>1 DEF Staging
  <2>3. stage' = [stage EXCEPT ![item].lock = IF item \in Git THEN entries ELSE {}]
    BY DEF BackupLock
  <2>4. /\ stage' \in [Items -> [next : Installed, kept : Installed, lock : SUBSET (0..N)]]
        /\ \A i \in Items \ {item} : stage'[i] = stage[i]
        /\ stage'[item].next = stage[item].next /\ stage'[item].kept = stage[item].kept
        /\ stage'[item].lock = IF item \in Git THEN entries ELSE {}
    BY <1>1, <2>1, <2>3 DEF DriverTypes, TypeOK
  <2>5. QED  BY <2>2, <2>4
<1>3. \A i \in Items : i <= item => Ready(i)'
  BY <1>1, <1>2 DEF Staging, Ready, Git, Items
<1>4. path = first.path /\ entries = first.entries /\ \A i \in Items : steps[i] = "staged"
  BY <1>1 DEF Staging
<1>5. CASE item < N
  <2>1. item' = item + 1 /\ at' = "start" /\ tries' = 0 /\ aside' = "none"
        /\ UNCHANGED <<status, steps>>
    BY <1>5 DEF BackupLock, Start
  <2>2. item' \in Items
    BY <1>1, <1>5, <2>1 DEF Items
  <2>3. DriverTypes'
    BY <1>1, <1>2, <2>1, <2>2 DEF DriverTypes, TypeOK, Ats, Installed, Items
  <2>4. Placed'
    BY <1>1, <2>1, <2>2 DEF Placed, Unfinished
  <2>5. Staging'
    BY <1>1, <1>3, <1>4, <2>1 DEF Staging, Items
  <2>6. Staged' /\ Activated' /\ Compensating' /\ Ended'
    BY <1>1, <2>1 DEF Staged, Activated, Compensating, Ended
  <2>7. Untouched'
    BY <1>1, <2>1 DEF Untouched, Was, Git
  <2>8. QED  BY <2>3, <2>4, <2>5, <2>6, <2>7
<1>6. CASE ~(item < N)
  <2>1. item' = 1 /\ at' = "start" /\ tries' = 0 /\ aside' = "none" /\ status' = "activating"
        /\ steps' = [steps EXCEPT ![1] = "activating"]
    BY <1>6 DEF BackupLock, Start
  <2>2. 1 \in Items /\ 1 \in 1..(N + 1) /\ 1 \in 0..(N + 1)
    BY <1>1 DEF Items
  <2>3. /\ steps' \in [Items -> {"staged", "activating", "compensating", "compensated"}]
        /\ steps'[1] = "activating" /\ \A i \in Items \ {1} : steps'[i] = "staged"
    BY <1>4, <2>1, <2>2 DEF DriverTypes, TypeOK
  <2>4. DriverTypes'
    BY <1>1, <1>2, <2>1, <2>2, <2>3 DEF DriverTypes, TypeOK, Ats, Installed
  <2>5. Placed'
    BY <1>1, <2>1, <2>2 DEF Placed, Unfinished
  <2>6. Staged'
    BY <1>1, <1>3, <1>6 DEF Staged, Items
  <2>7. Activated'
    BY <1>1, <1>4, <2>1, <2>3 DEF Activated, Git, Items
  <2>8. Staging' /\ Compensating' /\ Ended'
    BY <2>1 DEF Staging, Compensating, Ended
  <2>9. Untouched'
    BY <1>1, <1>4, <2>3 DEF Untouched, Was, Git
  <2>10. QED  BY <2>4, <2>5, <2>6, <2>7, <2>8, <2>9
<1>7. QED  BY <1>5, <1>6

-------------------------------------------------------------------------------
(* Activation and compensation. *)

\* While a command works on a path outside staging, its step is recorded as begun.
LEMMA StepIsBegun ==
  ASSUME DriverInv, worker # "none", item \in Items, status # "staging"
  PROVE  /\ \/ status = "activating" /\ steps[item] = "activating"
            \/ status = "rolling_back" /\ steps[item] = "compensating"
         /\ Unfinished
BY DEF DriverInv, Placed, Unfinished, Activated, Compensating

\* The old artifact is moved aside.
LEMMA MoveAsideKeeps ==
  ASSUME DriverBounds, DriverInv, MoveAside
  PROVE  DriverInv'
<1> USE DEF DriverInv, machine, journal
<1>1. /\ worker # "none" /\ item \in Items /\ status # "staging" /\ Renames(item)
      /\ at' = "aside" /\ aside' = path[item] /\ path' = [path EXCEPT ![item] = "none"]
      /\ UNCHANGED <<kind, entries, stage, status, steps, item, tries, failures, worker, first>>
  BY DEF MoveAside, Active, Running, Reach
<1>2. /\ Unfinished /\ steps[item] \notin {"staged", "compensated"}
      /\ status = "activating" \/ status = "rolling_back"
  BY <1>1, StepIsBegun
<1>3. /\ path' \in [Items -> Installed] /\ \A i \in Items \ {item} : path'[i] = path[i]
      /\ path[item] \in Installed
  BY <1>1 DEF DriverTypes, TypeOK, Installed
<1>4. DriverTypes'
  BY <1>1, <1>3 DEF DriverTypes, TypeOK, Ats, Items
<1>5. Placed'
  BY <1>1, <1>2 DEF Placed, Unfinished, Renames
<1>6. Staging' /\ Ended'
  BY <1>1, <1>2 DEF Staging, Ended
<1>7. Staged'
  BY <1>1 DEF Staged, Ready, Git
<1>8. Activated'
  BY <1>1, <1>3 DEF Activated, Git, Items
<1>9. Untouched'
  BY <1>1, <1>2, <1>3 DEF Untouched, Was, Git
<1>10. Compensating'
  BY <1>1 DEF Compensating, Touched
<1>11. QED  BY <1>4, <1>5, <1>6, <1>7, <1>8, <1>9, <1>10

\* A git skill is put in its place; its entry is next.
LEMMA PutGitKeeps ==
  ASSUME DriverBounds, DriverInv, PutNext, item \in Git
  PROVE  DriverInv'
<1> USE DEF DriverInv, machine, journal
<1>1. /\ worker # "none" /\ item \in Items /\ status # "staging" /\ Active
      /\ at' = "placed" /\ aside' = "none" /\ path' = [path EXCEPT ![item] = Source(item)]
      /\ UNCHANGED <<kind, entries, stage, status, steps, item, tries, failures, worker, first>>
  BY DEF PutNext, Active, Running, Reach
<1>2. /\ Unfinished /\ steps[item] \notin {"staged", "compensated"}
      /\ status = "activating" \/ status = "rolling_back"
  BY <1>1, StepIsBegun
<1>3. /\ path' \in [Items -> Installed] /\ \A i \in Items \ {item} : path'[i] = path[i]
      /\ path'[item] = Source(item)
  BY <1>1, SourceIsRight DEF DriverTypes, TypeOK
<1>4. DriverTypes'
  BY <1>1, <1>3 DEF DriverTypes, TypeOK, Ats, Items, Installed
<1>5. Placed'
  BY <1>1, <1>2, <1>3 DEF Placed, Unfinished, Git, Source
<1>6. Staging' /\ Ended'
  BY <1>1, <1>2 DEF Staging, Ended
<1>7. Staged'
  BY <1>1 DEF Staged, Ready, Git
<1>8. Activated'
  BY <1>1, <1>3 DEF Activated, Git, Items
<1>9. Untouched'
  BY <1>1, <1>2, <1>3 DEF Untouched, Was, Git
<1>10. Compensating'
  BY <1>1 DEF Compensating, Touched
<1>11. QED  BY <1>4, <1>5, <1>6, <1>7, <1>8, <1>9, <1>10

\* What the last call of a command leaves, whatever the call is.
Completed ==
  /\ Active /\ Succeed
  /\ path' \in [Items -> Installed] /\ path'[item] = Source(item)
  /\ \A i \in Items \ {item} : path'[i] = path[i]
  /\ entries' = IF item \in Git THEN NextEntries ELSE entries
  /\ UNCHANGED <<kind, stage, failures, worker, first>>
LEMMA CompletedActivating ==
  ASSUME DriverBounds, DriverInv, Completed, status = "activating"
  PROVE  DriverInv'
<1> USE DEF DriverInv
<1>1. /\ worker # "none" /\ item \in Items /\ N \in Nat /\ Retries \in Nat \ {0}
      /\ item \in 1..N /\ Items = 1..N
      /\ UNCHANGED <<kind, stage, failures, worker, first>>
  BY DEF Completed, Active, Running, Items, DriverBounds
<1>2. /\ steps' \in [Items -> {"staged", "activating", "compensating", "compensated"}]
      /\ item' = item + 1 /\ item' \in 0..(N + 1)
      /\ at' = "start" /\ tries' = 0 /\ aside' = "none" /\ status' = status
      /\ \A i \in Items : steps'[i] = IF i = item + 1 THEN "activating" ELSE steps[i]
  BY <1>1, SucceedActivating DEF Completed
<1>3. /\ path' \in [Items -> Installed] /\ path'[item] = "new"
      /\ \A i \in Items \ {item} : path'[i] = path[i]
  BY <1>1, SourceIsRight DEF Completed
<1>4. entries' = IF item \in Git THEN entries \ {item} ELSE entries
  BY DEF Completed, NextEntries
<1>5. steps[item] = "activating"
  BY <1>1 DEF Activated
<1>6. DriverTypes'
  BY <1>1, <1>2, <1>3, <1>4 DEF DriverTypes, TypeOK, Ats, Installed
<1>7. Placed'
  BY <1>1, <1>2 DEF Placed, Unfinished
<1>8. Staging' /\ Compensating' /\ Ended'
  BY <1>2 DEF Staging, Compensating, Ended
<1>9. Staged'
  BY <1>1, <1>2 DEF Staged, Ready, Git
<1>10. Activated'
  <2>1. \A i \in Items : /\ i < item + 1 => steps'[i] = "activating" /\ path'[i] = "new"
                         /\ i = item + 1 => steps'[i] = "activating"
                         /\ i > item + 1 => steps'[i] = "staged"
    BY <1>1, <1>2, <1>3, <1>5 DEF Activated
  <2>2. entries' = first.entries \ {i \in Git : i < item + 1}
    BY <1>1, <1>4 DEF Activated, Git
  <2>3. QED  BY <1>1, <1>2, <2>1, <2>2 DEF Activated, Git
<1>11. Untouched'
  <2>1. ASSUME NEW i \in Items, steps'[i] \in {"staged", "compensated"}
        PROVE  i # item /\ steps[i] \in {"staged", "compensated"}
    BY <1>1, <1>2, <1>5, <2>1
  <2>2. QED  BY <1>1, <1>2, <1>3, <1>4, <2>1 DEF Untouched, Was, Git
<1>12. QED  BY <1>6, <1>7, <1>8, <1>9, <1>10, <1>11
LEMMA CompletedCompensating ==
  ASSUME DriverBounds, DriverInv, Completed, status = "rolling_back"
  PROVE  DriverInv'
<1> USE DEF DriverInv
<1>1. /\ worker # "none" /\ item \in Items /\ N \in Nat /\ Retries \in Nat \ {0}
      /\ item \in 1..N /\ Items = 1..N
      /\ UNCHANGED <<kind, stage, failures, worker, first>>
  BY DEF Completed, Active, Running, Items, DriverBounds
<1>2. /\ steps' \in [Items -> {"staged", "activating", "compensating", "compensated"}]
      /\ steps'[item] = "compensated"
      /\ \/ Below = {} /\ item' = 0 /\ \A i \in Items \ {item} : steps'[i] = steps[i]
         \/ /\ item' \in Below /\ \A i \in Below : i <= item'
            /\ steps'[item'] = "compensating"
            /\ \A i \in Items \ {item, item'} : steps'[i] = steps[i]
      /\ item' \in 0..N /\ at' = "start" /\ tries' = 0 /\ aside' = "none" /\ status' = status
  BY <1>1, SucceedCompensating DEF Completed
<1>3. /\ path' \in [Items -> Installed]
      /\ \A i \in Items \ {item} : path'[i] = path[i]
      /\ \/ path'[item] = first.path[item]
         \/ first.path[item] = "none" /\ kind[item] # "hooks" /\ path'[item] = "old"
  BY <1>1, SourceIsRight DEF Completed
<1>4. /\ item \in Git /\ first.path[item] = "old" => entries' = first.entries
      /\ entries' \in {entries, entries \ {item}, first.entries}
  BY <1>1 DEF Completed, NextEntries, Staged, Ready
<1>5. DriverTypes'
  <2>1. entries' \subseteq 0..N
    BY <1>4 DEF DriverTypes, TypeOK
  <2>2. QED  BY <1>1, <1>2, <1>3, <2>1 DEF DriverTypes, TypeOK, Ats, Installed
<1>6. Placed'
  BY <1>1, <1>2 DEF Placed, Unfinished
<1>7. Staging' /\ Activated' /\ Ended'
  BY <1>2 DEF Staging, Activated, Ended
<1>8. Staged'
  BY <1>1, <1>2 DEF Staged, Ready, Git
<1>9. Untouched'
  <2>1. ASSUME NEW i \in Items, steps'[i] \in {"staged", "compensated"}
        PROVE  i = item \/ steps[i] \in {"staged", "compensated"}
    BY <1>1, <1>2, <2>1
  <2>2. ASSUME NEW i \in Items, steps'[i] \in {"staged", "compensated"}
        PROVE  Was(i)'
    BY <1>1, <1>3, <2>1, <2>2 DEF Untouched, Was
  <2>3. ASSUME NEW i \in Items, steps'[i] \in {"staged", "compensated"},
               i \in Git, first.path[i] = "old"
        PROVE  i \in entries' <=> i \in first.entries
    BY <1>4, <2>1, <2>3 DEF Untouched
  <2>4. 0 \in entries' <=> 0 \in first.entries
    BY <1>1, <1>4 DEF Untouched
  <2>5. QED  BY <1>1, <2>2, <2>3, <2>4 DEF Untouched, Git
<1>10. Compensating'
  <2>1. item' \in Items => steps'[item'] = "compensating"
    BY <1>1, <1>2
  <2>2. ASSUME ~failures, NEW i \in Items, steps'[i] \in {"activating", "compensating"}
        PROVE  i <= item'
    <3>1. i # item /\ (i = item' \/ i \in Touched)
      BY <1>2, <2>2 DEF Touched
    <3>2. i \in Touched => i <= item
      BY <1>1, <2>2 DEF Compensating
    <3>3. i = item' \/ i \in Below
      BY <1>1, <3>1, <3>2 DEF Below
    <3>4. QED  BY <1>1, <1>2, <3>3
  <2>3. QED  BY <1>1, <2>1, <2>2 DEF Compensating, Touched
<1>11. QED  BY <1>5, <1>6, <1>7, <1>8, <1>9, <1>10

\* The last calls of the drivers: a rename, the lock file, an installation.
LEMMA LastCallCompletes ==
  ASSUME DriverBounds, DriverInv, (PutNext /\ item \notin Git) \/ WriteLock \/ Install
  PROVE  Completed
<1> USE DEF DriverInv
<1>1. Active /\ item \in Items
  BY DEF PutNext, WriteLock, Install, Active, Running
<1>2. path \in [Items -> Installed] /\ Source(item) \in Installed
  BY <1>1, SourceIsRight DEF DriverTypes, TypeOK
<1>3. CASE PutNext /\ item \notin Git
  BY <1>1, <1>2, <1>3 DEF PutNext, Completed
<1>4. CASE WriteLock
  <2>1. item \in Git /\ path[item] = Source(item)
    BY <1>1, <1>4 DEF WriteLock, Placed
  <2>2. QED  BY <1>1, <1>2, <1>4, <2>1 DEF WriteLock, Completed
<1>5. CASE Install
  <2>1. item \notin Git
    BY <1>5 DEF Install, Git, Renames
  <2>2. QED  BY <1>1, <1>2, <1>5, <2>1 DEF Install, Completed
<1>6. QED  BY <1>3, <1>4, <1>5

LEMMA LastCallKeeps ==
  ASSUME DriverBounds, DriverInv, (PutNext /\ item \notin Git) \/ WriteLock \/ Install
  PROVE  DriverInv'
<1>1. Completed
  BY LastCallCompletes
<1>2. status = "activating" \/ status = "rolling_back"
  BY <1>1 DEF Completed, Active, Running
<1>3. QED  BY <1>1, <1>2, CompletedActivating, CompletedCompensating

-------------------------------------------------------------------------------
(* A command that fails. *)

\* Whatever it leaves is at the path of a step that has begun.
LEMMA LeftWritten ==
  ASSUME DriverInv, worker # "none", item \in Items, NEW left \in Leaves,
         path' = [path EXCEPT ![item] = left]
  PROVE  /\ path' \in [Items -> Installed]
         /\ status = "staging" => path' = path
         /\ \A i \in Items \ {item} : path'[i] = path[i]
         /\ \A i \in Items : steps[i] \in {"staged", "compensated"} => path'[i] = path[i]
         /\ Unfinished
<1>1. left \in Installed /\ (status = "staging" => left = path[item])
  BY LeavesTyped
<1>2. path \in [Items -> Installed]
  BY DEF DriverInv, DriverTypes, TypeOK
<1>3. status # "staging" => steps[item] \notin {"staged", "compensated"}
  BY StepIsBegun
<1>4. Unfinished
  BY DEF DriverInv, Placed
<1>5. path' \in [Items -> Installed] /\ \A i \in Items \ {item} : path'[i] = path[i]
  BY <1>1, <1>2
<1>6. status = "staging" => path' = path
  BY <1>1, <1>2
<1>7. QED  BY <1>3, <1>4, <1>5, <1>6

\* The command is run again.
LEMMA AgainKeeps ==
  ASSUME DriverBounds, DriverInv, Again
  PROVE  DriverInv'
<1> USE DEF DriverInv, machine, journal
<1>1. /\ worker # "none" /\ item \in Items
      /\ at' = "start" /\ aside' = "none" /\ tries' = tries + 1 /\ tries + 1 < Retries
      /\ UNCHANGED <<kind, entries, stage, status, steps, item, failures, worker, first>>
  BY DEF Again
<1>2. PICK left \in Leaves : path' = [path EXCEPT ![item] = left]
  BY DEF Again
<1>3. /\ path' \in [Items -> Installed]
      /\ status = "staging" => path' = path
      /\ \A i \in Items \ {item} : path'[i] = path[i]
      /\ \A i \in Items : steps[i] \in {"staged", "compensated"} => path'[i] = path[i]
      /\ Unfinished
  BY <1>1, <1>2, LeftWritten
<1>4. DriverTypes'
  <2>1. tries' \in 0..(Retries - 1)
    BY <1>1 DEF DriverTypes, TypeOK, DriverBounds
  <2>2. QED  BY <1>1, <1>3, <2>1 DEF DriverTypes, TypeOK, Ats, Installed, Items
<1>5. Placed'
  BY <1>1 DEF Placed, Unfinished
<1>6. Staging'
  BY <1>1, <1>3 DEF Staging, Ready, Git
<1>7. Staged' /\ Compensating'
  BY <1>1 DEF Staged, Ready, Git, Compensating, Touched
<1>8. Activated'
  BY <1>1, <1>3 DEF Activated, Git, Items
<1>9. Untouched'
  BY <1>1, <1>3 DEF Untouched, Was, Git
<1>10. Ended'
  BY <1>1, <1>3 DEF Ended, Unfinished
<1>11. QED  BY <1>4, <1>5, <1>6, <1>7, <1>8, <1>9, <1>10

\* The steps that have begun are compensated, from the last one.
LEMMA BeginCompensationKeeps ==
  ASSUME DriverBounds, DriverInv, status \in {"activating", "rolling_back"}, BeginCompensation,
         path' \in [Items -> Installed],
         \A i \in Items : steps[i] \in {"staged", "compensated"} => path'[i] = path[i],
         worker' \in {"update", "recovery"}, failures' \in BOOLEAN,
         UNCHANGED <<kind, entries, stage, first>>
  PROVE  DriverInv'
<1> USE DEF DriverInv
<1>1. Touched \subseteq Items /\ Compensate(Touched) /\ status' = "rolling_back"
  BY DEF BeginCompensation, Touched
<1>2. /\ steps' \in [Items -> {"staged", "activating", "compensating", "compensated"}]
      /\ \/ Touched = {} /\ item' = 0 /\ steps' = steps
         \/ /\ item' \in Touched /\ \A i \in Touched : i <= item'
            /\ steps'[item'] = "compensating"
            /\ \A i \in Items \ {item'} : steps'[i] = steps[i]
      /\ item' \in 0..N /\ at' = "start" /\ tries' = 0 /\ aside' = "none"
  BY <1>1, CompensateWritten
<1>3. N \in Nat /\ Retries \in Nat \ {0} /\ Items = 1..N
  BY DEF DriverBounds, Items
<1>4. DriverTypes'
  BY <1>1, <1>2, <1>3 DEF DriverTypes, TypeOK, Ats, Installed
<1>5. Placed'
  BY <1>1, <1>2, <1>3 DEF Placed, Unfinished
<1>6. Staging' /\ Activated' /\ Ended'
  BY <1>1 DEF Staging, Activated, Ended
<1>7. Staged'
  BY DEF Staged, Ready, Git
<1>8. Untouched'
  <2>1. \A i \in Items : steps'[i] \in {"staged", "compensated"} =>
          steps[i] \in {"staged", "compensated"}
    BY <1>2
  <2>2. QED  BY <2>1 DEF Untouched, Was, Git
<1>9. Compensating'
  <2>1. item' \in Items => steps'[item'] = "compensating"
    BY <1>2, <1>3
  <2>2. \A i \in Items : steps'[i] \in {"activating", "compensating"} => i <= item'
    BY <1>2 DEF Touched
  <2>3. QED  BY <1>1, <2>1, <2>2 DEF Compensating, Touched
<1>10. QED  BY <1>4, <1>5, <1>6, <1>7, <1>8, <1>9

\* The command is given up.
LEMMA FailKeeps ==
  ASSUME DriverBounds, DriverInv, Fail
  PROVE  DriverInv'
<1> USE DEF DriverInv, machine, journal
<1>1. worker # "none" /\ item \in Items /\ UNCHANGED <<kind, entries, first>>
  BY DEF Fail
<1>2. PICK left \in Leaves : path' = [path EXCEPT ![item] = left]
  BY DEF Fail
<1>3. /\ path' \in [Items -> Installed]
      /\ status = "staging" => path' = path
      /\ \A i \in Items : steps[i] \in {"staged", "compensated"} => path'[i] = path[i]
  BY <1>1, <1>2, LeftWritten
<1>4. CASE status = "staging"
  <2>1. /\ status' = "failed" /\ item' = 0 /\ at' = "start" /\ tries' = 0 /\ aside' = "none"
        /\ worker' = "none" /\ UNCHANGED <<steps, failures>> /\ path' = path
        /\ stage' = [i \in Items |-> Nothing]
    BY <1>3, <1>4 DEF Fail, RemoveStage
  <2>2. DriverTypes'
    BY <1>1, <2>1 DEF DriverTypes, TypeOK, Ats, Installed, Nothing, DriverBounds
  <2>3. Placed' /\ Staging' /\ Staged' /\ Activated' /\ Compensating' /\ Ended'
    BY <2>1 DEF Placed, Staging, Staged, Activated, Compensating, Ended, Unfinished, Items
  <2>4. Untouched'
    BY <1>1, <2>1 DEF Untouched, Was, Git
  <2>5. QED  BY <2>2, <2>3, <2>4
<1>5. CASE status = "activating"
  <2>1. BeginCompensation /\ UNCHANGED <<stage, failures, worker>>
    BY <1>5 DEF Fail
  <2>2. worker \in {"update", "recovery"} /\ failures \in BOOLEAN
    BY <1>1 DEF DriverTypes, TypeOK
  <2>3. QED  BY <1>1, <1>3, <1>5, <2>1, <2>2, BeginCompensationKeeps
<1>6. CASE status = "rolling_back"
  <2>1. Below \subseteq Items /\ Compensate(Below) /\ failures' = TRUE
        /\ UNCHANGED <<status, stage, worker>>
    BY <1>6 DEF Fail, Below, Touched
  <2>2. /\ steps' \in [Items -> {"staged", "activating", "compensating", "compensated"}]
        /\ \/ Below = {} /\ item' = 0 /\ steps' = steps
           \/ /\ item' \in Below /\ \A i \in Below : i <= item'
              /\ steps'[item'] = "compensating"
              /\ \A i \in Items \ {item'} : steps'[i] = steps[i]
        /\ item' \in 0..N /\ at' = "start" /\ tries' = 0 /\ aside' = "none"
    BY <2>1, CompensateWritten
  <2>3. N \in Nat /\ Retries \in Nat \ {0} /\ Items = 1..N /\ Below \subseteq Touched
    BY DEF DriverBounds, Items, Below
  <2>4. DriverTypes'
    BY <1>1, <1>3, <2>1, <2>2, <2>3 DEF DriverTypes, TypeOK, Ats, Installed
  <2>5. Placed'
    BY <1>1, <1>6, <2>1, <2>2, <2>3 DEF Placed, Unfinished
  <2>6. Staging' /\ Activated' /\ Ended'
    BY <1>6, <2>1 DEF Staging, Activated, Ended
  <2>7. Staged'
    BY <1>1, <2>1 DEF Staged, Ready, Git
  <2>8. Untouched'
    <3>1. \A i \in Items : steps'[i] \in {"staged", "compensated"} =>
            steps[i] \in {"staged", "compensated"}
      BY <2>2
    <3>2. QED  BY <1>1, <1>3, <3>1 DEF Untouched, Was, Git
  <2>9. Compensating'
    BY <2>1, <2>2, <2>3 DEF Compensating
  <2>10. QED  BY <2>4, <2>5, <2>6, <2>7, <2>8, <2>9
<1>7. QED  BY <1>4, <1>5, <1>6 DEF Fail

\* A health check fails.
LEMMA HealthFailsKeeps ==
  ASSUME DriverBounds, DriverInv, HealthFails
  PROVE  DriverInv'
<1>1. /\ status = "activating" /\ BeginCompensation /\ worker # "none"
      /\ UNCHANGED <<kind, path, entries, stage, failures, worker, first>>
  BY DEF HealthFails, machine
<1>2. worker \in {"update", "recovery"} /\ failures \in BOOLEAN /\ path \in [Items -> Installed]
  BY <1>1 DEF DriverInv, DriverTypes, TypeOK
<1>3. QED  BY <1>1, <1>2, BeginCompensationKeeps

-------------------------------------------------------------------------------
(* The end of the transaction, and the worker.                             *)

\* What an end that is not a commit has to show.
LEMMA EndKeeps ==
  ASSUME DriverBounds, DriverInv, NEW s \in {"committed", "rolled_back", "failed"}, End(s),
         item' = 0, at' = "start" \/ at' = at, tries' = 0 \/ tries' = tries,
         aside' = "none" \/ aside' = aside, failures' \in BOOLEAN,
         UNCHANGED <<kind, path, entries, steps, first>>,
         s = "committed" => (\A i \in Items : path[i] = "new") /\ entries = first.entries \ Git,
         s = "rolled_back" => Touched = {}
  PROVE  DriverInv'
<1> USE DEF DriverInv
<1>1. status' = s /\ worker' = "none" /\ stage' = [i \in Items |-> Nothing]
  BY DEF End, RemoveStage
<1>2. DriverTypes'
  BY <1>1 DEF DriverTypes, TypeOK, Ats, Installed, Nothing, DriverBounds
<1>3. Placed' /\ Staging' /\ Staged' /\ Activated' /\ Compensating'
  BY <1>1 DEF Placed, Staging, Staged, Activated, Compensating, Unfinished, Items
<1>4. Untouched'
  BY DEF Untouched, Was, Git
<1>5. Ended'
  BY <1>1 DEF Ended, Touched, Git
<1>6. QED  BY <1>2, <1>3, <1>4, <1>5

\* The transaction commits: every step is activated.
LEMMA CommitKeeps ==
  ASSUME DriverBounds, DriverInv, Commit
  PROVE  DriverInv'
<1>1. /\ worker # "none" /\ status = "activating" /\ item > N /\ End("committed")
      /\ item' = 0 /\ at' = "start" /\ tries' = 0 /\ aside' = "none"
      /\ UNCHANGED <<kind, path, entries, steps, failures, first>>
  BY DEF Commit, Start, machine
<1>2. failures \in BOOLEAN /\ item \in Int /\ N \in Nat
  BY DEF DriverInv, DriverTypes, TypeOK, DriverBounds
<1>3. \A i \in Items : i < item
  BY <1>1, <1>2 DEF Items
<1>4. (\A i \in Items : path[i] = "new") /\ entries = first.entries \ {i \in Git : i < item}
  BY <1>1, <1>3 DEF DriverInv, Activated
<1>5. {i \in Git : i < item} = Git
  BY <1>3 DEF Git
<1>6. QED  BY <1>1, <1>2, <1>4, <1>5, EndKeeps

\* The compensation is through: without a failure nothing is left to compensate.
LEMMA FinishKeeps ==
  ASSUME DriverBounds, DriverInv, Finish
  PROVE  DriverInv'
<1>1. /\ worker # "none" /\ status = "rolling_back" /\ item = 0 /\ failures' = FALSE
      /\ UNCHANGED <<kind, path, entries, steps, item, at, tries, aside, first>>
  BY DEF Finish, machine, command
<1>2. CASE ~failures
  <2>1. \A i \in Touched : i <= 0
    BY <1>1, <1>2 DEF DriverInv, Compensating
  <2>2. Touched = {}
    BY <2>1 DEF Touched, Items
  <2>3. End("rolled_back")
    BY <1>2 DEF Finish
  <2>4. QED  BY <1>1, <2>2, <2>3, EndKeeps
<1>3. CASE failures /\ worker = "update"
  <2>1. End("failed")
    BY <1>3 DEF Finish
  <2>2. QED  BY <1>1, <2>1, EndKeeps
<1>4. CASE failures /\ worker # "update"
  <2>1. worker' = "none" /\ UNCHANGED <<status, stage>>
    BY <1>4 DEF Finish
  <2>2. DriverTypes'
    BY <1>1, <2>1 DEF DriverInv, DriverTypes, TypeOK
  <2>3. Placed' /\ Staging' /\ Activated' /\ Compensating' /\ Ended'
    BY <1>1, <2>1 DEF DriverInv, Placed, Staging, Activated, Compensating, Ended, Unfinished, Items
  <2>4. Staged' /\ Untouched'
    BY <1>1, <2>1 DEF DriverInv, Staged, Ready, Untouched, Was, Git
  <2>5. QED  BY <2>2, <2>3, <2>4 DEF DriverInv
<1>5. QED  BY <1>2, <1>3, <1>4

\* The worker dies, and with it the command it runs.
LEMMA CrashKeeps ==
  ASSUME DriverBounds, DriverInv, Crash
  PROVE  DriverInv'
<1> USE DEF DriverInv, machine, journal
<1>1. /\ worker # "none" /\ worker' = "none" /\ failures' = FALSE
      /\ item' = 0 /\ at' = "start" /\ tries' = 0 /\ aside' = "none"
      /\ UNCHANGED <<kind, entries, stage, status, steps, first>>
  BY DEF Crash, Start
<1>2. /\ path' \in [Items -> Installed]
      /\ status = "staging" => path' = path
      /\ \A i \in Items : steps[i] \in {"staged", "compensated"} => path'[i] = path[i]
      /\ Unfinished
  <2>1. CASE item \in Items
    <3>1. PICK left \in Leaves : path' = [path EXCEPT ![item] = left]
      BY <2>1 DEF Crash
    <3>2. QED  BY <1>1, <2>1, <3>1, LeftWritten
  <2>2. CASE item \notin Items
    BY <1>1, <2>2 DEF Crash, DriverTypes, TypeOK, Placed
  <2>3. QED  BY <2>1, <2>2
<1>3. DriverTypes'
  <2>1. 0 \in 0..(N + 1) /\ 0 \in 0..(Retries - 1)
    BY DEF DriverBounds
  <2>2. QED  BY <1>1, <1>2, <2>1 DEF DriverTypes, TypeOK, Ats, Installed, Items
<1>4. Placed'
  BY <1>1 DEF Placed, Items
<1>5. Staging' /\ Activated' /\ Compensating'
  BY <1>1, <1>2 DEF Staging, Activated, Compensating
<1>6. Staged'
  BY <1>1 DEF Staged, Ready, Git
<1>7. Untouched'
  BY <1>1, <1>2 DEF Untouched, Was, Git
<1>8. Ended'
  BY <1>1, <1>2 DEF Ended, Unfinished
<1>9. QED  BY <1>3, <1>4, <1>5, <1>6, <1>7, <1>8

\* A recovery: what was only staged has failed, the rest is compensated.
LEMMA RecoverKeeps ==
  ASSUME DriverBounds, DriverInv, Recover
  PROVE  DriverInv'
<1>1. /\ worker = "none" /\ Unfinished
      /\ UNCHANGED <<kind, path, entries, failures, first>>
  BY DEF Recover, machine
<1>2. failures \in BOOLEAN /\ path \in [Items -> Installed] /\ item = 0
  BY <1>1 DEF DriverInv, DriverTypes, TypeOK, Placed
<1>3. CASE status = "staging"
  <2>1. End("failed") /\ UNCHANGED <<item, at, tries, aside, steps>>
    BY <1>3 DEF Recover, command
  <2>2. QED  BY <1>1, <1>2, <2>1, EndKeeps
<1>4. CASE status # "staging"
  <2>1. BeginCompensation /\ worker' = "recovery" /\ UNCHANGED stage
    BY <1>4 DEF Recover
  <2>2. QED  BY <1>1, <1>2, <1>4, <2>1, BeginCompensationKeeps DEF Unfinished
<1>5. QED  BY <1>3, <1>4

-------------------------------------------------------------------------------
(* The theorems. *)

LEMMA DriverInvInit ==
  ASSUME DriverBounds, Init
  PROVE  DriverInv
<1>1. /\ path \in [Items -> {"old", "none"}] /\ entries \subseteq 0..N
      /\ first = [path |-> path, entries |-> entries] /\ 1 \in Items
  BY DEF Init, Items, DriverBounds
<1>2. DriverTypes
  <2>1. kind \in [Items -> DriverKinds] /\ first \in [path : [Items -> {"old", "none"}],
                                                     entries : SUBSET (0..N)]
    BY <1>1 DEF Init
  <2>2. path \in [Items -> Installed] /\ steps = [i \in Items |-> "staged"]
        /\ stage \in [Items -> [next : Installed, kept : Installed, lock : SUBSET (0..N)]]
    BY <1>1 DEF Init, Installed, Nothing
  <2>3. 1 \in 0..(N + 1) /\ 0 \in 0..(Retries - 1)
    BY DEF DriverBounds
  <2>4. QED  BY <1>1, <2>1, <2>2, <2>3 DEF Init, DriverTypes, TypeOK, Installed, Ats
<1>3. Placed /\ Staging /\ Staged /\ Activated /\ Compensating /\ Ended
  BY <1>1 DEF Init, Placed, Staging, Staged, Activated, Compensating, Ended, Unfinished, Items
<1>4. Untouched
  BY <1>1 DEF Untouched, Was
<1>5. QED  BY <1>2, <1>3, <1>4 DEF DriverInv

LEMMA DriverInvStep ==
  ASSUME DriverBounds, DriverInv, [Next]_vars
  PROVE  DriverInv'
<1>1. CASE UNCHANGED vars
  BY <1>1 DEF vars, machine, journal, command, DriverInv, DriverTypes, TypeOK, Placed, Staging,
     Staged, Activated, Untouched, Compensating, Ended, Unfinished, Source, Renames, Git, Ready,
     Was, Touched
<1>2. CASE Next
  BY <1>2, StageCallKeeps, BackupLockKeeps, MoveAsideKeeps, PutGitKeeps, LastCallKeeps,
     AgainKeeps, FailKeeps, HealthFailsKeeps, CommitKeeps, FinishKeeps, CrashKeeps, RecoverKeeps
     DEF Next
<1>3. QED  BY <1>1, <1>2

\* The invariant holds in every reachable state.
THEOREM DriverInvariant ==
  ASSUME DriverBounds
  PROVE  Spec => []DriverInv
<1>1. Init => DriverInv
  BY DriverInvInit
<1>2. DriverInv /\ [Next]_vars => DriverInv'
  BY DriverInvStep
<1>3. QED  BY <1>1, <1>2, PTL DEF Spec

\* The machine, the staging directory, the journal and the running command have their
\* types: an attempt is never counted past DefaultRetries (bundle/service.go).
THEOREM DriverTypeCorrect ==
  ASSUME DriverBounds
  PROVE  Spec => []TypeOK
<1>1. DriverInv => TypeOK
  BY DEF DriverInv, DriverTypes
<1>2. QED  BY <1>1, DriverInvariant, PTL

\* However the commands of a transaction fail, are killed, run again or are recovered,
\* it ends with every artifact new or with every artifact as it was, the lock file too;
\* until then everything can still be put back (bundledriver/driver.go,
\* bundle/service.go).
THEOREM TransactionIsWholeAlways ==
  ASSUME DriverBounds
  PROVE  Spec => []TransactionIsWhole
<1>1. DriverInv => TransactionIsWhole
  <2> SUFFICES ASSUME DriverInv  PROVE TransactionIsWhole
    OBVIOUS
  <2> USE DEF DriverInv
  <2>2. status = "committed" =>
          (\A i \in Items : path[i] = "new") /\ entries = first.entries \ Git
    BY DEF Ended
  <2>3. ASSUME status = "rolled_back"
        PROVE  /\ \A i \in Items : Was(i)
               /\ \A i \in {0} \cup {j \in Git : first.path[j] = "old"} :
                    i \in entries <=> i \in first.entries
    <3>1. \A i \in Items : steps[i] \in {"staged", "compensated"}
      BY <2>3 DEF Ended, Touched, DriverTypes, TypeOK
    <3>2. QED  BY <3>1 DEF Untouched, Git
  <2>4. status = "failed" => \A i \in Items : steps[i] \in {"staged", "compensated"} => Was(i)
    BY DEF Untouched
  <2>5. Unfinished => \A i \in Items :
          first.path[i] = "old" => path[i] = "old" \/ stage[i].kept = "old"
    BY DEF Staging, Staged, Ready, Unfinished
  <2>6. QED  BY <2>2, <2>3, <2>4, <2>5 DEF TransactionIsWhole
<1>2. QED  BY <1>1, DriverInvariant, PTL
===============================================================================
