----------------------------- MODULE SetupProofs -----------------------------
(***************************************************************************)
(* Theorems about Setup, for every number of edits and of resets: nothing  *)
(* that anybody wrote is lost, and a reset rebuilds everything or puts     *)
(* everything back.                                                        *)
(***************************************************************************)
EXTENDS Setup, TLAPS

(***************************************************************************)
(* The inductive invariant.                                                *)
(***************************************************************************)
Texts == 0..MaxEvent
Contents == [text : Texts, ours : BOOLEAN]
FilesTyped ==
  /\ file \in [Places -> Contents] /\ seen \in [Places -> Contents]
  /\ copy \in [Places -> Contents] /\ planned \in [Places -> Contents]
HistoryTyped ==
  /\ newest \in [Places -> Texts] /\ saved \in [Places -> SUBSET Texts]
  /\ late \subseteq Places /\ edits \in Texts /\ resets \in Nat
FlagsTyped == scheduled \in BOOLEAN /\ managed \in BOOLEAN /\ complete \in BOOLEAN
ControlTyped ==
  /\ lock \in {"reset", "manager", "none"} /\ manager \in {"idle", "locked"}
  /\ pc \in PCs /\ at \in 1..5
  /\ plan \in {"none", "init", "doctor"} /\ op \in 1..5
SetupTypes == FilesTyped /\ HistoryTyped /\ FlagsTyped /\ ControlTyped

(* A loop is at one of its places.                                         *)
InRange ==
  /\ pc = "clear" => at \in 1..2
  /\ pc \in {"rebuild", "restore"} => at \in 1..4
  /\ pc = "refill" => at = 1

(* The command that manages has the lock; until it has removed the state   *)
(* directory, and the lock file with it, so has the reset, which has found *)
(* nothing managed.                                                        *)
Locked ==
  /\ manager = "locked" <=> lock = "manager"
  /\ pc \in {"check", "pause", "backup", "clear", "rebuild", "activate"} => lock = "reset"
  /\ pc \in {"pause", "backup", "clear", "rebuild", "activate"} => ~managed

Lasting == \A x \in Places : Kept(x)

(* The backup has what was there, but for what others wrote since.         *)
BackedUp ==
  /\ complete => pc \in {"clear", "rebuild", "activate", "restore", "refill", "resume"}
  /\ pc \in {"clear", "rebuild", "activate", "restore", "refill"} => complete
  /\ pc = "backup" =>
       \A k \in 1..(at - 1) : Snapshots[k] \in late \/ file[Snapshots[k]] = copy[Snapshots[k]]
  /\ complete => \A x \in Places \ late : newest[x] \in saved[x]

(* What the loops have behind them is rebuilt, or put back.                *)
Rebuilding ==
  /\ pc = "rebuild" =>
       \A k \in 1..(at - 1) : Rebuilt[k] \in late \/ file[Rebuilt[k]].ours
  /\ pc = "activate" => \A x \in Places \ late : file[x].ours
Restoring ==
  /\ pc = "restore" =>
       \A k \in 1..(at - 1) : Snapshots[k] \in late \/ file[Snapshots[k]] = copy[Snapshots[k]]
  /\ pc = "refill" => "state" \in late \/ file["state"] = None
  /\ pc = "resume" /\ complete => \A x \in Places \ late : file[x] = copy[x]
Progress == BackedUp /\ Rebuilding /\ Restoring

SetupInv == SetupTypes /\ InRange /\ Locked /\ Lasting /\ Progress

-----------------------------------------------------------------------------
(* The sequences of places *)

\* The snapshots and the rebuilt places are the four places, each once.
LEMMA FourPlaces ==
  /\ Len(Snapshots) = 4 /\ Len(Rebuilt) = 4 /\ Len(Roots) = 2
  /\ Snapshots[1] = "state" /\ Snapshots[2] = "config"
  /\ Snapshots[3] = "hook" /\ Snapshots[4] = "profile"
  /\ Rebuilt[1] = "profile" /\ Rebuilt[2] = "config"
  /\ Rebuilt[3] = "state" /\ Rebuilt[4] = "hook"
  /\ Roots[1] = "state" /\ Roots[2] = "config"
BY DEF Snapshots, Rebuilt, Roots

\* The snapshots number the places.
LEMMA SnapshotsNumber ==
  /\ \A k \in 1..4 : Snapshots[k] \in Places
  /\ \A x \in Places : \E k \in 1..4 : Snapshots[k] = x
  /\ \A j, k \in 1..4 : Snapshots[j] = Snapshots[k] => j = k
  /\ \A k \in 1..4 : Snapshots[k] = "state" <=> k = 1
<1>1. \A k \in 1..4 : k = 1 \/ k = 2 \/ k = 3 \/ k = 4
  OBVIOUS
<1>2. QED  BY <1>1, FourPlaces DEF Places

\* The rebuilt places number them, too.
LEMMA RebuiltNumber ==
  /\ \A k \in 1..4 : Rebuilt[k] \in Places
  /\ \A x \in Places : \E k \in 1..4 : Rebuilt[k] = x
  /\ \A j, k \in 1..4 : Rebuilt[j] = Rebuilt[k] => j = k
<1>1. \A k \in 1..4 : k = 1 \/ k = 2 \/ k = 3 \/ k = 4
  OBVIOUS
<1>2. QED  BY <1>1, FourPlaces DEF Places

\* The roots are the state directory and the configuration, in this order.
LEMMA RootsNumber ==
  /\ \A k \in 1..2 : Roots[k] \in Places
  /\ \A k \in 1..2 : Roots[k] = "state" <=> k = 1
<1>1. \A k \in 1..2 : k = 1 \/ k = 2
  OBVIOUS
<1>2. QED  BY <1>1, FourPlaces DEF Places

\* A plan writes places, four at most.
LEMMA OperationsArePlaces ==
  ASSUME NEW kind \in {"init", "doctor"}
  PROVE  /\ Len(Operations(kind)) \in 1..4
         /\ \A k \in 1..Len(Operations(kind)) : Operations(kind)[k] \in Places
<1>1. CASE kind = "init"
  <2>1. Operations(kind) = <<"profile", "config", "state", "hook">>
    BY <1>1 DEF Operations
  <2>2. Len(Operations(kind)) = 4
    BY <2>1
  <2>3. \A k \in 1..4 : k = 1 \/ k = 2 \/ k = 3 \/ k = 4
    OBVIOUS
  <2>4. QED  BY <2>1, <2>2, <2>3 DEF Places
<1>2. CASE kind = "doctor"
  <2>1. Operations(kind) = <<"state", "config", "hook">>
    BY <1>2 DEF Operations
  <2>2. Len(Operations(kind)) = 3
    BY <2>1
  <2>3. \A k \in 1..3 : k = 1 \/ k = 2 \/ k = 3
    OBVIOUS
  <2>4. QED  BY <2>1, <2>2, <2>3 DEF Places
<1>3. QED  BY <1>1, <1>2

\* Every place begins, and is forgotten, as nothing.
LEMMA NothingTyped ==
  ASSUME SetupBounds
  PROVE  None \in Contents /\ Nothing \in [Places -> Contents]
BY DEF SetupBounds, None, Nothing, Contents, Texts

\* A merged file has the text that was read.
LEMMA OursTyped ==
  ASSUME NEW x \in Places, NEW read \in [Places -> Contents]
  PROVE  /\ Ours(x, read) \in Contents
         /\ Ours(x, read).text = read[x].text /\ Ours(x, read).ours = TRUE
<1>1. read[x] \in Contents
  OBVIOUS
<1>2. QED  BY <1>1 DEF Ours, Contents

-----------------------------------------------------------------------------
(* Types *)

\* The reset keeps the types of the files.
LEMMA ResetFiles ==
  ASSUME SetupBounds, SetupTypes, InRange,
         \/ Preview \/ Decline \/ Lock \/ Check \/ Pause \/ Backup \/ Manifest \/ Clear \/ Write
         \/ Activate \/ Fail \/ Restore \/ Refill \/ Resume \/ Crash
  PROVE  FilesTyped'
<1> USE DEF SetupTypes, FilesTyped
<1>1. CASE Preview \/ Decline \/ Lock \/ Check \/ Pause \/ Activate \/ Fail \/ Resume \/ Crash
          \/ Manifest
  BY <1>1, NothingTyped DEF Preview, Decline, Lock, Check, Pause, Activate, Fail, Resume, Crash,
     Manifest, EndReset, Forget, Keep, world, plans, reset
<1>2. CASE Backup
  <2>1. at \in 1..4 /\ Snapshots[at] \in Places
    BY <1>2, FourPlaces, SnapshotsNumber DEF Backup, ControlTyped
  <2>2. file[Snapshots[at]] \in Contents
    BY <2>1
  <2>3. QED  BY <1>2, <2>1, <2>2 DEF Backup, world, plans
<1>3. CASE Clear
  <2>1. Roots[at] \in Places
    BY <1>3, RootsNumber DEF Clear, InRange
  <2>2. QED  BY <1>3, <2>1, NothingTyped DEF Clear, Put, plans
<1>4. CASE Write
  <2>1. Rebuilt[at] \in Places
    BY <1>4, RebuiltNumber DEF Write, InRange
  <2>2. Rebuild(Rebuilt[at]) \in Contents
    <3>1. [None EXCEPT !.ours = TRUE] \in Contents
      BY NothingTyped DEF Contents
    <3>2. QED  BY <2>1, <3>1, OursTyped DEF Rebuild
  <2>3. QED  BY <1>4, <2>1, <2>2 DEF Write, Put, plans
<1>5. CASE Restore
  <2>1. Snapshots[at] \in Places
    BY <1>5, SnapshotsNumber DEF Restore, InRange
  <2>2. copy[Snapshots[at]] \in Contents
    BY <2>1
  <2>3. QED  BY <1>5, <2>1, <2>2, NothingTyped DEF Restore, Put, plans
<1>6. CASE Refill
  <2>1. "state" \in Places
    BY DEF Places
  <2>2. copy["state"] \in Contents
    BY <2>1
  <2>3. QED  BY <1>6, <2>1, <2>2 DEF Refill, Put, plans
<1>7. QED  BY <1>1, <1>2, <1>3, <1>4, <1>5, <1>6

\* So do the others.
LEMMA OthersFiles ==
  ASSUME SetupBounds, SetupTypes,
         \/ Plan("init") \/ Plan("doctor") \/ Apply \/ EndPlan
         \/ ManageLock \/ Manage \/ Release
         \/ \E x \in {"config", "hook", "profile"} : Edit(x)
  PROVE  FilesTyped'
<1> USE DEF SetupTypes, FilesTyped
<1>1. CASE Plan("init") \/ Plan("doctor") \/ EndPlan \/ ManageLock \/ Release
  BY <1>1, NothingTyped DEF Plan, EndPlan, ManageLock, Release, world, plans, reset
<1>2. CASE Apply
  <2> DEFINE x == Operations(plan)[op]
  <2>1. plan \in {"init", "doctor"} /\ x \in Places
    BY <1>2, OperationsArePlaces DEF Apply, ControlTyped
  <2>2. file[x] \in Contents /\ Ours(x, planned) \in Contents
    BY <2>1, OursTyped
  <2>4. [file[x] EXCEPT !.ours = TRUE] \in Contents
    BY <2>2 DEF Contents
  <2>3. QED  BY <1>2, <2>1, <2>2, <2>4 DEF Apply, Put, reset
<1>3. CASE Manage
  <2>1. edits' \in Texts
    BY <1>3 DEF Manage, Fresh, HistoryTyped, Texts, SetupBounds
  <2>2. QED  BY <1>3, <2>1 DEF Manage, Put, reset, plans, Contents, Places
<1>4. ASSUME NEW x \in {"config", "hook", "profile"}, Edit(x)
      PROVE  FilesTyped'
  <2>1. edits' \in Texts
    BY <1>4 DEF Edit, Fresh, HistoryTyped, Texts, SetupBounds
  <2>2. QED  BY <1>4, <2>1 DEF Edit, Put, reset, plans, Contents, Places
<1>5. QED  BY <1>1, <1>2, <1>3, <1>4

\* Every step keeps the types of the flags.
LEMMA FlagsStay ==
  ASSUME FlagsTyped, [Next]_vars
  PROVE  FlagsTyped'
<1> USE DEF FlagsTyped
<1>1. CASE Preview \/ Lock \/ Backup \/ Manifest \/ Clear \/ Write \/ Fail \/ Restore \/ Refill
  BY <1>1 DEF Preview, Lock, Backup, Manifest, Clear, Write, Fail, Restore, Refill, world
<1>2. CASE Decline \/ Activate \/ Resume \/ Crash
  BY <1>2 DEF Decline, Activate, Resume, Crash, EndReset, Forget, world
<1>3. CASE Check \/ Pause
  BY <1>3 DEF Check, Pause, EndReset, Forget, Keep, world
<1>4. CASE Plan("init") \/ Plan("doctor") \/ Apply \/ EndPlan
  BY <1>4 DEF Plan, Apply, EndPlan, world, reset
<1>5. CASE ManageLock \/ Manage \/ Release
  BY <1>5 DEF ManageLock, Manage, Release, world, reset
<1>6. CASE \E x \in {"config", "hook", "profile"} : Edit(x)
  BY <1>6 DEF Edit, reset
<1>7. CASE UNCHANGED vars
  BY <1>7 DEF vars, world, reset
<1>8. QED
  BY <1>1, <1>2, <1>3, <1>4, <1>5, <1>6, <1>7 DEF Next

\* A finished reset is idle, and the lock is not its own.
LEMMA EndedReset ==
  ASSUME SetupTypes, EndReset
  PROVE  /\ pc' = "idle" /\ at' = 1 /\ ~complete'
         /\ lock' \in {"reset", "manager", "none"}
         /\ lock' = "manager" <=> lock = "manager"
BY DEF SetupTypes, ControlTyped, EndReset, To, Unlock, Forget

\* Every step of the reset keeps the types of the control state.
LEMMA ResetControl ==
  ASSUME SetupTypes, InRange,
         \/ Preview \/ Decline \/ Lock \/ Check \/ Pause \/ Backup \/ Manifest \/ Clear \/ Write
         \/ Activate \/ Fail \/ Restore \/ Refill \/ Resume \/ Crash
  PROVE  ControlTyped' /\ InRange'
<1> USE FourPlaces DEF SetupTypes, ControlTyped, InRange, PCs
<1>1. CASE Preview
  BY <1>1 DEF Preview, To, world, plans
<1>2. CASE Decline
  BY <1>2 DEF Decline, To, Forget, world, plans
<1>3. CASE Lock
  BY <1>3 DEF Lock, To, world, plans
<1>4. CASE Check
  BY <1>4, EndedReset DEF Check, To, Keep, world, plans
<1>5. CASE Pause
  <2>1. UNCHANGED plans /\ UNCHANGED manager
    BY <1>5 DEF Pause
  <2>2. CASE EndReset
    BY <2>1, <2>2, EndedReset DEF plans
  <2>3. CASE To("backup", 1) /\ UNCHANGED lock
    BY <2>1, <2>3 DEF plans, To
  <2>4. QED  BY <1>5, <2>2, <2>3 DEF Pause
<1>6. CASE Backup
  BY <1>6 DEF Backup, world, plans
<1>7. CASE Manifest
  BY <1>7 DEF Manifest, To, world, plans
<1>8. CASE Clear
  BY <1>8 DEF Clear, To, plans
<1>9. CASE Write
  BY <1>9 DEF Write, To, plans
<1>10. CASE Activate \/ Resume
  BY <1>10, EndedReset DEF Activate, Resume, plans
<1>11. CASE Crash
  BY <1>11, EndedReset DEF Crash, world, plans
<1>12. CASE Fail
  BY <1>12 DEF Fail, To, world, plans
<1>13. CASE Restore
  BY <1>13 DEF Restore, Restored, Unlock, To, plans
<1>14. CASE Refill
  BY <1>14 DEF Refill, Restored, To, plans
<1>15. QED
  BY <1>1, <1>2, <1>3, <1>4, <1>5, <1>6, <1>7, <1>8, <1>9, <1>10, <1>11, <1>12, <1>13, <1>14

\* So does every step of the others.
LEMMA OthersControl ==
  ASSUME SetupTypes, InRange,
         \/ Plan("init") \/ Plan("doctor") \/ Apply \/ EndPlan
         \/ ManageLock \/ Manage \/ Release
         \/ \E x \in {"config", "hook", "profile"} : Edit(x)
  PROVE  ControlTyped' /\ InRange'
<1> USE DEF SetupTypes, ControlTyped, InRange
<1>1. CASE Plan("init") \/ Plan("doctor")
  BY <1>1 DEF Plan, world, reset
<1>2. CASE EndPlan
  BY <1>2 DEF EndPlan, reset
<1>3. CASE Apply
  BY <1>3, OperationsArePlaces DEF Apply, reset
<1>4. CASE ManageLock \/ Manage \/ Release
  BY <1>4 DEF ManageLock, Manage, Release, Unlock, world, reset, plans
<1>5. CASE \E x \in {"config", "hook", "profile"} : Edit(x)
  BY <1>5 DEF Edit, reset, plans
<1>6. QED  BY <1>1, <1>2, <1>3, <1>4, <1>5

\* Every step keeps the types of the history.
LEMMA HistoryStays ==
  ASSUME SetupBounds, SetupTypes, [Next]_vars
  PROVE  HistoryTyped'
<1> USE DEF SetupTypes, HistoryTyped
<1>1. CASE Lock
  <2>1. \A x \in Places : file[x].text \in Texts
    BY DEF FilesTyped, Contents
  <2>2. QED  BY <1>1, <2>1 DEF Lock, bounds
<1>2. CASE Manifest
  <2>1. \A x \in Places : copy[x].text \in Texts
    BY DEF FilesTyped, Contents
  <2>2. QED  BY <1>2, <2>1 DEF Manifest, bounds
<1>3. CASE Preview
  BY <1>3 DEF Preview, history
<1>11. CASE Decline \/ Check \/ Pause \/ Backup \/ Clear \/ Write \/ Activate
  BY <1>11 DEF Decline, Check, Pause, Backup, Clear, Write, Activate, history, bounds
<1>10. CASE Fail \/ Restore \/ Refill \/ Resume \/ Crash \/ EndPlan \/ ManageLock \/ Release
  BY <1>10 DEF Fail, Restore, Refill, Resume, Crash, EndPlan, ManageLock, Release, history,
     bounds
<1>4. CASE Plan("init") \/ Plan("doctor")
  BY <1>4 DEF Plan, Fresh, Texts, SetupBounds, history
<1>5. CASE Apply
  <2>1. plan \in {"init", "doctor"} /\ Operations(plan)[op] \in Places
    BY <1>5, OperationsArePlaces DEF Apply, ControlTyped
  <2>2. QED  BY <1>5, <2>1 DEF Apply, Late, bounds
<1>6. CASE Manage
  <2>1. edits' \in Texts
    BY <1>6 DEF Manage, Fresh, Texts, SetupBounds
  <2>2. QED  BY <1>6, <2>1 DEF Manage, Fresh, Late, Places
<1>7. ASSUME NEW x \in {"config", "hook", "profile"}, Edit(x)
      PROVE  HistoryTyped'
  <2>1. edits' \in Texts
    BY <1>7 DEF Edit, Fresh, Texts, SetupBounds
  <2>2. QED  BY <1>7, <2>1 DEF Edit, Fresh, Late, Places
<1>8. CASE UNCHANGED vars
  BY <1>8 DEF vars, history, bounds
<1>9. QED
  BY <1>1, <1>2, <1>3, <1>4, <1>5, <1>6, <1>7, <1>8, <1>10, <1>11 DEF Next

-----------------------------------------------------------------------------
(* The lock *)

\* Nobody takes objects into management between the check and the end of a reset, or
\* before a restore has removed the lock file.
LEMMA LockStays ==
  ASSUME SetupTypes, InRange, Locked, [Next]_vars
  PROVE  Locked'
<1> USE DEF SetupTypes, ControlTyped, Locked, PCs, To, EndReset, Unlock
<1>1. CASE Preview \/ Decline \/ Lock
  BY <1>1 DEF Preview, Decline, Lock, world
<1>2. CASE Check
  BY <1>2 DEF Check, StillSafe, world
<1>3. CASE Pause
  BY <1>3, EndedReset DEF Pause
<1>12. CASE Backup \/ Manifest
  BY <1>12 DEF Backup, Manifest, world
<1>4. CASE Clear
  <2>1. managed' => managed
    BY <1>4 DEF Clear
  <2>2. QED  BY <1>4, <2>1 DEF Clear
<1>13. CASE Write \/ Activate
  BY <1>13 DEF Write, Activate
<1>5. CASE Fail \/ Resume \/ Crash
  BY <1>5 DEF Fail, Resume, Crash, world
<1>6. CASE Restore \/ Refill
  BY <1>6 DEF Restore, Refill, Restored
<1>7. CASE Plan("init") \/ Plan("doctor") \/ EndPlan \/ Apply
  BY <1>7 DEF Plan, EndPlan, Apply, world, reset
<1>8. CASE ManageLock \/ Manage \/ Release
  BY <1>8 DEF ManageLock, Manage, Release, world, reset
<1>9. CASE \E x \in {"config", "hook", "profile"} : Edit(x)
  BY <1>9 DEF Edit, reset
<1>10. CASE UNCHANGED vars
  BY <1>10 DEF vars, world, reset
<1>11. QED
  BY <1>1, <1>2, <1>3, <1>4, <1>5, <1>6, <1>7, <1>8, <1>9, <1>10, <1>12, <1>13 DEF Next

-----------------------------------------------------------------------------
(* What others write *)

(* One place at most is written, and then it is late, if it was copied.    *)
Written(x) ==
  /\ \A y \in Places \ {x} : file'[y] = file[y] /\ newest'[y] = newest[y]
  /\ Late(x) /\ saved' = saved /\ UNCHANGED reset

\* Who writes a place, or nothing, does not disturb what the reset has behind it.
LEMMA WrittenProgress ==
  ASSUME SetupTypes, InRange, Progress, NEW x \in Places, Written(x)
  PROVE  Progress'
<1> USE DEF Written, Late, reset
<1>1. late' \subseteq Places /\ late \subseteq late'
  BY DEF SetupTypes, HistoryTyped
<1>2. Active /\ pc \notin {"pause", "backup"} => x \in late'
  BY DEF Copied
<1>3. ASSUME pc = "backup", NEW k \in 1..(at - 1), Snapshots[k] \notin late'
      PROVE  Snapshots[k] \in Places \ {x}
  <2>1. Snapshots[k] \in Copied /\ k \in 1..4
    BY <1>3 DEF Copied, SetupTypes, ControlTyped
  <2>2. QED  BY <1>3, <2>1, SnapshotsNumber
<1>4. BackedUp'
  <2>1. ASSUME pc' = "backup", NEW k \in 1..(at' - 1), Snapshots[k] \notin late'
        PROVE  file'[Snapshots[k]] = copy'[Snapshots[k]]
    BY <2>1, <1>1, <1>3 DEF Progress, BackedUp
  <2>2. ASSUME complete', NEW y \in Places \ late'
        PROVE  newest'[y] \in saved'[y]
    <3>1. Active /\ pc \notin {"pause", "backup"}
      BY <2>2 DEF Progress, BackedUp, Active
    <3>2. y # x /\ y \in Places \ late
      BY <3>1, <2>2, <1>1, <1>2
    <3>3. QED  BY <2>2, <3>2 DEF Progress, BackedUp
  <2>3. QED  BY <2>1, <2>2 DEF Progress, BackedUp
<1>5. Rebuilding'
  <2>1. ASSUME pc' \in {"rebuild", "activate"}, NEW y \in Places \ late'
        PROVE  y \in Places \ late /\ file'[y] = file[y]
    BY <2>1, <1>1, <1>2 DEF Active
  <2>2. ASSUME pc' = "rebuild", NEW k \in 1..(at' - 1), Rebuilt[k] \notin late'
        PROVE  file'[Rebuilt[k]].ours
    <3>1. k \in 1..4
      BY <2>2 DEF SetupTypes, ControlTyped
    <3>2. QED  BY <2>1, <2>2, <3>1, RebuiltNumber DEF Progress, Rebuilding
  <2>3. QED  BY <2>1, <2>2 DEF Progress, Rebuilding
<1>6. Restoring'
  <2>1. ASSUME pc' \in {"restore", "refill", "resume"}, NEW y \in Places \ late'
        PROVE  y \in Places \ late /\ file'[y] = file[y]
    BY <2>1, <1>1, <1>2 DEF Active
  <2>2. ASSUME pc' = "restore", NEW k \in 1..(at' - 1), Snapshots[k] \notin late'
        PROVE  file'[Snapshots[k]] = copy'[Snapshots[k]]
    <3>1. k \in 1..4
      BY <2>2 DEF SetupTypes, ControlTyped
    <3>2. QED  BY <2>1, <2>2, <3>1, SnapshotsNumber DEF Progress, Restoring
  <2>3. "state" \in Places
    BY DEF Places
  <2>4. QED  BY <2>1, <2>2, <2>3 DEF Progress, Restoring
<1>7. QED  BY <1>4, <1>5, <1>6 DEF Progress

\* So does who writes nothing.
LEMMA NothingWritten ==
  ASSUME UNCHANGED <<file, newest, saved, late, reset>>, Progress
  PROVE  Progress'
BY DEF Progress, BackedUp, Rebuilding, Restoring, reset

\* The others keep what anybody wrote: a plan only writes over what it has read.
LEMMA OthersStep ==
  ASSUME SetupBounds, SetupTypes, InRange, Lasting, Progress,
         \/ Plan("init") \/ Plan("doctor") \/ Apply \/ EndPlan
         \/ ManageLock \/ Manage \/ Release
         \/ \E x \in {"config", "hook", "profile"} : Edit(x)
  PROVE  Lasting' /\ Progress'
<1>1. CASE Plan("init") \/ Plan("doctor") \/ EndPlan \/ ManageLock \/ Release
  <2>1. UNCHANGED <<file, newest, saved, late, reset>>
    BY <1>1 DEF Plan, EndPlan, ManageLock, Release, world, history
  <2>2. QED  BY <2>1, NothingWritten DEF Lasting, Kept
<1>2. CASE Apply
  <2> DEFINE x == Operations(plan)[op]
  <2>1. plan \in {"init", "doctor"} /\ x \in Places
    BY <1>2, OperationsArePlaces DEF Apply, SetupTypes, ControlTyped
  <2>2. UNCHANGED <<newest, saved, reset>>
    BY <1>2 DEF Apply
  <2>3. CASE UNCHANGED <<file, late>>
    BY <2>2, <2>3, NothingWritten DEF Lasting, Kept
  <2>4. CASE /\ Applicable(x) /\ Late(x)
             /\ Put(x, IF x = "state" THEN [file[x] EXCEPT !.ours = TRUE] ELSE Ours(x, planned))
    <3>1. file \in [Places -> Contents] /\ planned \in [Places -> Contents]
      BY DEF SetupTypes, FilesTyped
    <3>2. file[x] \in Contents
      BY <2>1, <3>1
    <3>3. file'[x].text = file[x].text /\ \A y \in Places \ {x} : file'[y] = file[y]
      <4>1. CASE x = "state"
        BY <2>1, <2>4, <3>1, <3>2, <4>1 DEF Put, Contents
      <4>2. CASE x # "state"
        BY <2>1, <2>4, <3>1, <4>2, OursTyped DEF Put, Applicable
      <4>3. QED  BY <4>1, <4>2
    <3>4. Written(x)
      BY <2>2, <2>4, <3>3 DEF Written
    <3>5. late \subseteq late'
      BY <2>4 DEF Late
    <3>6. QED  BY <2>1, <2>2, <3>3, <3>4, <3>5, WrittenProgress DEF Lasting, Kept
  <2>5. QED  BY <1>2, <2>3, <2>4 DEF Apply
<1>3. CASE Manage
  <2>1. "state" \in Places
    BY DEF Places
  <2>2. Written("state")
    BY <1>3 DEF Manage, Written, Put, SetupTypes, FilesTyped, HistoryTyped
  <2>3. newest'["state"] = file'["state"].text
    BY <1>3, <2>1 DEF Manage, Put, SetupTypes, FilesTyped, HistoryTyped
  <2>4. QED  BY <2>1, <2>2, <2>3, WrittenProgress DEF Lasting, Kept, Written, Late
<1>4. ASSUME NEW x \in {"config", "hook", "profile"}, Edit(x)
      PROVE  Lasting' /\ Progress'
  <2>1. x \in Places
    BY DEF Places
  <2>2. Written(x)
    BY <1>4 DEF Edit, Written, Put, SetupTypes, FilesTyped, HistoryTyped
  <2>3. newest'[x] = file'[x].text
    BY <1>4, <2>1 DEF Edit, Put, SetupTypes, FilesTyped, HistoryTyped
  <2>4. QED  BY <2>1, <2>2, <2>3, WrittenProgress DEF Lasting, Kept, Written, Late
<1>5. QED  BY <1>1, <1>2, <1>3, <1>4

-----------------------------------------------------------------------------
(* What the reset does *)

\* A reset that ends leaves no backup to compare with.
LEMMA EndedProgress ==
  ASSUME SetupTypes, EndReset
  PROVE  Progress'
BY EndedReset DEF Progress, BackedUp, Rebuilding, Restoring

\* Until it has its backup, the reset writes no place.
LEMMA BeforeTheBackup ==
  ASSUME SetupTypes, InRange, Lasting, Progress,
         Preview \/ Decline \/ Lock \/ Check \/ Pause
  PROVE  Lasting' /\ Progress'
<1>1. CASE Preview \/ Decline
  <2>1. UNCHANGED <<file, newest, saved, late>> /\ pc' \in {"idle", "confirm"} /\ ~complete'
    BY <1>1 DEF Preview, Decline, world, history, To, Forget, Progress, BackedUp
  <2>2. QED  BY <2>1 DEF Lasting, Kept, Progress, BackedUp, Rebuilding, Restoring
<1>2. CASE Lock
  <2>1. UNCHANGED <<file, saved>> /\ pc' = "check" /\ ~complete'
    BY <1>2 DEF Lock, world, To, Progress, BackedUp
  <2>2. \A x \in Places : newest'[x] = IF x \in late THEN file[x].text ELSE newest[x]
    BY <1>2 DEF Lock
  <2>3. QED  BY <2>1, <2>2 DEF Lasting, Kept, Progress, BackedUp, Rebuilding, Restoring
<1>3. CASE Check \/ Pause
  <2>1. UNCHANGED <<file, newest, saved, late>>
    BY <1>3 DEF Check, Pause, world, history
  <2>2. CASE EndReset
    BY <2>1, <2>2, EndedProgress DEF Lasting, Kept
  <2>3. CASE pc' = "pause" /\ UNCHANGED complete
    BY <1>3, <2>1, <2>3 DEF Lasting, Kept, Progress, BackedUp, Rebuilding, Restoring, Check, Pause
  <2>4. CASE pc' = "backup" /\ at' = 1 /\ UNCHANGED complete
    <3>1. ~complete
      BY <1>3 DEF Check, Pause, Progress, BackedUp
    <3>2. \A k \in 1..(at' - 1) : FALSE
      BY <2>4
    <3>3. QED
      BY <2>1, <2>4, <3>1, <3>2 DEF Lasting, Kept, Progress, BackedUp, Rebuilding, Restoring
  <2>5. QED  BY <1>3, <2>2, <2>3, <2>4 DEF Check, Pause, To, Keep
<1>4. QED  BY <1>1, <1>2, <1>3

\* The copies are those of the places as they are, and with the manifest the last text of
\* every place is in a complete backup.
LEMMA TakingTheBackup ==
  ASSUME SetupTypes, InRange, Lasting, Progress, Backup \/ Manifest
  PROVE  Lasting' /\ Progress'
<1>1. UNCHANGED <<file, newest, late>> /\ pc = "backup" /\ ~complete
  BY DEF Backup, Manifest, world, history, Progress, BackedUp
<1>2. CASE Backup
  <2>1. UNCHANGED <<saved, pc, complete>> /\ at \in 1..4 /\ at' = at + 1
    BY <1>2, FourPlaces DEF Backup, history, SetupTypes, ControlTyped
  <2>2. ASSUME NEW k \in 1..(at' - 1), Snapshots[k] \notin late'
        PROVE  file'[Snapshots[k]] = copy'[Snapshots[k]]
    <3>1. copy' = [copy EXCEPT ![Snapshots[at]] = file[Snapshots[at]]]
      BY <1>2 DEF Backup
    <3>2. copy \in [Places -> Contents] /\ Snapshots[at] \in Places /\ Snapshots[k] \in Places
      BY <2>1, SnapshotsNumber DEF SetupTypes, FilesTyped
    <3>3. CASE k = at
      BY <1>1, <3>1, <3>2, <3>3
    <3>4. CASE k # at
      <4>1. k \in 1..(at - 1) /\ Snapshots[k] # Snapshots[at]
        BY <2>1, <3>4, SnapshotsNumber
      <4>2. copy'[Snapshots[k]] = copy[Snapshots[k]]
        BY <3>1, <3>2, <4>1
      <4>3. QED  BY <1>1, <2>2, <4>1, <4>2 DEF Progress, BackedUp
    <3>5. QED  BY <3>3, <3>4
  <2>3. QED
    BY <1>1, <2>1, <2>2 DEF Lasting, Kept, Progress, BackedUp, Rebuilding, Restoring
<1>3. CASE Manifest
  <2>1. at = 5 /\ pc' = "clear" /\ complete'
    BY <1>3, FourPlaces DEF Manifest, To, SetupTypes, ControlTyped
  <2>2. \A x \in Places : saved'[x] = saved[x] \cup {copy[x].text}
    BY <1>3 DEF Manifest
  <2>3. ASSUME NEW x \in Places \ late
        PROVE  newest'[x] \in saved'[x]
    <3>1. PICK k \in 1..4 : Snapshots[k] = x
      BY SnapshotsNumber
    <3>2. file[x] = copy[x]
      BY <1>1, <2>1, <3>1 DEF Progress, BackedUp
    <3>3. newest[x] \in saved[x] \cup {file[x].text}
      BY DEF Lasting, Kept
    <3>4. QED  BY <1>1, <2>2, <3>2, <3>3
  <2>4. QED
    BY <1>1, <2>1, <2>3 DEF Lasting, Kept, Progress, BackedUp, Rebuilding, Restoring
<1>4. QED  BY <1>2, <1>3

\* With its backup, the reset may write every place.
LEMMA BackupLasts ==
  ASSUME complete, Progress, UNCHANGED <<newest, saved, late>>
  PROVE  Lasting'
BY DEF Progress, BackedUp, Lasting, Kept

\* The places are cleared, and rebuilt one after the other.
LEMMA RebuildingThem ==
  ASSUME SetupTypes, InRange, Lasting, Progress, Clear \/ Write
  PROVE  Lasting' /\ Progress'
<1>1. complete /\ UNCHANGED <<newest, saved, late, complete>>
  BY DEF Clear, Write, history, Progress, BackedUp
<1>2. Lasting'
  BY <1>1, BackupLasts
<1>3. CASE Clear
  <2>1. pc' = "clear" \/ (pc' = "rebuild" /\ at' = 1)
    BY <1>3 DEF Clear, To
  <2>2. QED  BY <1>1, <1>2, <2>1 DEF Progress, BackedUp, Rebuilding, Restoring
<1>4. CASE Write
  <2>6. pc = "rebuild" /\ at \in 1..4
    BY <1>4 DEF Write, InRange
  <2>1. (pc' = "rebuild" /\ at' = at + 1) \/ (pc' = "activate" /\ at = 4)
    BY <1>4, <2>6, FourPlaces DEF Write, To
  <2>2. ASSUME NEW k \in 1..at, Rebuilt[k] \notin late
        PROVE  file'[Rebuilt[k]].ours
    <3>1. /\ file' = [file EXCEPT ![Rebuilt[at]] = Rebuild(Rebuilt[at])]
          /\ file \in [Places -> Contents] /\ seen \in [Places -> Contents]
          /\ Rebuilt[at] \in Places /\ Rebuilt[k] \in Places
      BY <1>4, <2>6, RebuiltNumber DEF Write, Put, SetupTypes, FilesTyped
    <3>2. CASE k = at
      <4>1. Rebuild(Rebuilt[at]).ours
        BY <3>1, OursTyped DEF Rebuild, None
      <4>2. QED  BY <3>1, <3>2, <4>1
    <3>3. CASE k # at
      <4>1. k \in 1..(at - 1) /\ Rebuilt[k] # Rebuilt[at]
        BY <2>6, <3>3, RebuiltNumber
      <4>2. QED  BY <2>2, <2>6, <3>1, <4>1 DEF Progress, Rebuilding
    <3>4. QED  BY <3>2, <3>3
  <2>3. ASSUME at = 4, NEW x \in Places \ late
        PROVE  file'[x].ours
    <3>1. PICK k \in 1..4 : Rebuilt[k] = x
      BY RebuiltNumber
    <3>2. QED  BY <2>2, <2>3, <3>1
  <2>4. Rebuilding'
    BY <1>1, <2>1, <2>2, <2>3, <2>6 DEF Rebuilding
  <2>5. QED  BY <1>1, <1>2, <2>1, <2>4 DEF Progress, BackedUp, Restoring
<1>5. QED  BY <1>3, <1>4

\* A failure turns to the backup, or ends a reset that has written nothing.
LEMMA Failing ==
  ASSUME Lasting, Progress, Fail
  PROVE  Lasting' /\ Progress'
<1>1. /\ UNCHANGED <<file, newest, saved, late, complete, copy>>
      /\ (complete /\ pc' = "restore" /\ at' = 1) \/ (~complete /\ pc' = "resume")
  BY DEF Fail, To, world, history
<1>2. QED  BY <1>1 DEF Lasting, Kept, Progress, BackedUp, Rebuilding, Restoring

\* The places are put back, one after the other.
LEMMA RestoringThem ==
  ASSUME SetupTypes, InRange, Lasting, Progress, Restore \/ Refill
  PROVE  Lasting' /\ Progress'
<1>1. complete /\ UNCHANGED <<newest, saved, late, complete, copy>>
  BY DEF Restore, Refill, history, Progress, BackedUp
<1>2. Lasting'
  BY <1>1, BackupLasts
<1>3. file \in [Places -> Contents] /\ at \in 1..4 /\ "state" \in Places
  BY DEF SetupTypes, FilesTyped, Restore, Refill, InRange, Places
<1>4. CASE pc' = "refill" /\ file' = [file EXCEPT !["state"] = None]
  BY <1>1, <1>2, <1>3, <1>4 DEF Progress, BackedUp, Rebuilding, Restoring
<1>5. CASE /\ Restored("resume")
           /\ \A y \in Places \ {Snapshots[at]} : file'[y] = file[y]
           /\ Snapshots[at] \in late \/ file'[Snapshots[at]] = copy[Snapshots[at]]
           /\ pc = "restore" \/ at = 1
  <2>1. (pc' = "restore" /\ at' = at + 1) \/ (pc' = "resume" /\ at = 4)
    BY <1>3, <1>5, FourPlaces DEF Restored, To
  <2>2. ASSUME NEW k \in 1..at, Snapshots[k] \notin late
        PROVE  file'[Snapshots[k]] = copy'[Snapshots[k]]
    <3>1. CASE k = at
      BY <1>1, <1>5, <2>2, <3>1
    <3>2. CASE k # at
      <4>1. /\ k \in 1..(at - 1) /\ Snapshots[k] # Snapshots[at] /\ Snapshots[k] \in Places
            /\ pc = "restore"
        BY <1>3, <1>5, <3>2, SnapshotsNumber
      <4>2. QED  BY <1>1, <1>5, <2>2, <4>1 DEF Progress, Restoring
    <3>3. QED  BY <3>1, <3>2
  <2>3. ASSUME at = 4, NEW x \in Places \ late
        PROVE  file'[x] = copy'[x]
    <3>1. PICK k \in 1..4 : Snapshots[k] = x
      BY SnapshotsNumber
    <3>2. QED  BY <2>2, <2>3, <3>1
  <2>4. Restoring'
    <3>1. CASE pc' = "restore" /\ at' = at + 1
      <4>1. at' - 1 = at
        BY <1>3, <3>1
      <4>2. QED  BY <1>1, <2>2, <3>1, <4>1 DEF Restoring
    <3>2. CASE pc' = "resume" /\ at = 4
      BY <1>1, <2>3, <3>2 DEF Restoring
    <3>3. QED  BY <2>1, <3>1, <3>2
  <2>5. QED  BY <1>1, <1>2, <2>1, <2>4 DEF Progress, BackedUp, Rebuilding
<1>6. CASE Restore
  <2>1. Snapshots[at] \in Places /\ pc = "restore"
    BY <1>3, <1>6, SnapshotsNumber DEF Restore
  <2>2. CASE Snapshots[at] = "state"
    BY <1>6, <2>2, <1>4 DEF Restore, Put, To
  <2>3. CASE Snapshots[at] # "state"
    BY <1>3, <1>6, <2>1, <2>3, <1>5 DEF Restore, Put
  <2>4. QED  BY <2>2, <2>3
<1>7. CASE Refill
  <2>1. at = 1 /\ Snapshots[at] = "state" /\ Restored("resume")
    BY <1>7, FourPlaces DEF Refill, InRange
  <2>2. CASE file["state"] = None /\ Put("state", copy["state"])
    BY <1>3, <2>1, <2>2, <1>5 DEF Put
  <2>3. CASE file["state"] # None /\ UNCHANGED file
    <3>1. "state" \in late
      BY <1>7, <2>3 DEF Refill, Progress, Restoring
    <3>2. QED  BY <2>1, <2>3, <3>1, <1>5
  <2>4. QED  BY <1>7, <2>2, <2>3 DEF Refill
<1>8. QED  BY <1>6, <1>7

\* A reset that ends, or dies, leaves every place as it is.
LEMMA Ending ==
  ASSUME SetupTypes, Lasting, Activate \/ Resume \/ Crash
  PROVE  Lasting' /\ Progress'
<1>1. UNCHANGED <<file, newest, saved, late>> /\ EndReset
  BY DEF Activate, Resume, Crash, world, history
<1>2. QED  BY <1>1, EndedProgress DEF Lasting, Kept

-----------------------------------------------------------------------------
(* The theorems *)

\* The invariant holds in the beginning.
LEMMA SetupBegins ==
  ASSUME SetupBounds, Init
  PROVE  SetupInv
<1>1. FilesTyped
  <2>1. 1 \in Texts
    BY DEF SetupBounds, Texts
  <2>2. [text |-> 1, ours |-> FALSE] \in Contents
    BY <2>1 DEF Contents
  <2>3. QED  BY <2>2, NothingTyped DEF Init, FilesTyped
<1>2. HistoryTyped
  <2>1. \A x \in Places : file[x].text \in Texts
    BY <1>1 DEF FilesTyped, Contents
  <2>2. QED  BY <2>1 DEF Init, HistoryTyped, SetupBounds, Texts
<1>3. FlagsTyped /\ ControlTyped
  <2>1. FlagsTyped
    BY DEF Init, FlagsTyped
  <2>2. ControlTyped
    BY DEF Init, ControlTyped, PCs
  <2>3. QED  BY <2>1, <2>2
<1>4. InRange /\ Locked
  BY DEF Init, InRange, Locked
<1>5. Lasting
  BY DEF Init, Lasting, Kept
<1>6. Progress
  BY DEF Init, Progress, BackedUp, Rebuilding, Restoring
<1>7. QED  BY <1>1, <1>2, <1>3, <1>4, <1>5, <1>6 DEF SetupInv, SetupTypes

\* Every step keeps it.
LEMMA SetupStays ==
  ASSUME SetupBounds, SetupInv, [Next]_vars
  PROVE  SetupInv'
<1> USE DEF SetupInv
<1>1. FlagsTyped' /\ HistoryTyped' /\ Locked'
  BY FlagsStay, HistoryStays, LockStays DEF SetupTypes
<1>2. FilesTyped' /\ ControlTyped' /\ InRange'
  <2>1. CASE UNCHANGED vars
    BY <2>1 DEF vars, world, reset, plans, SetupTypes, FilesTyped, ControlTyped, InRange
  <2>2. QED  BY <2>1, ResetFiles, OthersFiles, ResetControl, OthersControl DEF Next
<1>3. Lasting' /\ Progress'
  <2>1. CASE UNCHANGED vars
    BY <2>1, NothingWritten DEF vars, world, history, Lasting, Kept
  <2>2. QED
    BY <2>1, OthersStep, BeforeTheBackup, TakingTheBackup, RebuildingThem, Failing, RestoringThem,
       Ending DEF Next
<1>4. QED  BY <1>1, <1>2, <1>3 DEF SetupTypes

\* The invariant of the commands that set ToolTend up, for all bounds.
THEOREM SetupInvariant ==
  ASSUME SetupBounds
  PROVE  Spec => []SetupInv
BY SetupBegins, SetupStays, PTL DEF Spec

\* The state is of the types that TypeOK says.
THEOREM SetupTypeCorrect ==
  ASSUME SetupBounds
  PROVE  Spec => []TypeOK
<1>1. SetupInv => TypeOK
  BY FourPlaces
  DEF SetupInv, SetupTypes, FilesTyped, FlagsTyped, ControlTyped, Contents, Texts, TypeOK
<1>2. QED  BY <1>1, SetupInvariant, PTL

\* cli/reset.go: what anybody wrote is at its place or in a complete backup; nothing managed
\* is cleared; a reset that ends with its schedule has rebuilt, or put back, every place that
\* others did not write meanwhile.
THEOREM ResetsAreWholeAlways ==
  ASSUME SetupBounds
  PROVE  Spec => ResetsAreWhole
<1> DEFINE A ==
      /\ pc = "clear" /\ pc' # "idle" => ~managed
      /\ pc = "activate" /\ pc' = "idle" /\ scheduled' =>
           \A x \in Places \ late : file[x].ours /\ newest[x] \in saved[x] \cup {file[x].text}
      /\ pc = "resume" /\ pc' = "idle" /\ resets' = resets =>
           scheduled' /\ (complete => \A x \in Places \ late : file[x] = copy[x])
<1>1. SetupInv => \A x \in Places : Kept(x)
  BY DEF SetupInv, Lasting
<1>2. SetupInv /\ [Next]_vars => [A]_vars
  <2> SUFFICES ASSUME SetupInv, Next
               PROVE  A
    OBVIOUS
  <2> USE DEF SetupInv
  <2>1. pc = "clear" => ~managed
    BY DEF Locked
  <2>2. pc = "activate" =>
          \A x \in Places \ late : file[x].ours /\ newest[x] \in saved[x] \cup {file[x].text}
    BY DEF Progress, BackedUp, Rebuilding
  <2>3. complete /\ pc = "resume" => \A x \in Places \ late : file[x] = copy[x]
    BY DEF Progress, Restoring
  <2>4. ASSUME pc = "resume", pc' = "idle", resets' = resets
        PROVE  scheduled'
    <3>1. resets \in Nat
      BY DEF SetupTypes, HistoryTyped
    <3>2. ~Crash
      BY <2>4, <3>1 DEF Crash
    <3>3. QED
      BY <2>4, <3>2 DEF Next, Preview, Decline, Lock, Check, Pause, Backup, Manifest, Clear,
         Write, Activate, Fail, Restore, Refill, Resume, Plan, Apply, EndPlan, ManageLock,
         Manage, Release, Edit, reset
  <2>5. QED  BY <2>1, <2>2, <2>3, <2>4
<1>3. QED  BY <1>1, <1>2, SetupInvariant, PTL DEF Spec, ResetsAreWhole
=============================================================================
