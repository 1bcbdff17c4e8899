--------------------------------- MODULE Setup --------------------------------
(***************************************************************************)
(* The commands that write ToolTend's infrastructure: "init --reset-state" *)
(* (internal/cli/reset.go), which backs everything up, clears it and       *)
(* rebuilds it under the activation lock, and the plans of "init" and of   *)
(* "doctor --fix" (cli/init_scan.go, doctor/doctor.go, plan/plan.go),      *)
(* which take no lock for it.  The user edits the same files meanwhile,    *)
(* and another command takes objects into management.                      *)
(*                                                                         *)
(* A file is the text that its owner put there (0: nothing), and whether   *)
(* it is as the command planned it.  Every edit leaves a text that was not *)
(* there before.                                                           *)
(***************************************************************************)
EXTENDS Integers, Sequences

CONSTANTS
  MaxEvent,  \* bound: edits by the user, other commands and resets, together
  MaxReset   \* bound: resets (one that dies counts twice)

(* What the theorems assume of the constants.                              *)
SetupBounds == MaxEvent \in Nat \ {0} /\ MaxReset \in Nat

VARIABLES
  file,                \* of each place: [text, ours]
  scheduled,           \* is the schedule registered with the system?
  managed,             \* does the state hold managed objects or unfinished journals?
  lock,                \* who holds the file at activation.lock: "reset", "manager" or "none"
  pc, at, seen,        \* the reset: where it is, the next place, what its preview has read
  copy, complete,      \* its backup, and whether the manifest is written
  plan, op, planned,   \* the plan: "none", "init" or "doctor"; its next operation; its preview
  manager,             \* the command that takes into management: "idle" or "locked"
  newest, saved,       \* history: the last text of each place; those of the complete backups
  late,                \* history: places that others wrote after the reset had copied them
  edits, resets

world == <<file, scheduled, managed>>
reset == <<pc, at, seen, copy, complete>>
plans == <<plan, op, planned>>
history == <<newest, saved, late>>
bounds == <<edits, resets>>
vars == <<world, lock, reset, plans, manager, history, bounds>>

(* Each stands for all files of its kind: the state directory with its     *)
(* database, the configuration, the hook files of the agents, the shell    *)
(* profile.  The unit files of the scheduler are ToolTend's alone: they    *)
(* are written when it is activated.                                       *)
Places == {"state", "config", "hook", "profile"}
None == [text |-> 0, ours |-> FALSE]
Nothing == [x \in Places |-> None]
(* resetSnapshots and uniqueResetRoots: the roots come first.              *)
Snapshots == <<"state", "config", "hook", "profile">>
Roots == <<"state", "config">>
Rebuilt == <<"profile", "config", "state", "hook">>
(* The hooks, the PATH line and the settings are merged into what was read.*)
Ours(x, read) == [text |-> read[x].text, ours |-> TRUE]
Rebuild(x) == IF x = "state" THEN [None EXCEPT !.ours = TRUE] ELSE Ours(x, seen)
PCs == {"idle", "confirm", "check", "pause", "backup", "clear", "rebuild", "activate",
        "restore", "refill", "resume"}

To(next, first) == pc' = next /\ at' = first
Put(x, value) == file' = [file EXCEPT ![x] = value]
Unlock(who) == lock' = IF lock = who THEN "none" ELSE lock
Forget == seen' = Nothing /\ copy' = Nothing /\ complete' = FALSE
Keep == UNCHANGED <<seen, copy, complete>>
EndReset == To("idle", 1) /\ Unlock("reset") /\ Forget

(***************************************************************************)
(* init --reset-state: the preview, then everything under the lock         *)
(***************************************************************************)
(* inspectResetBlockers, once without the lock.                            *)
Preview ==
  /\ pc = "idle" /\ ~managed
  /\ resets < MaxReset /\ edits + resets < MaxEvent /\ resets' = resets + 1
  /\ To("confirm", 1) /\ seen' = file
  /\ UNCHANGED <<world, lock, copy, complete, plans, manager, history, edits>>
(* The user declines, or the lock is taken.                                *)
Decline ==
  /\ pc = "confirm" /\ To("idle", 1) /\ Forget
  /\ UNCHANGED <<world, lock, plans, manager, history, bounds>>
Lock ==
  /\ pc = "confirm" /\ lock = "none"
  /\ lock' = "reset" /\ To("check", 1)
  /\ late' = {}
  /\ newest' = [x \in Places |-> IF x \in late THEN file[x].text ELSE newest[x]]
  /\ UNCHANGED <<world, seen, copy, complete, plans, manager, saved, bounds>>

\* mutant: the managed objects are only looked for in the preview
StillSafe_PreviewOnly == file["config"] = seen["config"]
StillSafe == file["config"] = seen["config"] /\ ~managed
Check ==
  /\ pc = "check"
  /\ IF StillSafe THEN To("pause", 1) /\ Keep /\ UNCHANGED lock ELSE EndReset
  /\ UNCHANGED <<world, plans, manager, history, bounds>>

(* scheduler.Deactivate; when it fails the reset ends as it is (of launchd *)
(* jobs only the first is asked for its error, so the second may be gone). *)
Pause ==
  /\ pc = "pause"
  /\ \/ scheduled' = FALSE /\ To("backup", 1) /\ Keep /\ UNCHANGED lock
     \/ scheduled' \in {scheduled, FALSE} /\ EndReset
  /\ UNCHANGED <<file, managed, plans, manager, history, bounds>>

Backup ==
  /\ pc = "backup" /\ at <= Len(Snapshots)
  /\ copy' = [copy EXCEPT ![Snapshots[at]] = file[Snapshots[at]]]
  /\ at' = at + 1
  /\ UNCHANGED <<world, lock, pc, seen, complete, plans, manager, history, bounds>>
Manifest ==
  /\ pc = "backup" /\ at > Len(Snapshots)
  /\ complete' = TRUE /\ To("clear", 1)
  /\ saved' = [x \in Places |-> saved[x] \cup {copy[x].text}]
  /\ UNCHANGED <<world, lock, seen, copy, plans, manager, newest, late, bounds>>

(* clearRoot leaves the lock file.                                         *)
Clear ==
  /\ pc = "clear"
  /\ Put(Roots[at], None)
  /\ managed' = (managed /\ Roots[at] # "state")
  /\ IF at < Len(Roots) THEN at' = at + 1 /\ UNCHANGED pc ELSE To("rebuild", 1)
  /\ UNCHANGED <<scheduled, lock, seen, copy, complete, plans, manager, history, bounds>>
(* ApplyMutation writes a hook file only over what the preview has seen.   *)
Writable(x) == x = "hook" => file[x] = seen[x]
Write ==
  /\ pc = "rebuild"
  /\ LET x == Rebuilt[at] IN Writable(x) /\ Put(x, Rebuild(x))
  /\ IF at < Len(Rebuilt) THEN at' = at + 1 /\ UNCHANGED pc ELSE To("activate", 1)
  /\ UNCHANGED <<scheduled, managed, lock, seen, copy, complete, plans, manager, history, bounds>>
Activate ==
  /\ pc = "activate"
  /\ scheduled' = TRUE /\ EndReset
  /\ UNCHANGED <<file, managed, plans, manager, history, bounds>>

(* Any of these steps may fail.                                            *)
Fail ==
  /\ pc \in {"backup", "clear", "rebuild", "activate"}
  /\ To(IF complete THEN "restore" ELSE "resume", 1)
  /\ UNCHANGED <<world, lock, seen, copy, complete, plans, manager, history, bounds>>
Restored(next) ==
  IF at < Len(Snapshots) THEN To("restore", at + 1) ELSE To(next, 1)
(* restoreSnapshots: what is there is removed and the copy put back.  With *)
(* the state directory goes the lock file, although the reset holds it.    *)
Restore ==
  /\ pc = "restore"
  /\ LET x == Snapshots[at]
     IN  IF x = "state"
         THEN Put(x, None) /\ managed' = FALSE /\ Unlock("reset") /\ To("refill", at)
         ELSE Put(x, copy[x]) /\ Restored("resume") /\ UNCHANGED <<managed, lock>>
  /\ UNCHANGED <<scheduled, seen, copy, complete, plans, manager, history, bounds>>
(* A file that someone has created meanwhile is not overwritten (O_EXCL).  *)
Refill ==
  /\ pc = "refill"
  /\ IF file["state"] = None THEN Put("state", copy["state"]) ELSE UNCHANGED file
  /\ Restored("resume")
  /\ UNCHANGED <<scheduled, managed, lock, seen, copy, complete, plans, manager, history, bounds>>
Resume ==
  /\ pc = "resume"
  /\ scheduled' = TRUE /\ EndReset
  /\ UNCHANGED <<file, managed, plans, manager, history, bounds>>

(***************************************************************************)
(* Others                                                                  *)
(***************************************************************************)
Active == pc \notin {"idle", "confirm", "check"}
(* history: who writes a place that the reset has copied is late, until    *)
(* the next reset.                                                         *)
Copied ==
  IF pc = "backup" THEN {Snapshots[k] : k \in 1..(at - 1)}
  ELSE IF Active /\ pc # "pause" THEN Places ELSE {}
Late(x) == late' = late \cup ({x} \cap Copied)
Fresh == edits + resets < MaxEvent /\ edits' = edits + 1

(* init and doctor --fix: what their operations write, in order.           *)
Operations(kind) ==
  IF kind = "init" THEN <<"profile", "config", "state", "hook">>
  ELSE <<"state", "config", "hook">>
Plan(kind) ==
  /\ plan = "none" /\ Fresh
  /\ plan' = kind /\ op' = 1 /\ planned' = file
  /\ UNCHANGED <<world, lock, reset, manager, history, resets>>
(* The database is migrated and added to; doctor only writes a             *)
(* configuration that is missing; every other file must be as it was in    *)
(* the preview.                                                            *)
Skips(x) == plan = "doctor" /\ x = "config" /\ planned[x].text # 0
Applicable(x) == x = "state" \/ file[x] = planned[x]
Apply ==
  /\ plan # "none" /\ op <= Len(Operations(plan))
  /\ LET x == Operations(plan)[op]
     IN  \/ Skips(x) /\ UNCHANGED <<file, late>>
         \/ /\ ~Skips(x) /\ Applicable(x)
            /\ Put(x, IF x = "state" THEN [file[x] EXCEPT !.ours = TRUE] ELSE Ours(x, planned))
            /\ Late(x)
  /\ op' = op + 1
  /\ UNCHANGED <<scheduled, managed, lock, reset, plan, planned, manager, newest, saved, bounds>>
(* The schedule is registered last; or an operation before fails, or the   *)
(* process dies: nothing is reversible, what was applied stays.            *)
EndPlan ==
  /\ plan # "none"
  /\ scheduled' = (scheduled \/ op > Len(Operations(plan)))
  /\ plan' = "none" /\ op' = 1 /\ planned' = Nothing
  /\ UNCHANGED <<file, managed, lock, reset, manager, history, bounds>>

(* Another command: adoption, or a bundle policy.                          *)
ManageLock ==
  /\ manager = "idle" /\ lock = "none"
  /\ lock' = "manager" /\ manager' = "locked"
  /\ UNCHANGED <<world, reset, plans, history, bounds>>
Manage ==
  /\ manager = "locked" /\ Fresh
  /\ managed' = TRUE /\ Put("state", [text |-> edits', ours |-> FALSE])
  /\ newest' = [newest EXCEPT !["state"] = edits'] /\ Late("state")
  /\ manager' = "idle" /\ Unlock("manager")
  /\ UNCHANGED <<scheduled, reset, plans, saved, resets>>
(* It fails before it has written.                                         *)
Release ==
  /\ manager = "locked"
  /\ manager' = "idle" /\ Unlock("manager")
  /\ UNCHANGED <<world, reset, plans, history, bounds>>

Edit(x) ==
  /\ Fresh
  /\ Put(x, [text |-> edits', ours |-> FALSE])
  /\ newest' = [newest EXCEPT ![x] = edits'] /\ Late(x)
  /\ UNCHANGED <<scheduled, managed, lock, reset, plans, manager, saved, resets>>
(* A reset that dies is not taken up by anything.                          *)
Crash ==
  /\ Active /\ resets' = resets + 1
  /\ EndReset
  /\ UNCHANGED <<world, plans, manager, history, edits>>

Init ==
  /\ file = [x \in Places |-> IF x = "profile" THEN None ELSE [text |-> 1, ours |-> FALSE]]
  /\ scheduled = TRUE /\ managed = FALSE /\ lock = "none"
  /\ pc = "idle" /\ at = 1 /\ seen = Nothing /\ copy = Nothing /\ complete = FALSE
  /\ plan = "none" /\ op = 1 /\ planned = Nothing /\ manager = "idle"
  /\ newest = [x \in Places |-> file[x].text] /\ saved = [x \in Places |-> {}] /\ late = {}
  /\ edits = 1 /\ resets = 0

Next ==
  \/ Preview \/ Decline \/ Lock \/ Check \/ Pause \/ Backup \/ Manifest \/ Clear \/ Write
  \/ Activate \/ Fail \/ Restore \/ Refill \/ Resume \/ Crash
  \/ Plan("init") \/ Plan("doctor") \/ Apply \/ EndPlan
  \/ ManageLock \/ Manage \/ Release
  \/ \E x \in {"config", "hook", "profile"} : Edit(x)
Spec == Init /\ [][Next]_vars

(***************************************************************************)
(* Properties                                                              *)
(***************************************************************************)
TypeOK ==
  /\ \A f \in {file, seen, copy, planned} :
       f \in [Places -> [text : 0..MaxEvent, ours : BOOLEAN]]
  /\ scheduled \in BOOLEAN /\ managed \in BOOLEAN /\ complete \in BOOLEAN
  /\ lock \in {"reset", "manager", "none"} /\ manager \in {"idle", "locked"}
  /\ pc \in PCs /\ at \in 1..(Len(Snapshots) + 1)
  /\ plan \in {"none", "init", "doctor"} /\ op \in 1..5

(* Setting up and resetting while the user edits the same files: a reset   *)
(* never clears a state with managed objects in it; what anybody wrote is  *)
(* at its place or in a complete backup, unless it was written after the   *)
(* reset had copied that place; and a reset that ends with its schedule    *)
(* has rebuilt every place, or has put every place back (README.md:49),    *)
(* again but for the places that others wrote meanwhile.                   *)
Kept(x) == x \in late \/ newest[x] \in saved[x] \cup {file[x].text}
ResetsAreWhole ==
  /\ [](\A x \in Places : Kept(x))
  /\ [][/\ pc = "clear" /\ pc' # "idle" => ~managed
        /\ pc = "activate" /\ pc' = "idle" /\ scheduled' =>
             \A x \in Places \ late : file[x].ours /\ newest[x] \in saved[x] \cup {file[x].text}
        /\ pc = "resume" /\ pc' = "idle" /\ resets' = resets =>
             scheduled' /\ (complete => \A x \in Places \ late : file[x] = copy[x])]_vars
===============================================================================
