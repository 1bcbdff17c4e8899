-------------------------------- MODULE Driver --------------------------------
(***************************************************************************)
(* What the bundle drivers of internal/bundledriver do to the machine when *)
(* internal/bundle/service.go runs them: stage every artifact, activate    *)
(* one after the other, and after a failure compensate in reverse.  Each   *)
(* command is a process that may fail or be killed by its timeout at any   *)
(* of its system calls, and is then run again; the worker may die too, and *)
(* a recovery compensates.  (BundleTxn is the same protocol seen from the  *)
(* database, with drivers that are atomic.)                                *)
(*                                                                         *)
(* What is installed at a path is "old", "new", "none" or "broken".  The   *)
(* skills that the npx lock file names are the artifacts themselves and 0, *)
(* a skill that is not the bundle's; {}: there is no lock file.            *)
(***************************************************************************)
EXTENDS Integers, FiniteSetsExt

CONSTANTS
  N,        \* artifacts of the bundle, in the order of their steps
  Retries   \* DefaultRetries: how often a command is run

(* What the bounds have to be for the theorems of DriverProofs.            *)
DriverBounds == N \in Nat \ {0} /\ Retries \in Nat \ {0}

VARIABLES
  kind,              \* of each artifact: its driver
  path, entries,     \* what is installed; the skills in .skill-lock.json
  stage,             \* of each artifact: what its staging directory holds
  status, steps,     \* the transaction and its steps in the database
  item, at, tries,   \* the running command: its artifact, its last system call, its attempt
  aside,             \* what replacePath has moved to <temporary>.old
  failures,          \* has a compensation of this process failed?
  worker,            \* the process: "update", "recovery" or "none"
  first              \* history: path and entries at the beginning

machine == <<path, entries>>
journal == <<status, steps>>
command == <<item, at, tries, aside>>
vars == <<kind, machine, stage, journal, command, failures, worker, first>>

Items == 1..N
DriverKinds == {"git", "github", "npm", "hooks"}
Installed == {"old", "new", "none", "broken"}
Ats == {"start", "reset", "fetched", "kept", "aside", "placed"}
Nothing == [next |-> "none", kept |-> "none", lock |-> {}]
Git == {i \in Items : kind[i] = "git"}
Renames(i) == kind[i] \in {"git", "github"}
Running(s) == worker # "none" /\ status = s /\ item \in Items
Start(i) == item' = i /\ at' = "start" /\ tries' = 0 /\ aside' = "none"
Reach(a) == at' = a /\ UNCHANGED <<item, tries>>
RemoveStage == stage' = [i \in Items |-> Nothing]

(***************************************************************************)
(* Staging: nothing outside the staging directory changes                  *)
(***************************************************************************)
(* resetStage: an attempt starts from nothing.                             *)
ResetStage ==
  /\ Running("staging") /\ at = "start"
  /\ stage' = [stage EXCEPT ![item] = Nothing]
  /\ Reach("reset")
  /\ UNCHANGED <<kind, machine, journal, aside, failures, worker, first>>
(* npm pack, a clone, or a release asset; what does not match its checksum *)
(* or holds no SKILL.md fails the attempt.  The hooks have nothing to get. *)
Fetch ==
  /\ Running("staging") /\ at = "reset"
  /\ stage' = [stage EXCEPT ![item].next = "new"]
  /\ Reach("fetched")
  /\ UNCHANGED <<kind, machine, journal, aside, failures, worker, first>>
BackupPath ==
  /\ Running("staging") /\ at = "fetched"
  /\ stage' = [stage EXCEPT ![item].kept = path[item]]
  /\ Reach("kept")
  /\ UNCHANGED <<kind, machine, journal, aside, failures, worker, first>>
(* The end of the command; after the last one the activation begins.       *)
BackupLock ==
  /\ Running("staging") /\ at = "kept"
  /\ stage' = [stage EXCEPT ![item].lock = IF item \in Git THEN entries ELSE {}]
  /\ IF item < N
     THEN Start(item + 1) /\ UNCHANGED journal
     ELSE Start(1) /\ status' = "activating" /\ steps' = [steps EXCEPT ![1] = "activating"]
  /\ UNCHANGED <<kind, machine, failures, worker, first>>

(***************************************************************************)
(* Activation and compensation                                             *)
(***************************************************************************)
Touched == {i \in Items : steps[i] \in {"activating", "compensating"}}
(* compensate goes from the last of the steps to the first; those that are *)
(* recorded as compensated are not in its list.                            *)
Compensate(todo) ==
  IF todo = {}
  THEN item' = 0 /\ at' = "start" /\ tries' = 0 /\ aside' = "none" /\ UNCHANGED steps
  ELSE /\ Start(Max(todo))
       /\ steps' = [steps EXCEPT ![Max(todo)] = "compensating"]
\* mutant: the step whose activation failed is not compensated
BeginCompensation_WithoutFailed ==
  status' = "rolling_back" /\ Compensate(Touched \ {item})
BeginCompensation == status' = "rolling_back" /\ Compensate(Touched)
Below == {i \in Touched : i < item}

(* The command of the step has succeeded.                                  *)
Succeed ==
  IF status = "activating"
  THEN /\ Start(item + 1)
       /\ steps' = IF item < N THEN [steps EXCEPT ![item + 1] = "activating"] ELSE steps
       /\ UNCHANGED status
  ELSE /\ IF Below = {}
          THEN /\ item' = 0 /\ at' = "start" /\ tries' = 0 /\ aside' = "none"
               /\ steps' = [steps EXCEPT ![item] = "compensated"]
          ELSE /\ Start(Max(Below))
               /\ steps' = [steps EXCEPT ![item] = "compensated", ![Max(Below)] = "compensating"]
       /\ UNCHANGED status
Active == Running("activating") \/ Running("rolling_back")
(* What is put at the path: what was staged, what was kept, or, when there *)
(* was nothing to keep, the version of the inventory, fetched once more.   *)
(* Hook files that did not exist are removed.                              *)
Source(i) ==
  IF status = "activating" THEN stage[i].next
  ELSE IF stage[i].kept = "none" /\ kind[i] # "hooks" THEN "old"
  ELSE stage[i].kept

(* replacePath: the old one aside, the new one in its place.               *)
MoveAside ==
  /\ Active /\ Renames(item) /\ at = "start"
  /\ aside' = path[item] /\ path' = [path EXCEPT ![item] = "none"]
  /\ Reach("aside")
  /\ UNCHANGED <<kind, entries, stage, journal, failures, worker, first>>
PutNext ==
  /\ Active /\ at = "aside"
  /\ path' = [path EXCEPT ![item] = Source(item)]
  /\ IF item \in Git THEN Reach("placed") /\ aside' = "none" /\ UNCHANGED journal ELSE Succeed
  /\ UNCHANGED <<kind, entries, stage, failures, worker, first>>
(* detachSkillLock, and restoreSkillLock if a copy was kept.               *)
NextEntries ==
  IF status = "rolling_back" /\ stage[item].kept # "none" THEN stage[item].lock
  ELSE entries \ {item}
WriteLock ==
  /\ Active /\ at = "placed"
  /\ entries' = NextEntries
  /\ Succeed
  /\ UNCHANGED <<kind, path, stage, failures, worker, first>>
(* npm install --global, mainline hooks install, the hook files put back.  *)
Install ==
  /\ Active /\ ~Renames(item)
  /\ path' = [path EXCEPT ![item] = Source(item)]
  /\ Succeed
  /\ UNCHANGED <<kind, entries, stage, failures, worker, first>>

(***************************************************************************)
(* A command that fails                                                    *)
(***************************************************************************)
(* What an attempt may leave: killed between its two renames it leaves     *)
(* nothing at the path, and with an error it puts the old one back; the    *)
(* tools that are called may leave anything.                               *)
Leaves ==
  IF status = "staging" \/ at = "placed" THEN {path[item]}
  ELSE IF Renames(item) THEN (IF at = "aside" THEN {"none", aside} ELSE {path[item]})
  ELSE {path[item], "broken"}
Again ==
  /\ worker # "none" /\ item \in Items /\ tries + 1 < Retries
  /\ \E left \in Leaves : path' = [path EXCEPT ![item] = left]
  /\ tries' = tries + 1 /\ at' = "start" /\ aside' = "none"
  /\ UNCHANGED <<kind, entries, stage, journal, item, failures, worker, first>>
Fail ==
  /\ worker # "none" /\ item \in Items /\ tries + 1 = Retries
  /\ \E left \in Leaves : path' = [path EXCEPT ![item] = left]
  /\ \/ /\ status = "staging"
        /\ status' = "failed" /\ RemoveStage
        /\ item' = 0 /\ at' = "start" /\ tries' = 0 /\ aside' = "none"
        /\ worker' = "none"
        /\ UNCHANGED <<steps, failures>>
     \/ /\ status = "activating" /\ BeginCompensation
        /\ UNCHANGED <<stage, failures, worker>>
     \/ /\ status = "rolling_back" /\ Compensate(Below)
        /\ failures' = TRUE
        /\ UNCHANGED <<status, stage, worker>>
  /\ UNCHANGED <<kind, entries, first>>
(* A health check, or the commit itself, fails.                            *)
HealthFails ==
  /\ worker # "none" /\ status = "activating" /\ item > N
  /\ BeginCompensation
  /\ UNCHANGED <<kind, machine, stage, failures, worker, first>>

(***************************************************************************)
(* The end of the transaction, and the worker                              *)
(***************************************************************************)
End(s) == status' = s /\ RemoveStage /\ worker' = "none"
Commit ==
  /\ worker # "none" /\ status = "activating" /\ item > N
  /\ End("committed")
  /\ Start(0)
  /\ UNCHANGED <<kind, machine, steps, failures, first>>
(* A compensation that failed: an update gives up, a recovery leaves the   *)
(* transaction to the next one.                                            *)
Finish ==
  /\ worker # "none" /\ status = "rolling_back" /\ item = 0
  /\ IF ~failures THEN End("rolled_back")
     ELSE IF worker = "update" THEN End("failed")
     ELSE worker' = "none" /\ UNCHANGED <<status, stage>>
  /\ failures' = FALSE
  /\ UNCHANGED <<kind, machine, steps, command, first>>

(* The command that runs is taken to end with its worker.                  *)
Crash ==
  /\ worker # "none"
  /\ IF item \in Items THEN \E left \in Leaves : path' = [path EXCEPT ![item] = left]
     ELSE UNCHANGED path
  /\ Start(0)
  /\ worker' = "none" /\ failures' = FALSE
  /\ UNCHANGED <<kind, entries, stage, journal, first>>
Unfinished == status \in {"staging", "activating", "rolling_back"}
Recover ==
  /\ worker = "none" /\ Unfinished
  /\ \/ status = "staging" /\ End("failed") /\ UNCHANGED <<command, steps>>
     \/ status # "staging" /\ BeginCompensation /\ worker' = "recovery" /\ UNCHANGED stage
  /\ UNCHANGED <<kind, machine, failures, first>>

Init ==
  /\ kind \in [Items -> DriverKinds]
  /\ path \in [Items -> {"old", "none"}] /\ entries \in {{}, Items \cup {0}}
  /\ first = [path |-> path, entries |-> entries]
  /\ stage = [i \in Items |-> Nothing]
  /\ status = "staging" /\ steps = [i \in Items |-> "staged"]
  /\ item = 1 /\ at = "start" /\ tries = 0 /\ aside = "none"
  /\ failures = FALSE /\ worker = "update"

Next ==
  \/ ResetStage \/ Fetch \/ BackupPath \/ BackupLock
  \/ MoveAside \/ PutNext \/ WriteLock \/ Install
  \/ Again \/ Fail \/ HealthFails \/ Commit \/ Finish \/ Crash \/ Recover
Spec == Init /\ [][Next]_vars

(***************************************************************************)
(* Properties                                                              *)
(***************************************************************************)
TypeOK ==
  /\ path \in [Items -> Installed] /\ entries \subseteq 0..N
  /\ stage \in [Items -> [next : Installed, kept : Installed, lock : SUBSET (0..N)]]
  /\ status \in {"staging", "activating", "rolling_back", "committed", "rolled_back", "failed"}
  /\ steps \in [Items -> {"staged", "activating", "compensating", "compensated"}]
  /\ item \in 0..(N + 1) /\ at \in Ats /\ tries \in 0..(Retries - 1) /\ aside \in Installed
  /\ failures \in BOOLEAN /\ worker \in {"update", "recovery", "none"}

(* However its commands fail, are killed, run again or are recovered, a    *)
(* transaction ends with every artifact new, or with every artifact as it  *)
(* was, the skill lock with them; an artifact that was not there is then   *)
(* installed at the version of the inventory (the hook files are removed). *)
(* One that gave up has lost only artifacts whose own compensation failed, *)
(* and until it ends what was installed can still be put back              *)
(* (bundledriver/driver.go, bundle/service.go).                            *)
Was(i) ==
  path[i] = first.path[i] \/ (first.path[i] = "none" /\ kind[i] # "hooks" /\ path[i] = "old")
TransactionIsWhole ==
  /\ status = "committed" =>
       /\ \A i \in Items : path[i] = "new"
       /\ entries = first.entries \ Git
  /\ status = "rolled_back" =>
       /\ \A i \in Items : Was(i)
       /\ \A i \in {0} \cup {j \in Git : first.path[j] = "old"} :
            i \in entries <=> i \in first.entries
  /\ status = "failed" => \A i \in Items : steps[i] \in {"staged", "compensated"} => Was(i)
  /\ Unfinished => \A i \in Items :
       first.path[i] = "old" => path[i] = "old" \/ stage[i].kept = "old"
===============================================================================
