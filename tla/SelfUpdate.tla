------------------------------ MODULE SelfUpdate ------------------------------
(***************************************************************************)
(* The self-update of internal/selfupdate: a signed release is staged in a *)
(* state directory by "self update" and put over the executable by the     *)
(* next command that runs with that directory (internal/cli/app.go), under *)
(* a lock beside the executable.                                           *)
(*                                                                         *)
(* A release is its sequence; the executable, its backup and the staged    *)
(* files are known by the release they hold (the code compares SHA-256).   *)
(* Several state directories may share one executable.                     *)
(***************************************************************************)
EXTENDS Integers, FiniteSetsExt

CONSTANTS
  Procs,       \* processes that run commands
  Dirs,        \* state directories
  None,        \* nobody (model value)
  MaxRelease,  \* bound: releases that are published
  MaxFault     \* bound: commands that die, installations by the user

(* What the constants have to be for the theorems of SelfUpdateProofs.     *)
UpdateBounds == MaxRelease \in Nat \ {0} /\ None \notin Procs /\ None \notin Dirs

VARIABLES
  live, previous,  \* the executable and executable.previous (0: there is none)
  origin,          \* history: the directory that the executable was updated from, None if installed by hand
  seq,             \* of each directory: self-update/sequence
  pending,         \* of each directory: pending.json (0: there is none)
  staged,          \* of each directory: the releases whose binary and envelope are beside it
  lock,            \* who holds .tooltend.self-update.lock
  pc, job,         \* of each process: where it is and what it has read
  faults

exe == <<live, previous, origin>>
dirs == <<seq, pending, staged>>
work == <<pc, job>>
vars == <<exe, dirs, lock, work, faults>>

Release == 1..MaxRelease
PCs == {"idle", "apply", "decide", "backup", "replace", "sequence", "clean",
        "confirm", "check", "pending"}
\* built: the sequence compiled into the running program.  target: the release
\* being staged or applied.  seen: the executable when its hash was taken
\* (history: 0 once the user has replaced it).
NoJob == [dir |-> None, built |-> 0, target |-> 0, seen |-> 0]
Goto(p, to) == pc' = [pc EXCEPT ![p] = to]
End(p) == Goto(p, "idle") /\ job' = [job EXCEPT ![p] = NoJob]
Unlock == lock' = None
(* currentSequence: the newer of what runs and what is recorded.           *)
CurrentOf(j) == Max({j.built, seq[j.dir]})
Current(p) == CurrentOf(job[p])
(* Verifier.Verify: a manifest must be newer than that.                    *)
Accepted(p, r) == r > Current(p)

(***************************************************************************)
(* Every command applies what is pending first                             *)
(***************************************************************************)
(* The command itself: "self update" asks the server (Prepare), which may  *)
(* answer with any release, and shows a newer one; others do nothing here. *)
Runs(p, j) ==
  \/ End(p)
  \/ /\ \E r \in Release :
          r > CurrentOf(j) /\ job' = [job EXCEPT ![p] = [j EXCEPT !.target = r, !.seen = 0]]
     /\ Goto(p, "confirm")

(* A look without the lock: with nothing pending the command just runs.    *)
Command(p, d) ==
  /\ pc[p] = "idle"
  /\ LET j == [NoJob EXCEPT !.dir = d, !.built = live]
     IN  IF pending[d] = 0 THEN Runs(p, j) ELSE Goto(p, "apply") /\ job' = [job EXCEPT ![p] = j]
  /\ UNCHANGED <<exe, dirs, lock, faults>>

(* The lock is polled; pending.json is read again under it.                *)
ApplyLock(p) ==
  /\ pc[p] = "apply" /\ lock = None
  /\ IF pending[job[p].dir] = 0
     THEN Runs(p, job[p]) /\ UNCHANGED lock
     ELSE /\ lock' = p /\ Goto(p, "decide")
          /\ job' = [job EXCEPT ![p].target = pending[job[p].dir]]
  /\ UNCHANGED <<exe, dirs, faults>>

\* mutant: a recorded release is taken for a replay
Usable_NotRecorded(p) ==
  Accepted(p, job[p].target) /\ job[p].target \in staged[job[p].dir]
(* A pending release that is already recorded must be the executable; one  *)
(* that is newer must verify.                                              *)
Usable(p) ==
  LET r == job[p].target IN
  \/ r = Current(p) /\ live = r
  \/ Accepted(p, r) /\ r \in staged[job[p].dir]
\* mutant: no comparison of the executable with the staged release
AlreadyLive_NotCompared(p) == live = job[p].target /\ job[p].target = Current(p)
AlreadyLive(p) == live = job[p].target

\* mutant: the lock is kept when the release is refused
Refuse_Locked(p) ==
  /\ pc[p] = "decide" /\ ~Usable(p)
  /\ End(p)
  /\ UNCHANGED <<exe, dirs, lock, faults>>
Refuse(p) ==
  /\ pc[p] = "decide" /\ ~Usable(p)
  /\ Unlock /\ End(p)
  /\ UNCHANGED <<exe, dirs, faults>>
Compare(p) ==
  /\ pc[p] = "decide" /\ Usable(p)
  /\ job' = [job EXCEPT ![p].seen = live]
  /\ Goto(p, IF AlreadyLive(p) THEN "sequence" ELSE "backup")
  /\ UNCHANGED <<exe, dirs, lock, faults>>
(* The executable is linked or copied beside its backup, then renamed.     *)
Backup(p) ==
  /\ pc[p] = "backup"
  /\ previous' = live
  /\ Goto(p, "replace")
  /\ UNCHANGED <<live, origin, dirs, lock, job, faults>>
Replace(p) ==
  /\ pc[p] = "replace"
  /\ live' = job[p].target /\ origin' = job[p].dir
  /\ Goto(p, "sequence")
  /\ UNCHANGED <<previous, dirs, lock, job, faults>>

(* finalizePending: the sequence, then pending.json and the files (files   *)
(* that a crash leaves are never read again).                              *)
CommitSequence(p) ==
  /\ pc[p] = "sequence"
  /\ seq' = [seq EXCEPT ![job[p].dir] = job[p].target]
  /\ Goto(p, "clean")
  /\ UNCHANGED <<exe, pending, staged, lock, job, faults>>
RemovePending(p) ==
  /\ pc[p] = "clean"
  /\ pending' = [pending EXCEPT ![job[p].dir] = 0]
  /\ staged' = [staged EXCEPT ![job[p].dir] = @ \ {job[p].target}]
  /\ Unlock /\ Runs(p, job[p])
  /\ UNCHANGED <<exe, seq, faults>>

(***************************************************************************)
(* "self update" after its preview                                         *)
(***************************************************************************)
Decline(p) ==
  /\ pc[p] = "confirm" /\ End(p)
  /\ UNCHANGED <<exe, dirs, lock, faults>>
StageLock(p) ==
  /\ pc[p] = "confirm" /\ lock = None
  /\ lock' = p /\ Goto(p, "check")
  /\ UNCHANGED <<exe, dirs, job, faults>>
(* StagePrepared verifies the envelope of the preview again and leaves a   *)
(* release that is pending alone, if only to report it as staged.          *)
StageChecks(p) == Accepted(p, job[p].target) /\ pending[job[p].dir] = 0
(* Refused, already staged, or the download failed.                        *)
StageEnds(p) ==
  /\ pc[p] = "check"
  /\ Unlock /\ End(p)
  /\ UNCHANGED <<exe, dirs, faults>>
(* Stage and the write of the envelope.                                    *)
StageFiles(p) ==
  /\ pc[p] = "check" /\ StageChecks(p)
  /\ staged' = [staged EXCEPT ![job[p].dir] = @ \cup {job[p].target}]
  /\ Goto(p, "pending")
  /\ UNCHANGED <<exe, seq, pending, lock, job, faults>>
WritePending(p) ==
  /\ pc[p] = "pending"
  /\ pending' = [pending EXCEPT ![job[p].dir] = job[p].target]
  /\ Unlock /\ End(p)
  /\ UNCHANGED <<exe, seq, staged, faults>>

(***************************************************************************)
(* The world                                                               *)
(***************************************************************************)
Fault == faults < MaxFault /\ faults' = faults + 1
(* The user installs a release by hand.                                    *)
Install ==
  /\ Fault
  /\ live' \in Release \ {live} /\ origin' = None
  /\ job' = [p \in Procs |-> [job[p] EXCEPT !.seen = 0]]
  /\ UNCHANGED <<previous, dirs, lock, pc>>
(* A process that dies; a step of it that fails ends it the same way.       *)
Crash(p) ==
  /\ pc[p] # "idle" /\ Fault
  /\ End(p)
  /\ lock' = IF lock = p THEN None ELSE lock
  /\ UNCHANGED <<exe, dirs>>

Init ==
  /\ live = 1 /\ previous = 0 /\ origin = None
  /\ seq = [d \in Dirs |-> 0] /\ pending = [d \in Dirs |-> 0] /\ staged = [d \in Dirs |-> {}]
  /\ lock = None
  /\ pc = [p \in Procs |-> "idle"] /\ job = [p \in Procs |-> NoJob]
  /\ faults = 0

Step(p) ==
  \/ ApplyLock(p) \/ Refuse(p) \/ Compare(p) \/ Backup(p) \/ Replace(p)
  \/ CommitSequence(p) \/ RemovePending(p)
  \/ Decline(p) \/ StageLock(p) \/ StageEnds(p) \/ StageFiles(p) \/ WritePending(p)
Next ==
  \/ \E p \in Procs : Step(p) \/ Crash(p) \/ \E d \in Dirs : Command(p, d)
  \/ Install

(* A process goes on, the lock is polled until it is free, and commands    *)
(* keep coming in every directory: the scheduler starts the watchdog, one  *)
(* of the commands that apply, every day.                                  *)
Fairness ==
  /\ \A p \in Procs : WF_vars(Step(p)) /\ SF_vars(ApplyLock(p))
  /\ \A d \in Dirs : SF_vars(\E p \in Procs : Command(p, d))
SafeSpec == Init /\ [][Next]_vars
Spec == SafeSpec /\ Fairness

(***************************************************************************)
(* Properties                                                              *)
(***************************************************************************)
TypeOK ==
  /\ live \in Release /\ previous \in 0..MaxRelease /\ origin \in Dirs \cup {None}
  /\ seq \in [Dirs -> 0..MaxRelease] /\ pending \in [Dirs -> 0..MaxRelease]
  /\ staged \in [Dirs -> SUBSET Release]
  /\ lock \in Procs \cup {None} /\ pc \in [Procs -> PCs]
  /\ \A p \in Procs : lock = p <=> pc[p] \notin {"idle", "apply", "confirm"}
  /\ job \in [Procs -> [dir : Dirs \cup {None}, built : 0..MaxRelease,
                        target : 0..MaxRelease, seen : 0..MaxRelease]]

(* An update never puts an older release over a newer one, however         *)
(* commands of a directory overlap, die and try again, unless the newer    *)
(* one came from elsewhere after the process had started (its sequence is  *)
(* recorded in another directory, or nowhere).  What it replaces is at     *)
(* executable.previous, and a retry after a crash never puts the release   *)
(* it installs there (manager.go, ApplyPending).                           *)
UpdatesGoForward ==
  [][\A p \in Procs : pc[p] # pc'[p] =>
       /\ live' # live => previous = live \/ live # job[p].seen
       /\ live' < live => origin # job[p].dir /\ job[p].built < live
       /\ previous' # previous => live # job[p].target \/ live # job[p].seen]_vars

(* What is pending in a directory is applied in the end, although any      *)
(* command may die at any step of it.  The exception: an executable from   *)
(* elsewhere that is not the pending release, while a release as new is    *)
(* installed or recorded.  Then every command of the directory is refused  *)
(* until the user removes pending.json ("pending release is stale").       *)
Stuck(d) == origin # d /\ live # pending[d] /\ pending[d] <= Max({live, seq[d]})
EveryUpdateSettles ==
  \A d \in Dirs : pending[d] # 0 ~> pending[d] = 0 \/ Stuck(d)
=============================================================================
