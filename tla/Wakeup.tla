-------------------------------- MODULE Wakeup --------------------------------
(***************************************************************************)
(* What starts the workers of Reconcile and what watches them: the hooks   *)
(* of the coding agents and the kick (internal/hook, internal/kick), the   *)
(* scheduler, the rows of reconcile_runs (store/reconcile_runs.go) and the *)
(* watchdog (internal/watchdog), wired together in                         *)
(* internal/cli/worker_commands.go.                                        *)
(*                                                                         *)
(* A run is modelled by its row, the lock and its outcome.  A slot is a    *)
(* day, and an interval of the scheduler.                                  *)
(***************************************************************************)
EXTENDS Integers

CONSTANTS
  Workers,    \* the processes that run "reconcile --once"
  None,       \* nobody (model value)
  MaxSlot,    \* bound: days
  MaxFault    \* bound: workers that die or do not start, commands at work

VARIABLES
  latest,     \* the run that LatestReconcileRun returns
  success,    \* the slot of the newest successful run, 0 if none
  queued,     \* slot of a failed run -> slot in which its notification was queued, 0 if none
  alerts,     \* what the watchdog has alerted of in this slot
  lock,       \* who holds activation.lock
  marker,     \* kick.pending
  pc, run,    \* of each worker: where it is; the slot it started in and its outcome
  hook,       \* the hook of a session that starts
  slot, faults

rows == <<latest, success, queued, alerts>>
work == <<pc, run>>
env == <<slot, faults>>
vars == <<rows, lock, marker, work, hook, env>>

NoRun == [slot |-> 0, status |-> "running"]
PCs == {"idle", "lock", "run", "finish", "report"}
Goto(w, to) == pc' = [pc EXCEPT ![w] = to]
Rest(w) == Goto(w, "idle") /\ run' = [run EXCEPT ![w] = NoRun]

(***************************************************************************)
(* Hooks and kicks                                                         *)
(***************************************************************************)
(* reconcileDue: the newest success is at least an interval old.           *)
Due == success < slot

SessionStart ==
  /\ hook = "idle" /\ Due
  /\ hook' = "queue"
  /\ UNCHANGED <<rows, lock, marker, work, env>>

\* mutant: a marker is never stale
FindStale_Never == FALSE /\ UNCHANGED vars
(* kick.Queue: O_EXCL decides who starts the worker; a marker less than    *)
(* two minutes old stands for a worker under way; an older one is removed, *)
(* if a worker has not just done so, and created again.                    *)
CreateMarker ==
  /\ \/ hook = "queue" /\ marker = "none"
     \/ hook = "replace"
  /\ marker' = "fresh" /\ hook' = "start"
  /\ UNCHANGED <<rows, lock, work, env>>
AlreadyQueued ==
  /\ hook = "queue" /\ marker = "fresh"
  /\ hook' = "idle"
  /\ UNCHANGED <<rows, lock, marker, work, env>>
FindStale ==
  /\ hook = "queue" /\ marker = "stale"
  /\ hook' = "replace"
  /\ UNCHANGED <<rows, lock, marker, work, env>>

(***************************************************************************)
(* Runs                                                                    *)
(***************************************************************************)
(* The process inserts the row of its run.                                 *)
Begin(w) ==
  /\ pc[w] = "idle"
  /\ latest' = [status |-> "running", slot |-> slot]
  /\ Goto(w, "lock") /\ run' = [run EXCEPT ![w].slot = slot]
  /\ UNCHANGED <<success, queued, alerts, lock, marker>>
Scheduled(w) == Begin(w) /\ UNCHANGED <<hook, env>>
StartDetached(w) ==
  /\ hook = "start" /\ hook' = "idle"
  /\ Begin(w) /\ UNCHANGED env
(* The marker stays.                                                       *)
StartFails ==
  /\ hook = "start" /\ hook' = "idle"
  /\ faults < MaxFault /\ faults' = faults + 1
  /\ UNCHANGED <<rows, lock, marker, work, slot>>

(* Whoever gets the lock clears the marker.                                *)
TryLock(w) ==
  /\ pc[w] = "lock"
  /\ IF lock = None
     THEN lock' = w /\ marker' = "none" /\ Goto(w, "run") /\ UNCHANGED run
     ELSE /\ Goto(w, "finish") /\ run' = [run EXCEPT ![w].status = "incomplete"]
          /\ UNCHANGED <<lock, marker>>
  /\ UNCHANGED <<rows, hook, env>>
(* The lock is free before the row is finished.                            *)
Run(w) ==
  /\ pc[w] = "run"
  /\ \E status \in {"succeeded", "incomplete", "failed"} : run' = [run EXCEPT ![w].status = status]
  /\ lock' = None
  /\ Goto(w, "finish")
  /\ UNCHANGED <<rows, marker, hook, env>>

(* The newest row is the one that was last begun or finished.              *)
FinishRun(w) ==
  /\ pc[w] = "finish"
  /\ latest' = [status |-> run[w].status, slot |-> slot]
  /\ success' = IF run[w].status = "succeeded" THEN slot ELSE success
  /\ IF run[w].status = "failed" THEN Goto(w, "report") /\ UNCHANGED run ELSE Rest(w)
  /\ UNCHANGED <<queued, alerts, lock, marker, hook, env>>
(* QueueNotification: one for the slot in which the run started.           *)
ReportRun(w) ==
  /\ pc[w] = "report"
  /\ queued' = [queued EXCEPT ![run[w].slot] = IF @ = 0 THEN slot ELSE @]
  /\ Rest(w)
  /\ UNCHANGED <<latest, success, alerts, lock, marker, hook, env>>

Crash(w) ==
  /\ pc[w] # "idle" /\ faults < MaxFault
  /\ faults' = faults + 1
  /\ lock' = IF lock = w THEN None ELSE lock
  /\ Rest(w)
  /\ UNCHANGED <<rows, marker, hook, slot>>

(* Another command has the lock for a while.                               *)
Command ==
  /\ lock = None /\ faults < MaxFault
  /\ lock' = "command" /\ faults' = faults + 1
  /\ UNCHANGED <<rows, marker, work, hook, slot>>
CommandEnds ==
  /\ lock = "command" /\ lock' = None
  /\ UNCHANGED <<rows, marker, work, hook, env>>

(***************************************************************************)
(* The watchdog                                                            *)
(***************************************************************************)
Healthy == latest.status = "succeeded" /\ latest.slot = slot
Reason ==
  CASE latest.status = "none" -> "missing_run"
    [] latest.status = "failed" -> "failed_run"
    [] latest.status \in {"running", "incomplete"} -> "unfinished_run"
    [] OTHER -> "stale_run"
\* mutant: any day's notification will do
AlreadyNotified_EverBefore == \E s \in DOMAIN queued : queued[s] # 0
(* A failed run needs no alert when a notification was queued this day.    *)
AlreadyNotified == \E s \in DOMAIN queued : queued[s] = slot
Check ==
  /\ ~Healthy
  /\ ~(Reason = "failed_run" /\ AlreadyNotified)
  /\ Reason \notin alerts /\ alerts' = alerts \cup {Reason}
  /\ UNCHANGED <<latest, success, queued, lock, marker, work, hook, env>>

NextSlot ==
  /\ slot < MaxSlot /\ slot' = slot + 1
  /\ alerts' = {}
  /\ UNCHANGED <<latest, success, queued, lock, marker, work, hook, faults>>
MarkerAges ==
  /\ marker = "fresh" /\ marker' = "stale"
  /\ UNCHANGED <<rows, lock, work, hook, env>>

(***************************************************************************)
(* The specification                                                       *)
(***************************************************************************)
Init ==
  /\ latest = [status |-> "none", slot |-> 0] /\ success = 0
  /\ queued = [s \in 1..MaxSlot |-> 0] /\ alerts = {}
  /\ lock = None /\ marker = "none"
  /\ pc = [w \in Workers |-> "idle"] /\ run = [w \in Workers |-> NoRun]
  /\ hook = "idle"
  /\ slot = 1 /\ faults = 0

Kick ==
  \/ SessionStart \/ CreateMarker \/ AlreadyQueued \/ FindStale
  \/ StartFails \/ \E w \in Workers : StartDetached(w)
Step(w) ==
  TryLock(w) \/ Run(w) \/ FinishRun(w) \/ ReportRun(w)
Next ==
  \/ \E w \in Workers : Scheduled(w) \/ Step(w) \/ Crash(w)
  \/ Kick \/ Command \/ CommandEnds \/ Check \/ NextSlot \/ MarkerAges

(* A process that runs goes on, the watchdog is checked and sessions start *)
(* again and again, and time passes.  Nothing is assumed of the scheduler. *)
Fairness ==
  /\ WF_vars(Check) /\ WF_vars(Kick) /\ WF_vars(MarkerAges) /\ WF_vars(CommandEnds)
  /\ \A w \in Workers : WF_vars(Step(w))
Spec == Init /\ [][Next]_vars /\ Fairness

TypeOK ==
  /\ latest.status \in {"none", "running", "succeeded", "incomplete", "failed"}
  /\ success \in 0..MaxSlot /\ queued \in [1..MaxSlot -> 0..MaxSlot]
  /\ alerts \subseteq {"missing_run", "failed_run", "unfinished_run", "stale_run"}
  /\ lock \in Workers \cup {None, "command"} /\ marker \in {"none", "fresh", "stale"}
  /\ pc \in [Workers -> PCs]
  /\ hook \in {"idle", "queue", "replace", "start"}

(* Whatever becomes of the scheduler and of the workers, the user is told  *)
(* of a day without a successful run (README.md: 97): by a notification of *)
(* this day, or by an alert.  The watchdog must not rely on a notification *)
(* of an earlier day, which the same failure may have queued.              *)
ToldToday == alerts # {} \/ \E s \in DOMAIN queued : queued[s] = slot
MissedRunsAreTold == (slot = MaxSlot /\ ~Healthy) ~> (Healthy \/ ToldToday)

(* Without a scheduler a session that starts when a run is due leads to a  *)
(* run, although a kick may meet the marker of one that never started a    *)
(* worker, or whose worker found the lock taken (kick.go: 43, "A later     *)
(* SessionStart retries it after the short stale window").                 *)
KicksGoThrough == Due ~> (~Due \/ \E w \in Workers : pc[w] = "run")
=============================================================================
