------------------------------ MODULE Reconcile ------------------------------
(***************************************************************************)
(* The reconcile worker and its task queue: internal/reconcile/worker.go,  *)
(* the task, hook-event and notification tables of internal/store.  What   *)
(* starts and watches the workers is modelled in Wakeup: here one may      *)
(* start at any time.                                                      *)
(*                                                                         *)
(* Workers exclude one another, and every other mutating command, through  *)
(* the activation lock, which the system frees when its owner dies; all    *)
(* the rest they know is in the database.  Each action is one statement or *)
(* one transaction, so that a worker may die between any two of them.      *)
(*                                                                         *)
(* There is one item to keep up to date: a bundle (bundled) or a component *)
(* binding; the two paths of the worker are the same but for the tables    *)
(* they use and for a task whose item is ignored by now.  What a task does *)
(* is modelled by its outcome: BundleTxn and Activation model the rest.    *)
(* Nothing but a test enqueues a task of kind adopt_runtime_auto: it is    *)
(* left out.                                                               *)
(***************************************************************************)
EXTENDS Integers, FiniteSets

CONSTANTS
  Workers,      \* the processes that run "reconcile --once"
  None,         \* nobody (model value)
  MaxAttempts,  \* worker.go: maxAttempts
  MaxEvent,     \* bound: hook events
  MaxEdit,      \* bound: changes of the policy
  MaxFault      \* bound: workers that die, recoveries that fail, commands at work

(* worker.go: maxAttempts is 3.                                            *)
ASSUME BoundsAssumption ==
  /\ MaxAttempts \in Nat \ {0}
  /\ MaxEvent \in Nat /\ MaxEdit \in Nat /\ MaxFault \in Nat
(* Nobody is no worker, no command and no key of a task.                   *)
ASSUME NamesAssumption ==
  /\ None \notin Workers /\ "command" \notin Workers /\ None # "command"
  /\ None \notin [sig : 0..MaxEvent, at : 0..MaxEdit]

VARIABLES
  (* the database *)
  tasks,        \* idempotency key -> row, of tasks and of bundle_tasks
  notes,        \* the failures that notifications report
  events,       \* the highest id of hook_events
  acked,        \* the events up to this id have processed_at
  policy,       \* the policy of the item
  item,         \* what the item is
  (* processes *)
  lock,         \* who holds activation.lock
  pc, job,      \* of each worker
  faults,
  (* history *)
  waived        \* the highest signal scheduled while the item was ignored

signals == <<events, acked>>
state == <<policy, item>>
work == <<pc, job>>
vars == <<tasks, notes, signals, state, lock, work, faults, waived>>

Items == {"bundle", "binding"}
Modes == {"auto", "ignore"}
Policy == [mode : Modes, at : 0..MaxEdit]

(* What the idempotency key of a task is made of: the hook signal and when *)
(* the policy was last changed.  The interval of the scheduler and the     *)
(* version of the item are two more such numbers: one value of each is     *)
(* modelled.                                                               *)
Key == [sig : 0..MaxEvent, at : 0..MaxEdit]

TaskStatus == {"pending", "running", "succeeded", "failed"}
Task == [status : TaskStatus, attempts : 0..(MaxAttempts + MaxFault + 1)]
NewTask == [status |-> "pending", attempts |-> 0]

(* What makes a notification unique: the key of the task that failed, the  *)
(* interval of the run that failed.                                        *)
TaskNote(key) == [of |-> "task", key |-> key]
RunNote == [of |-> "run", key |-> None]

(* What a worker remembers of its run: the hook signal, the task at hand,  *)
(* and its counters as far as they matter.                                 *)
NoJob == [sig |-> 0, key |-> None, ended |-> "no"]
PCs == {"idle", "lock", "inspect", "schedule", "mark", "claim", "execute",
        "notify", "finish"}

Enqueued(key) == key \in DOMAIN tasks
Failed == {key \in DOMAIN tasks : tasks[key].status = "failed"}

Goto(w, to) == pc' = [pc EXCEPT ![w] = to]
Remember(w, field, value) == job' = [job EXCEPT ![w][field] = value]
SetTask(key, row) == tasks' = [tasks EXCEPT ![key] = row]
(* How the run ends, the worst that happened: an error, a failed task, a   *)
(* task put back.                                                          *)
Worse(old, new) ==
  IF old \in {"error", "failed"} \/ (old = "retried" /\ new # "failed") THEN old ELSE new

(***************************************************************************)
(* A run: RunOnce                                                          *)
(***************************************************************************)
(* The process starts and inserts its row of reconcile_runs.               *)
Begin(w) ==
  /\ pc[w] = "idle"
  /\ Goto(w, "lock")
  /\ UNCHANGED <<tasks, notes, signals, state, lock, job, faults, waived>>

\* mutant: a worker does not respect the lock
TryLock_Anyway(w) ==
  /\ pc[w] = "lock"
  /\ lock' = w
  /\ Goto(w, "inspect")
  /\ UNCHANGED <<tasks, notes, signals, state, job, faults, waived>>
TryLock(w) ==
  /\ pc[w] = "lock" /\ lock = None
  /\ lock' = w
  /\ Goto(w, "inspect")
  /\ UNCHANGED <<tasks, notes, signals, state, job, faults, waived>>
(* Somebody else is at work: the run is incomplete.                        *)
AlreadyRunning(w) ==
  /\ pc[w] = "lock" /\ lock # None
  /\ Goto(w, "idle") /\ job' = [job EXCEPT ![w] = NoJob]
  /\ UNCHANGED <<tasks, notes, signals, state, lock, faults, waived>>

(* The deferred Close of the lock.                                         *)
Leave(w) == lock' = None /\ Goto(w, "finish")

(* Recoveries, then the inventory scan: whichever fails ends the run.      *)
Inspect(w) ==
  /\ pc[w] = "inspect"
  /\ Goto(w, "schedule")
  /\ UNCHANGED <<tasks, notes, signals, state, lock, job, faults, waived>>
InspectFails(w) ==
  /\ pc[w] = "inspect"
  /\ faults < MaxFault /\ faults' = faults + 1
  /\ Leave(w) /\ Remember(w, "ended", "error")
  /\ UNCHANGED <<tasks, notes, signals, state, waived>>

(* The signal is the highest event so far.  An item that is configured     *)
(* gets a task, unless the key has one already: a failed one counts as a   *)
(* failure of this run too.                                                *)
IdempotencyKey == [sig |-> events, at |-> policy.at]
Signalled(w) == [job EXCEPT ![w].sig = events]

ScheduleNew(w) ==
  /\ policy.mode # "ignore" /\ ~Enqueued(IdempotencyKey)
  /\ tasks' = [k \in DOMAIN tasks \cup {IdempotencyKey} |->
                 IF k = IdempotencyKey THEN NewTask ELSE tasks[k]]
  /\ job' = Signalled(w)
  /\ UNCHANGED waived
\* mutant: a task enqueued before is somebody else's business
ScheduleKnown_Forgets(w) ==
  /\ policy.mode # "ignore" /\ Enqueued(IdempotencyKey)
  /\ job' = Signalled(w)
  /\ UNCHANGED <<tasks, waived>>
ScheduleKnown(w) ==
  /\ policy.mode # "ignore" /\ Enqueued(IdempotencyKey)
  /\ job' = [Signalled(w) EXCEPT ![w].ended = IF IdempotencyKey \in Failed THEN "failed" ELSE @]
  /\ UNCHANGED <<tasks, waived>>
Skip(w) ==
  /\ policy.mode = "ignore"
  /\ job' = Signalled(w)
  /\ waived' = events
  /\ UNCHANGED tasks
Schedule(w) ==
  /\ pc[w] = "schedule"
  /\ ScheduleNew(w) \/ ScheduleKnown(w) \/ Skip(w)
  /\ Goto(w, "mark")
  /\ UNCHANGED <<notes, signals, state, lock, faults>>

\* mutant: every pending event is acknowledged
Covered_AllPending(w) == events
(* The events that the signal covers are processed.                        *)
Covered(w) == job[w].sig
MarkSignals(w) ==
  /\ pc[w] = "mark"
  /\ acked' = IF Covered(w) > acked THEN Covered(w) ELSE acked
  /\ Goto(w, "claim") /\ Remember(w, "sig", 0)
  /\ UNCHANGED <<tasks, notes, events, state, lock, faults, waived>>

(***************************************************************************)
(* The task queue: ClaimTask, RetryTask, CompleteTask, FailTask            *)
(***************************************************************************)
\* mutant: the task of a worker that died stays with it
Claimable_NoReclaim == {k \in DOMAIN tasks : tasks[k].status = "pending"}
(* A claim first makes the rows whose lease has ended pending again, then  *)
(* takes a pending row that is due.  No clock is modelled: whether the     *)
(* lease of a running row has ended, and whether the retryDelay of a row   *)
(* is over, is decided here.  A row never claimed is due.                  *)
Claimable == {k \in DOMAIN tasks : tasks[k].status \in {"pending", "running"}}
MustClaim == {k \in DOMAIN tasks : tasks[k] = NewTask}

Claim(w) ==
  /\ pc[w] = "claim"
  /\ \E k \in Claimable :
       /\ SetTask(k, [status |-> "running", attempts |-> tasks[k].attempts + 1])
       /\ Remember(w, "key", k)
       /\ Goto(w, "execute")
  /\ UNCHANGED <<notes, signals, state, lock, faults, waived>>
NothingDue(w) ==
  /\ pc[w] = "claim" /\ MustClaim = {}
  /\ Leave(w)
  /\ UNCHANGED <<tasks, notes, signals, state, job, faults, waived>>

(* The task of a binding that is ignored by now is complete as it is.      *)
NothingToDo == item = "binding" /\ policy.mode = "ignore"
Holds(w, at) == pc[w] = at /\ tasks[job[w].key].status = "running"
Execute(w) ==
  /\ Holds(w, "execute")
  /\ SetTask(job[w].key, [tasks[job[w].key] EXCEPT !.status = "succeeded"])
  /\ Remember(w, "key", None)
  /\ Goto(w, "claim")
  /\ UNCHANGED <<notes, signals, state, lock, faults, waived>>

\* mutant: one attempt more
MayRetry_OneMore(row) == row.attempts <= MaxAttempts
(* A retryable error puts the task back, to be due after retryDelay, as    *)
(* long as it has not been claimed maxAttempts times.                      *)
MayRetry(row) == row.attempts < MaxAttempts
Retry(w) ==
  /\ Holds(w, "execute") /\ ~NothingToDo /\ MayRetry(tasks[job[w].key])
  /\ SetTask(job[w].key, [tasks[job[w].key] EXCEPT !.status = "pending"])
  /\ job' = [job EXCEPT ![w].key = None, ![w].ended = Worse(@, "retried")]
  /\ Goto(w, "claim")
  /\ UNCHANGED <<notes, signals, state, lock, faults, waived>>
(* An error that is final, by its kind or for want of attempts; the        *)
(* notification of the task is a statement of its own.                     *)
Fail(w) ==
  /\ Holds(w, "execute") /\ ~NothingToDo
  /\ SetTask(job[w].key, [tasks[job[w].key] EXCEPT !.status = "failed"])
  /\ Remember(w, "ended", "failed")
  /\ Goto(w, "notify")
  /\ UNCHANGED <<notes, signals, state, lock, faults, waived>>
NotifyFailure(w) ==
  /\ pc[w] = "notify"
  /\ notes' = notes \cup {TaskNote(job[w].key)}
  /\ Remember(w, "key", None)
  /\ Goto(w, "claim")
  /\ UNCHANGED <<tasks, signals, state, lock, faults, waived>>

(***************************************************************************)
(* The end of a run.  The lock is free before the run row is finished.     *)
(***************************************************************************)
(* A failed run is reported once for the interval in which it started.     *)
FinishRun(w) ==
  /\ pc[w] = "finish"
  /\ notes' = IF job[w].ended \in {"error", "failed"} THEN notes \cup {RunNote} ELSE notes
  /\ Goto(w, "idle") /\ job' = [job EXCEPT ![w] = NoJob]
  /\ UNCHANGED <<tasks, signals, state, lock, faults, waived>>

(* The process dies: the system frees its lock, its rows stay as they are. *)
Crash(w) ==
  /\ pc[w] # "idle" /\ faults < MaxFault
  /\ faults' = faults + 1
  /\ lock' = IF lock = w THEN None ELSE lock
  /\ Goto(w, "idle") /\ job' = [job EXCEPT ![w] = NoJob]
  /\ UNCHANGED <<tasks, notes, signals, state, waived>>

(***************************************************************************)
(* What the worker meets                                                   *)
(***************************************************************************)
RecordHookEvent ==
  /\ events < MaxEvent
  /\ events' = events + 1
  /\ UNCHANGED <<tasks, notes, acked, state, lock, work, faults, waived>>

(* Another command holds the lock; a change of policy is made under it.    *)
Command ==
  /\ lock = None /\ faults < MaxFault
  /\ lock' = "command" /\ faults' = faults + 1
  /\ UNCHANGED <<tasks, notes, signals, state, work, waived>>
SetPolicy ==
  /\ lock = "command" /\ policy.at < MaxEdit
  /\ policy' = [mode |-> IF policy.mode = "ignore" THEN "auto" ELSE "ignore", at |-> policy.at + 1]
  /\ UNCHANGED <<tasks, notes, signals, item, lock, work, faults, waived>>
CommandEnds ==
  /\ lock = "command" /\ lock' = None
  /\ UNCHANGED <<tasks, notes, signals, state, work, faults, waived>>

(***************************************************************************)
(* The specification                                                       *)
(***************************************************************************)
Init ==
  /\ item \in Items
  /\ policy = [mode |-> "auto", at |-> 0]
  /\ tasks = <<>>
  /\ notes = {} /\ events = 0 /\ acked = 0
  /\ lock = None
  /\ pc = [w \in Workers |-> "idle"] /\ job = [w \in Workers |-> NoJob]
  /\ faults = 0
  /\ waived = 0

Step(w) ==
  \/ TryLock(w) \/ AlreadyRunning(w) \/ Inspect(w) \/ InspectFails(w)
  \/ Schedule(w) \/ MarkSignals(w) \/ Claim(w) \/ NothingDue(w)
  \/ Execute(w) \/ Retry(w) \/ Fail(w) \/ NotifyFailure(w) \/ FinishRun(w)
Next ==
  \/ \E w \in Workers : Begin(w) \/ Step(w) \/ Crash(w)
  \/ RecordHookEvent \/ Command \/ SetPolicy \/ CommandEnds

(* A process that runs goes on, the scheduler starts a worker again and    *)
(* again, and clocks do not stop: a lease ends and a retry becomes due, so *)
(* that a task that workers keep finding unfinished is claimed.            *)
Fairness ==
  /\ \A w \in Workers : WF_vars(Step(w)) /\ WF_vars(Begin(w)) /\ SF_vars(Claim(w))
  /\ WF_vars(CommandEnds)
SafeSpec == Init /\ [][Next]_vars
Spec == SafeSpec /\ Fairness

(***************************************************************************)
(* Properties                                                              *)
(***************************************************************************)
TypeOK ==
  /\ DOMAIN tasks \subseteq Key
  /\ \A k \in DOMAIN tasks : tasks[k] \in Task
  /\ policy \in Policy /\ item \in Items
  /\ events \in 0..MaxEvent /\ acked \in 0..MaxEvent
  /\ lock \in Workers \cup {None, "command"}
  /\ pc \in [Workers -> PCs]
  /\ \A w \in Workers : lock = w <=> pc[w] \notin {"idle", "lock", "finish"}

(* The lease of a task may end while its worker is still executing it: no  *)
(* other worker can take the task then, and the row is still the worker's  *)
(* to complete, retry or fail (store/bundles.go: ClaimBundleTask).         *)
Working(w) == job[w].key # None
OneExecution ==
  /\ \A w \in Workers : Working(w) /\ pc[w] # "notify" => tasks[job[w].key].status = "running"
  /\ \A v, w \in Workers : Working(v) /\ Working(w) => v = w

(* A processed hook event has caused a task, or came when the item was not *)
(* to be updated: one that races in after the signal was read stays        *)
(* pending (worker.go: markHookSignalsProcessed).                          *)
EventsCauseTasks ==
  \A e \in 1..acked : e <= waived \/ \E k \in DOMAIN tasks : k.sig >= e

(* A source that keeps failing is asked MaxAttempts times for one key; a   *)
(* worker that dies uses up an attempt and may add one (worker.go: 401).   *)
AttemptsAreBounded ==
  \A k \in DOMAIN tasks : tasks[k].attempts <= MaxAttempts + faults

(* Every hook event is acted upon in the end, whatever worker dies or      *)
(* finds the lock taken: a task of an epoch at least as new is finished    *)
(* (worker.go: hookSignal).                                                *)
Finished(k) == tasks[k].status \in {"succeeded", "failed"}
Served(e) ==
  \/ policy.mode = "ignore"
  \/ \E k \in DOMAIN tasks : k.sig >= e /\ Finished(k)
EventsAreServed == \A e \in 1..MaxEvent : events >= e ~> Served(e)

(* A failure is never silent, although the worker may die between the row  *)
(* of the task and its notification: later runs of the same key count the  *)
(* failure again, or a later task has succeeded since (worker.go:          *)
(* scheduleBundleTasks).                                                   *)
Newer(k, than) == k.sig > than.sig \/ k.at > than.at
Told(key) ==
  \/ policy.mode = "ignore"
  \/ TaskNote(key) \in notes \/ RunNote \in notes
  \/ \E k \in DOMAIN tasks : Newer(k, key) /\ tasks[k].status = "succeeded"
Untold == {key \in Failed : ~Told(key)}
FailuresAreTold == Untold # {} ~> Untold = {}
=============================================================================
