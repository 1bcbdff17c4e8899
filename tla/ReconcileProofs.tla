--------------------------- MODULE ReconcileProofs ---------------------------
(***************************************************************************)
(* Theorems about Reconcile, for every number of workers, attempts, hook   *)
(* events, changes of the policy and faults, none of which needs its       *)
(* fairness; and about the services of MCServices, which move by turns.    *)
(***************************************************************************)
EXTENDS MCServices, TLAPS

(* Where a worker holds the lock, and where it has a task at hand.         *)
Inside == {"inspect", "schedule", "mark", "claim", "execute", "notify"}
AtTask == {"execute", "notify"}

(* The types that TypeOK leaves out: what a worker remembers, the bounds   *)
(* of the counters, and rows whose attempts are not bounded yet.           *)
Endings == {"no", "error", "failed", "retried"}
Job == [sig : 0..MaxEvent, key : Key \cup {None}, ended : Endings]
JobsOK == job \in [Workers -> Job]
StateOK ==
  /\ policy \in Policy /\ item \in Items
  /\ events \in 0..MaxEvent /\ faults \in 0..MaxFault
  /\ acked \in 0..events /\ waived \in 0..events
LockOK ==
  /\ lock \in Workers \cup {None, "command"}
  /\ pc \in [Workers -> PCs]
  /\ \A w \in Workers : lock = w <=> pc[w] \in Inside
Row == [status : TaskStatus, attempts : Nat]
RowsOK ==
  /\ DOMAIN tasks \subseteq Key
  /\ \A k \in DOMAIN tasks : tasks[k] \in Row

(* A worker has a task exactly while it executes it or reports its         *)
(* failure, and the row says which of the two.                             *)
TaskAtHand ==
  \A w \in Workers :
    /\ pc[w] \notin AtTask => job[w].key = None
    /\ pc[w] \in AtTask => job[w].key \in DOMAIN tasks
    /\ pc[w] = "execute" => tasks[job[w].key].status = "running"

(* The signal that a worker has scheduled for and will acknowledge next    *)
(* has caused a task, and so has the last one that was acknowledged.       *)
Caused == {sig \in 0..MaxEvent : sig <= waived \/ \E k \in DOMAIN tasks : k.sig >= sig}
SignalsCaused ==
  /\ acked \in Caused
  /\ \A w \in Workers : job[w].sig <= events
  /\ \A w \in Workers : pc[w] = "mark" => job[w].sig \in Caused

(* A row that is pending was put back with attempts to spare; one that is  *)
(* running without a worker has lost it to a fault, which pays for the     *)
(* attempt of the claim that finds it.                                     *)
Held(k) == \E w \in Workers : pc[w] = "execute" /\ job[w].key = k
AttemptsPaid ==
  \A k \in DOMAIN tasks :
    /\ tasks[k].attempts <= MaxAttempts + faults
    /\ tasks[k].status = "pending" => tasks[k].attempts < MaxAttempts
    /\ tasks[k].status = "running" /\ ~Held(k) => tasks[k].attempts < MaxAttempts + faults

ReconcileInv ==
  JobsOK /\ StateOK /\ LockOK /\ RowsOK /\ TaskAtHand /\ SignalsCaused /\ AttemptsPaid

-----------------------------------------------------------------------------
(* Names *)

\* Nobody is not a worker and not a key, and neither is the command.
LEMMA Names ==
  /\ None \notin Workers /\ "command" \notin Workers /\ None # "command"
  /\ None \notin Key
BY NamesAssumption DEF Key

\* Whoever is inside holds the lock, so that two of them are the same worker.
LEMMA OneInside ==
  ASSUME LockOK, NEW v \in Workers, NEW w \in Workers, pc[v] \in Inside, pc[w] \in Inside
  PROVE  v = w
BY DEF LockOK

-----------------------------------------------------------------------------
(* One lemma for each part of the invariant *)

\* What a worker remembers has its type.
LEMMA JobsStep ==
  ASSUME ReconcileInv, [Next]_vars
  PROVE  JobsOK'
<1> USE Names, BoundsAssumption DEF ReconcileInv, JobsOK, Job, Endings, StateOK, RowsOK,
     TaskAtHand
<1>1. ASSUME NEW w \in Workers,
           Begin(w) \/ TryLock(w) \/ AlreadyRunning(w)
      PROVE  JobsOK'
  BY <1>1 DEF Begin, TryLock, AlreadyRunning, Goto, NoJob, signals, state, work
<1>2. ASSUME NEW w \in Workers,
           Inspect(w) \/ InspectFails(w) \/ NothingDue(w)
      PROVE  JobsOK'
  BY <1>2 DEF Inspect, InspectFails, NothingDue, Goto, Leave, Remember, signals, state,
       work
<1>3. ASSUME NEW w \in Workers, Schedule(w)  PROVE JobsOK'
  <2> USE DEF Goto, Signalled, IdempotencyKey
  <2>1. CASE ScheduleNew(w)
    BY <1>3, <2>1 DEF Schedule, ScheduleNew, signals, state
  <2>2. CASE ScheduleKnown(w)
    BY ZenonT(60), <1>3, <2>2 DEF Schedule, ScheduleKnown, signals, state
  <2>3. CASE Skip(w)
    BY <1>3, <2>3 DEF Schedule, Skip, signals, state
  <2>4. QED  BY <1>3, <2>1, <2>2, <2>3 DEF Schedule
<1>4. ASSUME NEW w \in Workers, MarkSignals(w)  PROVE JobsOK'
  BY <1>4 DEF MarkSignals, Goto, Covered, Remember, signals, state, work
<1>5. ASSUME NEW w \in Workers, Claim(w)  PROVE JobsOK'
  BY <1>5 DEF Claim, Goto, Remember, SetTask, Claimable, signals, state, work
<1>6. ASSUME NEW w \in Workers, Execute(w)  PROVE JobsOK'
  BY <1>6 DEF Execute, Goto, Holds, SetTask, Remember, signals, state, work
<1>7. ASSUME NEW w \in Workers, Retry(w)  PROVE JobsOK'
  <2>1. job[w] \in Job /\ Worse(job[w].ended, "retried") \in Endings
    BY DEF Worse
  <2>2. job' = [job EXCEPT ![w] = [job[w] EXCEPT !.key = None,
                                               !.ended = Worse(@, "retried")]]
    BY <1>7 DEF Retry
  <2>3. QED  BY <2>1, <2>2
<1>8. ASSUME NEW w \in Workers, Fail(w) \/ NotifyFailure(w)  PROVE JobsOK'
  BY <1>8 DEF Fail, NotifyFailure, Goto, Holds, SetTask, Remember, signals, state, work
<1>9. ASSUME NEW w \in Workers, FinishRun(w) \/ Crash(w)  PROVE JobsOK'
  BY <1>9 DEF FinishRun, Crash, Goto, NoJob, signals, state, work
<1>10. CASE RecordHookEvent \/ Command \/ SetPolicy \/ CommandEnds
  BY <1>10 DEF RecordHookEvent, Command, SetPolicy, CommandEnds, signals, state, work
<1>11. CASE UNCHANGED vars
  BY <1>11 DEF vars, signals, state, work
<1>12. QED
  BY <1>1, <1>2, <1>3, <1>4, <1>5, <1>6, <1>7, <1>8,
     <1>9, <1>10, <1>11 DEF Next, Step

\* The counters stay in their bounds, and nothing is acknowledged that was not recorded.
LEMMA StateStep ==
  ASSUME ReconcileInv, [Next]_vars
  PROVE  StateOK'
<1> USE Names, BoundsAssumption DEF ReconcileInv, StateOK, Policy, Modes, JobsOK, Job,
     SignalsCaused
<1>1. ASSUME NEW w \in Workers,
           Begin(w) \/ TryLock(w) \/ AlreadyRunning(w)
      PROVE  StateOK'
  BY <1>1 DEF Begin, TryLock, AlreadyRunning, Goto, NoJob, signals, state, work
<1>2. ASSUME NEW w \in Workers,
           Inspect(w) \/ InspectFails(w) \/ NothingDue(w)
      PROVE  StateOK'
  BY <1>2 DEF Inspect, InspectFails, NothingDue, Goto, Leave, Remember, signals, state,
       work
<1>3. ASSUME NEW w \in Workers, Schedule(w)  PROVE StateOK'
  BY <1>3 DEF Schedule, Goto, ScheduleNew, ScheduleKnown, Skip, Signalled,
       IdempotencyKey, signals, state, work
<1>4. ASSUME NEW w \in Workers, MarkSignals(w)  PROVE StateOK'
  BY <1>4 DEF MarkSignals, Goto, Covered, Remember, signals, state, work
<1>5. ASSUME NEW w \in Workers, Claim(w) \/ Execute(w) \/ Retry(w)  PROVE StateOK'
  BY <1>5 DEF Claim, Execute, Retry, Goto, Remember, SetTask, Claimable, Holds,
       MayRetry, Worse, signals, state, work
<1>6. ASSUME NEW w \in Workers, Fail(w) \/ NotifyFailure(w)  PROVE StateOK'
  BY <1>6 DEF Fail, NotifyFailure, Goto, Holds, SetTask, Remember, signals, state, work
<1>7. ASSUME NEW w \in Workers, FinishRun(w) \/ Crash(w)  PROVE StateOK'
  BY <1>7 DEF FinishRun, Crash, Goto, NoJob, signals, state, work
<1>8. CASE RecordHookEvent \/ Command \/ SetPolicy \/ CommandEnds
  BY <1>8 DEF RecordHookEvent, Command, SetPolicy, CommandEnds, signals, state, work
<1>9. CASE UNCHANGED vars
  BY <1>9 DEF vars, signals, state, work
<1>10. QED  BY <1>1, <1>2, <1>3, <1>4, <1>5, <1>6, <1>7, <1>8, <1>9 DEF Next, Step

\* Exactly the worker that is inside holds the lock.
LEMMA LockStep ==
  ASSUME ReconcileInv, [Next]_vars
  PROVE  LockOK'
<1> USE Names, BoundsAssumption DEF ReconcileInv, LockOK, Inside, PCs
<1>1. ASSUME NEW w \in Workers,
           Begin(w) \/ TryLock(w) \/ AlreadyRunning(w)
      PROVE  LockOK'
  BY <1>1 DEF Begin, TryLock, AlreadyRunning, Goto, NoJob, signals, state, work
<1>2. ASSUME NEW w \in Workers,
           Inspect(w) \/ InspectFails(w) \/ NothingDue(w)
      PROVE  LockOK'
  BY <1>2 DEF Inspect, InspectFails, NothingDue, Goto, Leave, Remember, signals, state,
       work
<1>3. ASSUME NEW w \in Workers, Schedule(w) \/ MarkSignals(w)  PROVE LockOK'
  BY <1>3 DEF Schedule, MarkSignals, Goto, ScheduleNew, ScheduleKnown, Skip, Signalled,
       IdempotencyKey, Covered, Remember, signals, state, work
<1>4. ASSUME NEW w \in Workers, Claim(w) \/ Execute(w)  PROVE LockOK'
  BY <1>4 DEF Claim, Execute, Goto, Remember, SetTask, Claimable, Holds, signals, state,
       work
<1>5. ASSUME NEW w \in Workers, Retry(w) \/ Fail(w) \/ NotifyFailure(w)  PROVE LockOK'
  BY <1>5 DEF Retry, Fail, NotifyFailure, Goto, Holds, SetTask, MayRetry, Worse,
       Remember, signals, state, work
<1>6. ASSUME NEW w \in Workers, FinishRun(w) \/ Crash(w)  PROVE LockOK'
  BY <1>6 DEF FinishRun, Crash, Goto, NoJob, signals, state, work
<1>7. CASE RecordHookEvent \/ Command \/ SetPolicy \/ CommandEnds
  BY <1>7 DEF RecordHookEvent, Command, SetPolicy, CommandEnds, signals, state, work
<1>8. CASE UNCHANGED vars
  BY <1>8 DEF vars, signals, state, work
<1>9. QED  BY <1>1, <1>2, <1>3, <1>4, <1>5, <1>6, <1>7, <1>8 DEF Next, Step

\* A row keeps its type: only the row of the task at hand is written.
LEMMA RowsStep ==
  ASSUME ReconcileInv, [Next]_vars
  PROVE  RowsOK'
<1> USE Names, BoundsAssumption DEF ReconcileInv, RowsOK, Row, TaskStatus, Key, NewTask,
     StateOK, Policy, TaskAtHand, AtTask
<1>1. ASSUME NEW w \in Workers,
           Begin(w) \/ TryLock(w) \/ AlreadyRunning(w)
      PROVE  RowsOK'
  BY <1>1 DEF Begin, TryLock, AlreadyRunning, Goto, NoJob, signals, state, work
<1>2. ASSUME NEW w \in Workers,
           Inspect(w) \/ InspectFails(w) \/ NothingDue(w)
      PROVE  RowsOK'
  BY <1>2 DEF Inspect, InspectFails, NothingDue, Goto, Leave, Remember, signals, state,
       work
<1>3. ASSUME NEW w \in Workers, Schedule(w)  PROVE RowsOK'
  <2> USE DEF Goto, Signalled, IdempotencyKey
  <2>1. CASE ScheduleNew(w)
    BY <1>3, <2>1 DEF Schedule, ScheduleNew, signals, state
  <2>2. CASE ScheduleKnown(w)
    BY <1>3, <2>2 DEF Schedule, ScheduleKnown, signals, state
  <2>3. CASE Skip(w)
    BY <1>3, <2>3 DEF Schedule, Skip, signals, state
  <2>4. QED  BY <1>3, <2>1, <2>2, <2>3 DEF Schedule
<1>4. ASSUME NEW w \in Workers, MarkSignals(w)  PROVE RowsOK'
  BY <1>4 DEF MarkSignals, Goto, Covered, Remember, signals, state, work
<1>5. ASSUME NEW w \in Workers, Claim(w)  PROVE RowsOK'
  BY <1>5 DEF Claim, Goto, Remember, SetTask, Claimable, signals, state, work
<1>6. ASSUME NEW w \in Workers, Execute(w)  PROVE RowsOK'
  BY <1>6 DEF Execute, Goto, Holds, SetTask, Remember, signals, state, work
<1>7. ASSUME NEW w \in Workers, Retry(w)  PROVE RowsOK'
  BY <1>7 DEF Retry, Goto, Holds, SetTask, MayRetry, Worse, signals, state, work
<1>8. ASSUME NEW w \in Workers, Fail(w)  PROVE RowsOK'
  BY <1>8 DEF Fail, Goto, Holds, SetTask, Remember, signals, state, work
<1>9. ASSUME NEW w \in Workers,
           NotifyFailure(w) \/ FinishRun(w) \/ Crash(w)
      PROVE  RowsOK'
  BY <1>9 DEF NotifyFailure, FinishRun, Crash, Goto, Remember, NoJob, signals, state,
       work
<1>10. CASE RecordHookEvent \/ Command \/ SetPolicy \/ CommandEnds
  BY <1>10 DEF RecordHookEvent, Command, SetPolicy, CommandEnds, signals, state, work
<1>11. CASE UNCHANGED vars
  BY <1>11 DEF vars, signals, state, work
<1>12. QED
  BY <1>1, <1>2, <1>3, <1>4, <1>5, <1>6, <1>7, <1>8,
     <1>9, <1>10, <1>11 DEF Next, Step

\* Nobody else writes the row of the task that a worker has at hand.
LEMMA HandStep ==
  ASSUME ReconcileInv, [Next]_vars
  PROVE  TaskAtHand'
<1> USE Names, BoundsAssumption DEF ReconcileInv, TaskAtHand, AtTask, Inside, JobsOK,
     Job, LockOK, RowsOK, PCs
<1>1. ASSUME NEW w \in Workers,
           Begin(w) \/ TryLock(w) \/ AlreadyRunning(w)
      PROVE  TaskAtHand'
  BY <1>1, OneInside DEF Begin, TryLock, AlreadyRunning, Goto, NoJob, signals, state,
       work
<1>2. ASSUME NEW w \in Workers,
           Inspect(w) \/ InspectFails(w) \/ NothingDue(w)
      PROVE  TaskAtHand'
  BY <1>2, OneInside DEF Inspect, InspectFails, NothingDue, Goto, Leave, Remember,
       signals, state, work
<1>3. ASSUME NEW w \in Workers, Schedule(w)  PROVE TaskAtHand'
  BY <1>3, OneInside DEF Schedule, Goto, ScheduleNew, ScheduleKnown, Skip, Signalled,
       IdempotencyKey, signals, state, work
<1>4. ASSUME NEW w \in Workers, MarkSignals(w)  PROVE TaskAtHand'
  BY <1>4, OneInside DEF MarkSignals, Goto, Covered, Remember, signals, state, work
<1>5. ASSUME NEW w \in Workers, Claim(w)  PROVE TaskAtHand'
  BY <1>5, OneInside DEF Claim, Goto, Remember, SetTask, Claimable, signals, state, work
<1>6. ASSUME NEW w \in Workers, Execute(w)  PROVE TaskAtHand'
  BY <1>6, OneInside DEF Execute, Goto, Holds, SetTask, Remember, signals, state, work
<1>7. ASSUME NEW w \in Workers, Retry(w)  PROVE TaskAtHand'
  BY <1>7, OneInside DEF Retry, Goto, Holds, SetTask, MayRetry, Worse, signals, state,
       work
<1>8. ASSUME NEW w \in Workers, Fail(w)  PROVE TaskAtHand'
  BY <1>8, OneInside DEF Fail, Goto, Holds, SetTask, Remember, signals, state, work
<1>9. ASSUME NEW w \in Workers, NotifyFailure(w)  PROVE TaskAtHand'
  BY <1>9, OneInside DEF NotifyFailure, Goto, Remember, signals, state, work
<1>10. ASSUME NEW w \in Workers, FinishRun(w) \/ Crash(w)  PROVE TaskAtHand'
  BY <1>10, OneInside DEF FinishRun, Crash, Goto, NoJob, signals, state, work
<1>11. CASE RecordHookEvent \/ Command \/ SetPolicy \/ CommandEnds
  BY <1>11, OneInside DEF RecordHookEvent, Command, SetPolicy, CommandEnds, signals,
       state, work
<1>12. CASE UNCHANGED vars
  BY <1>12, OneInside DEF vars, signals, state, work
<1>13. QED
  BY <1>1, <1>2, <1>3, <1>4, <1>5, <1>6, <1>7, <1>8,
     <1>9, <1>10, <1>11, <1>12 DEF Next, Step

\* Rows are never deleted, so that what has caused a task has done so for good.
LEMMA CausedStays ==
  ASSUME ReconcileInv, [Next]_vars
  PROVE  Caused \subseteq Caused'
<1>1. DOMAIN tasks \subseteq DOMAIN tasks' /\ (waived' = waived \/ waived' = events)
  BY DEF Next, Step, Begin, TryLock, AlreadyRunning, Inspect, InspectFails, Schedule,
     ScheduleNew, ScheduleKnown, Skip, MarkSignals, Claim, NothingDue, Execute, Retry, Fail,
     NotifyFailure, FinishRun, Crash, RecordHookEvent, Command, SetPolicy, CommandEnds,
     SetTask, vars
<1>2. waived <= waived'
  BY <1>1 DEF ReconcileInv, StateOK
<1>3. QED
  BY <1>1, <1>2, BoundsAssumption DEF ReconcileInv, StateOK, Caused

\* A signal that is scheduled for has caused a task or was waived.
LEMMA SignalStep ==
  ASSUME ReconcileInv, [Next]_vars
  PROVE  SignalsCaused'
<1> USE Names, BoundsAssumption DEF ReconcileInv, SignalsCaused, StateOK, Key, JobsOK,
     Job, LockOK
<1>1. ASSUME NEW w \in Workers,
           Begin(w) \/ TryLock(w) \/ AlreadyRunning(w)
      PROVE  SignalsCaused'
  BY <1>1, CausedStays DEF Begin, TryLock, AlreadyRunning, Goto, NoJob, signals, state,
       work
<1>2. ASSUME NEW w \in Workers,
           Inspect(w) \/ InspectFails(w) \/ NothingDue(w)
      PROVE  SignalsCaused'
  BY <1>2, CausedStays DEF Inspect, InspectFails, NothingDue, Goto, Leave, Remember,
       signals, state, work
<1>3. ASSUME NEW w \in Workers, Schedule(w)  PROVE SignalsCaused'
  <2> USE DEF Goto, Signalled, IdempotencyKey, Schedule
  <2>1. job'[w].sig = events /\ \A v \in Workers \ {w} : job'[v] = job[v] /\ pc'[v] = pc[v]
    BY <1>3 DEF ScheduleNew, ScheduleKnown, Skip
  <2>2. events \in Caused'
    <3>1. CASE ScheduleNew(w)
      BY <3>1 DEF ScheduleNew, Caused
    <3>2. CASE ScheduleKnown(w)
      BY <3>2 DEF ScheduleKnown, Enqueued, Caused
    <3>3. CASE Skip(w)
      BY <3>3 DEF Skip, Caused
    <3>4. QED  BY <1>3, <3>1, <3>2, <3>3
  <2>3. QED  BY <1>3, <2>1, <2>2, CausedStays DEF signals
<1>4. ASSUME NEW w \in Workers, MarkSignals(w)  PROVE SignalsCaused'
  BY <1>4, CausedStays DEF MarkSignals, Goto, Covered, Remember, signals, state, work
<1>5. ASSUME NEW w \in Workers,
           Claim(w) \/ Execute(w) \/ Retry(w) \/ Fail(w)
      PROVE  SignalsCaused'
  BY <1>5, CausedStays DEF Claim, Execute, Retry, Fail, Goto, Remember, SetTask,
       Claimable, Holds, MayRetry, Worse, signals, state, work
<1>6. ASSUME NEW w \in Workers, NotifyFailure(w)  PROVE SignalsCaused'
  BY <1>6, CausedStays DEF NotifyFailure, Goto, Remember, signals, state, work
<1>7. ASSUME NEW w \in Workers, FinishRun(w) \/ Crash(w)  PROVE SignalsCaused'
  BY <1>7, CausedStays DEF FinishRun, Crash, Goto, NoJob, signals, state, work
<1>8. CASE RecordHookEvent \/ Command \/ SetPolicy \/ CommandEnds
  BY <1>8, CausedStays DEF RecordHookEvent, Command, SetPolicy, CommandEnds, signals,
       state, work
<1>9. CASE UNCHANGED vars
  BY <1>9, CausedStays DEF vars, signals, state, work
<1>10. QED  BY <1>1, <1>2, <1>3, <1>4, <1>5, <1>6, <1>7, <1>8, <1>9 DEF Next, Step

\* An attempt is spared by a retry or paid for by a fault.
LEMMA AttemptsStep ==
  ASSUME ReconcileInv, [Next]_vars
  PROVE  AttemptsPaid'
<1> USE Names, BoundsAssumption DEF ReconcileInv, AttemptsPaid, Held, StateOK, JobsOK,
     Job, LockOK, RowsOK, Row, TaskAtHand, AtTask, Inside, NewTask, TaskStatus
<1>1. ASSUME NEW w \in Workers,
           Begin(w) \/ TryLock(w) \/ AlreadyRunning(w)
      PROVE  AttemptsPaid'
  BY <1>1, OneInside DEF Begin, TryLock, AlreadyRunning, Goto, NoJob, signals, state,
       work
<1>2. ASSUME NEW w \in Workers,
           Inspect(w) \/ InspectFails(w) \/ NothingDue(w)
      PROVE  AttemptsPaid'
  BY <1>2, OneInside DEF Inspect, InspectFails, NothingDue, Goto, Leave, Remember,
       signals, state, work
<1>3. ASSUME NEW w \in Workers, Schedule(w)  PROVE AttemptsPaid'
  BY <1>3, OneInside DEF Schedule, Goto, ScheduleNew, ScheduleKnown, Skip, Signalled,
       IdempotencyKey, signals, state, work
<1>4. ASSUME NEW w \in Workers, MarkSignals(w)  PROVE AttemptsPaid'
  BY <1>4, OneInside DEF MarkSignals, Goto, Covered, Remember, signals, state, work
<1>5. ASSUME NEW w \in Workers, Claim(w)  PROVE AttemptsPaid'
  BY <1>5, OneInside DEF Claim, Goto, Remember, SetTask, Claimable, signals, state, work
<1>6. ASSUME NEW w \in Workers, Execute(w)  PROVE AttemptsPaid'
  BY <1>6, OneInside DEF Execute, Goto, Holds, SetTask, Remember, signals, state, work
<1>7. ASSUME NEW w \in Workers, Retry(w)  PROVE AttemptsPaid'
  BY <1>7, OneInside DEF Retry, Goto, Holds, SetTask, MayRetry, Worse, signals, state,
       work
<1>8. ASSUME NEW w \in Workers, Fail(w)  PROVE AttemptsPaid'
  BY <1>8, OneInside DEF Fail, Goto, Holds, SetTask, Remember, signals, state, work
<1>9. ASSUME NEW w \in Workers, NotifyFailure(w) \/ FinishRun(w)  PROVE AttemptsPaid'
  BY <1>9, OneInside DEF NotifyFailure, FinishRun, Goto, Remember, NoJob, signals,
       state, work
<1>10. ASSUME NEW w \in Workers, Crash(w)  PROVE AttemptsPaid'
  BY <1>10, OneInside DEF Crash, Goto, NoJob, signals, state, work
<1>11. CASE RecordHookEvent \/ Command \/ SetPolicy \/ CommandEnds
  BY <1>11, OneInside DEF RecordHookEvent, Command, SetPolicy, CommandEnds, signals,
       state, work
<1>12. CASE UNCHANGED vars
  BY <1>12, OneInside DEF vars, signals, state, work
<1>13. QED
  BY <1>1, <1>2, <1>3, <1>4, <1>5, <1>6, <1>7, <1>8,
     <1>9, <1>10, <1>11, <1>12 DEF Next, Step

-----------------------------------------------------------------------------
(* Theorems *)

\* The invariant holds at first and no step breaks it.
THEOREM ReconcileCorrect == SafeSpec => []ReconcileInv
<1>1. Init => ReconcileInv
  BY Names, BoundsAssumption
  DEF Init, ReconcileInv, JobsOK, Job, NoJob, Endings, StateOK, Policy, Modes, LockOK, PCs,
      Inside, RowsOK, TaskAtHand, AtTask, SignalsCaused, Caused, AttemptsPaid
<1>2. ReconcileInv /\ [Next]_vars => ReconcileInv'
  BY JobsStep, StateStep, LockStep, RowsStep, HandStep, SignalStep, AttemptsStep
  DEF ReconcileInv
<1>3. QED  BY <1>1, <1>2, PTL DEF SafeSpec

\* Type correctness; the lock belongs to the worker that is between taking and closing it.
THEOREM TypeCorrect == SafeSpec => []TypeOK
<1>1. ReconcileInv => TypeOK
  BY BoundsAssumption DEF ReconcileInv, StateOK, LockOK, PCs, Inside, RowsOK, Row,
     AttemptsPaid, TypeOK, Task
<1>2. QED  BY <1>1, ReconcileCorrect, PTL

\* A task has one worker at a time, whatever its lease: nobody takes the row from the worker
\* that executes it, because all of them claim under the activation lock.
THEOREM ExecutionCorrect == SafeSpec => []OneExecution
<1>1. ReconcileInv => OneExecution
  <2> SUFFICES ASSUME ReconcileInv  PROVE OneExecution
    OBVIOUS
  <2>1. ASSUME NEW w \in Workers, Working(w)  PROVE pc[w] \in AtTask
    BY <2>1 DEF ReconcileInv, TaskAtHand, Working
  <2>2. ASSUME NEW v \in Workers, NEW w \in Workers, Working(v), Working(w)  PROVE v = w
    BY <2>1, <2>2, OneInside DEF ReconcileInv, AtTask, Inside
  <2>3. ASSUME NEW w \in Workers, Working(w), pc[w] # "notify"
        PROVE  tasks[job[w].key].status = "running"
    BY <2>1, <2>3 DEF ReconcileInv, TaskAtHand, AtTask
  <2>4. QED  BY <2>2, <2>3 DEF OneExecution
<1>2. QED  BY <1>1, ReconcileCorrect, PTL

\* A processed hook event has caused a task or was waived, although events race in between
\* the reading of the signal and its acknowledgement, and workers die there.
THEOREM EventsCorrect == SafeSpec => []EventsCauseTasks
<1>1. ReconcileInv => EventsCauseTasks
  <2> SUFFICES ASSUME ReconcileInv, NEW e \in 1..acked
               PROVE  e <= waived \/ \E k \in DOMAIN tasks : k.sig >= e
    BY DEF EventsCauseTasks
  <2>1. CASE acked <= waived
    BY <2>1 DEF ReconcileInv, StateOK
  <2>2. ASSUME NEW k \in DOMAIN tasks, k.sig >= acked  PROVE k.sig >= e
    BY <2>2 DEF ReconcileInv, StateOK, RowsOK, Key
  <2>3. QED  BY <2>1, <2>2 DEF ReconcileInv, SignalsCaused, Caused
<1>2. QED  BY <1>1, ReconcileCorrect, PTL

\* A key is claimed MaxAttempts times, and once more for each worker that died.
THEOREM AttemptsCorrect == SafeSpec => []AttemptsAreBounded
<1>1. ReconcileInv => AttemptsAreBounded
  BY DEF ReconcileInv, AttemptsPaid, AttemptsAreBounded
<1>2. QED  BY <1>1, ReconcileCorrect, PTL

(***************************************************************************)
(* The services together: which of them moves is chosen at the beginning,  *)
(* so what holds of each module holds of all behaviours of MCServices.     *)
(***************************************************************************)

(* The theorems of SelfUpdateProofs, of the self-update among the services. *)
SP == INSTANCE SelfUpdateProofs WITH
       Procs <- {p1, p2}, Dirs <- {d1}, MaxRelease <- 3, MaxFault <- 2,
       lock <- sLock, pc <- sPc, job <- sJob, faults <- sFaults

\* A service that does not move keeps its state.
LEMMA ServicesTurn ==
  ASSUME [ServicesNext]_allVars
  PROVE  [Next]_vars /\ [W!Next]_wVars /\ [S!Next]_sVars
BY DEF ServicesNext, ReconcileNext, WakeupNext, SelfUpdateNext, allVars

\* The worker and its queues behave as in Reconcile.
THEOREM ReconcileAmongServices == ServicesSpec => SafeSpec
<1>1. ServicesInit => Init
  BY DEF ServicesInit
<1>2. [ServicesNext]_allVars => [Next]_vars
  BY ServicesTurn
<1>3. QED  BY <1>1, <1>2, PTL DEF ServicesSpec, SafeSpec

\* The self-update begins as its module says.
LEMMA UpdateBegins ==
  ASSUME S!Init
  PROVE  SP!Init
BY DEF S!Init, S!NoJob,
       SP!Init, SP!NoJob

\* It moves as its module says.
LEMMA UpdateMoves ==
  ASSUME [S!Next]_sVars
  PROVE  [SP!Next]_(SP!vars)
<1>1. S!Next => SP!Next
  BY DEF S!Next, S!Step, S!Crash, S!Command, S!Install, S!ApplyLock, S!Refuse, S!Compare, S!Backup,
         S!Replace, S!CommitSequence, S!RemovePending, S!Decline, S!StageLock, S!StageEnds,
         S!StageFiles, S!WritePending, S!Fault, S!End, S!exe, S!dirs, S!NoJob, S!Runs, S!Goto,
         S!Release, S!Usable, S!Unlock, S!AlreadyLive, S!StageChecks, S!CurrentOf, S!Max, S!Current,
         S!Accepted,
         SP!Next, SP!Step, SP!Crash, SP!Command, SP!Install, SP!ApplyLock, SP!Refuse, SP!Compare,
         SP!Backup, SP!Replace, SP!CommitSequence, SP!RemovePending, SP!Decline, SP!StageLock,
         SP!StageEnds, SP!StageFiles, SP!WritePending, SP!Fault, SP!End, SP!exe, SP!dirs, SP!NoJob,
         SP!Runs, SP!Goto, SP!Release, SP!Usable, SP!Unlock, SP!AlreadyLive, SP!StageChecks,
         SP!CurrentOf, SP!Max, SP!Current, SP!Accepted
<1>2. UNCHANGED sVars => UNCHANGED SP!vars
  BY DEF sVars, SP!vars, SP!exe, SP!dirs, SP!work
<1>3. QED  BY <1>1, <1>2

\* It behaves as in SelfUpdate.
THEOREM UpdateAmongServices == ServicesSpec => SP!SafeSpec
<1>1. ServicesInit => SP!Init
  BY UpdateBegins DEF ServicesInit
<1>2. [ServicesNext]_allVars => [SP!Next]_(SP!vars)
  BY ServicesTurn, UpdateMoves
<1>3. QED  BY <1>1, <1>2, PTL DEF ServicesSpec, SP!SafeSpec

\* What the theorems about it assume of the constants.
LEMMA UpdateBoundsHold == SP!UpdateBounds
BY ServicesBounds DEF S!UpdateBounds, SP!UpdateBounds

\* selfupdate/manager.go: no older release over a newer one.
THEOREM UpdatesGoForwardAmongServices == ServicesSpec => UpdatesGoForward
<1>1. SP!SafeSpec => SP!UpdatesGoForward
  BY UpdateBoundsHold, SP!UpdatesGoForwardAlways
<1>2. SP!UpdatesGoForward => UpdatesGoForward
  BY DEF UpdatesGoForward, S!UpdatesGoForward, SP!UpdatesGoForward,
         S!vars, S!exe, S!dirs, S!work, SP!vars, SP!exe, SP!dirs, SP!work
<1>3. QED  BY <1>1, <1>2, UpdateAmongServices

(* The types that the steps of Wakeup keep.                                *)
WakeupTypes ==
  /\ W!TypeOK /\ slot \in 1..2
  /\ run \in [{w1} -> [slot : 0..2,
                       status : {"running", "succeeded", "incomplete", "failed"}]]

\* They hold at the beginning.
LEMMA WakeupBegins ==
  ASSUME W!Init
  PROVE  WakeupTypes
BY DEF W!Init, WakeupTypes, W!TypeOK, W!NoRun, W!PCs

\* The hooks and the kicks keep them.
LEMMA KickKeepsTypes ==
  ASSUME WakeupTypes, W!Kick
  PROVE  WakeupTypes'
<1> USE DEF WakeupTypes, W!TypeOK, W!PCs, W!rows, W!work, W!env
<1>1. CASE W!SessionStart \/ W!CreateMarker \/ W!AlreadyQueued \/ W!FindStale \/ W!StartFails
  BY <1>1 DEF W!SessionStart, W!CreateMarker, W!AlreadyQueued, W!FindStale, W!StartFails
<1>2. CASE W!StartDetached(w1)
  BY <1>2 DEF W!StartDetached, W!Begin, W!Goto
<1>3. QED  BY <1>1, <1>2 DEF W!Kick

\* So do the runs.
LEMMA RunKeepsTypes ==
  ASSUME WakeupTypes, W!Scheduled(w1) \/ W!Step(w1) \/ W!Crash(w1)
  PROVE  WakeupTypes'
<1> USE DEF WakeupTypes, W!TypeOK, W!PCs, W!rows, W!work, W!env, W!Goto, W!Rest, W!NoRun
<1>1. CASE W!Scheduled(w1)
  BY <1>1 DEF W!Scheduled, W!Begin
<1>2. CASE W!TryLock(w1)
  BY <1>2 DEF W!TryLock
<1>3. CASE W!Run(w1)
  BY <1>3 DEF W!Run
<1>4. CASE W!FinishRun(w1)
  BY <1>4 DEF W!FinishRun
<1>5. CASE W!ReportRun(w1)
  <2> DEFINE begun == run[w1].slot
             told == IF queued[begun] = 0 THEN slot ELSE queued[begun]
  <2>3. queued' = [queued EXCEPT ![begun] = told]
    BY <1>5 DEF W!ReportRun
  <2>4. begun \in 1..2 => told \in 0..2
    OBVIOUS
  <2> HIDE DEF told
  <2>1. queued' \in [1..2 -> 0..2]
    BY <2>3, <2>4
  <2>2. QED  BY <1>5, <2>1 DEF W!ReportRun
<1>6. CASE W!Crash(w1)
  BY <1>6 DEF W!Crash
<1>7. QED  BY <1>1, <1>2, <1>3, <1>4, <1>5, <1>6 DEF W!Step

\* So do the watchdog, time and the other commands.
LEMMA WatchKeepsTypes ==
  ASSUME WakeupTypes, W!Command \/ W!CommandEnds \/ W!Check \/ W!NextSlot \/ W!MarkerAges
  PROVE  WakeupTypes'
<1> USE DEF WakeupTypes, W!TypeOK, W!PCs, W!rows, W!work, W!env
<1>1. CASE W!Command \/ W!CommandEnds
  BY <1>1 DEF W!Command, W!CommandEnds
<1>2. CASE W!Check
  <2>1. alerts' = alerts \cup {W!Reason}
    BY <1>2 DEF W!Check
  <2>2. W!Reason \in {"missing_run", "failed_run", "unfinished_run", "stale_run"}
    BY DEF W!Reason
  <2>3. QED  BY <1>2, <2>1, <2>2 DEF W!Check
<1>3. CASE W!NextSlot
  <2>1. slot' \in 1..2 /\ alerts' = {}
    BY <1>3 DEF W!NextSlot
  <2>2. QED  BY <1>3, <2>1 DEF W!NextSlot
<1>4. CASE W!MarkerAges
  BY <1>4 DEF W!MarkerAges
<1>5. QED  BY <1>1, <1>2, <1>3, <1>4

\* The schedule, the kicks and the watchdog keep their types.
LEMMA WakeupKeepsTypes ==
  ASSUME WakeupTypes, [W!Next]_wVars
  PROVE  WakeupTypes'
<1>1. CASE UNCHANGED wVars
  BY <1>1 DEF wVars, WakeupTypes, W!TypeOK
<1>2. QED  BY <1>1, KickKeepsTypes, RunKeepsTypes, WatchKeepsTypes DEF W!Next

\* The rows, the lock, the marker, the executables and the processes of all services are of
\* the types that ServicesTypeOK says.
THEOREM ServicesTypeCorrect == ServicesSpec => []ServicesTypeOK
<1>1. ServicesSpec => []WakeupTypes
  <2>1. ServicesInit => WakeupTypes
    BY WakeupBegins DEF ServicesInit
  <2>2. WakeupTypes /\ [ServicesNext]_allVars => WakeupTypes'
    BY ServicesTurn, WakeupKeepsTypes
  <2>3. QED  BY <2>1, <2>2, PTL DEF ServicesSpec
<1>2. ServicesSpec => []SP!TypeOK
  BY UpdateBoundsHold, UpdateAmongServices, SP!UpdateTypeCorrect, PTL
<1>3. TypeOK /\ WakeupTypes /\ SP!TypeOK => ServicesTypeOK
  BY DEF ServicesTypeOK, WakeupTypes, S!TypeOK, SP!TypeOK, S!Release, SP!Release, S!PCs, SP!PCs
<1>4. QED  BY <1>1, <1>2, <1>3, ReconcileAmongServices, TypeCorrect, PTL
=============================================================================
