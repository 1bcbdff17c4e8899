--------------------------- MODULE BundleTxnProofs ---------------------------
(***************************************************************************)
(* Theorems about BundleTxn, for every number of installations, releases,  *)
(* transactions, clients and crashes: first the journal, then the loops    *)
(* and the disk.                                                           *)
(***************************************************************************)
EXTENDS BundleTxn, TLAPS

-----------------------------------------------------------------------------
(* Types *)

\* 0 stands for no transaction and no installation.
LEMMA ZeroIsNone == 0 \notin Txn /\ 0 \notin Inst
BY DEF Txn, Inst

\* What a resolver reports, brought up to what is current, is a release.
LEMMA NotBehindType ==
  ASSUME VersionsOK, NEW r \in Resolvable
  PROVE  NotBehind(r) \in Release
BY ReleasesAssumption DEF NotBehind, VersionsOK, Release

\* What the command line may go back to is a release.
LEMMA PriorReleasesType ==
  ASSUME RowsOK
  PROVE  PriorReleases \subseteq Release
BY ReleasesAssumption DEF PriorReleases, Receipted, RowsOK, Journal

\* A command installs a version, never anything else.
LEMMA CommandTargetType ==
  ASSUME RowsOK, HolderOK, pc \in Commanding
  PROVE  CommandTarget \in Version
BY ZeroIsNone DEF CommandTarget, RowsOK, Journal, HolderOK, Commanding, Release, Idle

\* The control points: who works has a transaction, who commands has an installation.
LEMMA PointFacts ==
  /\ \A p \in Working \cup Commanding : p \notin Idle
  /\ \A p \in Idle \cup Working : p \notin Commanding
BY DEF Idle, Working, Commanding

\* A step status is written into a row of the right type.
LEMMA SetStepType ==
  ASSUME RowsOK, NEW t \in Txn, NEW i \in Inst, NEW s \in StepStatus,
         SetStep(t, i, s) \/ TrySetStep(t, i, s)
  PROVE  step' \in [Txn -> [Inst -> StepStatus]]
<1>1. ASSUME SetStep(t, i, s) PROVE step' \in [Txn -> [Inst -> StepStatus]]
  BY <1>1 DEF RowsOK, SetStep
<1>2. ASSUME UNCHANGED step PROVE step' \in [Txn -> [Inst -> StepStatus]]
  BY <1>2 DEF RowsOK
<1>3. QED  BY <1>1, <1>2 DEF TrySetStep

\* A transaction status, too.
LEMMA SetStatusType ==
  ASSUME RowsOK, NEW t \in Txn, NEW s \in TxnStatus, SetStatus(t, s)
  PROVE  txn' \in [Txn -> Journal]
BY DEF RowsOK, SetStatus, Journal

\* The holder that leaves, or settles and goes on, holds nothing.
LEMMA SettledType ==
  ASSUME HolderOK, Settled \/ Exit
  PROVE  HolderOK'
BY DEF HolderOK, Settled, Exit, Forget, Idle, Commanding

\* The holder that goes on to another loop of its transaction.
LEMMA GotoType ==
  ASSUME TypeOK, pc \notin Idle, NEW where \in Working, NEW steps \in SUBSET Inst,
         Goto(where, steps), acted' \subseteq Inst, bad' \in BOOLEAN,
         txn' \in [Txn -> Journal], step' \in [Txn -> [Inst -> StepStatus]],
         UNCHANGED <<ledger, disk>>
  PROVE  TypeOK'
<1>1. HolderOK'
  BY PointFacts DEF TypeOK, HolderOK, Goto
<1>2. RowsOK' /\ VersionsOK' /\ SessionsOK'
  BY DEF TypeOK, RowsOK, VersionsOK, SessionsOK, Goto, ledger
<1>3. QED  BY <1>1, <1>2 DEF TypeOK

\* The holder that starts a command.
LEMMA StartType ==
  ASSUME TypeOK, pc \notin Idle, NEW where \in Commanding, NEW i \in Inst,
         Start(where, i), step' \in [Txn -> [Inst -> StepStatus]]
  PROVE  TypeOK'
<1>1. HolderOK'
  BY PointFacts, ZeroIsNone DEF TypeOK, HolderOK, Start
<1>2. RowsOK' /\ VersionsOK' /\ SessionsOK'
  BY DEF TypeOK, RowsOK, VersionsOK, SessionsOK, Start, ledger
<1>3. QED  BY <1>1, <1>2 DEF TypeOK

\* failTransaction, whatever happened to the step before it.
LEMMA FailTransactionType ==
  ASSUME TypeOK, pc \notin Idle, FailTransaction, step' \in [Txn -> [Inst -> StepStatus]]
  PROVE  TypeOK'
<1>1. txn' \in [Txn -> Journal]
  BY SetStatusType DEF TypeOK, HolderOK, FailTransaction, TxnStatus
<1>2. HolderOK'
  BY SettledType DEF TypeOK, FailTransaction
<1>3. RowsOK' /\ VersionsOK' /\ SessionsOK'
  BY <1>1 DEF TypeOK, RowsOK, VersionsOK, SessionsOK, FailTransaction, ledger
<1>4. QED  BY <1>2, <1>3 DEF TypeOK

\* Opening a transaction for a preview.
LEMMA OpenTransactionType ==
  ASSUME TypeOK, pc \in Idle, NEW p \in Preview, OpenTransaction(p)
  PROVE  RowsOK' /\ VersionsOK' /\ HolderOK' /\ UNCHANGED <<crashes, scanned>>
<1>1. RowsOK'
  BY DEF TypeOK, RowsOK, OpenTransaction, Preview, Journal, PlannedSteps, TxnStatus,
         StepStatus, ledger
<1>2. VersionsOK'
  BY DEF TypeOK, VersionsOK, OpenTransaction, ledger
<1>3. HolderOK'
  BY ZeroIsNone DEF TypeOK, HolderOK, VersionsOK, OpenTransaction, Idle, Working, Commanding
<1>4. QED  BY <1>1, <1>2, <1>3 DEF OpenTransaction

\* A scan.
LEMMA DiscoverType ==
  ASSUME TypeOK, NEW k \in 0..N, NEW complete \in BOOLEAN, DiscoverUpTo(k, complete)
  PROVE  /\ RowsOK' /\ VersionsOK' /\ SessionsOK'
         /\ UNCHANGED <<cur, todo, acted, saved, at, ran, bad>>
<1>1. RowsOK' /\ UNCHANGED <<cur, todo, acted, saved, at, ran, bad>>
  BY DEF TypeOK, RowsOK, DiscoverUpTo, loop
<1>2. VersionsOK'
  BY DEF TypeOK, VersionsOK, DiscoverUpTo, Release
<1>3. SessionsOK'
  BY DEF TypeOK, SessionsOK, DiscoverUpTo, Preview, NoPreview, Open
<1>4. QED  BY <1>1, <1>2, <1>3

\* Preparing, executing or rejecting a preview keeps the types.
LEMMA ClientType ==
  ASSUME TypeOK, Client  PROVE TypeOK'
<1> PICK c \in Clients : PrepareUpdate(c) \/ PrepareRollback(c) \/ Execute(c) \/ Reject(c)
  BY DEF Client
<1> USE DEF TypeOK
<1>1. CASE PrepareUpdate(c)
  <2>1. RowsOK' /\ VersionsOK' /\ HolderOK'
    BY <1>1 DEF PrepareUpdate, db, ledger, loop, RowsOK, VersionsOK, HolderOK
  <2>2. SessionsOK'
    BY <1>1, NotBehindType DEF PrepareUpdate, SessionsOK, VersionsOK, UpdatePreview, Preview
  <2>3. QED  BY <2>1, <2>2
<1>2. CASE PrepareRollback(c)
  <2>1. RowsOK' /\ VersionsOK' /\ HolderOK'
    BY <1>2 DEF PrepareRollback, db, ledger, loop, RowsOK, VersionsOK, HolderOK
  <2>2. SessionsOK'
    BY <1>2, PriorReleasesType
    DEF PrepareRollback, SessionsOK, VersionsOK, RollbackPreview, Preview
  <2>3. QED  BY <2>1, <2>2
<1>3. CASE Execute(c)
  <2>1. previews[c] \in Preview /\ pc \in Idle
    BY <1>3 DEF Execute, SessionsOK, Idle
  <2>2. RowsOK' /\ VersionsOK' /\ HolderOK' /\ UNCHANGED <<crashes, scanned>>
    BY <1>3, <2>1, OpenTransactionType DEF Execute
  <2>3. SessionsOK'
    BY <1>3, <2>2 DEF Execute, SessionsOK
  <2>4. QED  BY <2>2, <2>3
<1>4. CASE Reject(c)
  <2>1. RowsOK' /\ VersionsOK' /\ HolderOK'
    BY <1>4 DEF Reject, db, ledger, loop, RowsOK, VersionsOK, HolderOK
  <2>2. SessionsOK'
    BY <1>4 DEF Reject, SessionsOK
  <2>3. QED  BY <2>1, <2>2
<1>5. QED  BY <1>1, <1>2, <1>3, <1>4


\* What an action of a working holder relies on.
LEMMA HolderFacts ==
  ASSUME TypeOK, pc \notin Idle
  PROVE  cur \in Txn /\ (pc \in Commanding => at \in Inst) /\ (pc \notin Commanding => at = 0)
BY DEF TypeOK, HolderOK

\* A step of ExecuteUpdate keeps the types.
LEMMA UpdateType ==
  ASSUME TypeOK, Update  PROVE TypeOK'
<1> USE DEF Idle
<1>0. step \in [Txn -> [Inst -> StepStatus]] /\ txn \in [Txn -> Journal] /\ acted \subseteq Inst
      /\ todo \subseteq Inst /\ bad \in BOOLEAN /\ RowsOK /\ StepsOf(cur) \subseteq Inst
  BY DEF TypeOK, RowsOK, HolderOK, StepsOf
<1>1. CASE SetupFails
  BY <1>1, <1>0, FailTransactionType DEF SetupFails
<1>2. CASE JournalFails
  BY <1>2, <1>0, FailTransactionType DEF JournalFails
<1>3. CASE BeginStaging
  <2>1. txn' \in [Txn -> Journal]
    BY <1>3, <1>0, HolderFacts, SetStatusType DEF BeginStaging, TxnStatus
  <2>2. QED  BY <1>3, <1>0, <2>1, GotoType DEF BeginStaging, Working
<1>4. CASE CommitStaged
  <2>1. txn' \in [Txn -> Journal] /\ HolderOK'
    BY <1>4, <1>0, HolderFacts, SetStatusType, SettledType DEF CommitStaged, TxnStatus, TypeOK
  <2>2. RowsOK' /\ VersionsOK'
    BY <1>4, <1>0, <2>1, HolderFacts
    DEF CommitStaged, AddReceipt, ledger, TypeOK, RowsOK, VersionsOK, Journal, Release
  <2>3. SessionsOK'
    BY <1>4 DEF CommitStaged, TypeOK, SessionsOK
  <2>4. QED  BY <2>1, <2>2, <2>3 DEF TypeOK
<1>5. CASE BeginActivation
  <2>1. txn' \in [Txn -> Journal]
    BY <1>5, <1>0, HolderFacts, SetStatusType DEF BeginActivation, TxnStatus
  <2>2. QED  BY <1>5, <1>0, <2>1, GotoType DEF BeginActivation, Working
<1>6. CASE Activated
  <2>1. step' \in [Txn -> [Inst -> StepStatus]]
    BY <1>6, <1>0, HolderFacts, SetStepType DEF Activated, StepStatus, Commanding
  <2>2. acted' \subseteq Inst
    BY <1>6, <1>0, HolderFacts DEF Activated, Commanding
  <2>3. QED  BY <1>6, <1>0, <2>1, <2>2, GotoType DEF Activated, Working
<1>7. CASE ActivationFails
  <2>1. step' \in [Txn -> [Inst -> StepStatus]]
    BY <1>7, <1>0, HolderFacts, SetStepType DEF ActivationFails, StepStatus, Commanding
  <2>2. acted' \subseteq Inst
    BY <1>7, <1>0, HolderFacts DEF ActivationFails, Commanding
  <2>3. QED  BY <1>7, <1>0, <2>1, <2>2, GotoType DEF ActivationFails, Working
<1>8. CASE BeginHealth
  <2>1. txn' \in [Txn -> Journal] /\ step' \in [Txn -> [Inst -> StepStatus]] /\ UNCHANGED ledger
    BY <1>8, <1>0 DEF BeginHealth, db
  <2>2. QED  BY <1>8, <1>0, <2>1, GotoType DEF BeginHealth, Working, db
<1>9. CASE Commit
  <2>1. txn' \in [Txn -> Journal] /\ HolderOK'
    BY <1>9, <1>0, HolderFacts, SetStatusType, SettledType DEF Commit, TxnStatus, TypeOK
  <2>2. RowsOK' /\ VersionsOK'
    <3>1. txn[cur].to \in Release /\ cur \in Txn
      BY <1>9, <1>0, HolderFacts DEF Commit, Journal
    <3>2. receipts' \in [Txn -> Seq({"succeeded", "rolled_back"})]
      BY <1>9, <3>1 DEF Commit, AddReceipt, RowsOK, TypeOK
    <3>3. VersionsOK'
      BY <1>9, <3>1 DEF Commit, TypeOK, VersionsOK, Release
    <3>4. QED  BY <1>9, <1>0, <2>1, <3>2, <3>3 DEF Commit, RowsOK
  <2>3. SessionsOK'
    BY <1>9 DEF Commit, TypeOK, SessionsOK
  <2>4. QED  BY <2>1, <2>2, <2>3 DEF TypeOK
<1>10. CASE CommitFails
  <2>1. txn' \in [Txn -> Journal] /\ step' \in [Txn -> [Inst -> StepStatus]] /\ UNCHANGED ledger
    BY <1>10, <1>0 DEF CommitFails, db
  <2>2. QED  BY <1>10, <1>0, <2>1, GotoType DEF CommitFails, Working, db
<1>11. ASSUME NEW i \in Inst, Stage(i)  PROVE TypeOK'
  <2>1. step' \in [Txn -> [Inst -> StepStatus]]
    BY <1>11, <1>0, HolderFacts, SetStepType DEF Stage, StepStatus, Commanding
  <2>2. acted' \subseteq Inst
    BY <1>11, <1>0, HolderFacts DEF Stage, Commanding
  <2>3. QED  BY <1>11, <1>0, <2>1, <2>2, GotoType DEF Stage, Working
<1>12. ASSUME NEW i \in Inst, StageFails(i)  PROVE TypeOK'
  <2>1. step' \in [Txn -> [Inst -> StepStatus]]
    BY <1>12, <1>0, HolderFacts, SetStepType DEF StageFails, StepStatus
  <2>2. QED  BY <1>12, <2>1, FailTransactionType DEF StageFails
<1>13. ASSUME NEW i \in Inst, Activate(i)  PROVE TypeOK'
  <2>1. step' \in [Txn -> [Inst -> StepStatus]]
    BY <1>13, <1>0, HolderFacts, SetStepType DEF Activate, StepStatus
  <2>2. QED  BY <1>13, <2>1, StartType DEF Activate, Commanding
<1>14. ASSUME NEW i \in Inst, Healthy(i)  PROVE TypeOK'
  <2>1. step' \in [Txn -> [Inst -> StepStatus]]
    BY <1>14, <1>0, HolderFacts, SetStepType DEF Healthy, StepStatus, Commanding
  <2>2. acted' \subseteq Inst
    BY <1>14, <1>0, HolderFacts DEF Healthy, Commanding
  <2>3. QED  BY <1>14, <1>0, <2>1, <2>2, GotoType DEF Healthy, Working
<1>15. ASSUME NEW i \in Inst, Unhealthy(i)  PROVE TypeOK'
  <2>1. step' \in [Txn -> [Inst -> StepStatus]]
    BY <1>15, <1>0, HolderFacts, SetStepType DEF Unhealthy, StepStatus, Commanding
  <2>2. acted' \subseteq Inst
    BY <1>15, <1>0, HolderFacts DEF Unhealthy, Commanding
  <2>3. QED  BY <1>15, <1>0, <2>1, <2>2, GotoType DEF Unhealthy, Working
<1>16. QED
  BY <1>1, <1>2, <1>3, <1>4, <1>5, <1>6, <1>7, <1>8,
     <1>9, <1>10, <1>11, <1>12, <1>13, <1>14, <1>15 DEF Update

\* A step of compensate keeps the types.
LEMMA CompensationType ==
  ASSUME TypeOK, Compensation  PROVE TypeOK'
<1> USE DEF Idle
<1>0. step \in [Txn -> [Inst -> StepStatus]] /\ txn \in [Txn -> Journal] /\ acted \subseteq Inst
      /\ todo \subseteq Inst /\ bad \in BOOLEAN /\ RowsOK /\ StepsOf(cur) \subseteq Inst
  BY DEF TypeOK, RowsOK, HolderOK, StepsOf
<1>1. CASE BeginCompensation
  <2>1. txn' \in [Txn -> Journal]
    BY <1>1, <1>0, HolderFacts, SetStatusType DEF BeginCompensation, TxnStatus
  <2>2. QED  BY <1>1, <1>0, <2>1, GotoType DEF BeginCompensation, Working
<1>2. CASE CompensationRefused
  BY <1>2, <1>0, FailTransactionType DEF CompensationRefused
<1>3. CASE CompensationFails
  <2>1. txn' \in [Txn -> Journal] /\ step' \in [Txn -> [Inst -> StepStatus]] /\ UNCHANGED ledger
    BY <1>3, <1>0 DEF CompensationFails, db
  <2>2. QED  BY <1>3, <1>0, <2>1, GotoType DEF CompensationFails, Working, db
<1>4. CASE RecordRolledBack
  <2>1. txn' \in [Txn -> Journal] /\ HolderOK'
    BY <1>4, <1>0, HolderFacts, SetStatusType, SettledType DEF RecordRolledBack, TxnStatus, TypeOK
  <2>2. RowsOK' /\ VersionsOK'
    BY <1>4, <1>0, <2>1, HolderFacts
    DEF RecordRolledBack, AddReceipt, ledger, TypeOK, RowsOK, VersionsOK, Journal, Release
  <2>3. SessionsOK'
    BY <1>4 DEF RecordRolledBack, TypeOK, SessionsOK
  <2>4. QED  BY <2>1, <2>2, <2>3 DEF TypeOK
<1>5. CASE GiveUpCompensation
  <2>1. CASE ~recovering
    BY <1>5, <2>1, <1>0, FailTransactionType DEF GiveUpCompensation
  <2>2. CASE recovering
    <3>1. HolderOK'
      BY <1>5, <2>2, SettledType DEF GiveUpCompensation, TypeOK
    <3>2. RowsOK' /\ VersionsOK' /\ SessionsOK'
      BY <1>5, <2>2 DEF GiveUpCompensation, TypeOK, RowsOK, VersionsOK, SessionsOK, ledger
    <3>3. QED  BY <3>1, <3>2 DEF TypeOK
  <2>3. QED  BY <2>1, <2>2
<1>6. CASE Compensated
  <2>1. step' \in [Txn -> [Inst -> StepStatus]]
    BY <1>6, <1>0, HolderFacts, SetStepType DEF Compensated, StepStatus, Commanding
  <2>2. acted' \subseteq Inst
    BY <1>6, <1>0, HolderFacts DEF Compensated, Commanding
  <2>3. QED  BY <1>6, <1>0, <2>1, <2>2, GotoType DEF Compensated, Working
<1>7. ASSUME NEW i \in Inst, Compensate(i)  PROVE TypeOK'
  <2>1. step' \in [Txn -> [Inst -> StepStatus]]
    BY <1>7, <1>0, HolderFacts, SetStepType DEF Compensate, StepStatus
  <2>2. QED  BY <1>7, <2>1, StartType DEF Compensate, Commanding
<1>8. ASSUME NEW i \in Inst, CannotCompensate(i)  PROVE TypeOK'
  <2>1. txn' \in [Txn -> Journal] /\ step' \in [Txn -> [Inst -> StepStatus]] /\ UNCHANGED ledger
    BY <1>8, <1>0 DEF CannotCompensate, db
  <2>2. QED  BY <1>8, <1>0, <2>1, GotoType DEF CannotCompensate, Working, db
<1>9. QED  BY <1>1, <1>2, <1>3, <1>4, <1>5, <1>6, <1>7, <1>8 DEF Compensation

\* A step of ExecuteRollback or finishExplicitRollback keeps the types.
LEMMA ExplicitRollbackType ==
  ASSUME TypeOK, ExplicitRollback  PROVE TypeOK'
<1> USE DEF Idle
<1>0. step \in [Txn -> [Inst -> StepStatus]] /\ txn \in [Txn -> Journal] /\ acted \subseteq Inst
      /\ todo \subseteq Inst /\ bad \in BOOLEAN /\ RowsOK /\ StepsOf(cur) \subseteq Inst
  BY DEF TypeOK, RowsOK, HolderOK, StepsOf
<1>1. CASE BeginRollback
  <2>1. txn' \in [Txn -> Journal]
    BY <1>1, <1>0, HolderFacts, SetStatusType DEF BeginRollback, TxnStatus
  <2>2. QED  BY <1>1, <1>0, <2>1, GotoType DEF BeginRollback, Working
<1>2. CASE RolledBack
  <2>1. step' \in [Txn -> [Inst -> StepStatus]]
    BY <1>2, <1>0, HolderFacts, SetStepType DEF RolledBack, StepStatus, Commanding
  <2>2. acted' \subseteq Inst
    BY <1>2, <1>0, HolderFacts DEF RolledBack, Commanding
  <2>3. QED  BY <1>2, <1>0, <2>1, <2>2, GotoType DEF RolledBack, Working
<1>3. CASE RollbackFails
  <2>1. step' \in [Txn -> [Inst -> StepStatus]]
    BY <1>3, <1>0, HolderFacts, SetStepType DEF RollbackFails, StepStatus, Commanding
  <2>2. acted' \subseteq Inst
    BY <1>3, <1>0, HolderFacts DEF RollbackFails, Commanding
  <2>3. QED  BY <1>3, <1>0, <2>1, <2>2, GotoType DEF RollbackFails, Working
<1>4. CASE Restored
  <2>1. txn' \in [Txn -> Journal] /\ step' \in [Txn -> [Inst -> StepStatus]] /\ UNCHANGED ledger
    BY <1>4, <1>0 DEF Restored, db
  <2>2. QED  BY <1>4, <1>0, <2>1, GotoType DEF Restored, Working, db
<1>5. CASE RestoreDone
  BY <1>5, <1>0, FailTransactionType DEF RestoreDone
<1>6. ASSUME NEW i \in Inst, Rollback(i)  PROVE TypeOK'
  <2>1. step' \in [Txn -> [Inst -> StepStatus]]
    BY <1>6, <1>0, HolderFacts, SetStepType DEF Rollback, StepStatus
  <2>2. QED  BY <1>6, <2>1, StartType DEF Rollback, Commanding
<1>7. ASSUME NEW i \in Inst, Restore(i)  PROVE TypeOK'
  <2>1. step' \in [Txn -> [Inst -> StepStatus]]
    BY <1>7, <1>0, HolderFacts, SetStepType DEF Restore, StepStatus
  <2>2. QED  BY <1>7, <2>1, StartType DEF Restore, Commanding
<1>8. QED  BY <1>1, <1>2, <1>3, <1>4, <1>5, <1>6, <1>7 DEF ExplicitRollback

\* The effect of a command keeps the types.
LEMMA CommandTakesEffectType ==
  ASSUME TypeOK, CommandTakesEffect  PROVE TypeOK'
<1>1. at \in Inst /\ CommandTarget \in Version
  BY HolderFacts, CommandTargetType, PointFacts DEF CommandTakesEffect, TypeOK
<1>2. VersionsOK'
  BY <1>1 DEF CommandTakesEffect, TypeOK, VersionsOK, Release, db, ledger
<1>3. RowsOK' /\ HolderOK' /\ SessionsOK'
  BY DEF CommandTakesEffect, TypeOK, RowsOK, HolderOK, SessionsOK, db, ledger
<1>4. QED  BY <1>2, <1>3 DEF TypeOK

\* A step of the worker keeps the types.
LEMMA WorkerType ==
  ASSUME TypeOK, Worker  PROVE TypeOK'
<1> USE DEF TypeOK
<1>1. CASE WorkerStarts \/ RecoveryDone \/ WorkerDone
  <2>1. HolderOK'
    BY <1>1 DEF WorkerStarts, RecoveryDone, WorkerDone, HolderOK, Idle, Commanding, loop
  <2>2. RowsOK' /\ VersionsOK' /\ SessionsOK'
    BY <1>1 DEF WorkerStarts, RecoveryDone, WorkerDone, RowsOK, VersionsOK, SessionsOK, db, ledger
  <2>3. QED  BY <2>1, <2>2
<1>2. CASE WorkerScans
  <2> PICK k \in 0..N, complete \in BOOLEAN :
           DiscoverUpTo(k, complete) /\ pc' \in {"schedule", "free"}
    BY <1>2 DEF WorkerScans
  <2>1. RowsOK' /\ VersionsOK' /\ SessionsOK' /\ UNCHANGED <<cur, todo, acted, saved, at, ran, bad>>
    BY DiscoverType
  <2>2. HolderOK'
    BY <1>2, <2>1 DEF WorkerScans, HolderOK, Idle, Commanding
  <2>3. QED  BY <2>1, <2>2
<1>3. CASE WorkerUpdates
  <2> PICK r \in Resolvable : OpenTransaction(UpdatePreview(r, FALSE))
    BY <1>3 DEF WorkerUpdates
  <2>1. UpdatePreview(r, FALSE) \in Preview
    BY NotBehindType DEF UpdatePreview, Preview, VersionsOK
  <2>2. RowsOK' /\ VersionsOK' /\ HolderOK' /\ UNCHANGED <<crashes, scanned>>
    BY <1>3, <2>1, OpenTransactionType DEF WorkerUpdates, Idle
  <2>3. SessionsOK'
    BY <1>3, <2>2 DEF WorkerUpdates, SessionsOK
  <2>4. QED  BY <2>2, <2>3
<1>4. ASSUME NEW t \in Txn, RecoverUnstarted(t)  PROVE TypeOK'
  <2>1. txn' \in [Txn -> Journal]
    BY <1>4, SetStatusType DEF RecoverUnstarted, TxnStatus
  <2>2. HolderOK'
    BY <1>4 DEF RecoverUnstarted, HolderOK, loop
  <2>3. RowsOK' /\ VersionsOK' /\ SessionsOK'
    BY <1>4, <2>1 DEF RecoverUnstarted, RowsOK, VersionsOK, SessionsOK, ledger
  <2>4. QED  BY <2>2, <2>3
<1>5. ASSUME NEW t \in Txn, RecoverUpdate(t)  PROVE TypeOK'
  <2>1. HolderOK'
    BY <1>5, ZeroIsNone
    DEF RecoverUpdate, HolderOK, VersionsOK, Idle, Working, Commanding, StepsOf, db, ledger
  <2>2. RowsOK' /\ VersionsOK' /\ SessionsOK'
    BY <1>5 DEF RecoverUpdate, RowsOK, VersionsOK, SessionsOK, db, ledger
  <2>3. QED  BY <2>1, <2>2
<1>6. ASSUME NEW t \in Txn, RecoverRollback(t)  PROVE TypeOK'
  <2>1. HolderOK'
    BY <1>6, ZeroIsNone
    DEF RecoverRollback, HolderOK, VersionsOK, Idle, Working, Commanding, StepsOf, db, ledger
  <2>2. RowsOK' /\ VersionsOK' /\ SessionsOK'
    BY <1>6 DEF RecoverRollback, RowsOK, VersionsOK, SessionsOK, db, ledger
  <2>3. QED  BY <2>1, <2>2
<1>7. QED  BY <1>1, <1>2, <1>3, <1>4, <1>5, <1>6 DEF Worker

\* Every variable keeps its type, and the holder its bookkeeping, through crashes,
\* recoveries, scans that take no lock, and any number of transactions.
THEOREM TypeCorrect == Spec => []TypeOK
<1>1. Init => TypeOK
  <2> SUFFICES ASSUME Init  PROVE TypeOK
    OBVIOUS
  <2>1. RowsOK /\ VersionsOK
    BY ReleasesAssumption
    DEF Init, RowsOK, VersionsOK, NoTxn, Journal, TxnStatus, StepStatus
  <2>2. HolderOK
    BY DEF Init, HolderOK, Idle, Commanding
  <2>3. SessionsOK
    BY InstancesAssumption DEF Init, SessionsOK
  <2>4. QED  BY <2>1, <2>2, <2>3 DEF TypeOK
<1>2. TypeOK /\ [Next]_vars => TypeOK'
  <2> SUFFICES ASSUME TypeOK, [Next]_vars  PROVE TypeOK'
    OBVIOUS
  <2>1. CASE Client               BY <2>1, ClientType
  <2>2. CASE Update               BY <2>2, UpdateType
  <2>3. CASE Compensation         BY <2>3, CompensationType
  <2>4. CASE ExplicitRollback     BY <2>4, ExplicitRollbackType
  <2>5. CASE CommandTakesEffect   BY <2>5, CommandTakesEffectType
  <2>6. CASE Worker               BY <2>6, WorkerType
  <2>7. CASE CommandLineScans
    <3> PICK k \in 0..N, complete \in BOOLEAN : DiscoverUpTo(k, complete)
      BY <2>7 DEF CommandLineScans
    <3>1. RowsOK' /\ VersionsOK' /\ SessionsOK'
          /\ UNCHANGED <<cur, todo, acted, saved, at, ran, bad>>
      BY DiscoverType
    <3>2. HolderOK'
      BY <2>7, <3>1 DEF CommandLineScans, TypeOK, HolderOK
    <3>3. QED  BY <3>1, <3>2 DEF TypeOK
  <2>8. CASE Configure
    <3>1. RowsOK' /\ VersionsOK' /\ HolderOK'
      BY <2>8 DEF Configure, TypeOK, RowsOK, VersionsOK, HolderOK, db, ledger, loop
    <3>2. SessionsOK'
      BY <2>8 DEF Configure, TypeOK, SessionsOK, Preview, NoPreview
    <3>3. QED  BY <3>1, <3>2 DEF TypeOK
  <2>9. CASE Crash
    <3>1. HolderOK'
      BY <2>9, SettledType DEF Crash, TypeOK
    <3>2. RowsOK' /\ VersionsOK' /\ SessionsOK'
      BY <2>9, InstancesAssumption DEF Crash, TypeOK, RowsOK, VersionsOK, SessionsOK, db, ledger
    <3>3. QED  BY <3>1, <3>2 DEF TypeOK
  <2>10. CASE UNCHANGED vars
    BY <2>10 DEF vars, db, ledger, loop, TypeOK, RowsOK, VersionsOK, HolderOK, SessionsOK
  <2>11. QED
    BY <2>1, <2>2, <2>3, <2>4, <2>5, <2>6, <2>7, <2>8, <2>9, <2>10 DEF Next, Holder
<1>3. QED  BY <1>1, <1>2, PTL DEF Spec

-----------------------------------------------------------------------------
(* The journal and its receipts.  HolderFollowsJournal makes                 *)
(* ReceiptMatchesStatus inductive: a process that settles a transaction must *)
(* know that nobody settled it before.                                       *)

RollbackPreviewsAreFull ==
  \A c \in Clients : previews[c].kind = "rollback" => ~previews[c].stageOnly

JournalInv == HolderFollowsJournal /\ ReceiptMatchesStatus /\ RollbackPreviewsAreFull

\* Opening a transaction: its row was unused, and it starts at "prepared".
LEMMA OpenTransactionJournal ==
  ASSUME TypeOK, JournalInv, NEW p \in Preview, p.kind = "rollback" => ~p.stageOnly,
         OpenTransaction(p), pc \in Idle
  PROVE  HolderFollowsJournal' /\ ReceiptMatchesStatus'
<1> PICK t \in Txn :
      /\ txn[t].status = "none"
      /\ txn' = [txn EXCEPT ![t] = [status |-> "prepared", kind |-> p.kind,
                    stageOnly |-> p.stageOnly, from |-> p.from, to |-> p.to]]
      /\ pc' = "prepared" /\ cur' = t /\ receipts' = receipts
  BY DEF OpenTransaction, ledger
<1>1. txn \in [Txn -> Journal]
  BY DEF TypeOK, RowsOK
<1>2. HolderFollowsJournal'
  BY <1>1 DEF JournalInv, HolderFollowsJournal, Explicit
<1>3. ReceiptMatchesStatus'
  BY <1>1 DEF JournalInv, ReceiptMatchesStatus
<1>4. QED  BY <1>2, <1>3

\* A scan leaves the journal alone, whoever runs it, and the kind of every preview.
LEMMA DiscoverJournal ==
  ASSUME TypeOK, JournalInv, NEW k \in 0..N, NEW complete \in BOOLEAN,
         DiscoverUpTo(k, complete), pc' = pc \/ pc' \in Idle
  PROVE  JournalInv'
<1>1. UNCHANGED <<txn, receipts, cur>>
  BY DEF DiscoverUpTo, loop
<1>2. HolderFollowsJournal' /\ ReceiptMatchesStatus'
  BY <1>1 DEF JournalInv, HolderFollowsJournal, ReceiptMatchesStatus, Explicit, Idle
<1>3. RollbackPreviewsAreFull'
  BY DEF DiscoverUpTo, JournalInv, RollbackPreviewsAreFull, TypeOK, SessionsOK, Preview, NoPreview
<1>4. QED  BY <1>2, <1>3 DEF JournalInv

\* Preparing, executing or rejecting a preview keeps the journal invariant.
LEMMA ClientJournal ==
  ASSUME TypeOK, JournalInv, Client  PROVE JournalInv'
<1> USE DEF JournalInv, HolderFollowsJournal, ReceiptMatchesStatus, RollbackPreviewsAreFull, Explicit
<1>0. txn \in [Txn -> Journal] /\ receipts \in [Txn -> Seq({"succeeded", "rolled_back"})]
      /\ (pc \notin Idle => cur \in Txn) /\ previews \in [Clients -> Preview \cup {NoPreview}]
  BY DEF TypeOK, RowsOK, HolderOK, SessionsOK
<1>1. ASSUME NEW c \in Clients, PrepareUpdate(c)  PROVE JournalInv'
  <2>1. UNCHANGED <<txn, receipts, pc, cur>>
    BY <1>1 DEF PrepareUpdate, db, ledger
  <2>2. HolderFollowsJournal' /\ ReceiptMatchesStatus'
    BY <2>1
  <2>3. RollbackPreviewsAreFull'
    BY <1>1, <1>0 DEF PrepareUpdate, UpdatePreview, RollbackPreview, NoPreview
  <2>4. QED  BY <2>2, <2>3
<1>2. ASSUME NEW c \in Clients, PrepareRollback(c)  PROVE JournalInv'
  <2>1. UNCHANGED <<txn, receipts, pc, cur>>
    BY <1>2 DEF PrepareRollback, db, ledger
  <2>2. HolderFollowsJournal' /\ ReceiptMatchesStatus'
    BY <2>1
  <2>3. RollbackPreviewsAreFull'
    BY <1>2, <1>0 DEF PrepareRollback, UpdatePreview, RollbackPreview, NoPreview
  <2>4. QED  BY <2>2, <2>3
<1>3. ASSUME NEW c \in Clients, Execute(c)  PROVE JournalInv'
  <2>1. HolderFollowsJournal' /\ ReceiptMatchesStatus'
    <3>1. previews[c] \in Preview /\ pc \in Idle
      BY <1>3, <1>0 DEF Execute, Idle
    <3>2. QED  BY <1>3, <3>1, OpenTransactionJournal DEF Execute
  <2>2. RollbackPreviewsAreFull'
    BY <1>3, <1>0 DEF Execute, NoPreview
  <2>3. QED  BY <2>1, <2>2
<1>4. ASSUME NEW c \in Clients, Reject(c)  PROVE JournalInv'
  <2>1. UNCHANGED <<txn, receipts, pc, cur>>
    BY <1>4 DEF Reject, db, ledger
  <2>2. HolderFollowsJournal' /\ ReceiptMatchesStatus'
    BY <2>1
  <2>3. RollbackPreviewsAreFull'
    BY <1>4, <1>0 DEF Reject, UpdatePreview, RollbackPreview, NoPreview
  <2>4. QED  BY <2>2, <2>3
<1>5. QED  BY <1>1, <1>2, <1>3, <1>4 DEF Client

\* A step of ExecuteUpdate keeps the journal invariant.
LEMMA UpdateJournal ==
  ASSUME TypeOK, JournalInv, Update  PROVE JournalInv'
<1> USE DEF JournalInv, HolderFollowsJournal, ReceiptMatchesStatus, RollbackPreviewsAreFull, Explicit
<1>0. txn \in [Txn -> Journal] /\ receipts \in [Txn -> Seq({"succeeded", "rolled_back"})]
      /\ (pc \notin Idle => cur \in Txn) /\ previews \in [Clients -> Preview \cup {NoPreview}]
  BY DEF TypeOK, RowsOK, HolderOK, SessionsOK
<1>1. CASE SetupFails
  BY <1>1, <1>0 DEF SetupFails, SetStatus, FailTransaction, Exit, ledger, Journal, Idle
<1>2. CASE JournalFails
  BY <1>2, <1>0 DEF JournalFails, SetStatus, FailTransaction, Exit, ledger, Journal, Idle
<1>3. CASE BeginStaging
  BY <1>3, <1>0 DEF BeginStaging, SetStatus, Goto, ledger, Journal, Idle
<1>4. CASE CommitStaged
  BY <1>4, <1>0 DEF CommitStaged, SetStatus, Exit, ledger, Journal, Idle
<1>5. CASE BeginActivation
  BY <1>5, <1>0 DEF BeginActivation, SetStatus, Goto, ledger, Journal, Idle
<1>6. CASE Activated
  BY <1>6, <1>0 DEF Activated, Goto, ledger, Idle
<1>7. CASE ActivationFails
  BY <1>7, <1>0 DEF ActivationFails, Goto, ledger, Idle
<1>8. CASE BeginHealth
  BY <1>8, <1>0 DEF BeginHealth, Goto, db, ledger, Idle
<1>9. CASE Commit
  <2>1. pc' \in {"free", "recover"} /\ UNCHANGED previews
    BY <1>9 DEF Commit, Settled, Exit
  <2>2. cur \in Txn /\ txn[cur].status \in {"activating", "rolling_back"} /\ ~txn[cur].stageOnly
        /\ receipts[cur] = <<>>
    BY <1>9, <1>0 DEF Commit, Idle
  <2>3. txn' = [txn EXCEPT ![cur].status = "committed"]
        /\ receipts' = [receipts EXCEPT ![cur] = <<"succeeded">>]
    BY <1>9, <1>0, <2>2 DEF Commit, SetStatus, AddReceipt
  <2>4. HolderFollowsJournal' /\ ReceiptMatchesStatus'
    BY <1>0, <2>1, <2>2, <2>3 DEF Journal
  <2>5. QED  BY <2>1, <2>4
<1>10. CASE CommitFails
  BY <1>10, <1>0 DEF CommitFails, Goto, db, ledger, Idle
<1>11. ASSUME NEW i \in Inst, Stage(i)  PROVE JournalInv'
  BY <1>11, <1>0 DEF Stage, Goto, ledger, Idle
<1>12. ASSUME NEW i \in Inst, StageFails(i)  PROVE JournalInv'
  BY <1>12, <1>0 DEF StageFails, SetStatus, FailTransaction, Exit, ledger, Journal, Idle
<1>13. ASSUME NEW i \in Inst, Activate(i)  PROVE JournalInv'
  BY <1>13, <1>0 DEF Activate, Start, ledger, Idle
<1>14. ASSUME NEW i \in Inst, Healthy(i)  PROVE JournalInv'
  BY <1>14, <1>0 DEF Healthy, Goto, ledger, Idle
<1>15. ASSUME NEW i \in Inst, Unhealthy(i)  PROVE JournalInv'
  BY <1>15, <1>0 DEF Unhealthy, Goto, ledger, Idle
<1>16. QED
  BY <1>1, <1>2, <1>3, <1>4, <1>5, <1>6, <1>7, <1>8,
     <1>9, <1>10, <1>11, <1>12, <1>13, <1>14, <1>15 DEF Update

\* A step of compensate keeps the journal invariant.
LEMMA CompensationJournal ==
  ASSUME TypeOK, JournalInv, Compensation  PROVE JournalInv'
<1> USE DEF JournalInv, HolderFollowsJournal, ReceiptMatchesStatus, RollbackPreviewsAreFull, Explicit
<1>0. txn \in [Txn -> Journal] /\ receipts \in [Txn -> Seq({"succeeded", "rolled_back"})]
      /\ (pc \notin Idle => cur \in Txn) /\ previews \in [Clients -> Preview \cup {NoPreview}]
  BY DEF TypeOK, RowsOK, HolderOK, SessionsOK
<1>1. CASE BeginCompensation
  BY <1>1, <1>0 DEF BeginCompensation, SetStatus, Goto, ledger, Journal, Idle
<1>2. CASE CompensationRefused
  BY <1>2, <1>0 DEF CompensationRefused, SetStatus, FailTransaction, Exit, ledger, Journal, Idle
<1>3. CASE CompensationFails
  BY <1>3, <1>0 DEF CompensationFails, Goto, db, ledger, Idle
<1>4. CASE RecordRolledBack
  <2>1. pc' \in {"free", "recover"} /\ UNCHANGED previews
    BY <1>4 DEF RecordRolledBack, Settled, Exit
  <2>2. cur \in Txn /\ txn[cur].status = "rolling_back" /\ ~txn[cur].stageOnly
        /\ receipts[cur] = <<>>
    BY <1>4, <1>0 DEF RecordRolledBack, Idle
  <2>3. txn' = [txn EXCEPT ![cur].status = "rolled_back"]
        /\ receipts' = [receipts EXCEPT ![cur] = <<"rolled_back">>]
    BY <1>4, <1>0, <2>2 DEF RecordRolledBack, SetStatus, AddReceipt
  <2>4. HolderFollowsJournal' /\ ReceiptMatchesStatus'
    BY <1>0, <2>1, <2>2, <2>3 DEF Journal
  <2>5. QED  BY <2>1, <2>4
<1>5. CASE GiveUpCompensation
  <2>1. CASE recovering
    <3>1. pc' = "free" /\ UNCHANGED <<txn, receipts, previews>>
      BY <1>5, <2>1 DEF GiveUpCompensation, Exit, ledger
    <3>2. QED  BY <3>1
  <2>2. CASE ~recovering
    <3>1. pc' = "free" /\ UNCHANGED <<receipts, previews>>
          /\ txn' = [txn EXCEPT ![cur].status = "failed"]
      BY <1>5, <2>2 DEF GiveUpCompensation, FailTransaction, SetStatus, Exit, ledger
    <3>2. cur \in Txn /\ txn[cur].status = "rolling_back"
      BY <1>5, <1>0 DEF GiveUpCompensation, Idle
    <3>3. QED  BY <1>0, <3>1, <3>2 DEF Journal
  <2>3. QED  BY <2>1, <2>2
<1>6. CASE Compensated
  BY <1>6, <1>0 DEF Compensated, Goto, ledger, Idle
<1>7. ASSUME NEW i \in Inst, Compensate(i)  PROVE JournalInv'
  BY <1>7, <1>0 DEF Compensate, Start, ledger, Idle
<1>8. ASSUME NEW i \in Inst, CannotCompensate(i)  PROVE JournalInv'
  BY <1>8, <1>0 DEF CannotCompensate, Goto, db, ledger, Idle
<1>9. QED  BY <1>1, <1>2, <1>3, <1>4, <1>5, <1>6, <1>7, <1>8 DEF Compensation

\* A step of ExecuteRollback or finishExplicitRollback keeps the journal invariant.
LEMMA ExplicitRollbackJournal ==
  ASSUME TypeOK, JournalInv, ExplicitRollback  PROVE JournalInv'
<1> USE DEF JournalInv, HolderFollowsJournal, ReceiptMatchesStatus, RollbackPreviewsAreFull, Explicit
<1>0. txn \in [Txn -> Journal] /\ receipts \in [Txn -> Seq({"succeeded", "rolled_back"})]
      /\ (pc \notin Idle => cur \in Txn) /\ previews \in [Clients -> Preview \cup {NoPreview}]
  BY DEF TypeOK, RowsOK, HolderOK, SessionsOK
<1>1. CASE BeginRollback
  BY <1>1, <1>0 DEF BeginRollback, SetStatus, Goto, ledger, Journal, Idle
<1>2. CASE RolledBack
  BY <1>2, <1>0 DEF RolledBack, Goto, ledger, Idle
<1>3. CASE RollbackFails
  BY <1>3, <1>0 DEF RollbackFails, Goto, ledger, Idle
<1>4. CASE Restored
  BY <1>4, <1>0 DEF Restored, Goto, db, ledger, Idle
<1>5. CASE RestoreDone
  BY <1>5, <1>0 DEF RestoreDone, SetStatus, FailTransaction, Exit, ledger, Journal, Idle
<1>6. ASSUME NEW i \in Inst, Rollback(i)  PROVE JournalInv'
  BY <1>6, <1>0 DEF Rollback, Start, ledger, Idle
<1>7. ASSUME NEW i \in Inst, Restore(i)  PROVE JournalInv'
  BY <1>7, <1>0 DEF Restore, Start, ledger, Idle
<1>8. QED  BY <1>1, <1>2, <1>3, <1>4, <1>5, <1>6, <1>7 DEF ExplicitRollback

\* A step of the worker keeps the journal invariant.
LEMMA WorkerJournal ==
  ASSUME TypeOK, JournalInv, Worker  PROVE JournalInv'
<1> USE DEF JournalInv, HolderFollowsJournal, ReceiptMatchesStatus, RollbackPreviewsAreFull, Explicit
<1>0. txn \in [Txn -> Journal] /\ receipts \in [Txn -> Seq({"succeeded", "rolled_back"})]
      /\ (pc \notin Idle => cur \in Txn) /\ previews \in [Clients -> Preview \cup {NoPreview}]
  BY DEF TypeOK, RowsOK, HolderOK, SessionsOK
<1>1. CASE WorkerStarts
  BY <1>1, <1>0 DEF WorkerStarts, db, ledger, Idle
<1>2. CASE RecoveryDone
  BY <1>2, <1>0 DEF RecoveryDone, db, ledger, Idle
<1>3. CASE WorkerScans
  BY <1>3, DiscoverJournal DEF WorkerScans, Idle
<1>4. CASE WorkerUpdates
  <2> PICK r \in Resolvable : OpenTransaction(UpdatePreview(r, FALSE))
    BY <1>4 DEF WorkerUpdates
  <2>1. UpdatePreview(r, FALSE) \in Preview /\ UpdatePreview(r, FALSE).kind = "update"
    BY NotBehindType DEF UpdatePreview, Preview, VersionsOK, TypeOK
  <2>2. HolderFollowsJournal' /\ ReceiptMatchesStatus'
    BY <1>4, <2>1, OpenTransactionJournal DEF WorkerUpdates, Idle
  <2>3. QED  BY <1>4, <2>2 DEF WorkerUpdates
<1>5. CASE WorkerDone
  BY <1>5, <1>0 DEF WorkerDone, db, ledger, Idle
<1>6. ASSUME NEW t \in Txn, RecoverUnstarted(t)  PROVE JournalInv'
  BY <1>6, <1>0 DEF RecoverUnstarted, SetStatus, ledger, Journal, Idle
<1>7. ASSUME NEW t \in Txn, RecoverUpdate(t)  PROVE JournalInv'
  BY <1>7, <1>0 DEF RecoverUpdate, db, ledger, Idle
<1>8. ASSUME NEW t \in Txn, RecoverRollback(t)  PROVE JournalInv'
  BY <1>8, <1>0 DEF RecoverRollback, db, ledger, Idle
<1>9. QED  BY <1>1, <1>2, <1>3, <1>4, <1>5, <1>6, <1>7, <1>8 DEF Worker

\* Every step keeps the journal invariant.
LEMMA JournalStep ==
  ASSUME TypeOK, JournalInv, [Next]_vars  PROVE JournalInv'
<1>1. CASE Client               BY <1>1, ClientJournal
<1>2. CASE Update               BY <1>2, UpdateJournal
<1>3. CASE Compensation         BY <1>3, CompensationJournal
<1>4. CASE ExplicitRollback     BY <1>4, ExplicitRollbackJournal
<1>5. CASE Worker               BY <1>5, WorkerJournal
<1>6. CASE CommandLineScans     BY <1>6, DiscoverJournal DEF CommandLineScans
<1>7. CASE Crash
  <2>1. pc' = "free" /\ UNCHANGED <<txn, receipts, previews>>
    BY <1>7 DEF Crash, Exit, db, ledger
  <2>2. QED
    BY <2>1 DEF JournalInv, HolderFollowsJournal, ReceiptMatchesStatus, RollbackPreviewsAreFull, Explicit
<1>8. CASE Configure
  <2>1. UNCHANGED <<txn, receipts, pc, cur>>
    BY <1>8 DEF Configure, db, ledger
  <2>2. RollbackPreviewsAreFull'
    BY <1>8 DEF Configure, JournalInv, RollbackPreviewsAreFull, TypeOK, SessionsOK, Preview, NoPreview
  <2>3. QED
    BY <2>1, <2>2 DEF JournalInv, HolderFollowsJournal, ReceiptMatchesStatus, Explicit
<1>9. CASE CommandTakesEffect \/ UNCHANGED vars
  <2>1. UNCHANGED <<txn, receipts, pc, cur, previews>>
    BY <1>9 DEF CommandTakesEffect, vars, db, ledger
  <2>2. QED
    BY <2>1 DEF JournalInv, HolderFollowsJournal, ReceiptMatchesStatus, RollbackPreviewsAreFull, Explicit
<1>10. QED
  BY <1>1, <1>2, <1>3, <1>4, <1>5, <1>6, <1>7, <1>8, <1>9 DEF Next, Holder

\* The journal invariant holds throughout.
LEMMA JournalCorrect == Spec => [](TypeOK /\ JournalInv)
<1>1. Init => JournalInv
  BY DEF Init, JournalInv, HolderFollowsJournal, ReceiptMatchesStatus, RollbackPreviewsAreFull,
         Explicit, NoTxn, NoPreview
<1>2. TypeOK /\ JournalInv /\ [Next]_vars => JournalInv'
  BY JournalStep
<1>3. QED  BY <1>1, <1>2, TypeCorrect, PTL DEF Spec

\* At every control point the journal shows the status whose recovery is the right one,
\* and nothing that is only to be staged is activated or undone.
THEOREM HolderCorrect == Spec => []HolderFollowsJournal
BY JournalCorrect, PTL DEF JournalInv

\* Every transaction has exactly the receipt of its outcome, or none when it has not
\* been installed or rolled back.
THEOREM ReceiptsCorrect == Spec => []ReceiptMatchesStatus
BY JournalCorrect, PTL DEF JournalInv

-----------------------------------------------------------------------------
(* The journal implements the ledger *)

\* A transaction that stays unfinished stays open.
LEMMA StaysOpen ==
  ASSUME TypeOK, NEW t \in Txn, Open(t), NEW s \in Unfinished, SetStatus(t, s)
  PROVE  UNCHANGED <<Outcome, Target>>
BY DEF TypeOK, RowsOK, Journal, Open, Unfinished, SetStatus, Outcome, Target

\* A transaction whose status becomes terminal is settled, and nothing else is.
LEMMA IsSettled ==
  ASSUME TypeOK, NEW t \in Txn, Open(t), NEW s \in Terminal, SetStatus(t, s)
  PROVE  Ledger!Settle(t, s)
BY DEF TypeOK, RowsOK, Journal, Open, Unfinished, Terminal, SetStatus, Outcome, Target,
       Ledger!Settle

\* failTransaction abandons what is open.
LEMMA FailTransactionAbandons ==
  ASSUME TypeOK, cur \in Txn, Open(cur), FailTransaction
  PROVE  Ledger!Abandon(cur)
BY IsSettled DEF FailTransaction, ledger, Ledger!Abandon, Terminal

\* The transaction at work is open: the journal's status at each point is unfinished.
LEMMA AtWorkIsOpen ==
  ASSUME TypeOK, HolderFollowsJournal, pc \notin Idle
  PROVE  cur \in Txn /\ Open(cur)
BY HolderFacts DEF HolderFollowsJournal, Open, Unfinished, TypeOK, HolderOK, Working, Commanding, Idle

\* Opening a transaction for a preview opens it in the ledger.
LEMMA OpenTransactionOpens ==
  ASSUME TypeOK, NEW p \in Preview, OpenTransaction(p)
  PROVE  \E t \in Txn, r \in Release : Ledger!Open(t, r)
<1> PICK t \in Txn :
      /\ txn[t].status = "none"
      /\ txn' = [txn EXCEPT ![t] = [status |-> "prepared", kind |-> p.kind,
                    stageOnly |-> p.stageOnly, from |-> p.from, to |-> p.to]]
      /\ UNCHANGED <<receipts, current>>
  BY DEF OpenTransaction, ledger
<1>1. p.to \in Release
  BY DEF Preview
<1>2. Ledger!Open(t, p.to)
  BY DEF TypeOK, RowsOK, Journal, Open, Unfinished, Outcome, Target, Ledger!Open
<1>3. QED  BY <1>1, <1>2

\* A scan is an observation.
LEMMA DiscoverObserves ==
  ASSUME TypeOK, NEW k \in 0..N, NEW complete \in BOOLEAN, DiscoverUpTo(k, complete)
  PROVE  [Ledger!LedgerNext]_(Ledger!lvars)
<1>1. VersionsOK' /\ UNCHANGED <<txn, receipts>>
  BY DiscoverType DEF DiscoverUpTo
<1>2. UNCHANGED <<Outcome, Target>>
  BY <1>1 DEF Outcome, Target, Open
<1>3. Ledger!Observe
  BY <1>1, <1>2 DEF VersionsOK, Ledger!Observe
<1>4. QED  BY <1>3 DEF Ledger!LedgerNext

\* Every step of the journal is a step of the ledger, or none.
LEMMA LedgerStep ==
  ASSUME TypeOK, JournalInv, [Next]_vars
  PROVE  [Ledger!LedgerNext]_(Ledger!lvars)
<1> USE DEF Ledger!LedgerNext, Ledger!lvars
<1>0. HolderFollowsJournal /\ (pc \notin Idle => cur \in Txn /\ Open(cur))
  BY AtWorkIsOpen DEF JournalInv
<1>1. ASSUME UNCHANGED <<txn, receipts, current>>  PROVE UNCHANGED <<Outcome, Target, current, receipts>>
  BY <1>1 DEF Outcome, Target, Open
<1>2. CASE Client
  <2>1. CASE \/ \E c \in Clients : PrepareUpdate(c) \/ PrepareRollback(c) \/ Reject(c)
    <3>1. UNCHANGED <<txn, receipts, current>>
      BY <2>1 DEF PrepareUpdate, db, ledger, PrepareRollback, Reject
    <3>2. QED  BY <3>1, <1>1
  <2>2. CASE \E c \in Clients : Execute(c)
    <3> PICK c \in Clients : Execute(c)
      BY <2>2
    <3>1. previews[c] \in Preview
      BY DEF Execute, TypeOK, SessionsOK
    <3>2. QED  BY <3>1, OpenTransactionOpens DEF Execute
  <2>3. QED  BY <1>2, <2>1, <2>2 DEF Client
<1>3. CASE Update
  <2>1. CASE \/ Activated \/ ActivationFails \/ BeginHealth \/ CommitFails
             \/ \E i \in Inst : Stage(i) \/ Activate(i) \/ Healthy(i) \/ Unhealthy(i)
    <3>1. UNCHANGED <<txn, receipts, current>>
      BY <2>1 DEF Activated, Goto, ledger, ActivationFails, BeginHealth, db, CommitFails,
             Stage, Activate, Start, Healthy, Unhealthy
    <3>2. QED  BY <3>1, <1>1
  <2>2. CASE BeginStaging
    BY <2>2, <1>0, StaysOpen DEF BeginStaging, Goto, ledger, Idle, Unfinished
  <2>3. CASE BeginActivation
    BY <2>3, <1>0, StaysOpen DEF BeginActivation, Goto, ledger, Idle, Unfinished
  <2>4. CASE SetupFails
    BY <2>4, <1>0, FailTransactionAbandons DEF SetupFails, Idle
  <2>5. CASE JournalFails
    BY <2>5, <1>0, FailTransactionAbandons DEF JournalFails, Idle
  <2>6. CASE \E i \in Inst : StageFails(i)
    BY <2>6, <1>0, FailTransactionAbandons DEF StageFails, Idle
  <2>7. CASE CommitStaged
    <3>1. Ledger!Prepare(cur)
      BY <2>7, <1>0, IsSettled DEF CommitStaged, Idle, Terminal, ledger, Ledger!Prepare
    <3>2. QED  BY <2>7, <1>0, <3>1 DEF CommitStaged, Idle
  <2>8. CASE Commit
    <3>1. Ledger!Settle(cur, "committed")
      BY <2>8, <1>0, IsSettled DEF Commit, Idle, Terminal
    <3>2. current' = Target[cur]
      BY <2>8, <1>0 DEF Commit, Idle, Target
    <3>3. Ledger!LeaveReceipt(cur, "succeeded")
      BY <2>8 DEF Commit, AddReceipt, Ledger!LeaveReceipt
    <3>4. QED  BY <2>8, <1>0, <3>1, <3>2, <3>3 DEF Commit, Idle, Ledger!Install
  <2>9. QED  BY <1>3, <2>1, <2>2, <2>3, <2>4, <2>5, <2>6, <2>7, <2>8 DEF Update
<1>4. CASE Compensation
  <2>1. CASE \/ CompensationFails \/ Compensated
             \/ \E i \in Inst : Compensate(i) \/ CannotCompensate(i)
    <3>1. UNCHANGED <<txn, receipts, current>>
      BY <2>1 DEF CompensationFails, Goto, db, ledger, Compensated, Compensate, Start,
             CannotCompensate
    <3>2. QED  BY <3>1, <1>1
  <2>2. CASE BeginCompensation
    BY <2>2, <1>0, StaysOpen DEF BeginCompensation, Goto, ledger, Idle, Unfinished
  <2>3. CASE CompensationRefused
    BY <2>3, <1>0, FailTransactionAbandons DEF CompensationRefused, Idle
  <2>4. CASE RecordRolledBack
    <3>1. Ledger!Settle(cur, "rolled_back")
      BY <2>4, <1>0, IsSettled DEF RecordRolledBack, Idle, Terminal
    <3>2. Ledger!LeaveReceipt(cur, "rolled_back") /\ UNCHANGED current
      BY <2>4 DEF RecordRolledBack, AddReceipt, Ledger!LeaveReceipt
    <3>3. QED  BY <2>4, <1>0, <3>1, <3>2 DEF RecordRolledBack, Idle, Ledger!Undo
  <2>5. CASE GiveUpCompensation
    <3>1. CASE recovering
      BY <2>5, <3>1, <1>1 DEF GiveUpCompensation, ledger
    <3>2. CASE ~recovering
      BY <2>5, <3>2, <1>0, FailTransactionAbandons DEF GiveUpCompensation, Idle
    <3>3. QED  BY <3>1, <3>2
  <2>6. QED  BY <1>4, <2>1, <2>2, <2>3, <2>4, <2>5 DEF Compensation
<1>5. CASE ExplicitRollback
  <2>1. CASE \/ RolledBack \/ RollbackFails \/ Restored
             \/ \E i \in Inst : Rollback(i) \/ Restore(i)
    <3>1. UNCHANGED <<txn, receipts, current>>
      BY <2>1 DEF RolledBack, Goto, ledger, RollbackFails, Restored, db, Rollback, Start,
             Restore
    <3>2. QED  BY <3>1, <1>1
  <2>2. CASE BeginRollback
    BY <2>2, <1>0, StaysOpen DEF BeginRollback, Goto, ledger, Idle, Unfinished
  <2>3. CASE RestoreDone
    BY <2>3, <1>0, FailTransactionAbandons DEF RestoreDone, Idle
  <2>4. QED  BY <1>5, <2>1, <2>2, <2>3 DEF ExplicitRollback
<1>6. CASE Worker
  <2>1. CASE \/ WorkerStarts \/ RecoveryDone \/ WorkerDone
             \/ \E t \in Txn : RecoverUpdate(t) \/ RecoverRollback(t)
    <3>1. UNCHANGED <<txn, receipts, current>>
      BY <2>1 DEF WorkerStarts, db, ledger, RecoveryDone, WorkerDone, RecoverUpdate,
             RecoverRollback
    <3>2. QED  BY <3>1, <1>1
  <2>2. CASE WorkerScans
    BY <2>2, DiscoverObserves DEF WorkerScans
  <2>3. CASE WorkerUpdates
    <3> PICK r \in Resolvable : OpenTransaction(UpdatePreview(r, FALSE))
      BY <2>3 DEF WorkerUpdates
    <3>1. UpdatePreview(r, FALSE) \in Preview
      BY NotBehindType DEF UpdatePreview, Preview, VersionsOK, TypeOK
    <3>2. QED  BY <3>1, OpenTransactionOpens
  <2>4. CASE \E t \in Txn : RecoverUnstarted(t)
    <3> PICK t \in Txn : RecoverUnstarted(t)
      BY <2>4
    <3>1. Open(t) /\ SetStatus(t, "failed") /\ UNCHANGED <<receipts, current>>
      BY DEF RecoverUnstarted, Oldest, ledger
    <3>2. Ledger!Abandon(t)
      BY <3>1, IsSettled DEF Terminal, Ledger!Abandon
    <3>3. QED  BY <3>2
  <2>5. QED  BY <1>6, <2>1, <2>2, <2>3, <2>4 DEF Worker
<1>7. CASE CommandLineScans
  BY <1>7, DiscoverObserves DEF CommandLineScans
<1>8. CASE CommandTakesEffect \/ Configure \/ Crash \/ UNCHANGED vars
  <2>1. UNCHANGED <<txn, receipts, current>>
    BY <1>8 DEF CommandTakesEffect, Configure, Crash, vars, db, ledger
  <2>2. QED  BY <2>1, <1>1
<1>9. QED
  BY <1>2, <1>3, <1>4, <1>5, <1>6, <1>7, <1>8 DEF Next, Holder

\* The journal implements the ledger: each transaction is settled at most once, and the
\* release moves in one step with the outcome and the receipt that explain it.
THEOREM LedgerImplemented == Spec => ImplementsLedger
<1>1. Init => Ledger!LedgerInit
  BY ReleasesAssumption
  DEF Init, NoTxn, Outcome, Target, Open, Unfinished, Ledger!LedgerInit
<1>2. TypeOK /\ JournalInv /\ [Next]_vars => [Ledger!LedgerNext]_(Ledger!lvars)
  BY LedgerStep
<1>3. QED
  BY <1>1, <1>2, JournalCorrect, PTL DEF Spec, ImplementsLedger, Ledger!LedgerSpec

(***************************************************************************)
(* The disk and the steps: what has begun, what is installed at each point *)
(* of the loops, and where it may differ from what is recorded.            *)
(***************************************************************************)
(***************************************************************************)
(* The inductive invariant.                                                *)
(***************************************************************************)
(* A loop goes through steps of its transaction, and nobody else has one.  *)
LoopsAreSteps ==
  IF pc \in Idle THEN todo = {} /\ acted = {} /\ (recovering => pc = "recover")
  ELSE todo \subseteq StepsOf(cur) /\ acted \subseteq StepsOf(cur)
       /\ (pc \in Commanding => at \in StepsOf(cur))

(* No step begins before the journal says "activating" or "rolling_back",  *)
(* and no update gets there with a step that waits to be staged.           *)
Waits(t)     == \A i \in Inst : ~Began(t, i)
AllStaged(t) == \A i \in Inst : step[t][i] # "pending"
SomeRuns(t)  == \E i \in Inst : Began(t, i) /\ step[t][i] # "failed"
WaitsFirst == \A t \in Txn : txn[t].status \in {"none", "prepared", "staging"} => Waits(t)
StagedFirst ==
  \A t \in Txn : ~Explicit(t) =>
    IF txn[t].status \in {"activating", "rolling_back"} THEN AllStaged(t)
    ELSE SomeRuns(t) => AllStaged(t)
StageIsDue == pc = "stage" => \A i \in Inst : step[cur][i] = "pending" => i \in todo
StepsWait == WaitsFirst /\ StagedFirst /\ StageIsDue

(* The step in flight says so; those that a rollback or a restore has to   *)
(* take back have begun.                                                   *)
InFlight ==
  /\ pc \in {"prepared", "stage"} => acted = {}
  /\ pc = "activating" => step[cur][at] = "activating"
  /\ pc \in {"compensating", "rolling"} => step[cur][at] = "compensating"
  /\ pc = "restoring" => Began(cur, at)
  /\ pc \in {"rollback", "rolling", "health", "restore", "restoring"} /\ Explicit(cur) =>
       \A i \in acted : Began(cur, i)
  /\ pc \in {"restore", "restoring"} => \A i \in todo : Began(cur, i)
  /\ pc \in {"rollback", "rolling"} => \A i \in StepsOf(cur) : i \in todo \/ Began(cur, i)
  /\ pc = "health" /\ Explicit(cur) => \A i \in StepsOf(cur) : Began(cur, i)

(* The loops of an update, and of a rollback that was never interrupted,   *)
(* leave the target behind them.                                           *)
Uninterrupted == pc \notin Idle /\ (Explicit(cur) => crashes = 0)
Installed ==
  Uninterrupted =>
    /\ pc \in {"activate", "activating", "rollback", "rolling"} =>
         \A i \in StepsOf(cur) : i \in todo \/ i = at \/ disk[i] = txn[cur].to[i]
    /\ pc \in {"activating", "rolling"} /\ ran => disk[at] = txn[cur].to[at]
    /\ pc = "health" => \A i \in StepsOf(cur) : disk[i] = txn[cur].to[i]
NoCrashNoRecovery ==
  crashes = 0 => (\A t \in Txn : Open(t) => t = cur) /\ (pc \notin Idle => ~recovering)

(* What compensation undoes is all that an update may have changed, and it *)
(* goes back to what was recorded when the process read it.                *)
Undoable ==
  /\ pc \in {"activate", "activating"} =>
       \A i \in StepsOf(cur) : IF i \in todo THEN ~Began(cur, i) ELSE i \in acted \/ i = at
  /\ pc = "health" /\ ~Explicit(cur) => acted = StepsOf(cur)
  /\ pc \in {"undo", "compensate", "compensating"} =>
       \A i \in Inst : NeedsUndo(step[cur][i]) => i \in acted
Undone ==
  /\ pc \in {"compensate", "compensating"} =>
       /\ todo \subseteq acted
       /\ bad \/ \A i \in acted : i \in todo \/ i = at \/ disk[i] = saved[i]
  /\ pc = "compensating" => at \in acted /\ (ran => disk[at] = saved[at])
SavedIsObserved == pc \notin Idle => scanned[cur] \/ saved = observed

(* A step accounts for a drift until it is compensated.                    *)
Accounts(t, i) ==
  /\ Began(t, i)
  /\ \/ txn[t].status = "failed" \/ scanned[t]
     \/ Explicit(t) /\ (txn[t].status = "rolling_back" \/ crashes > 0)
     \/ /\ ~Explicit(t) /\ txn[t].status \in {"activating", "rolling_back"}
        /\ step[t][i] # "compensated"
DriftIsAccounted == \A i \in Inst : disk[i] # observed[i] => \E t \in Txn : Accounts(t, i)

LoopInv == LoopsAreSteps /\ StepsWait /\ InFlight
DiskInv == Installed /\ NoCrashNoRecovery /\ Undoable /\ Undone /\ SavedIsObserved
DriftInv == LoopInv /\ DiskInv /\ DriftIsAccounted

-----------------------------------------------------------------------------
(* What the steps write, row by row *)

StepSet(t, i, s) ==
  \A u \in Txn, j \in Inst : step'[u][j] = IF u = t /\ j = i THEN s ELSE step[u][j]
StepsKept == \A t \in Txn : StepsOf(t)' = StepsOf(t)
StatusSet(t, s) ==
  \A u \in Txn :
    /\ txn'[u].status = IF u = t THEN s ELSE txn[u].status
    /\ txn'[u].kind = txn[u].kind /\ txn'[u].stageOnly = txn[u].stageOnly
    /\ txn'[u].to = txn[u].to /\ txn'[u].from = txn[u].from

\* One cell of a row of steps.
LEMMA SetStepWritten ==
  ASSUME TypeOK, NEW t \in Txn, NEW i \in Inst, NEW s, SetStep(t, i, s)
  PROVE  StepSet(t, i, s)
BY DEF TypeOK, RowsOK, SetStep, StepSet

\* One field of a row of the journal.
LEMMA SetStatusWritten ==
  ASSUME TypeOK, NEW t \in Txn, NEW s, SetStatus(t, s)
  PROVE  StatusSet(t, s)
BY DEF TypeOK, RowsOK, Journal, SetStatus, StatusSet

\* The steps of a transaction are written again and again, and stay its steps.
LEMMA StepsAreKept ==
  ASSUME NEW t \in Txn, NEW i \in StepsOf(t), NEW s, s # "none",
         StepSet(t, i, s) \/ step' = step
  PROVE  StepsKept
BY DEF StepsKept, StepsOf, StepSet

\* The steps of a transaction are those that have a row.
LEMMA StepFacts ==
  \A t : StepsOf(t) \subseteq Inst /\ \A i \in Inst : i \in StepsOf(t) <=> step[t][i] # "none"
BY DEF StepsOf

(* What each action of a loop writes.                                      *)
\* An update begins to stage.
LEMMA BeginStagingWritten ==
  ASSUME TypeOK, LoopsAreSteps, BeginStaging
  PROVE  /\ cur \in Txn /\ StepsKept /\ UNCHANGED <<observed, disk, scanned, crashes>>
         /\ pc = "prepared" /\ ~Explicit(cur) /\ StatusSet(cur, "staging") /\ step' = step
         /\ Goto("stage", StepsOf(cur)) /\ acted' = acted /\ bad' = bad
<1>1. cur \in Txn /\ pc \notin Idle /\ (pc \in Commanding => at \in Inst)
  BY HolderFacts DEF BeginStaging, Idle
<1>2. QED
  BY <1>1, SetStatusWritten DEF BeginStaging, StepsKept, StepsOf, Forward,
     Backward, RestoreOrder, Goto, Start, Idle, Commanding, ledger, db

\* One step is staged.
LEMMA StageWritten ==
  ASSUME TypeOK, LoopsAreSteps, NEW i \in Inst, Stage(i)
  PROVE  /\ cur \in Txn /\ StepsKept /\ UNCHANGED <<observed, disk, scanned, crashes>>
         /\ pc = "stage" /\ i \in todo /\ StepSet(cur, i, "staged") /\ txn' = txn
         /\ Goto("stage", todo \ {i}) /\ acted' = acted /\ bad' = bad
<1>1. cur \in Txn /\ pc \notin Idle /\ (pc \in Commanding => at \in Inst)
  BY HolderFacts DEF Stage, Idle
<1>2. StepSet(cur, i, "staged")
  BY <1>1, SetStepWritten DEF Stage, TrySetStep, Commanding
<1>3. StepsKept
  BY <1>1, <1>2, StepsAreKept DEF LoopsAreSteps, Stage, Idle, Commanding, Forward, Backward,
     HooksLast
<1>4. QED
  BY <1>1, <1>2, <1>3, SetStatusWritten DEF Stage, Forward, Backward, HooksLast,
     Goto, Start, Idle, Commanding, ledger, db

\* Nothing is left to stage.
LEMMA BeginActivationWritten ==
  ASSUME TypeOK, LoopsAreSteps, BeginActivation
  PROVE  /\ cur \in Txn /\ StepsKept /\ UNCHANGED <<observed, disk, scanned, crashes>>
         /\ pc = "stage" /\ todo = {} /\ ~txn[cur].stageOnly /\ StatusSet(cur, "activating")
         /\ step' = step /\ Goto("activate", StepsOf(cur)) /\ acted' = acted /\ bad' = bad
<1>1. cur \in Txn /\ pc \notin Idle /\ (pc \in Commanding => at \in Inst)
  BY HolderFacts DEF BeginActivation, Idle
<1>2. QED
  BY <1>1, SetStatusWritten DEF BeginActivation, StepsKept, StepsOf, Forward,
     Backward, RestoreOrder, Goto, Start, Idle, Commanding, ledger, db

\* The command that activates a step is started.
LEMMA ActivateWritten ==
  ASSUME TypeOK, LoopsAreSteps, NEW i \in Inst, Activate(i)
  PROVE  /\ cur \in Txn /\ StepsKept /\ UNCHANGED <<observed, disk, scanned, crashes>>
         /\ pc = "activate" /\ i \in todo /\ StepSet(cur, i, "activating") /\ txn' = txn
         /\ Start("activating", i)
<1>1. cur \in Txn /\ pc \notin Idle /\ (pc \in Commanding => at \in Inst)
  BY HolderFacts DEF Activate, Idle
<1>2. StepSet(cur, i, "activating")
  BY <1>1, SetStepWritten DEF Activate, TrySetStep, Commanding
<1>3. StepsKept
  BY <1>1, <1>2, StepsAreKept DEF LoopsAreSteps, Activate, Idle, Commanding, Forward,
     Backward, HooksLast
<1>4. QED
  BY <1>1, <1>2, <1>3, SetStatusWritten DEF Activate, Forward, Backward,
     HooksLast, Goto, Start, Idle, Commanding, ledger, db

\* It has succeeded.
LEMMA ActivatedWritten ==
  ASSUME TypeOK, LoopsAreSteps, Activated
  PROVE  /\ cur \in Txn /\ StepsKept /\ UNCHANGED <<observed, disk, scanned, crashes>>
         /\ pc = "activating" /\ ran /\ StepSet(cur, at, "activated") /\ txn' = txn
         /\ acted' = acted \cup {at} /\ Goto("activate", todo) /\ bad' = bad /\ at \in Inst
<1>1. cur \in Txn /\ pc \notin Idle /\ (pc \in Commanding => at \in Inst)
  BY HolderFacts DEF Activated, Idle
<1>2. StepSet(cur, at, "activated")
  BY <1>1, SetStepWritten DEF Activated, TrySetStep, Commanding
<1>3. StepsKept
  BY <1>1, <1>2, StepsAreKept DEF LoopsAreSteps, Activated, Idle, Commanding, Forward,
     Backward, HooksLast
<1>4. QED
  BY <1>1, <1>2, <1>3, SetStatusWritten DEF Activated, Forward, Backward,
     HooksLast, Goto, Start, Idle, Commanding, ledger, db

\* It has failed.
LEMMA ActivationFailsWritten ==
  ASSUME TypeOK, LoopsAreSteps, ActivationFails
  PROVE  /\ cur \in Txn /\ StepsKept /\ UNCHANGED <<observed, disk, scanned, crashes>>
         /\ pc = "activating" /\ (StepSet(cur, at, "failed") \/ step' = step) /\ txn' = txn
         /\ acted' = acted \cup {at} /\ Goto("undo", {}) /\ bad' = bad /\ at \in Inst
<1>1. cur \in Txn /\ pc \notin Idle /\ (pc \in Commanding => at \in Inst)
  BY HolderFacts DEF ActivationFails, Idle
<1>2. StepSet(cur, at, "failed") \/ step' = step
  BY <1>1, SetStepWritten DEF ActivationFails, TrySetStep, Commanding
<1>3. StepsKept
  BY <1>1, <1>2, StepsAreKept DEF LoopsAreSteps, ActivationFails, Idle, Commanding, Forward,
     Backward, HooksLast
<1>4. QED
  BY <1>1, <1>2, <1>3, SetStatusWritten DEF ActivationFails, Forward, Backward,
     HooksLast, Goto, Start, Idle, Commanding, ledger, db

\* Every step is where it should be, and is checked.
LEMMA BeginHealthWritten ==
  ASSUME TypeOK, LoopsAreSteps, BeginHealth
  PROVE  /\ cur \in Txn /\ StepsKept /\ UNCHANGED <<observed, disk, scanned, crashes>>
         /\ pc \in {"activate", "rollback"} /\ todo = {} /\ txn' = txn /\ step' = step
         /\ Goto("health", StepsOf(cur)) /\ acted' = acted /\ bad' = bad
<1>1. cur \in Txn /\ pc \notin Idle /\ (pc \in Commanding => at \in Inst)
  BY HolderFacts DEF BeginHealth, Idle
<1>2. QED
  BY <1>1, SetStatusWritten DEF BeginHealth, StepsKept, StepsOf, Forward,
     Backward, RestoreOrder, Goto, Start, Idle, Commanding, ledger, db

\* One check has passed.
LEMMA HealthyWritten ==
  ASSUME TypeOK, LoopsAreSteps, NEW i \in Inst, Healthy(i)
  PROVE  /\ cur \in Txn /\ StepsKept /\ UNCHANGED <<observed, disk, scanned, crashes>>
         /\ pc = "health" /\ i \in todo /\ (StepSet(cur, i, "healthy") \/ step' = step)
         /\ txn' = txn /\ Goto("health", todo \ {i}) /\ acted' = acted /\ bad' = bad
<1>1. cur \in Txn /\ pc \notin Idle /\ (pc \in Commanding => at \in Inst)
  BY HolderFacts DEF Healthy, Idle
<1>2. StepSet(cur, i, "healthy") \/ step' = step
  BY <1>1, SetStepWritten DEF Healthy, TrySetStep, Commanding
<1>3. StepsKept
  BY <1>1, <1>2, StepsAreKept DEF LoopsAreSteps, Healthy, Idle, Commanding, Forward,
     Backward, HooksLast
<1>4. QED
  BY <1>1, <1>2, <1>3, SetStatusWritten DEF Healthy, Forward, Backward, HooksLast,
     Goto, Start, Idle, Commanding, ledger, db

\* One check has failed.
LEMMA UnhealthyWritten ==
  ASSUME TypeOK, LoopsAreSteps, NEW i \in Inst, Unhealthy(i)
  PROVE  /\ cur \in Txn /\ StepsKept /\ UNCHANGED <<observed, disk, scanned, crashes>>
         /\ pc = "health" /\ i \in todo /\ txn' = txn /\ acted' = acted /\ bad' = bad
         /\ \/ /\ ~Explicit(cur) /\ (StepSet(cur, i, "failed") \/ step' = step)
               /\ Goto("undo", {})
            \/ Explicit(cur) /\ step' = step /\ Goto("restore", acted)
<1>1. cur \in Txn /\ pc \notin Idle /\ (pc \in Commanding => at \in Inst)
  BY HolderFacts DEF Unhealthy, Idle
<1>2. StepSet(cur, i, "failed") \/ step' = step
  BY <1>1, SetStepWritten DEF Unhealthy, TrySetStep, Commanding
<1>3. StepsKept
  BY <1>1, <1>2, StepsAreKept DEF LoopsAreSteps, Unhealthy, Idle, Commanding, Forward,
     Backward, HooksLast
<1>4. QED
  BY <1>1, <1>2, <1>3, SetStatusWritten DEF Unhealthy, Forward, Backward,
     HooksLast, Goto, Start, Idle, Commanding, ledger, db

\* The outcome cannot be written.
LEMMA CommitFailsWritten ==
  ASSUME TypeOK, LoopsAreSteps, CommitFails
  PROVE  /\ cur \in Txn /\ StepsKept /\ UNCHANGED <<observed, disk, scanned, crashes>>
         /\ pc = "health" /\ todo = {} /\ txn' = txn /\ step' = step
         /\ acted' = acted /\ bad' = bad
         /\ \/ ~Explicit(cur) /\ Goto("undo", {})
            \/ Explicit(cur) /\ Goto("restore", acted)
<1>1. cur \in Txn /\ pc \notin Idle /\ (pc \in Commanding => at \in Inst)
  BY HolderFacts DEF CommitFails, Idle
<1>2. QED
  BY <1>1, SetStatusWritten DEF CommitFails, StepsKept, StepsOf, Forward,
     Backward, RestoreOrder, Goto, Start, Idle, Commanding, ledger, db

\* An update is taken back.
LEMMA BeginCompensationWritten ==
  ASSUME TypeOK, LoopsAreSteps, BeginCompensation
  PROVE  /\ cur \in Txn /\ StepsKept /\ UNCHANGED <<observed, disk, scanned, crashes>>
         /\ pc = "undo" /\ StatusSet(cur, "rolling_back") /\ step' = step
         /\ bad' = FALSE /\ Goto("compensate", acted) /\ acted' = acted
<1>1. cur \in Txn /\ pc \notin Idle /\ (pc \in Commanding => at \in Inst)
  BY HolderFacts DEF BeginCompensation, Idle
<1>2. QED
  BY <1>1, SetStatusWritten DEF BeginCompensation, StepsKept, StepsOf, Forward,
     Backward, RestoreOrder, Goto, Start, Idle, Commanding, ledger, db

\* The command that takes a step back is started.
LEMMA CompensateWritten ==
  ASSUME TypeOK, LoopsAreSteps, NEW i \in Inst, Compensate(i)
  PROVE  /\ cur \in Txn /\ StepsKept /\ UNCHANGED <<observed, disk, scanned, crashes>>
         /\ pc = "compensate" /\ i \in todo /\ StepSet(cur, i, "compensating") /\ txn' = txn
         /\ Start("compensating", i)
<1>1. cur \in Txn /\ pc \notin Idle /\ (pc \in Commanding => at \in Inst)
  BY HolderFacts DEF Compensate, Idle
<1>2. StepSet(cur, i, "compensating")
  BY <1>1, SetStepWritten DEF Compensate, TrySetStep, Commanding
<1>3. StepsKept
  BY <1>1, <1>2, StepsAreKept DEF LoopsAreSteps, Compensate, Idle, Commanding, Forward,
     Backward, HooksLast
<1>4. QED
  BY <1>1, <1>2, <1>3, SetStatusWritten DEF Compensate, Forward, Backward,
     HooksLast, Goto, Start, Idle, Commanding, ledger, db

\* There is none.
LEMMA CannotCompensateWritten ==
  ASSUME TypeOK, LoopsAreSteps, NEW i \in Inst, CannotCompensate(i)
  PROVE  /\ cur \in Txn /\ StepsKept /\ UNCHANGED <<observed, disk, scanned, crashes>>
         /\ pc = "compensate" /\ txn' = txn /\ step' = step
         /\ bad' = TRUE /\ Goto("compensate", todo \ {i}) /\ acted' = acted
<1>1. cur \in Txn /\ pc \notin Idle /\ (pc \in Commanding => at \in Inst)
  BY HolderFacts DEF CannotCompensate, Idle
<1>2. QED
  BY <1>1, SetStatusWritten DEF CannotCompensate, StepsKept, StepsOf, Forward,
     Backward, RestoreOrder, Goto, Start, Idle, Commanding, ledger, db

\* It has succeeded.
LEMMA CompensatedWritten ==
  ASSUME TypeOK, LoopsAreSteps, Compensated
  PROVE  /\ cur \in Txn /\ StepsKept /\ UNCHANGED <<observed, disk, scanned, crashes>>
         /\ pc = "compensating" /\ ran /\ (StepSet(cur, at, "compensated") \/ step' = step)
         /\ txn' = txn /\ Goto("compensate", todo)
         /\ acted' = acted /\ bad' = bad /\ at \in Inst
<1>1. cur \in Txn /\ pc \notin Idle /\ (pc \in Commanding => at \in Inst)
  BY HolderFacts DEF Compensated, Idle
<1>2. StepSet(cur, at, "compensated") \/ step' = step
  BY <1>1, SetStepWritten DEF Compensated, TrySetStep, Commanding
<1>3. StepsKept
  BY <1>1, <1>2, StepsAreKept DEF LoopsAreSteps, Compensated, Idle, Commanding, Forward,
     Backward, HooksLast
<1>4. QED
  BY <1>1, <1>2, <1>3, SetStatusWritten DEF Compensated, Forward, Backward,
     HooksLast, Goto, Start, Idle, Commanding, ledger, db

\* It has failed.
LEMMA CompensationFailsWritten ==
  ASSUME TypeOK, LoopsAreSteps, CompensationFails
  PROVE  /\ cur \in Txn /\ StepsKept /\ UNCHANGED <<observed, disk, scanned, crashes>>
         /\ pc = "compensating" /\ txn' = txn /\ step' = step
         /\ bad' = TRUE /\ Goto("compensate", todo) /\ acted' = acted
<1>1. cur \in Txn /\ pc \notin Idle /\ (pc \in Commanding => at \in Inst)
  BY HolderFacts DEF CompensationFails, Idle
<1>2. QED
  BY <1>1, SetStatusWritten DEF CompensationFails, StepsKept, StepsOf, Forward,
     Backward, RestoreOrder, Goto, Start, Idle, Commanding, ledger, db

\* A rollback begins.
LEMMA BeginRollbackWritten ==
  ASSUME TypeOK, LoopsAreSteps, BeginRollback
  PROVE  /\ cur \in Txn /\ StepsKept /\ UNCHANGED <<observed, disk, scanned, crashes>>
         /\ pc = "prepared" /\ Explicit(cur) /\ StatusSet(cur, "rolling_back") /\ step' = step
         /\ Goto("rollback", StepsOf(cur)) /\ acted' = acted /\ bad' = bad
<1>1. cur \in Txn /\ pc \notin Idle /\ (pc \in Commanding => at \in Inst)
  BY HolderFacts DEF BeginRollback, Idle
<1>2. QED
  BY <1>1, SetStatusWritten DEF BeginRollback, StepsKept, StepsOf, Forward,
     Backward, RestoreOrder, Goto, Start, Idle, Commanding, ledger, db

\* The command that rolls a step back is started.
LEMMA RollbackWritten ==
  ASSUME TypeOK, LoopsAreSteps, NEW i \in Inst, Rollback(i)
  PROVE  /\ cur \in Txn /\ StepsKept /\ UNCHANGED <<observed, disk, scanned, crashes>>
         /\ pc = "rollback" /\ i \in todo /\ StepSet(cur, i, "compensating") /\ txn' = txn
         /\ Start("rolling", i)
<1>1. cur \in Txn /\ pc \notin Idle /\ (pc \in Commanding => at \in Inst)
  BY HolderFacts DEF Rollback, Idle
<1>2. StepSet(cur, i, "compensating")
  BY <1>1, SetStepWritten DEF Rollback, TrySetStep, Commanding
<1>3. StepsKept
  BY <1>1, <1>2, StepsAreKept DEF LoopsAreSteps, Rollback, Idle, Commanding, Forward,
     Backward, HooksLast
<1>4. QED
  BY <1>1, <1>2, <1>3, SetStatusWritten DEF Rollback, Forward, Backward,
     HooksLast, Goto, Start, Idle, Commanding, ledger, db

\* It has succeeded.
LEMMA RolledBackWritten ==
  ASSUME TypeOK, LoopsAreSteps, RolledBack
  PROVE  /\ cur \in Txn /\ StepsKept /\ UNCHANGED <<observed, disk, scanned, crashes>>
         /\ pc = "rolling" /\ ran /\ StepSet(cur, at, "compensated") /\ txn' = txn
         /\ acted' = acted \cup {at} /\ Goto("rollback", todo) /\ bad' = bad /\ at \in Inst
<1>1. cur \in Txn /\ pc \notin Idle /\ (pc \in Commanding => at \in Inst)
  BY HolderFacts DEF RolledBack, Idle
<1>2. StepSet(cur, at, "compensated")
  BY <1>1, SetStepWritten DEF RolledBack, TrySetStep, Commanding
<1>3. StepsKept
  BY <1>1, <1>2, StepsAreKept DEF LoopsAreSteps, RolledBack, Idle, Commanding, Forward,
     Backward, HooksLast
<1>4. QED
  BY <1>1, <1>2, <1>3, SetStatusWritten DEF RolledBack, Forward, Backward,
     HooksLast, Goto, Start, Idle, Commanding, ledger, db

\* It has failed.
LEMMA RollbackFailsWritten ==
  ASSUME TypeOK, LoopsAreSteps, RollbackFails
  PROVE  /\ cur \in Txn /\ StepsKept /\ UNCHANGED <<observed, disk, scanned, crashes>>
         /\ pc = "rolling" /\ (StepSet(cur, at, "failed") \/ step' = step) /\ txn' = txn
         /\ acted' = acted \cup {at} /\ Goto("restore", acted \cup {at})
         /\ bad' = bad /\ at \in Inst
<1>1. cur \in Txn /\ pc \notin Idle /\ (pc \in Commanding => at \in Inst)
  BY HolderFacts DEF RollbackFails, Idle
<1>2. StepSet(cur, at, "failed") \/ step' = step
  BY <1>1, SetStepWritten DEF RollbackFails, TrySetStep, Commanding
<1>3. StepsKept
  BY <1>1, <1>2, StepsAreKept DEF LoopsAreSteps, RollbackFails, Idle, Commanding, Forward,
     Backward, HooksLast
<1>4. QED
  BY <1>1, <1>2, <1>3, SetStatusWritten DEF RollbackFails, Forward, Backward,
     HooksLast, Goto, Start, Idle, Commanding, ledger, db

\* The command that restores a step is started.
LEMMA RestoreWritten ==
  ASSUME TypeOK, LoopsAreSteps, NEW i \in Inst, Restore(i)
  PROVE  /\ cur \in Txn /\ StepsKept /\ UNCHANGED <<observed, disk, scanned, crashes>>
         /\ pc = "restore" /\ i \in todo /\ step' = step /\ txn' = txn
         /\ Start("restoring", i)
<1>1. cur \in Txn /\ pc \notin Idle /\ (pc \in Commanding => at \in Inst)
  BY HolderFacts DEF Restore, Idle
<1>2. QED
  BY <1>1, SetStatusWritten DEF Restore, StepsKept, StepsOf, Forward, Backward,
     RestoreOrder, Goto, Start, Idle, Commanding, ledger, db

\* It has returned.
LEMMA RestoredWritten ==
  ASSUME TypeOK, LoopsAreSteps, Restored
  PROVE  /\ cur \in Txn /\ StepsKept /\ UNCHANGED <<observed, disk, scanned, crashes>>
         /\ pc = "restoring" /\ txn' = txn /\ step' = step
         /\ Goto("restore", todo) /\ acted' = acted /\ bad' = bad
<1>1. cur \in Txn /\ pc \notin Idle /\ (pc \in Commanding => at \in Inst)
  BY HolderFacts DEF Restored, Idle
<1>2. QED
  BY <1>1, SetStatusWritten DEF Restored, StepsKept, StepsOf, Forward, Backward,
     RestoreOrder, Goto, Start, Idle, Commanding, ledger, db

-----------------------------------------------------------------------------
(* The other steps, by what they do to the journal and the disk *)

(* Neither is touched.                                                     *)
Elsewhere ==
  /\ UNCHANGED <<txn, step, observed, disk, scanned, crashes>>
  /\ UNCHANGED <<cur, todo, acted, saved, at, ran, bad>>
  /\ \/ pc' = pc /\ recovering' = recovering
     \/ pc \in Idle /\ pc' \in Idle /\ (recovering' => pc' = "recover")

(* A scan records what is installed.                                       *)
Scanning ==
  /\ UNCHANGED <<txn, step, disk, crashes>>
  /\ UNCHANGED <<cur, todo, acted, saved, at, ran, bad>>
  /\ \A i \in Inst : observed'[i] \in {observed[i], disk[i]}
  /\ \A t \in Txn : scanned'[t] = (scanned[t] \/ Open(t))
  /\ \/ pc' = pc /\ recovering' = recovering
     \/ pc = "scan" /\ pc' \in Idle /\ ~recovering'

(* A transaction is opened in the next unused row.                         *)
Opens(p, t) ==
  /\ pc \in {"free", "schedule"} /\ txn[t].status = "none" /\ pc' = "prepared" /\ cur' = t
  /\ txn'[t].status = "prepared" /\ txn'[t].kind = p.kind
  /\ \A i \in Inst : step'[t][i] \in {"pending", "none"}
  /\ \A u \in Txn \ {t} : txn'[u] = txn[u] /\ step'[u] = step[u]
  /\ UNCHANGED <<observed, disk, scanned, crashes, todo, acted, at, ran, bad, recovering>>
  /\ saved' = observed

(* The process lets go of its transaction.                                 *)
Ending ==
  \/ SetupFails \/ JournalFails \/ CompensationRefused \/ RestoreDone
  \/ GiveUpCompensation \/ CommitStaged \/ RecordRolledBack \/ Commit \/ Crash
  \/ (\E t \in Txn : RecoverUnstarted(t)) \/ (\E i \in Inst : StageFails(i))
Ended == pc' \in Idle /\ todo' = {} /\ acted' = {} /\ (recovering' => pc' = "recover")

(* It reports the transaction as failed, or is interrupted.                *)
Failing(t) ==
  /\ Open(t) /\ StatusSet(t, "failed")
  /\ UNCHANGED <<step, observed, disk, scanned, crashes>>
Interrupted ==
  /\ UNCHANGED <<txn, step, observed, disk, scanned>>
  /\ \/ crashes' = crashes + 1
     \/ pc \notin Idle /\ recovering /\ crashes' = crashes

\* A prepared preview, a rejected one, a new policy, a worker that starts or stops.
LEMMA ElsewhereWritten ==
  ASSUME TypeOK, LoopsAreSteps,
         \/ \E c \in Clients : PrepareUpdate(c) \/ PrepareRollback(c) \/ Reject(c)
         \/ Configure \/ WorkerStarts \/ RecoveryDone \/ WorkerDone \/ UNCHANGED vars
  PROVE  Elsewhere
BY DEF LoopsAreSteps, Elsewhere, PrepareUpdate, PrepareRollback, Reject, Configure,
   WorkerStarts,
       RecoveryDone, WorkerDone, vars, db, ledger, loop, Idle

\* The scan of the worker, and those of the command line.
LEMMA ScanningWritten ==
  ASSUME TypeOK, LoopsAreSteps, WorkerScans \/ CommandLineScans
  PROVE  Scanning
<1>1. PICK k \in 0..N, complete \in BOOLEAN :
        DiscoverUpTo(k, complete)
        /\ (\/ pc' = pc /\ recovering' = recovering
            \/ pc = "scan" /\ pc' \in {"schedule", "free"} /\ recovering' = recovering)
  BY DEF WorkerScans, CommandLineScans
<1>2. pc = "scan" => ~recovering
  BY DEF LoopsAreSteps, Idle
<1>3. QED
  BY <1>1, <1>2 DEF Scanning, DiscoverUpTo, TypeOK, VersionsOK, SessionsOK, loop, Idle

\* A command line that executes its preview, and a worker that updates.
LEMMA OpensWritten ==
  ASSUME TypeOK, (\E c \in Clients : Execute(c)) \/ WorkerUpdates
  PROVE  \E p \in Preview, t \in Txn : Opens(p, t)
<1>1. PICK p \in Preview : OpenTransaction(p) /\ pc \in {"free", "schedule"}
  <2>1. CASE \E c \in Clients : Execute(c)
    <3> PICK c \in Clients : Execute(c)
      BY <2>1
    <3>1. previews[c] \in Preview
      BY DEF Execute, TypeOK, SessionsOK
    <3>2. QED  BY <3>1 DEF Execute
  <2>2. CASE WorkerUpdates
    <3> PICK r \in Resolvable : OpenTransaction(UpdatePreview(r, FALSE)) /\ pc = "schedule"
      BY <2>2 DEF WorkerUpdates
    <3>1. UpdatePreview(r, FALSE) \in Preview
      BY NotBehindType DEF UpdatePreview, Preview, VersionsOK, TypeOK
    <3>2. QED  BY <3>1
  <2>3. QED  BY <2>1, <2>2
<1>2. QED
  BY <1>1 DEF OpenTransaction, Opens, TypeOK, RowsOK, Journal, PlannedSteps, ledger

\* A command that takes effect changes one installation.
LEMMA EffectWritten ==
  ASSUME TypeOK, CommandTakesEffect
  PROVE  /\ cur \in Txn /\ at \in Inst /\ pc \in Commanding /\ pc \notin Idle /\ ran'
         /\ \A i \in Inst : disk'[i] = IF i = at THEN CommandTarget ELSE disk[i]
         /\ UNCHANGED <<txn, step, observed, scanned, crashes>>
         /\ UNCHANGED <<pc, cur, todo, acted, saved, at, bad, recovering>>
BY HolderFacts, PointFacts DEF CommandTakesEffect, TypeOK, VersionsOK, Release, db, ledger

\* Whoever lets go of a transaction has no loop any more.
LEMMA EndingWritten ==
  ASSUME TypeOK, LoopsAreSteps, Ending
  PROVE  Ended
<1> USE DEF Ended, Exit, Settled, Forget, FailTransaction, Idle
<1>1. CASE \E t \in Txn : RecoverUnstarted(t)
  BY <1>1 DEF RecoverUnstarted, LoopsAreSteps, loop
<1>2. CASE \/ SetupFails \/ JournalFails \/ CompensationRefused \/ RestoreDone
           \/ GiveUpCompensation \/ (\E i \in Inst : StageFails(i))
  BY <1>2 DEF SetupFails, JournalFails, CompensationRefused, RestoreDone, GiveUpCompensation,
         StageFails
<1>3. CASE CommitStaged \/ RecordRolledBack \/ Commit \/ Crash
  BY <1>3 DEF CommitStaged, RecordRolledBack, Commit, Crash
<1>4. QED  BY <1>1, <1>2, <1>3 DEF Ending

\* What those write that report a failure, or report nothing.
LEMMA EndingCases ==
  ASSUME TypeOK, JournalInv, Ending
  PROVE  \/ (\E t \in Txn : Failing(t)) \/ (\E i \in Inst : StageFails(i))
         \/ CommitStaged \/ RecordRolledBack \/ Commit \/ Interrupted
<1>0. pc \notin Idle => cur \in Txn /\ Open(cur)
  BY AtWorkIsOpen DEF JournalInv
<1>1. CASE \E t \in Txn : RecoverUnstarted(t)
  <2> PICK t \in Txn : RecoverUnstarted(t)
    BY <1>1
  <2>1. Failing(t)
    BY SetStatusWritten DEF RecoverUnstarted, Failing, Oldest, ledger
  <2>2. QED  BY <2>1
<1>2. CASE \/ SetupFails \/ JournalFails \/ CompensationRefused \/ RestoreDone
           \/ GiveUpCompensation /\ ~recovering
  <2>1. pc \notin Idle /\ FailTransaction /\ UNCHANGED step
    BY <1>2 DEF SetupFails, JournalFails, CompensationRefused, RestoreDone,
       GiveUpCompensation,
           Idle
  <2>2. Failing(cur)
    BY <1>0, <2>1, SetStatusWritten DEF FailTransaction, Failing, ledger
  <2>3. QED  BY <1>0, <2>1, <2>2
<1>3. CASE Crash \/ (GiveUpCompensation /\ recovering)
  BY <1>3 DEF Crash, GiveUpCompensation, Interrupted, Idle, db, ledger
<1>4. QED  BY <1>1, <1>2, <1>3 DEF Ending

\* A step of an update could not be staged.
LEMMA StageFailsWritten ==
  ASSUME TypeOK, NEW i \in Inst, StageFails(i)
  PROVE  /\ cur \in Txn /\ pc = "stage" /\ StatusSet(cur, "failed")
         /\ StepSet(cur, i, "failed") \/ step' = step
         /\ UNCHANGED <<observed, disk, scanned, crashes>>
BY HolderFacts, SetStepWritten, SetStatusWritten
DEF StageFails, FailTransaction, TrySetStep, Idle, ledger

\* An update that only stages is done.
LEMMA CommitStagedWritten ==
  ASSUME TypeOK, CommitStaged
  PROVE  /\ cur \in Txn /\ pc = "stage" /\ StatusSet(cur, "committed")
         /\ UNCHANGED <<step, observed, disk, scanned, crashes>>
BY HolderFacts, SetStatusWritten DEF CommitStaged, Idle, ledger

\* Every step that had begun is compensated.
LEMMA RecordRolledBackWritten ==
  ASSUME TypeOK, RecordRolledBack
  PROVE  /\ cur \in Txn /\ pc = "compensate" /\ at = 0 /\ todo = {} /\ ~bad
         /\ StatusSet(cur, "rolled_back")
         /\ UNCHANGED <<step, observed, disk, scanned, crashes>>
BY HolderFacts, SetStatusWritten DEF RecordRolledBack, Idle, Commanding

\* The target is recorded for the steps of the transaction.
LEMMA CommitWritten ==
  ASSUME TypeOK, Commit
  PROVE  /\ cur \in Txn /\ pc = "health" /\ StatusSet(cur, "committed")
         /\ \A i \in Inst :
              observed'[i] = IF i \in StepsOf(cur) THEN txn[cur].to[i] ELSE observed[i]
         /\ UNCHANGED <<step, disk, scanned, crashes>>
BY HolderFacts, SetStatusWritten DEF Commit, Idle

\* Every step is one of these.
LEMMA DriftCases ==
  ASSUME TypeOK, LoopsAreSteps, [Next]_vars
  PROVE  \/ Elsewhere \/ Scanning \/ (\E p \in Preview, t \in Txn : Opens(p, t))
         \/ (\E t \in Txn : RecoverUpdate(t) \/ RecoverRollback(t))
         \/ CommandTakesEffect \/ Ending
         \/ BeginStaging \/ BeginActivation \/ Activated \/ ActivationFails \/ BeginHealth
         \/ CommitFails \/ BeginCompensation \/ Compensated \/ CompensationFails
         \/ BeginRollback \/ RolledBack \/ RollbackFails \/ Restored
         \/ (\E i \in Inst : Stage(i) \/ Activate(i) \/ Healthy(i) \/ Unhealthy(i)
                 \/ Compensate(i) \/ CannotCompensate(i) \/ Rollback(i) \/ Restore(i))
<1>1. CASE Client
  BY <1>1, ElsewhereWritten, OpensWritten DEF Client
<1>2. CASE Worker
  BY <1>2, ElsewhereWritten, ScanningWritten, OpensWritten DEF Worker, Ending
<1>3. CASE CommandLineScans \/ Configure \/ Crash \/ UNCHANGED vars
  BY <1>3, ElsewhereWritten, ScanningWritten DEF Ending
<1>4. CASE Update
  BY <1>4 DEF Update, Ending
<1>5. CASE Compensation
  BY <1>5 DEF Compensation, Ending
<1>6. CASE ExplicitRollback
  BY <1>6 DEF ExplicitRollback, Ending
<1>7. QED  BY <1>1, <1>2, <1>3, <1>4, <1>5, <1>6 DEF Next, Holder

-----------------------------------------------------------------------------
(* Every part of the invariant is kept by every step. *)

\* A loop stays in its transaction.
LEMMA LoopsAreStepsStep ==
  ASSUME TypeOK, JournalInv, DriftInv, [Next]_vars
  PROVE  LoopsAreSteps'
<1> USE PointFacts, ZeroIsNone DEF LoopsAreSteps, Idle, Commanding
<1>0. LoopsAreSteps
  BY DEF DriftInv, LoopInv, DiskInv
<1>1. CASE Elsewhere
  BY <1>0, <1>1 DEF Elsewhere, StepsOf
<1>2. CASE Scanning
  BY <1>0, <1>2 DEF Scanning, StepsOf, HolderOK, TypeOK
<1>3. ASSUME NEW p \in Preview, NEW t \in Txn, Opens(p, t)  PROVE LoopsAreSteps'
  BY <1>0, <1>3 DEF Opens
<1>4. ASSUME NEW t \in Txn, RecoverUpdate(t)  PROVE LoopsAreSteps'
  BY <1>0, <1>4 DEF RecoverUpdate, db, ledger, Oldest, StepsOf
<1>5. ASSUME NEW t \in Txn, RecoverRollback(t)  PROVE LoopsAreSteps'
  BY <1>0, <1>5 DEF RecoverRollback, db, ledger, Oldest, StepsOf
<1>6. CASE CommandTakesEffect
  BY <1>0, <1>6, EffectWritten DEF StepsOf
<1>7. CASE BeginStaging
  BY <1>0, <1>7, BeginStagingWritten DEF StepsKept, Goto, Start
<1>8. ASSUME NEW i \in Inst, Stage(i)  PROVE LoopsAreSteps'
  BY <1>0, <1>8, StageWritten DEF StepsKept, Goto, Start
<1>9. CASE BeginActivation
  BY <1>0, <1>9, BeginActivationWritten DEF StepsKept, Goto, Start
<1>10. ASSUME NEW i \in Inst, Activate(i)  PROVE LoopsAreSteps'
  BY <1>0, <1>10, ActivateWritten DEF StepsKept, Goto, Start
<1>11. CASE Activated
  BY <1>0, <1>11, ActivatedWritten DEF StepsKept, Goto, Start
<1>12. CASE ActivationFails
  BY <1>0, <1>12, ActivationFailsWritten DEF StepsKept, Goto, Start
<1>13. CASE BeginHealth
  BY <1>0, <1>13, BeginHealthWritten DEF StepsKept, Goto, Start
<1>14. ASSUME NEW i \in Inst, Healthy(i)  PROVE LoopsAreSteps'
  BY <1>0, <1>14, HealthyWritten DEF StepsKept, Goto, Start
<1>15. ASSUME NEW i \in Inst, Unhealthy(i)  PROVE LoopsAreSteps'
  BY <1>0, <1>15, UnhealthyWritten DEF StepsKept, Goto, Start
<1>16. CASE CommitFails
  BY <1>0, <1>16, CommitFailsWritten DEF StepsKept, Goto, Start
<1>17. CASE BeginCompensation
  BY <1>0, <1>17, BeginCompensationWritten DEF StepsKept, Goto, Start
<1>18. ASSUME NEW i \in Inst, Compensate(i)  PROVE LoopsAreSteps'
  BY <1>0, <1>18, CompensateWritten DEF StepsKept, Goto, Start
<1>19. ASSUME NEW i \in Inst, CannotCompensate(i)  PROVE LoopsAreSteps'
  BY <1>0, <1>19, CannotCompensateWritten DEF StepsKept, Goto, Start
<1>20. CASE Compensated
  BY <1>0, <1>20, CompensatedWritten DEF StepsKept, Goto, Start
<1>21. CASE CompensationFails
  BY <1>0, <1>21, CompensationFailsWritten DEF StepsKept, Goto, Start
<1>22. CASE BeginRollback
  BY <1>0, <1>22, BeginRollbackWritten DEF StepsKept, Goto, Start
<1>23. ASSUME NEW i \in Inst, Rollback(i)  PROVE LoopsAreSteps'
  BY <1>0, <1>23, RollbackWritten DEF StepsKept, Goto, Start
<1>24. CASE RolledBack
  BY <1>0, <1>24, RolledBackWritten DEF StepsKept, Goto, Start
<1>25. CASE RollbackFails
  BY <1>0, <1>25, RollbackFailsWritten DEF StepsKept, Goto, Start
<1>26. ASSUME NEW i \in Inst, Restore(i)  PROVE LoopsAreSteps'
  BY <1>0, <1>26, RestoreWritten DEF StepsKept, Goto, Start
<1>27. CASE Restored
  BY <1>0, <1>27, RestoredWritten DEF StepsKept, Goto, Start
<1>28. CASE Ending
  BY <1>0, <1>28, EndingWritten DEF Ended
<1>29. QED
  BY <1>0, <1>1, <1>2, <1>3, <1>4, <1>5, <1>6, <1>7, <1>8, <1>9, <1>10, <1>11, <1>12, <1>13,
     <1>14, <1>15, <1>16, <1>17, <1>18, <1>19, <1>20, <1>21, <1>22, <1>23, <1>24, <1>25,
     <1>26, <1>27, <1>28, DriftCases

\* What is in flight, or has to be taken back, has begun.
LEMMA InFlightStep ==
  ASSUME TypeOK, JournalInv, DriftInv, [Next]_vars
  PROVE  InFlight'
<1> USE PointFacts, ZeroIsNone DEF InFlight, LoopsAreSteps, Idle, Commanding,
      HolderFollowsJournal
<1>0. LoopsAreSteps /\ InFlight /\ HolderFollowsJournal
  BY DEF JournalInv, DriftInv, LoopInv, DiskInv
<1>1. CASE Elsewhere
  BY <1>0, <1>1, StepFacts DEF Elsewhere, StepsOf, Began, Explicit
<1>2. CASE Scanning
  BY <1>0, <1>2, StepFacts DEF Scanning, StepsOf, Began, Explicit
<1>3. ASSUME NEW p \in Preview, NEW t \in Txn, Opens(p, t)  PROVE InFlight'
  BY <1>0, <1>3, StepFacts DEF Opens, Began, Explicit
<1>4. ASSUME NEW t \in Txn, RecoverUpdate(t)  PROVE InFlight'
  BY <1>0, <1>4, StepFacts DEF RecoverUpdate, db, ledger, Oldest, StepsOf, Began, Explicit
<1>5. ASSUME NEW t \in Txn, RecoverRollback(t)  PROVE InFlight'
  BY <1>0, <1>5, StepFacts DEF RecoverRollback, db, ledger, Oldest, StepsOf, RolledBackStep,
       Began, Explicit
<1>6. CASE CommandTakesEffect
  BY <1>0, <1>6, EffectWritten, StepFacts DEF StepsOf, Began, Explicit
<1>7. CASE BeginStaging
  BY <1>0, <1>7, BeginStagingWritten, StepFacts DEF StatusSet, StepSet, StepsKept, Goto,
       Start, Began, Explicit
<1>8. ASSUME NEW i \in Inst, Stage(i)  PROVE InFlight'
  BY <1>0, <1>8, StageWritten, StepFacts DEF StatusSet, StepSet, StepsKept, Goto, Start,
       Began, Explicit
<1>9. CASE BeginActivation
  BY <1>0, <1>9, BeginActivationWritten, StepFacts DEF StatusSet, StepSet, StepsKept, Goto,
       Start, Began, Explicit
<1>10. ASSUME NEW i \in Inst, Activate(i)  PROVE InFlight'
  BY <1>0, <1>10, ActivateWritten, StepFacts DEF StatusSet, StepSet, StepsKept, Goto, Start,
       Began, Explicit
<1>11. CASE Activated
  BY <1>0, <1>11, ActivatedWritten, StepFacts DEF StatusSet, StepSet, StepsKept, Goto,
       Start, Began, Explicit
<1>12. CASE ActivationFails
  BY <1>0, <1>12, ActivationFailsWritten, StepFacts DEF StatusSet, StepSet, StepsKept, Goto,
       Start, Began, Explicit
<1>13. CASE BeginHealth
  BY <1>0, <1>13, BeginHealthWritten, StepFacts DEF StatusSet, StepSet, StepsKept, Goto,
       Start, Began, Explicit
<1>14. ASSUME NEW i \in Inst, Healthy(i)  PROVE InFlight'
  <2>0. cur \in Txn /\ cur' = cur /\ i \in Inst /\ (StepSet(cur, i, "healthy") \/ step' = step)
    BY <1>0, <1>14, HealthyWritten DEF Goto, Start
  <2>1. \A j \in Inst : Began(cur, j) => Began(cur, j)'
    BY <2>0 DEF StepSet, Began
  <2>2. pc = "health" /\ pc' = "health" /\ acted' = acted /\ StepsOf(cur)' = StepsOf(cur)
        /\ cur' = cur /\ Explicit(cur)' = Explicit(cur)
    BY <1>0, <1>14, HealthyWritten DEF StepsKept, Goto, Explicit
  <2>3. QED  BY <1>0, <2>1, <2>2, StepFacts
<1>15. ASSUME NEW i \in Inst, Unhealthy(i)  PROVE InFlight'
  BY <1>0, <1>15, UnhealthyWritten, StepFacts DEF StatusSet, StepSet, StepsKept, Goto,
       Start, Began, Explicit
<1>16. CASE CommitFails
  BY <1>0, <1>16, CommitFailsWritten, StepFacts DEF StatusSet, StepSet, StepsKept, Goto,
       Start, Began, Explicit
<1>17. CASE BeginCompensation
  BY <1>0, <1>17, BeginCompensationWritten, StepFacts DEF StatusSet, StepSet, StepsKept,
       Goto, Start, Began, Explicit
<1>18. ASSUME NEW i \in Inst, Compensate(i)  PROVE InFlight'
  BY <1>0, <1>18, CompensateWritten, StepFacts DEF StatusSet, StepSet, StepsKept, Goto,
       Start, Began, Explicit
<1>19. ASSUME NEW i \in Inst, CannotCompensate(i)  PROVE InFlight'
  BY <1>0, <1>19, CannotCompensateWritten, StepFacts DEF StatusSet, StepSet, StepsKept,
       Goto, Start, Began, Explicit
<1>20. CASE Compensated
  BY <1>0, <1>20, CompensatedWritten, StepFacts DEF StatusSet, StepSet, StepsKept, Goto,
       Start, Began, Explicit
<1>21. CASE CompensationFails
  BY <1>0, <1>21, CompensationFailsWritten, StepFacts DEF StatusSet, StepSet, StepsKept,
       Goto, Start, Began, Explicit
<1>22. CASE BeginRollback
  BY <1>0, <1>22, BeginRollbackWritten, StepFacts DEF StatusSet, StepSet, StepsKept, Goto,
       Start, Began, Explicit
<1>23. ASSUME NEW i \in Inst, Rollback(i)  PROVE InFlight'
  <2>0. cur \in Txn /\ cur' = cur /\ i \in Inst /\ (StepSet(cur, i, "compensating"))
    BY <1>0, <1>23, RollbackWritten DEF Goto, Start
  <2>1. \A j \in Inst : Began(cur, j) => Began(cur, j)'
    BY <2>0 DEF StepSet, Began
  <2>2. pc = "rollback" /\ pc' = "rolling" /\ acted' = acted /\ StepsOf(cur)' = StepsOf(cur)
        /\ cur' = cur /\ Explicit(cur)' = Explicit(cur) /\ todo' = todo \ {i} /\ at' = i
    BY <1>0, <1>23, RollbackWritten DEF StepsKept, Start, Explicit
  <2>3. step'[cur][i] = "compensating" /\ Began(cur, i)'
    BY <2>0 DEF StepSet, Began
  <2>4. QED  BY <1>0, <2>1, <2>2, <2>3, StepFacts
<1>24. CASE RolledBack
  <2>0. cur \in Txn /\ cur' = cur /\ at \in Inst /\ (StepSet(cur, at, "compensated"))
    BY <1>0, <1>24, RolledBackWritten DEF Goto, Start
  <2>1. \A j \in Inst : Began(cur, j) => Began(cur, j)'
    BY <2>0 DEF StepSet, Began
  <2>2. pc = "rolling" /\ pc' = "rollback" /\ acted' = acted \cup {at}
        /\ StepsOf(cur)' = StepsOf(cur) /\ cur' = cur /\ Explicit(cur)' = Explicit(cur)
        /\ todo' = todo /\ at \in Inst
    BY <1>0, <1>24, RolledBackWritten DEF StepsKept, Goto, Explicit
  <2>3. \A j \in Inst : j = at => Began(cur, j)'
    BY <2>0 DEF StepSet, Began
  <2>4. QED  BY <1>0, <2>1, <2>2, <2>3, StepFacts
<1>25. CASE RollbackFails
  BY ZenonT(60), <1>0, <1>25, RollbackFailsWritten, StepFacts
  DEF StatusSet, StepSet, StepsKept, Goto, Start, Began, Explicit
<1>26. ASSUME NEW i \in Inst, Restore(i)  PROVE InFlight'
  BY <1>0, <1>26, RestoreWritten, StepFacts DEF StatusSet, StepSet, StepsKept, Goto, Start,
       Began, Explicit
<1>27. CASE Restored
  BY <1>0, <1>27, RestoredWritten, StepFacts DEF StatusSet, StepSet, StepsKept, Goto, Start,
       Began, Explicit
<1>28. CASE Ending
  BY <1>0, <1>28, EndingWritten, StepFacts DEF Ended, Began, Explicit
<1>29. QED
  BY <1>0, <1>1, <1>2, <1>3, <1>4, <1>5, <1>6, <1>7, <1>8, <1>9, <1>10, <1>11, <1>12, <1>13,
     <1>14, <1>15, <1>16, <1>17, <1>18, <1>19, <1>20, <1>21, <1>22, <1>23, <1>24, <1>25,
     <1>26, <1>27, <1>28, DriftCases

\* Loops that are not interrupted leave the target behind.
LEMMA InstalledStep ==
  ASSUME TypeOK, JournalInv, DriftInv, [Next]_vars
  PROVE  Installed'
<1> USE PointFacts, ZeroIsNone DEF Installed, Uninterrupted, LoopsAreSteps, Idle, Commanding
<1>0. LoopsAreSteps /\ Installed /\ NoCrashNoRecovery
  BY DEF DriftInv, LoopInv, DiskInv
<1>1. CASE Elsewhere
  BY <1>0, <1>1, StepFacts, HolderFacts DEF Elsewhere, StepsOf, Explicit
<1>2. CASE Scanning
  BY <1>0, <1>2, StepFacts, HolderFacts DEF Scanning, StepsOf, Explicit
<1>3. ASSUME NEW p \in Preview, NEW t \in Txn, Opens(p, t)  PROVE Installed'
  BY <1>0, <1>3, StepFacts, HolderFacts DEF Opens, Explicit
<1>4. ASSUME NEW t \in Txn, RecoverUpdate(t)  PROVE Installed'
  BY <1>0, <1>4, StepFacts, HolderFacts DEF RecoverUpdate, db, ledger, Oldest, StepsOf,
       Explicit
<1>5. ASSUME NEW t \in Txn, RecoverRollback(t)  PROVE Installed'
  BY <1>0, <1>5, StepFacts, HolderFacts DEF RecoverRollback, db, ledger, Oldest, StepsOf,
       NoCrashNoRecovery, Open, HolderOK, TypeOK, Explicit
<1>6. CASE CommandTakesEffect
  BY <1>0, <1>6, EffectWritten, StepFacts, HolderFacts DEF StepsOf, CommandTarget, Explicit
<1>7. CASE BeginStaging
  BY <1>0, <1>7, BeginStagingWritten, StepFacts, HolderFacts DEF StatusSet, StepSet,
       StepsKept, Goto, Start, Explicit
<1>8. ASSUME NEW i \in Inst, Stage(i)  PROVE Installed'
  BY <1>0, <1>8, StageWritten, StepFacts, HolderFacts DEF StatusSet, StepSet, StepsKept,
       Goto, Start, Explicit
<1>9. CASE BeginActivation
  BY ZenonT(60), <1>0, <1>9, BeginActivationWritten, StepFacts, HolderFacts DEF StatusSet, StepSet,
       StepsKept, Goto, Start, Explicit
<1>10. ASSUME NEW i \in Inst, Activate(i)  PROVE Installed'
  <2>1. pc = "activate" /\ at \notin Inst
    BY <1>0, <1>10, ActivateWritten, HolderFacts, PointFacts, ZeroIsNone DEF Commanding, Idle
  <2>2. pc' = "activating" /\ todo' = todo \ {i} /\ at' = i /\ ran' = FALSE
        /\ cur' = cur /\ disk' = disk /\ txn' = txn /\ crashes' = crashes
        /\ StepsOf(cur)' = StepsOf(cur) /\ Explicit(cur)' = Explicit(cur)
    BY <1>0, <1>10, ActivateWritten DEF Start, StepsKept, Explicit
  <2>3. QED  BY <1>0, <2>1, <2>2, StepFacts
<1>11. CASE Activated
  BY ZenonT(60), <1>0, <1>11, ActivatedWritten, StepFacts, HolderFacts DEF StatusSet, StepSet,
       StepsKept, Goto, Start, Explicit
<1>12. CASE ActivationFails
  BY <1>0, <1>12, ActivationFailsWritten, StepFacts, HolderFacts DEF StatusSet, StepSet,
       StepsKept, Goto, Start, Explicit
<1>13. CASE BeginHealth
  BY ZenonT(60), <1>0, <1>13, BeginHealthWritten, StepFacts, HolderFacts DEF StatusSet, StepSet,
       StepsKept, Goto, Start, Explicit
<1>14. ASSUME NEW i \in Inst, Healthy(i)  PROVE Installed'
  BY <1>0, <1>14, HealthyWritten, StepFacts, HolderFacts DEF StatusSet, StepSet, StepsKept,
       Goto, Start, Explicit
<1>15. ASSUME NEW i \in Inst, Unhealthy(i)  PROVE Installed'
  BY <1>0, <1>15, UnhealthyWritten, StepFacts, HolderFacts DEF StatusSet, StepSet,
       StepsKept, Goto, Start, Explicit
<1>16. CASE CommitFails
  BY <1>0, <1>16, CommitFailsWritten, StepFacts, HolderFacts DEF StatusSet, StepSet,
       StepsKept, Goto, Start, Explicit
<1>17. CASE BeginCompensation
  BY <1>0, <1>17, BeginCompensationWritten, StepFacts, HolderFacts DEF StatusSet, StepSet,
       StepsKept, Goto, Start, Explicit
<1>18. ASSUME NEW i \in Inst, Compensate(i)  PROVE Installed'
  BY <1>0, <1>18, CompensateWritten, StepFacts, HolderFacts DEF StatusSet, StepSet,
       StepsKept, Goto, Start, Explicit
<1>19. ASSUME NEW i \in Inst, CannotCompensate(i)  PROVE Installed'
  BY <1>0, <1>19, CannotCompensateWritten, StepFacts, HolderFacts DEF StatusSet, StepSet,
       StepsKept, Goto, Start, Explicit
<1>20. CASE Compensated
  BY <1>0, <1>20, CompensatedWritten, StepFacts, HolderFacts DEF StatusSet, StepSet,
       StepsKept, Goto, Start, Explicit
<1>21. CASE CompensationFails
  BY <1>0, <1>21, CompensationFailsWritten, StepFacts, HolderFacts DEF StatusSet, StepSet,
       StepsKept, Goto, Start, Explicit
<1>22. CASE BeginRollback
  <2>1. pc' = "rollback" /\ todo' = StepsOf(cur)'
    BY <1>0, <1>22, BeginRollbackWritten DEF Goto, StepsKept
  <2>2. QED  BY <2>1
<1>23. ASSUME NEW i \in Inst, Rollback(i)  PROVE Installed'
  <2>1. pc = "rollback" /\ at \notin Inst
    BY <1>0, <1>23, RollbackWritten, HolderFacts, PointFacts, ZeroIsNone DEF Commanding, Idle
  <2>2. pc' = "rolling" /\ todo' = todo \ {i} /\ at' = i /\ ran' = FALSE
        /\ cur' = cur /\ disk' = disk /\ txn' = txn /\ crashes' = crashes
        /\ StepsOf(cur)' = StepsOf(cur) /\ Explicit(cur)' = Explicit(cur)
    BY <1>0, <1>23, RollbackWritten DEF Start, StepsKept, Explicit
  <2>3. QED  BY <1>0, <2>1, <2>2, StepFacts
<1>24. CASE RolledBack
  BY ZenonT(60), <1>0, <1>24, RolledBackWritten, StepFacts, HolderFacts DEF StatusSet, StepSet,
       StepsKept, Goto, Start, Explicit
<1>25. CASE RollbackFails
  BY <1>0, <1>25, RollbackFailsWritten, StepFacts, HolderFacts DEF StatusSet, StepSet,
       StepsKept, Goto, Start, Explicit
<1>26. ASSUME NEW i \in Inst, Restore(i)  PROVE Installed'
  BY <1>0, <1>26, RestoreWritten, StepFacts, HolderFacts DEF StatusSet, StepSet, StepsKept,
       Goto, Start, Explicit
<1>27. CASE Restored
  BY <1>0, <1>27, RestoredWritten, StepFacts, HolderFacts DEF StatusSet, StepSet, StepsKept,
       Goto, Start, Explicit
<1>28. CASE Ending
  BY <1>0, <1>28, EndingWritten, StepFacts, HolderFacts DEF Ended, Explicit
<1>29. QED
  BY <1>0, <1>1, <1>2, <1>3, <1>4, <1>5, <1>6, <1>7, <1>8, <1>9, <1>10, <1>11, <1>12, <1>13,
     <1>14, <1>15, <1>16, <1>17, <1>18, <1>19, <1>20, <1>21, <1>22, <1>23, <1>24, <1>25,
     <1>26, <1>27, <1>28, DriftCases

\* All that may have changed can be undone.
LEMMA UndoableStep ==
  ASSUME TypeOK, JournalInv, DriftInv, [Next]_vars
  PROVE  Undoable'
<1> USE PointFacts, ZeroIsNone DEF Undoable, LoopsAreSteps, Idle, Commanding,
      HolderFollowsJournal
<1>0. LoopsAreSteps /\ Undoable /\ StepsWait /\ InFlight /\ Undone /\
        HolderFollowsJournal
  BY DEF JournalInv, DriftInv, LoopInv, DiskInv
<1>1. CASE Elsewhere
  BY <1>0, <1>1, StepFacts, HolderFacts DEF Elsewhere, StepsOf, Began, Explicit, NeedsUndo
<1>2. CASE Scanning
  BY <1>0, <1>2, StepFacts, HolderFacts DEF Scanning, StepsOf, Began, Explicit, NeedsUndo
<1>3. ASSUME NEW p \in Preview, NEW t \in Txn, Opens(p, t)  PROVE Undoable'
  BY <1>0, <1>3, StepFacts, HolderFacts DEF Opens, Began, Explicit, NeedsUndo
<1>4. ASSUME NEW t \in Txn, RecoverUpdate(t)  PROVE Undoable'
  BY <1>0, <1>4, StepFacts, HolderFacts DEF RecoverUpdate, db, ledger, Oldest, StepsOf,
       Began, Explicit, NeedsUndo
<1>5. ASSUME NEW t \in Txn, RecoverRollback(t)  PROVE Undoable'
  BY <1>0, <1>5, StepFacts, HolderFacts DEF RecoverRollback, db, ledger, Oldest, StepsOf,
       Began, Explicit, NeedsUndo
<1>6. CASE CommandTakesEffect
  BY <1>0, <1>6, EffectWritten, StepFacts, HolderFacts DEF StepsOf, Began, Explicit,
       NeedsUndo
<1>7. CASE BeginStaging
  BY <1>0, <1>7, BeginStagingWritten, StepFacts, HolderFacts DEF StatusSet, StepSet,
       StepsKept, Goto, Start, Began, Explicit, NeedsUndo
<1>8. ASSUME NEW i \in Inst, Stage(i)  PROVE Undoable'
  BY <1>0, <1>8, StageWritten, StepFacts, HolderFacts DEF StatusSet, StepSet, StepsKept,
       Goto, Start, Began, Explicit, NeedsUndo
<1>9. CASE BeginActivation
  BY ZenonT(60), <1>0, <1>9, BeginActivationWritten, StepFacts, HolderFacts DEF StatusSet, StepSet,
       StepsKept, Goto, Start, StepsWait, WaitsFirst, Waits, Began, Explicit, NeedsUndo
<1>10. ASSUME NEW i \in Inst, Activate(i)  PROVE Undoable'
  <2>1. pc = "activate" /\ at \notin Inst
    BY <1>0, <1>10, ActivateWritten, HolderFacts, PointFacts, ZeroIsNone DEF Commanding, Idle
  <2>2. pc' = "activating" /\ todo' = todo \ {i} /\ at' = i /\ ran' = FALSE
        /\ cur' = cur /\ disk' = disk /\ txn' = txn /\ crashes' = crashes
        /\ StepsOf(cur)' = StepsOf(cur) /\ Explicit(cur)' = Explicit(cur)
    BY <1>0, <1>10, ActivateWritten DEF Start, StepsKept, Explicit
  <2>3. \A j \in Inst : j # i => (Began(cur, j)' <=> Began(cur, j))
    <3>1. cur \in Txn /\ cur' = cur /\ (StepSet(cur, i, "activating"))
      BY <1>0, <1>10, ActivateWritten DEF Goto, Start
    <3>2. QED  BY <3>1 DEF StepSet, Began
  <2>4. \A j \in StepsOf(cur) :
          j \in Inst /\ (IF j \in todo THEN ~Began(cur, j) ELSE j \in acted)
    BY <1>0, <2>1, StepFacts
  <2>5. acted' = acted
    BY <1>0, <1>10, ActivateWritten DEF Start
  <2>6. QED  BY <2>2, <2>3, <2>4, <2>5
<1>11. CASE Activated
  <2>1. pc = "activating" /\ at \in Inst /\ at \notin todo
    BY <1>0, <1>11, ActivatedWritten, HolderFacts DEF InFlight, Began
  <2>2. pc' = "activate" /\ todo' = todo /\ acted' = acted \cup {at} /\ cur' = cur
        /\ StepsOf(cur)' = StepsOf(cur)
    BY <1>0, <1>11, ActivatedWritten DEF Goto, StepsKept
  <2>3. \A j \in Inst : j # at => (Began(cur, j)' <=> Began(cur, j))
    <3>1. cur \in Txn /\ cur' = cur /\ (StepSet(cur, at, "activated"))
      BY <1>0, <1>11, ActivatedWritten DEF Goto, Start
    <3>2. QED  BY <3>1 DEF StepSet, Began
  <2>4. QED  BY <1>0, <2>1, <2>2, <2>3, StepFacts
<1>12. CASE ActivationFails
  <2>1. pc = "activating" /\ pc' = "undo" /\ at \in Inst
        /\ acted' = acted \cup {at} /\ cur' = cur
    BY <1>0, <1>12, ActivationFailsWritten DEF Goto
  <2>2. \A j \in Inst \ {at} : step'[cur][j] = step[cur][j]
    BY <1>0, <1>12, ActivationFailsWritten DEF StepSet, Goto
  <2>3. \A j \in Inst : NeedsUndo(step[cur][j]) => Began(cur, j) /\ j \in StepsOf(cur)
    BY StepFacts DEF NeedsUndo, Began
  <2>4. \A j \in Inst \ {at} : NeedsUndo(step'[cur][j]) => j \in acted
    BY <1>0, <2>1, <2>2, <2>3
  <2>5. QED  BY <2>1, <2>4
<1>13. CASE BeginHealth
  <2>1. CASE pc = "activate"
    <3>1. at \notin Inst /\ todo = {} /\ acted \subseteq StepsOf(cur)
      BY <1>0, <1>13, <2>1, BeginHealthWritten, HolderFacts
    <3>2. acted = StepsOf(cur)
      BY <1>0, <2>1, <3>1, StepFacts
    <3>3. QED  BY <1>0, <1>13, <3>2, BeginHealthWritten DEF Goto, StepsKept
  <2>2. CASE pc = "rollback"
    <3>1. Explicit(cur)
      BY <1>0, <2>2
    <3>2. pc' = "health" /\ Explicit(cur)'
      BY <1>0, <1>13, <3>1, BeginHealthWritten DEF Goto, Explicit
    <3>3. QED  BY <3>2
  <2>3. QED  BY <1>0, <1>13, <2>1, <2>2, BeginHealthWritten
<1>14. ASSUME NEW i \in Inst, Healthy(i)  PROVE Undoable'
  BY <1>0, <1>14, HealthyWritten, StepFacts, HolderFacts DEF StatusSet, StepSet, StepsKept,
       Goto, Start, Began, Explicit, NeedsUndo
<1>15. ASSUME NEW i \in Inst, Unhealthy(i)  PROVE Undoable'
  <2>1. CASE Explicit(cur)
    BY <1>0, <1>15, <2>1, UnhealthyWritten DEF Goto
  <2>2. CASE ~Explicit(cur)
    <3>1. acted' = StepsOf(cur)' /\ pc' = "undo"
      BY <1>0, <1>15, <2>2, UnhealthyWritten DEF Goto, StepsKept
    <3>2. \A j \in Inst : NeedsUndo(step'[cur'][j]) => j \in StepsOf(cur)'
      BY DEF NeedsUndo, StepsOf
    <3>3. QED  BY <3>1, <3>2
  <2>3. QED  BY <2>1, <2>2
<1>16. CASE CommitFails
  BY <1>0, <1>16, CommitFailsWritten, StepFacts, HolderFacts DEF StatusSet, StepSet,
       StepsKept, Goto, Start, Began, Explicit, NeedsUndo
<1>17. CASE BeginCompensation
  BY <1>0, <1>17, BeginCompensationWritten, StepFacts, HolderFacts DEF StatusSet, StepSet,
       StepsKept, Goto, Start, Began, Explicit, NeedsUndo
<1>18. ASSUME NEW i \in Inst, Compensate(i)  PROVE Undoable'
  <2>1. pc = "compensate" /\ pc' = "compensating" /\ i \in acted
        /\ acted' = acted /\ cur' = cur
    BY <1>0, <1>18, CompensateWritten DEF Start, Undone
  <2>2. \A j \in Inst \ {i} : step'[cur][j] = step[cur][j]
    BY <1>0, <1>18, CompensateWritten DEF StepSet, Start
  <2>3. QED  BY <1>0, <2>1, <2>2
<1>19. ASSUME NEW i \in Inst, CannotCompensate(i)  PROVE Undoable'
  BY <1>0, <1>19, CannotCompensateWritten, StepFacts, HolderFacts DEF StatusSet, StepSet,
       StepsKept, Goto, Start, Began, Explicit, NeedsUndo
<1>20. CASE Compensated
  BY ZenonT(60), <1>0, <1>20, CompensatedWritten, StepFacts, HolderFacts DEF StatusSet, StepSet,
       StepsKept, Goto, Start, Began, Explicit, NeedsUndo
<1>21. CASE CompensationFails
  BY <1>0, <1>21, CompensationFailsWritten, StepFacts, HolderFacts DEF StatusSet, StepSet,
       StepsKept, Goto, Start, Began, Explicit, NeedsUndo
<1>22. CASE BeginRollback
  BY <1>0, <1>22, BeginRollbackWritten, StepFacts, HolderFacts DEF StatusSet, StepSet,
       StepsKept, Goto, Start, Began, Explicit, NeedsUndo
<1>23. ASSUME NEW i \in Inst, Rollback(i)  PROVE Undoable'
  BY <1>0, <1>23, RollbackWritten, StepFacts, HolderFacts DEF StatusSet, StepSet, StepsKept,
       Goto, Start, Began, Explicit, NeedsUndo
<1>24. CASE RolledBack
  BY <1>0, <1>24, RolledBackWritten, StepFacts, HolderFacts DEF StatusSet, StepSet,
       StepsKept, Goto, Start, Began, Explicit, NeedsUndo
<1>25. CASE RollbackFails
  BY <1>0, <1>25, RollbackFailsWritten, StepFacts, HolderFacts DEF StatusSet, StepSet,
       StepsKept, Goto, Start, Began, Explicit, NeedsUndo
<1>26. ASSUME NEW i \in Inst, Restore(i)  PROVE Undoable'
  BY <1>0, <1>26, RestoreWritten, StepFacts, HolderFacts DEF StatusSet, StepSet, StepsKept,
       Goto, Start, Began, Explicit, NeedsUndo
<1>27. CASE Restored
  BY <1>0, <1>27, RestoredWritten, StepFacts, HolderFacts DEF StatusSet, StepSet, StepsKept,
       Goto, Start, Began, Explicit, NeedsUndo
<1>28. CASE Ending
  BY <1>0, <1>28, EndingWritten, StepFacts, HolderFacts DEF Ended, Began, Explicit,
       NeedsUndo
<1>29. QED
  BY <1>0, <1>1, <1>2, <1>3, <1>4, <1>5, <1>6, <1>7, <1>8, <1>9, <1>10, <1>11, <1>12, <1>13,
     <1>14, <1>15, <1>16, <1>17, <1>18, <1>19, <1>20, <1>21, <1>22, <1>23, <1>24, <1>25,
     <1>26, <1>27, <1>28, DriftCases

\* What is compensated is back.
LEMMA UndoneStep ==
  ASSUME TypeOK, JournalInv, DriftInv, [Next]_vars
  PROVE  Undone'
<1> USE PointFacts, ZeroIsNone DEF Undone, LoopsAreSteps, Idle, Commanding
<1>0. LoopsAreSteps /\ Undone
  BY DEF DriftInv, LoopInv, DiskInv
<1>1. CASE Elsewhere
  BY <1>0, <1>1, HolderFacts DEF Elsewhere, StepsOf
<1>2. CASE Scanning
  BY <1>0, <1>2, HolderFacts DEF Scanning, StepsOf
<1>3. ASSUME NEW p \in Preview, NEW t \in Txn, Opens(p, t)  PROVE Undone'
  BY <1>0, <1>3, HolderFacts DEF Opens
<1>4. ASSUME NEW t \in Txn, RecoverUpdate(t)  PROVE Undone'
  BY <1>0, <1>4, HolderFacts DEF RecoverUpdate, db, ledger, Oldest, StepsOf
<1>5. ASSUME NEW t \in Txn, RecoverRollback(t)  PROVE Undone'
  BY <1>0, <1>5, HolderFacts DEF RecoverRollback, db, ledger, Oldest, StepsOf
<1>6. CASE CommandTakesEffect
  BY <1>0, <1>6, EffectWritten, HolderFacts DEF StepsOf, CommandTarget
<1>7. CASE BeginStaging
  BY <1>0, <1>7, BeginStagingWritten, HolderFacts DEF StatusSet, StepSet, StepsKept, Goto,
       Start
<1>8. ASSUME NEW i \in Inst, Stage(i)  PROVE Undone'
  BY <1>0, <1>8, StageWritten, HolderFacts DEF StatusSet, StepSet, StepsKept, Goto, Start
<1>9. CASE BeginActivation
  BY <1>0, <1>9, BeginActivationWritten, HolderFacts DEF StatusSet, StepSet, StepsKept,
       Goto, Start
<1>10. ASSUME NEW i \in Inst, Activate(i)  PROVE Undone'
  BY <1>0, <1>10, ActivateWritten, HolderFacts DEF StatusSet, StepSet, StepsKept, Goto,
       Start
<1>11. CASE Activated
  BY <1>0, <1>11, ActivatedWritten, HolderFacts DEF StatusSet, StepSet, StepsKept, Goto,
       Start
<1>12. CASE ActivationFails
  BY <1>0, <1>12, ActivationFailsWritten, HolderFacts DEF StatusSet, StepSet, StepsKept,
       Goto, Start
<1>13. CASE BeginHealth
  BY <1>0, <1>13, BeginHealthWritten, HolderFacts DEF StatusSet, StepSet, StepsKept, Goto,
       Start
<1>14. ASSUME NEW i \in Inst, Healthy(i)  PROVE Undone'
  BY <1>0, <1>14, HealthyWritten, HolderFacts DEF StatusSet, StepSet, StepsKept, Goto, Start
<1>15. ASSUME NEW i \in Inst, Unhealthy(i)  PROVE Undone'
  BY <1>0, <1>15, UnhealthyWritten, HolderFacts DEF StatusSet, StepSet, StepsKept, Goto,
       Start
<1>16. CASE CommitFails
  BY <1>0, <1>16, CommitFailsWritten, HolderFacts DEF StatusSet, StepSet, StepsKept, Goto,
       Start
<1>17. CASE BeginCompensation
  BY <1>0, <1>17, BeginCompensationWritten, HolderFacts DEF StatusSet, StepSet, StepsKept,
       Goto, Start
<1>18. ASSUME NEW i \in Inst, Compensate(i)  PROVE Undone'
  <2>1. pc = "compensate" /\ at = 0 /\ acted \subseteq Inst
    BY <1>0, <1>18, CompensateWritten, HolderFacts DEF TypeOK, HolderOK
  <2>2. pc' = "compensating" /\ todo' = todo \ {i} /\ at' = i /\ ran' = FALSE /\ i \in todo
        /\ UNCHANGED <<acted, bad, disk, saved>>
    BY <1>0, <1>18, CompensateWritten DEF Start
  <2>3. QED  BY <1>0, <2>1, <2>2
<1>19. ASSUME NEW i \in Inst, CannotCompensate(i)  PROVE Undone'
  BY <1>0, <1>19, CannotCompensateWritten, HolderFacts DEF StatusSet, StepSet, StepsKept,
       Goto, Start
<1>20. CASE Compensated
  BY <1>0, <1>20, CompensatedWritten, HolderFacts DEF StatusSet, StepSet, StepsKept, Goto,
       Start
<1>21. CASE CompensationFails
  BY <1>0, <1>21, CompensationFailsWritten, HolderFacts DEF StatusSet, StepSet, StepsKept,
       Goto, Start
<1>22. CASE BeginRollback
  BY <1>0, <1>22, BeginRollbackWritten, HolderFacts DEF StatusSet, StepSet, StepsKept, Goto,
       Start
<1>23. ASSUME NEW i \in Inst, Rollback(i)  PROVE Undone'
  BY <1>0, <1>23, RollbackWritten, HolderFacts DEF StatusSet, StepSet, StepsKept, Goto,
       Start
<1>24. CASE RolledBack
  BY <1>0, <1>24, RolledBackWritten, HolderFacts DEF StatusSet, StepSet, StepsKept, Goto,
       Start
<1>25. CASE RollbackFails
  BY <1>0, <1>25, RollbackFailsWritten, HolderFacts DEF StatusSet, StepSet, StepsKept, Goto,
       Start
<1>26. ASSUME NEW i \in Inst, Restore(i)  PROVE Undone'
  BY <1>0, <1>26, RestoreWritten, HolderFacts DEF StatusSet, StepSet, StepsKept, Goto, Start
<1>27. CASE Restored
  BY <1>0, <1>27, RestoredWritten, HolderFacts DEF StatusSet, StepSet, StepsKept, Goto,
       Start
<1>28. CASE Ending
  BY <1>0, <1>28, EndingWritten, HolderFacts DEF Ended
<1>29. QED
  BY <1>0, <1>1, <1>2, <1>3, <1>4, <1>5, <1>6, <1>7, <1>8, <1>9, <1>10, <1>11, <1>12, <1>13,
     <1>14, <1>15, <1>16, <1>17, <1>18, <1>19, <1>20, <1>21, <1>22, <1>23, <1>24, <1>25,
     <1>26, <1>27, <1>28, DriftCases

\* The recorded versions are those the process read, or a scan replaced them.
LEMMA SavedIsObservedStep ==
  ASSUME TypeOK, JournalInv, DriftInv, [Next]_vars
  PROVE  SavedIsObserved'
<1> USE PointFacts, ZeroIsNone DEF SavedIsObserved, Idle
<1>0. LoopsAreSteps /\ SavedIsObserved /\ HolderFollowsJournal
  BY DEF JournalInv, DriftInv, LoopInv, DiskInv
<1>1. CASE Elsewhere
  BY <1>0, <1>1 DEF Elsewhere, StepsOf
<1>2. CASE Scanning
  BY <1>0, <1>2, AtWorkIsOpen, HolderFacts DEF Scanning
<1>3. ASSUME NEW p \in Preview, NEW t \in Txn, Opens(p, t)  PROVE SavedIsObserved'
  BY <1>0, <1>3 DEF Opens
<1>4. ASSUME NEW t \in Txn, RecoverUpdate(t)  PROVE SavedIsObserved'
  BY <1>0, <1>4 DEF RecoverUpdate, db, ledger, Oldest, StepsOf
<1>5. ASSUME NEW t \in Txn, RecoverRollback(t)  PROVE SavedIsObserved'
  BY <1>0, <1>5 DEF RecoverRollback, db, ledger, Oldest, StepsOf
<1>6. CASE CommandTakesEffect
  BY <1>0, <1>6, EffectWritten DEF StepsOf
<1>7. CASE BeginStaging
  BY <1>0, <1>7, BeginStagingWritten DEF Goto, Start
<1>8. ASSUME NEW i \in Inst, Stage(i)  PROVE SavedIsObserved'
  BY <1>0, <1>8, StageWritten DEF Goto, Start
<1>9. CASE BeginActivation
  BY <1>0, <1>9, BeginActivationWritten DEF Goto, Start
<1>10. ASSUME NEW i \in Inst, Activate(i)  PROVE SavedIsObserved'
  BY <1>0, <1>10, ActivateWritten DEF Goto, Start
<1>11. CASE Activated
  BY <1>0, <1>11, ActivatedWritten DEF Goto, Start
<1>12. CASE ActivationFails
  BY <1>0, <1>12, ActivationFailsWritten DEF Goto, Start
<1>13. CASE BeginHealth
  BY <1>0, <1>13, BeginHealthWritten DEF Goto, Start
<1>14. ASSUME NEW i \in Inst, Healthy(i)  PROVE SavedIsObserved'
  BY <1>0, <1>14, HealthyWritten DEF Goto, Start
<1>15. ASSUME NEW i \in Inst, Unhealthy(i)  PROVE SavedIsObserved'
  BY <1>0, <1>15, UnhealthyWritten DEF Goto, Start
<1>16. CASE CommitFails
  BY <1>0, <1>16, CommitFailsWritten DEF Goto, Start
<1>17. CASE BeginCompensation
  BY <1>0, <1>17, BeginCompensationWritten DEF Goto, Start
<1>18. ASSUME NEW i \in Inst, Compensate(i)  PROVE SavedIsObserved'
  BY <1>0, <1>18, CompensateWritten DEF Goto, Start
<1>19. ASSUME NEW i \in Inst, CannotCompensate(i)  PROVE SavedIsObserved'
  BY <1>0, <1>19, CannotCompensateWritten DEF Goto, Start
<1>20. CASE Compensated
  BY <1>0, <1>20, CompensatedWritten DEF Goto, Start
<1>21. CASE CompensationFails
  BY <1>0, <1>21, CompensationFailsWritten DEF Goto, Start
<1>22. CASE BeginRollback
  BY <1>0, <1>22, BeginRollbackWritten DEF Goto, Start
<1>23. ASSUME NEW i \in Inst, Rollback(i)  PROVE SavedIsObserved'
  BY <1>0, <1>23, RollbackWritten DEF Goto, Start
<1>24. CASE RolledBack
  BY <1>0, <1>24, RolledBackWritten DEF Goto, Start
<1>25. CASE RollbackFails
  BY <1>0, <1>25, RollbackFailsWritten DEF Goto, Start
<1>26. ASSUME NEW i \in Inst, Restore(i)  PROVE SavedIsObserved'
  BY <1>0, <1>26, RestoreWritten DEF Goto, Start
<1>27. CASE Restored
  BY <1>0, <1>27, RestoredWritten DEF Goto, Start
<1>28. CASE Ending
  BY <1>0, <1>28, EndingWritten DEF Ended
<1>29. QED
  BY <1>0, <1>1, <1>2, <1>3, <1>4, <1>5, <1>6, <1>7, <1>8, <1>9, <1>10, <1>11, <1>12, <1>13,
     <1>14, <1>15, <1>16, <1>17, <1>18, <1>19, <1>20, <1>21, <1>22, <1>23, <1>24, <1>25,
     <1>26, <1>27, <1>28, DriftCases

(* Nobody else's rows are written, and nothing waits that did not before.   *)
OnlyCurrent ==
  /\ \A u \in Txn : Explicit(u)' = Explicit(u) /\ (u # cur => txn'[u].status = txn[u].status)
  /\ \A u \in Txn \ {cur}, j \in Inst : step'[u][j] = step[u][j]
  /\ \A j \in Inst : step'[cur][j] = "pending" => step[cur][j] = "pending"

\* What waits, is staged or runs in the other transactions is as before.
LEMMA OthersAreKept ==
  ASSUME OnlyCurrent
  PROVE  /\ \A u \in Txn \ {cur} : /\ Waits(u)' = Waits(u) /\ AllStaged(u)' = AllStaged(u)
                                  /\ SomeRuns(u)' = SomeRuns(u)
         /\ AllStaged(cur) => \A j \in Inst : step'[cur][j] # "pending"
BY DEF OnlyCurrent, Waits, AllStaged, SomeRuns, Began

\* A transaction that is past its staging stays there.
LEMMA BusyKeepsWaiting ==
  ASSUME StepsWait, cur \in Txn, cur' = cur, OnlyCurrent, pc' # "stage",
         txn[cur].status \in {"activating", "rolling_back"},
         txn'[cur].status \in {"activating", "rolling_back"}
  PROVE  StepsWait'
<1>1. WaitsFirst' /\ StageIsDue'
  BY OthersAreKept DEF StepsWait, WaitsFirst, StageIsDue, OnlyCurrent
<1>2. ~Explicit(cur) => \A j \in Inst : step'[cur][j] # "pending"
  BY OthersAreKept DEF StepsWait, StagedFirst
<1>3. ASSUME NEW u \in Txn, u # cur, ~Explicit(u)'
      PROVE  (IF txn[u].status \in {"activating", "rolling_back"} THEN AllStaged(u)
              ELSE SomeRuns(u) => AllStaged(u))'
  BY <1>3, OthersAreKept DEF StepsWait, StagedFirst, OnlyCurrent
<1>4. ~Explicit(cur)' => \A j \in Inst : step'[cur][j] # "pending"
  BY <1>2 DEF OnlyCurrent
<1>5. StagedFirst'
  BY <1>3, <1>4 DEF StagedFirst, AllStaged
<1>6. QED  BY <1>1, <1>5 DEF StepsWait

\* A transaction that still waits, or whose steps are all staged.
LEMMA EarlyKeepsWaiting ==
  ASSUME StepsWait, cur \in Txn, OnlyCurrent, StageIsDue',
         \A t \in Txn : t = cur =>
           /\ txn'[t].status \in {"none", "prepared", "staging"} => Waits(t)'
           /\ Explicit(t) \/ (Waits(t)' /\ txn'[t].status = "staging") \/ AllStaged(t)'
  PROVE  StepsWait'
<1>1. WaitsFirst'
  BY OthersAreKept DEF StepsWait, WaitsFirst, OnlyCurrent
<1>2. ASSUME NEW u \in Txn, ~Explicit(u)'
      PROVE  (IF txn[u].status \in {"activating", "rolling_back"} THEN AllStaged(u)
              ELSE SomeRuns(u) => AllStaged(u))'
  <2>1. CASE u # cur
    BY <1>2, <2>1, OthersAreKept DEF StepsWait, StagedFirst, OnlyCurrent
  <2>2. CASE u = cur /\ AllStaged(u)'
    BY <2>2
  <2>3. CASE u = cur /\ Waits(u)' /\ txn'[u].status = "staging"
    BY <2>3 DEF Waits, SomeRuns
  <2>4. QED  BY <1>2, <2>1, <2>2, <2>3 DEF OnlyCurrent
<1>3. StagedFirst'
  BY <1>2 DEF StagedFirst
<1>4. QED  BY <1>1, <1>3 DEF StepsWait

\* No step begins before its time.
LEMMA StepsWaitStep ==
  ASSUME TypeOK, JournalInv, DriftInv, [Next]_vars
  PROVE  StepsWait'
<1> USE PointFacts, ZeroIsNone DEF LoopsAreSteps, Idle
<1>0. LoopsAreSteps /\ StepsWait /\ InFlight /\ HolderFollowsJournal
  BY DEF JournalInv, DriftInv, LoopInv, DiskInv
<1>1. CASE Elsewhere
  BY <1>0, <1>1 DEF Elsewhere, StepsOf, StepsWait, WaitsFirst, StagedFirst, StageIsDue,
       Waits, AllStaged, SomeRuns, Began, Explicit, HolderFollowsJournal
<1>2. CASE Scanning
  BY <1>0, <1>2 DEF Scanning, StepsOf, StepsWait, WaitsFirst, StagedFirst, StageIsDue,
       Waits, AllStaged, SomeRuns, Began, Explicit, HolderFollowsJournal
<1>3. ASSUME NEW p \in Preview, NEW t \in Txn, Opens(p, t)  PROVE StepsWait'
  BY <1>0, <1>3 DEF Opens, StepsWait, WaitsFirst, StagedFirst, StageIsDue, Waits, AllStaged,
       SomeRuns, Began, Explicit, HolderFollowsJournal
<1>4. ASSUME NEW t \in Txn, RecoverUpdate(t)  PROVE StepsWait'
  BY <1>0, <1>4 DEF RecoverUpdate, db, ledger, Oldest, StepsOf, StepsWait, WaitsFirst,
       StagedFirst, StageIsDue, Waits, AllStaged, SomeRuns, Began, Explicit,
       HolderFollowsJournal
<1>5. ASSUME NEW t \in Txn, RecoverRollback(t)  PROVE StepsWait'
  BY <1>0, <1>5 DEF RecoverRollback, db, ledger, Oldest, StepsOf, StepsWait, WaitsFirst,
       StagedFirst, StageIsDue, Waits, AllStaged, SomeRuns, Began, Explicit,
       HolderFollowsJournal
<1>6. CASE CommandTakesEffect
  BY <1>0, <1>6, EffectWritten DEF StepsOf, StepsWait, WaitsFirst, StagedFirst, StageIsDue,
       Waits, AllStaged, SomeRuns, Began, Explicit, HolderFollowsJournal
<1>7. CASE BeginStaging
  <2>1. cur \in Txn /\ OnlyCurrent /\ (step' = step)
        /\ pc \in {"prepared", "stage"}
    BY <1>0, <1>7, BeginStagingWritten DEF OnlyCurrent, StatusSet, StepSet, Explicit
  <2>2. txn'[cur].status = "staging"
    BY <1>0, <1>7, BeginStagingWritten DEF HolderFollowsJournal, StatusSet
  <2>3. StageIsDue'
    BY <1>0, <1>7, BeginStagingWritten, StepFacts DEF StageIsDue, Goto
  <2>4. \A t \in Txn : t = cur => Waits(t)'
    BY <1>0, <2>1, <2>2 DEF StepsWait, WaitsFirst, HolderFollowsJournal, Waits, Began,
           StepSet
  <2>5. QED  BY <1>0, <2>1, <2>2, <2>3, <2>4, EarlyKeepsWaiting
<1>8. ASSUME NEW i \in Inst, Stage(i)  PROVE StepsWait'
  <2>1. cur \in Txn /\ OnlyCurrent /\ (step' = step \/ StepSet(cur, i, "staged"))
        /\ pc \in {"prepared", "stage"}
    BY <1>0, <1>8, StageWritten DEF OnlyCurrent, StatusSet, StepSet, Explicit
  <2>2. txn'[cur].status = "staging"
    BY <1>0, <1>8, StageWritten DEF HolderFollowsJournal, StatusSet
  <2>3. StageIsDue'
    BY ZenonT(60), <1>0, <1>8, StageWritten DEF StepsWait, StageIsDue, Goto, StepSet
  <2>4. \A t \in Txn : t = cur => Waits(t)'
    BY <1>0, <2>1, <2>2 DEF StepsWait, WaitsFirst, HolderFollowsJournal, Waits, Began,
           StepSet
  <2>5. QED  BY <1>0, <2>1, <2>2, <2>3, <2>4, EarlyKeepsWaiting
<1>9. CASE BeginActivation
  <2>1. cur \in Txn /\ OnlyCurrent /\ (step' = step)
        /\ pc \in {"prepared", "stage"}
    BY <1>0, <1>9, BeginActivationWritten DEF OnlyCurrent, StatusSet, StepSet, Explicit
  <2>2. txn'[cur].status = "activating"
    BY <1>0, <1>9, BeginActivationWritten DEF HolderFollowsJournal, StatusSet
  <2>3. StageIsDue'
    BY <1>0, <1>9, BeginActivationWritten DEF StageIsDue, Goto
  <2>4. \A t \in Txn : t = cur => AllStaged(t)'
    BY <1>0, <1>9, <2>1, <2>2, BeginActivationWritten DEF StepsWait, StageIsDue, AllStaged
  <2>5. QED  BY <1>0, <2>1, <2>2, <2>3, <2>4, EarlyKeepsWaiting
<1>10. ASSUME NEW i \in Inst, Activate(i)  PROVE StepsWait'
  <2>1. cur \in Txn /\ cur' = cur /\ OnlyCurrent /\ pc' # "stage"
    BY <1>0, <1>10, ActivateWritten DEF OnlyCurrent, StatusSet, StepSet, Goto, Start,
       Explicit
  <2>2. /\ txn[cur].status \in {"activating", "rolling_back"}
        /\ txn'[cur].status \in {"activating", "rolling_back"}
    BY <1>0, <1>10, ActivateWritten DEF HolderFollowsJournal, StatusSet, Goto, Start
  <2>3. QED  BY <1>0, <2>1, <2>2, BusyKeepsWaiting
<1>11. CASE Activated
  <2>1. cur \in Txn /\ cur' = cur /\ OnlyCurrent /\ pc' # "stage"
    BY <1>0, <1>11, ActivatedWritten DEF OnlyCurrent, StatusSet, StepSet, Goto, Start,
       Explicit
  <2>2. /\ txn[cur].status \in {"activating", "rolling_back"}
        /\ txn'[cur].status \in {"activating", "rolling_back"}
    BY <1>0, <1>11, ActivatedWritten DEF HolderFollowsJournal, StatusSet, Goto, Start
  <2>3. QED  BY <1>0, <2>1, <2>2, BusyKeepsWaiting
<1>12. CASE ActivationFails
  <2>1. cur \in Txn /\ cur' = cur /\ OnlyCurrent /\ pc' # "stage"
    BY <1>0, <1>12, ActivationFailsWritten DEF OnlyCurrent, StatusSet, StepSet, Goto, Start,
       Explicit
  <2>2. /\ txn[cur].status \in {"activating", "rolling_back"}
        /\ txn'[cur].status \in {"activating", "rolling_back"}
    BY <1>0, <1>12, ActivationFailsWritten DEF HolderFollowsJournal, StatusSet, Goto, Start
  <2>3. QED  BY <1>0, <2>1, <2>2, BusyKeepsWaiting
<1>13. CASE BeginHealth
  <2>1. cur \in Txn /\ cur' = cur /\ OnlyCurrent /\ pc' # "stage"
    BY <1>0, <1>13, BeginHealthWritten DEF OnlyCurrent, StatusSet, StepSet, Goto, Start,
       Explicit
  <2>2. /\ txn[cur].status \in {"activating", "rolling_back"}
        /\ txn'[cur].status \in {"activating", "rolling_back"}
    BY <1>0, <1>13, BeginHealthWritten DEF HolderFollowsJournal, StatusSet, Goto, Start
  <2>3. QED  BY <1>0, <2>1, <2>2, BusyKeepsWaiting
<1>14. ASSUME NEW i \in Inst, Healthy(i)  PROVE StepsWait'
  <2>1. cur \in Txn /\ cur' = cur /\ OnlyCurrent /\ pc' # "stage"
    BY <1>0, <1>14, HealthyWritten DEF OnlyCurrent, StatusSet, StepSet, Goto, Start, Explicit
  <2>2. /\ txn[cur].status \in {"activating", "rolling_back"}
        /\ txn'[cur].status \in {"activating", "rolling_back"}
    BY <1>0, <1>14, HealthyWritten DEF HolderFollowsJournal, StatusSet, Goto, Start
  <2>3. QED  BY <1>0, <2>1, <2>2, BusyKeepsWaiting
<1>15. ASSUME NEW i \in Inst, Unhealthy(i)  PROVE StepsWait'
  <2>1. cur \in Txn /\ cur' = cur /\ OnlyCurrent /\ pc' # "stage"
    BY <1>0, <1>15, UnhealthyWritten DEF OnlyCurrent, StatusSet, StepSet, Goto, Start,
       Explicit
  <2>2. /\ txn[cur].status \in {"activating", "rolling_back"}
        /\ txn'[cur].status \in {"activating", "rolling_back"}
    BY <1>0, <1>15, UnhealthyWritten DEF HolderFollowsJournal, StatusSet, Goto, Start
  <2>3. QED  BY <1>0, <2>1, <2>2, BusyKeepsWaiting
<1>16. CASE CommitFails
  <2>1. cur \in Txn /\ cur' = cur /\ OnlyCurrent /\ pc' # "stage"
    BY <1>0, <1>16, CommitFailsWritten DEF OnlyCurrent, StatusSet, StepSet, Goto, Start,
       Explicit
  <2>2. /\ txn[cur].status \in {"activating", "rolling_back"}
        /\ txn'[cur].status \in {"activating", "rolling_back"}
    BY <1>0, <1>16, CommitFailsWritten DEF HolderFollowsJournal, StatusSet, Goto, Start
  <2>3. QED  BY <1>0, <2>1, <2>2, BusyKeepsWaiting
<1>17. CASE BeginCompensation
  <2>1. cur \in Txn /\ cur' = cur /\ OnlyCurrent /\ pc' # "stage"
    BY <1>0, <1>17, BeginCompensationWritten DEF OnlyCurrent, StatusSet, StepSet, Goto,
       Start, Explicit
  <2>2. /\ txn[cur].status \in {"activating", "rolling_back"}
        /\ txn'[cur].status \in {"activating", "rolling_back"}
    BY <1>0, <1>17, BeginCompensationWritten DEF HolderFollowsJournal, StatusSet, Goto, Start
  <2>3. QED  BY <1>0, <2>1, <2>2, BusyKeepsWaiting
<1>18. ASSUME NEW i \in Inst, Compensate(i)  PROVE StepsWait'
  <2>1. cur \in Txn /\ cur' = cur /\ OnlyCurrent /\ pc' # "stage"
    BY <1>0, <1>18, CompensateWritten DEF OnlyCurrent, StatusSet, StepSet, Goto, Start,
       Explicit
  <2>2. /\ txn[cur].status \in {"activating", "rolling_back"}
        /\ txn'[cur].status \in {"activating", "rolling_back"}
    BY <1>0, <1>18, CompensateWritten DEF HolderFollowsJournal, StatusSet, Goto, Start
  <2>3. QED  BY <1>0, <2>1, <2>2, BusyKeepsWaiting
<1>19. ASSUME NEW i \in Inst, CannotCompensate(i)  PROVE StepsWait'
  <2>1. cur \in Txn /\ cur' = cur /\ OnlyCurrent /\ pc' # "stage"
    BY <1>0, <1>19, CannotCompensateWritten DEF OnlyCurrent, StatusSet, StepSet, Goto,
       Start, Explicit
  <2>2. /\ txn[cur].status \in {"activating", "rolling_back"}
        /\ txn'[cur].status \in {"activating", "rolling_back"}
    BY <1>0, <1>19, CannotCompensateWritten DEF HolderFollowsJournal, StatusSet, Goto, Start
  <2>3. QED  BY <1>0, <2>1, <2>2, BusyKeepsWaiting
<1>20. CASE Compensated
  <2>1. cur \in Txn /\ cur' = cur /\ OnlyCurrent /\ pc' # "stage"
    BY <1>0, <1>20, CompensatedWritten DEF OnlyCurrent, StatusSet, StepSet, Goto, Start,
       Explicit
  <2>2. /\ txn[cur].status \in {"activating", "rolling_back"}
        /\ txn'[cur].status \in {"activating", "rolling_back"}
    BY <1>0, <1>20, CompensatedWritten DEF HolderFollowsJournal, StatusSet, Goto, Start
  <2>3. QED  BY <1>0, <2>1, <2>2, BusyKeepsWaiting
<1>21. CASE CompensationFails
  <2>1. cur \in Txn /\ cur' = cur /\ OnlyCurrent /\ pc' # "stage"
    BY <1>0, <1>21, CompensationFailsWritten DEF OnlyCurrent, StatusSet, StepSet, Goto,
       Start, Explicit
  <2>2. /\ txn[cur].status \in {"activating", "rolling_back"}
        /\ txn'[cur].status \in {"activating", "rolling_back"}
    BY <1>0, <1>21, CompensationFailsWritten DEF HolderFollowsJournal, StatusSet, Goto, Start
  <2>3. QED  BY <1>0, <2>1, <2>2, BusyKeepsWaiting
<1>22. CASE BeginRollback
  <2>1. cur \in Txn /\ OnlyCurrent /\ (step' = step)
        /\ pc \in {"prepared", "stage"}
    BY <1>0, <1>22, BeginRollbackWritten DEF OnlyCurrent, StatusSet, StepSet, Explicit
  <2>2. txn'[cur].status = "rolling_back"
    BY <1>0, <1>22, BeginRollbackWritten DEF HolderFollowsJournal, StatusSet
  <2>3. StageIsDue'
    BY <1>0, <1>22, BeginRollbackWritten DEF StageIsDue, Goto
  <2>4. \A t \in Txn : t = cur => Explicit(t)
    BY <1>0, <1>22, <2>2, BeginRollbackWritten DEF Explicit
  <2>5. QED  BY <1>0, <2>1, <2>2, <2>3, <2>4, EarlyKeepsWaiting
<1>23. ASSUME NEW i \in Inst, Rollback(i)  PROVE StepsWait'
  <2>1. cur \in Txn /\ cur' = cur /\ OnlyCurrent /\ pc' # "stage"
    BY <1>0, <1>23, RollbackWritten DEF OnlyCurrent, StatusSet, StepSet, Goto, Start,
       Explicit
  <2>2. /\ txn[cur].status \in {"activating", "rolling_back"}
        /\ txn'[cur].status \in {"activating", "rolling_back"}
    BY <1>0, <1>23, RollbackWritten DEF HolderFollowsJournal, StatusSet, Goto, Start
  <2>3. QED  BY <1>0, <2>1, <2>2, BusyKeepsWaiting
<1>24. CASE RolledBack
  <2>1. cur \in Txn /\ cur' = cur /\ OnlyCurrent /\ pc' # "stage"
    BY <1>0, <1>24, RolledBackWritten DEF OnlyCurrent, StatusSet, StepSet, Goto, Start,
       Explicit
  <2>2. /\ txn[cur].status \in {"activating", "rolling_back"}
        /\ txn'[cur].status \in {"activating", "rolling_back"}
    BY <1>0, <1>24, RolledBackWritten DEF HolderFollowsJournal, StatusSet, Goto, Start
  <2>3. QED  BY <1>0, <2>1, <2>2, BusyKeepsWaiting
<1>25. CASE RollbackFails
  <2>1. cur \in Txn /\ cur' = cur /\ OnlyCurrent /\ pc' # "stage"
    BY <1>0, <1>25, RollbackFailsWritten DEF OnlyCurrent, StatusSet, StepSet, Goto, Start,
       Explicit
  <2>2. /\ txn[cur].status \in {"activating", "rolling_back"}
        /\ txn'[cur].status \in {"activating", "rolling_back"}
    BY <1>0, <1>25, RollbackFailsWritten DEF HolderFollowsJournal, StatusSet, Goto, Start
  <2>3. QED  BY <1>0, <2>1, <2>2, BusyKeepsWaiting
<1>26. ASSUME NEW i \in Inst, Restore(i)  PROVE StepsWait'
  <2>1. cur \in Txn /\ cur' = cur /\ OnlyCurrent /\ pc' # "stage"
    BY <1>0, <1>26, RestoreWritten DEF OnlyCurrent, StatusSet, StepSet, Goto, Start, Explicit
  <2>2. /\ txn[cur].status \in {"activating", "rolling_back"}
        /\ txn'[cur].status \in {"activating", "rolling_back"}
    BY <1>0, <1>26, RestoreWritten DEF HolderFollowsJournal, StatusSet, Goto, Start
  <2>3. QED  BY <1>0, <2>1, <2>2, BusyKeepsWaiting
<1>27. CASE Restored
  <2>1. cur \in Txn /\ cur' = cur /\ OnlyCurrent /\ pc' # "stage"
    BY <1>0, <1>27, RestoredWritten DEF OnlyCurrent, StatusSet, StepSet, Goto, Start,
       Explicit
  <2>2. /\ txn[cur].status \in {"activating", "rolling_back"}
        /\ txn'[cur].status \in {"activating", "rolling_back"}
    BY <1>0, <1>27, RestoredWritten DEF HolderFollowsJournal, StatusSet, Goto, Start
  <2>3. QED  BY <1>0, <2>1, <2>2, BusyKeepsWaiting
<1>28. CASE Ending
  <2>0. Ended
    BY <1>0, <1>28, EndingWritten
  <2>1. ASSUME NEW t \in Txn, Failing(t)  PROVE StepsWait'
    BY <1>0, <2>0, <2>1 DEF Failing, StatusSet, Ended, StepsWait, WaitsFirst, StagedFirst,
         StageIsDue, Waits, AllStaged, SomeRuns, Began, Explicit, HolderFollowsJournal
  <2>2. ASSUME NEW i \in Inst, StageFails(i)  PROVE StepsWait'
    BY <1>0, <2>0, <2>2, StageFailsWritten DEF StatusSet, StepSet, Ended, StepsWait,
         WaitsFirst, StagedFirst, StageIsDue, Waits, AllStaged, SomeRuns, Began, Explicit,
         HolderFollowsJournal
  <2>3. CASE CommitStaged
    BY <1>0, <2>0, <2>3, CommitStagedWritten DEF StatusSet, Ended, StepsWait, WaitsFirst,
         StagedFirst, StageIsDue, Waits, AllStaged, SomeRuns, Began, Explicit,
         HolderFollowsJournal
  <2>4. CASE RecordRolledBack
    BY <1>0, <2>0, <2>4, RecordRolledBackWritten DEF StatusSet, Ended, StepsWait,
         WaitsFirst, StagedFirst, StageIsDue, Waits, AllStaged, SomeRuns, Began, Explicit,
         HolderFollowsJournal
  <2>5. CASE Commit
    BY <1>0, <2>0, <2>5, CommitWritten DEF StatusSet, Ended, StepsWait, WaitsFirst,
         StagedFirst, StageIsDue, Waits, AllStaged, SomeRuns, Began, Explicit,
         HolderFollowsJournal
  <2>6. CASE Interrupted
    BY <1>0, <2>0, <2>6 DEF Interrupted, Ended, StepsWait, WaitsFirst, StagedFirst,
         StageIsDue, Waits, AllStaged, SomeRuns, Began, Explicit, HolderFollowsJournal
  <2>7. QED
    BY <1>28, <2>1, <2>2, <2>3, <2>4, <2>5, <2>6, EndingCases
<1>29. QED
  BY <1>0, <1>1, <1>2, <1>3, <1>4, <1>5, <1>6, <1>7, <1>8, <1>9, <1>10, <1>11, <1>12, <1>13,
     <1>14, <1>15, <1>16, <1>17, <1>18, <1>19, <1>20, <1>21, <1>22, <1>23, <1>24, <1>25,
     <1>26, <1>27, <1>28, DriftCases

\* Crashes are counted.
LEMMA CrashesAreCounted == TypeOK => crashes \in Nat
BY InstancesAssumption DEF TypeOK, SessionsOK

\* Without a crash, nothing is left to recover.
LEMMA NoCrashNoRecoveryStep ==
  ASSUME TypeOK, JournalInv, DriftInv, [Next]_vars
  PROVE  NoCrashNoRecovery'
<1> USE PointFacts, ZeroIsNone DEF NoCrashNoRecovery, LoopsAreSteps, Idle, Open, Unfinished,
      HolderFollowsJournal
<1>0. LoopsAreSteps /\ NoCrashNoRecovery /\ HolderFollowsJournal
  BY DEF JournalInv, DriftInv, LoopInv, DiskInv
<1>1. CASE Elsewhere
  BY <1>0, <1>1 DEF Elsewhere, StepsOf
<1>2. CASE Scanning
  BY <1>0, <1>2 DEF Scanning, StepsOf
<1>3. ASSUME NEW p \in Preview, NEW t \in Txn, Opens(p, t)  PROVE NoCrashNoRecovery'
  BY <1>0, <1>3 DEF Opens, HolderOK, TypeOK
<1>4. ASSUME NEW t \in Txn, RecoverUpdate(t)  PROVE NoCrashNoRecovery'
  BY <1>0, <1>4 DEF RecoverUpdate, db, ledger, Oldest, StepsOf, HolderOK, TypeOK
<1>5. ASSUME NEW t \in Txn, RecoverRollback(t)  PROVE NoCrashNoRecovery'
  BY <1>0, <1>5 DEF RecoverRollback, db, ledger, Oldest, StepsOf, HolderOK, TypeOK
<1>6. CASE CommandTakesEffect
  BY <1>0, <1>6, EffectWritten DEF StepsOf
<1>7. CASE BeginStaging
  BY <1>0, <1>7, BeginStagingWritten DEF StatusSet, StepSet, StepsKept, Goto, Start
<1>8. ASSUME NEW i \in Inst, Stage(i)  PROVE NoCrashNoRecovery'
  BY <1>0, <1>8, StageWritten DEF StatusSet, StepSet, StepsKept, Goto, Start
<1>9. CASE BeginActivation
  BY <1>0, <1>9, BeginActivationWritten DEF StatusSet, StepSet, StepsKept, Goto, Start
<1>10. ASSUME NEW i \in Inst, Activate(i)  PROVE NoCrashNoRecovery'
  BY <1>0, <1>10, ActivateWritten DEF StatusSet, StepSet, StepsKept, Goto, Start
<1>11. CASE Activated
  BY <1>0, <1>11, ActivatedWritten DEF StatusSet, StepSet, StepsKept, Goto, Start
<1>12. CASE ActivationFails
  BY <1>0, <1>12, ActivationFailsWritten DEF StatusSet, StepSet, StepsKept, Goto, Start
<1>13. CASE BeginHealth
  BY <1>0, <1>13, BeginHealthWritten DEF StatusSet, StepSet, StepsKept, Goto, Start
<1>14. ASSUME NEW i \in Inst, Healthy(i)  PROVE NoCrashNoRecovery'
  BY <1>0, <1>14, HealthyWritten DEF StatusSet, StepSet, StepsKept, Goto, Start
<1>15. ASSUME NEW i \in Inst, Unhealthy(i)  PROVE NoCrashNoRecovery'
  BY <1>0, <1>15, UnhealthyWritten DEF StatusSet, StepSet, StepsKept, Goto, Start
<1>16. CASE CommitFails
  BY <1>0, <1>16, CommitFailsWritten DEF StatusSet, StepSet, StepsKept, Goto, Start
<1>17. CASE BeginCompensation
  BY <1>0, <1>17, BeginCompensationWritten DEF StatusSet, StepSet, StepsKept, Goto, Start
<1>18. ASSUME NEW i \in Inst, Compensate(i)  PROVE NoCrashNoRecovery'
  BY <1>0, <1>18, CompensateWritten DEF StatusSet, StepSet, StepsKept, Goto, Start
<1>19. ASSUME NEW i \in Inst, CannotCompensate(i)  PROVE NoCrashNoRecovery'
  BY <1>0, <1>19, CannotCompensateWritten DEF StatusSet, StepSet, StepsKept, Goto, Start
<1>20. CASE Compensated
  BY <1>0, <1>20, CompensatedWritten DEF StatusSet, StepSet, StepsKept, Goto, Start
<1>21. CASE CompensationFails
  BY <1>0, <1>21, CompensationFailsWritten DEF StatusSet, StepSet, StepsKept, Goto, Start
<1>22. CASE BeginRollback
  BY <1>0, <1>22, BeginRollbackWritten DEF StatusSet, StepSet, StepsKept, Goto, Start
<1>23. ASSUME NEW i \in Inst, Rollback(i)  PROVE NoCrashNoRecovery'
  BY <1>0, <1>23, RollbackWritten DEF StatusSet, StepSet, StepsKept, Goto, Start
<1>24. CASE RolledBack
  BY <1>0, <1>24, RolledBackWritten DEF StatusSet, StepSet, StepsKept, Goto, Start
<1>25. CASE RollbackFails
  BY <1>0, <1>25, RollbackFailsWritten DEF StatusSet, StepSet, StepsKept, Goto, Start
<1>26. ASSUME NEW i \in Inst, Restore(i)  PROVE NoCrashNoRecovery'
  BY <1>0, <1>26, RestoreWritten DEF StatusSet, StepSet, StepsKept, Goto, Start
<1>27. CASE Restored
  BY <1>0, <1>27, RestoredWritten DEF StatusSet, StepSet, StepsKept, Goto, Start
<1>28. CASE Ending
  <2>0. Ended
    BY <1>0, <1>28, EndingWritten
  <2>1. ASSUME NEW t \in Txn, Failing(t)  PROVE NoCrashNoRecovery'
    BY <1>0, <2>0, <2>1 DEF Failing, StatusSet, Ended
  <2>2. ASSUME NEW i \in Inst, StageFails(i)  PROVE NoCrashNoRecovery'
    BY <1>0, <2>0, <2>2, StageFailsWritten DEF StatusSet, StepSet, Ended
  <2>3. CASE CommitStaged
    BY <1>0, <2>0, <2>3, CommitStagedWritten DEF StatusSet, Ended
  <2>4. CASE RecordRolledBack
    BY <1>0, <2>0, <2>4, RecordRolledBackWritten DEF StatusSet, Ended
  <2>5. CASE Commit
    BY <1>0, <2>0, <2>5, CommitWritten DEF StatusSet, Ended
  <2>6. CASE Interrupted
    <3>1. crashes' # 0 \/ (crashes # 0 /\ crashes' = crashes)
      BY <1>0, <2>6, CrashesAreCounted DEF Interrupted
    <3>2. QED  BY <2>0, <3>1 DEF Ended
  <2>7. QED
    BY <1>28, <2>1, <2>2, <2>3, <2>4, <2>5, <2>6, EndingCases
<1>29. QED
  BY <1>0, <1>1, <1>2, <1>3, <1>4, <1>5, <1>6, <1>7, <1>8, <1>9, <1>10, <1>11, <1>12, <1>13,
     <1>14, <1>15, <1>16, <1>17, <1>18, <1>19, <1>20, <1>21, <1>22, <1>23, <1>24, <1>25,
     <1>26, <1>27, <1>28, DriftCases

\* If nothing is installed and nothing recorded, it is enough that what accounts for a
\* drift still does.
LEMMA AccountsKept ==
  ASSUME DriftIsAccounted, UNCHANGED <<observed, disk>>,
         \A t \in Txn, j \in Inst : Accounts(t, j) /\ disk[j] # observed[j] => Accounts(t, j)'
  PROVE  DriftIsAccounted'
BY DEF DriftIsAccounted

\* A drift stays accounted for.
LEMMA DriftIsAccountedStep ==
  ASSUME TypeOK, JournalInv, DriftInv, [Next]_vars
  PROVE  DriftIsAccounted'
<1> USE PointFacts, ZeroIsNone DEF Idle
<1>0. LoopsAreSteps /\ StepsWait /\ InFlight /\ Installed /\ Undoable /\ Undone
        /\ SavedIsObserved /\ DriftIsAccounted /\ HolderFollowsJournal
  BY DEF JournalInv, DriftInv, LoopInv, DiskInv
<1>1. CASE Elsewhere
  <2>1. ASSUME NEW t \in Txn, NEW j \in Inst, Accounts(t, j), disk[j] # observed[j]
        PROVE  Accounts(t, j)'
    BY <1>0, <1>1, <2>1 DEF Accounts, Began, Explicit, Elsewhere
  <2>2. QED  BY <1>0, <1>1, <2>1, AccountsKept DEF Elsewhere
<1>2. CASE Scanning
  <2>1. ASSUME NEW t \in Txn, NEW j \in Inst, Accounts(t, j)  PROVE Accounts(t, j)'
    BY <1>2, <2>1 DEF Scanning, Accounts, Began, Explicit
  <2>2. \A j \in Inst : disk'[j] # observed'[j] => disk[j] # observed[j]
    BY <1>2 DEF Scanning
  <2>3. QED  BY <1>0, <2>1, <2>2 DEF DriftIsAccounted
<1>3. ASSUME NEW p \in Preview, NEW t \in Txn, Opens(p, t)  PROVE DriftIsAccounted'
  <2>1. ASSUME NEW u \in Txn, NEW j \in Inst, Accounts(u, j)  PROVE Accounts(u, j)'
    <3>1. u # t
      BY <1>0, <1>3, <2>1 DEF Opens, StepsWait, WaitsFirst, Waits, Accounts
    <3>2. QED  BY <1>3, <2>1, <3>1 DEF Opens, Accounts, Began, Explicit
  <2>2. QED  BY <1>0, <1>3, <2>1, AccountsKept DEF Opens
<1>4. ASSUME NEW t \in Txn, RecoverUpdate(t)  PROVE DriftIsAccounted'
  <2>1. UNCHANGED <<txn, step, observed, disk, scanned, crashes>>
    BY <1>4 DEF RecoverUpdate, db, ledger
  <2>2. QED  BY <1>0, <2>1 DEF DriftIsAccounted, Accounts, Began, Explicit
<1>5. ASSUME NEW t \in Txn, RecoverRollback(t)  PROVE DriftIsAccounted'
  <2>1. UNCHANGED <<txn, step, observed, disk, scanned, crashes>>
    BY <1>5 DEF RecoverRollback, db, ledger
  <2>2. QED  BY <1>0, <2>1 DEF DriftIsAccounted, Accounts, Began, Explicit
<1>6. CASE CommandTakesEffect
  <2>1. Accounts(cur, at) /\ cur \in Txn
    BY <1>0, <1>6, EffectWritten DEF InFlight, HolderFollowsJournal, Accounts, Began,
       Commanding
  <2>2. \A t \in Txn, j \in Inst : Accounts(t, j)' = Accounts(t, j)
    BY <1>6, EffectWritten DEF Accounts, Began, Explicit
  <2>3. \A j \in Inst : (j = at \/ disk'[j] = disk[j]) /\ observed'[j] = observed[j]
    BY <1>6, EffectWritten
  <2>4. QED  BY <1>0, <2>1, <2>2, <2>3 DEF DriftIsAccounted
<1>7. CASE BeginStaging
  <2>1. ASSUME NEW t \in Txn, NEW j \in Inst, Accounts(t, j), disk[j] # observed[j]
        PROVE  Accounts(t, j)'
    BY <1>0, <1>7, <2>1, BeginStagingWritten DEF Accounts, Began, Explicit, StatusSet,
       StepSet, Goto, Start, HolderFollowsJournal, StepsWait, WaitsFirst, Waits
  <2>2. QED  BY <1>0, <1>7, <2>1, BeginStagingWritten, AccountsKept
<1>8. ASSUME NEW i \in Inst, Stage(i)  PROVE DriftIsAccounted'
  <2>1. cur \in Txn /\ StepSet(cur, i, "staged")
        /\ UNCHANGED <<txn, observed, disk, scanned, crashes>>
    BY <1>0, <1>8, StageWritten DEF Start
  <2>2. \A j \in Inst : ~Began(cur, j)
    BY <1>0, <1>8, StageWritten DEF HolderFollowsJournal, StepsWait, WaitsFirst, Waits
  <2>3. ASSUME NEW t \in Txn, NEW j \in Inst, Accounts(t, j)  PROVE Accounts(t, j)'
    BY <2>1, <2>2, <2>3 DEF Accounts, Began, Explicit, StepSet
  <2>4. QED  BY <1>0, <2>1, <2>3, AccountsKept
<1>9. CASE BeginActivation
  <2>1. ASSUME NEW t \in Txn, NEW j \in Inst, Accounts(t, j), disk[j] # observed[j]
        PROVE  Accounts(t, j)'
    BY <1>0, <1>9, <2>1, BeginActivationWritten DEF Accounts, Began, Explicit, StatusSet,
       StepSet, Goto, Start, HolderFollowsJournal
  <2>2. QED  BY <1>0, <1>9, <2>1, BeginActivationWritten, AccountsKept
<1>10. ASSUME NEW i \in Inst, Activate(i)  PROVE DriftIsAccounted'
  <2>1. cur \in Txn /\ StepSet(cur, i, "activating")
        /\ UNCHANGED <<txn, observed, disk, scanned, crashes>>
    BY <1>0, <1>10, ActivateWritten DEF Start
  <2>2. ASSUME NEW t \in Txn, NEW j \in Inst, Accounts(t, j)  PROVE Accounts(t, j)'
    BY <2>1, <2>2 DEF Accounts, Began, Explicit, StepSet
  <2>3. QED  BY <1>0, <2>1, <2>2, AccountsKept
<1>11. CASE Activated
  <2>1. ASSUME NEW t \in Txn, NEW j \in Inst, Accounts(t, j), disk[j] # observed[j]
        PROVE  Accounts(t, j)'
    BY <1>0, <1>11, <2>1, ActivatedWritten DEF Accounts, Began, Explicit, StatusSet,
       StepSet, Goto, Start, HolderFollowsJournal
  <2>2. QED  BY <1>0, <1>11, <2>1, ActivatedWritten, AccountsKept
<1>12. CASE ActivationFails
  <2>1. ASSUME NEW t \in Txn, NEW j \in Inst, Accounts(t, j), disk[j] # observed[j]
        PROVE  Accounts(t, j)'
    BY <1>0, <1>12, <2>1, ActivationFailsWritten DEF Accounts, Began, Explicit, StatusSet,
       StepSet, Goto, Start, HolderFollowsJournal
  <2>2. QED  BY <1>0, <1>12, <2>1, ActivationFailsWritten, AccountsKept
<1>13. CASE BeginHealth
  <2>1. ASSUME NEW t \in Txn, NEW j \in Inst, Accounts(t, j), disk[j] # observed[j]
        PROVE  Accounts(t, j)'
    BY <1>0, <1>13, <2>1, BeginHealthWritten DEF Accounts, Began, Explicit, StatusSet,
       StepSet, Goto, Start, HolderFollowsJournal
  <2>2. QED  BY <1>0, <1>13, <2>1, BeginHealthWritten, AccountsKept
<1>14. ASSUME NEW i \in Inst, Healthy(i)  PROVE DriftIsAccounted'
  <2>1. cur \in Txn /\ (StepSet(cur, i, "healthy") \/ step' = step)
        /\ UNCHANGED <<txn, observed, disk, scanned, crashes>>
    BY <1>0, <1>14, HealthyWritten DEF Start
  <2>2. ASSUME NEW t \in Txn, NEW j \in Inst, Accounts(t, j)  PROVE Accounts(t, j)'
    BY <2>1, <2>2 DEF Accounts, Began, Explicit, StepSet
  <2>3. QED  BY <1>0, <2>1, <2>2, AccountsKept
<1>15. ASSUME NEW i \in Inst, Unhealthy(i)  PROVE DriftIsAccounted'
  <2>1. cur \in Txn /\ (StepSet(cur, i, "failed") \/ step' = step)
        /\ UNCHANGED <<txn, observed, disk, scanned, crashes>>
    BY <1>0, <1>15, UnhealthyWritten DEF Start
  <2>2. ASSUME NEW t \in Txn, NEW j \in Inst, Accounts(t, j)  PROVE Accounts(t, j)'
    BY <2>1, <2>2 DEF Accounts, Began, Explicit, StepSet
  <2>3. QED  BY <1>0, <2>1, <2>2, AccountsKept
<1>16. CASE CommitFails
  <2>1. ASSUME NEW t \in Txn, NEW j \in Inst, Accounts(t, j), disk[j] # observed[j]
        PROVE  Accounts(t, j)'
    BY <1>0, <1>16, <2>1, CommitFailsWritten DEF Accounts, Began, Explicit, StatusSet,
       StepSet, Goto, Start, HolderFollowsJournal
  <2>2. QED  BY <1>0, <1>16, <2>1, CommitFailsWritten, AccountsKept
<1>17. CASE BeginCompensation
  <2>1. ASSUME NEW t \in Txn, NEW j \in Inst, Accounts(t, j), disk[j] # observed[j]
        PROVE  Accounts(t, j)'
    BY <1>0, <1>17, <2>1, BeginCompensationWritten DEF Accounts, Began, Explicit, StatusSet,
       StepSet, Goto, Start, HolderFollowsJournal
  <2>2. QED  BY <1>0, <1>17, <2>1, BeginCompensationWritten, AccountsKept
<1>18. ASSUME NEW i \in Inst, Compensate(i)  PROVE DriftIsAccounted'
  <2>1. cur \in Txn /\ StepSet(cur, i, "compensating")
        /\ UNCHANGED <<txn, observed, disk, scanned, crashes>>
    BY <1>0, <1>18, CompensateWritten DEF Start
  <2>2. ASSUME NEW t \in Txn, NEW j \in Inst, Accounts(t, j)  PROVE Accounts(t, j)'
    BY <2>1, <2>2 DEF Accounts, Began, Explicit, StepSet
  <2>3. QED  BY <1>0, <2>1, <2>2, AccountsKept
<1>19. ASSUME NEW i \in Inst, CannotCompensate(i)  PROVE DriftIsAccounted'
  <2>1. ASSUME NEW t \in Txn, NEW j \in Inst, Accounts(t, j), disk[j] # observed[j]
        PROVE  Accounts(t, j)'
    BY <1>0, <1>19, <2>1, CannotCompensateWritten DEF Accounts, Began, Explicit, StatusSet,
       StepSet, Goto, Start, HolderFollowsJournal
  <2>2. QED  BY <1>0, <1>19, <2>1, CannotCompensateWritten, AccountsKept
<1>20. CASE Compensated
  <2>1. cur \in Txn /\ at \in Inst /\ (StepSet(cur, at, "compensated") \/ step' = step)
        /\ UNCHANGED <<txn, observed, disk, scanned, crashes>>
    BY <1>0, <1>20, CompensatedWritten
  <2>2. disk[at] = saved[at] /\ (scanned[cur] \/ saved = observed)
    BY <1>0, <1>20, CompensatedWritten, PointFacts DEF Undone, SavedIsObserved, Idle
  <2>3. ASSUME NEW t \in Txn, NEW j \in Inst, Accounts(t, j), disk[j] # observed[j]
        PROVE  Accounts(t, j)'
    <3>1. CASE t = cur /\ j = at
      BY <2>1, <2>2, <2>3, <3>1 DEF Accounts, Began, Explicit, StepSet
    <3>2. CASE ~(t = cur /\ j = at)
      BY <2>1, <2>3, <3>2 DEF Accounts, Began, Explicit, StepSet
    <3>3. QED  BY <3>1, <3>2
  <2>4. QED  BY <1>0, <2>1, <2>3, AccountsKept
<1>21. CASE CompensationFails
  <2>1. ASSUME NEW t \in Txn, NEW j \in Inst, Accounts(t, j), disk[j] # observed[j]
        PROVE  Accounts(t, j)'
    BY <1>0, <1>21, <2>1, CompensationFailsWritten DEF Accounts, Began, Explicit, StatusSet,
       StepSet, Goto, Start, HolderFollowsJournal
  <2>2. QED  BY <1>0, <1>21, <2>1, CompensationFailsWritten, AccountsKept
<1>22. CASE BeginRollback
  <2>1. ASSUME NEW t \in Txn, NEW j \in Inst, Accounts(t, j), disk[j] # observed[j]
        PROVE  Accounts(t, j)'
    BY <1>0, <1>22, <2>1, BeginRollbackWritten DEF Accounts, Began, Explicit, StatusSet,
       StepSet, Goto, Start, HolderFollowsJournal, StepsWait, WaitsFirst, Waits
  <2>2. QED  BY <1>0, <1>22, <2>1, BeginRollbackWritten, AccountsKept
<1>23. ASSUME NEW i \in Inst, Rollback(i)  PROVE DriftIsAccounted'
  <2>1. cur \in Txn /\ StepSet(cur, i, "compensating")
        /\ UNCHANGED <<txn, observed, disk, scanned, crashes>>
    BY <1>0, <1>23, RollbackWritten DEF Start
  <2>2. ASSUME NEW t \in Txn, NEW j \in Inst, Accounts(t, j)  PROVE Accounts(t, j)'
    BY <2>1, <2>2 DEF Accounts, Began, Explicit, StepSet
  <2>3. QED  BY <1>0, <2>1, <2>2, AccountsKept
<1>24. CASE RolledBack
  <2>1. ASSUME NEW t \in Txn, NEW j \in Inst, Accounts(t, j), disk[j] # observed[j]
        PROVE  Accounts(t, j)'
    BY <1>0, <1>24, <2>1, RolledBackWritten DEF Accounts, Began, Explicit, StatusSet,
       StepSet, Goto, Start, HolderFollowsJournal
  <2>2. QED  BY <1>0, <1>24, <2>1, RolledBackWritten, AccountsKept
<1>25. CASE RollbackFails
  <2>1. ASSUME NEW t \in Txn, NEW j \in Inst, Accounts(t, j), disk[j] # observed[j]
        PROVE  Accounts(t, j)'
    BY <1>0, <1>25, <2>1, RollbackFailsWritten DEF Accounts, Began, Explicit, StatusSet,
       StepSet, Goto, Start, HolderFollowsJournal
  <2>2. QED  BY <1>0, <1>25, <2>1, RollbackFailsWritten, AccountsKept
<1>26. ASSUME NEW i \in Inst, Restore(i)  PROVE DriftIsAccounted'
  <2>1. ASSUME NEW t \in Txn, NEW j \in Inst, Accounts(t, j), disk[j] # observed[j]
        PROVE  Accounts(t, j)'
    BY <1>0, <1>26, <2>1, RestoreWritten DEF Accounts, Began, Explicit, StatusSet, StepSet,
       Goto, Start, HolderFollowsJournal
  <2>2. QED  BY <1>0, <1>26, <2>1, RestoreWritten, AccountsKept
<1>27. CASE Restored
  <2>1. ASSUME NEW t \in Txn, NEW j \in Inst, Accounts(t, j), disk[j] # observed[j]
        PROVE  Accounts(t, j)'
    BY <1>0, <1>27, <2>1, RestoredWritten DEF Accounts, Began, Explicit, StatusSet, StepSet,
       Goto, Start, HolderFollowsJournal
  <2>2. QED  BY <1>0, <1>27, <2>1, RestoredWritten, AccountsKept
<1>28. CASE Ending
  <2>0. Ended
    BY <1>0, <1>28, EndingWritten
  <2>1. ASSUME NEW t \in Txn, Failing(t)  PROVE DriftIsAccounted'
    <3>1. ASSUME NEW u \in Txn, NEW j \in Inst, Accounts(u, j), disk[j] # observed[j]
          PROVE  Accounts(u, j)'
      BY <1>0, <2>1, <3>1 DEF Failing, StatusSet, Accounts, Began, Explicit
    <3>2. QED  BY <1>0, <2>1, <3>1, AccountsKept DEF Failing
  <2>2. ASSUME NEW i \in Inst, StageFails(i)  PROVE DriftIsAccounted'
    <3>1. ASSUME NEW u \in Txn, NEW j \in Inst, Accounts(u, j), disk[j] # observed[j]
          PROVE  Accounts(u, j)'
      BY <1>0, <2>2, <3>1, StageFailsWritten DEF StatusSet, StepSet, Accounts, Began,
         Explicit
    <3>2. QED  BY <1>0, <2>2, <3>1, AccountsKept, StageFailsWritten
  <2>3. CASE CommitStaged
    <3>1. ASSUME NEW u \in Txn, NEW j \in Inst, Accounts(u, j), disk[j] # observed[j]
          PROVE  Accounts(u, j)'
      BY <1>0, <2>3, <3>1, CommitStagedWritten DEF StatusSet, Accounts, Began, Explicit,
         StepsWait, WaitsFirst, Waits, HolderFollowsJournal
    <3>2. QED  BY <1>0, <2>3, <3>1, AccountsKept, CommitStagedWritten
  <2>4. CASE RecordRolledBack
    <3>1. ASSUME NEW u \in Txn, NEW j \in Inst, Accounts(u, j), disk[j] # observed[j]
          PROVE  Accounts(u, j)'
      <4>1. CASE u # cur
        BY <1>0, <2>4, <3>1, <4>1, RecordRolledBackWritten DEF StatusSet, Accounts, Began,
           Explicit
      <4>2. CASE u = cur /\ scanned[cur]
        BY <1>0, <2>4, <3>1, <4>2, RecordRolledBackWritten DEF StatusSet, Accounts, Began
      <4>3. CASE u = cur /\ ~scanned[cur]
        <5>1. ~Explicit(cur) /\ txn[cur].status = "rolling_back"
          BY <1>0, <2>4, RecordRolledBackWritten DEF HolderFollowsJournal
        <5>2. step[cur][j] \in StepStatus
          BY RecordRolledBackWritten, <2>4 DEF TypeOK, RowsOK
        <5>3. NeedsUndo(step[cur][j])
          BY <3>1, <4>3, <5>1, <5>2 DEF Accounts, Began, NeedsUndo, StepStatus
        <5>4. disk[j] = saved[j]
          BY <1>0, <2>4, <5>3, RecordRolledBackWritten, ZeroIsNone DEF Undoable, Undone
        <5>5. saved = observed
          BY <1>0, <2>4, <4>3, RecordRolledBackWritten DEF SavedIsObserved, Idle
        <5>6. QED  BY <3>1, <5>4, <5>5
      <4>4. QED  BY <4>1, <4>2, <4>3
    <3>2. QED  BY <1>0, <2>4, <3>1, RecordRolledBackWritten, AccountsKept
  <2>5. CASE Commit
    <3>1. ASSUME NEW j \in Inst, disk'[j] # observed'[j], j \in StepsOf(cur)
          PROVE  \E u \in Txn : Accounts(u, j)'
      <4>1. disk[j] # txn[cur].to[j] /\ cur \in Txn
        BY <2>5, <3>1, CommitWritten
      <4>2. Explicit(cur) /\ crashes # 0
        BY <1>0, <2>5, <3>1, <4>1, CommitWritten DEF Installed, Uninterrupted, Idle
      <4>3. Began(cur, j) /\ crashes > 0
        BY <1>0, <2>5, <3>1, <4>2, CommitWritten, CrashesAreCounted DEF InFlight
      <4>4. \A u \in Txn : u = cur => Accounts(u, j)'
        BY <2>5, <4>2, <4>3, CommitWritten DEF StatusSet, Accounts, Began, Explicit
      <4>5. QED  BY <4>1, <4>4
    <3>2. ASSUME NEW j \in Inst, disk'[j] # observed'[j], j \notin StepsOf(cur)
          PROVE  \E u \in Txn : Accounts(u, j)'
      <4>1. disk[j] # observed[j]
        BY <2>5, <3>2, CommitWritten
      <4>2. PICK u \in Txn : Accounts(u, j)
        BY <1>0, <4>1 DEF DriftIsAccounted
      <4>3. u # cur
        BY <3>2, <4>2, StepFacts DEF Accounts, Began
      <4>4. QED  BY <2>5, <4>2, <4>3, CommitWritten DEF StatusSet, Accounts, Began, Explicit
    <3>3. QED  BY <3>1, <3>2 DEF DriftIsAccounted
  <2>6. CASE Interrupted
    <3>1. ASSUME NEW u \in Txn, NEW j \in Inst, Accounts(u, j), disk[j] # observed[j]
          PROVE  Accounts(u, j)'
      BY <1>0, <2>6, <3>1, CrashesAreCounted DEF Interrupted, Accounts, Began, Explicit
    <3>2. QED  BY <1>0, <2>6, <3>1, AccountsKept DEF Interrupted
  <2>7. QED
    BY <1>28, <2>1, <2>2, <2>3, <2>4, <2>5, <2>6, EndingCases
<1>29. QED
  BY <1>0, <1>1, <1>2, <1>3, <1>4, <1>5, <1>6, <1>7, <1>8, <1>9, <1>10, <1>11, <1>12, <1>13,
     <1>14, <1>15, <1>16, <1>17, <1>18, <1>19, <1>20, <1>21, <1>22, <1>23, <1>24, <1>25,
     <1>26, <1>27, <1>28, DriftCases

\* Only Commit makes a transaction committed that was not, but for those that only stage.
LEMMA CommitsOnly ==
  ASSUME TypeOK, JournalInv, LoopsAreSteps, [Next]_vars, NEW t \in Txn,
         txn[t].status # "committed", txn'[t].status = "committed", ~txn[t].stageOnly
  PROVE  t = cur /\ Commit
<1>1. CASE Elsewhere
  BY <1>1 DEF Elsewhere
<1>2. CASE Scanning
  BY <1>2 DEF Scanning
<1>3. ASSUME NEW p \in Preview, NEW u \in Txn, Opens(p, u)  PROVE FALSE
  BY <1>3 DEF Opens
<1>4. ASSUME NEW u \in Txn, RecoverUpdate(u) \/ RecoverRollback(u)  PROVE FALSE
  BY <1>4 DEF RecoverUpdate, RecoverRollback, db
<1>5. CASE CommandTakesEffect
  BY <1>5, EffectWritten
<1>6. CASE BeginStaging
  BY <1>6, BeginStagingWritten DEF StatusSet
<1>7. ASSUME NEW i \in Inst, Stage(i)  PROVE FALSE
  BY <1>7, StageWritten DEF StatusSet
<1>8. CASE BeginActivation
  BY <1>8, BeginActivationWritten DEF StatusSet
<1>9. ASSUME NEW i \in Inst, Activate(i)  PROVE FALSE
  BY <1>9, ActivateWritten DEF StatusSet
<1>10. CASE Activated
  BY <1>10, ActivatedWritten DEF StatusSet
<1>11. CASE ActivationFails
  BY <1>11, ActivationFailsWritten DEF StatusSet
<1>12. CASE BeginHealth
  BY <1>12, BeginHealthWritten DEF StatusSet
<1>13. ASSUME NEW i \in Inst, Healthy(i)  PROVE FALSE
  BY <1>13, HealthyWritten DEF StatusSet
<1>14. ASSUME NEW i \in Inst, Unhealthy(i)  PROVE FALSE
  BY <1>14, UnhealthyWritten DEF StatusSet
<1>15. CASE CommitFails
  BY <1>15, CommitFailsWritten DEF StatusSet
<1>16. CASE BeginCompensation
  BY <1>16, BeginCompensationWritten DEF StatusSet
<1>17. ASSUME NEW i \in Inst, Compensate(i)  PROVE FALSE
  BY <1>17, CompensateWritten DEF StatusSet
<1>18. ASSUME NEW i \in Inst, CannotCompensate(i)  PROVE FALSE
  BY <1>18, CannotCompensateWritten DEF StatusSet
<1>19. CASE Compensated
  BY <1>19, CompensatedWritten DEF StatusSet
<1>20. CASE CompensationFails
  BY <1>20, CompensationFailsWritten DEF StatusSet
<1>21. CASE BeginRollback
  BY <1>21, BeginRollbackWritten DEF StatusSet
<1>22. ASSUME NEW i \in Inst, Rollback(i)  PROVE FALSE
  BY <1>22, RollbackWritten DEF StatusSet
<1>23. CASE RolledBack
  BY <1>23, RolledBackWritten DEF StatusSet
<1>24. CASE RollbackFails
  BY <1>24, RollbackFailsWritten DEF StatusSet
<1>25. ASSUME NEW i \in Inst, Restore(i)  PROVE FALSE
  BY <1>25, RestoreWritten DEF StatusSet
<1>26. CASE Restored
  BY <1>26, RestoredWritten DEF StatusSet
<1>27. CASE Ending
  <2>1. ASSUME NEW u \in Txn, Failing(u)  PROVE FALSE
    BY <2>1 DEF Failing, StatusSet
  <2>2. ASSUME NEW i \in Inst, StageFails(i)  PROVE FALSE
    BY <2>2, StageFailsWritten DEF StatusSet
  <2>3. CASE CommitStaged
    <3>1. txn[cur].stageOnly
      BY <2>3 DEF CommitStaged
    <3>2. QED  BY <2>3, <3>1, CommitStagedWritten DEF StatusSet
  <2>4. CASE RecordRolledBack
    BY <2>4, RecordRolledBackWritten DEF StatusSet
  <2>5. CASE Commit
    BY <2>5, CommitWritten DEF StatusSet
  <2>6. CASE Interrupted
    BY <2>6 DEF Interrupted
  <2>7. QED
    BY <1>27, <2>1, <2>2, <2>3, <2>4, <2>5, <2>6, EndingCases
<1>28. QED
  BY <1>1, <1>2, <1>3, <1>4, <1>5, <1>6, <1>7, <1>8, <1>9, <1>10, <1>11, <1>12, <1>13,
     <1>14, <1>15, <1>16, <1>17, <1>18, <1>19, <1>20, <1>21, <1>22, <1>23, <1>24, <1>25,
     <1>26, <1>27, DriftCases

-----------------------------------------------------------------------------
(* The theorems *)

\* The invariant holds throughout.
THEOREM DriftCorrect == Spec => []DriftInv
<1>1. Init => DriftInv
  <2> SUFFICES ASSUME Init  PROVE DriftInv
    OBVIOUS
  <2>1. pc = "free" /\ cur = 0 /\ todo = {} /\ acted = {} /\ ~recovering /\ disk = observed
        /\ (\A t \in Txn : txn[t] = NoTxn /\ \A i \in Inst : step[t][i] = "none")
    BY DEF Init
  <2>2. LoopsAreSteps /\ InFlight
    BY <2>1 DEF LoopsAreSteps, InFlight, Idle
  <2>3. StepsWait
    BY <2>1 DEF StepsWait, WaitsFirst, Waits, Began, StagedFirst, AllStaged, StageIsDue,
       NoTxn
  <2>4. Installed /\ NoCrashNoRecovery
    BY <2>1 DEF Installed, Uninterrupted, Idle, NoCrashNoRecovery, Open, Unfinished, NoTxn
  <2>5. Undoable /\ Undone /\ SavedIsObserved
    BY <2>1 DEF Undoable, Undone, SavedIsObserved, Idle
  <2>6. DriftIsAccounted
    BY <2>1 DEF DriftIsAccounted
  <2>7. QED  BY <2>2, <2>3, <2>4, <2>5, <2>6 DEF DriftInv, LoopInv, DiskInv
<1>2. TypeOK /\ JournalInv /\ DriftInv /\ [Next]_vars => DriftInv'
  BY LoopsAreStepsStep, InFlightStep, InstalledStep, UndoableStep, UndoneStep,
     SavedIsObservedStep, StepsWaitStep, NoCrashNoRecoveryStep, DriftIsAccountedStep
  DEF DriftInv, LoopInv, DiskInv
<1>3. QED  BY <1>1, <1>2, JournalCorrect, PTL DEF Spec

\* README.md:101: no step of an update is running, or has run, while another one waits to
\* be staged.
THEOREM StagingCorrect == Spec => []NoActivationBeforeAllStaged
<1>1. DriftInv => NoActivationBeforeAllStaged
  BY DEF DriftInv, LoopInv, StepsWait, StagedFirst, SomeRuns, AllStaged,
         NoActivationBeforeAllStaged
<1>2. QED  BY <1>1, DriftCorrect, PTL

\* Whatever crashes, whatever is recovered: what is installed is what is recorded, or a
\* step in the journal says why not.
THEOREM DriftIsExplained == Spec => []DriftIsJournaled
<1>1. DriftInv => DriftIsJournaled
  BY DEF DriftInv, DriftIsAccounted, Accounts, DriftIsJournaled
<1>2. QED  BY <1>1, DriftCorrect, PTL

\* What a transaction that commits has reached is the release it was opened for: for every
\* update, and for every rollback of a history without a crash.
THEOREM CommitCorrect == Spec => CommitInstallsTarget
<1> DEFINE Reached(t) == \A i \in StepsOf(t) : disk[i] = txn[t].to[i]
<1> DEFINE Commits(t) == /\ Open(t) /\ ~txn[t].stageOnly /\ txn'[t].status = "committed"
                         /\ Explicit(t) => crashes = 0
<1>1. ASSUME TypeOK, JournalInv, DriftInv, [Next]_vars, NEW t \in Txn, Commits(t)
      PROVE  Reached(t)
  <2>0. LoopsAreSteps /\ Installed /\ txn[t].status # "committed"
    BY <1>1 DEF DriftInv, LoopInv, DiskInv, Open, Unfinished
  <2>1. t = cur /\ Commit
    BY <1>1, <2>0, CommitsOnly
  <2>2. pc = "health" /\ Uninterrupted
    BY <1>1, <2>1 DEF Commit, Uninterrupted, Idle
  <2>3. QED  BY <2>0, <2>1, <2>2 DEF Installed
<1>2. TypeOK /\ JournalInv /\ DriftInv /\ [Next]_vars
        => [\A t \in Txn : Commits(t) => Reached(t)]_vars
  BY <1>1
<1>3. QED  BY <1>2, DriftCorrect, JournalCorrect, PTL DEF Spec, CommitInstallsTarget
=============================================================================
