------------------------------ MODULE BundleTxn ------------------------------
(***************************************************************************)
(* The Bundle transaction of ToolTend: internal/bundle/service.go          *)
(* (ExecuteUpdate, ExecuteRollback and their compensation paths),          *)
(* internal/bundle/recovery.go (RecoverTransactions) and the tables of     *)
(* internal/store/bundles.go they write, for one Bundle.                   *)
(*                                                                         *)
(* A Bundle is a set of physical installations moved from one release to   *)
(* another by external commands that no database transaction can cover.    *)
(* A journal row per transaction and one per step record the intent; a     *)
(* crash loses the process, never the rows, the disk, or the effect an     *)
(* installer already had.  Everything is written under activation.lock,    *)
(* so there is at most one process to model, at "pc"; previews are taken   *)
(* without the lock and may be stale by the time they are executed.        *)
(***************************************************************************)
EXTENDS Naturals, Sequences, FiniteSets

CONSTANTS
  N,            \* installations of the Bundle, in step (ordinal) order 1..N
  Hooks,        \* the installations whose artifact kind is "hook"
  CanRollback,  \* the installations whose recipe has a rollback command
  MaxVersion,   \* versions are 1..MaxVersion, ordered like semantic versions
  Initial,      \* the release that is installed and recorded at the start
  PriorReceipts,\* releases with a "succeeded" receipt from before the start
  Resolvable,   \* releases the resolvers may report
  Clients,      \* command-line sessions that hold a preview
  StrayScans,   \* whether scans other than the worker's happen
  MaxTxn,       \* bound: transactions in a behaviour
  MaxCrash      \* bound: crashes in a behaviour

Inst    == 1..N
Txn     == 1..MaxTxn
Version == 1..MaxVersion
Release == [Inst -> Version]

ASSUME InstancesAssumption ==
  /\ N \in Nat \ {0} /\ MaxVersion \in Nat \ {0}
  /\ MaxTxn \in Nat /\ MaxCrash \in Nat
  /\ StrayScans \in BOOLEAN /\ Hooks \subseteq Inst /\ CanRollback \subseteq Inst
ASSUME ReleasesAssumption ==
  /\ Initial \in Release
  /\ PriorReceipts \subseteq Release /\ Resolvable \subseteq Release

VARIABLES
  txn,        \* bundle_transactions: [status, kind, stageOnly, from, to]
  step,       \* bundle_transaction_steps: status per transaction, installation
  receipts,   \* bundle_receipts: the outcomes recorded, in order, per transaction
  observed,   \* installations.observed_version
  current,    \* the versions of the release bundles.current_release_id names
  fromScan,   \* that release is the row of a scan, never the same row as a
              \* resolved release with the same versions
  disk,       \* the version that is physically installed
  pc,         \* where the holder of activation.lock is; "free": nobody holds it
  cur,        \* the transaction the holder works on; 0: none
  todo,       \* steps its current loop has not reached
  acted,      \* steps it must undo if it fails from here
  saved,      \* Installation.ObservedVersion as it read it; 0: not read
  at,         \* the installation its command in flight is for; 0: none
  ran,        \* that command has taken effect
  bad,        \* a command of its compensation or restore loop failed
  recovering, \* it is inside RecoverTransactions
  previews,   \* what each client prepared and has not executed
  crashes,    \* crashes so far
  scanned     \* history: a scan rewrote observed while the journal was open

ledger == <<receipts, observed, current, fromScan>>
db   == <<txn, step, ledger>>
loop == <<todo, acted, saved, at, ran, bad>>
vars == <<db, disk, pc, cur, loop, recovering, previews, crashes, scanned>>

TxnStatus   == {"none", "prepared", "staging", "activating", "rolling_back",
                "committed", "rolled_back", "failed"}
StepStatus  == {"none", "pending", "staged", "activating", "activated",
                "healthy", "compensating", "compensated", "failed"}
Terminal    == {"committed", "rolled_back", "failed"}

\* where the holder is between transactions, inside one, and inside a command
Idle        == {"free", "recover", "scan", "schedule"}
Working     == {"prepared", "stage", "activate", "health", "undo", "compensate",
                "rollback", "restore"}
Commanding  == {"activating", "compensating", "rolling", "restoring"}

\* ListUnfinishedBundleTransactions
Unfinished  == {"prepared", "staging", "activating", "rolling_back"}
Open(t)     == txn[t].status \in Unfinished

NoVersions  == [i \in Inst |-> 0]
NoTxn       == [status |-> "none", kind |-> "update", stageOnly |-> FALSE,
                from |-> Initial, to |-> Initial]
NoPreview   == [kind |-> "none"]

\* The loops of the service, as the step each would take next: in ordinal
\* order, in reverse, in explicitRollbackOrder (reverse, the hooks after
\* everything else), and in explicitRollbackOrder of a list already reversed.
Forward(i)  == i \in todo /\ \A j \in todo : i <= j
Backward(i) == i \in todo /\ \A j \in todo : j <= i
HooksLast(i) ==
  /\ i \in todo /\ (i \in Hooks => todo \subseteq Hooks)
  /\ \A j \in todo : (j \in Hooks <=> i \in Hooks) => j <= i
RestoreOrder(i) ==
  /\ i \in todo /\ (i \in Hooks => todo \subseteq Hooks)
  /\ \A j \in todo : (j \in Hooks <=> i \in Hooks) => i <= j

StepsOf(t)  == {i \in Inst : step[t][i] # "none"}
Explicit(t) == txn[t].kind = "rollback"

\* mutant: a command that was running at the crash is taken not to have run
NeedsUndo_Settled(s) == s \in {"activated", "healthy", "failed", "compensating"}
\* the steps RecoverTransactions compensates, ambiguous ones included
NeedsUndo(s) == s \in {"activating", "activated", "healthy", "failed", "compensating"}
\* the steps finishExplicitRollback does not run again
RolledBackStep(s) == s \in {"compensated", "healthy"}

-----------------------------------------------------------------------------
(* Rows, locks and the process *)

SetStatus(t, s)  == txn' = [txn EXCEPT ![t].status = s]
SetStep(t, i, s) == step' = [step EXCEPT ![t][i] = s]
\* a write whose error is ignored
TrySetStep(t, i, s) == SetStep(t, i, s) \/ UNCHANGED step
AddReceipt(t, s) == receipts' = [receipts EXCEPT ![t] = Append(@, s)]

Forget ==
  /\ cur' = 0 /\ todo' = {} /\ acted' = {} /\ saved' = NoVersions
  /\ at' = 0 /\ ran' = FALSE /\ bad' = FALSE

\* mutant: the next holder finds the transaction of the last one
Exit_Remembers == pc' = "free" /\ recovering' = FALSE /\ UNCHANGED <<cur, loop>>
\* the process ends, or returns its error, and activation.lock is released
Exit == pc' = "free" /\ Forget /\ recovering' = FALSE

\* a transaction has been settled: RecoverTransactions goes on to the next one
Settled ==
  IF recovering THEN pc' = "recover" /\ Forget /\ UNCHANGED recovering ELSE Exit

\* the process goes on to the loop at "where" over these steps
Goto(where, steps) ==
  /\ pc' = where /\ todo' = steps /\ at' = 0 /\ ran' = FALSE
  /\ UNCHANGED <<cur, saved, recovering, previews, crashes, scanned>>

\* the process starts the command of one step of its loop
Start(where, i) ==
  /\ pc' = where /\ todo' = todo \ {i} /\ at' = i /\ ran' = FALSE
  /\ UNCHANGED <<txn, ledger, disk, cur, acted, saved, bad,
                 recovering, previews, crashes, scanned>>

\* failTransaction: the journal becomes terminal without a receipt
FailTransaction ==
  /\ SetStatus(cur, "failed") /\ Exit
  /\ UNCHANGED <<ledger, disk, previews, crashes, scanned>>

-----------------------------------------------------------------------------
(* Previews, and the transactions they become *)

\* compareArtifactVersions: a resolver never takes an artifact backwards
NotBehind(r) == [i \in Inst |-> IF r[i] < current[i] THEN current[i] ELSE r[i]]

UpdatePreview(r, stageOnly) ==
  [kind |-> "update", stageOnly |-> stageOnly, from |-> current,
   fromScan |-> fromScan, to |-> NotBehind(r), fresh |-> TRUE]
RollbackPreview(target) ==
  [kind |-> "rollback", stageOnly |-> FALSE, from |-> current,
   fromScan |-> fromScan, to |-> target, fresh |-> TRUE]

\* selectRollbackReceipt: what the command line may choose to go back to
Receipted ==
  PriorReceipts \cup {txn[t].to : t \in {u \in Txn : receipts[u] = <<"succeeded">>}}
PriorReleases == IF fromScan THEN Receipted ELSE Receipted \ {current}

PrepareUpdate(c) ==
  /\ previews[c] = NoPreview
  /\ \E r \in Resolvable, stageOnly \in BOOLEAN :
       /\ NotBehind(r) # current
       /\ previews' = [previews EXCEPT ![c] = UpdatePreview(r, stageOnly)]
  /\ UNCHANGED <<db, disk, pc, cur, loop, recovering, crashes, scanned>>

PrepareRollback(c) ==
  /\ previews[c] = NoPreview /\ CanRollback = Inst
  /\ \E target \in PriorReleases :
       previews' = [previews EXCEPT ![c] = RollbackPreview(target)]
  /\ UNCHANGED <<db, disk, pc, cur, loop, recovering, crashes, scanned>>

\* the checks ExecuteUpdate and ExecuteRollback make under the lock: last_seen_at
\* of the row and the policy for both, the current release for a rollback only
Stale(p) ==
  ~p.fresh \/ (p.kind = "rollback" /\ <<p.from, p.fromScan>> # <<current, fromScan>>)

PlannedSteps(p) == {i \in Inst : p.kind = "rollback" \/ p.to[i] # p.from[i]}

OpenTransaction(p) ==
  \E t \in Txn :
    /\ txn[t].status = "none" /\ \A u \in Txn : u < t => txn[u].status # "none"
    /\ txn' = [txn EXCEPT ![t] = [status |-> "prepared", kind |-> p.kind,
                  stageOnly |-> p.stageOnly, from |-> p.from, to |-> p.to]]
    /\ step' = [step EXCEPT ![t] =
                  [i \in Inst |-> IF i \in PlannedSteps(p) THEN "pending" ELSE "none"]]
    /\ pc' = "prepared" /\ cur' = t /\ saved' = observed
    /\ UNCHANGED <<ledger, disk, todo, acted, at, ran, bad,
                   recovering, crashes, scanned>>

\* bundles update | rollback, once confirmed; withLifecycleStateLock takes the
\* lock and recovers adoptions and activations, but not Bundle transactions
Execute(c) ==
  /\ pc = "free" /\ previews[c] # NoPreview /\ ~Stale(previews[c])
  /\ OpenTransaction(previews[c])
  /\ previews' = [previews EXCEPT ![c] = NoPreview]

Reject(c) ==
  /\ pc = "free" /\ previews[c] # NoPreview /\ Stale(previews[c])
  /\ previews' = [previews EXCEPT ![c] = NoPreview]
  /\ UNCHANGED <<db, disk, pc, cur, loop, recovering, crashes, scanned>>

\* an inventory, recipe or journal error before the first command
SetupFails == pc = "prepared" /\ FailTransaction /\ UNCHANGED step

\* a step row cannot be written before its command, or after it succeeded
JournalFails ==
  /\ ~recovering
  /\ \/ pc \in {"stage", "activate", "rollback"} /\ todo # {}
     \/ pc \in {"activating", "rolling"} /\ ran
  /\ FailTransaction /\ UNCHANGED step

-----------------------------------------------------------------------------
(* ExecuteUpdate: stage everything, activate everything, check health, commit *)

BeginStaging ==
  /\ pc = "prepared" /\ ~Explicit(cur)
  /\ SetStatus(cur, "staging") /\ Goto("stage", StepsOf(cur))
  /\ UNCHANGED <<step, ledger, disk, acted, bad>>

Stage(i) ==
  /\ pc = "stage" /\ Forward(i)
  /\ SetStep(cur, i, "staged") /\ Goto("stage", todo \ {i})
  /\ UNCHANGED <<txn, ledger, disk, acted, bad>>

StageFails(i) ==
  /\ pc = "stage" /\ Forward(i)
  /\ TrySetStep(cur, i, "failed") /\ FailTransaction

\* mutants: what is only staged is reported as installed, or made current
CommitStaged_Receipt ==
  /\ pc = "stage" /\ todo = {} /\ txn[cur].stageOnly
  /\ SetStatus(cur, "committed") /\ AddReceipt(cur, "succeeded") /\ Exit
  /\ UNCHANGED <<step, observed, current, fromScan, disk, previews, crashes, scanned>>
CommitStaged_Current ==
  /\ pc = "stage" /\ todo = {} /\ txn[cur].stageOnly
  /\ SetStatus(cur, "committed") /\ current' = txn[cur].to /\ Exit
  /\ UNCHANGED <<step, receipts, observed, fromScan, disk, previews, crashes, scanned>>

CommitStaged ==
  /\ pc = "stage" /\ todo = {} /\ txn[cur].stageOnly
  /\ SetStatus(cur, "committed") /\ Exit
  /\ UNCHANGED <<step, ledger, disk, previews, crashes, scanned>>

\* mutant: the first installation is activated while the others are staged
BeginActivation_Early ==
  /\ pc = "stage" /\ ~txn[cur].stageOnly
  /\ SetStatus(cur, "activating") /\ Goto("activate", StepsOf(cur))
  /\ UNCHANGED <<step, ledger, disk, acted, bad>>

BeginActivation ==
  /\ pc = "stage" /\ todo = {} /\ ~txn[cur].stageOnly
  /\ SetStatus(cur, "activating") /\ Goto("activate", StepsOf(cur))
  /\ UNCHANGED <<step, ledger, disk, acted, bad>>

Activate(i) ==
  /\ pc = "activate" /\ Forward(i)
  /\ SetStep(cur, i, "activating") /\ Start("activating", i)

Activated ==
  /\ pc = "activating" /\ ran
  /\ SetStep(cur, at, "activated") /\ acted' = acted \cup {at} /\ Goto("activate", todo)
  /\ UNCHANGED <<txn, ledger, disk, bad>>

\* mutant: the loop goes on after a failed activation
ActivationFails_Continues ==
  /\ pc = "activating"
  /\ TrySetStep(cur, at, "failed") /\ acted' = acted \cup {at} /\ Goto("activate", todo)
  /\ UNCHANGED <<txn, ledger, disk, bad>>

ActivationFails ==
  /\ pc = "activating"
  /\ TrySetStep(cur, at, "failed") /\ acted' = acted \cup {at} /\ Goto("undo", {})
  /\ UNCHANGED <<txn, ledger, disk, bad>>

BeginHealth ==
  /\ pc \in {"activate", "rollback"} /\ todo = {}
  /\ Goto("health", StepsOf(cur))
  /\ UNCHANGED <<db, disk, acted, bad>>

\* an update checks its steps in order, a rollback in reverse
Healthy(i) ==
  /\ pc = "health" /\ (IF Explicit(cur) THEN Backward(i) ELSE Forward(i))
  /\ TrySetStep(cur, i, "healthy") /\ Goto("health", todo \ {i})
  /\ UNCHANGED <<txn, ledger, disk, acted, bad>>

Unhealthy(i) ==
  /\ pc = "health"
  /\ \/ /\ ~Explicit(cur) /\ Forward(i)
        /\ TrySetStep(cur, i, "failed") /\ Goto("undo", {})
     \/ /\ Explicit(cur) /\ Backward(i)
        /\ Goto("restore", acted) /\ UNCHANGED step
  /\ UNCHANGED <<txn, ledger, disk, acted, bad>>

\* CommitBundleActivation: one database transaction
Commit ==
  /\ pc = "health" /\ todo = {}
  /\ SetStatus(cur, "committed") /\ AddReceipt(cur, "succeeded")
  /\ current' = txn[cur].to /\ fromScan' = FALSE
  /\ observed' = [i \in Inst |-> IF i \in StepsOf(cur) THEN txn[cur].to[i] ELSE observed[i]]
  /\ Settled
  /\ UNCHANGED <<step, disk, previews, crashes, scanned>>

CommitFails ==
  /\ pc = "health" /\ todo = {}
  /\ IF Explicit(cur) THEN Goto("restore", acted) ELSE Goto("undo", {})
  /\ UNCHANGED <<db, disk, acted, bad>>

-----------------------------------------------------------------------------
(* compensate and recordRolledBack *)

\* mutant: compensation begins before the journal says so
BeginCompensation_Unjournaled ==
  /\ pc = "undo" /\ bad' = FALSE /\ Goto("compensate", acted)
  /\ UNCHANGED <<db, disk, acted>>

BeginCompensation ==
  /\ pc = "undo"
  /\ SetStatus(cur, "rolling_back") /\ bad' = FALSE /\ Goto("compensate", acted)
  /\ UNCHANGED <<step, ledger, disk, acted>>

\* the status cannot be written: ExecuteUpdate gives up on the compensation
CompensationRefused == pc = "undo" /\ ~recovering /\ FailTransaction /\ UNCHANGED step

Compensate(i) ==
  /\ pc = "compensate" /\ Backward(i) /\ i \in CanRollback
  /\ SetStep(cur, i, "compensating") /\ Start("compensating", i)

\* no rollback command, or the step row cannot be written
CannotCompensate(i) ==
  /\ pc = "compensate" /\ Backward(i)
  /\ bad' = TRUE /\ Goto("compensate", todo \ {i})
  /\ UNCHANGED <<db, disk, acted>>

Compensated ==
  /\ pc = "compensating" /\ ran
  /\ TrySetStep(cur, at, "compensated") /\ Goto("compensate", todo)
  /\ UNCHANGED <<txn, ledger, disk, acted, bad>>

CompensationFails ==
  /\ pc = "compensating" /\ bad' = TRUE /\ Goto("compensate", todo)
  /\ UNCHANGED <<db, disk, acted>>

\* CommitBundleCompensation: one database transaction
RecordRolledBack ==
  /\ pc = "compensate" /\ todo = {} /\ ~bad
  /\ SetStatus(cur, "rolled_back") /\ AddReceipt(cur, "rolled_back") /\ Settled
  /\ UNCHANGED <<step, observed, current, fromScan, disk, previews, crashes, scanned>>

\* ExecuteUpdate fails the journal, RecoverTransactions leaves it for a later run
GiveUpCompensation ==
  /\ pc = "compensate" /\ todo = {} /\ bad
  /\ IF recovering THEN Exit /\ UNCHANGED <<txn, ledger, disk, previews, crashes, scanned>>
     ELSE FailTransaction
  /\ UNCHANGED step

-----------------------------------------------------------------------------
(* ExecuteRollback, finishExplicitRollback and restoreAfterRollbackFailure *)

BeginRollback ==
  /\ pc = "prepared" /\ Explicit(cur)
  /\ SetStatus(cur, "rolling_back") /\ Goto("rollback", StepsOf(cur))
  /\ UNCHANGED <<step, ledger, disk, acted, bad>>

\* recovery goes through the steps in plain reverse
Rollback(i) ==
  /\ pc = "rollback" /\ (IF recovering THEN Backward(i) ELSE HooksLast(i))
  /\ SetStep(cur, i, "compensating") /\ Start("rolling", i)

RolledBack ==
  /\ pc = "rolling" /\ ran
  /\ SetStep(cur, at, "compensated") /\ acted' = acted \cup {at} /\ Goto("rollback", todo)
  /\ UNCHANGED <<txn, ledger, disk, bad>>

RollbackFails ==
  /\ pc = "rolling"
  /\ IF recovering THEN UNCHANGED step ELSE TrySetStep(cur, at, "failed")
  /\ acted' = acted \cup {at} /\ Goto("restore", acted \cup {at})
  /\ UNCHANGED <<txn, ledger, disk, bad>>

\* the way back to the release the rollback left is not journaled
Restore(i) ==
  /\ pc = "restore" /\ RestoreOrder(i)
  /\ Start("restoring", i) /\ UNCHANGED step

Restored ==
  /\ pc = "restoring" /\ Goto("restore", todo)
  /\ UNCHANGED <<db, disk, acted, bad>>

RestoreDone == pc = "restore" /\ todo = {} /\ FailTransaction /\ UNCHANGED step

-----------------------------------------------------------------------------
(* A driver command is run up to three times; it may have taken effect       *)
(* whatever it returned, and whether or not the process lived to see it.     *)

CommandTarget ==
  CASE pc \in {"activating", "rolling"} -> txn[cur].to[at]
    [] pc = "compensating"              -> saved[at]
    [] pc = "restoring"                 -> txn[cur].from[at]

CommandTakesEffect ==
  /\ pc \in Commanding /\ ~ran
  /\ disk' = [disk EXCEPT ![at] = CommandTarget] /\ ran' = TRUE
  /\ UNCHANGED <<db, pc, cur, todo, acted, saved, at, bad, recovering, previews, crashes,
                 scanned>>

-----------------------------------------------------------------------------
(* The worker: RecoverTransactions, then a scan, then an automatic update *)

WorkerStarts ==
  /\ pc = "free" /\ pc' = "recover" /\ recovering' = TRUE
  /\ UNCHANGED <<db, disk, cur, loop, previews, crashes, scanned>>

Oldest(t) == Open(t) /\ \A u \in Txn : u < t => ~Open(u)

RecoverUnstarted(t) ==
  /\ pc = "recover" /\ Oldest(t) /\ txn[t].status \in {"prepared", "staging"}
  /\ SetStatus(t, "failed")
  /\ UNCHANGED <<step, ledger, disk, pc, cur, loop, recovering,
                 previews, crashes, scanned>>

\* mutant: only the transactions that were activating are recovered
RecoverUpdate_Activating(t) ==
  /\ pc = "recover" /\ Oldest(t) /\ ~Explicit(t) /\ txn[t].status = "activating"
  /\ pc' = "undo" /\ cur' = t /\ saved' = observed
  /\ acted' = {i \in StepsOf(t) : NeedsUndo(step[t][i])}
  /\ UNCHANGED <<db, disk, todo, at, ran, bad, recovering, previews, crashes, scanned>>

RecoverUpdate(t) ==
  /\ pc = "recover" /\ Oldest(t) /\ ~Explicit(t)
  /\ txn[t].status \in {"activating", "rolling_back"}
  /\ pc' = "undo" /\ cur' = t /\ saved' = observed
  /\ acted' = {i \in StepsOf(t) : NeedsUndo(step[t][i])}
  /\ UNCHANGED <<db, disk, todo, at, ran, bad, recovering, previews, crashes, scanned>>

RecoverRollback(t) ==
  /\ pc = "recover" /\ Oldest(t) /\ Explicit(t) /\ txn[t].status = "rolling_back"
  /\ pc' = "rollback" /\ cur' = t /\ saved' = observed
  /\ acted' = {i \in StepsOf(t) : RolledBackStep(step[t][i])}
  /\ todo' = StepsOf(t) \ acted'
  /\ UNCHANGED <<db, disk, at, ran, bad, recovering, previews, crashes, scanned>>

RecoveryDone ==
  /\ pc = "recover" /\ \A t \in Txn : ~Open(t)
  /\ pc' = "scan" /\ recovering' = FALSE
  /\ UNCHANGED <<db, disk, cur, loop, previews, crashes, scanned>>

\* Discover: the row's last_seen_at makes every outstanding preview stale, then
\* what it finds becomes the recorded version, installation by installation, and
\* at the end the current release; it may stop on an error before any of these
DiscoverUpTo(k, complete) ==
  /\ complete => k = N
  /\ observed' = [i \in Inst |-> IF i <= k THEN disk[i] ELSE observed[i]]
  /\ IF complete THEN current' = disk /\ fromScan' = TRUE ELSE UNCHANGED <<current, fromScan>>
  /\ previews' = [c \in Clients |->
        IF previews[c] = NoPreview THEN NoPreview ELSE [previews[c] EXCEPT !.fresh = FALSE]]
  /\ scanned' = [t \in Txn |-> scanned[t] \/ Open(t)]
  /\ UNCHANGED <<txn, step, receipts, disk, cur, loop, crashes>>

WorkerScans ==
  /\ pc = "scan"
  /\ \E k \in 0..N : \/ DiscoverUpTo(k, TRUE) /\ pc' = "schedule"
                     \/ DiscoverUpTo(k, FALSE) /\ pc' = "free"
  /\ UNCHANGED recovering

\* tooltend scan under the lock; tooltend init at any moment, without it
CommandLineScans ==
  /\ StrayScans /\ \E k \in 0..N, complete \in BOOLEAN : DiscoverUpTo(k, complete)
  /\ UNCHANGED <<pc, recovering>>

\* ReconcileBundle for a policy of auto, which needs every rollback command
WorkerUpdates ==
  /\ pc = "schedule" /\ CanRollback = Inst
  /\ \E r \in Resolvable :
       NotBehind(r) # current /\ OpenTransaction(UpdatePreview(r, FALSE))
  /\ UNCHANGED previews

WorkerDone ==
  /\ pc = "schedule" /\ pc' = "free"
  /\ UNCHANGED <<db, disk, cur, loop, recovering, previews, crashes, scanned>>

\* ConfigureBundle: the policy's updated_at makes outstanding previews stale
Configure ==
  /\ pc = "free" /\ \E c \in Clients : previews[c] # NoPreview
  /\ previews' = [c \in Clients |->
        IF previews[c] = NoPreview THEN NoPreview ELSE [previews[c] EXCEPT !.fresh = FALSE]]
  /\ UNCHANGED <<db, disk, pc, cur, loop, recovering, crashes, scanned>>

\* the process is killed, or returns without having been able to write its failure
Crash ==
  /\ pc # "free" /\ crashes < MaxCrash
  /\ crashes' = crashes + 1 /\ Exit
  /\ UNCHANGED <<db, disk, previews, scanned>>

-----------------------------------------------------------------------------
Init ==
  /\ txn = [t \in Txn |-> NoTxn] /\ step = [t \in Txn |-> [i \in Inst |-> "none"]]
  /\ receipts = [t \in Txn |-> <<>>]
  /\ observed = Initial /\ current = Initial /\ fromScan = TRUE /\ disk = Initial
  /\ pc = "free" /\ cur = 0 /\ todo = {} /\ acted = {} /\ saved = NoVersions
  /\ at = 0 /\ ran = FALSE /\ bad = FALSE /\ recovering = FALSE
  /\ previews = [c \in Clients |-> NoPreview] /\ crashes = 0
  /\ scanned = [t \in Txn |-> FALSE]

Client == \E c \in Clients : PrepareUpdate(c) \/ PrepareRollback(c) \/ Execute(c) \/ Reject(c)

Update ==
  \/ SetupFails \/ JournalFails \/ BeginStaging \/ CommitStaged \/ BeginActivation
  \/ Activated \/ ActivationFails \/ BeginHealth \/ Commit \/ CommitFails
  \/ \E i \in Inst : Stage(i) \/ StageFails(i) \/ Activate(i) \/ Healthy(i) \/ Unhealthy(i)

Compensation ==
  \/ BeginCompensation \/ CompensationRefused \/ CompensationFails
  \/ RecordRolledBack \/ GiveUpCompensation \/ Compensated
  \/ \E i \in Inst : Compensate(i) \/ CannotCompensate(i)

ExplicitRollback ==
  \/ BeginRollback \/ RolledBack \/ RollbackFails \/ Restored \/ RestoreDone
  \/ \E i \in Inst : Rollback(i) \/ Restore(i)

Worker ==
  \/ WorkerStarts \/ RecoveryDone \/ WorkerScans \/ WorkerUpdates \/ WorkerDone
  \/ \E t \in Txn : RecoverUnstarted(t) \/ RecoverUpdate(t) \/ RecoverRollback(t)

Holder == Update \/ Compensation \/ ExplicitRollback \/ CommandTakesEffect \/ Worker

Next == Client \/ Holder \/ CommandLineScans \/ Configure \/ Crash

Spec == Init /\ [][Next]_vars

\* The driver timeouts bound every command; the scheduler starts the worker over
\* and over, however often someone else holds the lock; a rollback command that is
\* run again and again succeeds in the end, as recipes are required to ensure.
Fairness ==
  /\ WF_vars(Holder) /\ SF_vars(WorkerStarts)
  /\ \A i \in Inst : SF_vars(Compensate(i))
  /\ SF_vars(CommandTakesEffect) /\ SF_vars(Compensated /\ step' # step)

FairSpec == Spec /\ Fairness

-----------------------------------------------------------------------------
(* Types and safety *)

Preview == [kind : {"update", "rollback"}, stageOnly : BOOLEAN, from : Release,
            fromScan : BOOLEAN, to : Release, fresh : BOOLEAN]

Journal == [status : TxnStatus, kind : {"update", "rollback"}, stageOnly : BOOLEAN,
            from : Release, to : Release]

RowsOK ==
  /\ txn \in [Txn -> Journal] /\ step \in [Txn -> [Inst -> StepStatus]]
  /\ receipts \in [Txn -> Seq({"succeeded", "rolled_back"})]
VersionsOK ==
  observed \in Release /\ current \in Release /\ fromScan \in BOOLEAN /\ disk \in Release
HolderOK ==
  /\ pc \in Idle \cup Working \cup Commanding
  /\ cur \in Txn \cup {0} /\ (cur = 0 <=> pc \in Idle)
  /\ at \in Inst \cup {0} /\ (at = 0 <=> pc \notin Commanding)
  /\ todo \subseteq Inst /\ acted \subseteq Inst
  /\ IF pc \in Idle THEN saved = NoVersions ELSE saved \in Release
  /\ ran \in BOOLEAN /\ bad \in BOOLEAN /\ recovering \in BOOLEAN
SessionsOK ==
  /\ previews \in [Clients -> Preview \cup {NoPreview}]
  /\ crashes \in 0..MaxCrash /\ scanned \in [Txn -> BOOLEAN]

\* The type of every variable; the holder works on a transaction exactly between
\* opening (or recovering) one and settling it, and on a step while its command runs.
TypeOK == RowsOK /\ VersionsOK /\ HolderOK /\ SessionsOK

\* What a crash leaves in the journal tells recovery where the process was: at every
\* control point the status of the transaction at work is the one whose recovery undoes
\* or finishes what may have happened by then, and a stage-only update never gets to a
\* status from which anything is activated or undone.
HolderFollowsJournal ==
  /\ pc = "prepared" => txn[cur].status = "prepared"
  /\ pc = "stage" => txn[cur].status = "staging" /\ ~Explicit(cur)
  /\ pc \in {"activate", "activating"} => txn[cur].status = "activating" /\ ~Explicit(cur)
  /\ pc = "health" =>
       txn[cur].status = IF Explicit(cur) THEN "rolling_back" ELSE "activating"
  /\ pc = "undo" => txn[cur].status \in {"activating", "rolling_back"} /\ ~Explicit(cur)
  /\ pc \in {"compensate", "compensating"} =>
       txn[cur].status = "rolling_back" /\ ~Explicit(cur)
  /\ pc \in {"rollback", "rolling", "restore", "restoring"} =>
       txn[cur].status = "rolling_back" /\ Explicit(cur)
  /\ \A t \in Txn : txn[t].stageOnly =>
       ~Explicit(t) /\ txn[t].status \notin {"activating", "rolling_back", "rolled_back"}

\* CommitBundleActivation, CommitBundleCompensation and CommitStagedBundleTransaction
\* are the only writers of receipts, and each writes the status in the same database
\* transaction: across crashes, recoveries and retries a transaction has exactly one
\* receipt, of its own outcome, if it was installed or rolled back, and otherwise none.
ReceiptMatchesStatus ==
  \A t \in Txn :
    receipts[t] = CASE txn[t].status = "committed" /\ ~txn[t].stageOnly -> <<"succeeded">>
                    [] txn[t].status = "rolled_back"                    -> <<"rolled_back">>
                    [] OTHER                                            -> <<>>

\* An installation whose version is not the recorded one is always accounted for by a
\* journaled step that began, of a transaction that recovery will still settle, that
\* was reported as failed, whose recorded versions a scan replaced while it was open,
\* or that is an explicit rollback of a history with a crash: an update that is
\* settled, or recovered after a crash, never leaves silent drift.
Began(t, i) == step[t][i] \notin {"none", "pending", "staged"}
DriftIsJournaled ==
  \A i \in Inst : disk[i] # observed[i] =>
    \E t \in Txn :
      /\ Began(t, i)
      /\ \/ txn[t].status \in {"activating", "rolling_back", "failed"}
         \/ scanned[t] \/ (Explicit(t) /\ crashes > 0)

\* README.md:101, "resolves, verifies, and stages every Artifact before activating each
\* physical Installation": when a step of an update has begun, and has not failed, none
\* of its steps is waiting to be staged any more.
NoActivationBeforeAllStaged ==
  \A t \in Txn : ~Explicit(t) /\ (\E i \in Inst : Began(t, i) /\ step[t][i] # "failed")
                 => \A i \in Inst : step[t][i] # "pending"

\* ExecuteUpdate compensates every failure after the first activation, ExecuteRollback
\* restores after every failure, and a crashed update is never resumed forward: what is
\* committed left every one of its steps at the version it was opened for, so the
\* release it records is not a mixed one.  (A rollback resumed after a crash is the
\* exception that ResumedRollbackInstallsTarget is about.)
CommitInstallsTarget ==
  [][\A t \in Txn :
       /\ Open(t) /\ ~txn[t].stageOnly /\ txn'[t].status = "committed"
       /\ Explicit(t) => crashes = 0
       => \A i \in StepsOf(t) : disk[i] = txn[t].to[i]]_vars

\* recovery.go:24-25, "RecoverTransactions makes every unfinished Bundle journal
\* terminal before a new inventory scan or update can start": a transaction is only
\* opened when no other is unfinished.  The command line takes activation.lock without
\* recovering Bundle transactions, and does not keep this.
OpensOnSettledJournal ==
  [][\A t \in Txn : txn[t].status = "none" /\ txn'[t].status # "none"
                   => \A u \in Txn : ~Open(u)]_vars

\* recovery.go:25-26, "Ambiguous in-flight commands are deliberately re-run toward a
\* known exact version": a resumed rollback, too, commits only what is installed.
\* finishExplicitRollback trusts the "compensated" of steps that the interrupted
\* restoreAfterRollbackFailure had already taken back, and does not keep this.
ResumedRollbackInstallsTarget ==
  [][\A t \in Txn : Explicit(t) /\ Open(t) /\ txn'[t].status = "committed"
                   => \A i \in StepsOf(t) : disk[i] = txn[t].to[i]]_vars

\* The journal implements the ledger: what the tables say of a transaction is settled
\* once, in one step with the release and the receipt, whatever crashes in between.
Outcome == [t \in Txn |-> IF Open(t) THEN "open" ELSE txn[t].status]
Target  == [t \in Txn |-> txn[t].to]
Ledger  == INSTANCE TransactionLedger WITH
  Transaction <- Txn, InitialRelease <- Initial, Observes <- TRUE,
  outcome <- Outcome, target <- Target, release <- current, receipt <- receipts
ImplementsLedger == Ledger!LedgerSpec

\* recovery.go:24: every unfinished journal is made terminal.
EveryJournalTerminates == \A t \in Txn : Open(t) ~> ~Open(t)

=============================================================================
