# ToolTend: specifications, checks and proofs

ToolTend is a command line program without a daemon. It keeps the tools of coding agents
(skills, hooks, MCP servers, command line tools) up to date: it discovers what is
installed, groups it into Bundles, and updates a Bundle or a single managed component
through journaled transactions that can be rolled back and that survive crashes. State is
a SQLite database, a directory of generations and objects, and the user's own files; what
serialises the processes is one file lock, `activation.lock`.

This directory holds TLA+ modules for the parts of the program where the order of steps
matters, the TLC configurations that check them on small instances, and proofs for TLAPS.
Paths below are relative to `src/internal/` unless they start with `README.md`.

## 1. Inventory

Lines are non-test Go lines.

| part (lines) | state it keeps | operations | talks to | what is hard | what makes it correct |
|---|---|---|---|---|---|
| Bundle transactions: `bundle/service.go`, `bundle/recovery.go`, `store/bundles.go` | `bundle_transactions`, `bundle_transaction_steps`, `bundle_receipts`, `installations.observed_version`, `bundles.current_release_id` | prepare and execute an update or rollback, compensate, restore, commit, recover | bundle drivers (subprocesses), discovery, worker, command line | crash around a command; partial failure; a second transaction on an unfinished one; stale previews | commits install exactly the target; drift is always journaled; one receipt per outcome; every journal terminates |
| Activation and lifecycle: `activation/`, `lifecycle/` (1288 + 4022) | `generations`, `candidates`, `activation_intents`, `receipts`, `bindings.active_generation_id`, the symlink `current`, the generation directories | update (stage, validate, activate), review, rollback, recover | object store, adapters, merge, policy, worker, command line | symlink and database are not one transaction; the user edits at any moment; candidates grow stale | the symlink follows the binding; commits are exact; one active generation; recovery settles each intent |
| Discovery: `bundle/discover.go` | Bundles, releases, installations, consumers | scan and persist, merge evidence | worker, `init`, `scan` | runs between the commands of a transaction; partial results on error | what is recorded is what was found |
| Worker and task queue: `reconcile/` (963), `store/lifecycle.go:469-615`, `store/bundles.go:625-729` | `tasks`, `bundle_tasks`, `reconcile_runs`, `scans` | run once: recover, scan, schedule, claim, complete, retry, fail | everything | leases, attempts, a signal that arrives late, a crash between claim and completion | no task lost, at most three attempts, a handled signal has been acted on |
| Kick and hooks: `kick/` (90), `hook/` (347) | marker `kick.pending`, `hook_events` | queue, clear, record | worker | a marker whose worker has read the signals or died | a recorded event is followed by a run |
| Watchdog (113) | reads `reconcile_runs`, writes notifications | check | scheduler | a run in progress looks like one that failed | an alert per day and cause, none for a healthy run |
| Adoption: `lifecycle/adopt.go`, `adopt_recovery.go`, `store/adoption.go` | `adoption_intents`, install directory, shim, host config | adopt, recover, block | host config, activation | three effects, a crash between any two, edits by the user | either all effects or none, unless blocked |
| Self-update (934) | pending release, sequence, binary and `.previous` | stage, apply, roll back | release manifest | renames and records are separate | the sequence never decreases; one of the two binaries is always in place |
| Object store (783) | content-addressed trees | capture, verify, materialise, collect | lifecycle | capture while the user edits | a verified tree is what its hash says |
| Inventory (766), host (2894), adapter (968) | components, bindings, sources | scan and persist | worker, lifecycle | persist writes back what it read before | no write undoes another one |
| Reset: `cli/reset.go` | everything | back up, clear, rebuild, restore | scheduler, inventory | failure halfway | state is the old or the new one |
| Merge: `merge/` (475) | none | merge trees, entries and texts of three sides | lifecycle | edits that meet, entries no text merge can judge, a side that is taken for the other | only the changes of both sides, the same from either side |
| Policy (250), plan (201) | none | pure decisions | lifecycle | corner cases | a table |
| Locks and files: `lockfile/` (70), `safeio/` (124) | lock file | try, close; atomic write | everything | process death | one holder |
| Doctor (698), project (406), config (392), scheduler (314), notify (234), release manifest (138), api, cli (4519) | configuration and unit files | diagnosis, rendering, flags | all of the above | little | - |

How they interact: every command that changes state, and the worker, first try
`activation.lock` (`lockfile.Try`, no waiting) and recover unfinished adoptions and
activations; the worker also recovers unfinished Bundle transactions
(`reconcile/worker.go:163-175`). The lock is a file lock: it goes with the process that
dies. The exception is `tooltend init`, which writes an inventory and a discovery without
it (`cli/init_scan.go:209-224`). Hooks record an event and kick a detached worker.

The hazards, each at its line, are listed in `PROJECT.json`.

## 2. Modules

| module | models | instantiated by |
|---|---|---|
| `TransactionLedger` | the abstract promise of the three journals: a transaction is settled at most once, and what is installed moves in one step with the outcome and the receipt of a transaction, or when a scan reports something else | `BundleTxn`, `Activation`, `Adoption`, as a refinement |
| `BundleTxn` | update, rollback, compensation, restore, commit, recovery and worker run of one Bundle, for any number of installations, command line sessions and transactions | `MCBundleTxn` |
| `BundleTxnProofs` | theorems about `BundleTxn`: the journal, the loops and the disk | - |
| `Activation` | update, review, rollback, activation and recovery of one managed binding | `MCActivation`, `MCUpdate` |
| `ActivationProofs` | theorems about `Activation`, `Merge` and `MCUpdate`, which composes them | - |
| `Merge` | the three-way merge that an update begins with | extended by `MCUpdate` |
| `Adoption` | `tooltend adopt` of a directory, a hook, a command line tool or an MCP server, and its recovery | extended by `MCEffects` |
| `AdoptionProofs` | theorems about `Adoption` and, through those of the three parts below, about `MCEffects` | - |
| `ObjectStore` | capture, materialization and verification of a directory that is edited meanwhile | `MCEffects` |
| `ObjectStoreProofs` | theorems about `ObjectStore` | `AdoptionProofs` |
| `Driver` | what the Bundle drivers do to the file system, system call by system call, and the transaction around them | `MCEffects` |
| `DriverProofs` | theorems about `Driver` | `AdoptionProofs` |
| `Setup` | `init --reset-state`, and the plans of `init` and `doctor --fix` | `MCEffects` |
| `SetupProofs` | theorems about `Setup` | `AdoptionProofs` |
| `Reconcile` | the worker, the two task queues, hook signals and failure notifications | extended by `MCServices` |
| `ReconcileProofs` | theorems about `Reconcile` and about `MCServices` | - |
| `Wakeup` | hooks, kick, scheduler, rows of runs, watchdog | `MCServices` |
| `SelfUpdate` | staging and applying a release of ToolTend itself | `MCServices` |
| `SelfUpdateProofs` | theorems about `SelfUpdate` | `ReconcileProofs` |

`MCEffects`, `MCServices` and `MCUpdate` put several modules into one run. The parts that they
combine exclude one another (by `activation.lock`) or share no state that their properties are
about, so a behaviour of such a run is a behaviour of one part, chosen in the initial state. Where
parts do interact, the interaction is inside a module: `BundleTxn` has the worker, discovery and
the sessions; `Activation` and `Adoption` have the unlocked inventory; `Reconcile` has commands that
hold the lock; `Driver` is the protocol of `BundleTxn` again, with the commands opened up; `Setup`
has the command that takes objects into management while a reset runs.

### BundleTxn and the code

| variable | in the program |
|---|---|
| `txn`, `step`, `receipts` | rows of `bundle_transactions`, `bundle_transaction_steps`, `bundle_receipts` |
| `observed` | `installations.observed_version` of each installation |
| `current`, `fromScan` | the release `bundles.current_release_id` names, and whether a scan wrote that row |
| `disk` | what is really installed; nobody's memory, only commands change it |
| `pc`, `cur`, `todo`, `acted`, `saved`, `at`, `ran`, `bad`, `recovering` | the process that holds the lock: its control point, its transaction, the loops of `ExecuteUpdate`, `compensate`, `restoreAfterRollbackFailure`, `finishExplicitRollback`, and the command that runs |
| `previews` | what a user was shown and may confirm later |
| `crashes`, `scanned` | a bound, and a history variable (a scan ran while the transaction was open) |

One action is one piece of a function between two moments at which the process may die or
another one may look: a database transaction, or a command. A command is started
(`Start`), takes effect or does not (`CommandTakesEffect`), and returns success or an error,
independently: a command that reports an error may have changed the installation. `Crash`
is also every error return whose own journal write failed. `TrySetStep` is a write whose
error the code drops. Discovery is `DiscoverUpTo(k, complete)`: it records the first `k`
installations and may stop on an error; `StrayScans` says whether the command line scans
at any moment.

Abstracted: the three tries of one command (the model's command may fail or succeed once,
which any number of tries also does); torn installs (old or new); an installer that goes on
after its parent died; several versions per manifest and partial manifests; the steps of a
new transaction are written with it (a crash in between leaves `prepared`, which recovery
fails without looking at the steps).

### Activation and the code

| variable | in the program |
|---|---|
| `gens`, `cands`, `intents`, `receipts`, `active` | rows of `generations`, `candidates`, `activation_intents`, `receipts`; `bindings.active_generation_id` |
| `files` | what the directory of a generation holds: a tag for its local edits, or `Missing` |
| `pointer` | what the symlink `current` names, 0 when it names nothing valid |
| `pc`, `cand`, `old`, `new`, `was` | the process that holds the lock, in `update`, `rollbackWithOptions`, `Manager.Activate` or `Manager.Recover` |
| `scan` | what an unlocked `inventory.Persist` has read |
| `misplaced`, `touched`, `rescanned` | history: someone else wrote the symlink last; files changed since the last check before the commit; an unlocked scan moved the binding |

A candidate's key is the identity that `stableHash` covers: the operation, the refs or
generations it goes between, and the local content it was made for. `base` is the baseline
it was merged from; since each commit inserts one, a baseline is named by its intent.
`staging` stands for `staging`, `verified`, `merging` and `validating`, all of which
`ResetCandidateForRetry` takes back. `Edit` is the user at any moment, `Interfere` anyone who
replaces the symlink.

Abstracted: `check` candidates and agent packets; verification of objects; integrity pinned by
a project; policies (nobody can change one while the lock is held, so a decision is a choice);
the checks of one step are read together; an error of the file system or the database that
ends the operation is `Crash`. A run that recovers goes on with its own work, as in the model
the next one to take the lock does. `OldGeneration = ""` cannot be reached from the lifecycle
operations, since both need an active generation.

### Adoption and the code

| variable | in the program |
|---|---|
| `intents`, `receipts`, `row` | rows of `adoption_intents` and `receipts`; the component, binding and policy rows together |
| `path`, `backup`, `temp`, `tree`, `current` | what is at the path of the installation or the shim, what was moved aside, the temporary symlink, the generation's directory, the symlink `current` |
| `config` | the host config: the user's text, and whether it points at the managed executable |
| `pc`, `at`, `todo`, `tries` | the process that holds the lock, in `Adopt` or `RecoverAdoptions` |
| `shown`, `scan` | what a preview showed; what an unlocked inventory has read |

Each system call that changes a file is an action, so that a crash and an edit fit between any two of
them, with one exception: `ApplyMutation` compares and writes in one step, and an edit between two
adjacent calls of one function (a look and the rename behind it) is left out. Edits leave contents
the model tells apart. `owned`, `text`, `disturbed`, `installed`, `late` are history.

### Merge and the code

A tree is a function from paths to entries; a text is what `splitLines` makes of one, so that only its
last line may lack a newline (`Texts`). `Lcs` and `MatchesFrom` are the table and the walk of `edits`,
as functions on its cells; `Edits` are the gaps between matches, `Apply` the sorted, deduplicated list
of edits put over the base, piece by piece. A set stands for a result that may be a conflict. `Merge` and `WriteMergeTree` are the caller in `lifecycle/update.go`,
with the branches for no baseline and for runtimes. Abstracted: the reasons of a conflict, all of the
mode but the executable bit, the validity of single path names. Directories are not entries in the
code either: an empty one, or a directory's mode, does not survive a merge.

### ObjectStore, Driver and Setup and the code

`ObjectStore`: a file's content is a number and its hash with it. A capture lists, then reads file by
file; a generation is written to a temporary directory, renamed, and accepted after the directory has
been looked at once more. Every edit leaves something new. Left out: symlinks, directories, modes,
leftover temporary files, power loss, errors after a rename.

`Driver`: `at` is the last system call of the running command (`reset`, `fetched`, `kept`, `aside`,
`placed`), `path` what is installed, `entries` the skills of `.skill-lock.json`, `stage` the staging
directory of each artifact. A command may fail or be killed at any call and is run again
`DefaultRetries` times; the worker may die. An orphaned driver ends with its worker in the model; the
drivers of an explicit rollback are left out.

`Setup`: a file is its owner's text and whether it is as the command planned it; `Places` stand for
the state directory, the configuration, the hook files and the shell profile. `reset` walks the
places of `resetSnapshots` one by one. `late` remembers the places that others wrote after the reset
had copied them, which it cannot know of.

### Reconcile, Wakeup and SelfUpdate and the code

`Reconcile`: `tasks` are the rows of `tasks` and `bundle_tasks` by idempotency key, `events` and `acked`
the hook events recorded and processed, `notes` the queued failure notifications, `lock` the file lock.
An action is one SQL statement or transaction. A lease ends at any moment, since nothing relates its
length to the work. A key is made of the signal and of the time of the last policy change; the
scheduler's interval and the item's version are more of the same and one value of each is modelled.
The notify mode is not `none`.

`Wakeup`: `latest`, `success`, `queued`, `alerts` are what the queries over `reconcile_runs` and
`notifications` return, `marker` is `kick.pending`, a slot is a day and an interval of the scheduler.

`SelfUpdate`: a release is its sequence; `live` and `previous` are the executable and its backup, `seq`,
`pending`, `staged` the files of each state directory, `lock` the lock beside the executable. A
command applies what is pending before it does its own work.

## 3. Runs

Two installations are the fewest with an order to reverse, one of them a hook (`Hooks = {2}`)
because hooks are activated last and undone first. Three versions tell the old, the new and
a third one apart. For a binding, two refs, three generations, two candidates and two intents
let an update be followed by a rollback or by another update; content tags 0 and 1 tell an
edited directory from an untouched one.

| run | question | bounds | states |
|---|---|---|---|
| `one` | is one Bundle transaction correct with up to two crashes, scans at any moment and every failure of every command? | `MaxTxn = 1`, `MaxCrash = 2`, `StrayScans` | 0.9 M |
| `two` | does what is recorded stay accounted for when a second transaction is opened, perhaps on an unfinished first one? | `MaxTxn = 2`, `MaxCrash = 1` | 4.7 M |
| `live` | does the worker make every journal terminal? | `MaxTxn = 1`, `MaxCrash = 2`, fair | 42 k |
| `opens`, `resume`, `manual` | three statements of the code's comments that the code does not keep | small | - |
| `activation` | are update, rollback, review and recovery of a binding correct with a crash and edits at any moment, and is every merge lawful? | 3 generations, 2 candidates, 2 intents, 1 crash; texts of 4 lines merged with texts of 3 over two lines and one without a newline, a path of every kind with one below it | 0.6 M |
| `settle` | does recovery settle every intent, also when others replace the symlink and an unlocked scan writes bindings? | the same without local edits told apart (directories may still go and come back), 1 replacement, fair | 86 k |
| `effects` | do adoptions, captures, drivers and resets do all or nothing, and lose nothing of the user's? | 2 adoptions, 1 crash, 2 edits of a directory and 1 of the others, 1 unlocked scan; 2 files, 2 edits, 1 fault; 2 artifacts of every pair of drivers, 2 tries; 3 events, 1 reset; fair | 0.38 M |
| `services` | is nothing lost between hooks, worker, queues and watchdog, and do updates of ToolTend go forward and settle? | 2 workers, 2 attempts, 1 event, 1 policy change, 1 fault; 2 days, 1 fault; 2 processes, 3 releases, 2 faults; fair | 91 k |
| `retained`, `race` | one comment and one sentence of the README that the code does not keep | small | - |

Why these bounds are enough. Two adoptions let one meet what an earlier, blocked one left; two
contents tell the user's file from one that replaced it. Two files are the fewest whose mixture is
no state of the directory. Two artifacts have an order, and one of them fails while the other has
been activated. Two workers, one event and a policy change give two keys, a lease that ends under a
live worker, and a task that another one has finished; two attempts tell the last one from the first.
Two days tell a notification of yesterday from one of today. Three releases with two processes let an
old pending one meet a newer executable. Four lines against three have room for two edits and a line
between them. Larger instances of single modules were checked as well when they were written:
`ObjectStore` with 3 edits (82 k states), `Setup` with 4 events (474 k), `SelfUpdate` with two state
directories (102 k), `Merge` with texts of four lines on all three sides (424 k).

What the properties say:

* `HolderFollowsJournal`: at every control point the journal has the status whose recovery
  undoes or finishes what may have happened by then.
* `DriftIsJournaled`: an installation that is not at its recorded version is accounted for by
  a journaled step that recovery will settle or that was reported.
* `CommitInstallsTarget`: a committed transaction left every installation at the version it was
  opened for. Explicit rollbacks in a history with a crash are excepted, see `resume`.
* `NoActivationBeforeAllStaged`, `ReceiptMatchesStatus`, `EveryJournalTerminates`: the README's
  sequence of an update, receipts, and recovery.
* `JournalIsRecoverable`: at most one intent is unfinished, and what it needs to be completed or
  undone is there; in particular `Complete` is never refused.
* `PointerFollowsBinding`: the symlink names the binding's generation, or one of the two an
  unfinished intent is about; closing an intent never separates them.
* `OneActiveGeneration`: the generation the binding names is the only active one.
* `CommitIsExact`: a candidate is only installed over the content, generation and baseline it was
  made for, however long ago it was reviewed, and what it leaves is recorded exactly.
* `EveryIntentSettles`: recovery settles each intent whose old generation is eventually left intact.
* `ImplementsLedger` (three modules): the refinement of `TransactionLedger`.
* `MergesAreLawful`: what is activated without a review has, path by path, the changes of the user
  and those of upstream and nothing else (an alignment of the four texts that does not use the
  comparison of the code), no harm that a text merge cannot judge, no two lines glued together, and
  does not depend on which side is called local.
* `NothingOfTheUserIsLost`, `RollbackIsWhole`, `CommitIsWhole`: an adoption that is taken back leaves
  nothing behind, a committed one has all its effects, and the user's files and the text of the host
  config survive each of them. `BlockedOnlyByOthers`: only what others did blocks an adoption.
* `EveryAdoptionSettles`: an adoption that was cut short is committed, taken back, or blocked for a
  reason.
* `CapturesAreReal`: an accepted generation is what the directory held at one moment.
* `TransactionIsWhole`: after any failures of the drivers every artifact is new, or every one is as it
  was, the skill lock with them.
* `ResetsAreWhole`: what anybody wrote is in its place or in a complete backup; a reset has rebuilt
  everything or put everything back; it never clears managed objects.
* `OneExecution`: a task is executed by one worker at a time, whatever becomes of its lease.
  `AttemptsAreBounded`: a key is retried only as often as the code says, although claims count too.
* `EventsCauseTasks`, `EventsAreServed`: a processed hook event has caused a task that covers it, and each
  event is served in the end. `FailuresAreTold`: no failure stays silent, although the worker may die
  between the task's row and its notification.
* `MissedRunsAreTold`, `KicksGoThrough`: a day without a run is told that day; a session that is due leads
  to a run, although markers outlive their workers.
* `UpdatesGoForward`, `EveryUpdateSettles`: an update never puts an older release over a newer one that
  its directory knows of, never loses the backup, and is applied or refused in the end.

Each property of a passing run has a mutant in `PROJECT.json`: a definition changed the way a
plausible mistake would change the code, kept beside the original in the module and marked
`\* mutant`, under which TLC finds the property violated.

Fairness. `BundleTxn`: a holder goes on (the drivers bound every command by a timeout), the
scheduler starts the worker over and over however often a user holds the lock (strong, since the
lock is taken and released), and a rollback command that is tried again and again succeeds in
the end, which is what a recipe promises. `Activation`: only that a process that can take a step
takes one, the next start by the scheduler included. `Adoption`: the same. `Reconcile`: a worker that
has begun goes on, and is begun again by the scheduler; a command ends; and a claim, which needs the
lock that others take and release, happens in the end (strong). `Wakeup`: the watchdog's timer fires,
sessions go on with their kick, a marker grows old, commands end. `SelfUpdate`: a process goes on,
gets the lock that others release (strong), and some command is run again and again. `ObjectStore`,
`Driver`, `Setup` and `Merge` have safety properties only. Nothing is assumed of users, edits, scans or crashes;
crashes are bounded.

## 4. What disagrees with the code's own words

| run | what |
|---|---|
| `opens` | `bundle/recovery.go:24-25` says recovery comes before a new update; commands of the command line open a transaction without it |
| `resume` | a crash in the restore loop of a failed rollback makes recovery commit a release that some installations are not at |
| `manual` | an update of an installation without a rollback command, allowed for a manual policy, can stay unfinished for ever and stops every worker run |
| `retained` | `lifecycle/rollback.go:18-19` promises that the generation a rollback leaves is retained; an undone attempt to go back to it marks it failed |
| `race` | `README.md:95` relies on one global lock; the inventory of `tooltend init` runs without it and can take back a committed activation in the binding's row |

Noted without a run of their own:

* Bundles. `README.md:102` promises a receipt for a failure (`bundle/service.go:683-687` writes none).
  An update compares the Bundle's row but not the current release again (`bundle/service.go:196`,
  against `:470`). An explicit rollback has an empty stage path, so the drivers look for `previous`,
  `manifest.json` and `skill-lock.json` in the working directory.
* Lifecycle. A rollback that a recovered crash has undone cannot be repeated, because its candidate
  stays `rolled_back` (`lifecycle/rollback.go:85-88` speaks of idempotent retries). The Manager that
  recovers has no health check (`activation/manager.go:320-325`).
* Merge. `merge/text.go:17-18` speaks of non-touching ranges; changes of neighbouring lines are
  combined (`:143`), only insertions touch what they border on.
* Adoption. `lifecycle/adopt.go:24-26`: "Native package manager installations are never removed", but
  the shim is written over a file that is installed at its free path after the plan was made.
  `store/adoption.go:13-15`: "The caller must unwind host changes", but the caller blocks the adoption
  and leaves them. An adoption whose endpoint is "after" may switch `current` before it is refused,
  which then blocks a later one. A crash before the journal leaves a directory that nothing names.
* Worker. `reconcile/worker.go:148-152` says that only the owner of the lock clears the kick marker;
  `kick.Queue` removes a stale one. A kick's worker that finds the lock taken leaves the marker fresh,
  so that sessions of the next two minutes start nothing. A retry "in one minute" waits for the next
  run. An event recorded after the inventory's scan and before the signal is read counts as handled. A
  crash between `AdoptRuntime` and the policy update loses the promotion. Marks of a shown notification
  are written before the hook prints it. A run that ends as `already_running` after a success makes
  the watchdog alert.
* Self-update. A stale pending release refuses every command of its directory but a few, the scheduled
  watchdog included, until `pending.json` is removed by hand (`EveryUpdateSettles` exempts it as
  `Stuck`). A command that started before another directory's update may put an older release over a
  newer one. An executable replaced by hand between its hash and the rename is overwritten. The
  repair after an update runs only in the process that applied it.
* Reset. `README.md:49`: "If any step fails, it restores the previous state and scheduler". If the
  scheduler cannot be deactivated, the reset returns without reactivating it; what a user writes
  after the backup is overwritten; and the restore removes the state directory with the lock file
  that it holds, so that another command can lock a new one (`README.md:95` relies on one lock). In
  the model the first ends the reset before anything is copied, which `ResetsAreWhole` does not speak
  of; the other two are exempted through `late`. A reset that dies leaves
  scheduler and state cleared with only the backup to tell. A backup of a database in use may be torn.
* Discovery. `bundle_releases` has `UNIQUE(bundle_id, version, resolved_ref)` (migration 0005), while
  `UpsertBundleRelease` resolves conflicts of the id only, which hashes the manifest. Observed releases
  have no ref and their uniform version, so a second manifest at one version (another artifact, or
  another consumer) fails this and every later scan (`bundle/discover.go:386`). The same holds for the
  target of an update (`bundle/service.go:214`). Discovery is not one database transaction; consumer
  bindings of a kept installation are never pruned.

## 5. Proofs

TLAPS checks 58 theorems in eight modules, with the lemmas they rest on. They hold for every
value of the constants that the assumptions named below allow: for any number of installations,
sessions, workers, adoptions, generations, candidates, intents, artifacts, files, releases, crashes
and edits. Every invariant was checked by TLC on the bounds of section 3, part by part, before it was
proved.

Each proof has the same shape. `Init` implies the inductive invariant; one lemma per part of the
invariant shows that a step keeps it, with one proof step per action; the properties that the runs
check follow from the invariant, or for an action property and a refinement from the invariant and one
step. Since nested `EXCEPT`s are hard on the solver, each action first gets a lemma (`...Written`) that
says, row by row, what it writes; the lemmas about the invariant cite that one and not the action.

### The journal and the disk of a Bundle: `BundleTxnProofs`

Assumed: `InstancesAssumption` and `ReleasesAssumption` (there is an installation and a version; hooks
and those with a rollback command are installations; the releases named are releases).

| theorem | statement |
|---|---|
| `TypeCorrect` | `Spec => []TypeOK` |
| `HolderCorrect` | `Spec => []HolderFollowsJournal` |
| `ReceiptsCorrect` | `Spec => []ReceiptMatchesStatus` |
| `LedgerImplemented` | `Spec => ImplementsLedger` |

`TypeOK` is inductive. `HolderFollowsJournal` is not without the types (a control point must have a
transaction) and without a fact about what users hold: a preview for a rollback is never a
stage-only one. The inductive invariant is `TypeOK /\ JournalInv`, with `JournalInv ==
HolderFollowsJournal /\ ReceiptMatchesStatus /\ RollbackPreviewsAreFull`; receipts come along
because a commit appends the receipt that the status it replaces did not have, which needs to
know that a transaction at work is open, and that a stage-only one never reaches `Commit` or
compensation. The refinement uses the same invariant: `AtWorkIsOpen` turns each settling action into
one of the ledger's, `OpenTransactionOpens` and `DiscoverObserves` the two others, and the rest
stutters.

The disk of a Bundle:

| theorem | statement |
|---|---|
| `DriftCorrect` | `Spec => []DriftInv` |
| `StagingCorrect` | `Spec => []NoActivationBeforeAllStaged` |
| `DriftIsExplained` | `Spec => []DriftIsJournaled` |
| `CommitCorrect` | `Spec => CommitInstallsTarget` |

`DriftIsJournaled` speaks of four pieces of state at once: what is installed, what is recorded, the
steps in the journal, and the loops of a process that may die. On top of `JournalInv` the invariant has

* `LoopInv`: the loops (`todo`, `acted`, `at`) go through steps of the transaction at hand; no step has
  begun before the status says so (`WaitsFirst`, for all transactions, since the next one may be
  opened on an unfinished one); the command in flight has its status written.
* `DiskInv`: what a compensation will undo is all that an update may have changed (`Undoable`); it goes
  back to `saved`, and `saved` is what is recorded unless a scan ran meanwhile (`Undone`,
  `SavedIsObserved`); and what the loops have left behind is at the target (`Installed`). The last
  is what `CommitInstallsTarget` needs. It does not survive a restore
  that is resumed, the run `resume` shows it; that is why it says `Uninterrupted`, and why it comes
  with `NoCrashNoRecovery`.
* `DriftIsAccounted`: where disk and record differ, some step has begun and is not done with. The
  property is this part; it is inductive only with the two others.

### Activation: `ActivationProofs`

Assumed: `BoundsAssumption` and `RefsAssumption`.

| theorem | statement |
|---|---|
| `ActivationCorrect` | `Spec => []ActivationInv` |
| `TypeCorrect` | `Spec => []TypeOK` |
| `RecoverableCorrect` | `Spec => []JournalIsRecoverable` |
| `PointerCorrect` | `Spec => []PointerFollowsBinding` |
| `BindingCorrect` | `Spec => [](rescanned \/ OneActiveGeneration)` |
| `OneActiveCorrect` | `~UnlockedScans` implies `Spec => []OneActiveGeneration` |
| `CommitCorrect` | `~UnlockedScans` implies `Spec => CommitIsExact` |
| `BindingMoves` | `~UnlockedScans` implies `Spec => BindingMovesByCommit` |
| `LedgerImplemented` | `Spec => ImplementsLedger` |

The invariant has the types with what a row has when it is complete (`TypeInv`); the journal: one
unfinished intent, the last row, the one of the holder, and "activating" as the status of its candidate
alone (`JournalInv`); and, until an inventory without the lock has written the binding (`rescanned`):
what the binding names and what the holder leaves (`BindingInv`), where the symlink is at each step
(`PointerAtStep`), and what candidates were made for (`CandidatesAreMade`). The last is what makes
`CommitIsExact` provable: a candidate may have been reviewed long ago, so the invariant must say of
every candidate, not only of the one at work, that an update with the present baseline starts from the
present ref.

`~UnlockedScans` is the configuration in which every inventory takes `activation.lock`. The code does
not have it, `tooltend init` scans without the lock; so three theorems say what holds for every other
command, and `BindingCorrect` what holds up to the first write of such a scan. Together with the run
`race` they locate the cause: `BindingMovesByCommit` is violated with unlocked inventories and is a
theorem without them. `ImplementsLedger`, `JournalIsRecoverable` and `PointerFollowsBinding` are proved
with either, the latter two up to the first such write, as their definitions say.

### The merge of an update: `ActivationProofs`, second half

Assumed: `FamiliesAssumption`, that the trees which meet are trees: entries of the three kinds, and
texts with an open line only at their end. Lines, paths, the length of the texts and the bound on the
comparison are any.

| theorem | statement |
|---|---|
| `MergeCorrect` | `UpdateSpec => []MergeInv` |
| `MergesLawful` | `UpdateSpec => []MergesAreLawful` |
| `UpdateBehavesAsBinding` | `UpdateSpec => Spec` |
| `UpdateTypeCorrect` | `UpdateSpec => []UpdateTypeOK` |

`MergeInv` says that what was merged is what the code computes of base, local and upstream (`Merging`),
and what was written is of that; the rest is about functions. The argument, bottom up:

* Induction over the lines. The library's induction theorems cannot be instantiated by the provers, so
  `Induction` is derived from the pigeonhole theorem of `FiniteSetTheorems`: on the numbers below one
  that a set with 0 and successors lacks, the successor would be one to one but not onto. With it the
  recursive functions `Lcs`-walk (`MatchesFrom`), `Reach` and the fold under `FlattenSeq` are shown to
  have the values that their definitions say (`MatchesFromIs`, `ReachIs`, `JoinedIs`).
* The comparison (`MatchesRise`, `EditsRewrite`): matches go up in both texts and match equal lines;
  so the edits are separate, each replaces something by something else, and the base with the edits of
  one side *is* that side (`Rewrites`, which says from which line on each line of the base is found).
  Only this is needed of the comparison, not that what it finds is longest.
* Edits that do not touch start at different places (`EditsStartApart`), so the pieces that `Apply`
  writes are the base with the edits of both, in whichever order the sides are named
  (`ApplyRewrites`). The check `change.start < position` in `merge/text.go:70` is never needed.
* Walking over the base, each line and each replacement is a step of the alignment by which
  `HasBothChanges` judges a merged text (`OneMove`, `RunIsReached`, `MergedHasBothChanges`).
* An open line that one side puts in is its last, so that side takes out everything behind it; an edit
  of the other side there would touch (`NothingBehind`, `EndsTogether`). So it is the last of the
  merged text too (`MergedIsOpenLast`), and no two lines become one.
* `MergeEntryIs` and `MergeTreeIs` carry this from texts to entries and trees.

### Adoption: `AdoptionProofs`

Assumed: `BoundsAssumption`.

| theorem | statement |
|---|---|
| `AdoptionCorrect` | `Spec => []AdoptionInv` |
| `TypeCorrect` | `Spec => []TypeOK` |
| `KeptCorrect` | `Spec => []NothingOfTheUserIsLost` |
| `RollbackCorrect` | `Spec => []RollbackIsWhole` |
| `CommitCorrect` | `Spec => CommitIsWhole` |
| `LedgerImplemented` | `Spec => ImplementsLedger` |
| `UndisturbedCorrect` | `Spec => []BlockInv` |
| `BlockedCorrect` | `Spec => []BlockedOnlyByOthers` |

`NothingOfTheUserIsLost` is not inductive: undoing an adoption renames a backup over the path, which
loses nothing only if what is at the path is ours and the backup is of this adoption. The invariant
therefore has `HolderInv` (the phase of the adoption at hand and, at each system call, what has been
applied or taken back already), and `FilesInv` with `BackupsOfCurrent` and `OursIsCurrent`: backups and
what was put at the path belong to the generation `current` names, also for an adoption that was
blocked long before. `Looked` says that what the recovery has decided from is still so, or that others
have acted since (`late`); `CommitIsWhole` follows from it.

`BlockedOnlyByOthers` is about each branch in which the code gives up, so its proof has to show that
none of them is taken on a file that nobody touched. `BlockInv` says, of adoptions that were not
disturbed, what `AdoptionInv` leaves open: earlier adoptions than the one at hand are ended or blocked
(`InOrder`, `Older`), a session judges an adoption by what it has looked at (`Session`, `Judged`), an
unfinished adoption is where its phase says, or stranded by an earlier one that was disturbed
(`Undisturbed`, with `Placed` or `Stranded`), and the one at hand is as far as its control point
(`InHand`). TLC checked it on 7 million states, with three adoptions and two crashes, before the proof.

| theorem about the combined run | statement |
|---|---|
| `AdoptionAmongEffects`, `CapturesAmongEffects`, `DriversAmongEffects`, `ResetsAmongEffects` | a behaviour of `EffectsSpec` is one of each of its parts |
| `CapturesAreRealAmongEffects` | `EffectsSpec => []CapturesAreReal` |
| `TransactionIsWholeAmongEffects` | `EffectsSpec => []TransactionIsWhole` |
| `ResetsAreWholeAmongEffects` | `EffectsSpec => ResetsAreWhole` |
| `EffectsTypeCorrect` | `EffectsSpec => []EffectsTypeOK` |

These carry the general theorems of the next three modules to the names that the run `effects` checks.
The hypotheses of those theorems are definitions (`StoreBounds`, `DriverBounds`, `SetupBounds`) since
the modules are instantiated; `EffectsBounds` assumes them of the instances, and TLC evaluates it.

### Captures: `ObjectStoreProofs`

Hypothesis `StoreBounds`: the number of edits is a number.

| theorem | statement |
|---|---|
| `StoreInvariant` | `Spec => []StoreInv` |
| `StoreTypeCorrect` | `Spec => []TypeOK` |
| `CapturesAreRealAlways` | `Spec => []CapturesAreReal` |

A generation is accepted after the directory has been read file by file and then looked at once more,
again file by file, while the user edits. That this gives a state of one moment rests on `Fresh` (an
edit leaves a content that was not there before) and on `Looked`: there is a moment, when the second
walk listed the directory, of which every file that was found equal since had that content already
then. `Stored` and `Materialized` say that blobs precede manifests and that a copy is its manifest.

### Bundle drivers: `DriverProofs`

Hypothesis `DriverBounds`: there is an artifact, and a command is tried at least once.

| theorem | statement |
|---|---|
| `DriverInvariant` | `Spec => []DriverInv` |
| `DriverTypeCorrect` | `Spec => []TypeOK` |
| `TransactionIsWholeAlways` | `Spec => []TransactionIsWhole` |

A path is written only by the command of its own step. The invariant says where a command is after each
of its system calls (`Placed`, `Staging`), that the copy made while staging is there until the end
(`Staged`), how far the steps of an activation and of a compensation have come (`Activated`,
`Compensating`), and that a step which was not begun, or whose compensation succeeded, is as it was
(`Untouched`). The order matters: a compensation goes from the greatest begun step down, so that only
a failure leaves one behind.

### Reset and plans: `SetupProofs`

Hypothesis `SetupBounds`: somebody may write, and the number of resets is a number.

| theorem | statement |
|---|---|
| `SetupInvariant` | `Spec => []SetupInv` |
| `SetupTypeCorrect` | `Spec => []TypeOK` |
| `ResetsAreWholeAlways` | `Spec => ResetsAreWhole` |

`ResetsAreWhole` is an action property: what a reset leaves is judged when it ends. `SetupInv` says how
far each loop over the places has come (`BackedUp`, `Rebuilding`, `Restoring`), what the lock excludes
until the reset has removed the lock file with the state directory (`Locked`), and that whatever
anybody wrote is at its place or in a backup (`Lasting`). TLC checked it on 9.8 million states, with
five events and two resets.

### The worker: `ReconcileProofs`

Assumed: `BoundsAssumption`, and `NamesAssumption` (nobody is not the name of a worker, of a command or
of a task). `SafeSpec` is `Spec` without its fairness, which no safety property needs.

| theorem | statement |
|---|---|
| `ReconcileCorrect` | `SafeSpec => []ReconcileInv` |
| `TypeCorrect` | `SafeSpec => []TypeOK` |
| `ExecutionCorrect` | `SafeSpec => []OneExecution` |
| `EventsCorrect` | `SafeSpec => []EventsCauseTasks` |
| `AttemptsCorrect` | `SafeSpec => []AttemptsAreBounded` |
| `UpdatesGoForwardAmongServices` | `ServicesSpec => UpdatesGoForward` |
| `ServicesTypeCorrect` | `ServicesSpec => []ServicesTypeOK` |

A lease does not keep two workers apart, it may end under a live one: the lock does. `OneExecution`
follows from `LockOK` (who is inside holds the lock) and `TaskAtHand` (the row a worker executes is
running and its own). `EventsCauseTasks` needs `SignalsCaused`: also for a signal that a worker has
read, scheduled and not yet marked. `AttemptsAreBounded` counts claims, which are more than retries:
`AttemptsPaid` says that each claim beyond them was paid for by a worker that died.

The last two are about the combined run, as those of `MCEffects` are; the types of `Wakeup` are proved
for the instance in `MCServices` only, whose constants its proof uses.

### Self-update: `SelfUpdateProofs`

Hypothesis `UpdateBounds`: there is a release, and nobody is not the name of a process or of a
directory.

| theorem | statement |
|---|---|
| `UpdateInvariant` | `SafeSpec => []UpdateInv` |
| `UpdateTypeCorrect` | `SafeSpec => []TypeOK` |
| `UpdatesGoForwardAlways` | `SafeSpec => UpdatesGoForward` |

Two directories share an executable and know nothing of each other's releases. The invariant relates
what a process has read to what is there now (`Applying`: only the holder of the lock writes
`pending.json` and the sequence; `Compared`: the executable whose hash was taken is the live one, or
the user's), and `Recorded` says that an executable which came from a directory is recorded there or,
after a crash, still pending there. So an older release can only be put over one from elsewhere.

### Only model-checked

* Liveness under fairness and `ENABLED`, which are beyond the prover: `EveryJournalTerminates`,
  `EveryIntentSettles`, `EveryAdoptionSettles`, `EventsAreServed`, `FailuresAreTold`,
  `MissedRunsAreTold`, `KicksGoThrough`, `EveryUpdateSettles`.

The modules declare no `RECURSIVE` operator, so that none of them is closed to proofs.

## 6. Plan

1. Done: all modules of section 2, and a theorem for each safety property that a run checks of them.
2. Open: several bindings in `Activation`, so that one damaged generation is seen to hold up the
   others; the unique key of `bundle_releases`, which needs releases with manifests in `BundleTxn`.

## 7. Not modelled

* Policy decisions (`policy`, `plan`): a table without a state. Where they matter their answer is a
  choice, so the properties hold whatever they say.
* How discovery groups consumers into Bundles, installations and artifacts, and what an inventory scan
  finds: naming over scanned paths. What both write, and when, is in `BundleTxn`, `Activation` and
  `Adoption`.
* Networks, subprocesses and parsers (`adapter`, `host`, `execx`, most of `selfupdate/verify.go`): their
  answers are choices of the models.
* Text (`scheduler` unit files, `notify`, `project`, most of `cli`, the diagnosis of `doctor`): no
  property is about it.
* Data that only tests produce: `adopt_runtime_auto` tasks.
* Power loss: a write that was reported done stays done.
