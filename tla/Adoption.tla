------------------------------- MODULE Adoption -------------------------------
(***************************************************************************)
(* "tooltend adopt": internal/lifecycle (Adopt, RecoverAdoptions), the     *)
(* journal and the commit in internal/store, and the symlink "current".    *)
(*                                                                         *)
(* An adoption takes a binding that the user installed and puts it behind  *)
(* a generation: a directory is moved aside for a symlink ("file"), an     *)
(* executable for a shim ("cli"), a host config is pointed at the managed  *)
(* executable ("hook"), or both ("stdio").  These are several files and    *)
(* one row, so the plan is journaled first; whoever next holds the lock    *)
(* finishes the plan or takes it back from what it finds in the files.     *)
(* The user edits the files at any moment, and "tooltend init" writes the  *)
(* row without the lock.                                                   *)
(***************************************************************************)
EXTENDS Naturals, Sequences, FiniteSets, FiniteSetsExt

CONSTANTS
  Kinds,        \* kinds of adoption considered
  MaxAdoption,  \* bound: adoptions of the binding in a behaviour
  MaxContent,   \* bound: contents of the user told apart
  MaxCrash,     \* bound: crashes in a behaviour
  MaxEdit,      \* bound: edits by the user in a behaviour, per kind of adoption
  MaxScan,      \* bound: unlocked inventories in a behaviour
  MaxText       \* bound: texts of the host config told apart

ASSUME BoundsAssumption ==
  /\ {MaxAdoption, MaxContent, MaxCrash, MaxScan, MaxText} \subseteq Nat
  /\ MaxContent >= 1 /\ MaxText >= 1
  /\ Kinds \subseteq {"file", "hook", "cli", "stdio"} /\ MaxEdit \in [Kinds -> Nat]

Adoptions == 1..MaxAdoption
Contents  == 1..MaxContent
Nothing   == 0               \* no file
Ours      == MaxContent + 1  \* the symlink to "current", or the shim

VARIABLES
  kind,      \* what is adopted
  native,    \* whether the shim's path is where the user's executable is
  row,       \* the binding's row: [gen, seen]; gen 0: not managed
  intents,   \* adoption_intents: [phase, path, config, row], the last three as planned
  receipts,  \* receipts: statuses recorded per adoption
  tree,      \* the directory of each generation: "none", "intact" or "changed"
  current,   \* the generation "current" names; 0: no symlink
  path,      \* what is at the path of the installation or of the shim
  backup,    \* what each adoption has moved aside
  temp,      \* whether the temporary symlink of an adoption exists
  config,    \* the host config: [text, managed]
  pc,        \* where the holder of activation.lock is; "free": nobody holds it
  at,        \* the adoption it works on; 0: none
  todo,      \* pending adoptions it has yet to recover
  tries,     \* calls of recoverOneAdoption that Adopt has left; 0: RecoverAdoptions
  shown,     \* what the preview showed the user: [path, config]
  scan,      \* the row an unlocked inventory has read; seen 0: none
  crashes, edits, scans,  \* how many of each so far
  owned,     \* history: contents the user has put somewhere and not removed
  text,      \* history: the text the user last gave the config
  disturbed, \* history: adoptions whose files or row others changed while they were open
  installed, \* history: a file was installed at the free path of a shim under the holder
  late       \* history: files changed by others since the recovery looked at them

journal == <<row, intents, receipts>>
files   == <<tree, current, path, backup, temp, config>>
work    == <<pc, at, todo, tries>>
env     == <<kind, native, shown, scan, crashes, edits, scans>>
hist    == <<owned, text, disturbed, installed, late>>
vars    == <<journal, files, work, env, hist>>

Phase    == {"none", "prepared", "switched", "blocked", "committed", "rolled_back"}
NoConfig == [text |-> 0, managed |-> FALSE]
NoPreview == [path |-> Nothing, config |-> NoConfig]
NoIntent == [phase |-> "none", path |-> Nothing, config |-> NoConfig, row |-> [gen |-> 0, seen |-> 0]]

\* ListPendingAdoptions
Pending(i) == intents[i].phase \in {"prepared", "switched", "blocked"}

UsesPath   == kind # "hook"
UsesConfig == kind \in {"hook", "stdio"}
\* adoptionConfigEffect.Changed: an unchanged config is only a guard
Rewrites(i) == UsesConfig /\ ~intents[i].config.managed
Rewritten(i) == [intents[i].config EXCEPT !.managed = TRUE]

-----------------------------------------------------------------------------
(* What the files say of an adoption *)

\* mutant: a crash between the two renames is not foreseen
InstallState_NoPartial(i) ==
  CASE path = Ours /\ backup[i] = intents[i].path    -> "after"
    [] path = intents[i].path /\ backup[i] = Nothing -> "before"
    [] OTHER                                         -> "conflict"

\* installEffectState: a directory and its backup
InstallState(i) ==
  CASE path = Ours /\ backup[i] = intents[i].path    -> "after"
    [] path = Nothing /\ backup[i] = intents[i].path -> "partial"
    [] path = intents[i].path /\ backup[i] = Nothing -> "before"
    [] OTHER                                         -> "conflict"

\* shimEffectState: an executable and its backup, or no executable before
ShimState(i) ==
  LET before == intents[i].path
  IN CASE path = Ours /\ backup[i] = before                           -> "after"
       [] path = before /\ backup[i] = Nothing                        -> "before"
       [] before # Nothing /\ path = Nothing /\ backup[i] = before    -> "partial"
       [] OTHER                                                       -> "conflict"

PathState(i) == IF kind = "file" THEN InstallState(i) ELSE ShimState(i)

\* configEffectState
ConfigState(i) ==
  CASE ~Rewrites(i) /\ config = intents[i].config -> "after"
    [] Rewrites(i) /\ config = intents[i].config  -> "before"
    [] Rewrites(i) /\ config = Rewritten(i)       -> "after"
    [] OTHER                                      -> "conflict"

CurrentState(i) ==
  CASE current = 0 -> "before" [] current = i -> "after" [] OTHER -> "conflict"

\* finalAdoptionEffectState: the last thing the adoption changes tells how far it got
Endpoint(i) ==
  IF Rewrites(i) THEN ConfigState(i) ELSE IF UsesPath THEN PathState(i) ELSE CurrentState(i)

\* ensureAdoptionEffectsAfter
AllAfter(i) ==
  (UsesPath => PathState(i) = "after") /\ (UsesConfig => ConfigState(i) = "after")

\* rollbackAdoptionEffects: a config to be rewritten must be as it was, another one unedited
MayUndo(i) ==
  /\ UsesConfig => ConfigState(i) = IF Rewrites(i) THEN "before" ELSE "after"
  /\ UsesPath => PathState(i) # "conflict"

-----------------------------------------------------------------------------
(* The lock, and the recovery with which every holder begins *)

Goto(where) == pc' = where /\ UNCHANGED <<at, todo, tries>>
\* mutant: the next holder finds the adoption of the last one
Exit_Remembers == pc' = "free" /\ UNCHANGED <<at, todo, tries>>
Exit == pc' = "free" /\ at' = 0 /\ todo' = {} /\ tries' = 0

SetPhase(i, p) == intents' = [intents EXCEPT ![i].phase = p]

\* mutant: a lifecycle command starts without recovering
TakeLock_NoRecovery ==
  /\ pc = "free" /\ pc' = "ready" /\ UNCHANGED <<at, todo, tries, journal, files, env, hist>>

TakeLock ==
  /\ pc = "free"
  /\ todo' = {i \in Adoptions : Pending(i)}
  /\ IF todo' = {} THEN pc' = "ready" /\ at' = 0 ELSE pc' = "judge" /\ at' = Min(todo')
  /\ tries' = 0 /\ UNCHANGED <<journal, files, env, hist>>

\* the holder does something else, or nothing
Leave ==
  /\ pc = "ready" /\ Exit
  /\ UNCHANGED <<journal, files, env, hist>>

\* the recovery of an adoption has ended: RecoverAdoptions turns to the next one; Adopt
\* returns, and its deferred call recovers once more what has not been committed
Continue ==
  IF tries = 0
    THEN LET rest == todo \ {at}
         IN /\ todo' = rest /\ UNCHANGED tries
            /\ IF rest = {} THEN pc' = "ready" /\ at' = 0 ELSE pc' = "judge" /\ at' = Min(rest)
    ELSE IF tries = 1 \/ intents'[at].phase = "committed"
      THEN Exit
      ELSE pc' = "judge" /\ tries' = tries - 1 /\ UNCHANGED <<at, todo>>

\* errAdoptionRecoveryConflict, ErrAdoptionStateChanged
Block ==
  /\ SetPhase(at, "blocked") /\ Continue
  /\ UNCHANGED <<row, receipts, files>>

\* a first call has already taken the adoption back
AlreadyRolledBack ==
  /\ pc = "judge" /\ ~Pending(at)
  /\ UNCHANGED intents /\ Continue
  /\ UNCHANGED <<row, receipts, files, env, hist>>

Judging(state) == pc = "judge" /\ Pending(at) /\ Endpoint(at) \in state

Conflict ==
  /\ Judging({"before", "partial", "after", "conflict"})
  /\ CASE Endpoint(at) = "conflict" -> TRUE
       [] Endpoint(at) = "after"    -> ~AllAfter(at)
       [] OTHER                     -> ~MayUndo(at)
  /\ Block /\ UNCHANGED <<env, hist>>

\* mutant: the endpoint alone decides
GoForward_EndpointOnly ==
  /\ Judging({"after"})
  /\ Goto("current") /\ late' = FALSE
  /\ UNCHANGED <<journal, files, env, owned, text, disturbed, installed>>

GoForward ==
  /\ Judging({"after"}) /\ AllAfter(at)
  /\ Goto("current") /\ late' = FALSE
  /\ UNCHANGED <<journal, files, env, owned, text, disturbed, installed>>

GoBack ==
  /\ Judging({"before", "partial"}) /\ MayUndo(at)
  /\ Goto("undo") /\ UNCHANGED <<journal, files, env, hist>>

\* ensureAdoptionCurrentAfter, verifyAdoptionGeneration
CurrentFits == current \in {0, at} /\ tree[at] = "intact"
EnsureCurrent ==
  /\ pc = "current" /\ CurrentFits
  /\ current' = at /\ Goto("mark")
  /\ UNCHANGED <<journal, tree, path, backup, temp, config, env, hist>>
CurrentConflicts ==
  /\ pc = "current" /\ ~CurrentFits
  /\ Block /\ UNCHANGED <<env, hist>>

\* MarkAdoptionSwitched does not accept an adoption that was blocked before
MarkSwitched ==
  /\ pc = "mark" /\ intents[at].phase # "blocked"
  /\ SetPhase(at, "switched") /\ Goto("finalize")
  /\ UNCHANGED <<row, receipts, files, env, hist>>
MarkRefused ==
  /\ pc = "mark" /\ intents[at].phase = "blocked"
  /\ Block /\ UNCHANGED <<env, hist>>

\* mutant: the rows are committed before the phase
Committed_RowsFirst ==
  /\ row' = [row EXCEPT !.gen = at]
  /\ receipts' = [receipts EXCEPT ![at] = Append(@, "succeeded")]
  /\ Exit /\ UNCHANGED <<intents, files, env, hist>>

Committed ==
  /\ SetPhase(at, "committed")
  /\ row' = [row EXCEPT !.gen = at]
  /\ receipts' = [receipts EXCEPT ![at] = Append(@, "succeeded")]
  /\ Continue /\ UNCHANGED <<files, env, hist>>

\* FinalizeAdoption: compare-and-set of the rows, receipt and phase in one transaction
Finalize == pc = "finalize" /\ row = intents[at].row /\ Committed
FinalizeRefused ==
  /\ pc = "finalize" /\ row # intents[at].row
  /\ Block /\ UNCHANGED <<env, hist>>

\* rollbackShimEffect and rollbackInstallEffect take out what was put at the path
TakenOut(i) == IF UsesPath /\ PathState(i) = "after" THEN Nothing ELSE path

\* the temporary link and what was put in the place of the user's file go, then the file
\* comes back; between the look and the two system calls nobody else gets in, a crash may
Undo ==
  /\ pc = "undo" /\ MayUndo(at)
  /\ temp' = [temp EXCEPT ![at] = FALSE] /\ path' = TakenOut(at)
  /\ Goto(IF UsesPath /\ PathState(at) # "before" /\ backup[at] # Nothing THEN "putback" ELSE "clear")
  /\ UNCHANGED <<journal, tree, current, backup, config, env, hist>>
UndoConflicts ==
  /\ pc = "undo" /\ ~MayUndo(at)
  /\ Block /\ UNCHANGED <<env, hist>>

PutBack ==
  /\ pc = "putback"
  /\ path' = backup[at] /\ backup' = [backup EXCEPT ![at] = Nothing]
  /\ Goto("clear") /\ UNCHANGED <<journal, tree, current, temp, config, env, hist>>

\* mutant: "current" is left to whatever comes next
ClearCurrent_Not ==
  /\ pc = "clear" /\ Goto("remove")
  /\ UNCHANGED <<journal, files, env, hist>>

\* rollbackAdoptionCurrent
ClearCurrent ==
  /\ pc = "clear" /\ current \in {0, at}
  /\ current' = 0 /\ Goto("remove")
  /\ UNCHANGED <<journal, tree, path, backup, temp, config, env, hist>>
ClearConflicts ==
  /\ pc = "clear" /\ current \notin {0, at}
  /\ Block /\ UNCHANGED <<env, hist>>

RemoveTree ==
  /\ pc = "remove"
  /\ tree' = [tree EXCEPT ![at] = "none"]
  /\ Goto("unmark") /\ UNCHANGED <<journal, current, path, backup, temp, config, env, hist>>

MarkRolledBack ==
  /\ pc = "unmark"
  /\ SetPhase(at, "rolled_back") /\ Continue
  /\ UNCHANGED <<row, receipts, files, env, hist>>

-----------------------------------------------------------------------------
(* Adopt *)

\* ResolveAdopt: what the user is asked to approve, read before the lock is taken
Preview ==
  /\ pc = "free" /\ row.gen = 0
  /\ shown' = [path |-> IF kind = "stdio" THEN Nothing ELSE path,
               config |-> IF UsesConfig THEN config ELSE NoConfig]
  /\ shown' # shown
  /\ UNCHANGED <<journal, files, work, kind, native, scan, crashes, edits, scans, hist>>

\* checkExpectedObservedFile, FingerprintTree: what was shown is still there
Approved ==
  /\ UsesConfig => shown.config = config
  /\ kind = "file" \/ (kind = "cli" /\ native) => shown.path = path

\* adopt, ensureNoAdoptionPointer
Adoptable == pc = "ready" /\ row.gen = 0 /\ current = 0

\* MaterializeTree, into a generation with a new ID
Materialized ==
  /\ \E i \in Adoptions :
       /\ intents[i] = NoIntent /\ tree[i] = "none" /\ \A j \in 1..(i - 1) : intents[j] # NoIntent
       /\ tree' = [tree EXCEPT ![i] = "intact"]
       /\ pc' = "plan" /\ at' = i /\ UNCHANGED <<todo, tries>>
  /\ UNCHANGED <<journal, current, path, backup, temp, config, env, hist>>

CaptureDirectory == kind = "file" /\ Adoptable /\ path \in Contents /\ Approved /\ Materialized
FetchHook        == kind = "hook" /\ Adoptable /\ Approved /\ Materialized
RebuildRuntime   == kind \in {"cli", "stdio"} /\ Adoptable /\ Approved /\ Materialized

\* PrepareAdoption: the plan, with what is at the path, in the config and in the row
Prepared ==
  /\ intents' = [intents EXCEPT ![at] =
       [phase |-> "prepared", path |-> IF UsesPath THEN path ELSE Nothing,
        config |-> IF UsesConfig THEN config ELSE NoConfig, row |-> row]]
  /\ Goto("journaled") /\ shown' = NoPreview
  /\ UNCHANGED <<row, receipts, files, kind, native, scan, crashes, edits, scans, hist>>

\* planShimEffect: a shim only takes the place of the native executable
ShimFits == path = Nothing \/ (native /\ path \in Contents)

\* what was approved is looked at once more, then the plan is made and journaled
PlanDirectory == pc = "plan" /\ kind = "file" /\ Approved /\ Prepared
PlanHook      == pc = "plan" /\ kind = "hook" /\ Approved /\ Prepared
PlanRuntime   == pc = "plan" /\ kind \in {"cli", "stdio"} /\ Approved /\ ShimFits /\ Prepared

PlanRefused ==
  /\ pc = "plan" /\ Exit
  /\ tree' = [tree EXCEPT ![at] = "none"]
  /\ UNCHANGED <<journal, current, path, backup, temp, config, env, hist>>

SwitchCurrent ==
  /\ pc = "journaled"
  /\ current' = at /\ Goto("apply")
  /\ UNCHANGED <<journal, tree, path, backup, temp, config, env, hist>>

Recovering(calls) == pc' = "judge" /\ tries' = calls /\ UNCHANGED <<at, todo>>

\* applyInstallEffect, applyShimEffect: the user's file is moved aside unread
Link ==
  /\ pc = "apply" /\ kind = "file" /\ ~temp[at]
  /\ temp' = [temp EXCEPT ![at] = TRUE]
  /\ Goto("linked") /\ UNCHANGED <<journal, tree, current, path, backup, config, env, hist>>

MoveAside ==
  /\ pc = IF kind = "file" THEN "linked" ELSE "apply"
  /\ UsesPath /\ intents[at].path # Nothing /\ path # Nothing
  /\ backup' = [backup EXCEPT ![at] = path] /\ path' = Nothing
  /\ Goto("moved") /\ UNCHANGED <<journal, tree, current, temp, config, env, hist>>

\* the link replaces nothing; AtomicWriteFile replaces whatever is at the shim's path
PutOurs ==
  /\ \/ pc = "moved" /\ path = Nothing
     \/ pc = "apply" /\ kind \in {"cli", "stdio"} /\ intents[at].path = Nothing
  /\ path' = Ours /\ temp' = [temp EXCEPT ![at] = FALSE]
  /\ Goto("config") /\ UNCHANGED <<journal, tree, current, backup, config, env, hist>>

\* mutant: the planned content is written without comparing
ApplyMutation_Blindly ==
  /\ pc = IF UsesPath THEN "config" ELSE "apply"
  /\ config' = IF Rewrites(at) THEN Rewritten(at) ELSE config
  /\ Recovering(2)
  /\ UNCHANGED <<journal, tree, current, path, backup, temp, env, hist>>

\* host.ApplyMutation: only over the content that was planned from
ApplyMutation ==
  /\ pc = IF UsesPath THEN "config" ELSE "apply"
  /\ Rewrites(at) => config = intents[at].config
  /\ config' = IF Rewrites(at) THEN Rewritten(at) ELSE config
  /\ Recovering(2)
  /\ UNCHANGED <<journal, tree, current, path, backup, temp, env, hist>>

\* a step fails, or finds the file changed: the deferred call alone recovers
ApplyFails ==
  /\ pc \in {"journaled", "apply", "linked", "moved", "config"}
  /\ Recovering(1)
  /\ UNCHANGED <<journal, files, env, hist>>

-----------------------------------------------------------------------------
(* Everybody else *)

Crash ==
  /\ pc # "free" /\ crashes < MaxCrash
  /\ crashes' = crashes + 1 /\ Exit
  /\ UNCHANGED <<journal, files, kind, native, shown, scan, edits, scans, hist>>

\* others act while the adoptions of this set are open
OpenNow == {i \in Adoptions : Pending(i)} \cup ({at} \ {0})
Disturb ==
  /\ edits < MaxEdit[kind] /\ edits' = edits + 1
  /\ disturbed' = disturbed \cup OpenNow /\ late' = TRUE
  /\ UNCHANGED <<journal, work, kind, native, shown, scan, crashes, scans>>

\* the user replaces or removes what is at the path
EditPath(v) ==
  /\ UsesPath /\ pc \notin {"moved", "putback"} /\ v # path
  /\ Disturb /\ path' = v
  /\ owned' = (owned \ {path}) \cup ({v} \cap Contents)
  /\ installed' = (installed \/ (path = Nothing /\ kind # "file" /\ pc # "free"))
  /\ UNCHANGED <<tree, current, backup, temp, config, text>>

\* the user takes the backup of an adoption back
TakeBackup(i) ==
  /\ UsesPath /\ pc \notin {"moved", "putback"} /\ backup[i] # Nothing /\ path \in {Nothing, Ours}
  /\ Disturb /\ path' = backup[i] /\ backup' = [backup EXCEPT ![i] = Nothing]
  /\ UNCHANGED <<tree, current, temp, config, owned, text, installed>>

EditConfig(t, m) ==
  /\ UsesConfig /\ config # [text |-> t, managed |-> m]
  /\ Disturb /\ config' = [text |-> t, managed |-> m] /\ text' = t
  /\ UNCHANGED <<tree, current, path, backup, temp, owned, installed>>

EditTree(i) ==
  /\ tree[i] = "intact"
  /\ Disturb /\ tree' = [tree EXCEPT ![i] = "changed"]
  /\ UNCHANGED <<current, path, backup, temp, config, owned, text, installed>>

\* inventory.Persist: the rows are read, and written back with a new last_seen_at
ScanReads ==
  /\ scan.seen = 0 /\ scans < MaxScan /\ scan' = row
  /\ UNCHANGED <<journal, files, work, kind, native, shown, crashes, edits, scans, hist>>
ScanWrites ==
  /\ scan.seen # 0 /\ scans' = scans + 1
  /\ row' = [gen |-> scan.gen, seen |-> scans + 2] /\ scan' = [gen |-> 0, seen |-> 0]
  /\ disturbed' = disturbed \cup OpenNow
  /\ UNCHANGED <<intents, receipts, files, work, kind, native, shown, crashes, edits, owned, text, installed, late>>

-----------------------------------------------------------------------------
(* The specification *)

Init ==
  /\ kind \in Kinds
  /\ row = [gen |-> 0, seen |-> 1]
  /\ intents = [i \in Adoptions |-> NoIntent] /\ receipts = [i \in Adoptions |-> <<>>]
  /\ tree = [i \in Adoptions |-> "none"] /\ current = 0
  /\ native \in IF kind \in {"cli", "stdio"} THEN BOOLEAN ELSE {FALSE}
  /\ path = IF kind = "file" \/ native THEN 1 ELSE Nothing
  /\ backup = [i \in Adoptions |-> Nothing] /\ temp = [i \in Adoptions |-> FALSE]
  /\ config \in [text : {1}, managed : IF UsesConfig THEN BOOLEAN ELSE {FALSE}]
  /\ pc = "free" /\ at = 0 /\ todo = {} /\ tries = 0
  /\ shown = NoPreview /\ scan = [gen |-> 0, seen |-> 0]
  /\ crashes = 0 /\ edits = 0 /\ scans = 0
  /\ owned = {path} \cap Contents /\ text = 1 /\ disturbed = {}
  /\ installed = FALSE /\ late = FALSE

Recover ==
  \/ TakeLock \/ Leave \/ AlreadyRolledBack \/ Conflict \/ GoForward \/ GoBack
  \/ EnsureCurrent \/ CurrentConflicts \/ MarkSwitched \/ MarkRefused
  \/ Finalize \/ FinalizeRefused
  \/ Undo \/ UndoConflicts \/ PutBack \/ ClearCurrent \/ ClearConflicts
  \/ RemoveTree \/ MarkRolledBack

Adopt ==
  \/ CaptureDirectory \/ FetchHook \/ RebuildRuntime
  \/ PlanDirectory \/ PlanHook \/ PlanRuntime \/ PlanRefused \/ SwitchCurrent
  \/ Link \/ MoveAside \/ PutOurs \/ ApplyMutation \/ ApplyFails

Others ==
  \/ Preview \/ ScanReads \/ ScanWrites
  \/ \E v \in Contents \cup {Nothing} : EditPath(v)
  \/ \E i \in Adoptions : TakeBackup(i) \/ EditTree(i)
  \/ \E t \in 1..MaxText, m \in BOOLEAN : EditConfig(t, m)

Next == Recover \/ Adopt \/ Others \/ Crash

Spec == Init /\ [][Next]_vars

\* the scheduler starts a process over and over, and one that holds the lock goes on
Fairness == WF_vars(Recover \/ Adopt)
FairSpec == Spec /\ Fairness

-----------------------------------------------------------------------------
(* Types and safety *)

Config == [text : 0..MaxText, managed : BOOLEAN]
Row    == [gen : Adoptions \cup {0}, seen : 0..(MaxScan + 1)]

\* The type of every variable.
TypeOK ==
  /\ kind \in {"file", "hook", "cli", "stdio"} /\ native \in BOOLEAN
  /\ row \in Row /\ scan \in Row
  /\ intents \in [Adoptions -> [phase : Phase, path : Contents \cup {Nothing}, config : Config,
                                row : Row]]
  /\ receipts \in [Adoptions -> Seq({"succeeded"})]
  /\ tree \in [Adoptions -> {"none", "intact", "changed"}] /\ current \in Adoptions \cup {0}
  /\ path \in 0..Ours /\ backup \in [Adoptions -> Contents \cup {Nothing}]
  /\ temp \in [Adoptions -> BOOLEAN] /\ config \in Config
  /\ pc \in {"free", "ready", "judge", "current", "mark", "finalize", "undo", "putback", "clear",
             "remove", "unmark", "plan", "journaled", "apply", "linked", "moved", "config"}
  /\ at \in Adoptions \cup {0} /\ (at = 0 <=> pc \in {"free", "ready"})
  /\ todo \subseteq Adoptions /\ tries \in 0..2
  /\ shown \in [path : 0..Ours, config : Config]
  /\ crashes \in 0..MaxCrash /\ edits \in 0..MaxEdit[kind] /\ scans \in 0..MaxScan
  /\ owned \subseteq Contents /\ text \in 1..MaxText /\ disturbed \subseteq Adoptions
  /\ installed \in BOOLEAN /\ late \in BOOLEAN

\* adopt.go:24-26 and adopt_recovery.go:312: wherever an adoption is cut short, taken
\* back or blocked, and whatever is edited meanwhile, each file the user has put there is
\* at its place or in a backup, and the host config says what the user last wrote.  The
\* exception is a file that somebody installs at the free path of a shim between its
\* planning and its writing, which does not look again.
NothingOfTheUserIsLost ==
  /\ installed \/ owned \subseteq {path} \cup {backup[i] : i \in Adoptions}
  /\ config.text = text

\* adopt_recovery.go:163-176: an adoption that was taken back has left nothing behind: no
\* generation, link or backup, and neither "current" nor the row names its generation.
RollbackIsWhole ==
  \A i \in Adoptions : intents[i].phase = "rolled_back" =>
    /\ tree[i] = "none" /\ ~temp[i] /\ backup[i] = Nothing
    /\ current # i /\ row.gen # i /\ receipts[i] = <<>>

\* adopt_recovery.go:101, :131: recovery can always finish an adoption or take it back,
\* at whatever point it stopped, unless others changed its files or its row, or those of an earlier one that is
\* blocked since then and still names "current".
Excused(i) == \E j \in 1..i : j \in disturbed /\ intents[j].phase = "blocked"
BlockedOnlyByOthers ==
  \A i \in Adoptions : intents[i].phase = "blocked" => Excused(i)

\* adopt_recovery.go:151-162: an adoption is committed only when all of its effects are
\* in place and the user's file is in the backup, apart from what others changed after
\* the recovery looked.
CommitIsWhole ==
  [][\A i \in Adoptions :
       intents[i].phase # "committed" /\ intents'[i].phase = "committed" =>
         \/ late
         \/ AllAfter(i) /\ current = i /\ tree[i] = "intact"]_vars

\* The row moves to the generation of an adoption once, with the adoption's receipt; an
\* adoption that is taken back leaves none, a blocked one stays open.
Outcome == [i \in Adoptions |->
  IF Pending(i) THEN "open" ELSE IF intents[i].phase = "rolled_back" THEN "failed"
  ELSE intents[i].phase]
Target  == [i \in Adoptions |-> i]
Ledger  == INSTANCE TransactionLedger WITH
  Transaction <- Adoptions, Release <- Adoptions \cup {0}, InitialRelease <- 0, Observes <- TRUE,
  outcome <- Outcome, target <- Target, release <- row.gen, receipt <- receipts
ImplementsLedger == Ledger!LedgerSpec

\* service.go:87: each process that takes the lock recovers first, so an adoption that
\* was cut short ends; if nobody touched its files it is committed or taken back.
EveryAdoptionSettles ==
  \A i \in Adoptions :
    intents[i].phase \in {"prepared", "switched"} ~>
      \/ intents[i].phase \in {"committed", "rolled_back"}
      \/ intents[i].phase = "blocked" /\ Excused(i)

=============================================================================
