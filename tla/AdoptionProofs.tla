---------------------------- MODULE AdoptionProofs ----------------------------
(***************************************************************************)
(* Theorems about Adoption, for every number of adoptions, contents,       *)
(* crashes, edits, inventories and texts, and every set of kinds; and      *)
(* about the commands of MCEffects, which take turns.                      *)
(***************************************************************************)
EXTENDS MCEffects, WellFoundedInduction, TLAPS

(***************************************************************************)
(* The inductive invariant.                                                *)
(***************************************************************************)
(* The adoption that the holder of the lock is about: planned before it is journaled,     *)
(* open until it is committed or taken back.                                              *)
AtHand ==
  /\ pc = "plan" => intents[at].phase = "none" /\ (kind = "file" => shown.path \in Contents)
  /\ pc \in {"journaled", "apply", "linked", "moved", "config"} => intents[at].phase = "prepared"
  /\ pc \in {"current", "mark", "undo", "putback", "clear", "remove", "unmark"} => Pending(at)
  /\ pc = "finalize" => intents[at].phase = "switched"

(* A receipt is written with the commit, and only a committed adoption reaches a row.     *)
RowsFollow ==
  /\ \A i \in Adoptions :
       receipts[i] = IF intents[i].phase = "committed" THEN <<"succeeded">> ELSE <<>>
  /\ row.gen # 0 => intents[row.gen].phase = "committed"
  /\ scan.gen # 0 => intents[scan.gen].phase = "committed"

(* What was moved aside, and what was put in its place, belong to the generation that     *)
(* "current" names.                                                                       *)
BackupsOfCurrent == \A i \in Adoptions : backup[i] # Nothing => current = i /\ UsesPath
OursIsCurrent ==
  path = Ours =>
    /\ current # 0 /\ UsesPath
    /\ pc \notin {"apply", "linked", "moved", "putback", "clear", "remove", "unmark"}

(* Adopt begins where no generation is current, and moves aside once.                     *)
Applying ==
  /\ pc \in {"plan", "journaled"} => current = 0
  /\ pc \in {"apply", "linked", "moved", "config"} => current = at
  /\ pc \in {"journaled", "apply", "linked"} => backup[at] = Nothing
  /\ pc \in {"moved", "config"} => UsesPath
  /\ pc = "linked" => kind = "file"

(* A shim is written over nothing, unless somebody has installed something there.         *)
ShimOverNothing ==
  pc \in {"journaled", "apply"} /\ kind \in {"cli", "stdio"} /\ intents[at].path = Nothing =>
    path = Nothing \/ installed

(* The order in which an adoption is taken back.                                          *)
Undoing ==
  /\ pc \in {"putback", "clear", "remove", "unmark"} => ~temp[at]
  /\ pc = "putback" => path = Nothing /\ backup[at] # Nothing
  /\ pc \in {"clear", "remove", "unmark"} => backup[at] = Nothing
  /\ pc \in {"remove", "unmark"} => current # at
  /\ pc = "unmark" => tree[at] = "none"

(* What the recovery found before it went forward is still so, or others have acted.      *)
Looked ==
  /\ pc = "current" => late \/ AllAfter(at)
  /\ pc \in {"mark", "finalize"} => late \/ (AllAfter(at) /\ current = at /\ tree[at] = "intact")

(* The type of every variable; an inventory that has read its rows will still write them. *)
TypeInv == TypeOK /\ kind \in Kinds /\ (scan.seen # 0 => scans < MaxScan)

HolderInv == AtHand /\ Applying /\ Undoing
FilesInv  == BackupsOfCurrent /\ OursIsCurrent /\ ShimOverNothing /\ NothingOfTheUserIsLost
AdoptionInv ==
  TypeInv /\ HolderInv /\ RowsFollow /\ FilesInv /\ RollbackIsWhole /\ Looked

-----------------------------------------------------------------------------
(* What the actions write. *)

\* The recovery turns to the least of the adoptions it has left: there is one.
LEMMA LeastExists ==
  ASSUME NEW S \in SUBSET Nat, S # {}
  PROVE  Min(S) \in S
<1>1. PICK x \in S : \A y \in S : ~(<<y, x>> \in OpToRel(<, Nat))
  BY NatLessThanWellFounded, WFMin
<1>2. \A y \in S : <<y, x>> \in Nat \X Nat /\ <<y, x>>[1] = y /\ <<y, x>>[2] = x
  OBVIOUS
<1>3. \A y \in S : ~(y < x)
  BY <1>1, <1>2, Zenon DEF OpToRel
<1>4. \A y \in S : x <= y
  BY <1>3
<1>5. QED  BY <1>4 DEF Min

\* The numbers of contents and of adoptions, and where the holder stands with none.
LEMMA Numbers ==
  /\ MaxContent \in Nat /\ MaxContent >= 1 /\ Ours \notin Contents /\ Ours # Nothing
  /\ Ours \in 0..Ours /\ 0 \notin Contents /\ 0 \notin Adoptions /\ Adoptions \subseteq Nat
  /\ Contents \cup {Nothing} \subseteq 0..Ours /\ 1 \in Contents
BY BoundsAssumption DEF Contents, Ours, Nothing, Adoptions

\* The holder of the lock between two adoptions, or nobody.
Idle == pc \in {"free", "ready", "judge"}

\* The tables, by adoption.
IntentRow == [phase : Phase, path : Contents \cup {Nothing}, config : Config, row : Row]
TablesOK ==
  /\ intents \in [Adoptions -> IntentRow] /\ receipts \in [Adoptions -> Seq({"succeeded"})]
  /\ tree \in [Adoptions -> {"none", "intact", "changed"}]
  /\ backup \in [Adoptions -> Contents \cup {Nothing}] /\ temp \in [Adoptions -> BOOLEAN]

\* The parts of the type invariant.
Place ==
  {"free", "ready", "judge", "current", "mark", "finalize", "undo", "putback", "clear", "remove",
   "unmark", "plan", "journaled", "apply", "linked", "moved", "config"}
WorkOK ==
  /\ at \in Adoptions \cup {0} /\ (at = 0 <=> pc \in {"free", "ready"})
  /\ todo \subseteq Adoptions /\ tries \in 0..2
FilesOK == current \in Adoptions \cup {0} /\ path \in 0..Ours /\ config \in Config
OutsideOK ==
  /\ kind \in Kinds /\ native \in BOOLEAN /\ row \in Row /\ scan \in Row
  /\ scan.seen # 0 => scans < MaxScan
  /\ shown \in [path : 0..Ours, config : Config]
  /\ edits \in 0..MaxEdit[kind] /\ scans \in 0..MaxScan /\ crashes \in 0..MaxCrash
HistOK ==
  /\ owned \subseteq Contents /\ text \in 1..MaxText /\ disturbed \subseteq Adoptions
  /\ installed \in BOOLEAN /\ late \in BOOLEAN

\* The parts make up the types.
LEMMA TypeParts ==
  TypeInv <=> TablesOK /\ pc \in Place /\ WorkOK /\ FilesOK /\ OutsideOK /\ HistOK
BY BoundsAssumption
DEF TypeInv, TypeOK, TablesOK, IntentRow, Place,
         WorkOK, FilesOK, OutsideOK, HistOK

\* An ended recovery leaves the holder with the next adoption, the same one or none.
LEMMA ContinueWritten ==
  ASSUME TypeOK, Continue, pc \notin {"free", "ready"}
  PROVE  Idle' /\ WorkOK'
<1>1. ASSUME NEW rest \in SUBSET Adoptions, rest # {}  PROVE Min(rest) \in Adoptions
  BY <1>1, LeastExists, Numbers
<1>2. at \in Adoptions /\ todo \subseteq Adoptions /\ tries \in 0..2
  BY DEF TypeOK
<1>3. CASE tries = 0
  <2>1. todo' = todo \ {at} /\ tries' = tries
    BY <1>3 DEF Continue
  <2>2. CASE todo \ {at} = {}
    <3>1. pc' = "ready" /\ at' = 0
      BY <1>3, <2>2 DEF Continue
    <3>2. QED  BY <1>2, <2>1, <3>1 DEF Idle, WorkOK
  <2>3. CASE todo \ {at} # {}
    <3>1. pc' = "judge" /\ at' = Min(todo \ {at})
      BY <1>3, <2>3 DEF Continue
    <3>2. at' \in Adoptions
      BY <1>1, <1>2, <2>3, <3>1
    <3>3. QED  BY <1>2, <2>1, <3>1, <3>2, Numbers DEF Idle, WorkOK
  <2>4. QED  BY <2>2, <2>3
<1>4. CASE tries # 0
  <2>1. tries - 1 \in 0..2
    BY <1>2, <1>4
  <2>2. CASE tries = 1 \/ intents'[at].phase = "committed"
    BY <1>4, <2>2, Numbers DEF Continue, Exit, Idle, WorkOK
  <2>3. CASE ~(tries = 1 \/ intents'[at].phase = "committed")
    BY <1>2, <1>4, <2>1, <2>3, Numbers DEF Continue, Idle, WorkOK
  <2>4. QED  BY <2>2, <2>3
<1>5. QED  BY <1>3, <1>4

\* The holder turns away: no file and no row changes.
Turning == TakeLock \/ Leave \/ AlreadyRolledBack \/ ApplyFails \/ Crash
Outside == <<kind, native, shown, scan, edits, scans>>
LEMMA TurningWritten ==
  ASSUME TypeOK, Turning
  PROVE  /\ Idle' /\ WorkOK' /\ crashes' \in 0..MaxCrash
         /\ UNCHANGED <<row, intents, receipts, files, Outside, hist>>
<1>1. ASSUME NEW rest \in SUBSET Adoptions, rest # {}  PROVE Min(rest) \in Adoptions
  BY <1>1, LeastExists, Numbers
<1>2. CASE TakeLock
  <2>1. todo' \subseteq Adoptions
    BY <1>2 DEF TakeLock
  <2>2. IF todo' = {} THEN pc' = "ready" /\ at' = 0 ELSE pc' = "judge" /\ at' \in Adoptions
    BY <1>1, <1>2, <2>1 DEF TakeLock
  <2>3. Idle' /\ WorkOK'
    BY <1>2, <2>1, <2>2, Numbers DEF TakeLock, Idle, WorkOK
  <2>4. QED  BY <1>2, <2>3 DEF TakeLock, TypeOK, journal, env, Outside
<1>3. CASE AlreadyRolledBack
  BY <1>3, ContinueWritten DEF AlreadyRolledBack, TypeOK, env, Outside
<1>4. CASE Leave
  BY <1>4, Numbers DEF Leave, Exit, TypeOK, Idle, WorkOK, journal, env, Outside
<1>5. CASE ApplyFails
  BY <1>5, Numbers DEF ApplyFails, Recovering, TypeOK, Idle, WorkOK, journal, env, Outside
<1>6. CASE Crash
  BY <1>6, Numbers, BoundsAssumption
  DEF Crash, Exit, TypeOK, Idle, WorkOK, journal, env, Outside
<1>7. QED  BY <1>2, <1>3, <1>4, <1>5, <1>6 DEF Turning

\* A phase that is set leaves the plan of the adoption, and the other adoptions, alone.
PhaseSet(i, p) ==
  /\ intents'[i].phase = p
  /\ \A j \in Adoptions : j # i => intents'[j] = intents[j]
  /\ \A j \in Adoptions : /\ intents'[j].path = intents[j].path
                          /\ intents'[j].config = intents[j].config
                          /\ intents'[j].row = intents[j].row
LEMMA PhaseWritten ==
  ASSUME TypeOK, NEW i \in Adoptions, NEW p \in Phase, SetPhase(i, p)
  PROVE  PhaseSet(i, p) /\ intents' \in [Adoptions -> IntentRow]
<1>1. intents \in [Adoptions -> IntentRow]
  BY DEF TypeOK, IntentRow
<1>2. intents' = [intents EXCEPT ![i] = [intents[i] EXCEPT !.phase = p]]
  BY DEF SetPhase
<1>3. \A j \in Adoptions : intents'[j] = IF j = i THEN [intents[i] EXCEPT !.phase = p]
                                         ELSE intents[j]
  BY <1>1, <1>2
<1>4. [intents[i] EXCEPT !.phase = p] \in IntentRow
  BY <1>1 DEF IntentRow
<1>5. /\ [intents[i] EXCEPT !.phase = p].phase = p
      /\ [intents[i] EXCEPT !.phase = p].path = intents[i].path
      /\ [intents[i] EXCEPT !.phase = p].config = intents[i].config
      /\ [intents[i] EXCEPT !.phase = p].row = intents[i].row
  BY <1>1 DEF IntentRow
<1>6. intents' \in [Adoptions -> IntentRow]
  BY <1>1, <1>2, <1>4
<1>7. PhaseSet(i, p)
  BY <1>3, <1>5 DEF PhaseSet
<1>8. QED  BY <1>6, <1>7

\* The recovery finds that others have changed something: the adoption stays open, blocked.
Stopping ==
  Conflict \/ CurrentConflicts \/ MarkRefused \/ FinalizeRefused \/ UndoConflicts \/ ClearConflicts
LEMMA StoppingWritten ==
  ASSUME TypeOK, AtHand, Stopping
  PROVE  /\ at \in Adoptions /\ Pending(at) /\ PhaseSet(at, "blocked")
         /\ intents' \in [Adoptions -> IntentRow]
         /\ Idle' /\ WorkOK' /\ UNCHANGED <<row, receipts, files, Outside, crashes, hist>>
<1>1. pc \notin {"free", "ready"} /\ at \in Adoptions
  BY DEF Stopping, Conflict, Judging, CurrentConflicts, MarkRefused, FinalizeRefused,
         UndoConflicts, ClearConflicts, TypeOK
<1>2. Block /\ UNCHANGED <<env, hist>>
  BY DEF Stopping, Conflict, CurrentConflicts, MarkRefused, FinalizeRefused, UndoConflicts,
         ClearConflicts
<1>3. Pending(at)
  BY DEF Stopping, Conflict, Judging, CurrentConflicts, MarkRefused, FinalizeRefused,
         UndoConflicts, ClearConflicts, AtHand, Pending
<1>4. SetPhase(at, "blocked") /\ Continue
  BY <1>2 DEF Block
<1>5. Idle' /\ WorkOK'
  BY <1>1, <1>4, ContinueWritten
<1>6. PhaseSet(at, "blocked") /\ intents' \in [Adoptions -> IntentRow]
  BY <1>1, <1>4, PhaseWritten DEF Phase
<1>7. QED  BY <1>1, <1>2, <1>3, <1>5, <1>6 DEF Block, env, Outside

\* The adoption is committed with its row and its receipt, or taken back.
LEMMA FinalizeWritten ==
  ASSUME TypeOK, AtHand, Finalize
  PROVE  /\ at \in Adoptions /\ intents[at].phase = "switched" /\ PhaseSet(at, "committed")
         /\ intents' \in [Adoptions -> IntentRow]
         /\ row' = [gen |-> at, seen |-> row.seen]
         /\ receipts' = [receipts EXCEPT ![at] = Append(receipts[at], "succeeded")]
         /\ receipts \in [Adoptions -> Seq({"succeeded"})]
         /\ Idle' /\ WorkOK' /\ UNCHANGED <<files, Outside, crashes, hist>>
<1>1. pc = "finalize" /\ at \in Adoptions /\ intents[at].phase = "switched"
  BY DEF Finalize, TypeOK, AtHand
<1>2. SetPhase(at, "committed") /\ Continue
  BY DEF Finalize, Committed
<1>3. PhaseSet(at, "committed") /\ intents' \in [Adoptions -> IntentRow]
  BY <1>1, <1>2, PhaseWritten DEF Phase
<1>4. Idle' /\ WorkOK'
  BY <1>1, <1>2, ContinueWritten
<1>5. row' = [gen |-> at, seen |-> row.seen]
  BY DEF Finalize, Committed, TypeOK, Row
<1>6. QED  BY <1>1, <1>3, <1>4, <1>5 DEF Finalize, Committed, env, Outside, TypeOK

LEMMA MarkRolledBackWritten ==
  ASSUME TypeOK, AtHand, MarkRolledBack
  PROVE  /\ pc = "unmark" /\ at \in Adoptions /\ Pending(at) /\ PhaseSet(at, "rolled_back")
         /\ intents' \in [Adoptions -> IntentRow]
         /\ Idle' /\ WorkOK' /\ UNCHANGED <<row, receipts, files, Outside, crashes, hist>>
<1>1. pc = "unmark" /\ at \in Adoptions /\ Pending(at)
  BY DEF MarkRolledBack, TypeOK, AtHand
<1>2. SetPhase(at, "rolled_back") /\ Continue
  BY DEF MarkRolledBack
<1>3. PhaseSet(at, "rolled_back") /\ intents' \in [Adoptions -> IntentRow]
  BY <1>1, <1>2, PhaseWritten DEF Phase
<1>4. Idle' /\ WorkOK'
  BY <1>1, <1>2, ContinueWritten
<1>5. QED  BY <1>1, <1>3, <1>4 DEF MarkRolledBack, env, Outside

LEMMA MarkSwitchedWritten ==
  ASSUME TypeOK, AtHand, MarkSwitched
  PROVE  /\ pc = "mark" /\ at \in Adoptions /\ Pending(at) /\ PhaseSet(at, "switched")
         /\ intents' \in [Adoptions -> IntentRow]
         /\ pc' = "finalize" /\ UNCHANGED <<at, todo, tries, row, receipts, files, env, hist>>
<1>1. pc = "mark" /\ at \in Adoptions /\ Pending(at)
  BY DEF MarkSwitched, TypeOK, AtHand
<1>2. PhaseSet(at, "switched") /\ intents' \in [Adoptions -> IntentRow]
  BY <1>1, PhaseWritten DEF MarkSwitched, Phase
<1>3. QED  BY <1>1, <1>2 DEF MarkSwitched, Goto

\* A new adoption, the first that has no intent, gets the directory of a new generation.
Beginning == CaptureDirectory \/ FetchHook \/ RebuildRuntime
LEMMA BeginningWritten ==
  ASSUME TypeOK, Beginning
  PROVE  /\ at' \in Adoptions /\ intents[at'] = NoIntent /\ tree[at'] = "none"
         /\ tree' = [tree EXCEPT ![at'] = "intact"]
         /\ tree \in [Adoptions -> {"none", "intact", "changed"}]
         /\ pc = "ready" /\ pc' = "plan" /\ row.gen = 0 /\ current = 0
         /\ kind = "file" => shown.path = path /\ path \in Contents
         /\ UNCHANGED <<row, intents, receipts, current, path, backup, temp, config, todo, tries>>
         /\ UNCHANGED <<Outside, crashes, hist>>
BY DEF Beginning, CaptureDirectory, FetchHook, RebuildRuntime, Adoptable, Approved, Materialized,
       journal, env, Outside, TypeOK

\* The plan that is journaled says what is at the path, in the config and in the row.
Planning == PlanDirectory \/ PlanHook \/ PlanRuntime
Plan ==
  [phase |-> "prepared", path |-> IF UsesPath THEN path ELSE Nothing,
   config |-> IF UsesConfig THEN config ELSE NoConfig, row |-> row]
LEMMA PlanningWritten ==
  ASSUME TypeOK, AtHand, Applying, OursIsCurrent, Planning
  PROVE  /\ at \in Adoptions /\ pc = "plan" /\ pc' = "journaled" /\ current = 0
         /\ intents[at].phase = "none" /\ intents' = [intents EXCEPT ![at] = Plan]
         /\ intents \in [Adoptions -> IntentRow] /\ Plan \in IntentRow /\ shown' = NoPreview
         /\ kind = "file" => path \in Contents
         /\ UNCHANGED <<at, todo, tries, row, receipts, files, kind, native, scan, crashes,
                        edits, scans, hist>>
<1>1. pc = "plan" /\ Prepared /\ Approved
  BY DEF Planning, PlanDirectory, PlanHook, PlanRuntime
<1>2. at \in Adoptions /\ current = 0 /\ intents[at].phase = "none" /\ path # Ours
  BY <1>1 DEF TypeOK, AtHand, Applying, OursIsCurrent
<1>3. kind = "file" => path \in Contents
  BY <1>1 DEF AtHand, Approved
<1>4. path \in Contents \cup {Nothing}
  BY <1>2, BoundsAssumption DEF TypeOK, Contents, Ours, Nothing
<1>5. NoConfig \in Config /\ config \in Config /\ row \in Row
  BY BoundsAssumption DEF TypeOK, NoConfig, Config
<1>6. Plan \in IntentRow
  BY <1>4, <1>5 DEF Plan, IntentRow, Phase
<1>7. intents' = [intents EXCEPT ![at] = Plan] /\ pc' = "journaled" /\ UNCHANGED <<at, todo, tries>>
  BY <1>1 DEF Prepared, Plan, Goto
<1>8. intents \in [Adoptions -> IntentRow]
  BY DEF TypeOK, IntentRow
<1>9. QED  BY <1>1, <1>2, <1>3, <1>6, <1>7, <1>8 DEF Prepared

\* What the state of the path says of the path and of the backup.
LEMMA PathStates ==
  ASSUME NEW i \in Adoptions
  PROVE  /\ PathState(i) = "after" => path = Ours /\ backup[i] = intents[i].path
         /\ PathState(i) = "partial" => path = Nothing
         /\ PathState(i) = "before" => path = intents[i].path /\ backup[i] = Nothing
         /\ PathState(i) \in {"before", "partial", "after", "conflict"}
BY DEF PathState, InstallState, ShimState

\* The steps of an adoption or of its recovery that change no row.
Working ==
  \/ GoForward \/ GoBack \/ EnsureCurrent \/ Undo \/ PutBack \/ ClearCurrent \/ RemoveTree
  \/ PlanRefused \/ SwitchCurrent \/ Link \/ MoveAside \/ PutOurs \/ ApplyMutation
Editing ==
  \/ \E v \in Contents \cup {Nothing} : EditPath(v)
  \/ \E i \in Adoptions : TakeBackup(i) \/ EditTree(i)
  \/ \E t \in 1..MaxText, m \in BOOLEAN : EditConfig(t, m)

\* These are all the steps.
LEMMA NextCases ==
  ASSUME [Next]_vars
  PROVE  \/ Turning \/ Stopping \/ Finalize \/ MarkRolledBack \/ MarkSwitched \/ Beginning
         \/ Planning \/ Working \/ Editing \/ Preview \/ ScanReads \/ ScanWrites
         \/ UNCHANGED vars
BY DEF Next, Recover, Adopt, Others, Turning, Stopping, Beginning, Planning, Working, Editing

\* The rows and the history of the holder's work are left alone.
LEMMA WorkingWritten ==
  ASSUME TypeOK, Working
  PROVE  /\ UNCHANGED <<row, intents, receipts, Outside, crashes>>
         /\ UNCHANGED <<owned, text, disturbed, installed>> /\ at \in Adoptions
         /\ WorkOK'
<1>1. at \in Adoptions /\ pc \notin {"free", "ready"}
  BY DEF Working, GoForward, GoBack, Judging, EnsureCurrent, Undo, PutBack, ClearCurrent,
         RemoveTree, PlanRefused, SwitchCurrent, Link, MoveAside, PutOurs, ApplyMutation, TypeOK
<1>2. /\ UNCHANGED <<row, intents, receipts, Outside, crashes>>
      /\ UNCHANGED <<owned, text, disturbed, installed>>
  BY DEF Working, GoForward, GoBack, EnsureCurrent, Undo, PutBack, ClearCurrent, RemoveTree,
         PlanRefused, SwitchCurrent, Link, MoveAside, PutOurs, ApplyMutation,
         journal, env, hist, Outside
<1>3. \/ pc' \notin {"free", "ready"} /\ UNCHANGED <<at, todo>> /\ tries' \in {tries, 2}
      \/ Exit
  BY DEF Working, GoForward, GoBack, EnsureCurrent, Undo, PutBack, ClearCurrent, RemoveTree,
         PlanRefused, SwitchCurrent, Link, MoveAside, PutOurs, ApplyMutation, Goto, Recovering
<1>4. at # 0 /\ todo \subseteq Adoptions /\ tries \in 0..2
  BY <1>1, Numbers DEF TypeOK
<1>5. WorkOK'
  <2>1. CASE Exit
    BY <2>1, Numbers DEF WorkOK, Exit
  <2>2. CASE pc' \notin {"free", "ready"} /\ UNCHANGED <<at, todo>> /\ tries' \in {tries, 2}
    BY <1>1, <1>4, <2>2 DEF WorkOK
  <2>3. QED  BY <1>3, <2>1, <2>2
<1>6. QED  BY <1>1, <1>2, <1>5

\* An edit disturbs what is open and is late for what the recovery has looked at.  Nobody
\* makes backups but the holder, and no file is edited between its two system calls.
LEMMA EditingWritten ==
  ASSUME TypeOK, Editing
  PROVE  /\ late' = TRUE /\ edits < MaxEdit[kind] /\ edits' = edits + 1
         /\ disturbed' = disturbed \cup OpenNow
         /\ UNCHANGED <<row, intents, receipts, pc, at, todo, tries, kind, native, shown, scan>>
         /\ UNCHANGED <<crashes, scans, current, temp>>
         /\ backup' \in [Adoptions -> Contents \cup {Nothing}]
         /\ \A i \in Adoptions : backup'[i] \in {backup[i], Nothing}
         /\ tree' \in [Adoptions -> {"none", "intact", "changed"}]
         /\ \A i \in Adoptions : tree[i] = "none" => tree'[i] = "none"
         /\ path' \in Contents \cup {Nothing, path}
         /\ pc \in {"moved", "putback"} => UNCHANGED <<path, backup>>
<1>1. /\ late' = TRUE /\ edits < MaxEdit[kind] /\ edits' = edits + 1
      /\ disturbed' = disturbed \cup OpenNow
      /\ UNCHANGED <<row, intents, receipts, pc, at, todo, tries, kind, native, shown, scan>>
      /\ UNCHANGED <<crashes, scans, current, temp>>
  BY DEF Editing, EditPath, TakeBackup, EditTree, EditConfig, Disturb, journal, work
<1>2. /\ backup \in [Adoptions -> Contents \cup {Nothing}]
      /\ tree \in [Adoptions -> {"none", "intact", "changed"}]
  BY DEF TypeOK
<1>3. CASE \E v \in Contents \cup {Nothing} : EditPath(v)
  BY <1>1, <1>2, <1>3 DEF EditPath
<1>4. CASE \E i \in Adoptions : TakeBackup(i)
  BY <1>1, <1>2, <1>4 DEF TakeBackup
<1>5. CASE \E i \in Adoptions : EditTree(i)
  BY <1>1, <1>2, <1>5 DEF EditTree
<1>6. CASE \E t \in 1..MaxText, m \in BOOLEAN : EditConfig(t, m)
  BY <1>1, <1>2, <1>6 DEF EditConfig
<1>7. QED  BY <1>3, <1>4, <1>5, <1>6 DEF Editing


-----------------------------------------------------------------------------
(* Each part of the invariant is kept. *)

\* The adoption at hand is where the holder is with it.
LEMMA AtHandKept ==
  ASSUME AdoptionInv, [Next]_vars
  PROVE  AtHand'
<1>0. TypeOK /\ TablesOK /\ (pc \notin {"free", "ready"} => at \in Adoptions)
     /\ AtHand /\ Applying /\ OursIsCurrent /\ RowsFollow
  BY DEF AdoptionInv, HolderInv, FilesInv, TypeInv, TypeOK, TablesOK, IntentRow
<1>1. CASE Turning
  BY <1>0, <1>1, TurningWritten, Numbers DEF Idle, AtHand, Pending, Phase
<1>2. CASE Stopping
  BY <1>0, <1>2, StoppingWritten, Numbers DEF Idle, PhaseSet, AtHand, Pending, Phase
<1>3. CASE Finalize
  BY <1>0, <1>3, FinalizeWritten, Numbers DEF Idle, PhaseSet, AtHand, Pending, Phase
<1>4. CASE MarkRolledBack
  BY <1>0, <1>4, MarkRolledBackWritten, Numbers DEF Idle, PhaseSet, AtHand, Pending, Phase
<1>5. CASE MarkSwitched
  BY <1>0, <1>5, MarkSwitchedWritten, Numbers DEF PhaseSet, env, AtHand, Pending, Phase
<1>6. CASE Beginning
  BY <1>0, <1>6, BeginningWritten, Numbers DEF NoIntent, Outside, AtHand, Pending, Phase
<1>7. CASE Planning
  BY <1>0, <1>7, PlanningWritten, Numbers DEF Plan, AtHand, Pending, Phase
<1>8. CASE GoForward
  BY <1>0, <1>8, WorkingWritten, Numbers
  DEF GoForward, Judging, Goto, Working, Outside, AtHand, Pending, Phase
<1>9. CASE GoBack
  BY <1>0, <1>9, WorkingWritten, Numbers
  DEF GoBack, Judging, Goto, Working, Outside, AtHand, Pending, Phase
<1>10. CASE EnsureCurrent
  BY <1>0, <1>10, WorkingWritten, Numbers
  DEF EnsureCurrent, Goto, Working, Outside, AtHand, Pending, Phase
<1>11. CASE Undo
  BY <1>0, <1>11, WorkingWritten, Numbers
  DEF Undo, Goto, Working, Outside, AtHand, Pending, Phase
<1>12. CASE PutBack
  BY <1>0, <1>12, WorkingWritten, Numbers
  DEF PutBack, Goto, Working, Outside, AtHand, Pending, Phase
<1>13. CASE ClearCurrent
  BY <1>0, <1>13, WorkingWritten, Numbers
  DEF ClearCurrent, Goto, Working, Outside, AtHand, Pending, Phase
<1>14. CASE RemoveTree
  BY <1>0, <1>14, WorkingWritten, Numbers
  DEF RemoveTree, Goto, Working, Outside, AtHand, Pending, Phase
<1>15. CASE PlanRefused
  BY <1>0, <1>15, WorkingWritten, Numbers
  DEF PlanRefused, Exit, Working, Outside, AtHand, Pending, Phase
<1>16. CASE SwitchCurrent
  BY <1>0, <1>16, WorkingWritten, Numbers
  DEF SwitchCurrent, Goto, Working, Outside, AtHand, Pending, Phase
<1>17. CASE Link
  BY <1>0, <1>17, WorkingWritten, Numbers
  DEF Link, Goto, Working, Outside, AtHand, Pending, Phase
<1>18. CASE MoveAside
  BY <1>0, <1>18, WorkingWritten, Numbers
  DEF MoveAside, Goto, Working, Outside, AtHand, Pending, Phase
<1>19. CASE PutOurs
  BY <1>0, <1>19, WorkingWritten, Numbers
  DEF PutOurs, Goto, Working, Outside, AtHand, Pending, Phase
<1>20. CASE ApplyMutation
  BY <1>0, <1>20, WorkingWritten, Numbers
  DEF ApplyMutation, Recovering, Working, Outside, AtHand, Pending, Phase
<1>21. CASE Editing
  BY <1>0, <1>21, EditingWritten, Numbers DEF AtHand, Pending, Phase
<1>22. CASE Preview
  BY <1>0, <1>22, Numbers DEF Preview, journal, files, work, AtHand, Pending, Phase
<1>23. CASE ScanReads
  BY <1>0, <1>23, Numbers DEF ScanReads, journal, files, work, AtHand, Pending, Phase
<1>24. CASE ScanWrites
  BY <1>0, <1>24, Numbers DEF ScanWrites, journal, files, work, AtHand, Pending, Phase
<1>25. CASE UNCHANGED vars
  BY <1>0, <1>25, Numbers DEF vars, journal, files, work, env, hist, AtHand, Pending, Phase
<1>26. QED
  BY <1>1, <1>2, <1>3, <1>4, <1>5, <1>6, <1>7, <1>8, <1>9, <1>10, <1>11, <1>12, <1>13,
     <1>14, <1>15, <1>16, <1>17, <1>18, <1>19, <1>20, <1>21, <1>22, <1>23, <1>24, <1>25,
     NextCases
  DEF Working, Editing

\* What the holder has applied.
LEMMA ApplyingKept ==
  ASSUME AdoptionInv, [Next]_vars
  PROVE  Applying'
<1>0. TypeOK /\ TablesOK /\ (pc \notin {"free", "ready"} => at \in Adoptions)
     /\ AtHand /\ Applying /\ OursIsCurrent /\ BackupsOfCurrent
  BY DEF AdoptionInv, HolderInv, FilesInv, TypeInv, TypeOK, TablesOK, IntentRow
<1>1. CASE Turning
  BY <1>0, <1>1, TurningWritten, Numbers DEF Idle, Applying, UsesPath, files
<1>2. CASE Stopping
  BY <1>0, <1>2, StoppingWritten, Numbers DEF Idle, PhaseSet, Applying, UsesPath, files
<1>3. CASE Finalize
  BY <1>0, <1>3, FinalizeWritten, Numbers DEF Idle, PhaseSet, Applying, UsesPath, files
<1>4. CASE MarkRolledBack
  BY <1>0, <1>4, MarkRolledBackWritten, Numbers
  DEF Idle, PhaseSet, Applying, UsesPath, files
<1>5. CASE MarkSwitched
  BY <1>0, <1>5, MarkSwitchedWritten, Numbers DEF PhaseSet, env, Applying, UsesPath, files
<1>6. CASE Beginning
  BY <1>0, <1>6, BeginningWritten, Numbers DEF NoIntent, Outside, Applying, UsesPath, files
<1>7. CASE Planning
  BY <1>0, <1>7, PlanningWritten, Numbers
  DEF Plan, Applying, UsesPath, files, BackupsOfCurrent
<1>8. CASE GoForward
  BY <1>0, <1>8, WorkingWritten, Numbers
  DEF GoForward, Judging, Goto, Working, Outside, Applying, UsesPath, files
<1>9. CASE GoBack
  BY <1>0, <1>9, WorkingWritten, Numbers
  DEF GoBack, Judging, Goto, Working, Outside, Applying, UsesPath, files
<1>10. CASE EnsureCurrent
  BY <1>0, <1>10, WorkingWritten, Numbers
  DEF EnsureCurrent, Goto, Working, Outside, Applying, UsesPath, files
<1>11. CASE Undo
  BY <1>0, <1>11, WorkingWritten, Numbers
  DEF Undo, Goto, Working, Outside, Applying, UsesPath, files
<1>12. CASE PutBack
  BY <1>0, <1>12, WorkingWritten, Numbers
  DEF PutBack, Goto, Working, Outside, Applying, UsesPath, files
<1>13. CASE ClearCurrent
  BY <1>0, <1>13, WorkingWritten, Numbers
  DEF ClearCurrent, Goto, Working, Outside, Applying, UsesPath, files
<1>14. CASE RemoveTree
  BY <1>0, <1>14, WorkingWritten, Numbers
  DEF RemoveTree, Goto, Working, Outside, Applying, UsesPath, files
<1>15. CASE PlanRefused
  BY <1>0, <1>15, WorkingWritten, Numbers
  DEF PlanRefused, Exit, Working, Outside, Applying, UsesPath, files
<1>16. CASE SwitchCurrent
  BY <1>0, <1>16, WorkingWritten, Numbers
  DEF SwitchCurrent, Goto, Working, Outside, Applying, UsesPath, files
<1>17. CASE Link
  BY <1>0, <1>17, WorkingWritten, Numbers
  DEF Link, Goto, Working, Outside, Applying, UsesPath, files
<1>18. CASE MoveAside
  BY <1>0, <1>18, WorkingWritten, Numbers
  DEF MoveAside, Goto, Working, Outside, Applying, UsesPath, files
<1>19. CASE PutOurs
  BY <1>0, <1>19, WorkingWritten, Numbers
  DEF PutOurs, Goto, Working, Outside, Applying, UsesPath, files
<1>20. CASE ApplyMutation
  BY <1>0, <1>20, WorkingWritten, Numbers
  DEF ApplyMutation, Recovering, Working, Outside, Applying, UsesPath, files
<1>21. CASE Editing
  BY <1>0, <1>21, EditingWritten, Numbers DEF Applying, UsesPath, files
<1>22. CASE Preview
  BY <1>0, <1>22, Numbers DEF Preview, journal, files, work, Applying, UsesPath, files
<1>23. CASE ScanReads
  BY <1>0, <1>23, Numbers DEF ScanReads, journal, files, work, Applying, UsesPath, files
<1>24. CASE ScanWrites
  BY <1>0, <1>24, Numbers DEF ScanWrites, journal, files, work, Applying, UsesPath, files
<1>25. CASE UNCHANGED vars
  BY <1>0, <1>25, Numbers
  DEF vars, journal, files, work, env, hist, Applying, UsesPath, files
<1>26. QED
  BY <1>1, <1>2, <1>3, <1>4, <1>5, <1>6, <1>7, <1>8, <1>9, <1>10, <1>11, <1>12, <1>13,
     <1>14, <1>15, <1>16, <1>17, <1>18, <1>19, <1>20, <1>21, <1>22, <1>23, <1>24, <1>25,
     NextCases
  DEF Working, Editing

\* What the holder has taken back.
LEMMA UndoingKept ==
  ASSUME AdoptionInv, [Next]_vars
  PROVE  Undoing'
<1>0. TypeOK /\ TablesOK /\ (pc \notin {"free", "ready"} => at \in Adoptions)
     /\ AtHand /\ Applying /\ Undoing /\ OursIsCurrent /\ BackupsOfCurrent
  BY DEF AdoptionInv, HolderInv, FilesInv, TypeInv, TypeOK, TablesOK, IntentRow
<1>1. CASE Turning
  BY <1>0, <1>1, TurningWritten, Numbers DEF Idle, Undoing, UsesPath, files
<1>2. CASE Stopping
  BY <1>0, <1>2, StoppingWritten, Numbers DEF Idle, PhaseSet, Undoing, UsesPath, files
<1>3. CASE Finalize
  BY <1>0, <1>3, FinalizeWritten, Numbers DEF Idle, PhaseSet, Undoing, UsesPath, files
<1>4. CASE MarkRolledBack
  BY <1>0, <1>4, MarkRolledBackWritten, Numbers DEF Idle, PhaseSet, Undoing, UsesPath, files
<1>5. CASE MarkSwitched
  BY <1>0, <1>5, MarkSwitchedWritten, Numbers DEF PhaseSet, env, Undoing, UsesPath, files
<1>6. CASE Beginning
  BY <1>0, <1>6, BeginningWritten, Numbers DEF NoIntent, Outside, Undoing, UsesPath, files
<1>7. CASE Planning
  BY <1>0, <1>7, PlanningWritten, Numbers DEF Plan, Undoing, UsesPath, files
<1>8. CASE GoForward
  BY <1>0, <1>8, WorkingWritten, Numbers
  DEF GoForward, Judging, Goto, Working, Outside, Undoing, UsesPath, files
<1>9. CASE GoBack
  BY <1>0, <1>9, WorkingWritten, Numbers
  DEF GoBack, Judging, Goto, Working, Outside, Undoing, UsesPath, files
<1>10. CASE EnsureCurrent
  BY <1>0, <1>10, WorkingWritten, Numbers
  DEF EnsureCurrent, Goto, Working, Outside, Undoing, UsesPath, files
<1>11. CASE Undo
  <2>1. at \in Adoptions /\ pc = "undo" /\ temp'[at] = FALSE /\ UNCHANGED <<at, backup>>
    BY <1>0, <1>11 DEF Undo, Goto, TablesOK
  <2>2. CASE UsesPath /\ PathState(at) # "before" /\ backup[at] # Nothing
    <3>1. pc' = "putback" /\ path' = Nothing
      BY <2>1, <2>2, <1>11, PathStates DEF Undo, Goto, MayUndo, TakenOut
    <3>2. QED  BY <2>1, <2>2, <3>1 DEF Undoing
  <2>3. CASE ~(UsesPath /\ PathState(at) # "before" /\ backup[at] # Nothing)
    <3>1. pc' = "clear" /\ backup[at] = Nothing
      BY <1>0, <2>1, <2>3, <1>11, PathStates DEF Undo, Goto, BackupsOfCurrent
    <3>2. QED  BY <2>1, <3>1 DEF Undoing
  <2>4. QED  BY <2>2, <2>3
<1>12. CASE PutBack
  BY <1>0, <1>12, WorkingWritten, Numbers
  DEF PutBack, Goto, Working, Outside, Undoing, UsesPath, files, TablesOK
<1>13. CASE ClearCurrent
  BY <1>0, <1>13, WorkingWritten, Numbers
  DEF ClearCurrent, Goto, Working, Outside, Undoing, UsesPath, files
<1>14. CASE RemoveTree
  BY <1>0, <1>14, WorkingWritten, Numbers
  DEF RemoveTree, Goto, Working, Outside, Undoing, UsesPath, files, TablesOK
<1>15. CASE PlanRefused
  BY <1>0, <1>15, WorkingWritten, Numbers
  DEF PlanRefused, Exit, Working, Outside, Undoing, UsesPath, files
<1>16. CASE SwitchCurrent
  BY <1>0, <1>16, WorkingWritten, Numbers
  DEF SwitchCurrent, Goto, Working, Outside, Undoing, UsesPath, files
<1>17. CASE Link
  BY <1>0, <1>17, WorkingWritten, Numbers
  DEF Link, Goto, Working, Outside, Undoing, UsesPath, files
<1>18. CASE MoveAside
  BY <1>0, <1>18, WorkingWritten, Numbers
  DEF MoveAside, Goto, Working, Outside, Undoing, UsesPath, files
<1>19. CASE PutOurs
  BY <1>0, <1>19, WorkingWritten, Numbers
  DEF PutOurs, Goto, Working, Outside, Undoing, UsesPath, files
<1>20. CASE ApplyMutation
  BY <1>0, <1>20, WorkingWritten, Numbers
  DEF ApplyMutation, Recovering, Working, Outside, Undoing, UsesPath, files
<1>21. CASE Editing
  BY <1>0, <1>21, EditingWritten, Numbers DEF Undoing, UsesPath, files
<1>22. CASE Preview
  BY <1>0, <1>22, Numbers DEF Preview, journal, files, work, Undoing, UsesPath, files
<1>23. CASE ScanReads
  BY <1>0, <1>23, Numbers DEF ScanReads, journal, files, work, Undoing, UsesPath, files
<1>24. CASE ScanWrites
  BY <1>0, <1>24, Numbers DEF ScanWrites, journal, files, work, Undoing, UsesPath, files
<1>25. CASE UNCHANGED vars
  BY <1>0, <1>25, Numbers
  DEF vars, journal, files, work, env, hist, Undoing, UsesPath, files
<1>26. QED
  BY <1>1, <1>2, <1>3, <1>4, <1>5, <1>6, <1>7, <1>8, <1>9, <1>10, <1>11, <1>12, <1>13,
     <1>14, <1>15, <1>16, <1>17, <1>18, <1>19, <1>20, <1>21, <1>22, <1>23, <1>24, <1>25,
     NextCases
  DEF Working, Editing

\* The rows follow the journal.
LEMMA RowsKept ==
  ASSUME AdoptionInv, [Next]_vars
  PROVE  RowsFollow'
<1>0. TypeOK /\ TablesOK /\ (pc \notin {"free", "ready"} => at \in Adoptions)
     /\ AtHand /\ RowsFollow /\ row \in Row /\ scan \in Row /\ Applying /\ OursIsCurrent
  BY DEF AdoptionInv, HolderInv, FilesInv, TypeInv, TypeOK, TablesOK, IntentRow
<1>1. CASE Turning
  BY <1>0, <1>1, TurningWritten, Numbers DEF Idle, RowsFollow, Row, Outside
<1>2. CASE Stopping
  <2>1. /\ at \in Adoptions /\ Pending(at) /\ PhaseSet(at, "blocked")
        /\ row' = row /\ receipts' = receipts /\ scan' = scan
    BY <1>0, <1>2, StoppingWritten DEF Outside
  <2>2. \A i \in Adoptions : intents'[i].phase = "committed" <=> intents[i].phase = "committed"
    BY <2>1 DEF PhaseSet, Pending
  <2>3. QED  BY <1>0, <2>1, <2>2, Numbers DEF RowsFollow, Row
<1>3. CASE Finalize
  <2>1. /\ at \in Adoptions /\ intents[at].phase = "switched" /\ PhaseSet(at, "committed")
        /\ row' = [gen |-> at, seen |-> row.seen] /\ scan' = scan
        /\ receipts' = [receipts EXCEPT ![at] = Append(receipts[at], "succeeded")]
    BY <1>0, <1>3, FinalizeWritten DEF Outside
  <2>2. receipts[at] = <<>>
    BY <1>0, <2>1 DEF RowsFollow
  <2>3. receipts'[at] = <<"succeeded">>
    BY <1>0, <2>1, <2>2 DEF TablesOK
  <2>4. \A i \in Adoptions : i # at => receipts'[i] = receipts[i] /\ intents'[i] = intents[i]
    BY <1>0, <2>1 DEF TablesOK, PhaseSet
  <2>5. intents'[at].phase = "committed"
    BY <2>1 DEF PhaseSet
  <2>6. QED  BY ZenonT(60), <1>0, <2>1, <2>3, <2>4, <2>5 DEF RowsFollow, Row
<1>4. CASE MarkRolledBack
  BY ZenonT(60), <1>0, <1>4, MarkRolledBackWritten, Numbers
  DEF Idle, PhaseSet, RowsFollow, Row, Outside, Pending
<1>5. CASE MarkSwitched
  BY ZenonT(60), <1>0, <1>5, MarkSwitchedWritten, Numbers
  DEF PhaseSet, env, RowsFollow, Row, Outside, Pending
<1>6. CASE Beginning
  BY <1>0, <1>6, BeginningWritten, Numbers DEF NoIntent, Outside, RowsFollow, Row, Outside
<1>7. CASE Planning
  <2>1. /\ \A i \in Adoptions : i # at => intents'[i] = intents[i]
        /\ intents'[at].phase = "prepared" /\ intents[at].phase = "none" /\ at \in Adoptions
        /\ UNCHANGED <<row, receipts, scan>>
    BY <1>0, <1>7, PlanningWritten DEF Plan
  <2>2. QED  BY <1>0, <2>1 DEF RowsFollow, Row
<1>8. CASE \/ GoForward \/ GoBack \/ EnsureCurrent \/ Undo \/ PutBack \/ ClearCurrent \/ RemoveTree
           \/ PlanRefused \/ SwitchCurrent \/ Link \/ MoveAside \/ PutOurs \/ ApplyMutation
  BY <1>0, <1>8, WorkingWritten, Numbers
  DEF GoForward, Judging, Goto, GoBack, EnsureCurrent, Undo, PutBack, ClearCurrent,
      RemoveTree, PlanRefused, Exit, SwitchCurrent, Link, MoveAside, PutOurs, ApplyMutation,
      Recovering, Working, Outside, RowsFollow, Row, Outside
<1>9. CASE Editing
  BY <1>0, <1>9, EditingWritten, Numbers DEF RowsFollow, Row, Outside
<1>10. CASE Preview
  BY <1>0, <1>10, Numbers DEF Preview, journal, files, work, RowsFollow, Row, Outside
<1>11. CASE ScanReads
  BY <1>0, <1>11, Numbers DEF ScanReads, journal, files, work, RowsFollow, Row, Outside
<1>12. CASE ScanWrites
  BY <1>0, <1>12, Numbers DEF ScanWrites, journal, files, work, RowsFollow, Row, Outside
<1>13. CASE UNCHANGED vars
  BY <1>0, <1>13, Numbers
  DEF vars, journal, files, work, env, hist, RowsFollow, Row, Outside
<1>14. QED
  BY <1>1, <1>2, <1>3, <1>4, <1>5, <1>6, <1>7, <1>8, <1>9, <1>10, <1>11, <1>12, <1>13,
     NextCases
  DEF Working, Editing

\* Backups are of the current generation.
LEMMA BackupsKept ==
  ASSUME AdoptionInv, [Next]_vars
  PROVE  BackupsOfCurrent'
<1>0. TypeOK /\ TablesOK /\ (pc \notin {"free", "ready"} => at \in Adoptions)
     /\ AtHand /\ Applying /\ Undoing /\ BackupsOfCurrent /\ OursIsCurrent
  BY DEF AdoptionInv, HolderInv, FilesInv, TypeInv, TypeOK, TablesOK, IntentRow
<1>1. CASE Turning
  BY <1>0, <1>1, TurningWritten, Numbers
  DEF Idle, BackupsOfCurrent, UsesPath, files, Outside
<1>2. CASE Stopping
  BY <1>0, <1>2, StoppingWritten, Numbers
  DEF Idle, PhaseSet, BackupsOfCurrent, UsesPath, files, Outside
<1>3. CASE Finalize
  BY <1>0, <1>3, FinalizeWritten, Numbers
  DEF Idle, PhaseSet, BackupsOfCurrent, UsesPath, files, Outside
<1>4. CASE MarkRolledBack
  BY <1>0, <1>4, MarkRolledBackWritten, Numbers
  DEF Idle, PhaseSet, BackupsOfCurrent, UsesPath, files, Outside
<1>5. CASE MarkSwitched
  BY <1>0, <1>5, MarkSwitchedWritten, Numbers
  DEF PhaseSet, env, BackupsOfCurrent, UsesPath, files, Outside
<1>6. CASE Beginning
  BY <1>0, <1>6, BeginningWritten, Numbers
  DEF NoIntent, Outside, BackupsOfCurrent, UsesPath, files, Outside
<1>7. CASE Planning
  BY <1>0, <1>7, PlanningWritten, Numbers
  DEF Plan, BackupsOfCurrent, UsesPath, files, Outside
<1>8. CASE GoForward
  BY <1>0, <1>8, WorkingWritten, Numbers
  DEF GoForward, Judging, Goto, Working, Outside, BackupsOfCurrent, UsesPath, files,
      Outside, Applying, Undoing, TablesOK
<1>9. CASE GoBack
  BY <1>0, <1>9, WorkingWritten, Numbers
  DEF GoBack, Judging, Goto, Working, Outside, BackupsOfCurrent, UsesPath, files, Outside,
      Applying, Undoing, TablesOK
<1>10. CASE EnsureCurrent
  BY <1>0, <1>10, WorkingWritten, Numbers
  DEF EnsureCurrent, Goto, Working, Outside, BackupsOfCurrent, UsesPath, files, Outside,
      CurrentFits
<1>11. CASE Undo
  BY <1>0, <1>11, WorkingWritten, Numbers
  DEF Undo, Goto, Working, Outside, BackupsOfCurrent, UsesPath, files, Outside, Applying,
      Undoing, TablesOK
<1>12. CASE PutBack
  BY <1>0, <1>12, WorkingWritten, Numbers
  DEF PutBack, Goto, Working, Outside, BackupsOfCurrent, UsesPath, files, Outside, Applying,
      Undoing, TablesOK
<1>13. CASE ClearCurrent
  BY <1>0, <1>13, WorkingWritten, Numbers
  DEF ClearCurrent, Goto, Working, Outside, BackupsOfCurrent, UsesPath, files, Outside,
      Applying, Undoing, TablesOK
<1>14. CASE RemoveTree
  BY <1>0, <1>14, WorkingWritten, Numbers
  DEF RemoveTree, Goto, Working, Outside, BackupsOfCurrent, UsesPath, files, Outside,
      Applying, Undoing, TablesOK
<1>15. CASE PlanRefused
  BY <1>0, <1>15, WorkingWritten, Numbers
  DEF PlanRefused, Exit, Working, Outside, BackupsOfCurrent, UsesPath, files, Outside,
      Applying, Undoing, TablesOK
<1>16. CASE SwitchCurrent
  BY <1>0, <1>16, WorkingWritten, Numbers
  DEF SwitchCurrent, Goto, Working, Outside, BackupsOfCurrent, UsesPath, files, Outside,
      Applying, Undoing, TablesOK
<1>17. CASE Link
  BY <1>0, <1>17, WorkingWritten, Numbers
  DEF Link, Goto, Working, Outside, BackupsOfCurrent, UsesPath, files, Outside, Applying,
      Undoing, TablesOK
<1>18. CASE MoveAside
  BY <1>0, <1>18, WorkingWritten, Numbers
  DEF MoveAside, Goto, Working, Outside, BackupsOfCurrent, UsesPath, files, Outside,
      Applying, Undoing, TablesOK
<1>19. CASE PutOurs
  BY <1>0, <1>19, WorkingWritten, Numbers
  DEF PutOurs, Goto, Working, Outside, BackupsOfCurrent, UsesPath, files, Outside, Applying,
      Undoing, TablesOK
<1>20. CASE ApplyMutation
  BY <1>0, <1>20, WorkingWritten, Numbers
  DEF ApplyMutation, Recovering, Working, Outside, BackupsOfCurrent, UsesPath, files,
      Outside, Applying, Undoing, TablesOK
<1>21. CASE Editing
  BY <1>0, <1>21, EditingWritten, Numbers DEF BackupsOfCurrent, UsesPath, files, Outside
<1>22. CASE Preview
  BY <1>0, <1>22, Numbers
  DEF Preview, journal, files, work, BackupsOfCurrent, UsesPath, files, Outside
<1>23. CASE ScanReads
  BY <1>0, <1>23, Numbers
  DEF ScanReads, journal, files, work, BackupsOfCurrent, UsesPath, files, Outside
<1>24. CASE ScanWrites
  BY <1>0, <1>24, Numbers
  DEF ScanWrites, journal, files, work, BackupsOfCurrent, UsesPath, files, Outside
<1>25. CASE UNCHANGED vars
  BY <1>0, <1>25, Numbers
  DEF vars, journal, files, work, env, hist, BackupsOfCurrent, UsesPath, files, Outside
<1>26. QED
  BY <1>1, <1>2, <1>3, <1>4, <1>5, <1>6, <1>7, <1>8, <1>9, <1>10, <1>11, <1>12, <1>13,
     <1>14, <1>15, <1>16, <1>17, <1>18, <1>19, <1>20, <1>21, <1>22, <1>23, <1>24, <1>25,
     NextCases
  DEF Working, Editing

\* What was put at the path belongs to the current generation.
LEMMA OursKept ==
  ASSUME AdoptionInv, [Next]_vars
  PROVE  OursIsCurrent'
<1>0. TypeOK /\ TablesOK /\ (pc \notin {"free", "ready"} => at \in Adoptions)
     /\ AtHand /\ Applying /\ Undoing /\ BackupsOfCurrent /\ OursIsCurrent
  BY DEF AdoptionInv, HolderInv, FilesInv, TypeInv, TypeOK, TablesOK, IntentRow
<1>1. CASE Turning
  BY <1>0, <1>1, TurningWritten, Numbers DEF Idle, OursIsCurrent, UsesPath, files, Outside
<1>2. CASE Stopping
  BY <1>0, <1>2, StoppingWritten, Numbers
  DEF Idle, PhaseSet, OursIsCurrent, UsesPath, files, Outside
<1>3. CASE Finalize
  BY <1>0, <1>3, FinalizeWritten, Numbers
  DEF Idle, PhaseSet, OursIsCurrent, UsesPath, files, Outside
<1>4. CASE MarkRolledBack
  BY <1>0, <1>4, MarkRolledBackWritten, Numbers
  DEF Idle, PhaseSet, OursIsCurrent, UsesPath, files, Outside
<1>5. CASE MarkSwitched
  BY <1>0, <1>5, MarkSwitchedWritten, Numbers
  DEF PhaseSet, env, OursIsCurrent, UsesPath, files, Outside
<1>6. CASE Beginning
  BY <1>0, <1>6, BeginningWritten, Numbers
  DEF NoIntent, Outside, OursIsCurrent, UsesPath, files, Outside
<1>7. CASE Planning
  BY <1>0, <1>7, PlanningWritten, Numbers DEF Plan, OursIsCurrent, UsesPath, files, Outside
<1>8. CASE GoForward
  BY <1>0, <1>8, WorkingWritten, Numbers
  DEF GoForward, Judging, Goto, Working, Outside, OursIsCurrent, UsesPath, files, Outside,
      Applying, Undoing, TablesOK
<1>9. CASE GoBack
  BY <1>0, <1>9, WorkingWritten, Numbers
  DEF GoBack, Judging, Goto, Working, Outside, OursIsCurrent, UsesPath, files, Outside,
      Applying, Undoing, TablesOK
<1>10. CASE EnsureCurrent
  BY <1>0, <1>10, WorkingWritten, Numbers
  DEF EnsureCurrent, Goto, Working, Outside, OursIsCurrent, UsesPath, files, Outside,
      Applying, Undoing, TablesOK
<1>11. CASE Undo
  <2>1. UsesPath => PathState(at) # "conflict"
    BY <1>11 DEF Undo, MayUndo
  <2>2. intents[at].path # Ours
    BY <1>0, <1>11, Numbers DEF Undo, TablesOK, IntentRow
  <2>3. path' # Ours
    BY <1>0, <2>1, <2>2, <1>11, PathStates, Numbers DEF Undo, TakenOut, OursIsCurrent
  <2>4. QED  BY <2>3 DEF OursIsCurrent
<1>12. CASE PutBack
  BY <1>0, <1>12, WorkingWritten, Numbers
  DEF PutBack, Goto, Working, Outside, OursIsCurrent, UsesPath, files, Outside, Applying,
      Undoing, TablesOK
<1>13. CASE ClearCurrent
  BY <1>0, <1>13, WorkingWritten, Numbers
  DEF ClearCurrent, Goto, Working, Outside, OursIsCurrent, UsesPath, files, Outside,
      Applying, Undoing, TablesOK
<1>14. CASE RemoveTree
  BY <1>0, <1>14, WorkingWritten, Numbers
  DEF RemoveTree, Goto, Working, Outside, OursIsCurrent, UsesPath, files, Outside, Applying,
      Undoing, TablesOK
<1>15. CASE PlanRefused
  BY <1>0, <1>15, WorkingWritten, Numbers
  DEF PlanRefused, Exit, Working, Outside, OursIsCurrent, UsesPath, files, Outside,
      Applying, Undoing, TablesOK
<1>16. CASE SwitchCurrent
  BY <1>0, <1>16, WorkingWritten, Numbers
  DEF SwitchCurrent, Goto, Working, Outside, OursIsCurrent, UsesPath, files, Outside,
      Applying, Undoing, TablesOK
<1>17. CASE Link
  BY <1>0, <1>17, WorkingWritten, Numbers
  DEF Link, Goto, Working, Outside, OursIsCurrent, UsesPath, files, Outside, Applying,
      Undoing, TablesOK
<1>18. CASE MoveAside
  BY <1>0, <1>18, WorkingWritten, Numbers
  DEF MoveAside, Goto, Working, Outside, OursIsCurrent, UsesPath, files, Outside, Applying,
      Undoing, TablesOK
<1>19. CASE PutOurs
  BY <1>0, <1>19, WorkingWritten, Numbers
  DEF PutOurs, Goto, Working, Outside, OursIsCurrent, UsesPath, files, Outside, Applying,
      Undoing, TablesOK
<1>20. CASE ApplyMutation
  BY <1>0, <1>20, WorkingWritten, Numbers
  DEF ApplyMutation, Recovering, Working, Outside, OursIsCurrent, UsesPath, files, Outside,
      Applying, Undoing, TablesOK
<1>21. CASE Editing
  BY <1>0, <1>21, EditingWritten, Numbers DEF OursIsCurrent, UsesPath, files, Outside
<1>22. CASE Preview
  BY <1>0, <1>22, Numbers
  DEF Preview, journal, files, work, OursIsCurrent, UsesPath, files, Outside
<1>23. CASE ScanReads
  BY <1>0, <1>23, Numbers
  DEF ScanReads, journal, files, work, OursIsCurrent, UsesPath, files, Outside
<1>24. CASE ScanWrites
  BY <1>0, <1>24, Numbers
  DEF ScanWrites, journal, files, work, OursIsCurrent, UsesPath, files, Outside
<1>25. CASE UNCHANGED vars
  BY <1>0, <1>25, Numbers
  DEF vars, journal, files, work, env, hist, OursIsCurrent, UsesPath, files, Outside
<1>26. QED
  BY <1>1, <1>2, <1>3, <1>4, <1>5, <1>6, <1>7, <1>8, <1>9, <1>10, <1>11, <1>12, <1>13,
     <1>14, <1>15, <1>16, <1>17, <1>18, <1>19, <1>20, <1>21, <1>22, <1>23, <1>24, <1>25,
     NextCases
  DEF Working, Editing

\* Nothing is written over but what was installed meanwhile.
LEMMA ShimKept ==
  ASSUME AdoptionInv, [Next]_vars
  PROVE  ShimOverNothing'
<1>0. TypeOK /\ TablesOK /\ (pc \notin {"free", "ready"} => at \in Adoptions)
     /\ AtHand /\ Applying /\ BackupsOfCurrent /\ OursIsCurrent /\ ShimOverNothing
  BY DEF AdoptionInv, HolderInv, FilesInv, TypeInv, TypeOK, TablesOK, IntentRow
<1>1. CASE Turning
  BY <1>0, <1>1, TurningWritten, Numbers DEF Idle, ShimOverNothing, files, Outside, hist
<1>2. CASE Stopping
  BY <1>0, <1>2, StoppingWritten, Numbers
  DEF Idle, PhaseSet, ShimOverNothing, files, Outside, hist
<1>3. CASE Finalize
  BY <1>0, <1>3, FinalizeWritten, Numbers
  DEF Idle, PhaseSet, ShimOverNothing, files, Outside, hist
<1>4. CASE MarkRolledBack
  BY <1>0, <1>4, MarkRolledBackWritten, Numbers
  DEF Idle, PhaseSet, ShimOverNothing, files, Outside, hist
<1>5. CASE MarkSwitched
  BY <1>0, <1>5, MarkSwitchedWritten, Numbers
  DEF PhaseSet, env, ShimOverNothing, files, Outside, hist
<1>6. CASE Beginning
  BY <1>0, <1>6, BeginningWritten, Numbers
  DEF NoIntent, Outside, ShimOverNothing, files, Outside, hist
<1>7. CASE Planning
  BY <1>0, <1>7, PlanningWritten, Numbers
  DEF Plan, ShimOverNothing, files, Outside, hist, UsesPath
<1>8. CASE GoForward
  BY <1>0, <1>8, WorkingWritten, Numbers
  DEF GoForward, Judging, Goto, Working, Outside, ShimOverNothing, files, Outside, hist
<1>9. CASE GoBack
  BY <1>0, <1>9, WorkingWritten, Numbers
  DEF GoBack, Judging, Goto, Working, Outside, ShimOverNothing, files, Outside, hist
<1>10. CASE EnsureCurrent
  BY <1>0, <1>10, WorkingWritten, Numbers
  DEF EnsureCurrent, Goto, Working, Outside, ShimOverNothing, files, Outside, hist
<1>11. CASE Undo
  BY <1>0, <1>11, WorkingWritten, Numbers
  DEF Undo, Goto, Working, Outside, ShimOverNothing, files, Outside, hist
<1>12. CASE PutBack
  BY <1>0, <1>12, WorkingWritten, Numbers
  DEF PutBack, Goto, Working, Outside, ShimOverNothing, files, Outside, hist
<1>13. CASE ClearCurrent
  BY <1>0, <1>13, WorkingWritten, Numbers
  DEF ClearCurrent, Goto, Working, Outside, ShimOverNothing, files, Outside, hist
<1>14. CASE RemoveTree
  BY <1>0, <1>14, WorkingWritten, Numbers
  DEF RemoveTree, Goto, Working, Outside, ShimOverNothing, files, Outside, hist
<1>15. CASE PlanRefused
  BY <1>0, <1>15, WorkingWritten, Numbers
  DEF PlanRefused, Exit, Working, Outside, ShimOverNothing, files, Outside, hist
<1>16. CASE SwitchCurrent
  BY <1>0, <1>16, WorkingWritten, Numbers
  DEF SwitchCurrent, Goto, Working, Outside, ShimOverNothing, files, Outside, hist
<1>17. CASE Link
  BY <1>0, <1>17, WorkingWritten, Numbers
  DEF Link, Goto, Working, Outside, ShimOverNothing, files, Outside, hist
<1>18. CASE MoveAside
  BY <1>0, <1>18, WorkingWritten, Numbers
  DEF MoveAside, Goto, Working, Outside, ShimOverNothing, files, Outside, hist
<1>19. CASE PutOurs
  BY <1>0, <1>19, WorkingWritten, Numbers
  DEF PutOurs, Goto, Working, Outside, ShimOverNothing, files, Outside, hist
<1>20. CASE ApplyMutation
  BY <1>0, <1>20, WorkingWritten, Numbers
  DEF ApplyMutation, Recovering, Working, Outside, ShimOverNothing, files, Outside, hist
<1>21. CASE Editing
  <2>1. UNCHANGED <<pc, at, kind, intents>>
    BY <1>0, <1>21, EditingWritten
  <2>2. CASE \E v \in Contents \cup {Nothing} : EditPath(v)
    BY <1>0, <2>1, <2>2 DEF EditPath, ShimOverNothing
  <2>3. CASE \E i \in Adoptions : TakeBackup(i)
    <3>1. pc \notin {"journaled", "apply"}
      BY <1>0, <2>3, Numbers DEF TakeBackup, Applying, BackupsOfCurrent
    <3>2. QED  BY <2>1, <3>1 DEF ShimOverNothing
  <2>4. CASE \/ \E i \in Adoptions : EditTree(i)
             \/ \E t \in 1..MaxText, m \in BOOLEAN : EditConfig(t, m)
    BY <1>0, <2>1, <2>4 DEF EditTree, EditConfig, ShimOverNothing
  <2>5. QED  BY <2>2, <2>3, <2>4, <1>21 DEF Editing
<1>22. CASE Preview
  BY <1>0, <1>22, Numbers
  DEF Preview, journal, files, work, ShimOverNothing, files, Outside, hist
<1>23. CASE ScanReads
  BY <1>0, <1>23, Numbers
  DEF ScanReads, journal, files, work, ShimOverNothing, files, Outside, hist
<1>24. CASE ScanWrites
  BY <1>0, <1>24, Numbers
  DEF ScanWrites, journal, files, work, ShimOverNothing, files, Outside, hist
<1>25. CASE UNCHANGED vars
  BY <1>0, <1>25, Numbers
  DEF vars, journal, files, work, env, hist, ShimOverNothing, files, Outside, hist
<1>26. QED
  BY <1>1, <1>2, <1>3, <1>4, <1>5, <1>6, <1>7, <1>8, <1>9, <1>10, <1>11, <1>12, <1>13,
     <1>14, <1>15, <1>16, <1>17, <1>18, <1>19, <1>20, <1>21, <1>22, <1>23, <1>24, <1>25,
     NextCases
  DEF Working, Editing

\* Nothing of the user is lost.
LEMMA KeptKept ==
  ASSUME AdoptionInv, [Next]_vars
  PROVE  NothingOfTheUserIsLost'
<1>0. TypeOK /\ TablesOK /\ (pc \notin {"free", "ready"} => at \in Adoptions)
     /\ AtHand /\ Applying /\ Undoing /\ BackupsOfCurrent /\ OursIsCurrent /\ ShimOverNothing
     /\ NothingOfTheUserIsLost /\ owned \subseteq Contents
  BY DEF AdoptionInv, HolderInv, FilesInv, TypeInv, TypeOK, TablesOK, IntentRow
<1>1. CASE Turning
  BY <1>0, <1>1, TurningWritten, Numbers
  DEF Idle, NothingOfTheUserIsLost, files, Outside, hist
<1>2. CASE Stopping
  BY <1>0, <1>2, StoppingWritten, Numbers
  DEF Idle, PhaseSet, NothingOfTheUserIsLost, files, Outside, hist
<1>3. CASE Finalize
  BY <1>0, <1>3, FinalizeWritten, Numbers
  DEF Idle, PhaseSet, NothingOfTheUserIsLost, files, Outside, hist
<1>4. CASE MarkRolledBack
  BY <1>0, <1>4, MarkRolledBackWritten, Numbers
  DEF Idle, PhaseSet, NothingOfTheUserIsLost, files, Outside, hist
<1>5. CASE MarkSwitched
  BY <1>0, <1>5, MarkSwitchedWritten, Numbers
  DEF PhaseSet, env, NothingOfTheUserIsLost, files, Outside, hist
<1>6. CASE Beginning
  <2>1. UNCHANGED <<installed, owned, path, backup, config, text>>
    BY <1>0, <1>6, BeginningWritten DEF hist
  <2>2. QED  BY <1>0, <2>1 DEF NothingOfTheUserIsLost
<1>7. CASE Planning
  BY <1>0, <1>7, PlanningWritten, Numbers
  DEF Plan, NothingOfTheUserIsLost, files, Outside, hist
<1>8. CASE GoForward
  BY <1>0, <1>8, WorkingWritten, Numbers
  DEF GoForward, Judging, Goto, Working, Outside, NothingOfTheUserIsLost, files, Outside,
      hist, Applying, Undoing, TablesOK
<1>9. CASE GoBack
  BY <1>0, <1>9, WorkingWritten, Numbers
  DEF GoBack, Judging, Goto, Working, Outside, NothingOfTheUserIsLost, files, Outside, hist,
      Applying, Undoing, TablesOK
<1>10. CASE EnsureCurrent
  BY <1>0, <1>10, WorkingWritten, Numbers
  DEF EnsureCurrent, Goto, Working, Outside, NothingOfTheUserIsLost, files, Outside, hist,
      Applying, Undoing, TablesOK
<1>11. CASE Undo
  <2>1. path' = path \/ (path = Ours /\ path' = Nothing)
    BY <1>0, <1>11, PathStates DEF Undo, TakenOut
  <2>2. UNCHANGED <<backup, config, owned, text, installed>>
    BY <1>11 DEF Undo, hist
  <2>3. ASSUME NEW x \in owned, ~installed
        PROVE  x = path' \/ \E j \in Adoptions : x = backup'[j]
    BY <1>0, <2>1, <2>2, <2>3, Numbers DEF NothingOfTheUserIsLost, Nothing
  <2>4. QED  BY <1>0, <2>2, <2>3 DEF NothingOfTheUserIsLost
<1>12. CASE PutBack
  BY <1>0, <1>12, WorkingWritten, Numbers
  DEF PutBack, Goto, Working, Outside, NothingOfTheUserIsLost, files, Outside, hist,
      Applying, Undoing, TablesOK
<1>13. CASE ClearCurrent
  BY <1>0, <1>13, WorkingWritten, Numbers
  DEF ClearCurrent, Goto, Working, Outside, NothingOfTheUserIsLost, files, Outside, hist,
      Applying, Undoing, TablesOK
<1>14. CASE RemoveTree
  BY <1>0, <1>14, WorkingWritten, Numbers
  DEF RemoveTree, Goto, Working, Outside, NothingOfTheUserIsLost, files, Outside, hist,
      Applying, Undoing, TablesOK
<1>15. CASE PlanRefused
  BY <1>0, <1>15, WorkingWritten, Numbers
  DEF PlanRefused, Exit, Working, Outside, NothingOfTheUserIsLost, files, Outside, hist,
      Applying, Undoing, TablesOK
<1>16. CASE SwitchCurrent
  BY <1>0, <1>16, WorkingWritten, Numbers
  DEF SwitchCurrent, Goto, Working, Outside, NothingOfTheUserIsLost, files, Outside, hist,
      Applying, Undoing, TablesOK
<1>17. CASE Link
  BY <1>0, <1>17, WorkingWritten, Numbers
  DEF Link, Goto, Working, Outside, NothingOfTheUserIsLost, files, Outside, hist, Applying,
      Undoing, TablesOK
<1>18. CASE MoveAside
  BY <1>0, <1>18, WorkingWritten, Numbers
  DEF MoveAside, Goto, Working, Outside, NothingOfTheUserIsLost, files, Outside, hist,
      Applying, Undoing, TablesOK
<1>19. CASE PutOurs
  <2>1. path = Nothing \/ installed
    BY <1>0, <1>19 DEF PutOurs, ShimOverNothing
  <2>2. UNCHANGED <<backup, config, owned, text, installed>>
    BY <1>19 DEF PutOurs, hist
  <2>3. ASSUME NEW x \in owned, ~installed
        PROVE  x = path' \/ \E j \in Adoptions : x = backup'[j]
    BY <1>0, <2>1, <2>2, <2>3, Numbers DEF NothingOfTheUserIsLost, Nothing
  <2>4. QED  BY <1>0, <2>2, <2>3 DEF NothingOfTheUserIsLost
<1>20. CASE ApplyMutation
  <2>1. config'.text = config.text
    BY <1>0, <1>20 DEF ApplyMutation, Rewritten, TablesOK, IntentRow, Config, TypeOK
  <2>2. UNCHANGED <<path, backup, owned, text, installed>>
    BY <1>20 DEF ApplyMutation, hist
  <2>3. QED  BY <1>0, <2>1, <2>2 DEF NothingOfTheUserIsLost
<1>21. CASE Editing
  <2>1. CASE \E v \in Contents \cup {Nothing} : EditPath(v)
    BY <1>0, <2>1 DEF EditPath, NothingOfTheUserIsLost
  <2>2. ASSUME NEW i \in Adoptions, TakeBackup(i)  PROVE NothingOfTheUserIsLost'
    <3>1. /\ path \notin owned /\ path' = backup[i]
          /\ backup' = [backup EXCEPT ![i] = Nothing]
          /\ UNCHANGED <<config, owned, text, installed>>
      BY <1>0, <2>2, Numbers DEF TakeBackup, Nothing
    <3>2. \A j \in Adoptions : j # i => backup'[j] = backup[j]
      BY <1>0, <3>1 DEF TablesOK
    <3>3. ASSUME NEW x \in owned, ~installed
          PROVE  x = path' \/ \E j \in Adoptions : x = backup'[j]
      <4>1. PICK j \in Adoptions : x = backup[j]
        BY <1>0, <3>1, <3>3 DEF NothingOfTheUserIsLost
      <4>2. QED  BY <3>1, <3>2, <4>1
    <3>4. QED  BY <1>0, <3>1, <3>3 DEF NothingOfTheUserIsLost
  <2>3. CASE \E i \in Adoptions : EditTree(i)
    BY <1>0, <2>3 DEF EditTree, NothingOfTheUserIsLost
  <2>4. CASE \E t \in 1..MaxText, m \in BOOLEAN : EditConfig(t, m)
    BY <1>0, <2>4 DEF EditConfig, NothingOfTheUserIsLost
  <2>5. QED  BY <2>1, <2>2, <2>3, <2>4, <1>21 DEF Editing
<1>22. CASE Preview
  BY <1>0, <1>22, Numbers
  DEF Preview, journal, files, work, NothingOfTheUserIsLost, files, Outside, hist
<1>23. CASE ScanReads
  BY <1>0, <1>23, Numbers
  DEF ScanReads, journal, files, work, NothingOfTheUserIsLost, files, Outside, hist
<1>24. CASE ScanWrites
  BY <1>0, <1>24, Numbers
  DEF ScanWrites, journal, files, work, NothingOfTheUserIsLost, files, Outside, hist
<1>25. CASE UNCHANGED vars
  BY <1>0, <1>25, Numbers
  DEF vars, journal, files, work, env, hist, NothingOfTheUserIsLost, files, Outside, hist
<1>26. QED
  BY <1>1, <1>2, <1>3, <1>4, <1>5, <1>6, <1>7, <1>8, <1>9, <1>10, <1>11, <1>12, <1>13,
     <1>14, <1>15, <1>16, <1>17, <1>18, <1>19, <1>20, <1>21, <1>22, <1>23, <1>24, <1>25,
     NextCases
  DEF Working, Editing

\* A rollback leaves nothing behind.
LEMMA RollbackKept ==
  ASSUME AdoptionInv, [Next]_vars
  PROVE  RollbackIsWhole'
<1>0. TypeOK /\ TablesOK /\ (pc \notin {"free", "ready"} => at \in Adoptions)
     /\ AtHand /\ Applying /\ Undoing /\ RowsFollow /\ RollbackIsWhole
     /\ OursIsCurrent /\ row \in Row
  BY DEF AdoptionInv, HolderInv, FilesInv, TypeInv, TypeOK, TablesOK, IntentRow
<1>1. CASE Turning
  BY <1>0, <1>1, TurningWritten, Numbers DEF Idle, RollbackIsWhole, files, Outside, Pending
<1>2. CASE Stopping
  BY <1>0, <1>2, StoppingWritten, Numbers
  DEF Idle, PhaseSet, RollbackIsWhole, files, Outside, Pending
<1>3. CASE Finalize
  BY <1>0, <1>3, FinalizeWritten, Numbers
  DEF Idle, PhaseSet, RollbackIsWhole, files, Outside, Pending, RowsFollow, Row
<1>4. CASE MarkRolledBack
  BY <1>0, <1>4, MarkRolledBackWritten, Numbers
  DEF Idle, PhaseSet, RollbackIsWhole, files, Outside, Pending, RowsFollow, Row, Undoing
<1>5. CASE MarkSwitched
  BY ZenonT(60), <1>0, <1>5, MarkSwitchedWritten, Numbers
  DEF PhaseSet, env, RollbackIsWhole, files, Outside, Pending
<1>6. CASE Beginning
  BY <1>0, <1>6, BeginningWritten, Numbers
  DEF NoIntent, Outside, RollbackIsWhole, files, Outside, Pending
<1>7. CASE Planning
  BY <1>0, <1>7, PlanningWritten, Numbers DEF Plan, RollbackIsWhole, files, Outside, Pending
<1>8. CASE GoForward
  BY <1>0, <1>8, WorkingWritten, Numbers
  DEF GoForward, Judging, Goto, Working, Outside, RollbackIsWhole, files, Outside, Pending,
      AtHand, Pending, TablesOK
<1>9. CASE GoBack
  BY <1>0, <1>9, WorkingWritten, Numbers
  DEF GoBack, Judging, Goto, Working, Outside, RollbackIsWhole, files, Outside, Pending,
      AtHand, Pending, TablesOK
<1>10. CASE EnsureCurrent
  BY <1>0, <1>10, WorkingWritten, Numbers
  DEF EnsureCurrent, Goto, Working, Outside, RollbackIsWhole, files, Outside, Pending,
      AtHand, Pending, TablesOK
<1>11. CASE Undo
  BY <1>0, <1>11, WorkingWritten, Numbers
  DEF Undo, Goto, Working, Outside, RollbackIsWhole, files, Outside, Pending, AtHand,
      Pending, TablesOK
<1>12. CASE PutBack
  BY <1>0, <1>12, WorkingWritten, Numbers
  DEF PutBack, Goto, Working, Outside, RollbackIsWhole, files, Outside, Pending, AtHand,
      Pending, TablesOK
<1>13. CASE ClearCurrent
  BY <1>0, <1>13, WorkingWritten, Numbers
  DEF ClearCurrent, Goto, Working, Outside, RollbackIsWhole, files, Outside, Pending,
      AtHand, Pending, TablesOK
<1>14. CASE RemoveTree
  BY <1>0, <1>14, WorkingWritten, Numbers
  DEF RemoveTree, Goto, Working, Outside, RollbackIsWhole, files, Outside, Pending, AtHand,
      Pending, TablesOK
<1>15. CASE PlanRefused
  BY <1>0, <1>15, WorkingWritten, Numbers
  DEF PlanRefused, Exit, Working, Outside, RollbackIsWhole, files, Outside, Pending, AtHand,
      Pending, TablesOK
<1>16. CASE SwitchCurrent
  BY <1>0, <1>16, WorkingWritten, Numbers
  DEF SwitchCurrent, Goto, Working, Outside, RollbackIsWhole, files, Outside, Pending,
      AtHand, Pending, TablesOK
<1>17. CASE Link
  BY <1>0, <1>17, WorkingWritten, Numbers
  DEF Link, Goto, Working, Outside, RollbackIsWhole, files, Outside, Pending, AtHand,
      Pending, TablesOK
<1>18. CASE MoveAside
  BY <1>0, <1>18, WorkingWritten, Numbers
  DEF MoveAside, Goto, Working, Outside, RollbackIsWhole, files, Outside, Pending, AtHand,
      Pending, TablesOK
<1>19. CASE PutOurs
  BY <1>0, <1>19, WorkingWritten, Numbers
  DEF PutOurs, Goto, Working, Outside, RollbackIsWhole, files, Outside, Pending, AtHand,
      Pending, TablesOK
<1>20. CASE ApplyMutation
  BY <1>0, <1>20, WorkingWritten, Numbers
  DEF ApplyMutation, Recovering, Working, Outside, RollbackIsWhole, files, Outside, Pending,
      AtHand, Pending, TablesOK
<1>21. CASE Editing
  BY <1>0, <1>21, EditingWritten, Numbers DEF RollbackIsWhole, files, Outside, Pending
<1>22. CASE Preview
  BY <1>0, <1>22, Numbers
  DEF Preview, journal, files, work, RollbackIsWhole, files, Outside, Pending
<1>23. CASE ScanReads
  BY <1>0, <1>23, Numbers
  DEF ScanReads, journal, files, work, RollbackIsWhole, files, Outside, Pending
<1>24. CASE ScanWrites
  BY <1>0, <1>24, Numbers
  DEF ScanWrites, journal, files, work, RollbackIsWhole, files, Outside, Pending, RowsFollow
<1>25. CASE UNCHANGED vars
  BY <1>0, <1>25, Numbers
  DEF vars, journal, files, work, env, hist, RollbackIsWhole, files, Outside, Pending
<1>26. QED
  BY <1>1, <1>2, <1>3, <1>4, <1>5, <1>6, <1>7, <1>8, <1>9, <1>10, <1>11, <1>12, <1>13,
     <1>14, <1>15, <1>16, <1>17, <1>18, <1>19, <1>20, <1>21, <1>22, <1>23, <1>24, <1>25,
     NextCases
  DEF Working, Editing

\* What the recovery has looked at is so, or it is late.
LEMMA LookedKept ==
  ASSUME AdoptionInv, [Next]_vars
  PROVE  Looked'
<1>0. TypeOK /\ TablesOK /\ (pc \notin {"free", "ready"} => at \in Adoptions)
     /\ AtHand /\ Applying /\ OursIsCurrent /\ Looked
  BY DEF AdoptionInv, HolderInv, FilesInv, TypeInv, TypeOK, TablesOK, IntentRow
<1>1. CASE Turning
  BY <1>0, <1>1, TurningWritten, Numbers DEF Idle, Looked, files, Outside, hist
<1>2. CASE Stopping
  BY <1>0, <1>2, StoppingWritten, Numbers DEF Idle, PhaseSet, Looked, files, Outside, hist
<1>3. CASE Finalize
  BY <1>0, <1>3, FinalizeWritten, Numbers DEF Idle, PhaseSet, Looked, files, Outside, hist
<1>4. CASE MarkRolledBack
  BY <1>0, <1>4, MarkRolledBackWritten, Numbers
  DEF Idle, PhaseSet, Looked, files, Outside, hist
<1>5. CASE MarkSwitched
  BY <1>0, <1>5, MarkSwitchedWritten, Numbers
  DEF PhaseSet, env, Looked, files, Outside, hist, AllAfter, PathState, InstallState,
      ShimState, ConfigState, Rewrites, Rewritten, UsesPath, UsesConfig
<1>6. CASE Beginning
  BY <1>0, <1>6, BeginningWritten, Numbers
  DEF NoIntent, Outside, Looked, files, Outside, hist
<1>7. CASE Planning
  BY <1>0, <1>7, PlanningWritten, Numbers DEF Plan, Looked, files, Outside, hist
<1>8. CASE GoForward
  BY <1>0, <1>8, WorkingWritten, Numbers
  DEF GoForward, Judging, Goto, Working, Outside, Looked, files, Outside, hist, AllAfter,
      PathState, InstallState, ShimState, ConfigState, Rewrites, Rewritten, UsesPath,
      UsesConfig
<1>9. CASE GoBack
  BY <1>0, <1>9, WorkingWritten, Numbers
  DEF GoBack, Judging, Goto, Working, Outside, Looked, files, Outside, hist
<1>10. CASE EnsureCurrent
  BY <1>0, <1>10, WorkingWritten, Numbers
  DEF EnsureCurrent, Goto, Working, Outside, Looked, files, Outside, hist, CurrentFits,
      AllAfter, PathState, InstallState, ShimState, ConfigState, Rewrites, Rewritten,
      UsesPath, UsesConfig
<1>11. CASE Undo
  BY <1>0, <1>11, WorkingWritten, Numbers
  DEF Undo, Goto, Working, Outside, Looked, files, Outside, hist
<1>12. CASE PutBack
  BY <1>0, <1>12, WorkingWritten, Numbers
  DEF PutBack, Goto, Working, Outside, Looked, files, Outside, hist
<1>13. CASE ClearCurrent
  BY <1>0, <1>13, WorkingWritten, Numbers
  DEF ClearCurrent, Goto, Working, Outside, Looked, files, Outside, hist
<1>14. CASE RemoveTree
  BY <1>0, <1>14, WorkingWritten, Numbers
  DEF RemoveTree, Goto, Working, Outside, Looked, files, Outside, hist
<1>15. CASE PlanRefused
  BY <1>0, <1>15, WorkingWritten, Numbers
  DEF PlanRefused, Exit, Working, Outside, Looked, files, Outside, hist
<1>16. CASE SwitchCurrent
  BY <1>0, <1>16, WorkingWritten, Numbers
  DEF SwitchCurrent, Goto, Working, Outside, Looked, files, Outside, hist
<1>17. CASE Link
  BY <1>0, <1>17, WorkingWritten, Numbers
  DEF Link, Goto, Working, Outside, Looked, files, Outside, hist
<1>18. CASE MoveAside
  BY <1>0, <1>18, WorkingWritten, Numbers
  DEF MoveAside, Goto, Working, Outside, Looked, files, Outside, hist
<1>19. CASE PutOurs
  BY <1>0, <1>19, WorkingWritten, Numbers
  DEF PutOurs, Goto, Working, Outside, Looked, files, Outside, hist
<1>20. CASE ApplyMutation
  BY <1>0, <1>20, WorkingWritten, Numbers
  DEF ApplyMutation, Recovering, Working, Outside, Looked, files, Outside, hist
<1>21. CASE Editing
  BY <1>0, <1>21, EditingWritten, Numbers DEF Looked, files, Outside, hist
<1>22. CASE Preview
  BY <1>0, <1>22, Numbers
  DEF Preview, journal, files, work, Looked, files, Outside, hist, AllAfter, PathState,
      InstallState, ShimState, ConfigState, Rewrites, Rewritten, UsesPath, UsesConfig
<1>23. CASE ScanReads
  BY <1>0, <1>23, Numbers
  DEF ScanReads, journal, files, work, Looked, files, Outside, hist, AllAfter, PathState,
      InstallState, ShimState, ConfigState, Rewrites, Rewritten, UsesPath, UsesConfig
<1>24. CASE ScanWrites
  BY <1>0, <1>24, Numbers
  DEF ScanWrites, journal, files, work, Looked, files, Outside, hist, AllAfter, PathState,
      InstallState, ShimState, ConfigState, Rewrites, Rewritten, UsesPath, UsesConfig
<1>25. CASE UNCHANGED vars
  BY <1>0, <1>25, Numbers
  DEF vars, journal, files, work, env, hist, Looked, files, Outside, hist, AllAfter,
      PathState, InstallState, ShimState, ConfigState, Rewrites, Rewritten, UsesPath,
      UsesConfig
<1>26. QED
  BY <1>1, <1>2, <1>3, <1>4, <1>5, <1>6, <1>7, <1>8, <1>9, <1>10, <1>11, <1>12, <1>13,
     <1>14, <1>15, <1>16, <1>17, <1>18, <1>19, <1>20, <1>21, <1>22, <1>23, <1>24, <1>25,
     NextCases
  DEF Working, Editing

\* Every row of the journal, of the generations and of the receipts has its type.
LEMMA TablesKept ==
  ASSUME AdoptionInv, [Next]_vars
  PROVE  TablesOK'
<1>0. TypeOK
     /\ AtHand /\ Applying /\ OursIsCurrent /\ BackupsOfCurrent
     /\ (pc \notin {"free", "ready"} => at \in Adoptions) /\ TablesOK /\ path \in 0..Ours
  BY DEF AdoptionInv, HolderInv, FilesInv, TypeInv, TypeOK, TablesOK, IntentRow, Place,
         WorkOK, FilesOK, OutsideOK, HistOK
<1>1. CASE Turning
  BY <1>0, <1>1, TurningWritten, Numbers DEF Idle, TablesOK, files
<1>2. CASE Stopping
  BY <1>0, <1>2, StoppingWritten, Numbers DEF Idle, PhaseSet, TablesOK, files
<1>3. CASE Finalize
  <2>1. /\ at \in Adoptions
        /\ receipts' = [receipts EXCEPT ![at] = Append(receipts[at], "succeeded")]
        /\ intents' \in [Adoptions -> IntentRow] /\ UNCHANGED files
    BY <1>0, <1>3, FinalizeWritten
  <2>2. Append(receipts[at], "succeeded") \in Seq({"succeeded"})
    BY <1>0, <2>1 DEF TablesOK
  <2>3. QED  BY <1>0, <2>1, <2>2 DEF TablesOK, files
<1>4. CASE MarkRolledBack
  BY <1>0, <1>4, MarkRolledBackWritten, Numbers DEF Idle, PhaseSet, TablesOK, files
<1>5. CASE MarkSwitched
  BY <1>0, <1>5, MarkSwitchedWritten, Numbers DEF PhaseSet, env, TablesOK, files
<1>6. CASE Beginning
  BY <1>0, <1>6, BeginningWritten, Numbers DEF NoIntent, Outside, TablesOK, files
<1>7. CASE Planning
  BY <1>0, <1>7, PlanningWritten, Numbers DEF Plan, TablesOK, files
<1>8. CASE GoForward
  BY <1>0, <1>8, WorkingWritten, Numbers
  DEF GoForward, Judging, Goto, Working, Outside, TablesOK, files
<1>9. CASE GoBack
  BY <1>0, <1>9, WorkingWritten, Numbers
  DEF GoBack, Judging, Goto, Working, Outside, TablesOK, files
<1>10. CASE EnsureCurrent
  BY <1>0, <1>10, WorkingWritten, Numbers
  DEF EnsureCurrent, Goto, Working, Outside, TablesOK, files
<1>11. CASE Undo
  BY <1>0, <1>11, WorkingWritten, Numbers DEF Undo, Goto, Working, Outside, TablesOK, files
<1>12. CASE PutBack
  BY <1>0, <1>12, WorkingWritten, Numbers
  DEF PutBack, Goto, Working, Outside, TablesOK, files
<1>13. CASE ClearCurrent
  BY <1>0, <1>13, WorkingWritten, Numbers
  DEF ClearCurrent, Goto, Working, Outside, TablesOK, files
<1>14. CASE RemoveTree
  BY <1>0, <1>14, WorkingWritten, Numbers
  DEF RemoveTree, Goto, Working, Outside, TablesOK, files
<1>15. CASE PlanRefused
  BY <1>0, <1>15, WorkingWritten, Numbers
  DEF PlanRefused, Exit, Working, Outside, TablesOK, files
<1>16. CASE SwitchCurrent
  BY <1>0, <1>16, WorkingWritten, Numbers
  DEF SwitchCurrent, Goto, Working, Outside, TablesOK, files
<1>17. CASE Link
  BY <1>0, <1>17, WorkingWritten, Numbers DEF Link, Goto, Working, Outside, TablesOK, files
<1>18. CASE MoveAside
  BY <1>0, <1>18, WorkingWritten, Numbers
  DEF MoveAside, Goto, Working, Outside, TablesOK, files, OursIsCurrent, Contents, Ours,
      Nothing
<1>19. CASE PutOurs
  BY <1>0, <1>19, WorkingWritten, Numbers
  DEF PutOurs, Goto, Working, Outside, TablesOK, files
<1>20. CASE ApplyMutation
  BY <1>0, <1>20, WorkingWritten, Numbers
  DEF ApplyMutation, Recovering, Working, Outside, TablesOK, files
<1>21. CASE Editing
  BY <1>0, <1>21, EditingWritten, Numbers DEF TablesOK, files
<1>22. CASE Preview
  BY <1>0, <1>22, Numbers DEF Preview, journal, files, work, TablesOK, files
<1>23. CASE ScanReads
  BY <1>0, <1>23, Numbers DEF ScanReads, journal, files, work, TablesOK, files
<1>24. CASE ScanWrites
  BY <1>0, <1>24, Numbers DEF ScanWrites, journal, files, work, TablesOK, files
<1>25. CASE UNCHANGED vars
  BY <1>0, <1>25, Numbers DEF vars, journal, files, work, env, hist, TablesOK, files
<1>26. QED
  BY <1>1, <1>2, <1>3, <1>4, <1>5, <1>6, <1>7, <1>8, <1>9, <1>10, <1>11, <1>12, <1>13,
     <1>14, <1>15, <1>16, <1>17, <1>18, <1>19, <1>20, <1>21, <1>22, <1>23, <1>24, <1>25,
     NextCases
  DEF Working, Editing

\* The holder is at one of the steps of its program.
LEMMA PlaceKept ==
  ASSUME AdoptionInv, [Next]_vars
  PROVE  (pc \in Place)'
<1>0. TypeOK
     /\ AtHand /\ Applying /\ OursIsCurrent /\ BackupsOfCurrent
     /\ (pc \notin {"free", "ready"} => at \in Adoptions) /\ pc \in Place
  BY DEF AdoptionInv, HolderInv, FilesInv, TypeInv, TypeOK, TablesOK, IntentRow, Place,
         WorkOK, FilesOK, OutsideOK, HistOK
<1>1. CASE Turning
  BY <1>0, <1>1, TurningWritten, Numbers DEF Idle, Idle, Place
<1>2. CASE Stopping
  BY <1>0, <1>2, StoppingWritten, Numbers DEF Idle, PhaseSet, Idle, Place
<1>3. CASE Finalize
  BY <1>0, <1>3, FinalizeWritten, Numbers DEF Idle, PhaseSet, Idle, Place
<1>4. CASE MarkRolledBack
  BY <1>0, <1>4, MarkRolledBackWritten, Numbers DEF Idle, PhaseSet, Idle, Place
<1>5. CASE MarkSwitched
  BY <1>0, <1>5, MarkSwitchedWritten, Numbers DEF PhaseSet, env, Idle, Place
<1>6. CASE Beginning
  BY <1>0, <1>6, BeginningWritten, Numbers DEF NoIntent, Outside, Idle, Place
<1>7. CASE Planning
  BY <1>0, <1>7, PlanningWritten, Numbers DEF Plan, Idle, Place
<1>8. CASE GoForward
  BY <1>0, <1>8, WorkingWritten, Numbers
  DEF GoForward, Judging, Goto, Working, Outside, Idle, Place
<1>9. CASE GoBack
  BY <1>0, <1>9, WorkingWritten, Numbers
  DEF GoBack, Judging, Goto, Working, Outside, Idle, Place
<1>10. CASE EnsureCurrent
  BY <1>0, <1>10, WorkingWritten, Numbers
  DEF EnsureCurrent, Goto, Working, Outside, Idle, Place
<1>11. CASE Undo
  BY <1>0, <1>11, WorkingWritten, Numbers DEF Undo, Goto, Working, Outside, Idle, Place
<1>12. CASE PutBack
  BY <1>0, <1>12, WorkingWritten, Numbers DEF PutBack, Goto, Working, Outside, Idle, Place
<1>13. CASE ClearCurrent
  BY <1>0, <1>13, WorkingWritten, Numbers
  DEF ClearCurrent, Goto, Working, Outside, Idle, Place
<1>14. CASE RemoveTree
  BY <1>0, <1>14, WorkingWritten, Numbers
  DEF RemoveTree, Goto, Working, Outside, Idle, Place
<1>15. CASE PlanRefused
  BY <1>0, <1>15, WorkingWritten, Numbers
  DEF PlanRefused, Exit, Working, Outside, Idle, Place
<1>16. CASE SwitchCurrent
  BY <1>0, <1>16, WorkingWritten, Numbers
  DEF SwitchCurrent, Goto, Working, Outside, Idle, Place
<1>17. CASE Link
  BY <1>0, <1>17, WorkingWritten, Numbers DEF Link, Goto, Working, Outside, Idle, Place
<1>18. CASE MoveAside
  BY <1>0, <1>18, WorkingWritten, Numbers DEF MoveAside, Goto, Working, Outside, Idle, Place
<1>19. CASE PutOurs
  BY <1>0, <1>19, WorkingWritten, Numbers DEF PutOurs, Goto, Working, Outside, Idle, Place
<1>20. CASE ApplyMutation
  BY <1>0, <1>20, WorkingWritten, Numbers
  DEF ApplyMutation, Recovering, Working, Outside, Idle, Place
<1>21. CASE Editing
  BY <1>0, <1>21, EditingWritten, Numbers DEF Idle, Place
<1>22. CASE Preview
  BY <1>0, <1>22, Numbers DEF Preview, journal, files, work, Idle, Place
<1>23. CASE ScanReads
  BY <1>0, <1>23, Numbers DEF ScanReads, journal, files, work, Idle, Place
<1>24. CASE ScanWrites
  BY <1>0, <1>24, Numbers DEF ScanWrites, journal, files, work, Idle, Place
<1>25. CASE UNCHANGED vars
  BY <1>0, <1>25, Numbers DEF vars, journal, files, work, env, hist, Idle, Place
<1>26. QED
  BY <1>1, <1>2, <1>3, <1>4, <1>5, <1>6, <1>7, <1>8, <1>9, <1>10, <1>11, <1>12, <1>13,
     <1>14, <1>15, <1>16, <1>17, <1>18, <1>19, <1>20, <1>21, <1>22, <1>23, <1>24, <1>25,
     NextCases
  DEF Working, Editing

\* The holder's adoption, those it has left and its tries have their types.
LEMMA WorkKept ==
  ASSUME AdoptionInv, [Next]_vars
  PROVE  WorkOK'
<1>0. TypeOK
     /\ AtHand /\ Applying /\ OursIsCurrent /\ BackupsOfCurrent
     /\ (pc \notin {"free", "ready"} => at \in Adoptions) /\ WorkOK
  BY DEF AdoptionInv, HolderInv, FilesInv, TypeInv, TypeOK, TablesOK, IntentRow, Place,
         WorkOK, FilesOK, OutsideOK, HistOK
<1>1. CASE Turning
  BY <1>0, <1>1, TurningWritten, Numbers DEF Idle, WorkOK
<1>2. CASE Stopping
  BY <1>0, <1>2, StoppingWritten, Numbers DEF Idle, PhaseSet, WorkOK
<1>3. CASE Finalize
  BY <1>0, <1>3, FinalizeWritten, Numbers DEF Idle, PhaseSet, WorkOK
<1>4. CASE MarkRolledBack
  BY <1>0, <1>4, MarkRolledBackWritten, Numbers DEF Idle, PhaseSet, WorkOK
<1>5. CASE MarkSwitched
  BY <1>0, <1>5, MarkSwitchedWritten, Numbers DEF PhaseSet, env, WorkOK
<1>6. CASE Beginning
  BY <1>0, <1>6, BeginningWritten, Numbers DEF NoIntent, Outside, WorkOK
<1>7. CASE Planning
  BY <1>0, <1>7, PlanningWritten, Numbers DEF Plan, WorkOK
<1>8. CASE Working
  BY <1>0, <1>8, WorkingWritten, Numbers DEF WorkOK
<1>9. CASE Editing
  BY <1>0, <1>9, EditingWritten, Numbers DEF WorkOK
<1>10. CASE Preview
  BY <1>0, <1>10, Numbers DEF Preview, journal, files, work, WorkOK
<1>11. CASE ScanReads
  BY <1>0, <1>11, Numbers DEF ScanReads, journal, files, work, WorkOK
<1>12. CASE ScanWrites
  BY <1>0, <1>12, Numbers DEF ScanWrites, journal, files, work, WorkOK
<1>13. CASE UNCHANGED vars
  BY <1>0, <1>13, Numbers DEF vars, journal, files, work, env, hist, WorkOK
<1>14. QED
  BY <1>1, <1>2, <1>3, <1>4, <1>5, <1>6, <1>7, <1>8, <1>9, <1>10, <1>11, <1>12, <1>13,
     NextCases
  DEF Working, Editing

\* The current generation, the path and the host config have their types.
LEMMA FilesKept ==
  ASSUME AdoptionInv, [Next]_vars
  PROVE  FilesOK'
<1>0. TypeOK
     /\ AtHand /\ Applying /\ OursIsCurrent /\ BackupsOfCurrent
     /\ (pc \notin {"free", "ready"} => at \in Adoptions) /\ TablesOK /\ FilesOK
  BY DEF AdoptionInv, HolderInv, FilesInv, TypeInv, TypeOK, TablesOK, IntentRow, Place,
         WorkOK, FilesOK, OutsideOK, HistOK
<1>1. CASE Turning
  BY <1>0, <1>1, TurningWritten, Numbers DEF Idle, FilesOK, files
<1>2. CASE Stopping
  BY <1>0, <1>2, StoppingWritten, Numbers DEF Idle, PhaseSet, FilesOK, files
<1>3. CASE Finalize
  BY <1>0, <1>3, FinalizeWritten, Numbers DEF Idle, PhaseSet, FilesOK, files
<1>4. CASE MarkRolledBack
  BY <1>0, <1>4, MarkRolledBackWritten, Numbers DEF Idle, PhaseSet, FilesOK, files
<1>5. CASE MarkSwitched
  BY <1>0, <1>5, MarkSwitchedWritten, Numbers DEF PhaseSet, env, FilesOK, files
<1>6. CASE Beginning
  BY <1>0, <1>6, BeginningWritten, Numbers DEF NoIntent, Outside, FilesOK, files
<1>7. CASE Planning
  BY <1>0, <1>7, PlanningWritten, Numbers DEF Plan, FilesOK, files
<1>8. CASE GoForward
  BY <1>0, <1>8, WorkingWritten, Numbers
  DEF GoForward, Judging, Goto, Working, Outside, FilesOK, files
<1>9. CASE GoBack
  BY <1>0, <1>9, WorkingWritten, Numbers
  DEF GoBack, Judging, Goto, Working, Outside, FilesOK, files
<1>10. CASE EnsureCurrent
  BY <1>0, <1>10, WorkingWritten, Numbers
  DEF EnsureCurrent, Goto, Working, Outside, FilesOK, files
<1>11. CASE Undo
  BY <1>0, <1>11, WorkingWritten, Numbers
  DEF Undo, Goto, Working, Outside, FilesOK, files, TakenOut
<1>12. CASE PutBack
  BY <1>0, <1>12, WorkingWritten, Numbers
  DEF PutBack, Goto, Working, Outside, FilesOK, files, TablesOK
<1>13. CASE ClearCurrent
  BY <1>0, <1>13, WorkingWritten, Numbers
  DEF ClearCurrent, Goto, Working, Outside, FilesOK, files
<1>14. CASE RemoveTree
  BY <1>0, <1>14, WorkingWritten, Numbers
  DEF RemoveTree, Goto, Working, Outside, FilesOK, files
<1>15. CASE PlanRefused
  BY <1>0, <1>15, WorkingWritten, Numbers
  DEF PlanRefused, Exit, Working, Outside, FilesOK, files
<1>16. CASE SwitchCurrent
  BY <1>0, <1>16, WorkingWritten, Numbers
  DEF SwitchCurrent, Goto, Working, Outside, FilesOK, files
<1>17. CASE Link
  BY <1>0, <1>17, WorkingWritten, Numbers DEF Link, Goto, Working, Outside, FilesOK, files
<1>18. CASE MoveAside
  BY <1>0, <1>18, WorkingWritten, Numbers
  DEF MoveAside, Goto, Working, Outside, FilesOK, files
<1>19. CASE PutOurs
  BY <1>0, <1>19, WorkingWritten, Numbers
  DEF PutOurs, Goto, Working, Outside, FilesOK, files
<1>20. CASE ApplyMutation
  BY <1>0, <1>20, WorkingWritten, Numbers
  DEF ApplyMutation, Recovering, Working, Outside, FilesOK, files, TablesOK, IntentRow,
      Config, Rewritten
<1>21. CASE Editing
  <2>1. path' \in 0..Ours /\ current' = current
    BY <1>0, <1>21, EditingWritten, Numbers DEF FilesOK
  <2>2. \/ config' = config
        \/ \E t \in 1..MaxText, m \in BOOLEAN : config' = [text |-> t, managed |-> m]
    BY <1>21 DEF Editing, EditPath, TakeBackup, EditTree, EditConfig
  <2>3. config' \in Config
    BY <1>0, <2>2, BoundsAssumption DEF FilesOK, Config
  <2>4. QED  BY <1>0, <2>1, <2>3 DEF FilesOK
<1>22. CASE Preview
  BY <1>0, <1>22, Numbers DEF Preview, journal, files, work, FilesOK, files
<1>23. CASE ScanReads
  BY <1>0, <1>23, Numbers DEF ScanReads, journal, files, work, FilesOK, files
<1>24. CASE ScanWrites
  BY <1>0, <1>24, Numbers DEF ScanWrites, journal, files, work, FilesOK, files
<1>25. CASE UNCHANGED vars
  BY <1>0, <1>25, Numbers DEF vars, journal, files, work, env, hist, FilesOK, files
<1>26. QED
  BY <1>1, <1>2, <1>3, <1>4, <1>5, <1>6, <1>7, <1>8, <1>9, <1>10, <1>11, <1>12, <1>13,
     <1>14, <1>15, <1>16, <1>17, <1>18, <1>19, <1>20, <1>21, <1>22, <1>23, <1>24, <1>25,
     NextCases
  DEF Working, Editing

\* What the user, the installer and the inventory have or count has its type.
LEMMA OutsideKept ==
  ASSUME AdoptionInv, [Next]_vars
  PROVE  OutsideOK'
<1>0. TypeOK
     /\ AtHand /\ Applying /\ OursIsCurrent /\ BackupsOfCurrent
     /\ (pc \notin {"free", "ready"} => at \in Adoptions) /\ OutsideOK /\ FilesOK
  BY DEF AdoptionInv, HolderInv, FilesInv, TypeInv, TypeOK, TablesOK, IntentRow, Place,
         WorkOK, FilesOK, OutsideOK, HistOK
<1>1. CASE Turning
  BY <1>0, <1>1, TurningWritten, Numbers, BoundsAssumption
  DEF Idle, OutsideOK, Outside, env, hist, Row
<1>2. CASE Stopping
  BY <1>0, <1>2, StoppingWritten, Numbers, BoundsAssumption
  DEF Idle, PhaseSet, OutsideOK, Outside, env, hist, Row
<1>3. CASE Finalize
  BY <1>0, <1>3, FinalizeWritten, Numbers, BoundsAssumption
  DEF Idle, PhaseSet, OutsideOK, Outside, env, hist, Row
<1>4. CASE MarkRolledBack
  BY <1>0, <1>4, MarkRolledBackWritten, Numbers, BoundsAssumption
  DEF Idle, PhaseSet, OutsideOK, Outside, env, hist, Row
<1>5. CASE MarkSwitched
  BY <1>0, <1>5, MarkSwitchedWritten, Numbers, BoundsAssumption
  DEF PhaseSet, env, OutsideOK, Outside, env, hist, Row
<1>6. CASE Beginning
  BY <1>0, <1>6, BeginningWritten, Numbers, BoundsAssumption
  DEF NoIntent, Outside, OutsideOK, Outside, env, hist, Row
<1>7. CASE Planning
  <2>1. NoPreview \in [path : 0..Ours, config : Config]
    BY Numbers, BoundsAssumption DEF NoPreview, NoConfig, Config
  <2>2. shown' = NoPreview /\ UNCHANGED <<kind, native, row, scan, crashes, edits, scans>>
    BY <1>0, <1>7, PlanningWritten
  <2>3. QED  BY <1>0, <2>1, <2>2 DEF OutsideOK
<1>8. CASE Working
  BY <1>0, <1>8, WorkingWritten, Numbers, BoundsAssumption
  DEF OutsideOK, Outside, env, hist, Row
<1>9. CASE Editing
  BY <1>0, <1>9, EditingWritten, Numbers, BoundsAssumption
  DEF OutsideOK, Outside, env, hist, Row
<1>10. CASE Preview
  BY <1>0, <1>10, Numbers, BoundsAssumption
  DEF Preview, journal, files, work, OutsideOK, Outside, env, hist, Row, NoConfig, Config,
      FilesOK
<1>11. CASE ScanReads
  BY <1>0, <1>11, Numbers, BoundsAssumption
  DEF ScanReads, journal, files, work, OutsideOK, Outside, env, hist, Row
<1>12. CASE ScanWrites
  BY <1>0, <1>12, Numbers, BoundsAssumption
  DEF ScanWrites, journal, files, work, OutsideOK, Outside, env, hist, Row
<1>13. CASE UNCHANGED vars
  BY <1>0, <1>13, Numbers, BoundsAssumption
  DEF vars, journal, files, work, env, hist, OutsideOK, Outside, env, hist, Row
<1>14. QED
  BY <1>1, <1>2, <1>3, <1>4, <1>5, <1>6, <1>7, <1>8, <1>9, <1>10, <1>11, <1>12, <1>13,
     NextCases
  DEF Working, Editing

\* What is remembered for the properties has its type.
LEMMA HistKept ==
  ASSUME AdoptionInv, [Next]_vars
  PROVE  HistOK'
<1>0. TypeOK
     /\ AtHand /\ Applying /\ OursIsCurrent /\ BackupsOfCurrent
     /\ (pc \notin {"free", "ready"} => at \in Adoptions) /\ HistOK /\ WorkOK
  BY DEF AdoptionInv, HolderInv, FilesInv, TypeInv, TypeOK, TablesOK, IntentRow, Place,
         WorkOK, FilesOK, OutsideOK, HistOK
<1>1. CASE Turning
  BY <1>0, <1>1, TurningWritten, Numbers DEF Idle, HistOK, hist
<1>2. CASE Stopping
  BY <1>0, <1>2, StoppingWritten, Numbers DEF Idle, PhaseSet, HistOK, hist
<1>3. CASE Finalize
  BY <1>0, <1>3, FinalizeWritten, Numbers DEF Idle, PhaseSet, HistOK, hist
<1>4. CASE MarkRolledBack
  BY <1>0, <1>4, MarkRolledBackWritten, Numbers DEF Idle, PhaseSet, HistOK, hist
<1>5. CASE MarkSwitched
  BY <1>0, <1>5, MarkSwitchedWritten, Numbers DEF PhaseSet, env, HistOK, hist
<1>6. CASE Beginning
  BY <1>0, <1>6, BeginningWritten, Numbers DEF NoIntent, Outside, HistOK, hist
<1>7. CASE Planning
  BY <1>0, <1>7, PlanningWritten, Numbers DEF Plan, HistOK, hist
<1>8. CASE GoForward
  BY <1>0, <1>8, WorkingWritten, Numbers
  DEF GoForward, Judging, Goto, Working, Outside, HistOK, hist
<1>9. CASE GoBack
  BY <1>0, <1>9, WorkingWritten, Numbers
  DEF GoBack, Judging, Goto, Working, Outside, HistOK, hist
<1>10. CASE EnsureCurrent
  BY <1>0, <1>10, WorkingWritten, Numbers
  DEF EnsureCurrent, Goto, Working, Outside, HistOK, hist
<1>11. CASE Undo
  BY <1>0, <1>11, WorkingWritten, Numbers DEF Undo, Goto, Working, Outside, HistOK, hist
<1>12. CASE PutBack
  BY <1>0, <1>12, WorkingWritten, Numbers DEF PutBack, Goto, Working, Outside, HistOK, hist
<1>13. CASE ClearCurrent
  BY <1>0, <1>13, WorkingWritten, Numbers
  DEF ClearCurrent, Goto, Working, Outside, HistOK, hist
<1>14. CASE RemoveTree
  BY <1>0, <1>14, WorkingWritten, Numbers
  DEF RemoveTree, Goto, Working, Outside, HistOK, hist
<1>15. CASE PlanRefused
  BY <1>0, <1>15, WorkingWritten, Numbers
  DEF PlanRefused, Exit, Working, Outside, HistOK, hist
<1>16. CASE SwitchCurrent
  BY <1>0, <1>16, WorkingWritten, Numbers
  DEF SwitchCurrent, Goto, Working, Outside, HistOK, hist
<1>17. CASE Link
  BY <1>0, <1>17, WorkingWritten, Numbers DEF Link, Goto, Working, Outside, HistOK, hist
<1>18. CASE MoveAside
  BY <1>0, <1>18, WorkingWritten, Numbers
  DEF MoveAside, Goto, Working, Outside, HistOK, hist
<1>19. CASE PutOurs
  BY <1>0, <1>19, WorkingWritten, Numbers DEF PutOurs, Goto, Working, Outside, HistOK, hist
<1>20. CASE ApplyMutation
  BY <1>0, <1>20, WorkingWritten, Numbers
  DEF ApplyMutation, Recovering, Working, Outside, HistOK, hist
<1>21. CASE Editing
  <2>1. late' = TRUE /\ disturbed' \subseteq Adoptions
    BY <1>0, <1>21, EditingWritten DEF OpenNow, HistOK, WorkOK
  <2>2. CASE \E v \in Contents \cup {Nothing} : EditPath(v)
    BY <1>0, <2>1, <2>2 DEF EditPath, HistOK
  <2>3. CASE \E i \in Adoptions : TakeBackup(i) \/ EditTree(i)
    BY <1>0, <2>1, <2>3 DEF TakeBackup, EditTree, HistOK
  <2>4. CASE \E t \in 1..MaxText, m \in BOOLEAN : EditConfig(t, m)
    BY <1>0, <2>1, <2>4 DEF EditConfig, HistOK
  <2>5. QED  BY <2>2, <2>3, <2>4, <1>21 DEF Editing
<1>22. CASE Preview
  BY <1>0, <1>22, Numbers DEF Preview, journal, files, work, HistOK, hist
<1>23. CASE ScanReads
  BY <1>0, <1>23, Numbers DEF ScanReads, journal, files, work, HistOK, hist
<1>24. CASE ScanWrites
  BY <1>0, <1>24, Numbers
  DEF ScanWrites, journal, files, work, HistOK, hist, OpenNow, WorkOK
<1>25. CASE UNCHANGED vars
  BY <1>0, <1>25, Numbers DEF vars, journal, files, work, env, hist, HistOK, hist
<1>26. QED
  BY <1>1, <1>2, <1>3, <1>4, <1>5, <1>6, <1>7, <1>8, <1>9, <1>10, <1>11, <1>12, <1>13,
     <1>14, <1>15, <1>16, <1>17, <1>18, <1>19, <1>20, <1>21, <1>22, <1>23, <1>24, <1>25,
     NextCases
  DEF Working, Editing

-----------------------------------------------------------------------------
(* The theorems. *)

\* Nothing is adopted yet, and what the user has put somewhere is where it was found.
LEMMA InitInv == Init => AdoptionInv
<1> SUFFICES ASSUME Init  PROVE AdoptionInv
  OBVIOUS
<1>1. path \in Contents \cup {Nothing} /\ config \in Config /\ config.text = 1
  <2>1. config \in [text : {1}, managed : BOOLEAN]
    <3>1. CASE UsesConfig
      BY <3>1 DEF Init
    <3>2. CASE ~UsesConfig
      BY <3>2 DEF Init
    <3>3. QED  BY <3>1, <3>2
  <2>2. path = 1 \/ path = Nothing
    BY DEF Init
  <2>3. QED  BY <2>1, <2>2, Numbers, BoundsAssumption DEF Config
<1>2. NoIntent \in IntentRow /\ row \in Row /\ scan \in Row
  BY BoundsAssumption DEF Init, NoIntent, NoConfig, IntentRow, Config, Row, Phase
<1>3. NoPreview \in [path : 0..Ours, config : Config]
  BY Numbers, BoundsAssumption DEF NoPreview, NoConfig, Config
<1>4. TablesOK
  BY <1>2 DEF Init, TablesOK
<1>5. pc \in Place /\ WorkOK /\ FilesOK
  BY <1>1, Numbers DEF Init, Place, WorkOK, FilesOK
<1>6. OutsideOK /\ HistOK
  <2>1. kind \in Kinds /\ native \in BOOLEAN /\ scan.seen = 0 /\ MaxEdit[kind] \in Nat
    BY BoundsAssumption DEF Init
  <2>2. OutsideOK
    BY <1>2, <1>3, <2>1, BoundsAssumption DEF Init, OutsideOK
  <2>3. HistOK
    <3>1. 1 \in 1..MaxText
      BY BoundsAssumption
    <3>2. owned \subseteq Contents /\ text = 1 /\ disturbed = {} /\ ~installed /\ ~late
      BY DEF Init
    <3>3. installed \in BOOLEAN /\ late \in BOOLEAN
      BY DEF Init
    <3>4. QED  BY <3>1, <3>2, <3>3 DEF HistOK
  <2>4. QED  BY <2>2, <2>3
<1>7. HolderInv /\ Looked
  BY DEF Init, HolderInv, AtHand, Applying, Undoing, Looked
<1>8. RowsFollow /\ RollbackIsWhole
  BY DEF Init, NoIntent, RowsFollow, RollbackIsWhole
<1>9. FilesInv
  BY <1>1, Numbers
  DEF Init, FilesInv, BackupsOfCurrent, OursIsCurrent, ShimOverNothing, NothingOfTheUserIsLost
<1>10. QED  BY <1>4, <1>5, <1>6, <1>7, <1>8, <1>9, TypeParts DEF AdoptionInv

\* Every step of the adoption keeps the invariant.
LEMMA NextInv == AdoptionInv /\ [Next]_vars => AdoptionInv'
<1> SUFFICES ASSUME AdoptionInv, [Next]_vars  PROVE AdoptionInv'
  OBVIOUS
<1>1. TypeInv'
  <2>1. TablesOK' /\ (pc \in Place)' /\ WorkOK' /\ FilesOK' /\ OutsideOK' /\ HistOK'
    BY TablesKept, PlaceKept, WorkKept, FilesKept, OutsideKept, HistKept
  <2>2. QED  BY <2>1, TypeParts, PTL
<1>2. HolderInv' /\ RowsFollow' /\ Looked'
  BY AtHandKept, ApplyingKept, UndoingKept, RowsKept, LookedKept DEF HolderInv
<1>3. FilesInv' /\ RollbackIsWhole'
  BY BackupsKept, OursKept, ShimKept, KeptKept, RollbackKept DEF FilesInv
<1>4. QED  BY <1>1, <1>2, <1>3 DEF AdoptionInv

\* The inductive invariant holds in every state.
THEOREM AdoptionCorrect == Spec => []AdoptionInv
<1>1. QED  BY InitInv, NextInv, PTL DEF Spec

\* Every variable has its type.
THEOREM TypeCorrect == Spec => []TypeOK
<1>1. AdoptionInv => TypeOK
  BY DEF AdoptionInv, TypeInv
<1>2. QED  BY <1>1, AdoptionCorrect, PTL

\* adopt.go:24-26, adopt_recovery.go:312: at whatever point an adoption or its recovery is
\* cut short, and whatever is edited meanwhile, each file of the user is at its place or in a
\* backup, and the host config has the text that the user last gave it.
THEOREM KeptCorrect == Spec => []NothingOfTheUserIsLost
<1>1. AdoptionInv => NothingOfTheUserIsLost
  BY DEF AdoptionInv, FilesInv
<1>2. QED  BY <1>1, AdoptionCorrect, PTL

\* adopt_recovery.go:163-176: an adoption that was taken back has left nothing behind.
THEOREM RollbackCorrect == Spec => []RollbackIsWhole
<1>1. AdoptionInv => RollbackIsWhole
  BY DEF AdoptionInv
<1>2. QED  BY <1>1, AdoptionCorrect, PTL

\* Only the last step of the holder commits an adoption, and the one it works on.
LEMMA OnlyFinalizeCommits ==
  ASSUME AdoptionInv, [Next]_vars, NEW i \in Adoptions,
         intents[i].phase # "committed", intents'[i].phase = "committed"
  PROVE  Finalize /\ i = at
<1>1. TypeOK /\ AtHand /\ Applying /\ OursIsCurrent /\ TablesOK
  BY DEF AdoptionInv, TypeInv, HolderInv, FilesInv, TypeOK, TablesOK, IntentRow
<1>2. CASE Turning \/ Working \/ Editing \/ Beginning
  BY <1>1, <1>2, TurningWritten, WorkingWritten, EditingWritten, BeginningWritten
<1>3. CASE Preview \/ ScanReads \/ ScanWrites \/ UNCHANGED vars
  BY <1>3 DEF Preview, ScanReads, ScanWrites, vars, journal
<1>4. CASE Stopping \/ MarkRolledBack \/ MarkSwitched
  BY <1>1, <1>4, StoppingWritten, MarkRolledBackWritten, MarkSwitchedWritten DEF PhaseSet
<1>5. CASE Planning
  BY <1>1, <1>5, PlanningWritten DEF Plan
<1>6. CASE Finalize
  BY <1>1, <1>6, FinalizeWritten DEF PhaseSet
<1>7. QED  BY <1>2, <1>3, <1>4, <1>5, <1>6, NextCases

\* adopt_recovery.go:151-162: an adoption is committed only when all of its effects are in
\* place, apart from what others changed after the recovery looked.
THEOREM CommitCorrect == Spec => CommitIsWhole
<1>1. ASSUME AdoptionInv, [Next]_vars
      PROVE  \A i \in Adoptions :
               intents[i].phase # "committed" /\ intents'[i].phase = "committed" =>
                 late \/ (AllAfter(i) /\ current = i /\ tree[i] = "intact")
  BY <1>1, OnlyFinalizeCommits DEF AdoptionInv, Looked, Finalize
<1>2. AdoptionInv /\ [Next]_vars =>
        [\A i \in Adoptions :
           intents[i].phase # "committed" /\ intents'[i].phase = "committed" =>
             \/ late
             \/ AllAfter(i) /\ current = i /\ tree[i] = "intact"]_vars
  BY <1>1
<1>3. QED  BY <1>2, AdoptionCorrect, PTL DEF Spec, CommitIsWhole

-----------------------------------------------------------------------------
(* The ledger. *)

\* A step that leaves the journal alone leaves the outcomes alone.
LEMMA OutcomesKept ==
  ASSUME intents' = intents
  PROVE  Outcome' = Outcome
BY DEF Outcome, Pending

\* The phase an adoption is given is its outcome.
LEMMA OutcomeSet ==
  ASSUME NEW i \in Adoptions, NEW p \in Phase, PhaseSet(i, p), Pending(i)
  PROVE  /\ Outcome[i] = "open"
         /\ Outcome' = [Outcome EXCEPT ![i] =
                          IF p \in {"prepared", "switched", "blocked"} THEN "open"
                          ELSE IF p = "rolled_back" THEN "failed" ELSE p]
BY DEF PhaseSet, Outcome, Pending

\* Each step of the adoption is one of the ledger, or none.
LEMMA LedgerStep ==
  ASSUME AdoptionInv, [Next]_vars
  PROVE  [Ledger!LedgerNext]_(Ledger!lvars)
<1> USE DEF Ledger!LedgerNext, Ledger!lvars
<1>0. /\ TypeOK /\ AtHand /\ Applying /\ OursIsCurrent /\ TablesOK /\ RowsFollow
      /\ row \in Row /\ scan \in Row /\ Target' = Target
  BY DEF AdoptionInv, TypeInv, HolderInv, FilesInv, TypeOK, TablesOK, IntentRow, Target
<1>1. ASSUME UNCHANGED <<intents, receipts>>, row'.gen = row.gen
      PROVE  [Ledger!LedgerNext]_(Ledger!lvars)
  BY <1>0, <1>1, OutcomesKept
<1>2. CASE Turning \/ Working \/ Editing \/ Beginning
  BY <1>0, <1>1, <1>2, TurningWritten, WorkingWritten, EditingWritten, BeginningWritten
<1>3. CASE Preview \/ ScanReads \/ UNCHANGED vars
  BY <1>1, <1>3 DEF Preview, ScanReads, vars, journal
<1>4. CASE ScanWrites
  <2>1. row'.gen \in Adoptions \cup {0} /\ UNCHANGED <<intents, receipts>>
    BY <1>0, <1>4 DEF ScanWrites, Row
  <2>2. Ledger!Observe
    BY <1>0, <2>1, OutcomesKept DEF Ledger!Observe
  <2>3. QED  BY <2>2
<1>5. CASE Stopping \/ MarkSwitched
  <2>1. \E p \in {"blocked", "switched"} :
          at \in Adoptions /\ Pending(at) /\ PhaseSet(at, p) /\ UNCHANGED <<row, receipts>>
    BY <1>0, <1>5, StoppingWritten, MarkSwitchedWritten
  <2>2. Outcome' = [Outcome EXCEPT ![at] = "open"] /\ Outcome[at] = "open"
    BY <2>1, OutcomeSet DEF Phase
  <2>3. Outcome' = Outcome
    BY <2>2 DEF Outcome
  <2>4. QED  BY <1>0, <2>1, <2>3
<1>6. CASE Planning
  <2>1. /\ at \in Adoptions /\ intents[at].phase = "none" /\ intents'[at].phase = "prepared"
        /\ \A j \in Adoptions : j # at => intents'[j] = intents[j]
        /\ UNCHANGED <<row, receipts>>
    BY <1>0, <1>6, PlanningWritten DEF Plan
  <2>2. Outcome[at] = "none" /\ Outcome' = [Outcome EXCEPT ![at] = "open"]
    BY <2>1 DEF Outcome, Pending
  <2>3. Target' = [Target EXCEPT ![at] = at]
    BY <1>0 DEF Target
  <2>4. Ledger!Open(at, at)
    BY <2>1, <2>2, <2>3 DEF Ledger!Open
  <2>5. QED  BY <2>1, <2>4
<1>7. CASE Finalize
  <2>1. /\ at \in Adoptions /\ Pending(at) /\ PhaseSet(at, "committed")
        /\ row'.gen = at
        /\ receipts' = [receipts EXCEPT ![at] = Append(receipts[at], "succeeded")]
    BY <1>0, <1>7, FinalizeWritten DEF Pending
  <2>2. Ledger!Settle(at, "committed")
    BY <1>0, <2>1, OutcomeSet DEF Phase, Ledger!Settle
  <2>3. Ledger!Install(at)
    BY <2>1, <2>2 DEF Ledger!Install, Ledger!LeaveReceipt, Target
  <2>4. QED  BY <2>1, <2>3
<1>8. CASE MarkRolledBack
  <2>1. /\ at \in Adoptions /\ Pending(at) /\ PhaseSet(at, "rolled_back")
        /\ UNCHANGED <<row, receipts>>
    BY <1>0, <1>8, MarkRolledBackWritten
  <2>2. Ledger!Settle(at, "failed")
    BY <1>0, <2>1, OutcomeSet DEF Phase, Ledger!Settle
  <2>3. Ledger!Abandon(at)
    BY <2>1, <2>2 DEF Ledger!Abandon
  <2>4. QED  BY <2>1, <2>3
<1>9. QED  BY <1>2, <1>3, <1>4, <1>5, <1>6, <1>7, <1>8, NextCases

\* The journal of adoptions implements the ledger: the row moves to the generation of an
\* adoption once, with its receipt, and one that is taken back leaves none.
THEOREM LedgerImplemented == Spec => ImplementsLedger
<1>1. Init => Ledger!LedgerInit
  BY Numbers DEF Init, NoIntent, Outcome, Target, Pending, Ledger!LedgerInit
<1>2. AdoptionInv /\ [Next]_vars => [Ledger!LedgerNext]_(Ledger!lvars)
  BY LedgerStep
<1>3. QED
  BY <1>1, <1>2, AdoptionCorrect, PTL DEF Spec, ImplementsLedger, Ledger!LedgerSpec

-----------------------------------------------------------------------------
(* Who can block an adoption.                                                             *)
(*                                                                                        *)
(* An adoption that nobody has disturbed finds its files as it left them, wherever it was *)
(* cut short (Placed), so that nothing of its recovery is in conflict.  Only an earlier   *)
(* adoption of a hook can spoil this: the recovery may give it "current" before the later *)
(* adoption has taken it (Stranded), and both are stuck.                                  *)

Adopting   == {"plan", "journaled", "apply", "linked", "moved", "config"}
TakingBack == {"undo", "putback", "clear", "remove", "unmark"}

(* Adoptions are numbered as they come; one of a directory has moved a directory.         *)
InOrder ==
  /\ \A i \in Adoptions :
       /\ intents[i].phase = "none" =>
            intents[i] = NoIntent /\ \A j \in Adoptions : j > i => intents[j].phase = "none"
       /\ kind = "file" /\ Pending(i) => intents[i].path # Nothing
  /\ pc = "plan" => \A i \in Adoptions : i < at => intents[i].phase # "none"
(* What the holder of the lock has behind it is blocked, if it is still open.             *)
Session ==
  /\ pc \in {"free", "ready"} \cup Adopting => todo = {}
  /\ pc # "free" => \A i \in Adoptions \ (todo \cup {at}) :
                      Pending(i) => intents[i].phase = "blocked"
(* What the recovery has looked at is still so, unless others have disturbed everything.  *)
AllDisturbed == \A i \in Adoptions : Pending(i) => i \in disturbed
Judged ==
  /\ pc \in {"current", "mark", "finalize"} => ~late \/ AllDisturbed
  /\ pc = "undo" => (MayUndo(at) /\ Endpoint(at) \in {"before", "partial"}) \/ AllDisturbed
(* Of several open adoptions all but the last are blocked, and others have blocked them.  *)
Older ==
  \A i, j \in Adoptions : j < i /\ Pending(j) /\ Pending(i) =>
    intents[j].phase = "blocked" /\ j \in disturbed /\ backup[j] = Nothing

PathBefore(i) == path = intents[i].path /\ backup[i] = Nothing
PathMoved(i)  == path = Nothing /\ backup[i] = intents[i].path
PathAfter(i)  == path = Ours /\ backup[i] = intents[i].path
Placed(i) ==
  /\ intents[i].phase # "blocked" /\ row = intents[i].row /\ current \in {0, i}
  /\ UsesPath => PathBefore(i) \/ PathMoved(i) \/ PathAfter(i)
  /\ UsesConfig =>
       \/ config = intents[i].config
       \/ config = Rewritten(i) /\ current = i /\ (UsesPath => PathAfter(i))
  /\ tree[i] = "intact" \/ (tree[i] = "none" /\ current = 0)
Stranded(i) ==
  /\ kind = "hook" /\ config.managed /\ intents[i].config.managed
  /\ current \in 1..(i - 1) /\ current \in disturbed /\ intents[current].phase = "blocked"
  /\ pc \in {"free", "ready", "judge", "current", "mark"} /\ (at = i => pc = "judge")
Undisturbed ==
  \A i \in Adoptions : Pending(i) /\ i \notin disturbed => Placed(i) \/ Stranded(i)
(* How far the holder of the lock has got with an adoption that nobody has disturbed.     *)
Held(i) ==
  /\ pc \in Adopting => tree[i] = "intact"
  /\ pc \in (Adopting \ {"plan"}) \cup TakingBack /\ UsesConfig => config = intents[i].config
  /\ pc \in {"journaled", "apply", "linked", "clear", "remove", "unmark"} /\ UsesPath =>
       PathBefore(i)
  /\ pc = "moved" => PathMoved(i)
  /\ pc = "config" => PathAfter(i)
  /\ pc = "current" => current = i
InHand == \A i \in Adoptions : at = i /\ i \notin disturbed => Held(i)

BlockInv == InOrder /\ Session /\ Judged /\ Older /\ Undisturbed /\ InHand

\* What the recovery makes of an open adoption, in terms of its files.
LEMMA Meaning ==
  ASSUME TypeOK, InOrder, NEW i \in Adoptions, Pending(i)
  PROVE  /\ UsesPath =>
              /\ PathState(i) = "after" <=> PathAfter(i)
              /\ PathState(i) \in {"before", "partial"} => PathBefore(i) \/ PathMoved(i)
              /\ PathBefore(i) => PathState(i) = "before"
              /\ PathMoved(i) => PathState(i) \in {"before", "partial"}
         /\ UsesConfig =>
              /\ ConfigState(i) = "after" <=> config = Rewritten(i)
              /\ ConfigState(i) = "before" <=> Rewrites(i) /\ config = intents[i].config
              /\ ~Rewrites(i) => Rewritten(i) = intents[i].config
         /\ ~UsesPath => kind = "hook" /\ UsesConfig
         /\ Rewrites(i) => UsesConfig /\ Rewritten(i) # intents[i].config
         /\ Rewrites(i) <=> UsesConfig /\ ~intents[i].config.managed
         /\ Rewritten(i).managed
<1>1. /\ intents[i].path \in Contents \cup {Nothing} /\ intents[i].path # Ours
      /\ intents[i].config \in Config /\ config \in Config
      /\ kind \in {"file", "hook", "cli", "stdio"}
  BY Numbers DEF TypeOK
<1>2. kind = "file" => intents[i].path # Nothing
  BY DEF InOrder
<1>3. UsesPath =>
        /\ PathState(i) = "after" <=> PathAfter(i)
        /\ PathState(i) \in {"before", "partial"} => PathBefore(i) \/ PathMoved(i)
        /\ PathBefore(i) => PathState(i) = "before"
        /\ PathMoved(i) => PathState(i) \in {"before", "partial"}
  <2>1. CASE kind = "file"
    BY <1>1, <1>2, <2>1, Numbers
    DEF PathState, InstallState, PathBefore, PathMoved, PathAfter
  <2>2. CASE kind # "file"
    BY <1>1, <2>2, Numbers DEF PathState, ShimState, PathBefore, PathMoved, PathAfter
  <2>3. QED  BY <2>1, <2>2
<1>4. /\ Rewritten(i).managed /\ Rewritten(i).text = intents[i].config.text
      /\ Rewritten(i) \in Config
      /\ intents[i].config.managed => Rewritten(i) = intents[i].config
  BY <1>1 DEF Rewritten, Config
<1>5. QED  BY <1>1, <1>3, <1>4 DEF ConfigState, Rewrites, UsesConfig, UsesPath

\* When the recovery may take an adoption back, and when it may finish it.
Restorable(i) ==
  /\ UsesConfig => config = intents[i].config
  /\ UsesPath => PathBefore(i) \/ PathMoved(i) \/ PathAfter(i)
LEMMA ChoiceMeaning ==
  ASSUME TypeOK, InOrder, NEW i \in Adoptions, Pending(i)
  PROVE  /\ MayUndo(i) <=> Restorable(i)
         /\ AllAfter(i) <=> (UsesConfig => config = Rewritten(i)) /\ (UsesPath => PathAfter(i))
<1>1. PathState(i) \in {"before", "partial", "after", "conflict"}
  BY DEF PathState, InstallState, ShimState
<1>2. UsesPath =>
        (PathState(i) # "conflict" <=> PathBefore(i) \/ PathMoved(i) \/ PathAfter(i))
  BY <1>1, Meaning
<1>3. UsesConfig =>
        (ConfigState(i) = (IF Rewrites(i) THEN "before" ELSE "after")
           <=> config = intents[i].config)
  BY Meaning
<1>4. AllAfter(i) <=> (UsesConfig => config = Rewritten(i)) /\ (UsesPath => PathAfter(i))
  BY Meaning DEF AllAfter
<1>5. MayUndo(i) <=> Restorable(i)
  BY <1>2, <1>3 DEF MayUndo, Restorable
<1>6. QED  BY <1>4, <1>5

-----------------------------------------------------------------------------
(* What the steps do to the holder and to the others. *)

\* An ended recovery leaves nothing behind but the adoption it was about.
LEMMA ContinueInOrder ==
  ASSUME TypeOK, Continue
  PROVE  /\ pc' \in {"free", "ready", "judge"}
         /\ pc' \in {"free", "ready"} => todo' = {}
         /\ pc' # "free" => todo \subseteq todo' \cup {at', at}
<1>1. CASE tries = 0
  BY <1>1 DEF Continue
<1>2. CASE tries # 0
  BY <1>2 DEF Continue, Exit
<1>3. QED  BY <1>1, <1>2

\* Whoever edits a file or writes the row disturbs every open adoption.
Interrupting == Editing \/ ScanWrites
LEMMA InterruptingWritten ==
  ASSUME TypeOK, Interrupting
  PROVE  /\ UNCHANGED <<intents, pc, at, todo, tries, kind>>
         /\ disturbed' = disturbed \cup OpenNow
         /\ \A i \in Adoptions : backup'[i] \in {backup[i], Nothing}
<1>1. CASE Editing
  BY <1>1, EditingWritten
<1>2. CASE ScanWrites
  BY <1>2 DEF ScanWrites, files, work
<1>3. QED  BY <1>1, <1>2 DEF Interrupting
LEMMA Disturbing ==
  ASSUME TypeOK, Interrupting
  PROVE  /\ AllDisturbed' /\ disturbed \subseteq disturbed'
         /\ \A i \in Adoptions : at = i => i \in disturbed'
<1>1. \A i \in Adoptions : i # 0
  BY Numbers
<1>2. disturbed' = disturbed \cup OpenNow /\ UNCHANGED <<intents, at>>
  BY InterruptingWritten
<1>3. QED  BY <1>1, <1>2 DEF AllDisturbed, OpenNow, Pending

\* No other step disturbs anybody, and only the last one writes the row.
LEMMA Disturbed ==
  ASSUME TypeOK, AtHand, Applying, OursIsCurrent, [Next]_vars, ~Interrupting
  PROVE  UNCHANGED <<kind, disturbed>>
<1>1. CASE Turning \/ Working \/ Beginning \/ Preview \/ ScanReads \/ UNCHANGED vars
  BY <1>1, TurningWritten, WorkingWritten, BeginningWritten
  DEF Outside, hist, Preview, ScanReads, vars, env
<1>2. CASE Stopping \/ Finalize \/ MarkRolledBack \/ MarkSwitched \/ Planning
  BY <1>2, StoppingWritten, FinalizeWritten, MarkRolledBackWritten, MarkSwitchedWritten,
     PlanningWritten DEF Outside, hist, env
<1>3. QED  BY <1>1, <1>2, NextCases DEF Interrupting

\* While the holder works on one adoption, another one that nobody has disturbed is later, and
\* the one at hand is blocked and has moved nothing aside.
LEMMA AloneButOlder ==
  ASSUME TypeOK, Older, NEW i \in Adoptions, Pending(i), i \notin disturbed,
         at \in Adoptions, at # i, Pending(at)
  PROVE  at < i /\ intents[at].phase = "blocked" /\ at \in disturbed /\ backup[at] = Nothing
<1>1. at < i \/ i < at
  BY Numbers
<1>2. QED  BY <1>1 DEF Older

\* While an adoption is planned or applied, all others that are open have been disturbed;
\* before one begins, all are.
LEMMA NobodyElse ==
  ASSUME TypeOK, Session, Undisturbed, NEW i \in Adoptions, Pending(i), i \notin disturbed
  PROVE  /\ pc \in Adopting => i = at
         /\ pc = "ready" => current # 0
<1>1. ASSUME pc \in Adopting \cup {"ready"}, i # at  PROVE Stranded(i)
  BY <1>1 DEF Session, Undisturbed, Placed, Adopting
<1>2. at = i => pc # "ready"
  BY Numbers DEF TypeOK
<1>3. Stranded(i) => pc \notin Adopting /\ current # 0
  BY Numbers DEF Stranded, Adopting
<1>4. QED  BY <1>1, <1>2, <1>3

\* The numbers of the adoptions follow their order.
LEMMA InOrderKept ==
  ASSUME AdoptionInv, InOrder, [Next]_vars
  PROVE  InOrder'
<1>0. /\ TypeOK /\ AtHand /\ Applying /\ OursIsCurrent
      /\ intents \in [Adoptions -> IntentRow]
  BY DEF AdoptionInv, HolderInv, FilesInv, TypeInv, TypeOK, IntentRow
<1>1. ASSUME UNCHANGED <<kind, intents>>, pc' = "plan" => pc = "plan" /\ at' = at
      PROVE  InOrder'
  BY <1>1 DEF InOrder, Pending
<1>2. ASSUME NEW k \in Adoptions, NEW p \in {"blocked", "switched", "committed", "rolled_back"},
             Pending(k), PhaseSet(k, p), UNCHANGED kind, pc' # "plan"
      PROVE  InOrder'
  BY <1>2 DEF InOrder, PhaseSet, Pending
<1>3. CASE Turning \/ Preview \/ ScanReads \/ UNCHANGED vars
  BY <1>0, <1>1, <1>3, TurningWritten
  DEF Idle, Outside, Preview, ScanReads, vars, env, journal, work
<1>4. CASE Interrupting
  BY <1>0, <1>1, <1>4, InterruptingWritten
<1>5. CASE Working
  <2>1. pc' # "plan"
    BY <1>5 DEF Working, GoForward, GoBack, EnsureCurrent, Undo, PutBack, ClearCurrent, RemoveTree,
         PlanRefused, SwitchCurrent, Link, MoveAside, PutOurs, ApplyMutation, Goto, Recovering, Exit
  <2>2. QED  BY <1>0, <1>1, <1>5, <2>1, WorkingWritten DEF Outside
<1>6. CASE Stopping
  BY <1>0, <1>2, <1>6, StoppingWritten DEF Outside, Idle
<1>7. CASE Finalize
  BY <1>0, <1>2, <1>7, FinalizeWritten DEF Outside, Pending, Idle
<1>8. CASE MarkRolledBack
  BY <1>0, <1>2, <1>8, MarkRolledBackWritten DEF Outside, Idle
<1>9. CASE MarkSwitched
  BY <1>0, <1>2, <1>9, MarkSwitchedWritten DEF env
<1>10. CASE Beginning
  <2>1. UNCHANGED <<kind, intents>>
    BY <1>0, <1>10, BeginningWritten DEF Outside
  <2>2. \A i \in Adoptions : i < at' => intents[i] # NoIntent
    BY <1>10, Numbers
    DEF Beginning, CaptureDirectory, FetchHook, RebuildRuntime, Materialized, Adoptions
  <2>3. \A i \in Adoptions : i < at' => intents[i].phase # "none"
    BY <2>2 DEF InOrder
  <2>4. QED  BY <2>1, <2>3 DEF InOrder, Pending
<1>11. CASE Planning
  <2>1. /\ at \in Adoptions /\ intents' = [intents EXCEPT ![at] = Plan]
        /\ pc = "plan" /\ pc' = "journaled" /\ UNCHANGED kind
        /\ kind = "file" => path \in Contents
    BY <1>0, <1>11, PlanningWritten
  <2>2. Plan.phase = "prepared" /\ (kind = "file" => Plan.path # Nothing)
    BY <2>1, Numbers DEF Plan, UsesPath, Nothing
  <2>3. \A i \in Adoptions : intents'[i] = IF i = at THEN Plan ELSE intents[i]
    BY <1>0, <2>1
  <2>4. \A i \in Adoptions : i < at => intents[i].phase # "none"
    BY <2>1 DEF InOrder
  <2>5. ASSUME NEW i \in Adoptions, intents'[i].phase = "none"
        PROVE  /\ intents'[i] = NoIntent
               /\ \A j \in Adoptions : j > i => intents'[j].phase = "none"
    <3>1. i # at /\ intents'[i] = intents[i] /\ intents[i].phase = "none"
      BY <2>2, <2>3, <2>5
    <3>2. ~(i < at)
      BY <2>4, <3>1
    <3>3. \A j \in Adoptions : j > i => j # at
      BY <2>1, <3>1, <3>2, Numbers
    <3>4. QED  BY <2>3, <3>1, <3>3 DEF InOrder
  <2>6. ASSUME NEW i \in Adoptions, kind = "file", Pending(i)'
        PROVE  intents'[i].path # Nothing
    BY <2>2, <2>3, <2>6 DEF InOrder, Pending
  <2>7. QED  BY <2>1, <2>5, <2>6 DEF InOrder
<1>12. QED
  BY <1>3, <1>4, <1>5, <1>6, <1>7, <1>8, <1>9, <1>10, <1>11, NextCases DEF Interrupting

\* The adoptions that the holder has dealt with are blocked, if they are open.
LEMMA SessionKept ==
  ASSUME AdoptionInv, Session, [Next]_vars
  PROVE  Session'
<1>0. /\ TypeOK /\ AtHand /\ Applying /\ OursIsCurrent
      /\ intents \in [Adoptions -> IntentRow] /\ pc \in Place /\ todo \subseteq Adoptions
  BY DEF AdoptionInv, HolderInv, FilesInv, TypeInv, TypeOK, IntentRow, Place
<1>1. ASSUME UNCHANGED <<intents, pc, at, todo>>  PROVE Session'
  BY <1>1 DEF Session, Pending
<1>2. ASSUME Continue, at \in Adoptions,
             \A i \in Adoptions : i # at => intents'[i] = intents[i],
             intents'[at].phase \notin {"prepared", "switched"}, pc # "free"
      PROVE  Session'
  <2>1. /\ pc' \in {"free", "ready", "judge"} /\ (pc' \in {"free", "ready"} => todo' = {})
        /\ pc' # "free" => todo \subseteq todo' \cup {at', at}
    BY <1>0, <1>2, ContinueInOrder
  <2>2. ASSUME pc' # "free", NEW i \in Adoptions, i \notin todo' \cup {at'}, Pending(i)'
        PROVE  intents'[i].phase = "blocked"
    <3>1. CASE i = at
      BY <1>2, <2>2, <3>1 DEF Pending
    <3>2. CASE i # at
      BY <1>2, <2>1, <2>2, <3>2 DEF Session, Pending
    <3>3. QED  BY <3>1, <3>2
  <2>3. QED  BY <2>1, <2>2 DEF Session, Adopting
<1>3. CASE Interrupting
  BY <1>0, <1>1, <1>3, InterruptingWritten
<1>4. CASE Preview \/ ScanReads \/ UNCHANGED vars
  BY <1>1, <1>4 DEF Preview, ScanReads, vars, journal, work
<1>5. CASE TakeLock
  <2>1. todo' = {i \in Adoptions : Pending(i)} /\ intents' = intents
    BY <1>5 DEF TakeLock, journal
  <2>2. (pc' = "ready" /\ todo' = {}) \/ pc' = "judge"
    BY <1>5 DEF TakeLock
  <2>3. QED  BY <2>1, <2>2 DEF Session, Adopting, Pending
<1>6. CASE Leave \/ Crash \/ PlanRefused
  BY <1>6 DEF Leave, Crash, PlanRefused, Exit, Session
<1>7. CASE AlreadyRolledBack
  BY <1>0, <1>2, <1>7 DEF AlreadyRolledBack, TypeOK, Pending
<1>8. CASE ApplyFails
  BY <1>8 DEF ApplyFails, Recovering, Session, Adopting, journal, Pending
<1>9. CASE Stopping
  <2>1. at \in Adoptions /\ PhaseSet(at, "blocked") /\ Block /\ pc # "free"
    BY <1>0, <1>9, StoppingWritten, Numbers
    DEF Stopping, Conflict, Judging, CurrentConflicts, MarkRefused, FinalizeRefused,
        UndoConflicts, ClearConflicts
  <2>2. QED  BY <1>2, <2>1 DEF PhaseSet, Block
<1>10. CASE Finalize
  <2>1. at \in Adoptions /\ PhaseSet(at, "committed") /\ Continue /\ pc # "free"
    BY <1>0, <1>10, FinalizeWritten DEF Finalize, Committed
  <2>2. QED  BY <1>2, <2>1 DEF PhaseSet, Pending
<1>11. CASE MarkRolledBack
  <2>1. at \in Adoptions /\ PhaseSet(at, "rolled_back") /\ Continue /\ pc # "free"
    BY <1>0, <1>11, MarkRolledBackWritten DEF MarkRolledBack
  <2>2. QED  BY <1>2, <2>1 DEF PhaseSet, Pending
<1>12. CASE MarkSwitched
  <2>1. at \in Adoptions /\ PhaseSet(at, "switched") /\ pc' = "finalize" /\ pc # "free"
        /\ UNCHANGED <<at, todo>>
    BY <1>0, <1>12, MarkSwitchedWritten DEF MarkSwitched
  <2>2. QED  BY <2>1 DEF PhaseSet, Session, Adopting, Pending
<1>13. CASE Beginning
  <2>1. pc = "ready" /\ pc' = "plan" /\ todo' = todo /\ intents' = intents
    BY <1>0, <1>13, BeginningWritten
  <2>2. at = 0
    BY <1>0, <2>1 DEF TypeOK
  <2>3. QED  BY <2>1, <2>2, Numbers DEF Session, Adopting, Pending
<1>14. CASE Planning
  <2>1. /\ at \in Adoptions /\ pc = "plan" /\ pc' = "journaled" /\ UNCHANGED <<at, todo>>
        /\ intents' = [intents EXCEPT ![at] = Plan]
    BY <1>0, <1>14, PlanningWritten
  <2>2. \A i \in Adoptions : i # at => intents'[i] = intents[i]
    BY <1>0, <2>1
  <2>3. QED  BY <2>1, <2>2 DEF Session, Adopting, Pending
<1>15. CASE Working /\ ~PlanRefused
  <2>1. intents' = intents
    BY <1>0, <1>15, WorkingWritten
  <2>2. UNCHANGED <<at, todo>> /\ pc # "free" /\ (pc' \in Adopting => pc \in Adopting)
        /\ pc' \notin {"free", "ready"}
    BY <1>15 DEF Working, GoForward, GoBack, EnsureCurrent, Undo, PutBack, ClearCurrent, RemoveTree,
         SwitchCurrent, Link, MoveAside, PutOurs, ApplyMutation, Goto, Recovering, Judging, Adopting
  <2>3. QED  BY <2>1, <2>2 DEF Session, Pending
<1>16. QED
  BY <1>3, <1>4, <1>5, <1>6, <1>7, <1>8, <1>9, <1>10, <1>11, <1>12, <1>13, <1>14, <1>15,
     NextCases DEF Turning, Interrupting

\* What the recovery has looked at is only changed by those who disturb every open adoption.
LEMMA JudgedKept ==
  ASSUME AdoptionInv, Judged, [Next]_vars
  PROVE  Judged'
<1>0. TypeOK /\ AtHand /\ Applying /\ OursIsCurrent
  BY DEF AdoptionInv, HolderInv, FilesInv, TypeInv
<1>1. ASSUME pc' \notin {"current", "mark", "finalize", "undo"}  PROVE Judged'
  BY <1>1 DEF Judged
<1>2. CASE Interrupting
  BY <1>0, <1>2, Disturbing DEF Judged
<1>3. CASE Preview \/ ScanReads \/ UNCHANGED vars
  <2>1. UNCHANGED <<intents, files, pc, at, kind, late, disturbed>>
    BY <1>3 DEF Preview, ScanReads, vars, journal, work, env, hist
  <2>2. QED
    BY <2>1 DEF files, Judged, AllDisturbed, Pending, MayUndo, Endpoint, UsesConfig, UsesPath,
         Rewrites, Rewritten, ConfigState, PathState, CurrentState, InstallState, ShimState
<1>4. CASE GoForward
  BY <1>4 DEF GoForward, Goto, Judged
<1>5. CASE GoBack
  <2>1. UNCHANGED <<intents, files, at, kind>> /\ pc' = "undo"
    BY <1>5 DEF GoBack, Goto, journal, env
  <2>2. MayUndo(at) /\ Endpoint(at) \in {"before", "partial"}
    BY <1>5 DEF GoBack, Judging
  <2>3. QED
    BY <2>1, <2>2 DEF files, Judged, AllDisturbed, Pending, MayUndo, Endpoint, UsesConfig, UsesPath,
         Rewrites, Rewritten, ConfigState, PathState, CurrentState, InstallState, ShimState
<1>6. CASE EnsureCurrent
  BY <1>6 DEF EnsureCurrent, Goto, journal, env, hist, Judged, AllDisturbed, Pending
<1>7. CASE MarkSwitched
  <2>1. /\ pc = "mark" /\ pc' = "finalize" /\ UNCHANGED <<late, disturbed>>
        /\ Pending(at) /\ PhaseSet(at, "switched")
    BY <1>0, <1>7, MarkSwitchedWritten DEF hist
  <2>2. AllDisturbed => AllDisturbed'
    BY <2>1 DEF PhaseSet, AllDisturbed, Pending
  <2>3. QED  BY <2>1, <2>2 DEF Judged
<1>8. CASE Turning \/ Stopping \/ Finalize \/ MarkRolledBack
  BY <1>0, <1>1, <1>8, TurningWritten, StoppingWritten, FinalizeWritten, MarkRolledBackWritten
  DEF Idle
<1>9. CASE Beginning \/ Planning
  BY <1>0, <1>1, <1>9, BeginningWritten, PlanningWritten
<1>10. CASE Undo \/ PutBack \/ ClearCurrent \/ RemoveTree \/ PlanRefused \/ SwitchCurrent \/ Link
              \/ MoveAside \/ PutOurs \/ ApplyMutation
  BY <1>1, <1>10 DEF Undo, PutBack, ClearCurrent, RemoveTree, PlanRefused, SwitchCurrent, Link,
     MoveAside, PutOurs, ApplyMutation, Goto, Recovering, Exit
<1>11. QED
  BY <1>2, <1>3, <1>4, <1>5, <1>6, <1>7, <1>8, <1>9, <1>10, NextCases DEF Working, Interrupting

\* When an adoption is planned, all others that are open are blocked: somebody has disturbed
\* them, and they hold nothing of the user's.
LEMMA OlderKept ==
  ASSUME AdoptionInv, InOrder, Session, Older, Undisturbed, [Next]_vars
  PROVE  Older'
<1>0. /\ TypeOK /\ AtHand /\ Applying /\ OursIsCurrent /\ BackupsOfCurrent
      /\ intents \in [Adoptions -> IntentRow] /\ backup \in [Adoptions -> Contents \cup {Nothing}]
  BY DEF AdoptionInv, HolderInv, FilesInv, TypeInv, TypeOK, IntentRow
<1>1. ASSUME disturbed \subseteq disturbed', intents' = intents,
             \A i \in Adoptions : backup'[i] \in {backup[i], Nothing}
      PROVE  Older'
  BY <1>1 DEF Older, Pending
<1>2. ASSUME NEW k \in Adoptions, NEW p \in {"blocked", "switched", "committed", "rolled_back"},
             Pending(k), PhaseSet(k, p), p = "switched" => intents[k].phase # "blocked",
             UNCHANGED <<disturbed, backup>>
      PROVE  Older'
  BY <1>2 DEF Older, PhaseSet, Pending
<1>3. CASE Interrupting
  BY <1>0, <1>1, <1>3, InterruptingWritten, Disturbing
<1>4. CASE Turning \/ Beginning \/ Preview \/ ScanReads \/ UNCHANGED vars
  BY <1>0, <1>1, <1>4, TurningWritten, BeginningWritten
  DEF Outside, Preview, ScanReads, vars, files, hist, journal
<1>5. CASE Working /\ ~MoveAside
  <2>1. disturbed' = disturbed /\ intents' = intents
    BY <1>0, <1>5, WorkingWritten
  <2>2. \A i \in Adoptions : backup'[i] \in {backup[i], Nothing}
    BY <1>0, <1>5 DEF Working, GoForward, GoBack, EnsureCurrent, Undo, PutBack, ClearCurrent,
         RemoveTree, PlanRefused, SwitchCurrent, Link, PutOurs, ApplyMutation, files
  <2>3. QED  BY <1>1, <2>1, <2>2
<1>6. CASE MoveAside
  <2>1. at \in Adoptions /\ intents[at].phase = "prepared" /\ UNCHANGED <<intents, disturbed>>
    BY <1>0, <1>6, Numbers DEF MoveAside, AtHand, TypeOK, journal, hist
  <2>2. \A i \in Adoptions : i # at => backup'[i] = backup[i]
    BY <1>0, <1>6 DEF MoveAside
  <2>3. QED  BY <2>1, <2>2 DEF Older, Pending
<1>7. CASE Stopping
  BY <1>0, <1>2, <1>7, StoppingWritten DEF files, hist
<1>8. CASE Finalize
  BY <1>0, <1>2, <1>8, FinalizeWritten DEF files, hist, Pending
<1>9. CASE MarkRolledBack
  BY <1>0, <1>2, <1>9, MarkRolledBackWritten DEF files, hist
<1>10. CASE MarkSwitched
  BY <1>0, <1>2, <1>10, MarkSwitchedWritten DEF MarkSwitched, files, hist
<1>11. CASE Planning
  <2>1. /\ at \in Adoptions /\ pc = "plan" /\ current = 0 /\ intents[at].phase = "none"
        /\ intents' = [intents EXCEPT ![at] = Plan] /\ UNCHANGED <<disturbed, backup>>
    BY <1>0, <1>11, PlanningWritten DEF files, hist
  <2>2. \A i \in Adoptions : i # at => intents'[i] = intents[i]
    BY <1>0, <2>1
  <2>3. \A i \in Adoptions : i > at => ~Pending(i)
    BY <1>0, <2>1 DEF InOrder, Pending
  <2>4. ASSUME NEW i \in Adoptions, Pending(i), i # at
        PROVE  intents[i].phase = "blocked" /\ i \in disturbed /\ backup[i] = Nothing
    <3>1. intents[i].phase = "blocked"
      BY <2>1, <2>4 DEF Session, Adopting
    <3>2. i \in disturbed
      BY <1>0, <2>1, <2>4, NobodyElse DEF Adopting
    <3>3. backup[i] = Nothing
      BY <1>0, <2>1, Numbers DEF BackupsOfCurrent
    <3>4. QED  BY <3>1, <3>2, <3>3
  <2>5. ASSUME NEW i \in Adoptions, NEW j \in Adoptions, j < i, Pending(j)', Pending(i)'
        PROVE  intents'[j].phase = "blocked" /\ j \in disturbed' /\ backup'[j] = Nothing
    <3>1. CASE j = at
      BY <2>2, <2>3, <2>5, <3>1, Numbers DEF Pending
    <3>2. CASE j # at
      BY <2>1, <2>2, <2>4, <2>5, <3>2 DEF Pending
    <3>3. QED  BY <3>1, <3>2
  <2>6. QED  BY <2>5 DEF Older
<1>12. QED
  BY <1>3, <1>4, <1>5, <1>6, <1>7, <1>8, <1>9, <1>10, <1>11, NextCases DEF Interrupting

-----------------------------------------------------------------------------
(* Adoptions that nobody has disturbed. *)

\* The recovery of an adoption that nobody has disturbed only stops when it is stranded.
LEMMA StopsAtStranded ==
  ASSUME AdoptionInv, BlockInv, Stopping, at \notin disturbed
  PROVE  Stranded(at)
<1>0. TypeOK /\ AtHand /\ at \in Adoptions /\ Pending(at) /\ at # 0
  BY StoppingWritten, Numbers DEF AdoptionInv, HolderInv, TypeInv
<1>1. SUFFICES ASSUME Placed(at)  PROVE FALSE
  BY <1>0 DEF BlockInv, Undisturbed
<1>2. Held(at)
  BY <1>0 DEF BlockInv, InHand
<1>3. ~AllDisturbed /\ Judged /\ InOrder
  BY <1>0 DEF AllDisturbed, BlockInv
<1>4. CASE Conflict
  <2>1. CASE Rewrites(at)
    <3>1. UsesConfig /\ Endpoint(at) = ConfigState(at)
      BY <1>0, <1>3, <2>1, Meaning DEF Endpoint
    <3>2. CASE config = intents[at].config
      <4>1. MayUndo(at)
        BY <1>0, <1>1, <1>3, <3>2, ChoiceMeaning DEF Restorable, Placed
      <4>2. ConfigState(at) = "before"
        BY <1>0, <1>3, <2>1, <3>1, <3>2, Meaning
      <4>3. QED  BY <1>4, <3>1, <4>1, <4>2 DEF Conflict
    <3>3. CASE config = Rewritten(at) /\ (UsesPath => PathAfter(at))
      <4>1. AllAfter(at)
        BY <1>0, <1>3, <3>3, ChoiceMeaning
      <4>2. ConfigState(at) = "after"
        BY <1>0, <1>3, <3>1, <3>3, Meaning
      <4>3. QED  BY <1>4, <3>1, <4>1, <4>2 DEF Conflict
    <3>4. QED  BY <1>1, <3>1, <3>2, <3>3 DEF Placed
  <2>2. CASE ~Rewrites(at)
    <3>1. UsesConfig => config = intents[at].config /\ config = Rewritten(at)
      BY <1>0, <1>1, <1>3, <2>2, Meaning DEF Placed
    <3>2. MayUndo(at)
      BY <1>0, <1>1, <1>3, <3>1, ChoiceMeaning DEF Restorable, Placed
    <3>3. CASE UsesPath
      <4>1. Endpoint(at) = PathState(at)
        BY <2>2, <3>3 DEF Endpoint
      <4>2. CASE PathAfter(at)
        <5>1. AllAfter(at) /\ PathState(at) = "after"
          BY <1>0, <1>3, <3>1, <3>3, <4>2, Meaning, ChoiceMeaning
        <5>2. QED  BY <1>4, <4>1, <5>1 DEF Conflict
      <4>3. CASE PathBefore(at) \/ PathMoved(at)
        <5>1. PathState(at) \in {"before", "partial"}
          BY <1>0, <1>3, <3>3, <4>3, Meaning
        <5>2. QED  BY <1>4, <3>2, <4>1, <5>1 DEF Conflict
      <4>4. QED  BY <1>1, <3>3, <4>2, <4>3 DEF Placed
    <3>4. CASE ~UsesPath
      <4>1. Endpoint(at) = CurrentState(at) /\ current \in {0, at}
        BY <1>1, <2>2, <3>4 DEF Endpoint, Placed
      <4>2. AllAfter(at)
        BY <1>0, <1>3, <3>1, <3>4, ChoiceMeaning
      <4>3. CurrentState(at) \in {"before", "after"}
        BY <1>0, <4>1 DEF CurrentState
      <4>4. QED  BY <1>4, <3>2, <4>1, <4>2, <4>3 DEF Conflict
    <3>5. QED  BY <3>3, <3>4
  <2>3. QED  BY <2>1, <2>2
<1>5. CASE CurrentConflicts
  BY <1>0, <1>1, <1>2, <1>5 DEF CurrentConflicts, CurrentFits, Held, Placed
<1>6. CASE MarkRefused
  BY <1>1, <1>6 DEF MarkRefused, Placed
<1>7. CASE FinalizeRefused
  BY <1>1, <1>7 DEF FinalizeRefused, Placed
<1>8. CASE UndoConflicts
  BY <1>3, <1>8 DEF UndoConflicts, Judged
<1>9. CASE ClearConflicts
  BY <1>1, <1>9 DEF ClearConflicts, Placed
<1>10. QED  BY <1>4, <1>5, <1>6, <1>7, <1>8, <1>9 DEF Stopping

\* An adoption stays placed while its files and the row are left alone.
LEMMA StaysPlaced ==
  ASSUME NEW i \in Adoptions, Placed(i), intents'[i] = intents[i], backup'[i] = backup[i],
         tree'[i] = tree[i], UNCHANGED <<kind, row, current, path, config>>
  PROVE  Placed(i)'
BY DEF Placed, PathBefore, PathMoved, PathAfter, UsesPath, UsesConfig, Rewritten

\* A stranded adoption stays so, whatever the recovery finds next.
LEMMA StaysStranded ==
  ASSUME NEW i \in Adoptions, Stranded(i), UNCHANGED <<kind, config, current, disturbed>>,
         intents'[i].config = intents[i].config, intents'[current].phase = "blocked",
         pc' \in {"free", "ready", "judge", "current", "mark"}, at' = i => pc' = "judge"
  PROVE  Stranded(i)'
BY DEF Stranded

\* Nothing is taken back while an adoption is stranded.
LEMMA StrandedGoesNowhere ==
  ASSUME TypeOK, InOrder, NEW i \in Adoptions, Stranded(i), Pending(i), at \in Adoptions
  PROVE  ~GoBack /\ (GoForward => at # i)
<1>1. kind = "hook" /\ UsesConfig /\ ~UsesPath /\ config.managed /\ current # 0
  BY Numbers DEF Stranded, UsesConfig, UsesPath
<1>2. ASSUME NEW k \in Adoptions, Pending(k)
      PROVE  Endpoint(k) \notin {"before", "partial"}
  <2>1. CASE Rewrites(k)
    BY <1>1, <1>2, <2>1, Meaning DEF Endpoint, ConfigState
  <2>2. CASE ~Rewrites(k)
    BY <1>1, <2>2 DEF Endpoint, CurrentState
  <2>3. QED  BY <2>1, <2>2
<1>3. ~GoBack
  BY <1>2 DEF GoBack, Judging
<1>4. Endpoint(i) = "conflict"
  <2>1. ~Rewrites(i) /\ current # i
    BY Numbers DEF Stranded, Rewrites
  <2>2. QED  BY <1>1, <2>1 DEF Endpoint, CurrentState
<1>5. GoForward => at # i
  BY <1>4 DEF GoForward, Judging
<1>6. QED  BY <1>3, <1>5

\* The recovery keeps the files of an adoption in one of the states that it knows.
LEMMA RecoveryPlaces ==
  ASSUME AdoptionInv, BlockInv, NEW i \in Adoptions, Pending(i), i \notin disturbed,
         GoForward \/ GoBack \/ EnsureCurrent \/ Undo \/ PutBack \/ ClearCurrent \/ RemoveTree
  PROVE  Placed(i)' \/ Stranded(i)'
<1>0. /\ TypeOK /\ AtHand /\ Applying /\ Undoing /\ BackupsOfCurrent /\ OursIsCurrent /\ Looked
      /\ InOrder /\ Session /\ Judged /\ Older /\ Undisturbed /\ InHand
      /\ backup \in [Adoptions -> Contents \cup {Nothing}]
      /\ tree \in [Adoptions -> {"none", "intact", "changed"}] /\ i # 0
  BY Numbers DEF AdoptionInv, HolderInv, FilesInv, TypeInv, TypeOK, BlockInv
<1>1. /\ at \in Adoptions /\ Pending(at) /\ UNCHANGED <<kind, row, intents, disturbed, config>>
      /\ UNCHANGED at
  BY <1>0, Numbers DEF GoForward, GoBack, EnsureCurrent, Undo, PutBack, ClearCurrent, RemoveTree,
         Judging, Goto, AtHand, TypeOK, journal, files, env, hist
<1>2. at # i => /\ at < i /\ intents[at].phase = "blocked" /\ at \in disturbed
                /\ backup[at] = Nothing
  BY <1>0, <1>1, AloneButOlder
<1>3. Placed(i) \/ Stranded(i)
  BY <1>0 DEF Undisturbed
<1>4. ~AllDisturbed
  BY DEF AllDisturbed
<1>5. at = i => Held(i)
  BY <1>0 DEF InHand
<1>6. CASE GoForward
  <2>1. UNCHANGED <<current, path, backup, tree>> /\ pc' = "current"
    BY <1>6 DEF GoForward, files, Goto
  <2>2. CASE Placed(i)
    BY <1>1, <2>1, <2>2, StaysPlaced
  <2>3. CASE Stranded(i)
    <3>1. at # i
      BY <1>0, <1>1, <1>6, <2>3, StrandedGoesNowhere
    <3>2. intents'[current].phase = "blocked"
      BY <1>1, <2>3 DEF Stranded
    <3>3. QED  BY <1>1, <2>1, <2>3, <3>1, <3>2, StaysStranded
  <2>4. QED  BY <1>3, <2>2, <2>3
<1>7. CASE GoBack
  <2>1. UNCHANGED <<current, path, backup, tree>>
    BY <1>7 DEF GoBack, files
  <2>2. Placed(i)
    BY <1>0, <1>1, <1>3, <1>7, StrandedGoesNowhere
  <2>3. QED  BY <1>1, <2>1, <2>2, StaysPlaced
<1>8. CASE EnsureCurrent
  <2>1. /\ UNCHANGED <<path, backup, tree>> /\ pc = "current" /\ pc' = "mark"
        /\ current' = at /\ current \in {0, at} /\ tree[at] = "intact"
    BY <1>8 DEF EnsureCurrent, CurrentFits, Goto
  <2>2. AllAfter(at)
    BY <1>0, <1>4, <2>1 DEF Judged, Looked
  <2>3. CASE at = i
    <3>1. Placed(i)
      BY <1>3, <2>1, <2>3 DEF Stranded
    <3>2. current = i
      BY <1>5, <2>1, <2>3 DEF Held
    <3>3. QED  BY <1>1, <2>1, <2>3, <3>1, <3>2, StaysPlaced
  <2>4. CASE at # i
    <3>1. CASE Stranded(i)
      <4>1. current = at
        BY <2>1, <3>1, Numbers DEF Stranded
      <4>2. intents'[current].phase = "blocked"
        BY <1>1, <3>1 DEF Stranded
      <4>3. QED  BY <1>1, <2>1, <2>4, <3>1, <4>1, <4>2, StaysStranded
    <3>2. CASE Placed(i)
      <4>1. current = 0
        BY <2>1, <2>4, <3>2 DEF Placed
      <4>2. ~UsesPath
        <5>1. path # Ours
          BY <1>0, <4>1 DEF OursIsCurrent
        <5>2. QED  BY <1>0, <1>1, <2>2, <5>1, ChoiceMeaning DEF PathAfter
      <4>3. kind = "hook" /\ config = Rewritten(at) /\ config.managed
        BY <1>0, <1>1, <2>2, <4>2, Meaning, ChoiceMeaning
      <4>4. config = intents[i].config
        BY <1>0, <3>2, <4>1, <4>3 DEF Placed, UsesConfig
      <4>5. at \in 1..(i - 1)
        BY <1>1, <1>2, <2>4 DEF Adoptions
      <4>6. QED  BY <1>1, <1>2, <2>1, <2>4, <4>3, <4>4, <4>5 DEF Stranded
    <3>3. QED  BY <1>3, <3>1, <3>2
  <2>5. QED  BY <2>3, <2>4
<1>9. CASE Undo
  <2>1. /\ UNCHANGED <<current, backup, tree>> /\ pc = "undo" /\ path' = TakenOut(at)
        /\ MayUndo(at) /\ Endpoint(at) \in {"before", "partial"}
    BY <1>0, <1>4, <1>9 DEF Undo, Judged
  <2>2. Placed(i)
    BY <1>3, <2>1 DEF Stranded
  <2>3. CASE ~UsesPath \/ PathState(at) # "after"
    BY <1>1, <2>1, <2>2, <2>3, StaysPlaced DEF TakenOut
  <2>4. CASE UsesPath /\ PathState(at) = "after"
    <3>1. path' = Nothing /\ PathAfter(at)
      BY <1>0, <1>1, <2>1, <2>4, Meaning DEF TakenOut
    <3>2. PathAfter(i)
      BY <1>0, <2>2, <2>4, <3>1, Numbers DEF Placed, PathAfter, PathBefore, PathMoved, TypeOK
    <3>3. Rewrites(at)
      BY <2>1, <2>4 DEF Endpoint
    <3>4. config = intents[at].config /\ ~config.managed /\ UsesConfig
      BY <1>0, <1>1, <2>1, <3>3, Meaning, ChoiceMeaning DEF Restorable
    <3>5. config = intents[i].config
      BY <1>0, <2>2, <3>4, Meaning DEF Placed
    <3>6. PathMoved(i)'
      BY <1>1, <2>1, <3>1, <3>2 DEF PathMoved, PathAfter
    <3>7. QED
      BY <1>1, <2>1, <2>2, <3>5, <3>6 DEF Placed, UsesPath, UsesConfig
  <2>5. QED  BY <2>3, <2>4
<1>10. CASE PutBack
  <2>1. /\ pc = "putback" /\ path = Nothing /\ backup[at] # Nothing
        /\ path' = backup[at] /\ backup' = [backup EXCEPT ![at] = Nothing]
        /\ UNCHANGED <<current, tree>>
    BY <1>0, <1>10 DEF PutBack, Undoing
  <2>2. at = i
    BY <1>2, <2>1
  <2>3. Placed(i)
    BY <1>3, <2>1 DEF Stranded
  <2>4. UsesPath /\ PathMoved(i)
    <3>1. UsesPath
      BY <1>0, <1>1, <2>1 DEF BackupsOfCurrent
    <3>2. QED  BY <2>1, <2>2, <2>3, <3>1, Numbers DEF Placed, PathMoved, PathBefore, PathAfter
  <2>5. PathBefore(i)'
    BY <1>0, <1>1, <2>1, <2>2, <2>4 DEF PathMoved, PathBefore
  <2>6. UsesConfig => config = intents[i].config
    BY <1>5, <2>1, <2>2 DEF Held, TakingBack
  <2>7. QED  BY <1>1, <2>1, <2>3, <2>5, <2>6 DEF Placed, UsesPath, UsesConfig
<1>11. CASE ClearCurrent
  <2>1. pc = "clear" /\ current \in {0, at} /\ current' = 0 /\ UNCHANGED <<path, backup, tree>>
    BY <1>11 DEF ClearCurrent
  <2>2. Placed(i)
    BY <1>3, <2>1 DEF Stranded
  <2>3. CASE at = i
    <3>1. /\ UsesConfig => config = intents[i].config
          /\ UsesPath => PathBefore(i)
      BY <1>5, <2>1, <2>3 DEF Held, TakingBack
    <3>2. QED
      BY <1>1, <2>1, <2>2, <3>1 DEF Placed, PathBefore, UsesPath, UsesConfig
  <2>4. CASE at # i
    <3>1. current = 0
      BY <2>1, <2>2, <2>4 DEF Placed
    <3>2. QED  BY <1>1, <2>1, <2>2, <3>1, StaysPlaced
  <2>5. QED  BY <2>3, <2>4
<1>12. CASE RemoveTree
  <2>1. /\ pc = "remove" /\ tree' = [tree EXCEPT ![at] = "none"] /\ current # at
        /\ UNCHANGED <<current, path, backup>>
    BY <1>0, <1>12 DEF RemoveTree, Undoing
  <2>2. Placed(i)
    BY <1>3, <2>1 DEF Stranded
  <2>3. CASE at = i
    <3>1. current = 0 /\ tree'[i] = "none"
      BY <1>0, <2>1, <2>2, <2>3 DEF Placed
    <3>2. QED
      BY <1>1, <2>1, <2>2, <3>1
      DEF Placed, PathBefore, PathMoved, PathAfter, UsesPath, UsesConfig, Rewritten
  <2>4. CASE at # i
    <3>1. tree'[i] = tree[i]
      BY <1>0, <2>1, <2>4
    <3>2. QED  BY <1>1, <2>1, <2>2, <3>1, StaysPlaced
  <2>5. QED  BY <2>3, <2>4
<1>13. QED  BY <1>6, <1>7, <1>8, <1>9, <1>10, <1>11, <1>12

\* So does the adoption itself, at each of its steps.
LEMMA AdoptPlaces ==
  ASSUME AdoptionInv, BlockInv, NEW i \in Adoptions, Pending(i), i \notin disturbed,
         SwitchCurrent \/ Link \/ MoveAside \/ PutOurs \/ ApplyMutation
  PROVE  Placed(i)'
<1>0. /\ TypeOK /\ AtHand /\ Applying /\ BackupsOfCurrent /\ OursIsCurrent
      /\ InOrder /\ Session /\ Undisturbed /\ InHand
      /\ backup \in [Adoptions -> Contents \cup {Nothing}] /\ i # 0
  BY Numbers DEF AdoptionInv, HolderInv, FilesInv, TypeInv, TypeOK, BlockInv
<1>1. /\ pc \in Adopting \ {"plan"} /\ UNCHANGED <<kind, row, intents, tree>>
  BY DEF SwitchCurrent, Link, MoveAside, PutOurs, ApplyMutation, Adopting, journal, env
<1>2. at = i
  BY <1>0, <1>1, NobodyElse
<1>3. Held(i)
  BY <1>0, <1>2 DEF InHand
<1>4. Placed(i)
  BY <1>0, <1>1 DEF Undisturbed, Stranded, Adopting
<1>5. /\ UsesConfig => config = intents[i].config
      /\ tree[i] = "intact"
  BY <1>1, <1>3 DEF Held
<1>6. CASE SwitchCurrent
  BY <1>1, <1>2, <1>4, <1>5, <1>6
  DEF SwitchCurrent, Placed, PathBefore, PathMoved, PathAfter, UsesPath, UsesConfig
<1>7. CASE Link
  BY <1>1, <1>2, <1>4, <1>7, StaysPlaced DEF Link
<1>8. CASE MoveAside
  <2>1. /\ UsesPath /\ pc \in {"apply", "linked"} /\ intents[i].path # Nothing
        /\ backup' = [backup EXCEPT ![i] = path] /\ path' = Nothing
        /\ UNCHANGED <<current, config>>
    BY <1>2, <1>8 DEF MoveAside
  <2>2. PathBefore(i)
    BY <1>3, <2>1 DEF Held
  <2>3. PathMoved(i)'
    BY <1>0, <1>1, <2>1, <2>2 DEF PathBefore, PathMoved
  <2>4. QED  BY <1>1, <1>4, <1>5, <2>1, <2>3 DEF Placed, UsesPath, UsesConfig
<1>9. CASE PutOurs
  <2>1. path' = Ours /\ UNCHANGED <<current, config, backup>>
    BY <1>9 DEF PutOurs
  <2>2. backup[i] = intents[i].path
    <3>1. CASE pc = "moved"
      BY <1>3, <3>1 DEF Held, PathMoved
    <3>2. CASE pc = "apply" /\ kind \in {"cli", "stdio"} /\ intents[i].path = Nothing
      BY <1>3, <3>2 DEF Held, PathBefore, UsesPath
    <3>3. QED  BY <1>2, <1>9, <3>1, <3>2 DEF PutOurs
  <2>3. PathAfter(i)'
    BY <1>1, <2>1, <2>2 DEF PathAfter, Ours
  <2>4. QED  BY <1>1, <1>4, <1>5, <2>1, <2>3 DEF Placed, UsesPath, UsesConfig
<1>10. CASE ApplyMutation
  <2>1. /\ UNCHANGED <<current, path, backup>>
        /\ config' = IF Rewrites(i) THEN Rewritten(i) ELSE config
    BY <1>2, <1>10 DEF ApplyMutation
  <2>2. current = i
    BY <1>0, <1>2, <1>10 DEF ApplyMutation, Applying
  <2>3. UsesPath => PathAfter(i)
    BY <1>3, <1>10 DEF ApplyMutation, Held
  <2>4. QED
    BY <1>1, <1>4, <1>5, <2>1, <2>2, <2>3
    DEF Placed, PathBefore, PathMoved, PathAfter, UsesPath, UsesConfig, Rewritten
<1>11. QED  BY <1>6, <1>7, <1>8, <1>9, <1>10

\* An adoption that nobody has disturbed stays so, or is stranded.
LEMMA UndisturbedKept ==
  ASSUME AdoptionInv, BlockInv, [Next]_vars
  PROVE  Undisturbed'
<1> SUFFICES ASSUME NEW i \in Adoptions, Pending(i)', i \notin disturbed'
             PROVE  Placed(i)' \/ Stranded(i)'
  BY DEF Undisturbed
<1>0. /\ TypeOK /\ AtHand /\ Applying /\ Undoing /\ BackupsOfCurrent /\ OursIsCurrent
      /\ InOrder /\ Session /\ Older /\ Undisturbed /\ InHand /\ WorkOK
      /\ intents \in [Adoptions -> IntentRow] /\ i # 0
      /\ tree \in [Adoptions -> {"none", "intact", "changed"}]
  BY Numbers DEF AdoptionInv, HolderInv, FilesInv, TypeInv, TypeOK, IntentRow, BlockInv, WorkOK
<1>1. ~Interrupting /\ UNCHANGED <<kind, disturbed>> /\ i \notin disturbed
  <2>1. ~Interrupting
    BY <1>0, Disturbing DEF AllDisturbed
  <2>2. QED  BY <1>0, <2>1, Disturbed
<1>2. Pending(i) => Placed(i) \/ Stranded(i)
  BY <1>0, <1>1 DEF Undisturbed
<1>3. CASE Turning
  <2>1. /\ UNCHANGED <<row, intents, current, path, backup, tree, config>>
        /\ pc' \in {"free", "ready", "judge"} /\ (at' = i => pc' = "judge")
    BY <1>0, <1>3, TurningWritten DEF files, Idle, WorkOK
  <2>2. Pending(i)
    BY <2>1 DEF Pending
  <2>3. CASE Placed(i)
    BY <1>1, <2>1, <2>3, StaysPlaced
  <2>4. CASE Stranded(i)
    <3>1. intents'[current].phase = "blocked"
      BY <2>1, <2>4 DEF Stranded
    <3>2. QED  BY <1>1, <2>1, <2>4, <3>1, StaysStranded
  <2>5. QED  BY <1>2, <2>2, <2>3, <2>4
<1>4. CASE Stopping
  <2>1. /\ at \in Adoptions /\ PhaseSet(at, "blocked") /\ Pending(at)
        /\ UNCHANGED <<row, current, path, backup, tree, config>>
        /\ pc' \in {"free", "ready", "judge"} /\ (at' = i => pc' = "judge")
    BY <1>0, <1>4, StoppingWritten DEF files, Idle, WorkOK
  <2>2. Pending(i)
    BY <2>1 DEF PhaseSet, Pending
  <2>3. CASE Stranded(i)
    <3>1. current \in Adoptions
      BY <2>3, BoundsAssumption DEF Stranded, Adoptions
    <3>2. intents'[current].phase = "blocked" /\ intents'[i].config = intents[i].config
      BY <2>1, <2>3, <3>1 DEF PhaseSet, Stranded
    <3>3. QED  BY <1>1, <2>1, <2>3, <3>2, StaysStranded
  <2>4. CASE Placed(i) /\ i # at
    <3>1. intents'[i] = intents[i]
      BY <2>1, <2>4 DEF PhaseSet
    <3>2. QED  BY <1>1, <2>1, <2>4, <3>1, StaysPlaced
  <2>5. CASE i = at
    <3>1. Stranded(i)
      BY <1>1, <1>4, <2>5, StopsAtStranded
    <3>2. QED  BY <2>3, <3>1
  <2>6. QED  BY <1>2, <2>2, <2>3, <2>4, <2>5
<1>5. CASE Finalize
  <2>1. /\ at \in Adoptions /\ PhaseSet(at, "committed") /\ intents[at].phase = "switched"
    BY <1>0, <1>5, FinalizeWritten
  <2>2. at # i /\ Pending(i) /\ Pending(at)
    BY <2>1 DEF PhaseSet, Pending
  <2>3. QED  BY <1>0, <1>1, <2>1, <2>2, AloneButOlder
<1>6. CASE MarkRolledBack
  <2>1. /\ at \in Adoptions /\ PhaseSet(at, "rolled_back") /\ pc = "unmark"
        /\ UNCHANGED <<row, current, path, backup, tree, config>>
    BY <1>0, <1>6, MarkRolledBackWritten DEF files
  <2>2. at # i /\ Pending(i) /\ intents'[i] = intents[i]
    BY <2>1 DEF PhaseSet, Pending
  <2>3. Placed(i)
    BY <1>2, <2>1, <2>2 DEF Stranded
  <2>4. QED  BY <1>1, <2>1, <2>2, <2>3, StaysPlaced
<1>7. CASE MarkSwitched
  <2>1. /\ at \in Adoptions /\ PhaseSet(at, "switched") /\ Pending(at) /\ pc = "mark"
        /\ intents[at].phase # "blocked"
        /\ UNCHANGED <<row, current, path, backup, tree, config>>
    BY <1>0, <1>7, MarkSwitchedWritten DEF files, MarkSwitched
  <2>2. Pending(i)
    BY <2>1 DEF PhaseSet, Pending
  <2>3. at = i
    BY <1>0, <1>1, <2>1, <2>2, AloneButOlder
  <2>4. Placed(i)
    BY <1>2, <2>1, <2>2, <2>3 DEF Stranded
  <2>5. QED
    BY <1>1, <2>1, <2>3, <2>4
    DEF PhaseSet, Placed, PathBefore, PathMoved, PathAfter, UsesPath, UsesConfig, Rewritten
<1>8. CASE Beginning
  <2>1. pc = "ready" /\ current = 0 /\ intents' = intents
    BY <1>0, <1>8, BeginningWritten
  <2>2. Pending(i)
    BY <2>1 DEF Pending
  <2>3. QED  BY <1>0, <1>1, <2>1, <2>2, NobodyElse
<1>9. CASE Planning
  <2>1. /\ at \in Adoptions /\ pc = "plan" /\ current = 0 /\ intents[at].phase = "none"
        /\ intents' = [intents EXCEPT ![at] = Plan]
        /\ UNCHANGED <<row, current, path, backup, tree, config>>
    BY <1>0, <1>9, PlanningWritten DEF files
  <2>2. i = at
    <3>1. ASSUME i # at  PROVE FALSE
      <4>1. Pending(i)
        BY <1>0, <2>1, <3>1 DEF Pending
      <4>2. QED  BY <1>0, <1>1, <2>1, <3>1, <4>1, NobodyElse DEF Adopting
    <3>2. QED  BY <3>1
  <2>3. intents'[i] = Plan /\ tree[i] = "intact" /\ backup[i] = Nothing
    <3>1. tree[i] = "intact"
      BY <1>0, <1>1, <2>1, <2>2 DEF InHand, Held, Adopting
    <3>2. QED  BY <1>0, <2>1, <2>2, <3>1 DEF BackupsOfCurrent
  <2>4. /\ Plan.phase = "prepared" /\ Plan.row = row
        /\ UsesPath => Plan.path = path
        /\ UsesConfig => Plan.config = config
    BY DEF Plan
  <2>5. QED
    BY <1>1, <2>1, <2>3, <2>4
    DEF Placed, PathBefore, UsesPath, UsesConfig
<1>10. CASE GoForward \/ GoBack \/ EnsureCurrent \/ Undo \/ PutBack \/ ClearCurrent \/ RemoveTree
  <2>1. Pending(i)
    BY <1>10 DEF GoForward, GoBack, EnsureCurrent, Undo, PutBack, ClearCurrent, RemoveTree,
         journal, Pending
  <2>2. QED  BY <1>1, <1>10, <2>1, RecoveryPlaces
<1>11. CASE SwitchCurrent \/ Link \/ MoveAside \/ PutOurs \/ ApplyMutation
  <2>1. Pending(i)
    BY <1>11 DEF SwitchCurrent, Link, MoveAside, PutOurs, ApplyMutation, journal, Pending
  <2>2. QED  BY <1>1, <1>11, <2>1, AdoptPlaces
<1>12. CASE PlanRefused
  <2>1. pc = "plan" /\ intents' = intents /\ tree' = [tree EXCEPT ![at] = "none"]
    BY <1>12 DEF PlanRefused, journal
  <2>2. Pending(i) /\ at # i
    BY <1>0, <2>1 DEF AtHand, Pending
  <2>3. QED  BY <1>0, <1>1, <2>1, <2>2, NobodyElse DEF Adopting
<1>13. CASE Preview \/ ScanReads \/ UNCHANGED vars
  <2>1. UNCHANGED <<row, intents, current, path, backup, tree, config, pc, at>>
    BY <1>13 DEF Preview, ScanReads, vars, journal, files, work
  <2>2. Pending(i)
    BY <2>1 DEF Pending
  <2>3. CASE Placed(i)
    BY <1>1, <2>1, <2>3, StaysPlaced
  <2>4. CASE Stranded(i)
    BY <1>1, <2>1, <2>4 DEF Stranded
  <2>5. QED  BY <1>2, <2>2, <2>3, <2>4
<1>14. QED
  BY <1>1, <1>3, <1>4, <1>5, <1>6, <1>7, <1>8, <1>9, <1>10, <1>11, <1>12, <1>13, NextCases
  DEF Interrupting, Working

\* The steps of the holder follow one another.
LEMMA InHandKept ==
  ASSUME AdoptionInv, BlockInv, [Next]_vars
  PROVE  InHand'
<1> SUFFICES ASSUME NEW i \in Adoptions, at' = i, i \notin disturbed'
             PROVE  Held(i)'
  BY DEF InHand
<1>0. /\ TypeOK /\ AtHand /\ Applying /\ Undoing /\ BackupsOfCurrent /\ OursIsCurrent
      /\ InOrder /\ Judged /\ Undisturbed /\ InHand
      /\ intents \in [Adoptions -> IntentRow] /\ i # 0
      /\ backup \in [Adoptions -> Contents \cup {Nothing}]
      /\ tree \in [Adoptions -> {"none", "intact", "changed"}]
  BY Numbers DEF AdoptionInv, HolderInv, FilesInv, TypeInv, TypeOK, IntentRow, BlockInv
<1>1. ~Interrupting /\ UNCHANGED <<kind, disturbed>> /\ i \notin disturbed
  <2>1. ~Interrupting
    BY <1>0, Disturbing, InterruptingWritten
  <2>2. QED  BY <1>0, <2>1, Disturbed
<1>2. at = i => Held(i)
  BY <1>0, <1>1 DEF InHand
<1>3. Pending(i) => Placed(i) \/ Stranded(i)
  BY <1>0, <1>1 DEF Undisturbed
<1>4. CASE pc' \notin Adopting \cup TakingBack \cup {"current"}
  BY <1>4 DEF Held, Adopting, TakingBack
<1>5. CASE Turning \/ Stopping \/ Finalize \/ MarkRolledBack \/ MarkSwitched
  <2>1. pc' \in {"free", "ready", "judge", "finalize"}
    BY <1>0, <1>5, TurningWritten, StoppingWritten, FinalizeWritten, MarkRolledBackWritten,
       MarkSwitchedWritten DEF Idle
  <2>2. QED  BY <1>4, <2>1 DEF Adopting, TakingBack
<1>6. CASE Beginning
  <2>1. tree' = [tree EXCEPT ![i] = "intact"] /\ pc' = "plan"
    BY <1>0, <1>6, BeginningWritten
  <2>2. QED  BY <1>0, <2>1 DEF Held, Adopting, TakingBack
<1>7. CASE Planning
  <2>1. /\ at = i /\ pc = "plan" /\ pc' = "journaled" /\ current = 0
        /\ intents' = [intents EXCEPT ![i] = Plan]
        /\ UNCHANGED <<path, backup, tree, config>>
    BY <1>0, <1>7, PlanningWritten DEF files
  <2>2. intents'[i] = Plan /\ tree[i] = "intact" /\ backup[i] = Nothing
    BY <1>0, <1>2, <2>1 DEF Held, Adopting, BackupsOfCurrent
  <2>3. /\ UsesPath => Plan.path = path
        /\ UsesConfig => Plan.config = config
    BY DEF Plan
  <2>4. QED
    BY <1>1, <2>1, <2>2, <2>3 DEF Held, Adopting, TakingBack, PathBefore, UsesPath, UsesConfig
<1>8. CASE GoForward
  <2>1. /\ at = i /\ Pending(i) /\ Endpoint(i) = "after" /\ AllAfter(i) /\ pc' = "current"
        /\ current' = current
    BY <1>8 DEF GoForward, Judging, Goto, files
  <2>2. Placed(i)
    BY <1>0, <1>3, <1>8, <2>1, StrandedGoesNowhere
  <2>3. current = i
    <3>1. CASE Rewrites(i)
      BY <1>0, <2>1, <2>2, <3>1, Meaning, ChoiceMeaning DEF Placed
    <3>2. CASE ~Rewrites(i) /\ UsesPath
      BY <1>0, <2>1, <2>2, <3>2, ChoiceMeaning DEF Placed, PathAfter, OursIsCurrent
    <3>3. CASE ~Rewrites(i) /\ ~UsesPath
      BY <2>1, <2>2, <3>3 DEF Placed, Endpoint, CurrentState
    <3>4. QED  BY <3>1, <3>2, <3>3
  <2>4. QED  BY <2>1, <2>3 DEF Held, Adopting, TakingBack
<1>9. CASE GoBack
  <2>1. /\ at = i /\ Pending(i) /\ MayUndo(i) /\ pc' = "undo" /\ UNCHANGED <<intents, config>>
    BY <1>9 DEF GoBack, Judging, Goto, journal, files
  <2>2. UsesConfig => config = intents[i].config
    BY <1>0, <2>1, ChoiceMeaning DEF Restorable
  <2>3. QED  BY <1>1, <2>1, <2>2 DEF Held, Adopting, TakingBack, UsesConfig
<1>10. CASE EnsureCurrent \/ ApplyMutation
  <2>1. pc' \in {"mark", "judge"}
    BY <1>10 DEF EnsureCurrent, ApplyMutation, Goto, Recovering
  <2>2. QED  BY <1>4, <2>1 DEF Adopting, TakingBack
<1>11. CASE PlanRefused
  BY <1>0, <1>11 DEF PlanRefused, Exit
<1>12. CASE Undo
  <2>1. /\ at = i /\ pc = "undo" /\ Pending(i) /\ path' = TakenOut(i)
        /\ pc' = IF UsesPath /\ PathState(i) # "before" /\ backup[i] # Nothing
                 THEN "putback" ELSE "clear"
        /\ UNCHANGED <<intents, backup, config>>
    BY <1>0, <1>12 DEF Undo, Goto, AtHand, journal
  <2>2. Placed(i) /\ (UsesConfig => config = intents[i].config)
    BY <1>2, <1>3, <2>1 DEF Stranded, Held, TakingBack
  <2>3. ASSUME pc' = "clear", UsesPath  PROVE PathBefore(i)'
    <3>1. CASE PathBefore(i)
      <4>1. path' = path
        BY <1>0, <2>1, <2>3, <3>1, Meaning DEF TakenOut
      <4>2. QED  BY <2>1, <3>1, <4>1 DEF PathBefore
    <3>2. CASE ~PathBefore(i)
      <4>1. PathAfter(i) \/ PathMoved(i)
        BY <2>2, <2>3, <3>2 DEF Placed
      <4>2. backup[i] = Nothing
        <5>1. PathState(i) # "before"
          BY <1>0, <2>1, <2>3, <3>2, <4>1, Meaning, Numbers
          DEF PathState, InstallState, ShimState, PathBefore
        <5>2. QED  BY <2>1, <2>3, <5>1
      <4>3. PathAfter(i)
        BY <3>2, <4>1, <4>2 DEF PathBefore, PathMoved
      <4>4. path' = Nothing
        BY <1>0, <2>1, <2>3, <4>3, Meaning DEF TakenOut
      <4>5. QED  BY <2>1, <4>2, <4>3, <4>4 DEF PathBefore, PathAfter
    <3>3. QED  BY <3>1, <3>2
  <2>4. QED
    BY <1>1, <2>1, <2>2, <2>3 DEF Held, Adopting, TakingBack, UsesPath, UsesConfig
<1>13. CASE PutBack
  <2>1. /\ at = i /\ pc = "putback" /\ pc' = "clear" /\ Pending(i)
        /\ path = Nothing /\ backup[i] # Nothing
        /\ path' = backup[i] /\ backup' = [backup EXCEPT ![i] = Nothing]
        /\ UNCHANGED <<intents, config>>
    BY <1>0, <1>13 DEF PutBack, Goto, AtHand, Undoing, journal
  <2>2. Placed(i) /\ (UsesConfig => config = intents[i].config)
    BY <1>2, <1>3, <2>1 DEF Stranded, Held, TakingBack
  <2>3. UsesPath
    BY <1>0, <2>1 DEF BackupsOfCurrent
  <2>4. PathMoved(i)
    BY <2>1, <2>2, <2>3, Numbers DEF Placed, PathMoved, PathBefore, PathAfter
  <2>5. PathBefore(i)'
    BY <1>0, <2>1, <2>4 DEF PathMoved, PathBefore
  <2>6. QED  BY <1>1, <2>1, <2>2, <2>5 DEF Held, Adopting, TakingBack, UsesConfig
<1>14. CASE ClearCurrent \/ RemoveTree
  <2>1. /\ at = i /\ pc \in {"clear", "remove"} /\ pc' \in {"remove", "unmark"}
        /\ UNCHANGED <<intents, path, backup, config>>
    BY <1>14 DEF ClearCurrent, RemoveTree, Goto, journal
  <2>2. QED
    BY <1>1, <1>2, <2>1 DEF Held, Adopting, TakingBack, PathBefore, UsesPath, UsesConfig
<1>15. CASE SwitchCurrent \/ Link
  <2>1. /\ at = i /\ pc \in {"journaled", "apply"} /\ pc' \in {"apply", "linked"}
        /\ UNCHANGED <<intents, tree, path, backup, config>>
    BY <1>15 DEF SwitchCurrent, Link, Goto, journal
  <2>2. QED
    BY <1>1, <1>2, <2>1 DEF Held, Adopting, TakingBack, PathBefore, UsesPath, UsesConfig
<1>16. CASE MoveAside
  <2>1. /\ at = i /\ pc \in {"apply", "linked"} /\ UsesPath /\ pc' = "moved"
        /\ backup' = [backup EXCEPT ![i] = path] /\ path' = Nothing
        /\ UNCHANGED <<intents, tree, config>>
    BY <1>16 DEF MoveAside, Goto, journal
  <2>2. PathBefore(i) /\ tree[i] = "intact" /\ (UsesConfig => config = intents[i].config)
    BY <1>2, <2>1 DEF Held, Adopting
  <2>3. PathMoved(i)'
    BY <1>0, <2>1, <2>2 DEF PathBefore, PathMoved
  <2>4. QED  BY <1>1, <2>1, <2>2, <2>3 DEF Held, Adopting, TakingBack, UsesConfig
<1>17. CASE PutOurs
  <2>1. /\ at = i /\ pc \in {"apply", "moved"} /\ pc' = "config" /\ path' = Ours
        /\ UNCHANGED <<intents, tree, backup, config>>
    BY <1>17 DEF PutOurs, Goto, journal
  <2>2. tree[i] = "intact" /\ (UsesConfig => config = intents[i].config)
    BY <1>2, <2>1 DEF Held, Adopting
  <2>3. backup[i] = intents[i].path
    <3>1. CASE pc = "moved"
      BY <1>2, <2>1, <3>1 DEF Held, PathMoved
    <3>2. CASE pc = "apply" /\ kind \in {"cli", "stdio"}
      BY <1>2, <1>17, <2>1, <3>2 DEF PutOurs, Held, PathBefore, UsesPath
    <3>3. QED  BY <1>17, <3>1, <3>2 DEF PutOurs
  <2>4. PathAfter(i)'
    BY <2>1, <2>3 DEF PathAfter, Ours
  <2>5. QED  BY <1>1, <2>1, <2>2, <2>4 DEF Held, Adopting, TakingBack, UsesConfig
<1>18. CASE Preview \/ ScanReads \/ UNCHANGED vars
  <2>1. UNCHANGED <<intents, current, path, backup, tree, config, pc, at>>
    BY <1>18 DEF Preview, ScanReads, vars, journal, files, work
  <2>2. Held(i)
    BY <1>2, <2>1
  <2>3. QED
    BY <1>1, <2>1, <2>2 DEF Held, PathBefore, PathMoved, PathAfter, UsesPath, UsesConfig
<1>19. QED
  BY <1>1, <1>5, <1>6, <1>7, <1>8, <1>9, <1>10, <1>11, <1>12, <1>13, <1>14, <1>15, <1>16,
     <1>17, <1>18, NextCases DEF Interrupting, Working

-----------------------------------------------------------------------------
(* The theorem. *)

\* Nothing is open in the beginning.
LEMMA InitBlockInv == Init => BlockInv
<1> SUFFICES ASSUME Init  PROVE BlockInv
  OBVIOUS
<1>1. pc = "free" /\ todo = {} /\ at = 0 /\ 0 \notin Adoptions
  BY Numbers DEF Init
<1>2. \A i \in Adoptions : intents[i] = NoIntent /\ NoIntent.phase = "none" /\ ~Pending(i)
  BY DEF Init, NoIntent, Pending
<1>3. InOrder /\ Session /\ Judged
  BY <1>1, <1>2 DEF InOrder, Session, Judged
<1>4. Older /\ Undisturbed /\ InHand
  BY <1>1, <1>2 DEF Older, Undisturbed, InHand
<1>5. QED  BY <1>3, <1>4 DEF BlockInv

\* What is known of the adoptions that nobody has disturbed holds in every state.
THEOREM UndisturbedCorrect == Spec => []BlockInv
<1>1. AdoptionInv /\ BlockInv /\ [Next]_vars => BlockInv'
  <2> SUFFICES ASSUME AdoptionInv, BlockInv, [Next]_vars  PROVE BlockInv'
    OBVIOUS
  <2>1. InOrder' /\ Session' /\ Judged' /\ Older'
    BY InOrderKept, SessionKept, JudgedKept, OlderKept DEF BlockInv
  <2>2. Undisturbed' /\ InHand'
    BY UndisturbedKept, InHandKept
  <2>3. QED  BY <2>1, <2>2 DEF BlockInv
<1>2. QED  BY <1>1, InitBlockInv, AdoptionCorrect, PTL DEF Spec

\* adopt_recovery.go:101, :131: the recovery can finish every adoption or take it back, at
\* whatever point it stopped, unless others changed its files or its row, or those of an
\* earlier one that is blocked since then.
THEOREM BlockedCorrect == Spec => []BlockedOnlyByOthers
<1>1. AdoptionInv /\ BlockInv => BlockedOnlyByOthers
  <2> SUFFICES ASSUME AdoptionInv, BlockInv, NEW i \in Adoptions, intents[i].phase = "blocked"
               PROVE  \E j \in 1..i : j \in disturbed /\ intents[j].phase = "blocked"
    BY DEF BlockedOnlyByOthers, Excused
  <2>1. CASE i \in disturbed
    <3>1. i \in 1..i
      BY BoundsAssumption DEF Adoptions
    <3>2. QED  BY <2>1, <3>1
  <2>2. CASE i \notin disturbed
    <3>1. Stranded(i)
      BY <2>2 DEF BlockInv, Undisturbed, Pending, Placed
    <3>2. current \in 1..i /\ current \in disturbed /\ intents[current].phase = "blocked"
      BY <3>1, BoundsAssumption DEF Stranded, Adoptions
    <3>3. QED  BY <3>2
  <2>3. QED  BY <2>1, <2>2
<1>2. QED  BY <1>1, AdoptionCorrect, UndisturbedCorrect, PTL


(***************************************************************************)
(* The effects together: which command moves is chosen at the beginning,   *)
(* so what holds of each module holds of all behaviours of MCEffects.      *)
(***************************************************************************)

(* The theorems about the store, the drivers and the setup, of the         *)
(* commands that move there.                                               *)
OP == INSTANCE ObjectStoreProofs WITH
       Procs <- {p1}, Files <- {f, g}, MaxEdit <- 2, MaxFault <- 1,
       tree <- source, edits <- oEdits, pc <- oPc, job <- oJob, faults <- oFaults
DP == INSTANCE DriverProofs WITH
       N <- 2, Retries <- 2, kind <- drivers, path <- installations, item <- dItem, at <- dAt,
       tries <- dTries
UP == INSTANCE SetupProofs WITH
       MaxEvent <- 3, MaxReset <- 1,
       lock <- uLock, pc <- uPc, at <- uAt, late <- uLate, edits <- uEdits

allVars == <<which, vars, oVars, dVars, uVars>>

\* A command that does not move keeps its state.
LEMMA CommandsTurn ==
  ASSUME [EffectsNext]_allVars
  PROVE  [Next]_vars /\ [O!Next]_oVars /\ [D!Next]_dVars /\ [U!Next]_uVars
BY DEF EffectsNext, AdoptionNext, CaptureNext, DriverNext, SetupNext, allVars

\* The adoption behaves as in Adoption.
THEOREM AdoptionAmongEffects == EffectsSpec => Spec
<1>1. EffectsInit => Init
  BY DEF EffectsInit
<1>2. [EffectsNext]_allVars => [Next]_vars
  BY CommandsTurn
<1>3. QED  BY <1>1, <1>2, PTL DEF EffectsSpec, Spec, allVars

\* The captures begin as their module says.
LEMMA CapturesBegin ==
  ASSUME O!Init
  PROVE  OP!Init
BY DEF O!Init, O!NoJob, O!Empty,
       OP!Init, OP!NoJob, OP!Empty

\* They move as their module says.
LEMMA CapturesMove ==
  ASSUME [O!Next]_oVars
  PROVE  [OP!Next]_(OP!vars)
<1>1. O!Next => OP!Next
  BY DEF O!Next, O!Step, O!Crash, O!Edit, O!Rot, O!CaptureTree, O!PutTree, O!Rename,
         O!FingerprintTree, O!Compare, O!PutBlob, O!MaterializeFile, O!HashFile, O!Goto, O!NoJob,
         O!user, O!store, O!work, O!Walk, O!Entries, O!Empty, O!Unchanged, O!Stop, O!Storable,
         O!Visit, O!OpenBlob,
         OP!Next, OP!Step, OP!Crash, OP!Edit, OP!Rot, OP!CaptureTree, OP!PutTree, OP!Rename,
         OP!FingerprintTree, OP!Compare, OP!PutBlob, OP!MaterializeFile, OP!HashFile, OP!Goto,
         OP!NoJob, OP!user, OP!store, OP!work, OP!Walk, OP!Entries, OP!Empty, OP!Unchanged,
         OP!Stop, OP!Storable, OP!Visit, OP!OpenBlob
<1>2. UNCHANGED oVars => UNCHANGED OP!vars
  BY DEF oVars, OP!vars, OP!user, OP!store, OP!work
<1>3. QED  BY <1>1, <1>2

\* The captures behave as in ObjectStore.
THEOREM CapturesAmongEffects == EffectsSpec => OP!Spec
<1>1. EffectsInit => OP!Init
  BY CapturesBegin DEF EffectsInit
<1>2. [EffectsNext]_allVars => [OP!Next]_(OP!vars)
  BY CommandsTurn, CapturesMove
<1>3. QED  BY <1>1, <1>2, PTL DEF EffectsSpec, OP!Spec, allVars

\* The drivers begin as their module says.
LEMMA DriversBegin ==
  ASSUME D!Init
  PROVE  DP!Init
BY DEF D!Init, D!Items, D!DriverKinds, D!Nothing,
       DP!Init, DP!Items, DP!DriverKinds, DP!Nothing

\* They move as their module says.
LEMMA DriversMove ==
  ASSUME [D!Next]_dVars
  PROVE  [DP!Next]_(DP!vars)
<1>1. D!Next => DP!Next
  BY DEF D!Next, D!ResetStage, D!Fetch, D!BackupPath, D!BackupLock, D!MoveAside, D!PutNext,
         D!WriteLock, D!Install, D!Again, D!Fail, D!HealthFails, D!Commit, D!Finish, D!Crash,
         D!Recover, D!Running, D!Nothing, D!Reach, D!machine, D!journal, D!Git, D!Start,
         D!Active, D!Renames, D!Source, D!Succeed, D!NextEntries, D!Items, D!Leaves,
         D!RemoveStage, D!BeginCompensation, D!Compensate, D!Below, D!End, D!command,
         D!Unfinished, D!Touched, D!Max,
         DP!Next, DP!ResetStage, DP!Fetch, DP!BackupPath, DP!BackupLock, DP!MoveAside,
         DP!PutNext, DP!WriteLock, DP!Install, DP!Again, DP!Fail, DP!HealthFails, DP!Commit,
         DP!Finish, DP!Crash, DP!Recover, DP!Running, DP!Nothing, DP!Reach, DP!machine,
         DP!journal, DP!Git, DP!Start, DP!Active, DP!Renames, DP!Source, DP!Succeed,
         DP!NextEntries, DP!Items, DP!Leaves, DP!RemoveStage, DP!BeginCompensation,
         DP!Compensate, DP!Below, DP!End, DP!command, DP!Unfinished, DP!Touched, DP!Max
<1>2. UNCHANGED dVars => UNCHANGED DP!vars
  BY DEF dVars, DP!vars, DP!machine, DP!journal, DP!command
<1>3. QED  BY <1>1, <1>2

\* The drivers behave as in Driver.
THEOREM DriversAmongEffects == EffectsSpec => DP!Spec
<1>1. EffectsInit => DP!Init
  BY DriversBegin DEF EffectsInit
<1>2. [EffectsNext]_allVars => [DP!Next]_(DP!vars)
  BY CommandsTurn, DriversMove
<1>3. QED  BY <1>1, <1>2, PTL DEF EffectsSpec, DP!Spec, allVars

\* The resets begin as their module says.
LEMMA ResetsBegin ==
  ASSUME U!Init
  PROVE  UP!Init
BY DEF U!Init, U!Places, U!None, U!Nothing,
       UP!Init, UP!Places, UP!None, UP!Nothing

\* They move as their module says.
LEMMA ResetsMove ==
  ASSUME [U!Next]_uVars
  PROVE  [UP!Next]_(UP!vars)
<1>1. U!Next => UP!Next
  BY DEF U!Next, U!Preview, U!Decline, U!Lock, U!Check, U!Pause, U!Backup, U!Manifest, U!Clear,
         U!Write, U!Activate, U!Fail, U!Restore, U!Refill, U!Resume, U!Crash, U!Plan, U!Apply,
         U!EndPlan, U!ManageLock, U!Manage, U!Release, U!Edit, U!To, U!world, U!plans, U!history,
         U!Forget, U!bounds, U!Places, U!StillSafe, U!Keep, U!EndReset, U!Snapshots, U!Put,
         U!Roots, U!None, U!Rebuilt, U!Writable, U!Rebuild, U!Unlock, U!Restored, U!Active,
         U!Fresh, U!reset, U!Operations, U!Skips, U!Applicable, U!Ours, U!Late, U!Nothing,
         U!Copied,
         UP!Next, UP!Preview, UP!Decline, UP!Lock, UP!Check, UP!Pause, UP!Backup, UP!Manifest,
         UP!Clear, UP!Write, UP!Activate, UP!Fail, UP!Restore, UP!Refill, UP!Resume, UP!Crash,
         UP!Plan, UP!Apply, UP!EndPlan, UP!ManageLock, UP!Manage, UP!Release, UP!Edit, UP!To,
         UP!world, UP!plans, UP!history, UP!Forget, UP!bounds, UP!Places, UP!StillSafe, UP!Keep,
         UP!EndReset, UP!Snapshots, UP!Put, UP!Roots, UP!None, UP!Rebuilt, UP!Writable,
         UP!Rebuild, UP!Unlock, UP!Restored, UP!Active, UP!Fresh, UP!reset, UP!Operations,
         UP!Skips, UP!Applicable, UP!Ours, UP!Late, UP!Nothing, UP!Copied
<1>2. UNCHANGED uVars => UNCHANGED UP!vars
  BY DEF uVars, UP!vars, UP!world, UP!reset, UP!plans, UP!history, UP!bounds
<1>3. QED  BY <1>1, <1>2

\* The resets behave as in Setup.
THEOREM ResetsAmongEffects == EffectsSpec => UP!Spec
<1>1. EffectsInit => UP!Init
  BY ResetsBegin DEF EffectsInit
<1>2. [EffectsNext]_allVars => [UP!Next]_(UP!vars)
  BY CommandsTurn, ResetsMove
<1>3. QED  BY <1>1, <1>2, PTL DEF EffectsSpec, UP!Spec, allVars

\* What the theorems about them assume of the constants.
LEMMA EffectsBoundsHold == OP!StoreBounds /\ DP!DriverBounds /\ UP!SetupBounds
BY DEF OP!StoreBounds, DP!DriverBounds, UP!SetupBounds

\* objectstore/store.go: no mixture of two states of a directory.
THEOREM CapturesAreRealAmongEffects == EffectsSpec => []CapturesAreReal
<1>1. EffectsSpec => []OP!CapturesAreReal
  BY EffectsBoundsHold, CapturesAmongEffects, OP!CapturesAreRealAlways, PTL
<1>2. OP!CapturesAreReal => CapturesAreReal
  BY DEF CapturesAreReal, O!CapturesAreReal, O!Entries,
                          OP!CapturesAreReal, OP!Entries
<1>3. QED  BY <1>1, <1>2, PTL

\* bundledriver/driver.go: everything new, or everything as it was.
THEOREM TransactionIsWholeAmongEffects == EffectsSpec => []TransactionIsWhole
<1>1. EffectsSpec => []DP!TransactionIsWhole
  BY EffectsBoundsHold, DriversAmongEffects, DP!TransactionIsWholeAlways, PTL
<1>2. DP!TransactionIsWhole => TransactionIsWhole
  BY DEF TransactionIsWhole, D!TransactionIsWhole, D!Items, D!Git, D!Was, D!Unfinished,
                             DP!TransactionIsWhole, DP!Items, DP!Git, DP!Was, DP!Unfinished
<1>3. QED  BY <1>1, <1>2, PTL

\* cli/reset.go: everything rebuilt, or everything put back.
THEOREM ResetsAreWholeAmongEffects == EffectsSpec => ResetsAreWhole
<1>1. UP!Spec => UP!ResetsAreWhole
  BY EffectsBoundsHold, UP!ResetsAreWholeAlways
<1>2. UP!ResetsAreWhole => ResetsAreWhole
  BY DEF ResetsAreWhole, U!ResetsAreWhole, U!vars, U!Places, U!Kept, U!world, U!reset, U!plans,
                         U!history, U!bounds,
                         UP!ResetsAreWhole, UP!vars, UP!Places, UP!Kept, UP!world, UP!reset,
                         UP!plans, UP!history, UP!bounds
<1>3. QED  BY <1>1, <1>2, ResetsAmongEffects

\* The files, rows, objects, artifacts and processes of all commands are of the types that
\* EffectsTypeOK says.
THEOREM EffectsTypeCorrect == EffectsSpec => []EffectsTypeOK
<1>1. EffectsSpec => [](TypeOK /\ OP!TypeOK /\ DP!TypeOK /\ UP!TypeOK)
  BY EffectsBoundsHold, AdoptionAmongEffects, TypeCorrect, CapturesAmongEffects,
     OP!StoreTypeCorrect, DriversAmongEffects, DP!DriverTypeCorrect, ResetsAmongEffects,
     UP!SetupTypeCorrect, PTL
<1>2. OP!TypeOK => O!TypeOK
  BY DEF O!TypeOK, O!Tree, O!Content, O!PCs,
         OP!TypeOK, OP!Tree, OP!Content, OP!PCs
<1>3. DP!TypeOK => D!TypeOK
  BY DEF D!TypeOK, D!Items, D!Installed, D!Ats,
         DP!TypeOK, DP!Items, DP!Installed, DP!Ats
<1>4. UP!TypeOK => U!TypeOK
  BY DEF U!TypeOK, U!Places, U!PCs, U!Snapshots,
         UP!TypeOK, UP!Places, UP!PCs, UP!Snapshots
<1>5. TypeOK /\ OP!TypeOK /\ DP!TypeOK /\ UP!TypeOK => EffectsTypeOK
  BY <1>2, <1>3, <1>4 DEF EffectsTypeOK
<1>6. QED  BY <1>1, <1>5, PTL
=============================================================================
