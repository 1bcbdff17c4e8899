------------------------------ MODULE Activation ------------------------------
(***************************************************************************)
(* The component lifecycle of one managed binding: internal/activation     *)
(* (Manager, SQLStore, SwitchCurrent), the operations of internal/lifecycle *)
(* that drive it (update, activateUpdate, rollbackWithOptions), the review *)
(* that makes a candidate ready, and RecoverActivations.                   *)
(*                                                                         *)
(* A generation is a directory with a recorded integrity hash; the symlink *)
(* "current" points at one of them, and the binding's row names one of     *)
(* them.  No transaction covers both, so an intent is journaled before the *)
(* symlink moves.  Every operation holds activation.lock and recovers the  *)
(* unfinished intent first; the user edits the directories at any moment.  *)
(***************************************************************************)
EXTENDS Naturals, Sequences, FiniteSets, FiniteSetsExt

CONSTANTS
  Refs,           \* resolved refs the source may offer; the binding starts at 1
  MaxContent,     \* bound: local edits told apart, 0 is the tree as it came
  MaxGen,         \* bound: generations in a behaviour
  MaxCand,        \* bound: candidates in a behaviour
  MaxIntent,      \* bound: activation intents in a behaviour
  MaxCrash,       \* bound: crashes in a behaviour
  MaxForeign,     \* bound: times someone else replaces the symlink
  UnlockedScans   \* whether "tooltend init" persists an inventory without the lock

Gen     == 1..MaxGen
Cand    == 1..MaxCand
Intent  == 1..MaxIntent
Content == 0..MaxContent
Missing == MaxContent + 1  \* the directory is gone, or cannot be hashed

ASSUME BoundsAssumption ==
  /\ MaxContent \in Nat /\ MaxGen \in Nat \ {0} /\ MaxCand \in Nat /\ MaxIntent \in Nat
  /\ MaxCrash \in Nat /\ MaxForeign \in Nat /\ UnlockedScans \in BOOLEAN
ASSUME RefsAssumption == Refs \subseteq Nat /\ 1 \in Refs

VARIABLES
  gens,      \* generations: [state, ref, integrity, cand]
  cands,     \* candidates: [status, key, base, tree]
  intents,   \* activation_intents: [phase, cand, old, new]
  receipts,  \* receipts: statuses recorded per intent
  active,    \* bindings.active_generation_id
  files,     \* what the directory of each generation holds: its local edits
  pointer,   \* what "current" names; 0: nothing, or nothing valid
  pc,        \* where the holder of activation.lock is; "free": nobody holds it
  cand,      \* the candidate it works on; 0: none
  old,       \* the generation it leaves; 0: none
  new,       \* the generation it activates; 0: none
  was,       \* the pointer as Activate read it; 0: not read
  scan,      \* the active generation an unlocked inventory has read; 0: none
  crashes,   \* crashes so far
  foreign,   \* replacements of the symlink by others so far
  misplaced, \* history: the last to write the symlink was not ToolTend
  touched,   \* history: files or symlink changed between the last check and the commit
  rescanned  \* history: an unlocked inventory has moved the binding

rows == <<gens, cands, intents, receipts, active>>
work == <<pc, cand, old, new, was>>
env  == <<scan, crashes, foreign>>
hist == <<misplaced, touched, rescanned>>
vars == <<rows, files, pointer, work, env, hist>>

GenState   == {"none", "prepared", "active", "inactive", "failed"}
CandStatus == {"none", "available", "staging", "needs_review", "ready", "activating",
               "active", "rolled_back", "superseded", "failed"}
Phase      == {"none", "prepared", "pointer_switched", "committed", "rolled_back"}

NoGen    == [state |-> "none", ref |-> 1, integrity |-> 0, cand |-> 0]
NoKey    == [op |-> "none", from |-> 0, to |-> 0, by |-> 0, custom |-> 0]
NoCand   == [status |-> "none", key |-> NoKey, base |-> 0, tree |-> 0]
NoIntent == [phase |-> "none", cand |-> 0, old |-> 0, new |-> 0]

\* Pending
Unfinished(i) == intents[i].phase \in {"prepared", "pointer_switched"}
\* the directory has the hash its row records
Intact(g) == files[g] = gens[g].integrity
\* LatestBaseline: every commit inserts one, so it is named by the intent
Baseline == Max({0} \cup {i \in Intent : intents[i].phase = "committed"})

Free(f, status, k) ==
  f[k] = status /\ \A j \in DOMAIN f : j < k => f[j] # status
Room == \E i \in Intent : intents[i] = NoIntent

-----------------------------------------------------------------------------
(* The lock and the candidates *)

\* mutant: the next holder finds the candidate of the last one
Exit_Remembers == pc' = "free" /\ UNCHANGED <<cand, old, new, was>>
\* the operation is over, or returns its error, and the lock is released
Exit == pc' = "free" /\ cand' = 0 /\ old' = 0 /\ new' = 0 /\ was' = 0

Goto(where) == pc' = where /\ UNCHANGED <<cand, old, new, was>>
Begin(where, c, from, to) == pc' = where /\ cand' = c /\ old' = from /\ new' = to /\ was' = 0

SetCandidate(c, s) == cands' = [cands EXCEPT ![c].status = s]

\* a candidate's identity: update to a ref from the baseline's, or a rollback of one
\* generation to another, each with the local content it was made for
UpdateKey(r) ==
  [op |-> "update", from |-> gens[active].ref, to |-> r, by |-> 0, custom |-> files[active]]
RollbackKey(t) ==
  [op |-> "rollback", from |-> active, to |-> t, by |-> gens[active].cand,
   custom |-> files[active]]

\* putAvailableCandidate: the row of this identity, reset if its pipeline was cut short
PutAvailable(c, key) ==
  /\ IF \E d \in Cand : cands[d].key = key THEN cands[c].key = key ELSE Free(cands, NoCand, c)
  /\ cands' = [cands EXCEPT ![c] =
       IF @.key # key THEN [status |-> "available", key |-> key, base |-> Baseline, tree |-> 0]
       ELSE IF @.status = "staging" THEN [@ EXCEPT !.status = "available", !.tree = 0] ELSE @]

\* CompareAndSetGenerationSnapshot: the content about to be left becomes a rollback point
CanFreeze == gens[active].state = "active" /\ files[active] # Missing
Freeze    == gens' = [gens EXCEPT ![active].integrity = files[active]]

\* mutant: the run starts on its own work with an intent unfinished
TakeLock_NoRecovery ==
  /\ pc = "free" /\ Goto("locked")
  /\ UNCHANGED <<rows, files, pointer, env, hist>>

TakeLock ==
  /\ pc = "free"
  /\ Goto(IF \E i \in Intent : Unfinished(i) THEN "recover" ELSE "locked")
  /\ UNCHANGED <<rows, files, pointer, env, hist>>

\* nothing to do: already current, not approved, no capability, or an early error
Leave ==
  /\ pc \in {"locked", "fresh"} /\ Exit
  /\ UNCHANGED <<rows, files, pointer, env, hist>>

StartUpdate(r) ==
  /\ pc = "locked" /\ Room /\ (\E g \in Gen : gens[g].state = "none")
  /\ CanFreeze /\ ~(gens[active].ref = r /\ Intact(active)) /\ Freeze
  /\ \E c \in Cand :
       /\ PutAvailable(c, UpdateKey(r))
       /\ CASE cands'[c].status = "available" -> Begin("stage", c, active, 0)
            [] cands'[c].status = "ready"     -> Begin("fresh", c, active, 0)
            [] OTHER                          -> Exit
  /\ UNCHANGED <<intents, receipts, active, files, pointer, env, hist>>

\* selectRollbackGeneration and generationHealthy choose the target
StartRollback(t) ==
  /\ pc = "locked" /\ Room /\ CanFreeze
  /\ t # active /\ gens[t].state = "inactive" /\ Intact(t) /\ Freeze
  /\ \E c \in Cand :
       /\ PutAvailable(c, RollbackKey(t))
       /\ CASE cands'[c].status = "available" -> Begin("stage", c, active, t)
            [] cands'[c].status = "ready"     -> Begin("check", c, active, t)
            [] OTHER                          -> Exit
  /\ UNCHANGED <<intents, receipts, active, files, pointer, env, hist>>

\* staging, verified, merging and validating: what a crash here is reset from
Stage ==
  /\ pc = "stage" /\ SetCandidate(cand, "staging") /\ Goto("validate")
  /\ UNCHANGED <<gens, intents, receipts, active, files, pointer, env, hist>>

ValidateRollback ==
  /\ pc = "validate" /\ cands[cand].key.op = "rollback"
  /\ cands' = [cands EXCEPT ![cand].status = "ready", ![cand].tree = gens[new].integrity]
  /\ Goto("check")
  /\ UNCHANGED <<gens, intents, receipts, active, files, pointer, env, hist>>

\* MergeTree keeps the local edits; a tree that conflicts with them is the upstream
\* one, and is only installed after a human has approved that
Validate ==
  /\ pc = "validate" /\ cands[cand].key.op = "update"
  /\ \/ /\ cands' = [cands EXCEPT ![cand].status = "ready", ![cand].tree = cands[cand].key.custom]
        /\ Goto("fresh")
     \/ /\ \E tree \in {0, cands[cand].key.custom} :
             cands' = [cands EXCEPT ![cand].status = "needs_review", ![cand].tree = tree]
        /\ Exit
     \/ SetCandidate(cand, "failed") /\ Exit
  /\ UNCHANGED <<gens, intents, receipts, active, files, pointer, env, hist>>

\* SubmitReview with the verdict "safe"
Approve(c) ==
  /\ pc = "locked" /\ cands[c].status = "needs_review"
  /\ SetCandidate(c, "ready") /\ Exit
  /\ UNCHANGED <<gens, intents, receipts, active, files, pointer, env, hist>>

\* ensureCandidateFresh: neither the active generation, nor the baseline, nor the
\* local content is another one than when the candidate was made
IsFresh ==
  /\ active = old /\ CanFreeze
  /\ cands[cand].base = Baseline /\ cands[cand].key.custom = files[active]

MaterializeAs(g) ==
  /\ gens' = [gens EXCEPT ![active].integrity = files[active],
                ![g] = [state |-> "prepared", ref |-> cands[cand].key.to,
                        integrity |-> cands[cand].tree, cand |-> cand]]
  /\ files' = [files EXCEPT ![g] = cands[cand].tree]
  /\ pc' = "check" /\ new' = g
  /\ UNCHANGED <<cands, intents, receipts, active, pointer, cand, old, was, env, hist>>

\* mutant: a reviewed candidate is taken whatever happened since its review
Materialize_Reviewed ==
  /\ pc = "fresh" /\ CanFreeze
  /\ \E g \in Gen : Free([h \in Gen |-> gens[h].state], "none", g) /\ MaterializeAs(g)

Materialize ==
  /\ pc = "fresh" /\ IsFresh
  /\ \E g \in Gen : Free([h \in Gen |-> gens[h].state], "none", g) /\ MaterializeAs(g)

Supersede ==
  /\ pc = "fresh" /\ ~IsFresh /\ SetCandidate(cand, "superseded") /\ Exit
  /\ UNCHANGED <<gens, intents, receipts, active, files, pointer, env, hist>>

-----------------------------------------------------------------------------
(* Manager.Activate *)

\* a prepared generation without an intent is retired with its directory
FailPreparedGenerationIfUnjournaled ==
  IF gens[new].state = "prepared"
  THEN /\ gens' = [gens EXCEPT ![new].state = "failed"]
       /\ files' = [files EXCEPT ![new] = Missing]
  ELSE UNCHANGED <<gens, files>>

\* an error or a failed check before the intent is journaled
AbandonUnjournaled ==
  /\ pc \in {"check", "journal"} /\ FailPreparedGenerationIfUnjournaled /\ Exit
  /\ UNCHANGED <<cands, intents, receipts, active, pointer, env, hist>>

Check ==
  /\ pc = "check" /\ pointer \in {old, new} /\ Intact(old) /\ Intact(new)
  /\ pc' = "journal" /\ was' = pointer
  /\ UNCHANGED <<rows, files, pointer, cand, old, new, env, hist>>

SaveIntent ==
  /\ pc = "journal" /\ active = old /\ cands[cand].status = "ready"
  /\ \E i \in Intent :
       /\ Free(intents, NoIntent, i)
       /\ intents' = [intents EXCEPT ![i] =
                        [phase |-> "prepared", cand |-> cand, old |-> old, new |-> new]]
  /\ SetCandidate(cand, "activating") /\ Goto("verify")
  /\ UNCHANGED <<gens, receipts, active, files, pointer, env, hist>>

\* mutant: the undone activation leaves no receipt
MarkRolledBack_Silent(i) ==
  /\ intents' = [intents EXCEPT ![i].phase = "rolled_back"]
  /\ cands' = [cands EXCEPT ![intents[i].cand].status =
                 IF @ = "activating" THEN "rolled_back" ELSE @]
  /\ gens' = [gens EXCEPT ![intents[i].new].state = IF @ = "active" THEN @ ELSE "failed"]
  /\ UNCHANGED <<active, receipts>>

\* markRolledBack: one database transaction
MarkRolledBack(i) ==
  /\ intents' = [intents EXCEPT ![i].phase = "rolled_back"]
  /\ cands' = [cands EXCEPT ![intents[i].cand].status =
                 IF @ = "activating" THEN "rolled_back" ELSE @]
  /\ gens' = [gens EXCEPT ![intents[i].new].state = IF @ = "active" THEN @ ELSE "failed"]
  /\ receipts' = [receipts EXCEPT ![i] = Append(@, "rolled_back")]
  /\ UNCHANGED active

OldVerified ==
  /\ pc = "verify" /\ Intact(old) /\ Goto("switch")
  /\ UNCHANGED <<rows, files, pointer, env, hist>>

\* the error of marking it rolled back is ignored
OldChanged ==
  /\ pc = "verify" /\ ~Intact(old)
  /\ (\E i \in Intent : Unfinished(i) /\ MarkRolledBack(i)) \/ UNCHANGED rows
  /\ Exit
  /\ UNCHANGED <<files, pointer, env, hist>>

\* SwitchCurrent, unless Activate had found the pointer at the new generation
Switch ==
  /\ pc = "switch" /\ Goto("switched")
  /\ IF was = new THEN UNCHANGED <<pointer, misplaced>>
     ELSE files[new] # Missing /\ pointer' = new /\ misplaced' = FALSE
  /\ UNCHANGED <<rows, files, env, touched, rescanned>>

\* it fails before the rename, or in the sync of the directory after it
SwitchFails ==
  /\ pc = "switch" /\ was # new /\ Goto("restore")
  /\ \/ UNCHANGED <<pointer, misplaced>>
     \/ files[new] # Missing /\ pointer' = new /\ misplaced' = FALSE
  /\ UNCHANGED <<rows, files, env, touched, rescanned>>

\* verifyCurrentNew, and the phase that says so
PersistPointer ==
  /\ pc = "switched" /\ pointer = new /\ Intact(new) /\ Goto("health")
  /\ \E i \in Intent : Unfinished(i) /\ intents' = [intents EXCEPT ![i].phase = "pointer_switched"]
  /\ UNCHANGED <<gens, cands, receipts, active, files, pointer, env, hist>>

PersistFails ==
  /\ pc = "switched" /\ pointer = new /\ Intact(new) /\ Goto("unwind")
  /\ UNCHANGED <<rows, files, pointer, env, hist>>

NotSwitched ==
  /\ pc = "switched" /\ ~(pointer = new /\ Intact(new)) /\ Goto("restore")
  /\ UNCHANGED <<rows, files, pointer, env, hist>>

\* the checks after which nothing is looked at before the commit
Healthy ==
  /\ pc = "health" /\ pointer = new /\ Intact(new) /\ Intact(old)
  /\ Goto("complete") /\ touched' = FALSE
  /\ UNCHANGED <<rows, files, pointer, env, misplaced, rescanned>>

Unhealthy ==
  /\ pc = "health" /\ Goto("restore")
  /\ UNCHANGED <<rows, files, pointer, env, hist>>

\* the candidate a rollback takes back, if the generation it leaves had one
Undone(i) ==
  {c \in Cand : cands[intents[i].cand].key.op = "rollback" /\ c = gens[intents[i].old].cand}

Completable(i) ==
  /\ active = intents[i].old /\ cands[intents[i].cand].status \in {"activating", "active"}
  /\ \A c \in Undone(i) : cands[c].status \in {"active", "rolled_back"}

\* mutant: the generation that is left stays active
Complete_KeepsOld ==
  /\ pc = "complete" /\ Exit
  /\ \E i \in Intent :
       /\ Unfinished(i) /\ Completable(i)
       /\ intents' = [intents EXCEPT ![i].phase = "committed"]
       /\ gens' = [gens EXCEPT ![new].state = "active", ![new].cand = cand]
       /\ active' = new
       /\ cands' = [c \in Cand |-> IF c = cand THEN [cands[c] EXCEPT !.status = "active"]
                     ELSE IF c \in Undone(i) THEN [cands[c] EXCEPT !.status = "rolled_back"]
                     ELSE cands[c]]
       /\ receipts' = [receipts EXCEPT ![i] = Append(@, "succeeded")]
  /\ UNCHANGED <<files, pointer, env, hist>>

\* Complete: one database transaction
Complete ==
  /\ pc = "complete" /\ Exit
  /\ \E i \in Intent :
       /\ Unfinished(i) /\ Completable(i)
       /\ intents' = [intents EXCEPT ![i].phase = "committed"]
       /\ gens' = [gens EXCEPT ![old].state = "inactive",
                               ![new].state = "active", ![new].cand = cand]
       /\ active' = new
       /\ cands' = [c \in Cand |-> IF c = cand THEN [cands[c] EXCEPT !.status = "active"]
                     ELSE IF c \in Undone(i) THEN [cands[c] EXCEPT !.status = "rolled_back"]
                     ELSE cands[c]]
       /\ receipts' = [receipts EXCEPT ![i] = Append(@, "succeeded")]
  /\ UNCHANGED <<files, pointer, env, hist>>

\* "the pointer and journal deliberately remain recoverable"
CompleteRefused ==
  /\ pc = "complete" /\ (\A i \in Intent : Unfinished(i) => ~Completable(i)) /\ Exit
  /\ UNCHANGED <<rows, files, pointer, env, hist>>

\* mutant: the intent is closed with the symlink where it is
Restore_Skipped ==
  /\ pc \in {"restore", "unwind"} /\ Intact(old)
  /\ IF pc = "restore" THEN Goto("restored") ELSE Exit
  /\ UNCHANGED <<rows, files, pointer, env, hist>>

\* restoreOld; after a phase that could not be written the intent stays as it is
Restore ==
  /\ pc \in {"restore", "unwind"} /\ Intact(old)
  /\ pointer' = old /\ misplaced' = FALSE
  /\ IF pc = "restore" THEN Goto("restored") ELSE Exit
  /\ UNCHANGED <<rows, files, env, touched, rescanned>>

\* the journal stays unfinished while the old generation cannot be restored
RestoreFails ==
  /\ pc \in {"restore", "unwind"} /\ ~Intact(old) /\ Exit
  /\ UNCHANGED <<rows, files, pointer, env, hist>>

Restored ==
  /\ pc = "restored" /\ Exit
  /\ \E i \in Intent : Unfinished(i) /\ MarkRolledBack(i)
  /\ UNCHANGED <<files, pointer, env, hist>>

-----------------------------------------------------------------------------
(* Manager.Recover: what the pointer and the hashes say decides.  A run that *)
(* recovers goes on with its own work, as the next one to take the lock does *)

RecoverForward(i) ==
  /\ pc = "recover" /\ Unfinished(i)
  /\ pointer = intents[i].new /\ Intact(intents[i].new) /\ Intact(intents[i].old)
  /\ intents' = [intents EXCEPT ![i].phase = "pointer_switched"]
  /\ Begin("complete", intents[i].cand, intents[i].old, intents[i].new)
  /\ touched' = FALSE
  /\ UNCHANGED <<gens, cands, receipts, active, files, pointer, env, misplaced, rescanned>>

RecoverUnswitched(i) ==
  /\ pc = "recover" /\ Unfinished(i) /\ pointer = intents[i].old
  /\ IF Intact(intents[i].old) THEN MarkRolledBack(i) ELSE UNCHANGED rows
  /\ Exit
  /\ UNCHANGED <<files, pointer, env, hist>>

\* mutant: an unreadable pointer is left to someone else
RecoverByRestoring_Valid(i) ==
  /\ pc = "recover" /\ Unfinished(i) /\ pointer \notin {0, intents[i].old}
  /\ Begin("restore", intents[i].cand, intents[i].old, intents[i].new)
  /\ UNCHANGED <<rows, files, pointer, env, hist>>

\* the new generation fails its checks, or the pointer is neither of the two
RecoverByRestoring(i) ==
  /\ pc = "recover" /\ Unfinished(i) /\ pointer # intents[i].old
  /\ Begin("restore", intents[i].cand, intents[i].old, intents[i].new)
  /\ UNCHANGED <<rows, files, pointer, env, hist>>

-----------------------------------------------------------------------------
(* Everyone else *)

\* the user edits or removes the files of a generation
Edit(g) ==
  /\ gens[g].state \in {"prepared", "active", "inactive"}
  /\ \E c \in Content \cup {Missing} : c # files[g] /\ files' = [files EXCEPT ![g] = c]
  /\ touched' = (touched \/ pc = "complete")
  /\ UNCHANGED <<rows, pointer, work, env, misplaced, rescanned>>

\* something else replaces or removes the symlink
Interfere ==
  /\ foreign < MaxForeign /\ foreign' = foreign + 1
  /\ \E g \in {0} \cup {h \in Gen : gens[h].state # "none"} : g # pointer /\ pointer' = g
  /\ misplaced' = TRUE /\ touched' = (touched \/ pc = "complete")
  /\ UNCHANGED <<rows, files, work, scan, crashes, rescanned>>

\* inventory.Persist of "tooltend init": bindings are read, and upserted later
ScanReads ==
  /\ UnlockedScans /\ scan = 0 /\ scan' = active
  /\ UNCHANGED <<rows, files, pointer, work, crashes, foreign, hist>>
ScanWrites ==
  /\ scan # 0 /\ active' = scan /\ scan' = 0
  /\ rescanned' = (rescanned \/ active # scan)
  /\ UNCHANGED <<gens, cands, intents, receipts, files, pointer, work, crashes, foreign,
                 misplaced, touched>>

\* the process is killed, or returns an error of the file system or the database
Crash ==
  /\ pc # "free" /\ crashes < MaxCrash
  /\ crashes' = crashes + 1 /\ Exit
  /\ UNCHANGED <<rows, files, pointer, scan, foreign, hist>>

-----------------------------------------------------------------------------
Init ==
  /\ gens = [g \in Gen |-> IF g = 1 THEN [NoGen EXCEPT !.state = "active"] ELSE NoGen]
  /\ cands = [c \in Cand |-> NoCand] /\ intents = [i \in Intent |-> NoIntent]
  /\ receipts = [i \in Intent |-> <<>>] /\ active = 1
  /\ files = [g \in Gen |-> IF g = 1 THEN 0 ELSE Missing] /\ pointer = 1
  /\ pc = "free" /\ cand = 0 /\ old = 0 /\ new = 0 /\ was = 0
  /\ scan = 0 /\ crashes = 0 /\ foreign = 0 /\ misplaced = FALSE /\ touched = FALSE
  /\ rescanned = FALSE

Propose ==
  \/ TakeLock \/ Leave \/ Stage \/ ValidateRollback \/ Validate \/ Materialize \/ Supersede
  \/ \E r \in Refs : StartUpdate(r)
  \/ \E t \in Gen : StartRollback(t)
  \/ \E c \in Cand : Approve(c)

Activate ==
  \/ AbandonUnjournaled \/ Check \/ SaveIntent \/ OldVerified \/ OldChanged
  \/ Switch \/ SwitchFails \/ PersistPointer \/ PersistFails \/ NotSwitched
  \/ Healthy \/ Unhealthy \/ Complete \/ CompleteRefused
  \/ Restore \/ RestoreFails \/ Restored

Recover ==
  \E i \in Intent : RecoverForward(i) \/ RecoverUnswitched(i) \/ RecoverByRestoring(i)

Holder == Propose \/ Activate \/ Recover
Others == (\E g \in Gen : Edit(g)) \/ Interfere \/ ScanReads \/ ScanWrites

Next == Holder \/ Others \/ Crash

Spec == Init /\ [][Next]_vars

\* the scheduler starts the worker over and over, and a process that holds the lock
\* goes on until it ends
Fairness == WF_vars(Holder)
FairSpec == Spec /\ Fairness

-----------------------------------------------------------------------------
(* Types and safety *)

Key == [op : {"none", "update", "rollback"}, from : Nat, to : Nat, by : Cand \cup {0},
        custom : Content]

\* The type of every variable; the holder has a candidate and a generation to leave
\* exactly while it works on them.
TypeOK ==
  /\ gens \in [Gen -> [state : GenState, ref : Refs, integrity : Content, cand : Cand \cup {0}]]
  /\ cands \in [Cand -> [status : CandStatus, key : Key, base : Intent \cup {0}, tree : Content]]
  /\ intents \in [Intent -> [phase : Phase, cand : Cand \cup {0}, old : Gen \cup {0},
                             new : Gen \cup {0}]]
  /\ receipts \in [Intent -> Seq({"succeeded", "rolled_back"})]
  /\ active \in Gen /\ files \in [Gen -> Content \cup {Missing}] /\ pointer \in Gen \cup {0}
  /\ pc \in {"free", "locked", "recover", "stage", "validate", "fresh", "check", "journal",
             "verify", "switch", "switched", "health", "complete", "restore", "restored", "unwind"}
  /\ cand \in Cand \cup {0} /\ old \in Gen \cup {0} /\ new \in Gen \cup {0}
  /\ was \in Gen \cup {0}
  /\ (cand = 0 <=> pc \in {"free", "locked", "recover"}) /\ (old = 0 <=> cand = 0)
  /\ scan \in Gen \cup {0} /\ crashes \in 0..MaxCrash /\ foreign \in 0..MaxForeign
  /\ misplaced \in BOOLEAN /\ touched \in BOOLEAN /\ rescanned \in BOOLEAN

\* sqlstore.go: whatever was interrupted, at most one intent is unfinished; it leaves
\* the generation the binding is at, for one that is not in use, with a candidate that
\* is "activating" for it alone, so that Complete is never refused and an abandoned
\* activation never takes the active generation down.
JournalIsRecoverable == ~rescanned =>
  /\ \A i, j \in Intent : Unfinished(i) /\ Unfinished(j) => i = j
  /\ \A i \in Intent : Unfinished(i) =>
       /\ Completable(i) /\ gens[intents[i].old].state = "active"
       /\ intents[i].new # active /\ gens[intents[i].new].state \in {"prepared", "inactive"}
  /\ \A c \in Cand : cands[c].status = "activating" <=>
       \E i \in Intent : Unfinished(i) /\ intents[i].cand = c

\* manager.go:234-243: unless someone else wrote the symlink last, it names the binding's
\* generation, or while an intent is unfinished one of the two it is about; closing the
\* intent never "permanently split[s] SQLite state from the real pointer".
PointerFollowsBinding ==
  misplaced \/ rescanned \/ pointer = active
            \/ \E i \in Intent : Unfinished(i) /\ pointer = intents[i].new

\* The generation the binding names is the only active one, and it belongs to a
\* candidate that is active: each commit takes the previous one out of use.
OneActiveGeneration ==
  \A g \in Gen : gens[g].state = "active" <=> g = active

Commits(i) == Unfinished(i) /\ intents'[i].phase = "committed"

\* An update that was staged, reviewed and approved earlier is only installed over the
\* very content, generation and baseline it was made for, whatever edits, rollbacks,
\* crashes and other candidates came in between; what it leaves is recorded exactly, so
\* that it can be gone back to; and what it publishes is intact unless it was changed
\* after the last check.
CommitIsExact ==
  [][\A i \in Intent : Commits(i) =>
       LET c == cands[intents[i].cand]
           o == gens[intents[i].old]
       IN /\ c.key.custom = o.integrity
          /\ c.key.op = "update" => c.key.from = o.ref /\ c.base = Baseline
          /\ touched \/ (Intact(intents[i].old) /\ Intact(intents[i].new)
                         /\ pointer = intents[i].new)]_vars

\* What the tables say of an activation is settled once, with the binding's generation
\* and the receipt, and the generation never moves otherwise.
Outcome == [i \in Intent |-> IF Unfinished(i) THEN "open" ELSE intents[i].phase]
Target  == [i \in Intent |-> intents[i].new]
Ledger  == INSTANCE TransactionLedger WITH
  Transaction <- Intent, Release <- Gen \cup {0}, InitialRelease <- 1, Observes <- UnlockedScans,
  outcome <- Outcome, target <- Target, release <- active, receipt <- receipts
ImplementsLedger == Ledger!LedgerSpec

\* service.go:87-92 and worker.go:163: an unfinished intent is settled by the runs that
\* follow, if the old generation is left intact for long enough, and no unlocked
\* inventory takes the binding away from under it.
EveryIntentSettles ==
  \A i \in Intent :
    <>[](Unfinished(i) => Intact(intents[i].old) /\ Completable(i))
      => (Unfinished(i) ~> ~Unfinished(i))

\* rollback.go:18-19, "The generation being left is retained, so a later rollback can
\* move forward to it again": what a rollback has left is never given up.  A later
\* rollback to it that is undone marks it as failed, and does not keep this.
LeftByRollback(g) ==
  \E i \in Intent : /\ intents[i].phase = "committed" /\ intents[i].old = g
                    /\ cands[intents[i].cand].key.op = "rollback"
RollbackPointsAreRetained ==
  [][\A g \in Gen : gens[g].state = "inactive" /\ LeftByRollback(g)
       => gens'[g].state # "failed"]_vars

\* README.md:95, "A global file lock prevents concurrent sessions from updating in
\* parallel": the binding's generation only moves by a commit.  "tooltend init" writes
\* back what it read without the lock, and does not keep this.
BindingMovesByCommit ==
  [][active' # active => \E i \in Intent : Commits(i) /\ active' = intents[i].new]_vars

=============================================================================
