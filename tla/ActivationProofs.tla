-------------------------- MODULE ActivationProofs --------------------------
(***************************************************************************)
(* Theorems about the life of a managed binding (Activation), for every    *)
(* number of refs, contents, generations, candidates, intents, crashes and *)
(* replacements of the symlink, with and without inventories that do not   *)
(* take the lock; and, in the second half, about the merge that an update  *)
(* begins with (Merge), for every set of lines and all trees.              *)
(***************************************************************************)
EXTENDS MCUpdate, FiniteSetTheorems, SequenceTheorems, TLAPS

(* Where the holder has a candidate: before its intent is in the journal,  *)
(* and after.                                                              *)
Preparing == {"stage", "validate", "fresh", "check", "journal"}
Journaled == {"verify", "switch", "switched", "health", "complete", "restore", "restored",
              "unwind"}

(***************************************************************************)
(* The inductive invariant.  Its first three parts hold whatever an        *)
(* unlocked inventory does to the binding.                                 *)
(***************************************************************************)
(* TypeOK, the tables and the holder apart, and: a row of the journal is   *)
(* empty or complete; an update has no new generation before it is         *)
(* materialized, and everything after that has one.                        *)
GenRow == [state : GenState, ref : Refs, integrity : Content, cand : Cand \cup {0}]
CandRow == [status : CandStatus, key : Key, base : Intent \cup {0}, tree : Content]
IntentRow == [phase : Phase, cand : Cand \cup {0}, old : Gen \cup {0}, new : Gen \cup {0}]
TablesOK ==
  /\ gens \in [Gen -> GenRow] /\ cands \in [Cand -> CandRow] /\ intents \in [Intent -> IntentRow]
  /\ receipts \in [Intent -> Seq({"succeeded", "rolled_back"})]
  /\ active \in Gen /\ files \in [Gen -> Content \cup {Missing}] /\ pointer \in Gen \cup {0}
HolderOK ==
  /\ pc \in {"free", "locked", "recover"} \cup Preparing \cup Journaled
  /\ cand \in Cand \cup {0} /\ old \in Gen \cup {0} /\ new \in Gen \cup {0}
  /\ was \in Gen \cup {0}
  /\ (cand = 0 <=> pc \in {"free", "locked", "recover"}) /\ (old = 0 <=> cand = 0)
  /\ scan \in Gen \cup {0} /\ crashes \in 0..MaxCrash /\ foreign \in 0..MaxForeign
  /\ misplaced \in BOOLEAN /\ touched \in BOOLEAN /\ rescanned \in BOOLEAN
RowsComplete ==
  \A i \in Intent :
    IF intents[i].phase = "none"
    THEN intents[i].cand = 0 /\ intents[i].old = 0 /\ intents[i].new = 0
    ELSE intents[i].cand # 0 /\ intents[i].old # 0 /\ intents[i].new # 0
NewKnown ==
  /\ pc \in {"free", "locked", "recover", "fresh"} => new = 0
  /\ pc \in {"stage", "validate"} => (new = 0 <=> cands[cand].key.op # "rollback")
  /\ pc \in {"check", "journal"} \cup Journaled => new # 0
UpdatesToRefs ==
  /\ \A c \in Cand : cands[c].key.op = "update" => cands[c].key.to \in Refs
  /\ pc = "fresh" => cands[cand].key.op = "update"

(* At most one intent is unfinished, the last one; nobody prepares another *)
(* activation meanwhile, and the holder that is past its journaling works  *)
(* on that one.                                                            *)
LastIntent ==
  /\ \A i, j \in Intent : i < j /\ intents[i].phase = "none" => intents[j].phase = "none"
  /\ \A i, j \in Intent : Unfinished(i) /\ i < j => intents[j].phase = "none"
HolderJournaled ==
  /\ \A i \in Intent : Unfinished(i) => pc \in Journaled \cup {"free", "recover"}
  /\ pc \in Journaled => \E i \in Intent : Unfinished(i)
  /\ \A i \in Intent : Unfinished(i) /\ pc \in Journaled =>
       intents[i].cand = cand /\ intents[i].old = old /\ intents[i].new = new

(* The candidate at work is at the step of its pipeline that the holder is *)
(* at; "activating" is the status of the unfinished intent's alone.        *)
StatusAtStep ==
  /\ pc = "stage" => cands[cand].status = "available"
  /\ pc = "validate" => cands[cand].status = "staging"
  /\ pc \in {"fresh", "check", "journal"} => cands[cand].status = "ready"
ActivatingIsUnfinished ==
  \A c \in Cand : cands[c].status = "activating" <=>
    \E i \in Intent : Unfinished(i) /\ intents[i].cand = c
CandidateAtStep == StatusAtStep /\ ActivatingIsUnfinished

(* What the binding says, until an inventory moves it.                     *)
ActiveCandidate == gens[active].cand # 0 => cands[gens[active].cand].status = "active"
Leaves(from, to) ==
  from = active /\ to # active /\ gens[to].state \in {"prepared", "inactive"}
LeavesActive ==
  /\ old # 0 => old = active
  /\ new # 0 => Leaves(old, new)
  /\ \A i \in Intent : Unfinished(i) => Leaves(intents[i].old, intents[i].new)

(* The symlink, until somebody else writes it.                             *)
PointerAtStep ==
  /\ pointer = active \/ \E i \in Intent : Unfinished(i) /\ pointer = intents[i].new
  /\ pc \in {"verify", "switch", "restored"} => pointer = old
  /\ pc \in {"health", "complete"} => pointer = new
  /\ pc \in {"journal", "verify", "switch"} => was # new

(* What a commit relies on: the candidate was made for what is left.       *)
Committed == {i \in Intent : intents[i].phase = "committed"}
BaselineIsLast ==
  /\ Baseline \in Committed \cup {0}
  /\ \A i \in Committed : i <= Baseline
  /\ \A c \in Cand : cands[c].base <= Baseline
MadeFor(c, g) ==
  /\ cands[c].key.custom = gens[g].integrity
  /\ cands[c].key.op = "update" => cands[c].key.from = gens[g].ref /\ cands[c].base = Baseline
UpdatesAreFrom ==
  \A c \in Cand : cands[c].key.op = "update" /\ cands[c].base = Baseline =>
                    cands[c].key.from = gens[active].ref
HolderMade == new # 0 => MadeFor(cand, old)
IntentsMade == \A i \in Intent : Unfinished(i) => MadeFor(intents[i].cand, intents[i].old)
CandidatesAreMade == UpdatesAreFrom /\ HolderMade /\ IntentsMade
CheckedLast ==
  pc = "complete" => touched \/ (Intact(old) /\ Intact(new) /\ pointer = new)

(* Inventories that take the lock do not move the binding.                 *)
ScansLocked == ~UnlockedScans => scan = 0 /\ ~rescanned

TypeInv == TablesOK /\ HolderOK /\ RowsComplete /\ NewKnown /\ UpdatesToRefs
JournalInv == LastIntent /\ HolderJournaled /\ CandidateAtStep
BindingInv == OneActiveGeneration /\ ActiveCandidate /\ LeavesActive
ActivationInv ==
  /\ TypeInv /\ JournalInv /\ BaselineIsLast /\ CheckedLast /\ ScansLocked
  /\ ~rescanned => BindingInv /\ CandidatesAreMade /\ (misplaced \/ PointerAtStep)

-----------------------------------------------------------------------------
(* Types *)

\* 0 stands for no candidate, no generation and no intent.
LEMMA Numbers ==
  /\ 0 \notin Cand /\ 0 \notin Gen /\ 0 \notin Intent
  /\ Intent \subseteq Nat /\ Gen \subseteq Nat /\ Cand \subseteq Nat /\ Refs \subseteq Nat
  /\ Missing \notin Content /\ Content \subseteq Nat /\ 0 \in Content /\ 1 \in Gen /\ 1 \in Refs
BY BoundsAssumption, RefsAssumption DEF Cand, Gen, Intent, Missing, Content

\* The parts make up TypeOK.
LEMMA TypeParts == TablesOK /\ HolderOK => TypeOK
BY DEF TypeOK, TablesOK, HolderOK, GenRow, CandRow, IntentRow, Preparing, Journaled

-----------------------------------------------------------------------------
(* What the steps write, row by row *)

PhaseSet(i, p) ==
  \A j \in Intent :
    /\ intents'[j].phase = IF j = i THEN p ELSE intents[j].phase
    /\ intents'[j].cand = intents[j].cand
    /\ intents'[j].old = intents[j].old /\ intents'[j].new = intents[j].new
StatusSet(c, s) ==
  \A d \in Cand :
    /\ cands'[d].status = IF d = c THEN s ELSE cands[d].status
    /\ cands'[d].key = cands[d].key /\ cands'[d].base = cands[d].base

\* A phase is written into a row of the right type.
LEMMA PhaseWritten ==
  ASSUME TablesOK, NEW i \in Intent, NEW p \in Phase,
         intents' = [intents EXCEPT ![i].phase = p]
  PROVE  intents' \in [Intent -> IntentRow] /\ PhaseSet(i, p)
BY DEF TablesOK, IntentRow, PhaseSet

\* A candidate's row with another status, with or without another tree, is a row.
LEMMA RowWithStatus ==
  ASSUME NEW row \in CandRow, NEW s \in CandStatus, NEW tree \in Content
  PROVE  /\ [row EXCEPT !.status = s] \in CandRow
         /\ [row EXCEPT !.status = s].status = s
         /\ [row EXCEPT !.status = s].key = row.key
         /\ [row EXCEPT !.status = s].base = row.base
         /\ [row EXCEPT !.status = s, !.tree = tree] \in CandRow
         /\ [row EXCEPT !.status = s, !.tree = tree].status = s
         /\ [row EXCEPT !.status = s, !.tree = tree].key = row.key
         /\ [row EXCEPT !.status = s, !.tree = tree].base = row.base
BY DEF CandRow

\* A status is written into the row of a candidate, with or without its tree.
LEMMA StatusWritten ==
  ASSUME TablesOK, NEW c \in Cand, NEW s \in CandStatus,
         \/ SetCandidate(c, s)
         \/ \E tree \in Content : cands' = [cands EXCEPT ![c].status = s, ![c].tree = tree]
  PROVE  cands' \in [Cand -> CandRow] /\ StatusSet(c, s)
<1>1. cands[c] \in CandRow /\ 0 \in Content
  BY Numbers DEF TablesOK
<1>2. /\ cands' = [cands EXCEPT ![c] = cands'[c]]
      /\ \/ cands'[c] = [cands[c] EXCEPT !.status = s]
         \/ \E tree \in Content : cands'[c] = [cands[c] EXCEPT !.status = s, !.tree = tree]
  BY DEF TablesOK, SetCandidate
<1>3. /\ cands'[c] \in CandRow /\ cands'[c].status = s
      /\ cands'[c].key = cands[c].key /\ cands'[c].base = cands[c].base
  <2> DEFINE row == cands[c]
  <2>1. row \in CandRow
    BY <1>1
  <2>2. \/ cands'[c] = [row EXCEPT !.status = s]
        \/ \E tree \in Content : cands'[c] = [row EXCEPT !.status = s, !.tree = tree]
    BY <1>2
  <2> HIDE DEF row
  <2>3. /\ cands'[c] \in CandRow /\ cands'[c].status = s
        /\ cands'[c].key = row.key /\ cands'[c].base = row.base
    <3>1. CASE cands'[c] = [row EXCEPT !.status = s]
      BY <2>1, <3>1 DEF CandRow
    <3>2. ASSUME NEW tree \in Content, cands'[c] = [row EXCEPT !.status = s, !.tree = tree]
          PROVE  /\ cands'[c] \in CandRow /\ cands'[c].status = s
                 /\ cands'[c].key = row.key /\ cands'[c].base = row.base
      BY <2>1, <3>2 DEF CandRow
    <3>3. QED  BY <2>2, <3>1, <3>2
  <2>4. QED  BY <2>3 DEF row
<1>4. QED  BY <1>2, <1>3 DEF TablesOK, StatusSet

\* The row of a candidate's identity: an old one, or one that was free.
Put(c, key) ==
  /\ \A d \in Cand : d # c => cands'[d] = cands[d]
  /\ cands'[c].key = key
  /\ \/ /\ cands[c].key = key /\ cands'[c].base = cands[c].base
        /\ \/ cands'[c].status = cands[c].status
           \/ cands[c].status = "staging" /\ cands'[c].status = "available"
     \/ /\ cands[c] = NoCand /\ cands'[c].status = "available" /\ cands'[c].base = Baseline
LEMMA PutAvailableWritten ==
  ASSUME TablesOK, NEW c \in Cand, NEW key \in Key, Baseline \in Intent \cup {0},
         PutAvailable(c, key)
  PROVE  cands' \in [Cand -> CandRow] /\ Put(c, key)
<1>1. cands[c] \in CandRow /\ 0 \in Content /\ "available" \in CandStatus
  BY Numbers DEF TablesOK, CandStatus
<1>2. \A d \in Cand : d # c => cands'[d] = cands[d]
  BY DEF PutAvailable, TablesOK
<1>3. ASSUME cands[c].key = key  PROVE cands'[c] \in CandRow /\ Put(c, key)
  <2>1. cands'[c] = IF cands[c].status = "staging"
                    THEN [cands[c] EXCEPT !.status = "available", !.tree = 0] ELSE cands[c]
    BY <1>3 DEF PutAvailable, TablesOK
  <2>2. /\ cands'[c] \in CandRow
        /\ cands'[c].key = cands[c].key /\ cands'[c].base = cands[c].base
        /\ \/ cands'[c].status = cands[c].status
           \/ cands[c].status = "staging" /\ cands'[c].status = "available"
    <3> DEFINE row == cands[c]
    <3>1. /\ row \in CandRow
          /\ cands'[c] = IF row.status = "staging"
                         THEN [row EXCEPT !.status = "available", !.tree = 0] ELSE row
      BY <1>1, <2>1
    <3> HIDE DEF row
    <3>2. /\ cands'[c] \in CandRow
          /\ cands'[c].key = row.key /\ cands'[c].base = row.base
          /\ \/ cands'[c].status = row.status
             \/ row.status = "staging" /\ cands'[c].status = "available"
      BY <1>1, <3>1 DEF CandRow
    <3>3. QED  BY <3>2 DEF row
  <2>3. QED  BY <1>2, <1>3, <2>2 DEF Put
<1>4. ASSUME cands[c].key # key  PROVE cands'[c] \in CandRow /\ Put(c, key)
  <2>1. cands[c] = NoCand
    BY <1>4 DEF PutAvailable, Free
  <2>2. cands'[c] = [status |-> "available", key |-> key, base |-> Baseline, tree |-> 0]
    BY <1>4 DEF PutAvailable, TablesOK
  <2>3. cands'[c] \in CandRow
    BY <1>1, <2>2 DEF CandRow
  <2>4. QED  BY <1>2, <2>1, <2>2, <2>3 DEF Put
<1>5. cands'[c] \in CandRow /\ Put(c, key)
  BY <1>3, <1>4
<1>6. cands' = [cands EXCEPT ![c] = cands'[c]]
  BY DEF PutAvailable, TablesOK
<1>7. QED  BY <1>5, <1>6 DEF TablesOK

\* The unfinished intent is the last row of the journal, and the one of the holder.
LastRow(i) ==
  /\ \A j \in Intent : Unfinished(j) => j = i
  /\ \A j \in Intent : j < i => intents[j].phase \in {"committed", "rolled_back"}
  /\ \A j \in Intent : i < j => intents[j].phase = "none"
RowAtHand(i) ==
  /\ intents[i].cand \in Cand /\ intents[i].old \in Gen /\ intents[i].new \in Gen
  /\ pc \in Journaled \cup {"free", "recover"}
  /\ pc \in Journaled => intents[i].cand = cand /\ intents[i].old = old /\ intents[i].new = new
LEMMA UnfinishedIsLast ==
  ASSUME ActivationInv, NEW i \in Intent, Unfinished(i)
  PROVE  LastRow(i) /\ RowAtHand(i)
<1>1. ASSUME NEW j \in Intent, Unfinished(j)  PROVE j = i
  <2>1. ~(i < j) /\ ~(j < i)
    BY <1>1 DEF ActivationInv, JournalInv, LastIntent, Unfinished
  <2>2. QED  BY <2>1, Numbers
<1>2. \A j \in Intent : i < j => intents[j].phase = "none"
  BY DEF ActivationInv, JournalInv, LastIntent
<1>3. ASSUME NEW j \in Intent, j < i  PROVE intents[j].phase \in {"committed", "rolled_back"}
  <2>1. intents[j].phase # "none"
    BY <1>3 DEF ActivationInv, JournalInv, LastIntent, Unfinished
  <2>2. ~Unfinished(j) /\ intents[j].phase \in Phase
    BY <1>1, <1>3, Numbers DEF ActivationInv, TypeInv, TablesOK, IntentRow
  <2>3. QED  BY <2>1, <2>2 DEF Unfinished, Phase
<1>4. RowAtHand(i)
  BY DEF ActivationInv, TypeInv, TablesOK, IntentRow, RowsComplete, Unfinished, JournalInv,
     HolderJournaled, RowAtHand
<1>5. QED  BY <1>1, <1>2, <1>3, <1>4 DEF LastRow

\* markRolledBack: the intent, its candidate and its generation, in one transaction.
PutBack(i) ==
  /\ intents' \in [Intent -> IntentRow] /\ PhaseSet(i, "rolled_back")
  /\ cands' \in [Cand -> CandRow] /\ gens' \in [Gen -> GenRow]
  /\ receipts' \in [Intent -> Seq({"succeeded", "rolled_back"})]
  /\ StatusSet(intents[i].cand, IF cands[intents[i].cand].status = "activating"
                                THEN "rolled_back" ELSE cands[intents[i].cand].status)
  /\ \A g \in Gen :
       /\ gens'[g].state = IF g = intents[i].new /\ gens[g].state # "active"
                           THEN "failed" ELSE gens[g].state
       /\ gens'[g].ref = gens[g].ref /\ gens'[g].cand = gens[g].cand
       /\ gens'[g].integrity = gens[g].integrity
  /\ active' = active
LEMMA MarkRolledBackWritten ==
  ASSUME TablesOK, NEW i \in Intent, MarkRolledBack(i), intents[i].cand # 0, intents[i].new # 0
  PROVE  PutBack(i)
<1>1. intents' \in [Intent -> IntentRow] /\ PhaseSet(i, "rolled_back")
  BY PhaseWritten DEF MarkRolledBack, Phase
<1>2. intents[i].cand \in Cand /\ intents[i].new \in Gen
  BY DEF TablesOK, IntentRow
<1>3. /\ cands' \in [Cand -> CandRow]
      /\ StatusSet(intents[i].cand, IF cands[intents[i].cand].status = "activating"
                                    THEN "rolled_back" ELSE cands[intents[i].cand].status)
  <2> DEFINE c == intents[i].cand
             s == IF cands[c].status = "activating" THEN "rolled_back" ELSE cands[c].status
  <2>1. cands' = [cands EXCEPT ![c].status = s]
    BY DEF MarkRolledBack
  <2>2. c \in Cand /\ s \in CandStatus
    BY <1>2 DEF TablesOK, CandRow, CandStatus
  <2> HIDE DEF c, s
  <2>3. cands' \in [Cand -> CandRow] /\ StatusSet(c, s)
    BY <2>1, <2>2, StatusWritten DEF SetCandidate
  <2>4. QED  BY <2>3 DEF c, s
<1>4. gens' = [gens EXCEPT ![intents[i].new].state = IF @ = "active" THEN @ ELSE "failed"]
  BY DEF MarkRolledBack
<1>5. gens' \in [Gen -> GenRow]
  <2> DEFINE row == gens[intents[i].new]
  <2>0. row \in GenRow
    BY <1>2 DEF TablesOK
  <2>1. [row EXCEPT !.state = "failed"] \in GenRow
    <3> HIDE DEF row
    <3> QED  BY <2>0 DEF GenRow, GenState
  <2>2. gens' = gens \/ gens' = [gens EXCEPT ![intents[i].new] = [@ EXCEPT !.state = "failed"]]
    BY <1>2, <1>4 DEF TablesOK, GenRow
  <2>3. QED  BY <1>2, <2>1, <2>2 DEF TablesOK
<1>6. \A g \in Gen :
        /\ gens'[g].state = IF g = intents[i].new /\ gens[g].state # "active"
                            THEN "failed" ELSE gens[g].state
        /\ gens'[g].ref = gens[g].ref /\ gens'[g].cand = gens[g].cand
        /\ gens'[g].integrity = gens[g].integrity
  BY <1>2, <1>4 DEF TablesOK, GenRow
<1>7. receipts' \in [Intent -> Seq({"succeeded", "rolled_back"})] /\ active' = active
  BY DEF MarkRolledBack, TablesOK
<1>8. QED  BY <1>1, <1>3, <1>5, <1>6, <1>7 DEF PutBack

\* The content that is left becomes a rollback point.
LEMMA FreezeWritten ==
  ASSUME TablesOK, CanFreeze, Freeze
  PROVE  /\ gens' \in [Gen -> GenRow]
         /\ \A g \in Gen : /\ gens'[g].state = gens[g].state /\ gens'[g].ref = gens[g].ref
                           /\ gens'[g].cand = gens[g].cand
                           /\ gens'[g].integrity = IF g = active THEN files[g] ELSE gens[g].integrity
BY DEF TablesOK, GenRow, CanFreeze, Freeze


\* A candidate is materialized as a generation of its own.
LEMMA MaterializeWritten ==
  ASSUME ActivationInv, NEW g \in Gen, gens[g].state = "none", CanFreeze, MaterializeAs(g),
         pc = "fresh"
  PROVE  /\ cand \in Cand /\ g # active
         /\ gens' \in [Gen -> GenRow] /\ files' \in [Gen -> Content \cup {Missing}]
         /\ gens'[g] = [state |-> "prepared", ref |-> cands[cand].key.to,
                        integrity |-> cands[cand].tree, cand |-> cand]
         /\ files' = [files EXCEPT ![g] = cands[cand].tree]
         /\ \A h \in Gen \ {g} :
              /\ gens'[h].state = gens[h].state /\ gens'[h].ref = gens[h].ref
              /\ gens'[h].cand = gens[h].cand
              /\ gens'[h].integrity = IF h = active THEN files[h] ELSE gens[h].integrity
<1> TablesOK /\ cand \in Cand /\ cands[cand].key.to \in Refs
  BY DEF ActivationInv, TypeInv, HolderOK, UpdatesToRefs
<1>1. g # active /\ files[active] \in Content /\ cands[cand].tree \in Content
  BY DEF CanFreeze, TablesOK, CandRow
<1>2. gens' = [gens EXCEPT ![active].integrity = files[active],
                 ![g] = [state |-> "prepared", ref |-> cands[cand].key.to,
                         integrity |-> cands[cand].tree, cand |-> cand]]
  BY DEF MaterializeAs
<1>3. gens' \in [Gen -> GenRow]
  <2>1. [state |-> "prepared", ref |-> cands[cand].key.to,
         integrity |-> cands[cand].tree, cand |-> cand] \in GenRow
    BY <1>1 DEF GenRow, GenState
  <2>2. [gens EXCEPT ![active].integrity = files[active]] \in [Gen -> GenRow]
    BY <1>1 DEF TablesOK, GenRow
  <2>3. QED  BY <1>2, <2>1, <2>2
<1>4. files' = [files EXCEPT ![g] = cands[cand].tree] /\ files' \in [Gen -> Content \cup {Missing}]
  BY <1>1 DEF MaterializeAs, TablesOK
<1>5. QED
  BY <1>1, <1>2, <1>3, <1>4 DEF TablesOK, GenRow

\* FailPreparedGenerationIfUnjournaled: what was never journaled is given up with its files.
LEMMA FailPreparedWritten ==
  ASSUME TablesOK, new \in Gen, FailPreparedGenerationIfUnjournaled
  PROVE  /\ gens' \in [Gen -> GenRow] /\ files' \in [Gen -> Content \cup {Missing}]
         /\ \A g \in Gen :
              /\ gens'[g].state = IF g = new /\ gens[g].state = "prepared" THEN "failed"
                                  ELSE gens[g].state
              /\ gens'[g].ref = gens[g].ref /\ gens'[g].cand = gens[g].cand
              /\ gens'[g].integrity = gens[g].integrity
<1>1. CASE gens[new].state = "prepared"
  <2>1. gens' = [gens EXCEPT ![new].state = "failed"] /\ files' = [files EXCEPT ![new] = Missing]
    BY <1>1 DEF FailPreparedGenerationIfUnjournaled
  <2>2. gens' \in [Gen -> GenRow] /\ files' \in [Gen -> Content \cup {Missing}]
    BY <2>1 DEF TablesOK, GenRow, GenState
  <2>3. QED  BY <1>1, <2>1, <2>2 DEF TablesOK, GenRow
<1>2. CASE gens[new].state # "prepared"
  BY <1>2 DEF FailPreparedGenerationIfUnjournaled, TablesOK
<1>3. QED  BY <1>1, <1>2

LEMMA AbandonWritten ==
  ASSUME ActivationInv, AbandonUnjournaled
  PROVE  /\ pc \in {"check", "journal"} /\ Exit /\ new \in Gen
         /\ gens' \in [Gen -> GenRow] /\ files' \in [Gen -> Content \cup {Missing}]
         /\ \A g \in Gen :
              /\ gens'[g].state = IF g = new /\ gens[g].state = "prepared" THEN "failed"
                                  ELSE gens[g].state
              /\ gens'[g].ref = gens[g].ref /\ gens'[g].cand = gens[g].cand
              /\ gens'[g].integrity = gens[g].integrity
         /\ UNCHANGED <<cands, intents, receipts, active, pointer, env, hist>>
<1>1. TablesOK /\ new \in Gen
  BY DEF ActivationInv, TypeInv, HolderOK, NewKnown, AbandonUnjournaled
<1>2. QED  BY <1>1, FailPreparedWritten DEF AbandonUnjournaled

\* The three ways of an intent to be undone, or left as it is.
Undoing == OldChanged \/ Restored \/ \E i \in Intent : RecoverUnswitched(i)
LEMMA UndoingWritten ==
  ASSUME ActivationInv, Undoing
  PROVE  /\ Exit /\ UNCHANGED <<files, pointer, env, hist>>
         /\ \/ UNCHANGED rows
            \/ \E i \in Intent : /\ Unfinished(i) /\ PutBack(i)
                                 /\ intents[i].cand \in Cand /\ intents[i].new \in Gen
<1>1. Exit /\ UNCHANGED <<files, pointer, env, hist>>
  BY DEF Undoing, OldChanged, Restored, RecoverUnswitched
<1>2. UNCHANGED rows \/ \E i \in Intent : Unfinished(i) /\ MarkRolledBack(i)
  BY DEF Undoing, OldChanged, Restored, RecoverUnswitched
<1>3. ASSUME NEW i \in Intent, Unfinished(i)
      PROVE  intents[i].cand \in Cand /\ intents[i].new \in Gen
  BY <1>3 DEF ActivationInv, TypeInv, TablesOK, IntentRow, RowsComplete, Unfinished
<1>4. ASSUME NEW i \in Intent, Unfinished(i), MarkRolledBack(i)  PROVE PutBack(i)
  BY <1>3, <1>4, MarkRolledBackWritten, Numbers DEF ActivationInv, TypeInv
<1>5. QED  BY <1>1, <1>2, <1>3, <1>4

\* The two ways of an intent to be found switched.
Switching == PersistPointer \/ \E i \in Intent : RecoverForward(i)
Switched(i) ==
  /\ Unfinished(i) /\ PhaseSet(i, "pointer_switched")
  /\ intents[i].cand \in Cand /\ intents[i].old \in Gen /\ intents[i].new \in Gen
  /\ PersistPointer \/ RecoverForward(i)
LEMMA SwitchingWritten ==
  ASSUME ActivationInv, Switching
  PROVE  /\ intents' \in [Intent -> IntentRow]
         /\ \E i \in Intent : Switched(i)
         /\ UNCHANGED <<gens, cands, receipts, active, files, pointer, env, misplaced, rescanned>>
<1>1. TablesOK
  BY DEF ActivationInv, TypeInv
<1>2. "pointer_switched" \in Phase
  BY DEF Phase
<1>3. ASSUME NEW i \in Intent, Unfinished(i)
      PROVE  intents[i].cand \in Cand /\ intents[i].old \in Gen /\ intents[i].new \in Gen
  BY <1>3 DEF ActivationInv, TypeInv, TablesOK, IntentRow, RowsComplete, Unfinished
<1>4. \E i \in Intent :
        /\ Unfinished(i) /\ (PersistPointer \/ RecoverForward(i))
        /\ intents' = [intents EXCEPT ![i].phase = "pointer_switched"]
  BY DEF Switching, PersistPointer, RecoverForward
<1>5. UNCHANGED <<gens, cands, receipts, active, files, pointer, env, misplaced, rescanned>>
  BY DEF Switching, PersistPointer, RecoverForward, hist
<1>6. QED  BY <1>1, <1>2, <1>3, <1>4, <1>5, PhaseWritten DEF Switched

\* The three ways of a candidate to change its status and nothing else.
Marking == Stage \/ Supersede \/ \E c \in Cand : Approve(c)
LEMMA MarkingWritten ==
  ASSUME ActivationInv, Marking
  PROVE  /\ cands' \in [Cand -> CandRow]
         /\ \/ pc = "stage" /\ StatusSet(cand, "staging") /\ Goto("validate")
            \/ pc = "fresh" /\ StatusSet(cand, "superseded") /\ Exit
            \/ /\ pc = "locked" /\ Exit
               /\ \E c \in Cand : cands[c].status = "needs_review" /\ StatusSet(c, "ready")
         /\ UNCHANGED <<gens, intents, receipts, active, files, pointer, env, hist>>
<1>1. TablesOK /\ {"staging", "superseded", "ready"} \subseteq CandStatus
  BY DEF ActivationInv, TypeInv, CandStatus
<1>2. CASE Stage \/ Supersede
  <2>1. cand \in Cand
    BY <1>2 DEF ActivationInv, TypeInv, HolderOK, Stage, Supersede
  <2>2. QED  BY <1>1, <1>2, <2>1, StatusWritten DEF Stage, Supersede
<1>3. ASSUME NEW c \in Cand, Approve(c)
      PROVE  /\ cands' \in [Cand -> CandRow] /\ pc = "locked" /\ Exit
             /\ cands[c].status = "needs_review" /\ StatusSet(c, "ready")
             /\ UNCHANGED <<gens, intents, receipts, active, files, pointer, env, hist>>
  BY <1>1, <1>3, StatusWritten DEF Approve
<1>4. QED  BY <1>2, <1>3 DEF Marking

\* A first or a later run of an update: its candidate, at the step that is due.
AtWork(c, from, to) == cand' = c /\ old' = from /\ new' = to /\ was' = 0
Starts(c, key, at, to) ==
  /\ cands' \in [Cand -> CandRow] /\ Put(c, key)
  /\ \/ cands'[c].status = "available" /\ pc' = "stage" /\ AtWork(c, active, to)
     \/ cands'[c].status = "ready" /\ pc' = at /\ AtWork(c, active, to)
     \/ Exit
LEMMA StartUpdateWritten ==
  ASSUME ActivationInv, NEW r \in Refs, StartUpdate(r)
  PROVE  /\ pc = "locked" /\ CanFreeze /\ Freeze /\ UpdateKey(r) \in Key
         /\ \E c \in Cand : Starts(c, UpdateKey(r), "fresh", 0)
         /\ UNCHANGED <<intents, receipts, active, files, pointer, env, hist>>
<1> TablesOK /\ BaselineIsLast
  BY DEF ActivationInv, TypeInv
<1>1. pc = "locked" /\ CanFreeze /\ Freeze
  BY DEF StartUpdate
<1>2. UpdateKey(r) \in Key
  <2>1. files[active] \in Content /\ gens[active].ref \in Nat /\ r \in Nat
    BY <1>1, Numbers DEF CanFreeze, TablesOK, GenRow
  <2>2. QED  BY <2>1, Numbers DEF UpdateKey, Key
<1>3. PICK c \in Cand :
        /\ PutAvailable(c, UpdateKey(r))
        /\ CASE cands'[c].status = "available" -> Begin("stage", c, active, 0)
             [] cands'[c].status = "ready"     -> Begin("fresh", c, active, 0)
             [] OTHER                          -> Exit
  BY DEF StartUpdate
<1>4. cands' \in [Cand -> CandRow] /\ Put(c, UpdateKey(r))
  BY <1>2, <1>3, PutAvailableWritten DEF BaselineIsLast, Committed
<1>5. \/ cands'[c].status = "available" /\ pc' = "stage" /\ AtWork(c, active, 0)
      \/ cands'[c].status = "ready" /\ pc' = "fresh" /\ AtWork(c, active, 0)
      \/ Exit
  BY <1>3 DEF Begin, AtWork
<1>6. UNCHANGED <<intents, receipts, active, files, pointer, env, hist>>
  BY DEF StartUpdate
<1>7. QED  BY <1>1, <1>2, <1>4, <1>5, <1>6 DEF Starts

\* A first or a later run of a rollback.
LEMMA StartRollbackWritten ==
  ASSUME ActivationInv, NEW t \in Gen, StartRollback(t)
  PROVE  /\ pc = "locked" /\ CanFreeze /\ Freeze /\ RollbackKey(t) \in Key
         /\ t # active /\ gens[t].state = "inactive" /\ Intact(t)
         /\ \E c \in Cand : Starts(c, RollbackKey(t), "check", t)
         /\ UNCHANGED <<intents, receipts, active, files, pointer, env, hist>>
<1> TablesOK /\ BaselineIsLast
  BY DEF ActivationInv, TypeInv
<1>1. /\ pc = "locked" /\ CanFreeze /\ Freeze
      /\ t # active /\ gens[t].state = "inactive" /\ Intact(t)
  BY DEF StartRollback
<1>2. RollbackKey(t) \in Key
  <2>1. /\ files[active] \in Content /\ gens[active].cand \in Cand \cup {0}
        /\ active \in Nat /\ t \in Nat
    BY <1>1, Numbers DEF CanFreeze, TablesOK, GenRow
  <2>2. QED  BY <2>1 DEF RollbackKey, Key
<1>3. PICK c \in Cand :
        /\ PutAvailable(c, RollbackKey(t))
        /\ CASE cands'[c].status = "available" -> Begin("stage", c, active, t)
             [] cands'[c].status = "ready"     -> Begin("check", c, active, t)
             [] OTHER                          -> Exit
  BY DEF StartRollback
<1>4. cands' \in [Cand -> CandRow] /\ Put(c, RollbackKey(t))
  BY <1>2, <1>3, PutAvailableWritten DEF BaselineIsLast, Committed
<1>5. \/ cands'[c].status = "available" /\ pc' = "stage" /\ AtWork(c, active, t)
      \/ cands'[c].status = "ready" /\ pc' = "check" /\ AtWork(c, active, t)
      \/ Exit
  BY <1>3 DEF Begin, AtWork
<1>6. UNCHANGED <<intents, receipts, active, files, pointer, env, hist>>
  BY DEF StartRollback
<1>7. QED  BY <1>1, <1>2, <1>4, <1>5, <1>6 DEF Starts

\* The verdict on a staged candidate.
LEMMA ValidateWritten ==
  ASSUME ActivationInv, Validate \/ ValidateRollback
  PROVE  /\ pc = "validate" /\ cands' \in [Cand -> CandRow]
         /\ \/ /\ Validate /\ cands[cand].key.op = "update" /\ StatusSet(cand, "ready")
               /\ Goto("fresh")
            \/ Validate /\ Exit /\ \E s \in {"needs_review", "failed"} : StatusSet(cand, s)
            \/ /\ ValidateRollback /\ cands[cand].key.op = "rollback" /\ StatusSet(cand, "ready")
               /\ Goto("check")
         /\ UNCHANGED <<gens, intents, receipts, active, files, pointer, env, hist>>
<1> TablesOK /\ cand \in Cand /\ (cands[cand].key.op = "rollback" => new \in Gen)
  BY DEF ActivationInv, TypeInv, HolderOK, NewKnown, Validate, ValidateRollback
<1>1. cands[cand].key.custom \in Content /\ 0 \in Content
  BY Numbers DEF TablesOK, CandRow, Key
<1>2. {"ready", "needs_review", "failed"} \subseteq CandStatus
  BY DEF CandStatus
<1>3. CASE Validate
  <2>1. CASE /\ cands' = [cands EXCEPT ![cand].status = "ready",
                                        ![cand].tree = cands[cand].key.custom]
             /\ Goto("fresh")
    BY <1>1, <1>2, <1>3, <2>1, StatusWritten DEF Validate
  <2>2. CASE /\ \E tree \in {0, cands[cand].key.custom} :
                  cands' = [cands EXCEPT ![cand].status = "needs_review", ![cand].tree = tree]
             /\ Exit
    <3>1. cands' \in [Cand -> CandRow] /\ StatusSet(cand, "needs_review")
      BY <1>1, <1>2, <2>2, StatusWritten
    <3>2. QED  BY <1>3, <2>2, <3>1 DEF Validate
  <2>3. CASE SetCandidate(cand, "failed") /\ Exit
    <3>1. cands' \in [Cand -> CandRow] /\ StatusSet(cand, "failed")
      BY <1>2, <2>3, StatusWritten
    <3>2. QED  BY <1>3, <2>3, <3>1 DEF Validate
  <2>4. QED  BY <1>3, <2>1, <2>2, <2>3 DEF Validate
<1>4. CASE ValidateRollback
  <2>1. gens[new].integrity \in Content
    BY <1>4 DEF ValidateRollback, TablesOK, GenRow
  <2>2. cands' \in [Cand -> CandRow] /\ StatusSet(cand, "ready")
    BY <1>2, <1>4, <2>1, StatusWritten DEF ValidateRollback
  <2>3. QED  BY <1>4, <2>2 DEF ValidateRollback
<1>5. QED  BY <1>3, <1>4

\* The intent that is journaled is the first free row.
Journals(i) ==
  /\ intents[i].phase = "none"
  /\ \A j \in Intent : j < i => intents[j].phase # "none"
  /\ intents' \in [Intent -> IntentRow]
  /\ intents'[i].phase = "prepared" /\ intents'[i].cand = cand
  /\ intents'[i].old = old /\ intents'[i].new = new
  /\ \A j \in Intent : j # i => intents'[j] = intents[j]
LEMMA SaveIntentWritten ==
  ASSUME ActivationInv, SaveIntent
  PROVE  /\ pc = "journal" /\ active = old /\ cands[cand].status = "ready"
         /\ cands' \in [Cand -> CandRow] /\ StatusSet(cand, "activating") /\ Goto("verify")
         /\ cand \in Cand /\ old \in Gen /\ new \in Gen
         /\ \E i \in Intent : Journals(i)
         /\ UNCHANGED <<gens, receipts, active, files, pointer, env, hist>>
<1> TablesOK /\ cand \in Cand /\ old \in Gen /\ new \in Gen
  BY DEF ActivationInv, TypeInv, HolderOK, NewKnown, SaveIntent
<1>1. PICK i \in Intent :
        /\ Free(intents, NoIntent, i)
        /\ intents' = [intents EXCEPT ![i] =
                         [phase |-> "prepared", cand |-> cand, old |-> old, new |-> new]]
  BY DEF SaveIntent
<1>2. /\ intents[i].phase = "none"
      /\ \A j \in Intent : j < i => intents[j].phase # "none"
  <2>1. \A j \in Intent : intents[j].phase = "none" => intents[j] = NoIntent
    BY DEF ActivationInv, TypeInv, TablesOK, IntentRow, RowsComplete, NoIntent
  <2>2. QED  BY <1>1, <2>1 DEF TablesOK, Free, NoIntent
<1>3. /\ intents' \in [Intent -> IntentRow]
      /\ intents'[i].phase = "prepared" /\ intents'[i].cand = cand
      /\ intents'[i].old = old /\ intents'[i].new = new
      /\ \A j \in Intent : j # i => intents'[j] = intents[j]
  BY <1>1 DEF TablesOK, IntentRow, Phase
<1>4. cands' \in [Cand -> CandRow] /\ StatusSet(cand, "activating")
  BY StatusWritten DEF SaveIntent, CandStatus
<1>5. QED  BY <1>2, <1>3, <1>4 DEF SaveIntent, Journals

\* Complete: what one transaction writes into five tables.
Completes(i) ==
  /\ Unfinished(i) /\ Completable(i) /\ intents' \in [Intent -> IntentRow]
  /\ PhaseSet(i, "committed")
  /\ receipts' = [receipts EXCEPT ![i] = Append(@, "succeeded")]
  /\ \A c \in Cand :
       /\ cands'[c].status = IF c = cand THEN "active"
                             ELSE IF c \in Undone(i) THEN "rolled_back" ELSE cands[c].status
       /\ cands'[c].key = cands[c].key /\ cands'[c].base = cands[c].base
LEMMA CompleteWritten ==
  ASSUME ActivationInv, Complete
  PROVE  /\ pc = "complete" /\ Exit /\ cand \in Cand /\ old \in Gen /\ new \in Gen
         /\ (\E i \in Intent : Completes(i)) /\ cands' \in [Cand -> CandRow]
         /\ active' = new /\ gens' \in [Gen -> GenRow]
         /\ receipts' \in [Intent -> Seq({"succeeded", "rolled_back"})]
         /\ \A g \in Gen :
              /\ gens'[g].state = IF g = new THEN "active" ELSE IF g = old THEN "inactive"
                                  ELSE gens[g].state
              /\ gens'[g].cand = IF g = new THEN cand ELSE gens[g].cand
              /\ gens'[g].ref = gens[g].ref /\ gens'[g].integrity = gens[g].integrity
         /\ UNCHANGED <<files, pointer, env, hist>>
<1> TablesOK /\ cand \in Cand /\ old \in Gen /\ new \in Gen
  BY DEF ActivationInv, TypeInv, HolderOK, NewKnown, Journaled, Complete
<1>1. PICK i \in Intent :
        /\ Unfinished(i) /\ Completable(i)
        /\ intents' = [intents EXCEPT ![i].phase = "committed"]
        /\ gens' = [gens EXCEPT ![old].state = "inactive",
                                ![new].state = "active", ![new].cand = cand]
        /\ active' = new
        /\ cands' = [c \in Cand |-> IF c = cand THEN [cands[c] EXCEPT !.status = "active"]
                      ELSE IF c \in Undone(i) THEN [cands[c] EXCEPT !.status = "rolled_back"]
                      ELSE cands[c]]
        /\ receipts' = [receipts EXCEPT ![i] = Append(@, "succeeded")]
  BY DEF Complete
<1>2. intents' \in [Intent -> IntentRow] /\ PhaseSet(i, "committed")
  BY <1>1, PhaseWritten DEF Phase
<1>3. cands' \in [Cand -> CandRow]
  <2>1. cands \in [Cand -> CandRow] /\ {"active", "rolled_back"} \subseteq CandStatus
    BY DEF TablesOK, CandStatus
  <2>2. \A c \in Cand : /\ [cands[c] EXCEPT !.status = "active"] \in CandRow
                        /\ [cands[c] EXCEPT !.status = "rolled_back"] \in CandRow
    BY <2>1, Numbers, RowWithStatus
  <2>3. QED  BY <1>1, <2>1, <2>2
<1>4. \A c \in Cand :
        /\ cands'[c].status = IF c = cand THEN "active"
                              ELSE IF c \in Undone(i) THEN "rolled_back" ELSE cands[c].status
        /\ cands'[c].key = cands[c].key /\ cands'[c].base = cands[c].base
  BY <1>1 DEF TablesOK, CandRow
<1>5. gens' \in [Gen -> GenRow]
  <2> DEFINE left == [gens EXCEPT ![old].state = "inactive"]
             entered == [left EXCEPT ![new].state = "active"]
  <2>1. left \in [Gen -> GenRow]
    BY DEF TablesOK, GenRow, GenState
  <2>2. entered \in [Gen -> GenRow]
    <3> HIDE DEF left
    <3> QED  BY <2>1 DEF GenRow, GenState
  <2>3. [entered EXCEPT ![new].cand = cand] \in [Gen -> GenRow]
    <3> HIDE DEF entered
    <3> QED  BY <2>2 DEF GenRow
  <2>4. gens' = [entered EXCEPT ![new].cand = cand]
    BY <1>1
  <2>5. QED  BY <2>3, <2>4
<1>6. \A g \in Gen :
        /\ gens'[g].state = IF g = new THEN "active" ELSE IF g = old THEN "inactive"
                            ELSE gens[g].state
        /\ gens'[g].cand = IF g = new THEN cand ELSE gens[g].cand
        /\ gens'[g].ref = gens[g].ref /\ gens'[g].integrity = gens[g].integrity
  BY <1>1 DEF TablesOK, GenRow
<1>7. receipts' \in [Intent -> Seq({"succeeded", "rolled_back"})]
  BY <1>1 DEF TablesOK
<1>8. pc = "complete" /\ Exit /\ UNCHANGED <<files, pointer, env, hist>>
  BY DEF Complete
<1>9. QED  BY <1>1, <1>2, <1>3, <1>4, <1>5, <1>6, <1>7, <1>8 DEF Completes

\* The steps that write no table; the steps of everyone else.
Waiting ==
  \/ TakeLock \/ Leave \/ Check \/ OldVerified \/ PersistFails \/ NotSwitched \/ Unhealthy
  \/ CompleteRefused \/ RestoreFails \/ \E i \in Intent : RecoverByRestoring(i)
Pointing == Switch \/ SwitchFails \/ Healthy \/ Restore
Outside == (\E g \in Gen : Edit(g)) \/ Interfere \/ ScanReads \/ ScanWrites \/ Crash
LEMMA NextCases ==
  ASSUME [Next]_vars
  PROVE  \/ Waiting \/ Pointing \/ Outside \/ UNCHANGED vars
         \/ Marking \/ Validate \/ ValidateRollback \/ Materialize \/ AbandonUnjournaled
         \/ SaveIntent \/ Undoing \/ Switching \/ Complete
         \/ (\E r \in Refs : StartUpdate(r)) \/ (\E t \in Gen : StartRollback(t))
BY DEF Next, Holder, Others, Propose, Activate, Recover, Waiting, Pointing, Outside, Marking,
   Undoing, Switching

-----------------------------------------------------------------------------
(* One lemma for each part of the invariant *)

\* Settling the unfinished intent leaves the journal in order.
LEMMA SettlingLast ==
  ASSUME ActivationInv, NEW i \in Intent, Unfinished(i),
         PhaseSet(i, "committed") \/ PhaseSet(i, "rolled_back")
  PROVE  LastIntent'
<1>1. LastIntent /\ LastRow(i) /\ intents[i].phase # "none"
  BY UnfinishedIsLast DEF ActivationInv, JournalInv, Unfinished
<1>2. intents'[i].phase \in {"committed", "rolled_back"}
  BY DEF PhaseSet
<1>3. \A j \in Intent \ {i} : intents'[j].phase = intents[j].phase
  BY DEF PhaseSet
<1>4. \A j \in Intent : ~Unfinished(j)'
  BY <1>1, <1>2, <1>3 DEF LastRow, Unfinished
<1>5. QED  BY <1>1, <1>3, <1>4 DEF LastIntent

\* Every row that is written has its type.
LEMMA TablesStep ==
  ASSUME ActivationInv, [Next]_vars
  PROVE  TablesOK'
<1> USE Numbers DEF TablesOK
<1>0. TablesOK /\ HolderOK /\ NewKnown
  BY DEF ActivationInv, TypeInv
<1>1. CASE Waiting
  BY <1>0, <1>1
  DEF Waiting, TakeLock, Leave, Check, OldVerified, PersistFails, NotSwitched, Unhealthy,
      CompleteRefused, RestoreFails, RecoverByRestoring, rows
<1>2. CASE Pointing
  BY <1>0, <1>2 DEF Pointing, Switch, SwitchFails, Healthy, Restore, HolderOK, rows
<1>3. CASE Outside
  BY <1>0, <1>3
  DEF Outside, Edit, Interfere, ScanReads, ScanWrites, Crash, Exit, HolderOK, rows, hist
<1>4. CASE Marking
  BY <1>0, <1>4, MarkingWritten
<1>5. CASE Validate \/ ValidateRollback
  BY <1>0, <1>5, ValidateWritten
<1>6. CASE Materialize
  <2> PICK g \in Gen : Free([h \in Gen |-> gens[h].state], "none", g) /\ MaterializeAs(g)
    BY <1>6 DEF Materialize
  <2>1. gens[g].state = "none" /\ CanFreeze /\ pc = "fresh" /\ IsFresh
    BY <1>6 DEF Materialize, Free, IsFresh
  <2>2. QED  BY <1>0, <2>1, MaterializeWritten DEF MaterializeAs, rows, work, env, hist
<1>7. CASE AbandonUnjournaled
  BY <1>0, <1>7, AbandonWritten
<1>8. CASE SaveIntent
  BY <1>0, <1>8, SaveIntentWritten DEF Journals
<1>9. CASE Undoing
  BY <1>0, <1>9, UndoingWritten DEF rows, PutBack
<1>10. CASE Switching
  BY <1>0, <1>10, SwitchingWritten
<1>11. CASE Complete
  BY <1>0, <1>11, CompleteWritten DEF Completes
<1>12. ASSUME NEW r \in Refs, StartUpdate(r)  PROVE TablesOK'
  BY <1>0, <1>12, StartUpdateWritten, FreezeWritten DEF Starts
<1>13. ASSUME NEW t \in Gen, StartRollback(t)  PROVE TablesOK'
  BY <1>0, <1>13, StartRollbackWritten, FreezeWritten DEF Starts
<1>14. CASE UNCHANGED vars
  BY <1>0, <1>14 DEF vars, rows
<1>15. QED
  BY <1>1, <1>2, <1>3, <1>4, <1>5, <1>6, <1>7, <1>8, <1>9, <1>10, <1>11, <1>12, <1>13,
     <1>14, NextCases

\* The holder has a candidate and a generation to leave exactly while it works on them.
LEMMA HolderStep ==
  ASSUME ActivationInv, [Next]_vars
  PROVE  HolderOK'
<1> USE Numbers DEF HolderOK, Preparing, Journaled
<1>0. TablesOK /\ HolderOK /\ RowsComplete
  BY DEF ActivationInv, TypeInv
<1>1. CASE Waiting
  BY <1>0, <1>1
  DEF Waiting, TakeLock, Leave, Check, OldVerified, PersistFails, NotSwitched, Unhealthy,
      CompleteRefused, RestoreFails, RecoverByRestoring, Goto, Exit, Begin, TablesOK,
      IntentRow, RowsComplete, Unfinished, rows, env, hist
<1>2. CASE Pointing
  BY <1>0, <1>2 DEF Pointing, Switch, SwitchFails, Healthy, Restore, Goto, Exit, rows, work,
       env, hist
<1>3. CASE Outside
  <2>1. CASE Crash
    BY <1>0, <2>1, BoundsAssumption DEF Crash, Exit, hist
  <2>2. CASE Interfere
    BY <1>0, <2>2, BoundsAssumption DEF Interfere, work
  <2>3. CASE ScanReads \/ ScanWrites
    BY <1>0, <2>3 DEF ScanReads, ScanWrites, TablesOK, work, hist
  <2>4. ASSUME NEW g \in Gen, Edit(g)  PROVE HolderOK'
    BY <1>0, <2>4 DEF Edit, work, env
  <2>5. QED  BY <1>3, <2>1, <2>2, <2>3, <2>4 DEF Outside
<1>4. CASE Marking
  BY <1>0, <1>4, MarkingWritten DEF Goto, Exit, env, hist
<1>5. CASE Validate \/ ValidateRollback
  BY <1>0, <1>5, ValidateWritten DEF Goto, Exit, env, hist
<1>6. CASE Materialize
  BY <1>0, <1>6 DEF Materialize, MaterializeAs, env, hist
<1>7. CASE AbandonUnjournaled
  BY <1>0, <1>7, AbandonWritten DEF Exit, env, hist
<1>8. CASE SaveIntent
  BY <1>0, <1>8, SaveIntentWritten DEF Goto, env, hist
<1>9. CASE Undoing
  BY <1>0, <1>9, UndoingWritten DEF Exit, env, hist
<1>10. CASE Switching
  <2> PICK i \in Intent : Switched(i)
    BY <1>10, SwitchingWritten
  <2>1. /\ UNCHANGED <<gens, cands, receipts, active, files, pointer, env, misplaced, rescanned>>
        /\ intents' \in [Intent -> IntentRow] /\ LastRow(i) /\ RowAtHand(i)
    BY <1>10, SwitchingWritten, UnfinishedIsLast DEF Switched
  <2>2. CASE PersistPointer
    BY <1>0, <2>2 DEF PersistPointer, Goto, env, hist
  <2>3. CASE RecoverForward(i)
    BY <1>0, <2>1, <2>3 DEF Switched, PhaseSet, RecoverForward, Begin, env, LastRow, RowAtHand
  <2>4. QED  BY <2>2, <2>3 DEF Switched
<1>11. CASE Complete
  BY <1>0, <1>11, CompleteWritten DEF Exit, env, hist
<1>12. ASSUME NEW r \in Refs, StartUpdate(r)  PROVE HolderOK'
  BY <1>0, <1>12, StartUpdateWritten DEF Starts, AtWork, Exit, env, hist, TablesOK
<1>13. ASSUME NEW t \in Gen, StartRollback(t)  PROVE HolderOK'
  BY <1>0, <1>13, StartRollbackWritten DEF Starts, AtWork, Exit, env, hist, TablesOK
<1>14. CASE UNCHANGED vars
  BY <1>0, <1>14 DEF vars, work, env, hist
<1>15. QED
  BY <1>1, <1>2, <1>3, <1>4, <1>5, <1>6, <1>7, <1>8, <1>9, <1>10, <1>11, <1>12, <1>13,
     <1>14, NextCases

\* A row of the journal is written as a whole.
LEMMA RowsCompleteStep ==
  ASSUME ActivationInv, [Next]_vars
  PROVE  RowsComplete'
<1> USE Numbers DEF RowsComplete, Unfinished
<1>0. RowsComplete /\ TablesOK
  BY DEF ActivationInv, TypeInv
<1>1. CASE Waiting
  BY <1>0, <1>1
  DEF Waiting, TakeLock, Leave, Check, OldVerified, PersistFails, NotSwitched, Unhealthy,
      CompleteRefused, RestoreFails, RecoverByRestoring, rows
<1>2. CASE Pointing
  BY <1>0, <1>2 DEF Pointing, Switch, SwitchFails, Healthy, Restore, rows
<1>3. CASE Outside
  BY <1>0, <1>3 DEF Outside, Edit, Interfere, ScanReads, ScanWrites, Crash, rows
<1>4. CASE Marking
  BY <1>0, <1>4, MarkingWritten
<1>5. CASE Validate \/ ValidateRollback
  BY <1>0, <1>5, ValidateWritten
<1>6. CASE Materialize
  BY <1>0, <1>6 DEF Materialize, MaterializeAs
<1>7. CASE AbandonUnjournaled
  BY <1>0, <1>7, AbandonWritten
<1>8. CASE SaveIntent
  BY <1>0, <1>8, SaveIntentWritten DEF Journals
<1>9. CASE Undoing
  <2>1. CASE UNCHANGED intents
    BY <1>0, <2>1
  <2>2. ASSUME NEW i \in Intent, Unfinished(i), PutBack(i)  PROVE RowsComplete'
    BY <1>0, <2>2 DEF PutBack, PhaseSet
  <2>3. QED  BY <1>9, <2>1, <2>2, UndoingWritten DEF rows
<1>10. CASE Switching
  <2> PICK i \in Intent : Switched(i)
    BY <1>10, SwitchingWritten
  <2>1. /\ UNCHANGED <<gens, cands, receipts, active, files, pointer, env, misplaced, rescanned>>
        /\ intents' \in [Intent -> IntentRow] /\ LastRow(i) /\ RowAtHand(i)
    BY <1>10, SwitchingWritten, UnfinishedIsLast DEF Switched
  <2>2. CASE PersistPointer
    BY <1>0 DEF Switched, PhaseSet
  <2>3. CASE RecoverForward(i)
    BY <1>0 DEF Switched, PhaseSet
  <2>4. QED  BY <2>2, <2>3 DEF Switched
<1>11. CASE Complete
  <2>1. PICK i \in Intent : Unfinished(i) /\ PhaseSet(i, "committed")
    BY <1>11, CompleteWritten DEF Completes
  <2>2. QED  BY <1>0, <2>1 DEF PhaseSet
<1>12. ASSUME NEW r \in Refs, StartUpdate(r)  PROVE RowsComplete'
  BY <1>0, <1>12, StartUpdateWritten
<1>13. ASSUME NEW t \in Gen, StartRollback(t)  PROVE RowsComplete'
  BY <1>0, <1>13, StartRollbackWritten
<1>14. CASE UNCHANGED vars
  BY <1>0, <1>14 DEF vars, rows
<1>15. QED
  BY <1>1, <1>2, <1>3, <1>4, <1>5, <1>6, <1>7, <1>8, <1>9, <1>10, <1>11, <1>12, <1>13,
     <1>14, NextCases

\* The new generation is known as soon as there is one.
LEMMA NewKnownStep ==
  ASSUME ActivationInv, [Next]_vars
  PROVE  NewKnown'
<1> USE Numbers DEF NewKnown, HolderOK, Preparing, Journaled
<1>0. NewKnown /\ HolderOK /\ TablesOK /\ RowsComplete
  BY DEF ActivationInv, TypeInv
<1>1. CASE Waiting
  BY <1>0, <1>1
  DEF Waiting, TakeLock, Leave, Check, OldVerified, PersistFails, NotSwitched, Unhealthy,
      CompleteRefused, RestoreFails, RecoverByRestoring, Goto, Exit, Begin, RowsComplete,
      Unfinished
<1>2. CASE Pointing
  BY <1>0, <1>2 DEF Pointing, Switch, SwitchFails, Healthy, Restore, Goto, Exit
<1>3. CASE Outside
  BY <1>0, <1>3
  DEF Outside, Edit, Interfere, ScanReads, ScanWrites, Crash, Exit, rows, work
<1>4. CASE Marking
  BY <1>0, <1>4, MarkingWritten DEF StatusSet, Goto, Exit
<1>5. CASE Validate \/ ValidateRollback
  BY <1>0, <1>5, ValidateWritten DEF Goto, Exit
<1>6. CASE Materialize
  BY <1>6 DEF Materialize, MaterializeAs
<1>7. CASE AbandonUnjournaled
  BY <1>7, AbandonWritten DEF Exit
<1>8. CASE SaveIntent
  BY <1>8, SaveIntentWritten DEF Goto
<1>9. CASE Undoing
  BY <1>9, UndoingWritten DEF Exit
<1>10. CASE Switching
  <2>1. CASE PersistPointer
    BY <1>0, <2>1 DEF PersistPointer, Goto, env
  <2>2. ASSUME NEW k \in Intent, RecoverForward(k)  PROVE NewKnown'
    <3>1. Unfinished(k) /\ new' = intents[k].new /\ pc' \in {"health", "complete"}
      BY <2>2 DEF RecoverForward, Begin
    <3>2. QED  BY <1>0, <3>1 DEF RowsComplete, Unfinished
  <2>3. QED  BY <1>10, <2>1, <2>2 DEF Switching
<1>11. CASE Complete
  BY <1>11, CompleteWritten DEF Exit
<1>12. ASSUME NEW r \in Refs, StartUpdate(r)  PROVE NewKnown'
  <2> PICK c \in Cand : Starts(c, UpdateKey(r), "fresh", 0)
    BY <1>12, StartUpdateWritten
  <2>1. QED
    BY DEF Starts, Put, AtWork, Exit, UpdateKey
<1>13. ASSUME NEW t \in Gen, StartRollback(t)  PROVE NewKnown'
  <2> PICK c \in Cand : Starts(c, RollbackKey(t), "check", t)
    BY <1>13, StartRollbackWritten
  <2>1. QED
    BY DEF Starts, Put, AtWork, Exit, RollbackKey
<1>14. CASE UNCHANGED vars
  BY <1>0, <1>14 DEF vars, rows, work
<1>15. QED
  BY <1>1, <1>2, <1>3, <1>4, <1>5, <1>6, <1>7, <1>8, <1>9, <1>10, <1>11, <1>12, <1>13,
     <1>14, NextCases

\* What is materialized is a ref that the source offered.
LEMMA UpdatesToRefsStep ==
  ASSUME ActivationInv, [Next]_vars
  PROVE  UpdatesToRefs'
<1> USE Numbers DEF UpdatesToRefs, HolderOK
<1>0. UpdatesToRefs /\ HolderOK /\ TablesOK
  BY DEF ActivationInv, TypeInv
<1>1. CASE Waiting
  BY <1>0, <1>1
  DEF Waiting, TakeLock, Leave, Check, OldVerified, PersistFails, NotSwitched, Unhealthy,
      CompleteRefused, RestoreFails, RecoverByRestoring, Goto, Exit, Begin, rows
<1>2. CASE Pointing
  BY <1>0, <1>2 DEF Pointing, Switch, SwitchFails, Healthy, Restore, Goto, Exit, rows
<1>3. CASE Outside
  BY <1>0, <1>3
  DEF Outside, Edit, Interfere, ScanReads, ScanWrites, Crash, Exit, rows, work
<1>4. CASE Marking
  BY <1>0, <1>4, MarkingWritten DEF StatusSet, Goto, Exit
<1>5. CASE Validate \/ ValidateRollback
  BY <1>0, <1>5, ValidateWritten DEF StatusSet, Goto, Exit
<1>6. CASE Materialize
  BY <1>0, <1>6 DEF Materialize, MaterializeAs
<1>7. CASE AbandonUnjournaled
  BY <1>0, <1>7, AbandonWritten DEF Exit
<1>8. CASE SaveIntent
  BY <1>0, <1>8, SaveIntentWritten DEF StatusSet, Goto
<1>9. CASE Undoing
  BY <1>0, <1>9, UndoingWritten DEF Exit, rows, PutBack, StatusSet
<1>10. CASE Switching
  BY <1>0, <1>10, SwitchingWritten DEF Switched, PhaseSet, PersistPointer, RecoverForward,
       Goto, Begin, env
<1>11. CASE Complete
  BY <1>0, <1>11, CompleteWritten DEF Completes, PhaseSet, Exit, env, hist
<1>12. ASSUME NEW r \in Refs, StartUpdate(r)  PROVE UpdatesToRefs'
  <2> PICK c \in Cand : Starts(c, UpdateKey(r), "fresh", 0)
    BY <1>12, StartUpdateWritten
  <2>1. QED
    BY <1>0 DEF Starts, Put, AtWork, Exit, UpdateKey
<1>13. ASSUME NEW t \in Gen, StartRollback(t)  PROVE UpdatesToRefs'
  <2> PICK c \in Cand : Starts(c, RollbackKey(t), "check", t)
    BY <1>13, StartRollbackWritten
  <2>1. QED
    BY <1>0 DEF Starts, Put, Exit, RollbackKey
<1>14. CASE UNCHANGED vars
  BY <1>0, <1>14 DEF vars, rows, work
<1>15. QED
  BY <1>1, <1>2, <1>3, <1>4, <1>5, <1>6, <1>7, <1>8, <1>9, <1>10, <1>11, <1>12, <1>13,
     <1>14, NextCases

\* Intents are journaled one after the other.
LEMMA LastIntentStep ==
  ASSUME ActivationInv, [Next]_vars
  PROVE  LastIntent'
<1> USE Numbers DEF LastIntent, Unfinished
<1>0. LastIntent /\ HolderJournaled
  BY DEF ActivationInv, JournalInv
<1>1. CASE Waiting
  BY <1>0, <1>1
  DEF Waiting, TakeLock, Leave, Check, OldVerified, PersistFails, NotSwitched, Unhealthy,
      CompleteRefused, RestoreFails, RecoverByRestoring, rows
<1>2. CASE Pointing
  BY <1>0, <1>2 DEF Pointing, Switch, SwitchFails, Healthy, Restore, rows
<1>3. CASE Outside
  BY <1>0, <1>3 DEF Outside, Edit, Interfere, ScanReads, ScanWrites, Crash, rows
<1>4. CASE Marking
  BY <1>0, <1>4, MarkingWritten
<1>5. CASE Validate \/ ValidateRollback
  BY <1>0, <1>5, ValidateWritten
<1>6. CASE Materialize
  BY <1>0, <1>6 DEF Materialize, MaterializeAs
<1>7. CASE AbandonUnjournaled
  BY <1>0, <1>7, AbandonWritten
<1>8. CASE SaveIntent
  <2> PICK i \in Intent : Journals(i)
    BY <1>8, SaveIntentWritten
  <2>1. \A j \in Intent : j # i => intents'[j] = intents[j] /\ ~Unfinished(j)
    BY <1>0, <1>8, SaveIntentWritten DEF Journals, HolderJournaled, Journaled
  <2>2. \A j \in Intent : i < j => intents[j].phase = "none"
    BY <1>0 DEF Journals
  <2>3. intents'[i].phase = "prepared" /\ \A j \in Intent : j < i => intents[j].phase # "none"
    BY DEF Journals
  <2>4. ASSUME NEW j \in Intent, NEW k \in Intent, j < k
        PROVE  intents'[j].phase = "none" \/ Unfinished(j)' => intents'[k].phase = "none"
    <3>1. CASE j = i
      <4>1. k # i
        BY <2>4, <3>1
      <4>2. QED  BY <4>1, <2>1, <2>2, <2>4, <3>1
    <3>2. CASE j # i /\ k = i
      <4>1. intents'[j] = intents[j] /\ ~Unfinished(j) /\ intents[j].phase # "none"
        BY <2>1, <2>3, <2>4, <3>2
      <4>2. QED  BY <4>1
    <3>3. CASE j # i /\ k # i
      <4>1. intents'[j] = intents[j] /\ ~Unfinished(j) /\ intents'[k] = intents[k]
        BY <2>1, <3>3
      <4>2. QED  BY <4>1, <1>0, <2>4
    <3>4. QED  BY <3>1, <3>2, <3>3
  <2>5. QED  BY <2>4
<1>9. CASE Undoing
  <2>1. CASE UNCHANGED intents
    BY <1>0, <2>1
  <2>2. ASSUME NEW i \in Intent, Unfinished(i), PutBack(i)  PROVE LastIntent'
    BY <2>2, SettlingLast DEF PutBack
  <2>3. QED  BY <1>9, <2>1, <2>2, UndoingWritten DEF rows
<1>10. CASE Switching
  <2> PICK i \in Intent : Switched(i)
    BY <1>10, SwitchingWritten
  <2>1. /\ UNCHANGED <<gens, cands, receipts, active, files, pointer, env, misplaced, rescanned>>
        /\ intents' \in [Intent -> IntentRow] /\ LastRow(i) /\ RowAtHand(i)
    BY <1>10, SwitchingWritten, UnfinishedIsLast DEF Switched
  <2>2. CASE PersistPointer
    BY <1>0 DEF Switched, PhaseSet
  <2>3. CASE RecoverForward(i)
    BY <1>0 DEF Switched, PhaseSet
  <2>4. QED  BY <2>2, <2>3 DEF Switched
<1>11. CASE Complete
  BY <1>11, CompleteWritten, SettlingLast DEF Completes
<1>12. ASSUME NEW r \in Refs, StartUpdate(r)  PROVE LastIntent'
  BY <1>0, <1>12, StartUpdateWritten
<1>13. ASSUME NEW t \in Gen, StartRollback(t)  PROVE LastIntent'
  BY <1>0, <1>13, StartRollbackWritten
<1>14. CASE UNCHANGED vars
  BY <1>0, <1>14 DEF vars, rows
<1>15. QED
  BY <1>1, <1>2, <1>3, <1>4, <1>5, <1>6, <1>7, <1>8, <1>9, <1>10, <1>11, <1>12, <1>13,
     <1>14, NextCases

\* Whoever is past its journaling works on the unfinished intent.
LEMMA HolderJournaledStep ==
  ASSUME ActivationInv, [Next]_vars
  PROVE  HolderJournaled'
<1> USE Numbers DEF HolderJournaled, LastIntent, Unfinished, Journaled
<1>0. HolderJournaled /\ LastIntent /\ HolderOK /\ RowsComplete
  BY DEF ActivationInv, TypeInv, JournalInv
<1>1. CASE Waiting
  BY <1>0, <1>1
  DEF Waiting, TakeLock, Leave, Check, OldVerified, PersistFails, NotSwitched, Unhealthy,
      CompleteRefused, RestoreFails, RecoverByRestoring, Goto, Exit, Begin, rows
<1>2. CASE Pointing
  BY <1>0, <1>2 DEF Pointing, Switch, SwitchFails, Healthy, Restore, Goto, Exit, rows
<1>3. CASE Outside
  BY <1>0, <1>3
  DEF Outside, Edit, Interfere, ScanReads, ScanWrites, Crash, Exit, rows, work
<1>4. CASE Marking
  BY <1>0, <1>4, MarkingWritten DEF Goto, Exit
<1>5. CASE Validate \/ ValidateRollback
  BY <1>0, <1>5, ValidateWritten DEF Goto, Exit
<1>6. CASE Materialize
  BY <1>0, <1>6 DEF Materialize, MaterializeAs
<1>7. CASE AbandonUnjournaled
  BY <1>7, AbandonWritten DEF Exit
<1>8. CASE SaveIntent
  BY <1>0, <1>8, SaveIntentWritten DEF Journals, Goto
<1>9. CASE Undoing
  BY <1>9, UndoingWritten DEF Exit
<1>10. CASE Switching
  <2> PICK i \in Intent : Switched(i)
    BY <1>10, SwitchingWritten
  <2>1. /\ UNCHANGED <<gens, cands, receipts, active, files, pointer, env, misplaced, rescanned>>
        /\ intents' \in [Intent -> IntentRow] /\ LastRow(i) /\ RowAtHand(i)
    BY <1>10, SwitchingWritten, UnfinishedIsLast DEF Switched
  <2>2. CASE PersistPointer
    BY <1>0, <2>2 DEF PersistPointer, Goto
  <2>3. CASE RecoverForward(i)
    BY <1>0, <2>3 DEF RecoverForward, Begin
  <2>4. QED  BY <2>2, <2>3 DEF Switched
<1>11. CASE Complete
  BY <1>11, CompleteWritten DEF Exit
<1>12. ASSUME NEW r \in Refs, StartUpdate(r)  PROVE HolderJournaled'
  BY <1>0, <1>12, StartUpdateWritten DEF Starts, Exit
<1>13. ASSUME NEW t \in Gen, StartRollback(t)  PROVE HolderJournaled'
  BY <1>0, <1>13, StartRollbackWritten DEF Starts, Exit
<1>14. CASE UNCHANGED vars
  BY <1>0, <1>14 DEF vars, rows, work
<1>15. QED
  BY <1>1, <1>2, <1>3, <1>4, <1>5, <1>6, <1>7, <1>8, <1>9, <1>10, <1>11, <1>12, <1>13,
     <1>14, NextCases

\* The status of a candidate is the step of its pipeline.
LEMMA StatusAtStepStep ==
  ASSUME ActivationInv, [Next]_vars
  PROVE  StatusAtStep'
<1> USE DEF StatusAtStep, HolderOK
<1>0. StatusAtStep /\ HolderOK /\ TablesOK
  BY DEF ActivationInv, TypeInv, JournalInv, CandidateAtStep
<1>1. CASE Waiting
  BY <1>0, <1>1
  DEF Waiting, TakeLock, Leave, Check, OldVerified, PersistFails, NotSwitched, Unhealthy,
      CompleteRefused, RestoreFails, RecoverByRestoring, Goto, Exit, Begin, rows
<1>2. CASE Pointing
  BY <1>0, <1>2 DEF Pointing, Switch, SwitchFails, Healthy, Restore, Goto, Exit, rows
<1>3. CASE Outside
  BY <1>0, <1>3
  DEF Outside, Edit, Interfere, ScanReads, ScanWrites, Crash, Exit, rows, work
<1>4. CASE Marking
  BY <1>0, <1>4, MarkingWritten DEF StatusSet, Goto, Exit
<1>5. CASE Validate \/ ValidateRollback
  BY <1>0, <1>5, ValidateWritten DEF StatusSet, Goto, Exit
<1>6. CASE Materialize
  BY <1>0, <1>6 DEF Materialize, MaterializeAs
<1>7. CASE AbandonUnjournaled
  BY <1>0, <1>7, AbandonWritten DEF Exit
<1>8. CASE SaveIntent
  BY <1>0, <1>8, SaveIntentWritten DEF Goto
<1>9. CASE Undoing
  BY <1>9, UndoingWritten DEF Exit
<1>10. CASE Switching
  <2>1. pc' \in {"health", "complete"} \/ UNCHANGED <<pc, cand>>
    BY <1>10 DEF Switching, PersistPointer, RecoverForward, Goto, Begin
  <2>2. QED  BY <1>0, <1>10, <2>1, SwitchingWritten
<1>11. CASE Complete
  BY <1>11, CompleteWritten DEF Exit
<1>12. ASSUME NEW r \in Refs, StartUpdate(r)  PROVE StatusAtStep'
  BY <1>12, StartUpdateWritten DEF Starts, AtWork, Exit
<1>13. ASSUME NEW t \in Gen, StartRollback(t)  PROVE StatusAtStep'
  BY <1>13, StartRollbackWritten DEF Starts, AtWork, Exit
<1>14. CASE UNCHANGED vars
  BY <1>0, <1>14 DEF vars, rows, work
<1>15. QED
  BY <1>1, <1>2, <1>3, <1>4, <1>5, <1>6, <1>7, <1>8, <1>9, <1>10, <1>11, <1>12, <1>13,
     <1>14, NextCases

\* A step that starts and ends no activation leaves the activating candidate.
LEMMA ActivatingKept ==
  ASSUME ActivatingIsUnfinished, UNCHANGED intents,
         \A c \in Cand : cands'[c].status = "activating" <=> cands[c].status = "activating"
  PROVE  ActivatingIsUnfinished'
BY DEF ActivatingIsUnfinished, Unfinished

\* The unfinished intent is settled: then no candidate is activating.
LEMMA ActivatingSettled ==
  ASSUME ActivationInv, NEW i \in Intent, Unfinished(i),
         PhaseSet(i, "committed") \/ PhaseSet(i, "rolled_back"),
         \A c \in Cand : cands'[c].status = "activating" =>
                           c # intents[i].cand /\ cands[c].status = "activating"
  PROVE  ActivatingIsUnfinished'
<1>1. ActivatingIsUnfinished /\ LastRow(i)
  BY UnfinishedIsLast DEF ActivationInv, JournalInv, CandidateAtStep
<1>2. ASSUME NEW j \in Intent  PROVE ~Unfinished(j)'
  <2>1. j = i \/ ~Unfinished(j)
    BY <1>1 DEF LastRow
  <2>2. QED  BY <2>1 DEF PhaseSet, Unfinished
<1>3. ASSUME NEW c \in Cand, c # intents[i].cand  PROVE cands[c].status # "activating"
  BY <1>1, <1>3 DEF ActivatingIsUnfinished, LastRow
<1>4. QED  BY <1>2, <1>3 DEF ActivatingIsUnfinished

\* "activating" is the status of the unfinished intent's candidate alone.
LEMMA ActivatingStep ==
  ASSUME ActivationInv, [Next]_vars
  PROVE  ActivatingIsUnfinished'
<1>0. ActivatingIsUnfinished /\ StatusAtStep /\ HolderJournaled /\ TablesOK /\ HolderOK
  BY DEF ActivationInv, TypeInv, JournalInv, CandidateAtStep
<1>a. ASSUME UNCHANGED <<intents, cands>>  PROVE ActivatingIsUnfinished'
  BY <1>0, <1>a, ActivatingKept
<1>1. CASE Waiting
  <2>1. UNCHANGED <<intents, cands>>
    BY <1>1
    DEF Waiting, TakeLock, Leave, Check, OldVerified, PersistFails, NotSwitched, Unhealthy,
        CompleteRefused, RestoreFails, RecoverByRestoring, rows
  <2>2. QED  BY <1>a, <2>1
<1>2. CASE Pointing
  <2>1. UNCHANGED <<intents, cands>>
    BY <1>2 DEF Pointing, Switch, SwitchFails, Healthy, Restore, rows
  <2>2. QED  BY <1>a, <2>1
<1>3. CASE Outside
  <2>1. UNCHANGED <<intents, cands>>
    BY <1>3 DEF Outside, Edit, Interfere, ScanReads, ScanWrites, Crash, rows
  <2>2. QED  BY <1>a, <2>1
<1>4. CASE Marking
  <2>1. /\ UNCHANGED intents
        /\ \E c \in Cand, s \in {"staging", "superseded", "ready"} :
             StatusSet(c, s) /\ cands[c].status # "activating"
    BY <1>0, <1>4, MarkingWritten DEF StatusAtStep, HolderOK
  <2>2. QED  BY <1>0, <2>1, ActivatingKept DEF StatusSet
<1>5. CASE Validate \/ ValidateRollback
  <2>1. /\ UNCHANGED intents /\ cands[cand].status # "activating"
        /\ \E s \in {"ready", "needs_review", "failed"} : StatusSet(cand, s)
    BY <1>0, <1>5, ValidateWritten DEF StatusAtStep
  <2>2. QED  BY <1>0, <2>1, ActivatingKept DEF StatusSet
<1>6. CASE Materialize
  <2>1. UNCHANGED <<intents, cands>>
    BY <1>6 DEF Materialize, MaterializeAs
  <2>2. QED  BY <1>a, <2>1
<1>7. CASE AbandonUnjournaled
  BY <1>a, <1>7, AbandonWritten
<1>8. CASE SaveIntent
  <2>1. PICK i \in Intent : Journals(i)
    BY <1>8, SaveIntentWritten
  <2>2. StatusSet(cand, "activating") /\ \A j \in Intent : ~Unfinished(j)
    BY <1>0, <1>8, SaveIntentWritten DEF HolderJournaled, Journaled
  <2>3. \A j \in Intent : Unfinished(j)' <=> j = i
    BY <2>1, <2>2 DEF Journals, Unfinished
  <2>4. \A c \in Cand : cands'[c].status = "activating" <=> c = cand
    BY <1>0, <2>2 DEF StatusSet, ActivatingIsUnfinished
  <2>5. QED  BY <2>1, <2>3, <2>4 DEF ActivatingIsUnfinished, Journals
<1>9. CASE Undoing
  <2>1. CASE UNCHANGED rows
    BY <1>a, <2>1 DEF rows
  <2>2. ASSUME NEW i \in Intent, Unfinished(i), PutBack(i)  PROVE ActivatingIsUnfinished'
    BY <2>2, ActivatingSettled DEF PutBack, StatusSet
  <2>3. QED  BY <1>9, <2>1, <2>2, UndoingWritten
<1>10. CASE Switching
  <2>1. PICK i \in Intent : Unfinished(i) /\ PhaseSet(i, "pointer_switched") /\ UNCHANGED cands
    BY <1>10, SwitchingWritten DEF Switched
  <2>2. \A j \in Intent : /\ Unfinished(j)' <=> Unfinished(j)
                          /\ intents'[j].cand = intents[j].cand
    BY <2>1 DEF PhaseSet, Unfinished
  <2>3. QED  BY <1>0, <2>1, <2>2 DEF ActivatingIsUnfinished
<1>11. CASE Complete
  <2>1. PICK i \in Intent : Completes(i)
    BY <1>11, CompleteWritten
  <2>2. pc \in Journaled /\ Unfinished(i)
    BY <1>11, <2>1, CompleteWritten DEF Completes, Journaled
  <2>3. intents[i].cand = cand
    BY <2>2, UnfinishedIsLast DEF RowAtHand
  <2>4. QED  BY <2>1, <2>2, <2>3, ActivatingSettled DEF Completes
<1>12. ASSUME NEW r \in Refs, StartUpdate(r)  PROVE ActivatingIsUnfinished'
  <2>1. UNCHANGED intents /\ \E c \in Cand : Put(c, UpdateKey(r))
    BY <1>12, StartUpdateWritten DEF Starts
  <2>2. QED  BY <1>0, <2>1, ActivatingKept DEF Put, NoCand
<1>13. ASSUME NEW t \in Gen, StartRollback(t)  PROVE ActivatingIsUnfinished'
  <2>1. UNCHANGED intents /\ \E c \in Cand : Put(c, RollbackKey(t))
    BY <1>13, StartRollbackWritten DEF Starts
  <2>2. QED  BY <1>0, <2>1, ActivatingKept DEF Put, NoCand
<1>14. CASE UNCHANGED vars
  BY <1>a, <1>14 DEF vars, rows
<1>15. QED
  BY <1>1, <1>2, <1>3, <1>4, <1>5, <1>6, <1>7, <1>8, <1>9, <1>10, <1>11, <1>12, <1>13,
     <1>14, NextCases

\* What has passed the last check is committed as it is, or was touched since.
LEMMA CheckedLastStep ==
  ASSUME ActivationInv, [Next]_vars
  PROVE  CheckedLast'
<1> USE Numbers DEF CheckedLast, Intact
<1>0. CheckedLast /\ TablesOK /\ HolderOK
  BY DEF ActivationInv, TypeInv
<1>1. CASE Waiting
  BY <1>1
  DEF Waiting, TakeLock, Leave, Check, OldVerified, PersistFails, NotSwitched, Unhealthy,
      CompleteRefused, RestoreFails, RecoverByRestoring, Goto, Exit, Begin
<1>2. CASE Pointing
  BY <1>2 DEF Pointing, Switch, SwitchFails, Healthy, Restore, Goto, Exit, rows
<1>3. CASE Outside
  BY <1>0, <1>3 DEF Outside, Edit, Interfere, ScanReads, ScanWrites, Crash, Exit, rows,
       work, env, hist
<1>4. CASE Marking
  BY <1>4, MarkingWritten DEF Goto, Exit
<1>5. CASE Validate \/ ValidateRollback
  BY <1>5, ValidateWritten DEF Goto, Exit
<1>6. CASE Materialize
  BY <1>6 DEF Materialize, MaterializeAs
<1>7. CASE AbandonUnjournaled
  BY <1>7, AbandonWritten DEF Exit
<1>8. CASE SaveIntent
  BY <1>8, SaveIntentWritten DEF Goto
<1>9. CASE Undoing
  BY <1>9, UndoingWritten DEF Exit
<1>10. CASE Switching
  BY <1>0, <1>10, SwitchingWritten DEF Switched, PhaseSet, PersistPointer, RecoverForward,
       Goto, Begin, env
<1>11. CASE Complete
  BY <1>11, CompleteWritten DEF Exit
<1>12. ASSUME NEW r \in Refs, StartUpdate(r)  PROVE CheckedLast'
  BY <1>12, StartUpdateWritten DEF Starts, Exit
<1>13. ASSUME NEW t \in Gen, StartRollback(t)  PROVE CheckedLast'
  BY <1>13, StartRollbackWritten DEF Starts, Exit
<1>14. CASE UNCHANGED vars
  BY <1>0, <1>14 DEF vars, rows, work, hist
<1>15. QED
  BY <1>1, <1>2, <1>3, <1>4, <1>5, <1>6, <1>7, <1>8, <1>9, <1>10, <1>11, <1>12, <1>13,
     <1>14, NextCases

\* Without an unlocked inventory nothing but a commit moves the binding.
LEMMA ScansLockedStep ==
  ASSUME ActivationInv, [Next]_vars
  PROVE  ScansLocked'
<1> USE Numbers DEF ScansLocked
<1>0. ScansLocked
  BY DEF ActivationInv
<1>1. CASE Waiting
  BY <1>0, <1>1
  DEF Waiting, TakeLock, Leave, Check, OldVerified, PersistFails, NotSwitched, Unhealthy,
      CompleteRefused, RestoreFails, RecoverByRestoring, env, hist
<1>2. CASE Pointing
  BY <1>0, <1>2 DEF Pointing, Switch, SwitchFails, Healthy, Restore, env
<1>3. CASE Outside
  BY <1>0, <1>3 DEF Outside, Edit, Interfere, ScanReads, ScanWrites, Crash, env, hist
<1>4. CASE Marking
  BY <1>0, <1>4, MarkingWritten DEF env, hist
<1>5. CASE Validate \/ ValidateRollback
  BY <1>0, <1>5, ValidateWritten DEF env, hist
<1>6. CASE Materialize
  BY <1>0, <1>6 DEF Materialize, MaterializeAs, env, hist
<1>7. CASE AbandonUnjournaled
  BY <1>0, <1>7, AbandonWritten DEF env, hist
<1>8. CASE SaveIntent
  BY <1>0, <1>8, SaveIntentWritten DEF env, hist
<1>9. CASE Undoing
  BY <1>0, <1>9, UndoingWritten DEF env, hist
<1>10. CASE Switching
  BY <1>0, <1>10, SwitchingWritten DEF env
<1>11. CASE Complete
  BY <1>0, <1>11, CompleteWritten DEF env, hist
<1>12. ASSUME NEW r \in Refs, StartUpdate(r)  PROVE ScansLocked'
  BY <1>0, <1>12, StartUpdateWritten DEF env, hist
<1>13. ASSUME NEW t \in Gen, StartRollback(t)  PROVE ScansLocked'
  BY <1>0, <1>13, StartRollbackWritten DEF env, hist
<1>14. CASE UNCHANGED vars
  BY <1>0, <1>14 DEF vars, env, hist
<1>15. QED
  BY <1>1, <1>2, <1>3, <1>4, <1>5, <1>6, <1>7, <1>8, <1>9, <1>10, <1>11, <1>12, <1>13,
     <1>14, NextCases

\* The largest of a set, when it is known.
LEMMA MaxIs ==
  ASSUME NEW S \in SUBSET Nat, NEW m \in S, \A n \in S : n <= m
  PROVE  Max(S) = m
<1>1. \A n \in S : m >= n
  OBVIOUS
<1>2. Max(S) \in S /\ \A n \in S : Max(S) >= n
  BY <1>1 DEF Max
<1>3. Max(S) <= m /\ Max(S) >= m /\ Max(S) \in Nat /\ m \in Nat
  BY <1>2
<1>4. QED  BY <1>3


\* Only a commit inserts a baseline.
LEMMA CommittedKept ==
  ASSUME ActivationInv, [Next]_vars
  PROVE  Complete \/ Committed' = Committed
<1> USE DEF Committed, Unfinished
<1>0. TablesOK
  BY DEF ActivationInv, TypeInv
<1>1. CASE Waiting
  BY <1>1
  DEF Waiting, TakeLock, Leave, Check, OldVerified, PersistFails, NotSwitched, Unhealthy,
      CompleteRefused, RestoreFails, RecoverByRestoring, rows
<1>2. CASE Pointing
  BY <1>2 DEF Pointing, Switch, SwitchFails, Healthy, Restore, rows
<1>3. CASE Outside
  BY <1>3 DEF Outside, Edit, Interfere, ScanReads, ScanWrites, Crash, rows
<1>4. CASE Marking
  BY <1>4, MarkingWritten
<1>5. CASE Validate \/ ValidateRollback
  BY <1>5, ValidateWritten
<1>6. CASE Materialize
  BY <1>6 DEF Materialize, MaterializeAs
<1>7. CASE AbandonUnjournaled
  BY <1>7, AbandonWritten
<1>8. CASE SaveIntent
  BY <1>8, SaveIntentWritten DEF Journals
<1>9. CASE Undoing
  <2>1. Exit /\ UNCHANGED <<files, pointer, env, hist>>
    BY <1>9, UndoingWritten
  <2>2. CASE UNCHANGED rows
    BY <2>2 DEF rows
  <2>3. ASSUME NEW i \in Intent, Unfinished(i), PutBack(i),
               intents[i].cand \in Cand, intents[i].new \in Gen
        PROVE  Complete \/ Committed' = Committed
    <3>1. LastRow(i) /\ RowAtHand(i)
      BY <2>3, UnfinishedIsLast
    <3>2. QED  BY <1>0, <2>1, <2>3, <3>1 DEF Exit, PutBack, PhaseSet, StatusSet, RowAtHand
  <2>4. QED  BY <1>9, <2>2, <2>3, UndoingWritten
<1>10. CASE Switching
  BY <1>0, <1>10, SwitchingWritten DEF Switched, PhaseSet, PersistPointer, RecoverForward,
       Goto, Begin, env
<1>11. CASE Complete
  BY <1>11
<1>12. ASSUME NEW r \in Refs, StartUpdate(r)  PROVE Complete \/ Committed' = Committed
  BY <1>12, StartUpdateWritten
<1>13. ASSUME NEW t \in Gen, StartRollback(t)  PROVE Complete \/ Committed' = Committed
  BY <1>13, StartRollbackWritten
<1>14. CASE UNCHANGED vars
  BY <1>14 DEF vars, rows
<1>15. QED
  BY <1>1, <1>2, <1>3, <1>4, <1>5, <1>6, <1>7, <1>8, <1>9, <1>10, <1>11, <1>12, <1>13,
     <1>14, NextCases

\* While nothing is committed the baseline is the same one.
LEMMA BaselineKept ==
  ASSUME Committed' = Committed
  PROVE  Baseline' = Baseline
BY DEF Baseline, Committed

\* The baseline of a commit is a new one, that no candidate was made with.
LEMMA BaselineMoves ==
  ASSUME ActivationInv, Complete
  PROVE  /\ Baseline' \in Committed' /\ \A j \in Committed' : j <= Baseline'
         /\ Baseline < Baseline' /\ Baseline \in Nat
<1>1. PICK i \in Intent : Unfinished(i) /\ PhaseSet(i, "committed")
  BY CompleteWritten DEF Completes
<1>2. LastRow(i) /\ BaselineIsLast
  BY <1>1, UnfinishedIsLast DEF ActivationInv
<1>3. Committed' = Committed \cup {i} /\ i \notin Committed /\ \A j \in Committed : j < i
  <2>1. Committed' = Committed \cup {i} /\ i \notin Committed
    BY <1>1 DEF Committed, PhaseSet, Unfinished
  <2>2. ASSUME NEW j \in Committed  PROVE j < i
    <3>1. j \in Intent /\ j # i /\ ~(i < j)
      BY <1>2, <2>1 DEF LastRow, Committed
    <3>2. j \in Nat /\ i \in Nat
      BY <3>1, Numbers
    <3>3. QED  BY <3>1, <3>2
  <2>3. QED  BY <2>1, <2>2
<1>4. i \in Nat /\ 0 < i /\ Committed \subseteq Nat
  <2>1. i \in Nat /\ i # 0 /\ Committed \subseteq Intent
    BY Numbers DEF Committed
  <2>2. QED  BY <2>1, Numbers
<1>5. Baseline' = Max({0} \cup Committed')
  BY DEF Baseline, Committed
<1>6. Max({0} \cup Committed') = i
  <2> DEFINE S == {0} \cup Committed'
  <2>1. S \in SUBSET Nat /\ i \in S /\ \A n \in S : n <= i
    BY <1>3, <1>4
  <2> HIDE DEF S
  <2>2. Max(S) = i
    BY <2>1, MaxIs
  <2>3. QED  BY <2>2 DEF S
<1>7. QED  BY <1>2, <1>3, <1>4, <1>5, <1>6 DEF BaselineIsLast

\* A candidate has the baseline of the time it was made.
LEMMA BasesKept ==
  ASSUME ActivationInv, [Next]_vars
  PROVE  \A c \in Cand : cands'[c].base \in {cands[c].base, Baseline}
<1> USE DEF HolderOK
<1>0. TablesOK /\ HolderOK
  BY DEF ActivationInv, TypeInv
<1>1. CASE Waiting
  BY <1>1
  DEF Waiting, TakeLock, Leave, Check, OldVerified, PersistFails, NotSwitched, Unhealthy,
      CompleteRefused, RestoreFails, RecoverByRestoring, rows
<1>2. CASE Pointing
  BY <1>2 DEF Pointing, Switch, SwitchFails, Healthy, Restore, rows
<1>3. CASE Outside
  BY <1>3 DEF Outside, Edit, Interfere, ScanReads, ScanWrites, Crash, rows
<1>4. CASE Marking
  BY <1>4, MarkingWritten DEF StatusSet
<1>5. CASE Validate \/ ValidateRollback
  BY <1>5, ValidateWritten DEF StatusSet
<1>6. CASE Materialize
  BY <1>6 DEF Materialize, MaterializeAs
<1>7. CASE AbandonUnjournaled
  BY <1>7, AbandonWritten
<1>8. CASE SaveIntent
  BY <1>8, SaveIntentWritten DEF StatusSet
<1>9. CASE Undoing
  BY <1>9, UndoingWritten DEF rows, PutBack, StatusSet
<1>10. CASE Switching
  BY <1>10, SwitchingWritten
<1>11. CASE Complete
  BY <1>11, CompleteWritten DEF Completes
<1>12. ASSUME NEW r \in Refs, StartUpdate(r)
       PROVE  \A c \in Cand : cands'[c].base \in {cands[c].base, Baseline}
  BY <1>12, StartUpdateWritten DEF Starts, Put
<1>13. ASSUME NEW t \in Gen, StartRollback(t)
       PROVE  \A c \in Cand : cands'[c].base \in {cands[c].base, Baseline}
  BY <1>13, StartRollbackWritten DEF Starts, Put
<1>14. CASE UNCHANGED vars
  BY <1>14 DEF vars, rows
<1>15. QED
  BY <1>1, <1>2, <1>3, <1>4, <1>5, <1>6, <1>7, <1>8, <1>9, <1>10, <1>11, <1>12, <1>13,
     <1>14, NextCases

\* The baseline is the last commit's, and no candidate is ahead of it.
LEMMA BaselineIsLastStep ==
  ASSUME ActivationInv, [Next]_vars
  PROVE  BaselineIsLast'
<1>1. BaselineIsLast /\ \A c \in Cand : cands[c].base \in Nat
  BY Numbers DEF ActivationInv, TypeInv, TablesOK, CandRow
<1>2. \A c \in Cand : cands'[c].base \in {cands[c].base, Baseline}
  BY BasesKept
<1>3. Baseline \in Nat
  BY <1>1, Numbers DEF BaselineIsLast, Committed
<1>4. CASE Committed' = Committed
  <2>1. Baseline' = Baseline
    BY <1>4, BaselineKept
  <2>2. QED  BY <1>1, <1>2, <1>4, <2>1 DEF BaselineIsLast
<1>5. CASE Complete
  <2>1. Baseline' \in Committed' /\ Baseline < Baseline' /\ \A j \in Committed' : j <= Baseline'
    BY <1>5, BaselineMoves
  <2>2. Baseline' \in Nat
    BY <2>1, Numbers DEF Committed
  <2>3. \A c \in Cand : cands'[c].base <= Baseline'
    BY <1>1, <1>2, <1>3, <2>1, <2>2 DEF BaselineIsLast
  <2>4. QED  BY <2>1, <2>3 DEF BaselineIsLast
<1>6. QED  BY <1>4, <1>5, CommittedKept

-----------------------------------------------------------------------------
(* The binding, until an inventory moves it *)

\* An inventory that has not moved the binding has written what it had.
LEMMA BindingStays ==
  ASSUME ActivationInv, [Next]_vars, ~rescanned'
  PROVE  ~rescanned /\ (ScanWrites => active' = active)
         /\ BindingInv /\ CandidatesAreMade /\ (misplaced \/ PointerAtStep)
<1>1. ~rescanned
  <2> TypeInv /\ rescanned \in BOOLEAN
    BY DEF ActivationInv, TypeInv, HolderOK
  <2>1. CASE ScanWrites
    BY <2>1 DEF ScanWrites
  <2>2. rescanned' = rescanned \/ ScanWrites
    BY NextCases, AbandonWritten, SaveIntentWritten, UndoingWritten, SwitchingWritten,
       CompleteWritten,
       StartUpdateWritten, StartRollbackWritten, MarkingWritten, ValidateWritten
    DEF Waiting, TakeLock, Leave, Check, OldVerified, PersistFails, NotSwitched, Unhealthy,
        CompleteRefused, RestoreFails, RecoverByRestoring, Pointing, Switch, SwitchFails, Healthy,
        Restore, Outside, Edit, Interfere, ScanReads, Crash, Materialize, MaterializeAs, hist, vars
  <2>3. QED  BY <2>1, <2>2
<1>2. ScanWrites => active' = active
  BY DEF ScanWrites
<1>3. QED  BY <1>1, <1>2 DEF ActivationInv

\* A commit takes the generation it leaves out of use, and nothing else touches the active one.
LEMMA OneActiveStep ==
  ASSUME ActivationInv, [Next]_vars, ~rescanned'
  PROVE  OneActiveGeneration'
<1> USE Numbers DEF OneActiveGeneration, HolderOK
<1>0. OneActiveGeneration /\ LeavesActive /\ TablesOK /\ HolderOK
  BY BindingStays DEF ActivationInv, TypeInv, BindingInv
<1>1. CASE Waiting
  BY <1>0, <1>1
  DEF Waiting, TakeLock, Leave, Check, OldVerified, PersistFails, NotSwitched, Unhealthy,
      CompleteRefused, RestoreFails, RecoverByRestoring, rows
<1>2. CASE Pointing
  BY <1>0, <1>2 DEF Pointing, Switch, SwitchFails, Healthy, Restore, rows
<1>3. CASE Outside
  BY <1>0, <1>3, BindingStays
  DEF Outside, Edit, Interfere, ScanReads, ScanWrites, Crash, rows
<1>4. CASE Marking
  BY <1>0, <1>4, MarkingWritten
<1>5. CASE Validate \/ ValidateRollback
  BY <1>0, <1>5, ValidateWritten
<1>6. CASE Materialize
  <2> PICK g \in Gen : Free([h \in Gen |-> gens[h].state], "none", g) /\ MaterializeAs(g)
    BY <1>6 DEF Materialize
  <2>1. gens[g].state = "none" /\ CanFreeze /\ pc = "fresh" /\ IsFresh
    BY <1>6 DEF Materialize, Free, IsFresh
  <2>2. QED  BY <1>0, <2>1, MaterializeWritten DEF MaterializeAs, rows, work, env, hist
<1>7. CASE AbandonUnjournaled
  BY <1>0, <1>7, AbandonWritten
<1>8. CASE SaveIntent
  BY <1>0, <1>8, SaveIntentWritten
<1>9. CASE Undoing
  BY <1>0, <1>9, UndoingWritten DEF rows, PutBack
<1>10. CASE Switching
  BY <1>0, <1>10, SwitchingWritten
<1>11. CASE Complete
  BY <1>0, <1>11, CompleteWritten DEF LeavesActive
<1>12. ASSUME NEW r \in Refs, StartUpdate(r)  PROVE OneActiveGeneration'
  <2>1. active' = active /\ \A g \in Gen : gens'[g].state = gens[g].state
    BY <1>0, <1>12, StartUpdateWritten, FreezeWritten
  <2>2. QED  BY <1>0, <2>1
<1>13. ASSUME NEW t \in Gen, StartRollback(t)  PROVE OneActiveGeneration'
  <2>1. active' = active /\ \A g \in Gen : gens'[g].state = gens[g].state
    BY <1>0, <1>13, StartRollbackWritten, FreezeWritten
  <2>2. QED  BY <1>0, <2>1
<1>14. CASE UNCHANGED vars
  BY <1>0, <1>14 DEF vars, rows
<1>15. QED
  BY <1>1, <1>2, <1>3, <1>4, <1>5, <1>6, <1>7, <1>8, <1>9, <1>10, <1>11, <1>12, <1>13,
     <1>14, NextCases

\* Only a commit takes the candidate in use out of use.
LEMMA ActiveStays ==
  ASSUME ActivationInv, [Next]_vars
  PROVE  \/ Complete
         \/ \A c \in Cand : cands[c].status = "active" => cands'[c].status = "active"
<1> USE DEF HolderOK
<1>0. CandidateAtStep /\ TablesOK /\ HolderOK
  BY DEF ActivationInv, TypeInv, JournalInv
<1>1. CASE Waiting
  BY <1>1
  DEF Waiting, TakeLock, Leave, Check, OldVerified, PersistFails, NotSwitched, Unhealthy,
      CompleteRefused, RestoreFails, RecoverByRestoring, rows
<1>2. CASE Pointing
  BY <1>2 DEF Pointing, Switch, SwitchFails, Healthy, Restore, rows
<1>3. CASE Outside
  BY <1>3 DEF Outside, Edit, Interfere, ScanReads, ScanWrites, Crash, rows
<1>4. CASE Marking
  BY <1>0, <1>4, MarkingWritten DEF StatusSet, CandidateAtStep, StatusAtStep
<1>5. CASE Validate \/ ValidateRollback
  BY <1>0, <1>5, ValidateWritten DEF StatusSet, CandidateAtStep, StatusAtStep
<1>6. CASE Materialize
  BY <1>6 DEF Materialize, MaterializeAs
<1>7. CASE AbandonUnjournaled
  BY <1>7, AbandonWritten
<1>8. CASE SaveIntent
  BY <1>8, SaveIntentWritten DEF StatusSet
<1>9. CASE Undoing
  BY <1>9, UndoingWritten DEF rows, PutBack, StatusSet
<1>10. CASE Switching
  BY <1>10, SwitchingWritten
<1>11. CASE Complete
  BY <1>11
<1>12. ASSUME NEW r \in Refs, StartUpdate(r)  PROVE \/ Complete
         \/ \A c \in Cand : cands[c].status = "active" => cands'[c].status = "active"
  BY <1>12, StartUpdateWritten DEF Starts, Put, NoCand
<1>13. ASSUME NEW t \in Gen, StartRollback(t)  PROVE \/ Complete
         \/ \A c \in Cand : cands[c].status = "active" => cands'[c].status = "active"
  BY <1>13, StartRollbackWritten DEF Starts, Put, NoCand
<1>14. CASE UNCHANGED vars
  BY <1>14 DEF vars, rows
<1>15. QED
  BY <1>1, <1>2, <1>3, <1>4, <1>5, <1>6, <1>7, <1>8, <1>9, <1>10, <1>11, <1>12, <1>13,
     <1>14, NextCases

\* Only a commit moves the binding or changes whose its generation is.
LEMMA ActiveRowStays ==
  ASSUME ActivationInv, [Next]_vars, ~rescanned'
  PROVE  \/ Complete
         \/ /\ active' = active /\ gens'[active].cand = gens[active].cand
            /\ gens'[active].ref = gens[active].ref
<1> USE DEF HolderOK
<1>0. TablesOK /\ HolderOK
  BY DEF ActivationInv, TypeInv
<1>1. CASE Waiting
  BY <1>1
  DEF Waiting, TakeLock, Leave, Check, OldVerified, PersistFails, NotSwitched, Unhealthy,
      CompleteRefused, RestoreFails, RecoverByRestoring, rows
<1>2. CASE Pointing
  BY <1>2 DEF Pointing, Switch, SwitchFails, Healthy, Restore, rows
<1>3. CASE Outside
  BY <1>3, BindingStays DEF Outside, Edit, Interfere, ScanReads, ScanWrites, Crash, rows
<1>4. CASE Marking
  BY <1>4, MarkingWritten
<1>5. CASE Validate \/ ValidateRollback
  BY <1>5, ValidateWritten
<1>6. CASE Materialize
  <2> PICK g \in Gen : Free([h \in Gen |-> gens[h].state], "none", g) /\ MaterializeAs(g)
    BY <1>6 DEF Materialize
  <2>1. gens[g].state = "none" /\ CanFreeze /\ pc = "fresh" /\ active \in Gen
    BY <1>0, <1>6 DEF Materialize, Free, IsFresh
  <2>2. /\ active \in Gen \ {g} /\ gens'[active].cand = gens[active].cand
        /\ gens'[active].ref = gens[active].ref
    BY <2>1, MaterializeWritten
  <2>3. active' = active
    BY DEF MaterializeAs
  <2>4. QED  BY <2>2, <2>3
<1>7. CASE AbandonUnjournaled
  BY <1>0, <1>7, AbandonWritten DEF TablesOK
<1>8. CASE SaveIntent
  BY <1>8, SaveIntentWritten
<1>9. CASE Undoing
  BY <1>0, <1>9, UndoingWritten DEF TablesOK, rows, PutBack
<1>10. CASE Switching
  BY <1>10, SwitchingWritten
<1>11. CASE Complete
  BY <1>11
<1>12. ASSUME NEW r \in Refs, StartUpdate(r)  PROVE \/ Complete
         \/ /\ active' = active /\ gens'[active].cand = gens[active].cand
            /\ gens'[active].ref = gens[active].ref
  BY <1>0, <1>12, StartUpdateWritten, FreezeWritten DEF TablesOK
<1>13. ASSUME NEW t \in Gen, StartRollback(t)  PROVE \/ Complete
         \/ /\ active' = active /\ gens'[active].cand = gens[active].cand
            /\ gens'[active].ref = gens[active].ref
  BY <1>0, <1>13, StartRollbackWritten, FreezeWritten DEF TablesOK
<1>14. CASE UNCHANGED vars
  BY <1>14 DEF vars, rows
<1>15. QED
  BY <1>1, <1>2, <1>3, <1>4, <1>5, <1>6, <1>7, <1>8, <1>9, <1>10, <1>11, <1>12, <1>13,
     <1>14, NextCases

\* What is in use belongs to a candidate that is active.
LEMMA ActiveCandidateStep ==
  ASSUME ActivationInv, [Next]_vars, ~rescanned'
  PROVE  ActiveCandidate'
<1>1. ActiveCandidate /\ TablesOK
  BY BindingStays DEF BindingInv, ActivationInv, TypeInv
<1>2. CASE Complete
  BY <1>2, CompleteWritten DEF ActiveCandidate, Completes
<1>3. CASE ~Complete
  <2>1. active' = active /\ gens'[active].cand = gens[active].cand
    BY <1>3, ActiveRowStays
  <2>2. gens[active].cand \in Cand \cup {0}
    BY <1>1 DEF TablesOK, GenRow
  <2>3. \A c \in Cand : cands[c].status = "active" => cands'[c].status = "active"
    BY <1>3, ActiveStays
  <2>4. QED  BY <1>1, <2>1, <2>2, <2>3 DEF ActiveCandidate
<1>4. QED  BY <1>2, <1>3

\* What is activated leaves the generation of the binding, for one that is not in use.
LEMMA LeavesActiveStep ==
  ASSUME ActivationInv, [Next]_vars, ~rescanned'
  PROVE  LeavesActive'
<1> USE Numbers DEF LeavesActive, Leaves, HolderOK, Unfinished
<1>0. LeavesActive /\ OneActiveGeneration /\ HolderJournaled /\ HolderOK /\ TablesOK /\ NewKnown
  BY BindingStays DEF ActivationInv, TypeInv, JournalInv, BindingInv
<1>1. CASE Waiting
  BY <1>0, <1>1
  DEF Waiting, TakeLock, Leave, Check, OldVerified, PersistFails, NotSwitched, Unhealthy,
      CompleteRefused, RestoreFails, RecoverByRestoring, Goto, Exit, Begin, rows
<1>2. CASE Pointing
  BY <1>0, <1>2 DEF Pointing, Switch, SwitchFails, Healthy, Restore, Goto, Exit, rows
<1>3. CASE Outside
  BY <1>0, <1>3, BindingStays
  DEF Outside, Edit, Interfere, ScanReads, ScanWrites, Crash, Exit, rows, work
<1>4. CASE Marking
  BY <1>0, <1>4, MarkingWritten DEF Goto, Exit
<1>5. CASE Validate \/ ValidateRollback
  BY <1>0, <1>5, ValidateWritten DEF Goto, Exit
<1>6. CASE Materialize
  <2> PICK g \in Gen : Free([h \in Gen |-> gens[h].state], "none", g) /\ MaterializeAs(g)
    BY <1>6 DEF Materialize
  <2>1. gens[g].state = "none" /\ CanFreeze /\ pc = "fresh" /\ IsFresh
    BY <1>6 DEF Materialize, Free, IsFresh
  <2>2. g # active /\ gens'[g].state = "prepared"
    BY <2>1, MaterializeWritten
  <2>3. \A i \in Intent : ~Unfinished(i)'
    BY <1>0, <2>1 DEF HolderJournaled, Journaled, MaterializeAs
  <2>4. active' = active /\ old' = old /\ new' = g /\ old = active
    BY <2>1 DEF MaterializeAs, IsFresh
  <2>5. QED  BY <2>2, <2>3, <2>4
<1>7. CASE AbandonUnjournaled
  BY <1>0, <1>7, AbandonWritten DEF Exit, HolderJournaled, Journaled
<1>8. CASE SaveIntent
  BY <1>0, <1>8, SaveIntentWritten DEF Journals, Goto
<1>9. CASE Undoing
  <2>1. Exit /\ UNCHANGED <<files, pointer, env, hist>>
    BY <1>9, UndoingWritten
  <2>2. CASE UNCHANGED rows
    BY <1>0, <2>1, <2>2 DEF Exit, rows
  <2>3. ASSUME NEW i \in Intent, Unfinished(i), PutBack(i),
               intents[i].cand \in Cand, intents[i].new \in Gen
        PROVE  LeavesActive'
    <3>1. LastRow(i) /\ RowAtHand(i)
      BY <2>3, UnfinishedIsLast
    <3>2. QED  BY <2>1, <2>3, <3>1 DEF Exit, PutBack, PhaseSet, LastRow
  <2>4. QED  BY <1>9, <2>2, <2>3, UndoingWritten
<1>10. CASE Switching
  <2> PICK i \in Intent : Switched(i)
    BY <1>10, SwitchingWritten
  <2>1. /\ UNCHANGED <<gens, cands, receipts, active, files, pointer, env, misplaced, rescanned>>
        /\ intents' \in [Intent -> IntentRow] /\ LastRow(i) /\ RowAtHand(i)
    BY <1>10, SwitchingWritten, UnfinishedIsLast DEF Switched
  <2>2. CASE PersistPointer
    BY <1>0, <2>2 DEF PersistPointer, Goto
  <2>3. CASE RecoverForward(i)
    BY <1>0, <2>3 DEF RecoverForward, Begin
  <2>4. QED  BY <2>2, <2>3 DEF Switched
<1>11. CASE Complete
  <2>1. PICK i \in Intent : Completes(i)
    BY <1>11, CompleteWritten
  <2>2. LastRow(i) /\ Unfinished(i) /\ PhaseSet(i, "committed")
    BY <2>1, UnfinishedIsLast DEF Completes
  <2>3. \A j \in Intent : ~Unfinished(j)'
    BY <2>2 DEF LastRow, PhaseSet
  <2>4. old' = 0 /\ new' = 0
    BY <1>11, CompleteWritten DEF Exit
  <2>5. QED  BY <2>3, <2>4
<1>12. ASSUME NEW r \in Refs, StartUpdate(r)  PROVE LeavesActive'
  BY <1>0, <1>12, StartUpdateWritten DEF Starts, AtWork, Exit, HolderJournaled, Journaled
<1>13. ASSUME NEW t \in Gen, StartRollback(t)  PROVE LeavesActive'
  <2>1. \A i \in Intent : ~Unfinished(i)'
    BY <1>0, <1>13, StartRollbackWritten DEF HolderJournaled, Journaled
  <2>2. (old' = active /\ new' = t) \/ (old' = 0 /\ new' = 0)
    BY <1>13, StartRollbackWritten DEF Starts, AtWork, Exit
  <2>3. active' = active /\ t # active /\ gens[t].state = "inactive"
    BY <1>13, StartRollbackWritten
  <2>4. gens'[t].state = gens[t].state
    BY <1>0, <1>13, StartRollbackWritten, FreezeWritten
  <2>5. QED  BY <2>1, <2>2, <2>3, <2>4
<1>14. CASE UNCHANGED vars
  BY <1>0, <1>14 DEF vars, rows, work
<1>15. QED
  BY <1>1, <1>2, <1>3, <1>4, <1>5, <1>6, <1>7, <1>8, <1>9, <1>10, <1>11, <1>12, <1>13,
     <1>14, NextCases

\* A candidate keeps what it was made for, and is made for what is in use.
LEMMA KeysKept ==
  ASSUME ActivationInv, [Next]_vars
  PROVE  \A c \in Cand :
           \/ cands'[c].key = cands[c].key /\ cands'[c].base = cands[c].base
           \/ cands'[c].key.op = "update" => cands'[c].key.from = gens[active].ref
<1> USE DEF HolderOK
<1>0. TablesOK /\ HolderOK
  BY DEF ActivationInv, TypeInv
<1>1. CASE Waiting
  BY <1>1
  DEF Waiting, TakeLock, Leave, Check, OldVerified, PersistFails, NotSwitched, Unhealthy,
      CompleteRefused, RestoreFails, RecoverByRestoring, rows
<1>2. CASE Pointing
  BY <1>2 DEF Pointing, Switch, SwitchFails, Healthy, Restore, rows
<1>3. CASE Outside
  BY <1>3 DEF Outside, Edit, Interfere, ScanReads, ScanWrites, Crash, rows
<1>4. CASE Marking
  BY <1>4, MarkingWritten DEF StatusSet
<1>5. CASE Validate \/ ValidateRollback
  BY <1>5, ValidateWritten DEF StatusSet
<1>6. CASE Materialize
  BY <1>6 DEF Materialize, MaterializeAs
<1>7. CASE AbandonUnjournaled
  BY <1>7, AbandonWritten
<1>8. CASE SaveIntent
  BY <1>8, SaveIntentWritten DEF StatusSet
<1>9. CASE Undoing
  BY <1>9, UndoingWritten DEF rows, PutBack, StatusSet
<1>10. CASE Switching
  BY <1>10, SwitchingWritten
<1>11. CASE Complete
  BY <1>11, CompleteWritten DEF Completes
<1>12. ASSUME NEW r \in Refs, StartUpdate(r)  PROVE \A c \in Cand :
           \/ cands'[c].key = cands[c].key /\ cands'[c].base = cands[c].base
           \/ cands'[c].key.op = "update" => cands'[c].key.from = gens[active].ref
  <2> PICK c \in Cand : Starts(c, UpdateKey(r), "fresh", 0)
    BY <1>12, StartUpdateWritten
  <2>1. QED
    BY DEF Starts, Put, UpdateKey
<1>13. ASSUME NEW t \in Gen, StartRollback(t)  PROVE \A c \in Cand :
           \/ cands'[c].key = cands[c].key /\ cands'[c].base = cands[c].base
           \/ cands'[c].key.op = "update" => cands'[c].key.from = gens[active].ref
  <2> PICK c \in Cand : Starts(c, RollbackKey(t), "check", t)
    BY <1>13, StartRollbackWritten
  <2>1. QED
    BY DEF Starts, Put, RollbackKey
<1>14. CASE UNCHANGED vars
  BY <1>14 DEF vars, rows
<1>15. QED
  BY <1>1, <1>2, <1>3, <1>4, <1>5, <1>6, <1>7, <1>8, <1>9, <1>10, <1>11, <1>12, <1>13,
     <1>14, NextCases

\* A candidate of the last baseline updates from the ref in use.
LEMMA UpdatesAreFromStep ==
  ASSUME ActivationInv, [Next]_vars, ~rescanned'
  PROVE  UpdatesAreFrom'
<1>1. UpdatesAreFrom /\ BaselineIsLast /\ \A c \in Cand : cands[c].base \in Nat
  BY BindingStays, Numbers DEF CandidatesAreMade, ActivationInv, TypeInv, TablesOK, CandRow
<1>2. CASE Complete
  <2>1. \A c \in Cand : cands'[c].base = cands[c].base
    BY <1>2, CompleteWritten DEF Completes
  <2>2. Baseline < Baseline' /\ Baseline \in Nat /\ Baseline' \in Nat
    BY <1>2, BaselineMoves, Numbers DEF Committed
  <2>3. ASSUME NEW c \in Cand  PROVE cands'[c].base # Baseline'
    <3>1. cands[c].base <= Baseline /\ cands[c].base \in Nat
      BY <1>1 DEF BaselineIsLast
    <3>2. QED  BY <2>1, <2>2, <3>1
  <2>4. QED  BY <2>3 DEF UpdatesAreFrom
<1>3. CASE ~Complete
  <2>1. active' = active /\ gens'[active].ref = gens[active].ref /\ Baseline' = Baseline
    BY <1>3, ActiveRowStays, CommittedKept, BaselineKept
  <2>2. QED  BY <1>1, <2>1, KeysKept DEF UpdatesAreFrom
<1>4. QED  BY <1>2, <1>3

\* The candidate at work is made for the generation that the holder leaves.
LEMMA HolderMadeStep ==
  ASSUME ActivationInv, [Next]_vars, ~rescanned'
  PROVE  HolderMade'
<1> USE Numbers DEF HolderMade, MadeFor, HolderOK
<1>0. /\ HolderMade /\ IntentsMade /\ UpdatesAreFrom
      /\ HolderOK /\ TablesOK /\ NewKnown /\ RowsComplete
  BY BindingStays DEF ActivationInv, TypeInv, CandidatesAreMade
<1>a. Complete => HolderMade'
  BY CompleteWritten DEF Exit
<1> SUFFICES ASSUME ~Complete  PROVE HolderMade'
  BY <1>a
<1>b. Baseline' = Baseline
  BY CommittedKept, BaselineKept
<1>1. CASE Waiting
  BY <1>0, <1>1, <1>b
  DEF Waiting, TakeLock, Leave, Check, OldVerified, PersistFails, NotSwitched, Unhealthy,
      CompleteRefused, RestoreFails, RecoverByRestoring, Goto, Exit, Begin, IntentsMade,
      rows
<1>2. CASE Pointing
  BY <1>0, <1>2, <1>b
  DEF Pointing, Switch, SwitchFails, Healthy, Restore, Goto, Exit, rows
<1>3. CASE Outside
  BY <1>0, <1>3, <1>b
  DEF Outside, Edit, Interfere, ScanReads, ScanWrites, Crash, Exit, rows, work
<1>4. CASE Marking
  BY <1>0, <1>4, MarkingWritten DEF StatusSet, Goto, Exit, NewKnown
<1>5. CASE Validate \/ ValidateRollback
  BY <1>0, <1>5, ValidateWritten, <1>b DEF StatusSet, Goto, Exit
<1>6. CASE Materialize
  <2> PICK g \in Gen : Free([h \in Gen |-> gens[h].state], "none", g) /\ MaterializeAs(g)
    BY <1>6 DEF Materialize
  <2>1. gens[g].state = "none" /\ CanFreeze /\ pc = "fresh" /\ IsFresh
    BY <1>6 DEF Materialize, Free, IsFresh
  <2>2. /\ cand \in Cand /\ g # active /\ cands' = cands /\ cand' = cand /\ old' = old
        /\ gens'[active].integrity = files[active] /\ gens'[active].ref = gens[active].ref
    BY <2>1, <1>0, MaterializeWritten DEF MaterializeAs, TablesOK
  <2>3. QED
    BY <1>0, <2>1, <2>2, <1>b DEF IsFresh, UpdatesAreFrom
<1>7. CASE AbandonUnjournaled
  BY <1>7, AbandonWritten DEF Exit
<1>8. CASE SaveIntent
  BY <1>0, <1>8, SaveIntentWritten, <1>b DEF StatusSet, Goto
<1>9. CASE Undoing
  BY <1>9, UndoingWritten DEF Exit
<1>10. CASE Switching
  <2> PICK i \in Intent : Switched(i)
    BY <1>10, SwitchingWritten
  <2>1. /\ UNCHANGED <<gens, cands, receipts, active, files, pointer, env, misplaced, rescanned>>
        /\ intents' \in [Intent -> IntentRow] /\ LastRow(i) /\ RowAtHand(i)
    BY <1>10, SwitchingWritten, UnfinishedIsLast DEF Switched
  <2>2. CASE PersistPointer
    BY <1>0, <2>2, <1>b DEF PersistPointer, Goto
  <2>3. CASE RecoverForward(i)
    BY <1>0, <2>3, <1>b DEF RecoverForward, Begin, IntentsMade
  <2>4. QED  BY <2>2, <2>3 DEF Switched
<1>11. CASE Complete
  BY <1>11
<1>12. ASSUME NEW r \in Refs, StartUpdate(r)  PROVE HolderMade'
  BY <1>0, <1>12, StartUpdateWritten, FreezeWritten, <1>b DEF Starts, Put, AtWork, Exit,
       env, hist, UpdateKey
<1>13. ASSUME NEW t \in Gen, StartRollback(t)  PROVE HolderMade'
  <2> PICK c \in Cand : Starts(c, RollbackKey(t), "check", t)
    BY <1>13, StartRollbackWritten
  <2>1. cands'[c].key.custom = files[active] /\ cands'[c].key.op = "rollback"
    BY DEF Starts, Put, RollbackKey
  <2>2. gens'[active].integrity = files[active] /\ active \in Gen
    BY <1>0, <1>13, StartRollbackWritten, FreezeWritten DEF TablesOK
  <2>3. (cand' = c /\ old' = active) \/ new' = 0
    BY DEF Starts, AtWork, Exit
  <2>4. QED  BY <2>1, <2>2, <2>3
<1>14. CASE UNCHANGED vars
  BY <1>0, <1>14, <1>b DEF vars, rows, work
<1>15. QED
  BY <1>1, <1>2, <1>3, <1>4, <1>5, <1>6, <1>7, <1>8, <1>9, <1>10, <1>11, <1>12, <1>13,
     <1>14, NextCases

\* What is journaled is what the candidate was made for.
LEMMA IntentsMadeStep ==
  ASSUME ActivationInv, [Next]_vars, ~rescanned'
  PROVE  IntentsMade'
<1> USE Numbers DEF IntentsMade, MadeFor, HolderOK, Unfinished
<1>0. IntentsMade /\ HolderMade /\ HolderJournaled /\ HolderOK /\ TablesOK /\ RowsComplete
  BY BindingStays DEF ActivationInv, TypeInv, JournalInv, BindingInv, CandidatesAreMade
<1>a. Complete => IntentsMade'
  <2> SUFFICES ASSUME Complete  PROVE \A j \in Intent : ~Unfinished(j)'
    OBVIOUS
  <2> PICK i \in Intent : Completes(i)
    BY CompleteWritten
  <2>1. \A j \in Intent : Unfinished(j) => j = i
    BY UnfinishedIsLast DEF Completes, LastRow
  <2>2. QED  BY <2>1 DEF Completes, PhaseSet
<1> SUFFICES ASSUME ~Complete  PROVE IntentsMade'
  BY <1>a
<1>b. Baseline' = Baseline
  BY CommittedKept, BaselineKept
<1>c. \A i \in Intent : Unfinished(i) => intents[i].cand \in Cand /\ intents[i].old \in Gen
  BY UnfinishedIsLast DEF RowAtHand
<1>1. CASE Waiting
  BY <1>0, <1>1, <1>b
  DEF Waiting, TakeLock, Leave, Check, OldVerified, PersistFails, NotSwitched, Unhealthy,
      CompleteRefused, RestoreFails, RecoverByRestoring, rows
<1>2. CASE Pointing
  BY <1>0, <1>2, <1>b DEF Pointing, Switch, SwitchFails, Healthy, Restore, rows
<1>3. CASE Outside
  BY <1>0, <1>3, <1>b DEF Outside, Edit, Interfere, ScanReads, ScanWrites, Crash, rows
<1>4. CASE Marking
  <2>1. intents' = intents /\ gens' = gens
    BY <1>4, MarkingWritten
  <2>2. \A c \in Cand : cands'[c].key = cands[c].key /\ cands'[c].base = cands[c].base
    BY <1>4, MarkingWritten DEF StatusSet
  <2>3. QED  BY <1>0, <1>b, <1>c, <2>1, <2>2
<1>5. CASE Validate \/ ValidateRollback
  <2>1. intents' = intents /\ gens' = gens
    BY <1>5, ValidateWritten
  <2>2. \A c \in Cand : cands'[c].key = cands[c].key /\ cands'[c].base = cands[c].base
    BY <1>5, ValidateWritten DEF StatusSet
  <2>3. QED  BY <1>0, <1>b, <1>c, <2>1, <2>2
<1>6. CASE Materialize
  BY <1>0, <1>6, MaterializeWritten, <1>b, <1>c
  DEF Materialize, MaterializeAs, env, hist, HolderJournaled, Journaled
<1>7. CASE AbandonUnjournaled
  BY <1>0, <1>7, AbandonWritten DEF HolderJournaled, Journaled
<1>8. CASE SaveIntent
  <2> PICK i \in Intent : Journals(i)
    BY <1>8, SaveIntentWritten
  <2>1. /\ cand \in Cand /\ old \in Gen /\ gens' = gens
        /\ pc = "journal" /\ StatusSet(cand, "activating")
    BY <1>8, SaveIntentWritten
  <2>2. \A c \in Cand : cands'[c].key = cands[c].key /\ cands'[c].base = cands[c].base
    BY <2>1 DEF StatusSet
  <2>3. MadeFor(cand, old) /\ \A j \in Intent : ~Unfinished(j)
    BY <1>0, SaveIntentWritten, <1>8 DEF HolderMade, HolderJournaled, Journaled
  <2>4. \A j \in Intent \ {i} : ~Unfinished(j)'
    BY <2>3 DEF Journals
  <2>5. intents'[i].cand = cand /\ intents'[i].old = old
    BY DEF Journals
  <2>6. QED  BY <1>b, <2>1, <2>2, <2>3, <2>4, <2>5
<1>9. CASE Undoing
  <2>1. Exit /\ UNCHANGED <<files, pointer, env, hist>>
    BY <1>9, UndoingWritten
  <2>2. CASE UNCHANGED rows
    BY <1>0, <2>2, <1>b DEF rows
  <2>3. ASSUME NEW i \in Intent, Unfinished(i), PutBack(i),
               intents[i].cand \in Cand, intents[i].new \in Gen
        PROVE  IntentsMade'
    <3>1. LastRow(i) /\ RowAtHand(i)
      BY <2>3, UnfinishedIsLast
    <3>2. QED  BY <1>0, <2>3, <3>1, <1>c DEF PutBack, PhaseSet, StatusSet, LastRow, RowAtHand
  <2>4. QED  BY <1>9, <2>2, <2>3, UndoingWritten
<1>10. CASE Switching
  <2> PICK i \in Intent : Switched(i)
    BY <1>10, SwitchingWritten
  <2>1. /\ UNCHANGED <<gens, cands, receipts, active, files, pointer, env, misplaced, rescanned>>
        /\ intents' \in [Intent -> IntentRow] /\ LastRow(i) /\ RowAtHand(i)
    BY <1>10, SwitchingWritten, UnfinishedIsLast DEF Switched
  <2>2. CASE PersistPointer
    BY <1>0, <2>2, <1>b DEF PersistPointer
  <2>3. CASE RecoverForward(i)
    BY <1>0, <2>1, <1>b DEF Switched, PhaseSet
  <2>4. QED  BY <2>2, <2>3 DEF Switched
<1>11. CASE Complete
  BY <1>11
<1>12. ASSUME NEW r \in Refs, StartUpdate(r)  PROVE IntentsMade'
  BY <1>0, <1>12, StartUpdateWritten DEF HolderJournaled, Journaled
<1>13. ASSUME NEW t \in Gen, StartRollback(t)  PROVE IntentsMade'
  BY <1>0, <1>13, StartRollbackWritten DEF HolderJournaled, Journaled
<1>14. CASE UNCHANGED vars
  BY <1>0, <1>14, <1>b DEF vars, rows
<1>15. QED
  BY <1>1, <1>2, <1>3, <1>4, <1>5, <1>6, <1>7, <1>8, <1>9, <1>10, <1>11, <1>12, <1>13,
     <1>14, NextCases

\* The symlink is at the generation that the step of the activation says.
LEMMA PointerStep ==
  ASSUME ActivationInv, [Next]_vars, ~rescanned'
  PROVE  misplaced' \/ PointerAtStep'
<1> USE Numbers DEF PointerAtStep, HolderOK, Unfinished, Journaled
<1>0. /\ HolderJournaled /\ HolderOK /\ TablesOK /\ RowsComplete /\ LeavesActive /\ NewKnown
      /\ misplaced \/ PointerAtStep
  BY BindingStays DEF ActivationInv, TypeInv, JournalInv, BindingInv
<1>1. CASE Waiting
  BY <1>0, <1>1 DEF Waiting, TakeLock, Leave, Check, OldVerified, PersistFails, NotSwitched,
       Unhealthy, CompleteRefused, RestoreFails, RecoverByRestoring, Goto, Exit, Begin,
       HolderJournaled, LeavesActive, Leaves, NewKnown, TablesOK, rows, work, env, hist
<1>2. CASE Pointing
  BY <1>0, <1>2
  DEF Pointing, Switch, SwitchFails, Healthy, Restore, Goto, Exit, HolderJournaled,
      LeavesActive, rows
<1>3. CASE Outside
  BY <1>3, BindingStays
  DEF Outside, Edit, Interfere, ScanReads, ScanWrites, Crash, Exit, rows, work, hist
<1>4. CASE Marking
  BY <1>0, <1>4, MarkingWritten DEF Goto, Exit, hist
<1>5. CASE Validate \/ ValidateRollback
  BY <1>0, <1>5, ValidateWritten DEF Goto, Exit, hist
<1>6. CASE Materialize
  BY <1>0, <1>6 DEF Materialize, MaterializeAs, hist
<1>7. CASE AbandonUnjournaled
  BY <1>0, <1>7, AbandonWritten DEF Exit, hist
<1>8. CASE SaveIntent
  BY <1>0, <1>8, SaveIntentWritten DEF Goto, hist, HolderJournaled
<1>9. CASE Undoing
  <2>1. misplaced \/ pointer = active
    BY <1>0, <1>9
    DEF Undoing, OldChanged, Restored, RecoverUnswitched, LeavesActive, Leaves
  <2>2. Exit /\ active' = active /\ pointer' = pointer /\ misplaced' = misplaced
    BY <1>9, UndoingWritten DEF rows, PutBack, hist
  <2>3. QED  BY <2>1, <2>2 DEF Exit
<1>10. CASE Switching
  <2> PICK i \in Intent : Switched(i)
    BY <1>10, SwitchingWritten
  <2>1. /\ UNCHANGED <<gens, cands, receipts, active, files, pointer, env, misplaced, rescanned>>
        /\ intents' \in [Intent -> IntentRow] /\ LastRow(i) /\ RowAtHand(i)
    BY <1>10, SwitchingWritten, UnfinishedIsLast DEF Switched
  <2>2. CASE PersistPointer
    BY <1>0, <2>1, <2>2 DEF PersistPointer, Goto
  <2>3. CASE RecoverForward(i)
    BY <2>3 DEF RecoverForward, Begin
  <2>4. QED  BY <2>2, <2>3 DEF Switched
<1>11. CASE Complete
  BY <1>0, <1>11, CompleteWritten DEF Exit, hist
<1>12. ASSUME NEW r \in Refs, StartUpdate(r)  PROVE misplaced' \/ PointerAtStep'
  BY <1>0, <1>12, StartUpdateWritten DEF Starts, Exit, hist
<1>13. ASSUME NEW t \in Gen, StartRollback(t)  PROVE misplaced' \/ PointerAtStep'
  BY <1>0, <1>13, StartRollbackWritten DEF Starts, Exit, hist
<1>14. CASE UNCHANGED vars
  BY <1>0, <1>14 DEF vars, rows, work, hist
<1>15. QED
  BY <1>1, <1>2, <1>3, <1>4, <1>5, <1>6, <1>7, <1>8, <1>9, <1>10, <1>11, <1>12, <1>13,
     <1>14, NextCases

-----------------------------------------------------------------------------
(* The invariant *)

\* The first generation is in use, and nothing else has happened.
LEMMA InitInv == Init => ActivationInv
<1> SUFFICES ASSUME Init  PROVE ActivationInv
  OBVIOUS
<1> USE Numbers
<1>1. /\ \A i \in Intent : intents[i] = NoIntent
      /\ \A c \in Cand : cands[c] = NoCand
      /\ \A g \in Gen : /\ gens[g].state = IF g = 1 THEN "active" ELSE "none"
                        /\ gens[g].ref = 1 /\ gens[g].integrity = 0 /\ gens[g].cand = 0
      /\ gens \in [Gen -> GenRow] /\ active = 1 /\ old = 0 /\ new = 0 /\ pc = "free"
      /\ pointer = 1
  BY DEF Init, NoGen, GenRow, GenState
<1>2. /\ NoCand \in CandRow /\ NoIntent \in IntentRow
      /\ NoCand.status = "none" /\ NoCand.base = 0 /\ NoCand.key.op = "none"
      /\ NoIntent.phase = "none" /\ NoIntent.cand = 0 /\ NoIntent.old = 0 /\ NoIntent.new = 0
  BY DEF NoCand, NoKey, CandRow, CandStatus, Key, NoIntent, IntentRow, Phase
<1>3. TablesOK
  <2>1. <<>> \in Seq({"succeeded", "rolled_back"})
    OBVIOUS
  <2>2. QED  BY <1>1, <1>2, <2>1 DEF Init, TablesOK, Missing
<1>4. HolderOK
  <2>1. /\ cand = 0 /\ was = 0 /\ scan = 0 /\ crashes = 0 /\ foreign = 0
        /\ misplaced = FALSE /\ touched = FALSE /\ rescanned = FALSE
    BY DEF Init
  <2>2. 0 \in 0..MaxCrash /\ 0 \in 0..MaxForeign
    BY BoundsAssumption
  <2>3. QED  BY <1>1, <2>1, <2>2 DEF HolderOK
<1>5. RowsComplete /\ NewKnown /\ UpdatesToRefs
  BY <1>1, <1>2 DEF RowsComplete, NewKnown, UpdatesToRefs, Preparing, Journaled
<1>6. \A i \in Intent : intents[i].phase = "none" /\ ~Unfinished(i)
  BY <1>1, <1>2 DEF Unfinished
<1>7. JournalInv
  BY <1>1, <1>2, <1>6
  DEF JournalInv, LastIntent, HolderJournaled, CandidateAtStep, StatusAtStep,
      ActivatingIsUnfinished, Journaled
<1>8. Baseline = 0 /\ Committed = {}
  <2>1. Committed = {}
    BY <1>6 DEF Committed
  <2>2. Baseline = Max({0})
    BY <2>1 DEF Baseline, Committed
  <2>3. QED  BY <2>1, <2>2, MaxIs
<1>9. BaselineIsLast
  BY <1>1, <1>2, <1>8 DEF BaselineIsLast
<1>10. CheckedLast /\ ScansLocked
  BY <1>1 DEF Init, CheckedLast, ScansLocked
<1>11. BindingInv
  BY <1>1, <1>6 DEF BindingInv, OneActiveGeneration, ActiveCandidate, LeavesActive
<1>12. CandidatesAreMade
  BY <1>1, <1>2, <1>6 DEF CandidatesAreMade, UpdatesAreFrom, HolderMade, IntentsMade
<1>13. PointerAtStep
  BY <1>1, <1>6 DEF PointerAtStep
<1>14. QED
  BY <1>3, <1>4, <1>5, <1>7, <1>9, <1>10, <1>11, <1>12, <1>13 DEF ActivationInv, TypeInv

\* One step of anybody.
LEMMA NextInv ==
  ASSUME ActivationInv, [Next]_vars
  PROVE  ActivationInv'
<1>1. TypeInv'
  BY TablesStep, HolderStep, RowsCompleteStep, NewKnownStep, UpdatesToRefsStep DEF TypeInv
<1>2. JournalInv'
  BY LastIntentStep, HolderJournaledStep, StatusAtStepStep, ActivatingStep
  DEF JournalInv, CandidateAtStep
<1>3. BaselineIsLast' /\ CheckedLast' /\ ScansLocked'
  BY BaselineIsLastStep, CheckedLastStep, ScansLockedStep
<1>4. ASSUME ~rescanned'
      PROVE  BindingInv' /\ CandidatesAreMade' /\ (misplaced \/ PointerAtStep)'
  <2>1. BindingInv'
    BY <1>4, OneActiveStep, ActiveCandidateStep, LeavesActiveStep DEF BindingInv
  <2>2. CandidatesAreMade'
    BY <1>4, UpdatesAreFromStep, HolderMadeStep, IntentsMadeStep DEF CandidatesAreMade
  <2>3. (misplaced \/ PointerAtStep)'
    BY <1>4, PointerStep
  <2>4. QED  BY <2>1, <2>2, <2>3
<1>5. QED  BY <1>1, <1>2, <1>3, <1>4 DEF ActivationInv

\* The inductive invariant holds in every state that is reached.
THEOREM ActivationCorrect == Spec => []ActivationInv
<1>1. QED  BY InitInv, NextInv, PTL DEF Spec

-----------------------------------------------------------------------------
(* What the runs check *)

\* Every variable keeps its type.
THEOREM TypeCorrect == Spec => []TypeOK
<1>1. ActivationInv => TypeOK
  BY TypeParts DEF ActivationInv, TypeInv
<1>2. QED  BY <1>1, ActivationCorrect, PTL

\* sqlstore.go: whatever was interrupted, the next run finds one intent at most, and
\* can complete it.
THEOREM RecoverableCorrect == Spec => []JournalIsRecoverable
<1>1. ASSUME ActivationInv  PROVE JournalIsRecoverable
  <2> SUFFICES ASSUME ~rescanned
               PROVE  /\ \A i, j \in Intent : Unfinished(i) /\ Unfinished(j) => i = j
                      /\ \A i \in Intent : Unfinished(i) =>
                           /\ Completable(i) /\ gens[intents[i].old].state = "active"
                           /\ intents[i].new # active
                           /\ gens[intents[i].new].state \in {"prepared", "inactive"}
                      /\ \A c \in Cand : cands[c].status = "activating" <=>
                           \E i \in Intent : Unfinished(i) /\ intents[i].cand = c
    BY DEF JournalIsRecoverable
  <2>1. BindingInv /\ CandidateAtStep
    BY <1>1 DEF ActivationInv, JournalInv
  <2>2. \A i, j \in Intent : Unfinished(i) /\ Unfinished(j) => i = j
    BY <1>1, UnfinishedIsLast DEF LastRow
  <2>3. ASSUME NEW i \in Intent, Unfinished(i)
        PROVE  /\ Completable(i) /\ gens[intents[i].old].state = "active"
               /\ intents[i].new # active
               /\ gens[intents[i].new].state \in {"prepared", "inactive"}
    <3>1. Leaves(intents[i].old, intents[i].new) /\ RowAtHand(i)
      BY <1>1, <2>1, <2>3, UnfinishedIsLast DEF BindingInv, LeavesActive
    <3>2. gens[intents[i].old].state = "active"
      BY <2>1, <3>1 DEF BindingInv, OneActiveGeneration, Leaves, RowAtHand
    <3>3. cands[intents[i].cand].status = "activating"
      BY <2>1, <2>3, <3>1 DEF CandidateAtStep, ActivatingIsUnfinished, RowAtHand
    <3>4. \A c \in Undone(i) : cands[c].status = "active"
      BY <2>1, <3>1, Numbers DEF BindingInv, ActiveCandidate, Undone, Leaves
    <3>5. QED  BY <3>1, <3>2, <3>3, <3>4 DEF Completable, Leaves
  <2>4. QED  BY <2>1, <2>2, <2>3 DEF CandidateAtStep, ActivatingIsUnfinished
<1>2. QED  BY <1>1, ActivationCorrect, PTL

\* manager.go:234-243: database and symlink never part for good.
THEOREM PointerCorrect == Spec => []PointerFollowsBinding
<1>1. ActivationInv => PointerFollowsBinding
  BY DEF ActivationInv, PointerAtStep, PointerFollowsBinding
<1>2. QED  BY <1>1, ActivationCorrect, PTL

\* The binding has one active generation until an inventory that does not hold the lock
\* moves it.
THEOREM BindingCorrect == Spec => [](rescanned \/ OneActiveGeneration)
<1>1. ActivationInv => rescanned \/ OneActiveGeneration
  BY DEF ActivationInv, BindingInv
<1>2. QED  BY <1>1, ActivationCorrect, PTL

\* Where inventories take the lock it always has.
THEOREM OneActiveCorrect ==
  ASSUME ~UnlockedScans
  PROVE  Spec => []OneActiveGeneration
<1>1. ActivationInv => OneActiveGeneration
  BY DEF ActivationInv, BindingInv, ScansLocked
<1>2. QED  BY <1>1, ActivationCorrect, PTL

\* An intent is only committed by the transaction of Complete, of the holder at work on it.
LEMMA CommitsComplete ==
  ASSUME ActivationInv, [Next]_vars, NEW i \in Intent, Commits(i)
  PROVE  Complete /\ LastRow(i) /\ RowAtHand(i) /\ pc = "complete" /\ Completes(i)
<1>1. i \in Committed' /\ i \notin Committed /\ Unfinished(i)
  BY DEF Commits, Committed, Unfinished
<1>2. Complete
  BY <1>1, CommittedKept
<1>3. PICK j \in Intent : Completes(j)
  BY <1>2, CompleteWritten
<1>4. i = j
  BY <1>1, <1>3, UnfinishedIsLast DEF Completes, LastRow
<1>5. QED  BY <1>1, <1>2, <1>3, <1>4, UnfinishedIsLast, CompleteWritten

\* What is committed was made for the content, the generation and the baseline it
\* leaves, and has been checked: with the candidates that were made for what is in use,
\* and nobody to change that while they are at work.
THEOREM CommitCorrect ==
  ASSUME ~UnlockedScans
  PROVE  Spec => CommitIsExact
<1>1. ASSUME ActivationInv, [Next]_vars, NEW i \in Intent, Commits(i)
      PROVE  LET c == cands[intents[i].cand]
                 o == gens[intents[i].old]
             IN  /\ c.key.custom = o.integrity
                 /\ c.key.op = "update" => c.key.from = o.ref /\ c.base = Baseline
                 /\ touched \/ (Intact(intents[i].old) /\ Intact(intents[i].new)
                                /\ pointer = intents[i].new)
  <2>1. Unfinished(i) /\ RowAtHand(i) /\ pc = "complete"
    BY <1>1, CommitsComplete DEF Completes
  <2>2. MadeFor(intents[i].cand, intents[i].old)
    BY <1>1, <2>1 DEF ActivationInv, ScansLocked, CandidatesAreMade, IntentsMade
  <2>3. touched \/ (Intact(old) /\ Intact(new) /\ pointer = new)
    BY <1>1, <2>1 DEF ActivationInv, CheckedLast
  <2>4. old = intents[i].old /\ new = intents[i].new
    BY <2>1 DEF RowAtHand, Journaled
  <2>5. QED  BY <2>2, <2>3, <2>4 DEF MadeFor
<1>2. ActivationInv /\ [Next]_vars =>
        [\A i \in Intent : Commits(i) =>
           LET c == cands[intents[i].cand]
               o == gens[intents[i].old]
           IN  /\ c.key.custom = o.integrity
               /\ c.key.op = "update" => c.key.from = o.ref /\ c.base = Baseline
               /\ touched \/ (Intact(intents[i].old) /\ Intact(intents[i].new)
                              /\ pointer = intents[i].new)]_vars
  BY <1>1
<1>3. QED  BY <1>2, ActivationCorrect, PTL DEF Spec, CommitIsExact

\* README.md:95: what the lock is for holds as soon as every inventory takes it.
THEOREM BindingMoves ==
  ASSUME ~UnlockedScans
  PROVE  Spec => BindingMovesByCommit
<1>1. ASSUME ActivationInv, [Next]_vars, active' # active
      PROVE  \E i \in Intent : Commits(i) /\ active' = intents[i].new
  <2>1. ~rescanned'
    BY <1>1, ScansLockedStep DEF ScansLocked
  <2>2. Complete
    BY <1>1, <2>1, ActiveRowStays
  <2>3. PICK i \in Intent : Completes(i)
    BY <1>1, <2>2, CompleteWritten
  <2>4. RowAtHand(i) /\ pc = "complete" /\ active' = new
    BY <1>1, <2>2, <2>3, UnfinishedIsLast, CompleteWritten DEF Completes
  <2>5. QED  BY <2>3, <2>4 DEF Completes, PhaseSet, Commits, RowAtHand, Journaled
<1>2. ActivationInv /\ [Next]_vars =>
        [active' # active => \E i \in Intent : Commits(i) /\ active' = intents[i].new]_vars
  BY <1>1
<1>3. QED  BY <1>2, ActivationCorrect, PTL DEF Spec, BindingMovesByCommit

-----------------------------------------------------------------------------
(* The ledger *)

\* A step that leaves the journal alone leaves the outcomes alone.
LEMMA OutcomesKept ==
  ASSUME intents' = intents
  PROVE  Outcome' = Outcome /\ Target' = Target
BY DEF Outcome, Target, Unfinished

\* The phase an intent is given is its outcome.
LEMMA OutcomeSet ==
  ASSUME NEW i \in Intent, NEW p \in Phase, PhaseSet(i, p), Unfinished(i)
  PROVE  /\ Outcome[i] = "open" /\ Target' = Target
         /\ Outcome' = [Outcome EXCEPT ![i] =
                          IF p \in {"prepared", "pointer_switched"} THEN "open" ELSE p]
BY DEF PhaseSet, Outcome, Target, Unfinished

\* Saving the intent opens the transaction.
LEMMA IntentOpens ==
  ASSUME ActivationInv, SaveIntent
  PROVE  \E i \in Intent : Ledger!Open(i, new)
<1> PICK i \in Intent : Journals(i)
  BY SaveIntentWritten
<1>1. Outcome[i] = "none" /\ UNCHANGED <<active, receipts>>
  BY SaveIntentWritten DEF Outcome, Unfinished, Journals
<1>2. Outcome' = [Outcome EXCEPT ![i] = "open"]
  BY DEF Outcome, Unfinished, Journals
<1>3. Target' = [Target EXCEPT ![i] = new]
  BY DEF Target, Journals
<1>4. QED  BY <1>1, <1>2, <1>3 DEF Ledger!Open

\* Each step of the activation is one of the ledger, or none.
LEMMA LedgerStep ==
  ASSUME ActivationInv, [Next]_vars
  PROVE  [Ledger!LedgerNext]_(Ledger!lvars)
<1> USE DEF Ledger!LedgerNext, Ledger!lvars
<1>0. TablesOK /\ HolderOK /\ ScansLocked
  BY DEF ActivationInv, TypeInv
<1>1. ASSUME UNCHANGED <<intents, receipts, active>>
      PROVE  [Ledger!LedgerNext]_(Ledger!lvars)
  BY <1>1, OutcomesKept
<1>2. CASE Waiting \/ Pointing \/ UNCHANGED vars
  <2>1. UNCHANGED rows
    BY <1>2
    DEF Waiting, TakeLock, Leave, Check, OldVerified, PersistFails, NotSwitched, Unhealthy,
        CompleteRefused, RestoreFails, RecoverByRestoring, Pointing, Switch, SwitchFails,
        Healthy, Restore, vars
  <2>2. QED  BY <1>1, <2>1 DEF rows
<1>3. CASE \/ Marking \/ Validate \/ ValidateRollback \/ AbandonUnjournaled
           \/ (\E r \in Refs : StartUpdate(r)) \/ (\E t \in Gen : StartRollback(t))
  BY <1>1, <1>3, MarkingWritten, ValidateWritten, AbandonWritten, StartUpdateWritten,
     StartRollbackWritten
<1>4. CASE Materialize
  BY <1>1, <1>4 DEF Materialize, MaterializeAs
<1>5. CASE SaveIntent
  <2>1. new \in Gen
    BY <1>5, SaveIntentWritten
  <2>2. QED  BY <1>5, <2>1, IntentOpens
<1>6. CASE Undoing
  <2>1. CASE UNCHANGED rows
    BY <1>1, <2>1 DEF rows
  <2>2. ASSUME NEW i \in Intent, Unfinished(i), MarkRolledBack(i)  PROVE Ledger!Undo(i)
    <3>1. PhaseSet(i, "rolled_back")
      BY <1>0, <2>2, PhaseWritten DEF MarkRolledBack, Phase
    <3>2. Ledger!Settle(i, "rolled_back")
      BY <2>2, <3>1, OutcomeSet DEF Phase, Ledger!Settle
    <3>3. UNCHANGED active /\ Ledger!LeaveReceipt(i, "rolled_back")
      BY <2>2 DEF MarkRolledBack, Ledger!LeaveReceipt
    <3>4. QED  BY <3>2, <3>3 DEF Ledger!Undo
  <2>3. UNCHANGED rows \/ \E i \in Intent : Unfinished(i) /\ MarkRolledBack(i)
    BY <1>6 DEF Undoing, OldChanged, Restored, RecoverUnswitched
  <2>4. QED  BY <2>1, <2>2, <2>3
<1>7. CASE Switching
  <2> PICK i \in Intent : Unfinished(i) /\ PhaseSet(i, "pointer_switched")
    BY <1>7, SwitchingWritten DEF Switched
  <2>1. Outcome' = [Outcome EXCEPT ![i] = "open"] /\ Outcome[i] = "open" /\ Target' = Target
    BY OutcomeSet DEF Phase
  <2>2. Outcome' = Outcome
    BY <2>1 DEF Outcome
  <2>3. QED  BY <1>7, <2>1, <2>2, SwitchingWritten
<1>8. CASE Complete
  <2> PICK i \in Intent : Completes(i)
    BY <1>8, CompleteWritten
  <2>1. Ledger!Settle(i, "committed")
    BY OutcomeSet DEF Completes, Phase, Ledger!Settle
  <2>2. active' = Target[i]
    BY <1>8, CompleteWritten, UnfinishedIsLast DEF Completes, RowAtHand, Journaled, Target
  <2>3. QED  BY <2>1, <2>2 DEF Completes, Ledger!Install, Ledger!LeaveReceipt
<1>9. CASE Outside
  <2>1. CASE ScanWrites
    <3>1. UnlockedScans /\ active' \in Gen
      BY <1>0, <2>1, BoundsAssumption DEF ScanWrites, ScansLocked, HolderOK
    <3>2. QED  BY <2>1, <3>1, OutcomesKept DEF ScanWrites, Ledger!Observe
  <2>2. CASE (\E g \in Gen : Edit(g)) \/ Interfere \/ ScanReads \/ Crash
    <3>1. UNCHANGED rows
      BY <2>2 DEF Edit, Interfere, ScanReads, Crash
    <3>2. QED  BY <1>1, <3>1 DEF rows
  <2>3. QED  BY <1>9, <2>1, <2>2 DEF Outside
<1>10. QED
  BY <1>2, <1>3, <1>4, <1>5, <1>6, <1>7, <1>8, <1>9, NextCases

\* The journal of a binding implements the same ledger as the one of a Bundle.
THEOREM LedgerImplemented == Spec => ImplementsLedger
<1>1. Init => Ledger!LedgerInit
  BY Numbers DEF Init, NoIntent, Outcome, Target, Unfinished, Ledger!LedgerInit
<1>2. ActivationInv /\ [Next]_vars => [Ledger!LedgerNext]_(Ledger!lvars)
  BY LedgerStep
<1>3. QED
  BY <1>1, <1>2, ActivationCorrect, PTL DEF Spec, ImplementsLedger, Ledger!LedgerSpec

------------------------------------------------------------------------------
(***************************************************************************)
(* The merge of an update, for every set of lines, whatever the trees of   *)
(* the two sides have.                                                     *)
(*                                                                         *)
(* First induction: what the recursive functions of Merge compute is found *)
(* line by line, and no theorem of the library can be instantiated for it. *)
(***************************************************************************)

\* A set of numbers that has 0 and with each number the next has all of them: otherwise the
\* successor would map its part below a missing number into itself, one to one but not onto.
LEMMA Induction ==
  ASSUME NEW S, 0 \in S, \A n \in Nat : n \in S => n + 1 \in S
  PROVE  Nat \subseteq S
<1> SUFFICES ASSUME NEW n \in Nat, n \notin S  PROVE FALSE
  OBVIOUS
<1> DEFINE T == (0..n) \cap S
           f == [k \in T |-> k + 1]
<1>1. IsFiniteSet(T)
  <2>1. IsFiniteSet(0..n)
    BY FS_Interval
  <2>2. QED  BY <2>1, FS_Intersection
<1>2. f \in Injection(T, T)
  BY DEF Injection, IsInjective
<1>3. f \in Surjection(T, T)
  <2> HIDE DEF T, f
  <2>1. Cardinality(T) = Cardinality(T) <=> f \in Surjection(T, T)
    BY <1>1, <1>2, FS_Injection
  <2>2. QED  BY <2>1
<1>4. 0 \in T
  OBVIOUS
<1>5. PICK k \in T : f[k] = 0
  BY <1>3, <1>4 DEF Surjection
<1>6. QED  BY <1>5

\* A set of numbers has a least one.
LEMMA LeastNumber ==
  ASSUME NEW T \in SUBSET Nat, T # {}
  PROVE  \E n \in T : \A m \in T : n <= m
<1> SUFFICES ASSUME \A n \in T : \E m \in T : m < n  PROVE FALSE
  OBVIOUS
<1> DEFINE S == {n \in Nat : \A m \in T : n <= m}
<1>1. 0 \in S
  OBVIOUS
<1>2. \A n \in Nat : n \in S => n + 1 \in S
  OBVIOUS
<1>3. Nat \subseteq S
  <2> HIDE DEF S
  <2> QED  BY <1>1, <1>2, Induction
<1>4. PICK n \in T : TRUE
  OBVIOUS
<1>5. n + 1 \in S
  BY <1>3
<1>6. QED  BY <1>5

-----------------------------------------------------------------------------
(* Sequences of texts put together *)

------------------------------------------------------------------------------
(* Texts put together: FlattenSeq and Text *)

\* The texts of seqs up to one of them, put together.
Joined(seqs) ==
  CHOOSE f : f = [i \in 1..Len(seqs) |-> IF i = 1 THEN seqs[i] ELSE f[i - 1] \o seqs[i]]

\* The recursive definition of FlattenSeq has a solution.
LEMMA JoinedIs ==
  ASSUME NEW seqs, Len(seqs) \in Nat
  PROVE  Joined(seqs) =
           [i \in 1..Len(seqs) |-> IF i = 1 THEN seqs[i] ELSE Joined(seqs)[i - 1] \o seqs[i]]
<1> DEFINE Body(f, i) == IF i = 1 THEN seqs[i] ELSE f[i - 1] \o seqs[i]
           D == 1..Len(seqs)
           S == {k \in Nat : \E f : \A i \in D : i <= k => f[i] = Body(f, i)}
<1>1. 0 \in S
  OBVIOUS
<1>2. ASSUME NEW k \in Nat, k \in S  PROVE k + 1 \in S
  <2>1. PICK f : \A i \in D : i <= k => f[i] = Body(f, i)
    BY <1>2
  <2> DEFINE g == [i \in D |-> Body(f, i)]
  <2>2. ASSUME NEW i \in D, i <= k + 1  PROVE g[i] = Body(g, i)
    <3>1. CASE i = 1
      BY <3>1
    <3>2. CASE i # 1
      <4>1. i - 1 \in D /\ i - 1 <= k
        BY <3>2, <2>2
      <4>2. g[i - 1] = f[i - 1]
        BY <4>1, <2>1
      <4>3. QED  BY <4>2, <3>2
    <3>3. QED  BY <3>1, <3>2
  <2> HIDE DEF g
  <2>3. QED  BY <2>2
<1>3. Len(seqs) \in S
  <2> HIDE DEF S
  <2> QED  BY <1>1, <1>2, Induction
<1>4. PICK f : \A i \in D : i <= Len(seqs) => f[i] = Body(f, i)
  BY <1>3
<1> DEFINE g == [i \in D |-> Body(f, i)]
<1>5. g = [i \in D |-> Body(g, i)]
  <2>1. ASSUME NEW i \in D  PROVE Body(f, i) = Body(g, i)
    <3>1. CASE i = 1
      BY <3>1
    <3>2. CASE i # 1
      <4>1. i - 1 \in D
        BY <3>2
      <4>2. g[i - 1] = f[i - 1]
        BY <4>1, <1>4
      <4>3. QED  BY <4>2, <3>2
    <3>3. QED  BY <3>1, <3>2
  <2>2. QED  BY <2>1
<1>6. QED  BY <1>5 DEF Joined

\* Two texts put together.
LEMMA Joining ==
  ASSUME NEW S, NEW s \in Seq(S), NEW t \in Seq(S)
  PROVE  /\ s \o t \in Seq(S)
         /\ Len(s) \in Nat /\ Len(t) \in Nat /\ Len(s \o t) = Len(s) + Len(t)
         /\ \A k \in 1..Len(s) : (s \o t)[k] = s[k]
         /\ \A k \in 1..Len(t) : (s \o t)[Len(s) + k] = t[k]
OBVIOUS

\* The text m has the n texts of seqs one behind the other: the first i end with line w[i].
Splits(m, seqs, n, w) ==
  /\ w \in [0..n -> Nat] /\ w[0] = 0 /\ w[n] = Len(m)
  /\ \A i \in 0..n : w[i] <= Len(m)
  /\ \A i \in 1..n : /\ w[i] = w[i - 1] + Len(seqs[i])
                   /\ \A k \in 1..Len(seqs[i]) : m[w[i - 1] + k] = seqs[i][k]

\* What is put together has the texts one behind the other, each at its place.
LEMMA FlattenPlaces ==
  ASSUME NEW S, NEW n \in Nat \ {0}, NEW seqs \in [1..n -> Seq(S)]
  PROVE  /\ FlattenSeq(seqs) \in Seq(S)
         /\ \E w : Splits(FlattenSeq(seqs), seqs, n, w)
<1> DEFINE J == Joined(seqs)
<1>1. Len(seqs) = n
  OBVIOUS
<1>2. J = [i \in 1..n |-> IF i = 1 THEN seqs[i] ELSE J[i - 1] \o seqs[i]]
  BY <1>1, JoinedIs
<1> DEFINE m == FlattenSeq(seqs)
<1>3. m = J[n]
  BY <1>1 DEF FlattenSeq, Joined
<1> HIDE DEF J, m
<1>4. J[1] = seqs[1] /\ \A i \in 2..n : J[i] = J[i - 1] \o seqs[i]
  <2>1. \A i \in 1..n : J[i] = IF i = 1 THEN seqs[i] ELSE J[i - 1] \o seqs[i]
    BY <1>2, Zenon
  <2>2. 1 \in 1..n /\ \A i \in 2..n : i \in 1..n /\ i # 1
    OBVIOUS
  <2>3. QED  BY <2>1, <2>2, Zenon
<1> DEFINE Good(i) == /\ J[i] \in Seq(S)
                      /\ \A h \in 1..i : /\ J[h] \in Seq(S) /\ Len(J[h]) <= Len(J[i])
                                       /\ \A k \in 1..Len(J[h]) : J[i][k] = J[h][k]
           G == {i \in Nat : i \in 1..n => Good(i)}
<1>5. \A i \in 1..n : Good(i)
  <2>1. 0 \in G
    OBVIOUS
  <2>2. ASSUME NEW i \in Nat, i \in G  PROVE i + 1 \in G
    <3> SUFFICES ASSUME i + 1 \in 1..n  PROVE Good(i + 1)
      OBVIOUS
    <3>1. CASE i = 0
      BY <3>1, <1>4
    <3>2. CASE i # 0
      <4>1. Good(i) /\ J[i + 1] = J[i] \o seqs[i + 1] /\ seqs[i + 1] \in Seq(S)
        <5>1. i \in 1..n /\ i + 1 \in 2..n /\ (i + 1) - 1 = i
          BY <3>2
        <5>2. Good(i)
          BY <5>1, <2>2
        <5>3. J[i + 1] = J[i] \o seqs[i + 1]
          <6> HIDE DEF G, Good
          <6> QED  BY <5>1, <1>4
        <5>4. QED  BY <5>1, <5>2, <5>3
      <4> HIDE DEF G
      <4>2. /\ J[i + 1] \in Seq(S)
            /\ Len(J[i + 1]) = Len(J[i]) + Len(seqs[i + 1])
            /\ Len(J[i]) \in Nat /\ Len(J[i + 1]) \in Nat /\ Len(J[i]) <= Len(J[i + 1])
            /\ \A k \in 1..Len(J[i]) : J[i + 1][k] = J[i][k]
        <5> DEFINE a == J[i]
                   c == seqs[i + 1]
        <5>1. a \in Seq(S) /\ c \in Seq(S) /\ J[i + 1] = a \o c
          BY <4>1
        <5> HIDE DEF Good, a, c
        <5>2. /\ J[i + 1] \in Seq(S)
              /\ Len(J[i + 1]) = Len(a) + Len(c)
              /\ Len(a) \in Nat /\ Len(J[i + 1]) \in Nat /\ Len(a) <= Len(J[i + 1])
              /\ \A k \in 1..Len(a) : J[i + 1][k] = a[k]
          BY <5>1, Joining
        <5>3. QED  BY <5>2 DEF a, c
      <4> HIDE DEF Good
      <4>3. ASSUME NEW h \in 1..i + 1
            PROVE  /\ J[h] \in Seq(S) /\ Len(J[h]) <= Len(J[i + 1])
                   /\ \A k \in 1..Len(J[h]) : J[i + 1][k] = J[h][k]
        <5>1. CASE h = i + 1
          BY <5>1, <4>2
        <5>2. CASE h # i + 1
          <6>1. h \in 1..i
            BY <5>2
          <6>2. /\ J[h] \in Seq(S) /\ Len(J[h]) <= Len(J[i])
                /\ \A k \in 1..Len(J[h]) : J[i][k] = J[h][k]
            BY <6>1, <4>1 DEF Good
          <6>3. Len(J[h]) \in Nat
            BY <6>2
          <6>4. Len(J[h]) <= Len(J[i + 1])
            <7> DEFINE x == Len(J[h])
                       y == Len(J[i])
                       z == Len(J[i + 1])
            <7>1. x \in Nat /\ y \in Nat /\ x <= y /\ y <= z /\ z \in Nat
              BY <6>2, <6>3, <4>2
            <7> HIDE DEF x, y, z
            <7>2. x <= z
              BY <7>1
            <7>3. QED  BY <7>2 DEF x, z
          <6>5. ASSUME NEW k \in 1..Len(J[h])  PROVE J[i + 1][k] = J[h][k]
            <7>1. k \in 1..Len(J[i])
              BY <6>2, <6>3, <4>2
            <7>2. QED  BY <7>1, <6>2, <4>2
          <6>6. QED  BY <6>2, <6>4, <6>5
        <5>3. QED  BY <5>1, <5>2
      <4>4. QED  BY <4>2, <4>3 DEF Good
    <3>3. QED  BY <3>1, <3>2
  <2>3. Nat \subseteq G
    <3> HIDE DEF G
    <3> QED  BY <2>1, <2>2, Induction
  <2>4. QED  BY <2>3
<1> HIDE DEF Good
<1> DEFINE w == [i \in 0..n |-> IF i = 0 THEN 0 ELSE Len(J[i])]
<1>6. w \in [0..n -> Nat]
  BY <1>5 DEF Good
<1>7. w[0] = 0 /\ w[n] = Len(m)
  BY <1>3
<1>12. ASSUME NEW i \in 0..n  PROVE w[i] <= Len(m)
  <2>1. n \in 1..n /\ Good(n)
    BY <1>5
  <2>2. Len(J[n]) \in Nat
    BY <2>1 DEF Good
  <2>3. CASE i = 0
    BY <2>2, <2>3, <1>3
  <2>4. CASE i # 0
    <3>1. i \in 1..n
      BY <2>4
    <3>2. Len(J[i]) <= Len(J[n])
      BY <2>1, <3>1 DEF Good
    <3>3. QED  BY <3>2, <2>4, <1>3
  <2>5. QED  BY <2>3, <2>4
<1>8. ASSUME NEW i \in 1..n
      PROVE  /\ w[i] = w[i - 1] + Len(seqs[i])
             /\ \A k \in 1..Len(seqs[i]) : m[w[i - 1] + k] = seqs[i][k]
  <2>0. w[i] = Len(J[i]) /\ seqs[i] \in Seq(S) /\ Len(seqs[i]) \in Nat
    OBVIOUS
  <2>1. J[i] \in Seq(S) /\ \A k \in 1..Len(J[i]) : m[k] = J[i][k]
    BY <1>3, <1>5 DEF Good
  <2>2. CASE i = 1
    BY <2>0, <2>1, <2>2, <1>4
  <2>3. CASE i # 1
    <3>1. i - 1 \in 1..n /\ w[i - 1] = Len(J[i - 1]) /\ J[i] = J[i - 1] \o seqs[i]
      <4>1. i - 1 \in 1..n /\ i \in 2..n
        BY <2>3
      <4>2. w[i - 1] = Len(J[i - 1])
        BY <4>1
      <4>3. J[i] = J[i - 1] \o seqs[i]
        BY <4>1, <1>4
      <4>4. QED  BY <4>1, <4>2, <4>3
    <3>2. J[i - 1] \in Seq(S) /\ Len(J[i - 1]) \in Nat
      BY <3>1, <1>5 DEF Good
    <3>3. Len(J[i]) = Len(J[i - 1]) + Len(seqs[i])
      BY <3>1, <3>2, <2>0
    <3>4. ASSUME NEW k \in 1..Len(seqs[i])  PROVE m[w[i - 1] + k] = seqs[i][k]
      <4>1. Len(J[i - 1]) + k \in 1..Len(J[i])
        BY <3>2, <3>3, <2>0
      <4>2. J[i][Len(J[i - 1]) + k] = seqs[i][k]
        BY <3>1, <3>2, <2>0, <4>1
      <4>3. QED  BY <4>1, <4>2, <2>1, <3>1
    <3>5. QED  BY <3>1, <3>3, <3>4, <2>0
  <2>4. QED  BY <2>2, <2>3
<1> HIDE DEF w
<1>9. m \in Seq(S)
  BY <1>3, <1>5 DEF Good
<1>10. Splits(m, seqs, n, w)
  BY <1>6, <1>7, <1>8, <1>12 DEF Splits
<1>11. QED  BY <1>9, <1>10 DEF m

\* No text and one text put together.
LEMMA EmptyText == Text({}) = <<>>
<1>1. {e.replacement : e \in {}} = {}
  OBVIOUS
<1>2. SetToSeq({}) = <<>>
  BY FS_EmptySet DEF SetToSeq
<1>3. FlattenSeq(<<>>) = <<>>
  BY DEF FlattenSeq
<1>4. QED  BY <1>1, <1>2, <1>3 DEF Text


\* One text put together is itself.
LEMMA SingleText ==
  ASSUME NEW e, NEW S, e.replacement \in Seq(S)
  PROVE  Text({e}) = e.replacement
<1> DEFINE r == e.replacement
<1>1. {x.replacement : x \in {e}} = {r}
  OBVIOUS
<1>2. SetToSeq({r}) = [i \in 1..1 |-> r]
  <2>1. Cardinality({r}) = 1
    BY FS_Singleton
  <2>2. [1..1 -> {r}] = {[i \in 1..1 |-> r]}
    OBVIOUS
  <2>3. IsInjective([i \in 1..1 |-> r])
    BY DEF IsInjective
  <2>4. QED  BY <2>1, <2>2, <2>3 DEF SetToSeq
<1>3. FlattenSeq([i \in 1..1 |-> r]) = r
  <2>1. Len([i \in 1..1 |-> r]) = 1
    OBVIOUS
  <2>2. FlattenSeq([i \in 1..1 |-> r]) = Joined([i \in 1..1 |-> r])[1]
    BY <2>1 DEF FlattenSeq, Joined
  <2>3. Joined([i \in 1..1 |-> r])[1] = [i \in 1..1 |-> r][1]
    <3> DEFINE q == [i \in 1..1 |-> r]
    <3>1. Len(q) = 1 /\ Len(q) \in Nat
      BY <2>1
    <3> HIDE DEF q
    <3>2. Joined(q) = [i \in 1..1 |-> IF i = 1 THEN q[i] ELSE Joined(q)[i - 1] \o q[i]]
      <4>1. Joined(q) = [i \in 1..Len(q) |-> IF i = 1 THEN q[i] ELSE Joined(q)[i - 1] \o q[i]]
        BY <3>1, JoinedIs
      <4>2. QED  BY <4>1, <3>1
    <3>3. 1 \in 1..1
      OBVIOUS
    <3>4. Joined(q)[1] = q[1]
      BY <3>2, <3>3, Zenon
    <3>5. QED  BY <3>4 DEF q
  <2>4. QED  BY <2>2, <2>3
<1>4. QED  BY <1>1, <1>2, <1>3 DEF Text

-----------------------------------------------------------------------------
(* The comparison of two texts *)

------------------------------------------------------------------------------
(* The comparison of two texts: Matches *)

\* A set of pairs of positions that goes up in both.
Rising(P) == \A x, y \in P : (x[1] < y[1] <=> x[2] < y[2]) /\ (x[1] = y[1] => x = y)

\* How the comparison goes on from a cell: it matches the two lines, or gives one up.
GoesOn(b, t, F, x) ==
  IF x[1] > Len(b) \/ x[2] > Len(t) THEN F[x] = {}
  ELSE \/ F[x] = F[<<x[1] + 1, x[2]>>]
       \/ F[x] = F[<<x[1], x[2] + 1>>]
       \/ Same(b, t, x) /\ F[x] = {x} \union F[<<x[1] + 1, x[2] + 1>>]

\* The recursive definition of the comparison has a solution.
LEMMA MatchesFromIs ==
  ASSUME NEW b, NEW t, Len(b) \in Nat, Len(t) \in Nat
  PROVE  \A x \in Cells(b, t) : GoesOn(b, t, MatchesFrom(b, t), x)
<1> DEFINE D == Cells(b, t)
           lcs == Lcs(b, t)
           Body(f, x) ==
             CASE x[1] > Len(b) \/ x[2] > Len(t) -> {}
               [] Same(b, t, x) -> {x} \union f[<<x[1] + 1, x[2] + 1>>]
               [] OTHER -> IF lcs[<<x[1], x[2] + 1>>] > lcs[<<x[1] + 1, x[2]>>]
                           THEN f[<<x[1], x[2] + 1>>] ELSE f[<<x[1] + 1, x[2]>>]
           Rank(x) == (Len(b) + 1 - x[1]) + (Len(t) + 1 - x[2])
           S == {k \in Nat : \E f : \A x \in D : Rank(x) < k => f[x] = Body(f, x)}
<1>1. ASSUME NEW f, NEW g, NEW x \in D,
             \A y \in D : Rank(y) < Rank(x) => f[y] = g[y]
      PROVE  Body(f, x) = Body(g, x)
  <2>1. x[1] \in 1..Len(b) + 1 /\ x[2] \in 1..Len(t) + 1
    BY DEF Cells
  <2>2. CASE x[1] > Len(b) \/ x[2] > Len(t)
    <3>1. ~Same(b, t, x)
      BY <2>1, <2>2 DEF Same
    <3> HIDE DEF Rank, lcs, D
    <3>2. Body(f, x) = {} /\ Body(g, x) = {}
      BY <2>2, <3>1
    <3>3. QED  BY <3>2
  <2>3. CASE ~(x[1] > Len(b) \/ x[2] > Len(t))
    <3>1. /\ <<x[1] + 1, x[2] + 1>> \in D
          /\ <<x[1] + 1, x[2]>> \in D
          /\ <<x[1], x[2] + 1>> \in D
      BY <2>1, <2>3 DEF Cells
    <3>2. /\ Rank(<<x[1] + 1, x[2] + 1>>) < Rank(x)
          /\ Rank(<<x[1] + 1, x[2]>>) < Rank(x)
          /\ Rank(<<x[1], x[2] + 1>>) < Rank(x)
      <4> DEFINE i == x[1]
                 j == x[2]
      <4>1. i \in Int /\ j \in Int
        BY <2>1
      <4> HIDE DEF i, j
      <4>2. /\ Rank(<<i + 1, j + 1>>) < (Len(b) + 1 - i) + (Len(t) + 1 - j)
            /\ Rank(<<i + 1, j>>) < (Len(b) + 1 - i) + (Len(t) + 1 - j)
            /\ Rank(<<i, j + 1>>) < (Len(b) + 1 - i) + (Len(t) + 1 - j)
        BY <4>1
      <4>3. QED  BY <4>2 DEF i, j
    <3> HIDE DEF Rank, lcs, D
    <3>3. /\ f[<<x[1] + 1, x[2] + 1>>] = g[<<x[1] + 1, x[2] + 1>>]
          /\ f[<<x[1] + 1, x[2]>>] = g[<<x[1] + 1, x[2]>>]
          /\ f[<<x[1], x[2] + 1>>] = g[<<x[1], x[2] + 1>>]
      BY <3>1, <3>2, <1>1
    <3>4. QED  BY <3>3
  <2>4. QED  BY <2>2, <2>3
<1>2. \A x \in D : Rank(x) \in Nat
  BY DEF Cells
<1> HIDE DEF Body, Rank, D
<1>3. 0 \in S
  BY <1>2
<1>4. ASSUME NEW k \in Nat, k \in S  PROVE k + 1 \in S
  <2>1. PICK f : \A x \in D : Rank(x) < k => f[x] = Body(f, x)
    BY <1>4
  <2> DEFINE g == [x \in D |-> Body(f, x)]
  <2>2. ASSUME NEW x \in D, Rank(x) < k + 1  PROVE g[x] = Body(g, x)
    <3>1. ASSUME NEW y \in D, Rank(y) < Rank(x)  PROVE f[y] = g[y]
      BY <3>1, <2>2, <2>1, <1>2
    <3>2. QED  BY <3>1, <1>1
  <2> HIDE DEF g
  <2>3. QED  BY <2>2
<1>5. Nat \subseteq S
  <2> HIDE DEF S
  <2> QED  BY <1>3, <1>4, Induction
<1>6. PICK f : \A x \in D : Rank(x) < (Len(b) + 1) + (Len(t) + 1) => f[x] = Body(f, x)
  BY <1>5
<1> DEFINE g == [x \in D |-> Body(f, x)]
<1>7. \A x \in D : Rank(x) < (Len(b) + 1) + (Len(t) + 1)
  BY DEF D, Rank, Cells
<1>8. \A x \in D : f[x] = g[x]
  BY <1>6, <1>7
<1>9. g = [x \in D |-> Body(g, x)]
  <2>1. ASSUME NEW x \in D  PROVE Body(f, x) = Body(g, x)
    BY <1>8, <1>1
  <2>2. QED  BY <2>1
<1> HIDE DEF g
<1>10. MatchesFrom(b, t) = [x \in D |-> Body(MatchesFrom(b, t), x)]
  <2>1. MatchesFrom(b, t) = CHOOSE h : h = [x \in D |-> Body(h, x)]
    BY DEF MatchesFrom, Body, D
  <2> HIDE DEF lcs
  <2>2. QED  BY <2>1, <1>9
<1>11. ASSUME NEW x \in D  PROVE MatchesFrom(b, t)[x] = Body(MatchesFrom(b, t), x)
  BY <1>10
<1>12. ASSUME NEW x \in D  PROVE GoesOn(b, t, MatchesFrom(b, t), x)
  <2>1. x[1] \in 1..Len(b) + 1 /\ x[2] \in 1..Len(t) + 1
    BY DEF D, Cells
  <2> DEFINE F == MatchesFrom(b, t)
  <2>2. F[x] = Body(F, x)
    BY <1>11
  <2> HIDE DEF F, lcs
  <2>3. CASE x[1] > Len(b) \/ x[2] > Len(t)
    <3>1. ~Same(b, t, x)
      BY <2>1, <2>3 DEF Same
    <3>2. QED  BY <2>2, <2>3, <3>1 DEF Body, F, GoesOn
  <2>4. CASE ~(x[1] > Len(b) \/ x[2] > Len(t))
    BY <2>2, <2>4 DEF Body, F, GoesOn
  <2>5. QED  BY <2>3, <2>4
<1>13. QED  BY <1>12 DEF D

\* The matches go up in both texts, and what they match is the same line.
LEMMA MatchesRise ==
  ASSUME NEW b, NEW t, Len(b) \in Nat, Len(t) \in Nat
  PROVE  /\ Matches(b, t) \subseteq (1..Len(b)) \X (1..Len(t))
         /\ \A x \in Matches(b, t) : b[x[1]] = t[x[2]]
         /\ Rising(Matches(b, t))
<1> DEFINE D == Cells(b, t)
           F == MatchesFrom(b, t)
           Rank(x) == (Len(b) + 1 - x[1]) + (Len(t) + 1 - x[2])
           Good(x) == /\ F[x] \subseteq (x[1]..Len(b)) \X (x[2]..Len(t))
                      /\ \A y \in F[x] : b[y[1]] = t[y[2]]
                      /\ Rising(F[x])
           G == {k \in Nat : \A x \in D : Rank(x) < k => Good(x)}
<1>1. ASSUME NEW x \in D, \A y \in D : Rank(y) < Rank(x) => Good(y)
      PROVE  Good(x)
  <2>0. GoesOn(b, t, F, x)
    BY MatchesFromIs
  <2> DEFINE i == x[1]
             j == x[2]
  <2>1. i \in 1..Len(b) + 1 /\ j \in 1..Len(t) + 1 /\ x = <<i, j>>
    BY DEF Cells
  <2>2. CASE i > Len(b) \/ j > Len(t)
    <3>1. F[x] = {}
      BY <2>0, <2>2 DEF GoesOn
    <3>2. QED  BY <3>1 DEF Rising
  <2>3. CASE ~(i > Len(b) \/ j > Len(t))
    <3>1. /\ <<i + 1, j + 1>> \in D
          /\ <<i + 1, j>> \in D
          /\ <<i, j + 1>> \in D
      BY <2>1, <2>3 DEF Cells
    <3>2. /\ Rank(<<i + 1, j + 1>>) < Rank(x)
          /\ Rank(<<i + 1, j>>) < Rank(x)
          /\ Rank(<<i, j + 1>>) < Rank(x)
      <4> HIDE DEF i, j, D
      <4>1. Rank(x) = (Len(b) + 1 - i) + (Len(t) + 1 - j)
        BY DEF i, j
      <4>2. /\ Rank(<<i + 1, j + 1>>) < (Len(b) + 1 - i) + (Len(t) + 1 - j)
            /\ Rank(<<i + 1, j>>) < (Len(b) + 1 - i) + (Len(t) + 1 - j)
            /\ Rank(<<i, j + 1>>) < (Len(b) + 1 - i) + (Len(t) + 1 - j)
        BY <2>1
      <4>3. QED  BY <4>1, <4>2
    <3>3. Good(<<i + 1, j + 1>>) /\ Good(<<i + 1, j>>) /\ Good(<<i, j + 1>>)
      <4> HIDE DEF Rank, Good, D, i, j
      <4>1. QED  BY <3>1, <3>2, <1>1
    <3>4. CASE F[x] = F[<<i + 1, j>>]
      <4>1. /\ F[x] \subseteq ((i + 1)..Len(b)) \X (j..Len(t))
            /\ \A y \in F[x] : b[y[1]] = t[y[2]]
            /\ Rising(F[x])
        BY <3>3, <3>4
      <4> HIDE DEF F
      <4>2. QED  BY <4>1, <2>1
    <3>5. CASE F[x] = F[<<i, j + 1>>]
      <4>1. /\ F[x] \subseteq (i..Len(b)) \X ((j + 1)..Len(t))
            /\ \A y \in F[x] : b[y[1]] = t[y[2]]
            /\ Rising(F[x])
        BY <3>3, <3>5
      <4> HIDE DEF F
      <4>2. QED  BY <4>1, <2>1
    <3>6. CASE Same(b, t, x) /\ F[x] = {x} \union F[<<i + 1, j + 1>>]
      <4> DEFINE P == F[<<i + 1, j + 1>>]
      <4>1. /\ P \subseteq ((i + 1)..Len(b)) \X ((j + 1)..Len(t))
            /\ \A y \in P : b[y[1]] = t[y[2]]
            /\ Rising(P)
        BY <3>3
      <4>2. F[x] = {x} \union P /\ b[i] = t[j]
        BY <3>6 DEF Same
      <4> HIDE DEF P, F
      <4>3. F[x] \subseteq (i..Len(b)) \X (j..Len(t))
        BY <4>1, <4>2, <2>1, <2>3
      <4>4. \A y \in F[x] : b[y[1]] = t[y[2]]
        BY <4>1, <4>2
      <4>5. Rising(F[x])
        <5>1. \A y \in P : y[1] > i /\ y[2] > j /\ y[1] \in Int /\ y[2] \in Int
          BY <4>1, <2>1
        <5>2. QED  BY <5>1, <4>1, <4>2, <2>1 DEF Rising
      <4>6. QED  BY <4>3, <4>4, <4>5
    <3>7. \/ F[x] = F[<<i + 1, j>>]
          \/ F[x] = F[<<i, j + 1>>]
          \/ Same(b, t, x) /\ F[x] = {x} \union F[<<i + 1, j + 1>>]
      <4> HIDE DEF F
      <4>1. QED  BY <2>0, <2>3 DEF GoesOn
    <3>8. QED  BY <3>4, <3>5, <3>6, <3>7
  <2>4. QED  BY <2>2, <2>3
<1>2. \A x \in D : Rank(x) \in Nat
  BY DEF Cells
<1> HIDE DEF Good, Rank, D
<1>3. 0 \in G
  BY <1>2
<1>4. ASSUME NEW k \in Nat, k \in G  PROVE k + 1 \in G
  <2>1. \A x \in D : Rank(x) < k => Good(x)
    BY <1>4
  <2>2. ASSUME NEW x \in D, Rank(x) < k + 1  PROVE Good(x)
    <3>1. ASSUME NEW y \in D, Rank(y) < Rank(x)  PROVE Good(y)
      BY <3>1, <2>2, <2>1, <1>2
    <3>2. QED  BY <3>1, <1>1
  <2>3. QED  BY <2>2
<1>5. Nat \subseteq G
  <2> HIDE DEF G
  <2> QED  BY <1>3, <1>4, Induction
<1>6. <<1, 1>> \in D
  BY DEF D, Cells
<1>7. Good(<<1, 1>>)
  <2>1. Rank(<<1, 1>>) \in Nat /\ Rank(<<1, 1>>) + 1 \in G
    BY <1>2, <1>5, <1>6
  <2>2. QED  BY <2>1, <1>6
<1>8. QED  BY <1>7 DEF Good, F, Matches

-----------------------------------------------------------------------------
(* The edits between two texts *)

------------------------------------------------------------------------------
(* The edits between two texts *)

\* The edits of a base of n lines: they replace something by something else.
AnEdit(n, S) == {e \in [start : 0..n, end : 0..n, replacement : Seq(S)] :
                 e.start <= e.end /\ (e.start < e.end \/ e.replacement # <<>>)}

EditSet(E, n, S) == E \subseteq AnEdit(n, S)

\* Between two edits a line is kept.
Separate(E) == \A e, f \in E : e = f \/ e.end < f.start \/ f.end < e.start

\* What is put behind the first p lines, and whether the next line is taken out.
PutIn(E, p) == IF \E e \in E : e.start = p THEN (CHOOSE e \in E : e.start = p).replacement
             ELSE <<>>
Taken(E, p) == \E e \in E : e.start <= p /\ p < e.end

\* The text t is b with the edits E: w[p] lines of t come from the first p lines of b.
Rewrites(b, t, E, w) ==
  /\ w \in [0..Len(b) -> Nat] /\ w[0] = 0
  /\ \A p \in 0..Len(b) :
       /\ w[p] + Len(PutIn(E, p)) <= Len(t)
       /\ \A k \in 1..Len(PutIn(E, p)) : t[w[p] + k] = PutIn(E, p)[k]
       /\ p = Len(b) => w[p] + Len(PutIn(E, p)) = Len(t)
       /\ p < Len(b) /\ Taken(E, p) => w[p + 1] = w[p] + Len(PutIn(E, p))
       /\ p < Len(b) /\ ~Taken(E, p) =>
            /\ w[p + 1] = w[p] + Len(PutIn(E, p)) + 1 /\ w[p + 1] <= Len(t)
            /\ t[w[p + 1]] = b[p + 1]

\* The anchors go up from the beginnings to the ends.
LEMMA AnchorsRise ==
  ASSUME NEW b, NEW t, Len(b) \in Nat, Len(t) \in Nat
  PROVE  /\ Anchors(b, t) \subseteq (0..Len(b) + 1) \X (0..Len(t) + 1)
         /\ Rising(Anchors(b, t))
         /\ <<0, 0>> \in Anchors(b, t) /\ <<Len(b) + 1, Len(t) + 1>> \in Anchors(b, t)
<1> DEFINE M == Matches(b, t)
           m == Len(t)
           n == Len(b)
<1>1. /\ M \subseteq (1..n) \X (1..m)
      /\ \A x \in M : b[x[1]] = t[x[2]]
      /\ Rising(M)
  BY MatchesRise
<1>2. Anchors(b, t) = M \union {<<0, 0>>, <<n + 1, m + 1>>}
  BY DEF Anchors
<1> HIDE DEF M
<1>3. Anchors(b, t) \subseteq (0..n + 1) \X (0..m + 1)
  BY <1>1, <1>2
<1>4. Rising(Anchors(b, t))
  <2>1. ASSUME NEW x \in Anchors(b, t), NEW y \in Anchors(b, t)
        PROVE  (x[1] < y[1] <=> x[2] < y[2]) /\ (x[1] = y[1] => x = y)
    <3>1. ASSUME NEW z \in M
          PROVE  /\ z[1] \in Int /\ z[2] \in Int
                 /\ 0 < z[1] /\ z[1] < n + 1 /\ 0 < z[2] /\ z[2] < m + 1
      BY <1>1
    <3> HIDE DEF n, m
    <3>2. CASE x \in M /\ y \in M
      BY <3>2, <1>1 DEF Rising
    <3>3. CASE x = <<0, 0>>
      BY <3>1, <3>3, <1>2 DEF n, m
    <3>4. CASE x = <<n + 1, m + 1>>
      BY <3>1, <3>4, <1>2 DEF n, m
    <3>5. CASE y = <<0, 0>>
      BY <3>1, <3>5, <1>2 DEF n, m
    <3>6. CASE y = <<n + 1, m + 1>>
      BY <3>1, <3>6, <1>2 DEF n, m
    <3>7. QED  BY <3>2, <3>3, <3>4, <3>5, <3>6, <1>2
  <2>2. QED  BY <2>1 DEF Rising
<1>5. QED  BY <1>2, <1>3, <1>4

\* An anchor inside the base is a match.
LEMMA AnchorsMatch ==
  ASSUME NEW b, NEW t, Len(b) \in Nat, Len(t) \in Nat,
         NEW x \in Anchors(b, t), x[1] \in 1..Len(b)
  PROVE  x[2] \in 1..Len(t) /\ b[x[1]] = t[x[2]]
<1>1. \A y \in Matches(b, t) : b[y[1]] = t[y[2]]
  BY MatchesRise
<1>2. Matches(b, t) \subseteq (1..Len(b)) \X (1..Len(t))
  BY MatchesRise
<1>3. x \in Matches(b, t)
  BY DEF Anchors
<1>4. QED  BY <1>1, <1>2, <1>3

\* Anchors that go up from the beginnings to the ends.
Climbs(A, n, m) == /\ A \subseteq (0..n + 1) \X (0..m + 1) /\ Rising(A)
                   /\ <<0, 0>> \in A /\ <<n + 1, m + 1>> \in A

\* Each line has a next anchor and a last one, and so has each anchor but the end.
LEMMA AnchorsAround ==
  ASSUME NEW n \in Nat, NEW m \in Nat, NEW A, Climbs(A, n, m), NEW p \in 0..n
  PROVE  /\ \E y \in A : y[1] > p /\ \A z \in A : z[1] > p => z[1] >= y[1]
         /\ \E x \in A : x[1] <= p /\ \A z \in A : z[1] <= p => z[1] <= x[1]
<1> /\ A \subseteq (0..n + 1) \X (0..m + 1)
    /\ <<0, 0>> \in A /\ <<n + 1, m + 1>> \in A
  BY DEF Climbs
<1>0. \A z \in A : z[1] \in 0..n + 1
  OBVIOUS
<1>1. \E y \in A : y[1] > p /\ \A z \in A : z[1] > p => z[1] >= y[1]
  <2> DEFINE T == {i \in Nat : i > p /\ \E y \in A : y[1] = i}
  <2>1. n + 1 \in T
    <3>1. <<n + 1, m + 1>>[1] = n + 1
      OBVIOUS
    <3>2. QED  BY <3>1
  <2>2. PICK i \in T : \A j \in T : i <= j
    <3> HIDE DEF T
    <3>1. T \in SUBSET Nat
      BY DEF T
    <3>2. QED  BY <2>1, <3>1, LeastNumber
  <2>3. PICK y \in A : y[1] = i
    OBVIOUS
  <2>4. ASSUME NEW z \in A, z[1] > p  PROVE z[1] >= y[1]
    <3>1. z[1] \in T
      BY <1>0, <2>4
    <3>2. QED  BY <3>1, <2>2, <2>3
  <2>5. QED  BY <2>2, <2>3, <2>4
<1>2. \E x \in A : x[1] <= p /\ \A z \in A : z[1] <= p => z[1] <= x[1]
  <2> DEFINE T == {i \in Nat : \E x \in A : x[1] <= p /\ i = p - x[1]}
  <2>1. p \in T
    <3>1. <<0, 0>>[1] = 0
      OBVIOUS
    <3>2. p = p - <<0, 0>>[1] /\ <<0, 0>>[1] <= p
      BY <3>1
    <3>3. QED  BY <3>2
  <2>2. PICK i \in T : \A j \in T : i <= j
    <3> HIDE DEF T
    <3>1. T \in SUBSET Nat
      BY DEF T
    <3>2. QED  BY <2>1, <3>1, LeastNumber
  <2>3. PICK x \in A : x[1] <= p /\ i = p - x[1]
    OBVIOUS
  <2>4. ASSUME NEW z \in A, z[1] <= p  PROVE z[1] <= x[1]
    <3>1. p - z[1] \in T
      BY <1>0, <2>4
    <3>2. QED  BY <3>1, <2>2, <2>3, <1>0
  <2>5. QED  BY <2>3, <2>4
<1>3. QED  BY <1>1, <1>2

\* A position of the base is between two anchors that follow each other.
LEMMA AnchorsBetween ==
  ASSUME NEW n \in Nat, NEW m \in Nat, NEW A, Climbs(A, n, m), NEW p \in 0..n
  PROVE  \E x, y \in A : /\ x[1] <= p /\ p < y[1] /\ x[2] < y[2]
                         /\ \A z \in A : z[1] <= x[1] \/ y[1] <= z[1]
                         /\ Following(A, x) = y
<1>0. \A z \in A : z[1] \in 0..n + 1 /\ z[2] \in 0..m + 1
  BY DEF Climbs
<1> Rising(A)
  BY DEF Climbs
<1>1. PICK y \in A : y[1] > p /\ \A z \in A : z[1] > p => z[1] >= y[1]
  BY AnchorsAround
<1>2. PICK x \in A : x[1] <= p /\ \A z \in A : z[1] <= p => z[1] <= x[1]
  BY AnchorsAround
<1>3. x[1] < y[1]
  BY <1>0, <1>1, <1>2
<1>4. x[2] < y[2]
  BY <1>3 DEF Rising
<1>5. ASSUME NEW z \in A  PROVE z[1] <= x[1] \/ y[1] <= z[1]
  BY <1>0, <1>1, <1>2
<1>6. Following(A, x) = y
  <2> DEFINE First(v) == v[1] > x[1] /\ \A z \in A : z[1] > x[1] => z[1] >= v[1]
  <2>1. First(y)
    BY <1>0, <1>3, <1>5
  <2>2. ASSUME NEW v \in A, First(v)  PROVE v = y
    <3>1. v[1] >= y[1] /\ y[1] >= v[1]
      BY <1>0, <2>2, <2>1
    <3>2. v[1] = y[1]
      BY <1>0, <3>1
    <3>3. QED  BY <3>2 DEF Rising
  <2>3. Following(A, x) = CHOOSE v \in A : First(v)
    BY DEF Following
  <2> HIDE DEF First
  <2>4. QED  BY <2>1, <2>2, <2>3
<1>7. QED  BY <1>1, <1>2, <1>4, <1>5, <1>6

\* The edit e is what lies between two anchors.
LiesBetween(e, S, t, x, y) ==
  /\ e.start = x[1] /\ e.end = y[1] - 1 /\ e.replacement \in Seq(S)
  /\ Len(e.replacement) = y[2] - 1 - x[2]
  /\ \A k \in 1..(y[2] - 1 - x[2]) : e.replacement[k] = t[x[2] + k]

\* What lies between two anchors.
LEMMA GapIs ==
  ASSUME NEW S, NEW t \in Seq(S), NEW x \in Int \X Nat, NEW y \in Int \X (0..Len(t) + 1),
         x[2] < y[2]
  PROVE  LiesBetween(Gap(t, x, y), S, t, x, y)
<1> DEFINE i == x[2] + 1
           j == y[2] - 1
           r == SubSeq(t, i, j)
<1>1. i \in Int /\ j \in Int /\ 1 <= i /\ i <= j + 1 /\ j <= Len(t) /\ Len(t) \in Nat
  OBVIOUS
<1>2. /\ Gap(t, x, y).start = x[1] /\ Gap(t, x, y).end = y[1] - 1
      /\ Gap(t, x, y).replacement = r
  BY DEF Gap
<1> HIDE DEF i, j
<1>3. \A k \in i..j : t[k] \in S
  BY <1>1
<1>4. r \in Seq(S) /\ (Len(r) = IF i <= j THEN j - i + 1 ELSE 0)
      /\ \A k \in 1..(j - i + 1) : r[k] = t[i + k - 1]
  BY <1>1, <1>3, SubSeqProperties
<1> HIDE DEF r
<1>5. Len(r) = j - i + 1
  BY <1>1, <1>4
<1>6. j - i + 1 = y[2] - 1 - x[2]
  BY DEF i, j
<1>7. \A k \in 1..(j - i + 1) : r[k] = t[x[2] + k]
  <2>1. \A k \in 1..(j - i + 1) : i + k - 1 = x[2] + k
    BY DEF i
  <2>2. QED  BY <2>1, <1>4
<1>8. QED  BY <1>2, <1>4, <1>5, <1>6, <1>7 DEF LiesBetween

\* Anchors that follow each other.
Consecutive(A, x, y) == /\ x \in A /\ y \in A /\ x[1] < y[1] /\ x[2] < y[2]
                        /\ \A z \in A : z[1] <= x[1] \/ y[1] <= z[1]

\* The edits are the gaps between anchors that follow each other, but for the empty ones.
LEMMA EditsAreGaps ==
  ASSUME NEW b, NEW t, Len(b) \in Nat, Len(t) \in Nat
  PROVE  /\ \A e \in Edits(b, t) : /\ e.start < e.end \/ e.replacement # <<>>
                                   /\ \E x, y \in Anchors(b, t) :
                                        Consecutive(Anchors(b, t), x, y) /\ e = Gap(t, x, y)
         /\ \A p \in 0..Len(b) : \E x, y \in Anchors(b, t) :
              /\ Consecutive(Anchors(b, t), x, y) /\ x[1] <= p /\ p < y[1]
              /\ \/ Gap(t, x, y) \in Edits(b, t)
                 \/ /\ ~(Gap(t, x, y).start < Gap(t, x, y).end)
                    /\ Gap(t, x, y).replacement = <<>>
<1> DEFINE A == Anchors(b, t)
           n == Len(b)
           E == Edits(b, t)
<1>1. /\ A \in SUBSET ((0..n + 1) \X (0..Len(t) + 1)) /\ Rising(A)
      /\ <<0, 0>> \in A /\ <<n + 1, Len(t) + 1>> \in A
  BY AnchorsRise
<1>2. E = {e \in {Gap(t, x, Following(A, x)) : x \in {x \in A : x[1] <= n}} :
             e.start < e.end \/ e.replacement # <<>>}
  BY DEF Edits
<1> HIDE DEF A, E
<1>3. ASSUME NEW p \in 0..n
      PROVE  \E x, y \in A : Consecutive(A, x, y) /\ x[1] <= p /\ p < y[1] /\ Following(A, x) = y
  <2>1. PICK x \in A, y \in A :
                   /\ x[1] <= p /\ p < y[1] /\ x[2] < y[2]
                   /\ \A z \in A : z[1] <= x[1] \/ y[1] <= z[1]
                   /\ Following(A, x) = y
    <3>1. Climbs(A, n, Len(t)) /\ n \in Nat
      BY <1>1 DEF Climbs
    <3> HIDE DEF n
    <3>2. QED  BY <3>1, AnchorsBetween
  <2>2. x[1] < y[1]
    BY <2>1, <1>1
  <2>3. QED  BY <2>1, <2>2 DEF Consecutive
<1>4. ASSUME NEW e \in E
      PROVE  /\ e.start < e.end \/ e.replacement # <<>>
             /\ \E x, y \in A : Consecutive(A, x, y) /\ e = Gap(t, x, y)
  <2>1. PICK v \in A : v[1] <= n /\ e = Gap(t, v, Following(A, v))
    BY <1>2
  <2>2. v[1] \in 0..n
    BY <2>1, <1>1
  <2>3. PICK x \in A, y \in A :
          Consecutive(A, x, y) /\ x[1] <= v[1] /\ v[1] < y[1] /\ Following(A, x) = y
    BY <2>2, <1>3
  <2>4. v[1] <= x[1]
    <3>1. v[1] <= x[1] \/ y[1] <= v[1]
      BY <2>3 DEF Consecutive
    <3>2. QED  BY <3>1, <2>3, <1>1
  <2>5. v = x
    <3>1. v[1] = x[1]
      BY <2>3, <2>4, <1>1
    <3>2. QED  BY <3>1, <1>1 DEF Rising
  <2>6. QED  BY <2>1, <2>3, <2>5, <1>2
<1>5. ASSUME NEW p \in 0..n
      PROVE  \E x, y \in A :
               /\ Consecutive(A, x, y) /\ x[1] <= p /\ p < y[1]
               /\ \/ Gap(t, x, y) \in E
                  \/ ~(Gap(t, x, y).start < Gap(t, x, y).end) /\ Gap(t, x, y).replacement = <<>>
  <2>1. PICK x \in A, y \in A : Consecutive(A, x, y) /\ x[1] <= p /\ p < y[1] /\ Following(A, x) = y
    BY <1>3
  <2>2. x[1] <= n
    BY <2>1, <1>1
  <2>3. QED  BY <2>1, <2>2, <1>2
<1>6. QED  BY <1>4, <1>5 DEF A, E

\* At most one edit starts at each place.
UniqueStarts(E) == \A e, f \in E : e.start = f.start => e = f

\* What is put behind a line is the replacement of the only edit that starts there.
LEMMA PutIs ==
  ASSUME NEW E, UniqueStarts(E), NEW p
  PROVE  /\ \A e \in E : e.start = p => PutIn(E, p) = e.replacement
         /\ (\A e \in E : e.start # p) => PutIn(E, p) = <<>>
BY DEF PutIn, UniqueStarts

\* The edits between two texts replace something by something else, are separate, and make
\* the one text of the other.
LEMMA EditsRewrite ==
  ASSUME NEW S, NEW b \in Seq(S), NEW t \in Seq(S)
  PROVE  /\ Edits(b, t) \subseteq AnEdit(Len(b), S)
         /\ Separate(Edits(b, t))
         /\ \E w : Rewrites(b, t, Edits(b, t), w)
<1> DEFINE n == Len(b)
           m == Len(t)
           A == Anchors(b, t)
           E == Edits(b, t)
<1>0. n \in Nat /\ m \in Nat
  OBVIOUS
<1>1. /\ A \subseteq (0..n + 1) \X (0..m + 1)
      /\ Rising(A)
      /\ <<0, 0>> \in A /\ <<n + 1, m + 1>> \in A
      /\ \A x \in A : x[1] \in 1..n => x[2] \in 1..m /\ b[x[1]] = t[x[2]]
  <2>1. Len(b) \in Nat /\ Len(t) \in Nat
    BY <1>0
  <2>2. A \subseteq (0..n + 1) \X (0..m + 1)
    BY <2>1, AnchorsRise
  <2>3. Rising(A)
    BY <2>1, AnchorsRise
  <2>4. <<0, 0>> \in A /\ <<n + 1, m + 1>> \in A
    BY <2>1, AnchorsRise
  <2>5. \A x \in A : x[1] \in 1..n => x[2] \in 1..m /\ b[x[1]] = t[x[2]]
    <3> SUFFICES ASSUME NEW x \in A, x[1] \in 1..n
                 PROVE  x[2] \in 1..m /\ b[x[1]] = t[x[2]]
      OBVIOUS
    <3>1. x \in Anchors(b, t) /\ x[1] \in 1..Len(b)
      OBVIOUS
    <3> HIDE DEF A, E, n, m
    <3>2. x[2] \in 1..Len(t) /\ b[x[1]] = t[x[2]]
      BY <2>1, <3>1, AnchorsMatch
    <3>3. QED  BY <3>2 DEF m
  <2> HIDE DEF A
  <2>6. QED  BY <2>2, <2>3, <2>4, <2>5
<1>2. ASSUME NEW e \in E
      PROVE  /\ e.start < e.end \/ e.replacement # <<>>
             /\ \E x, y \in A : Consecutive(A, x, y) /\ e = Gap(t, x, y)
  BY <1>0, EditsAreGaps
<1>3. ASSUME NEW p \in 0..n
      PROVE  \E x, y \in A :
               /\ Consecutive(A, x, y) /\ x[1] <= p /\ p < y[1]
               /\ \/ Gap(t, x, y) \in E
                  \/ ~(Gap(t, x, y).start < Gap(t, x, y).end) /\ Gap(t, x, y).replacement = <<>>
  BY <1>0, EditsAreGaps
<1>4. ASSUME NEW x, NEW y, Consecutive(A, x, y)
      PROVE  /\ x[1] \in 0..n /\ x[2] \in 0..m /\ y[1] \in 1..n + 1 /\ y[2] \in 1..m + 1
             /\ Gap(t, x, y).start = x[1] /\ Gap(t, x, y).end = y[1] - 1
             /\ Gap(t, x, y).replacement \in Seq(S)
             /\ Len(Gap(t, x, y).replacement) = y[2] - 1 - x[2]
             /\ \A k \in 1..(y[2] - 1 - x[2]) : Gap(t, x, y).replacement[k] = t[x[2] + k]
             /\ Gap(t, x, y) = [start |-> x[1], end |-> y[1] - 1,
                                replacement |-> Gap(t, x, y).replacement]
  <2>1. x \in (0..n + 1) \X (0..m + 1) /\ y \in (0..n + 1) \X (0..m + 1)
        /\ x[1] < y[1] /\ x[2] < y[2]
    BY <1>1, <1>4 DEF Consecutive
  <2> HIDE DEF A, E
  <2>2. /\ x \in Int \X Nat /\ y \in Int \X (0..m + 1)
        /\ x[1] \in 0..n /\ x[2] \in 0..m /\ y[1] \in 1..n + 1 /\ y[2] \in 1..m + 1
    BY <2>1, <1>0
  <2>3. Gap(t, x, y) = [start |-> x[1], end |-> y[1] - 1,
                        replacement |-> Gap(t, x, y).replacement]
    BY DEF Gap
  <2>4. y \in Int \X (0..Len(t) + 1) /\ x[2] < y[2]
    BY <2>1, <2>2
  <2>5. LiesBetween(Gap(t, x, y), S, t, x, y)
    <3> HIDE DEF n, m
    <3>1. QED  BY <2>2, <2>4, GapIs
  <2>6. QED  BY <2>2, <2>3, <2>5 DEF LiesBetween
<1> HIDE DEF A, E
<1>5. E \subseteq AnEdit(n, S)
  <2> SUFFICES ASSUME NEW e \in E  PROVE e \in AnEdit(n, S)
    OBVIOUS
  <2>1. PICK x \in A, y \in A : Consecutive(A, x, y) /\ e = Gap(t, x, y)
    BY <1>2
  <2>2. x[1] < y[1]
    BY <2>1 DEF Consecutive
  <2>3. QED  BY <1>2, <1>4, <2>1, <2>2 DEF AnEdit
<1>6. Separate(E)
  <2> SUFFICES ASSUME NEW e \in E, NEW f \in E
               PROVE  e = f \/ e.end < f.start \/ f.end < e.start
    BY DEF Separate
  <2>1. PICK x \in A, y \in A : Consecutive(A, x, y) /\ e = Gap(t, x, y)
    BY <1>2
  <2>2. PICK v \in A, w \in A : Consecutive(A, v, w) /\ f = Gap(t, v, w)
    BY <1>2
  <2>3. e.start = x[1] /\ e.end = y[1] - 1 /\ f.start = v[1] /\ f.end = w[1] - 1
        /\ x[1] \in Int /\ y[1] \in Int /\ v[1] \in Int /\ w[1] \in Int
    BY <2>1, <2>2, <1>4
  <2>4. CASE x[1] = v[1]
    <3>1. x = v
      BY <2>4, <1>1 DEF Rising
    <3>2. y[1] = w[1]
      BY <2>1, <2>2, <2>3, <3>1 DEF Consecutive
    <3>3. y = w
      BY <3>2, <1>1 DEF Rising
    <3>4. QED  BY <2>1, <2>2, <3>1, <3>3
  <2>5. CASE x[1] < v[1]
    BY <2>1, <2>2, <2>3, <2>5 DEF Consecutive
  <2>6. CASE v[1] < x[1]
    BY <2>1, <2>2, <2>3, <2>6 DEF Consecutive
  <2>7. QED  BY <2>3, <2>4, <2>5, <2>6
<1> DEFINE Between(p, x, y) == Consecutive(A, x, y) /\ x[1] <= p /\ p < y[1]
           Sound(x, y) == \/ Gap(t, x, y) \in E
                          \/ /\ ~(Gap(t, x, y).start < Gap(t, x, y).end)
                             /\ Gap(t, x, y).replacement = <<>>
           At0(p, v) == \E x, y \in A : /\ Between(p, x, y) /\ Sound(x, y)
                                       /\ v = IF x[1] = p THEN x[2] ELSE y[2] - 1
           w == [p \in 0..n |-> CHOOSE v \in Nat : At0(p, v)]
<1>7. ASSUME NEW p \in 0..n  PROVE w[p] \in Nat /\ At0(p, w[p])
  <2>1. PICK x \in A, y \in A : Between(p, x, y) /\ Sound(x, y)
    BY <1>3
  <2> DEFINE v == IF x[1] = p THEN x[2] ELSE y[2] - 1
  <2>2. v \in Nat
    BY <2>1, <1>4
  <2>3. At0(p, v)
    BY <2>1
  <2> HIDE DEF At0, v
  <2>4. QED  BY <2>2, <2>3
<1> HIDE DEF w
<1>8. ASSUME NEW p \in Int, NEW x \in A, NEW y \in A, Between(p, x, y),
             NEW v \in A, NEW z \in A, Between(p, v, z)
      PROVE  v = x /\ z = y
  <2>0. x[1] \in Int /\ y[1] \in Int /\ v[1] \in Int /\ z[1] \in Int
    BY <1>4, <1>8
  <2>1. /\ v[1] <= x[1] \/ y[1] <= v[1]
        /\ x[1] <= v[1] \/ z[1] <= x[1]
        /\ z[1] <= x[1] \/ y[1] <= z[1]
        /\ y[1] <= v[1] \/ z[1] <= y[1]
    BY <1>8 DEF Consecutive
  <2>2. x[1] = v[1] /\ y[1] = z[1]
    BY <2>0, <2>1, <1>8
  <2>3. QED  BY <2>2, <1>1 DEF Rising
<1>9. UniqueStarts(E)
  <2> SUFFICES ASSUME NEW e \in E, NEW f \in E, e.start = f.start  PROVE e = f
    BY DEF UniqueStarts
  <2>1. e \in AnEdit(n, S) /\ f \in AnEdit(n, S)
    BY <1>5
  <2>2. e.start \in Int /\ e.end \in Int /\ f.end \in Int /\ e.start <= e.end /\ f.start <= f.end
    BY <2>1 DEF AnEdit
  <2>3. QED  BY <1>6, <2>2 DEF Separate
<1>10. ASSUME NEW p \in 0..n, NEW x \in A, NEW y \in A, Between(p, x, y), Sound(x, y)
       PROVE  /\ x[1] = p => PutIn(E, p) = Gap(t, x, y).replacement
              /\ x[1] # p => PutIn(E, p) = <<>>
              /\ Taken(E, p) <=> p + 1 < y[1]
  <2>1. ASSUME NEW e \in E, e.start <= p, p <= e.end
        PROVE  e = Gap(t, x, y) /\ (e.start < e.end \/ e.replacement # <<>>)
    <3>1. PICK v \in A, z \in A : Consecutive(A, v, z) /\ e = Gap(t, v, z)
      BY <1>2
    <3>2. Between(p, v, z)
      BY <3>1, <1>4, <2>1
    <3>3. v = x /\ z = y
      BY <3>2, <1>8, <1>10
    <3>4. QED  BY <3>1, <3>3, <1>2
  <2>2. \A e \in E : e.start \in Int /\ e.end \in Int /\ e.start <= e.end
    BY <1>5 DEF AnEdit
  <2>3. Gap(t, x, y).start = x[1] /\ Gap(t, x, y).end = y[1] - 1 /\ x[1] \in Int /\ y[1] \in Int
    BY <1>4, <1>10
  <2>4. \A e \in E : e.start = p => e = Gap(t, x, y) /\ (e.start < e.end \/ e.replacement # <<>>)
    BY <2>1, <2>2
  <2>5. Taken(E, p) <=> p + 1 < y[1]
    <3>1. ASSUME NEW e \in E, e.start <= p, p < e.end  PROVE p + 1 < y[1]
      BY <3>1, <2>1, <2>2, <2>3
    <3>2. ASSUME p + 1 < y[1]  PROVE Taken(E, p)
      BY <3>2, <2>3, <1>10 DEF Taken
    <3>3. QED  BY <3>1, <3>2 DEF Taken
  <2>6. CASE \E e \in E : e.start = p
    <3>1. PICK e \in E : e.start = p
      BY <2>6
    <3>2. PutIn(E, p) = e.replacement
      BY <3>1, <1>9, PutIs
    <3>3. QED  BY <3>1, <3>2, <2>1, <2>2, <2>3, <2>4, <1>10, <2>5
  <2>7. CASE ~\E e \in E : e.start = p
    <3>1. PutIn(E, p) = <<>>
      BY <2>7, <1>9, PutIs
    <3>2. QED  BY <3>1, <2>3, <2>5, <2>7, <1>10
  <2>8. QED  BY <2>6, <2>7
<1>11. ASSUME NEW p \in 0..n
       PROVE  /\ w[p] + Len(PutIn(E, p)) <= m
              /\ \A k \in 1..Len(PutIn(E, p)) : t[w[p] + k] = PutIn(E, p)[k]
              /\ p = n => w[p] + Len(PutIn(E, p)) = m
              /\ p < n /\ Taken(E, p) => w[p + 1] = w[p] + Len(PutIn(E, p))
              /\ p < n /\ ~Taken(E, p) =>
                   /\ w[p + 1] = w[p] + Len(PutIn(E, p)) + 1 /\ w[p + 1] <= m
                   /\ t[w[p + 1]] = b[p + 1]
  <2>1. PICK x \in A, y \in A : /\ Between(p, x, y) /\ Sound(x, y)
                              /\ w[p] = IF x[1] = p THEN x[2] ELSE y[2] - 1
    BY <1>7
  <2>2. /\ x[1] \in 0..n /\ x[2] \in 0..m /\ y[1] \in 1..n + 1 /\ y[2] \in 1..m + 1
        /\ Len(Gap(t, x, y).replacement) = y[2] - 1 - x[2]
        /\ \A k \in 1..(y[2] - 1 - x[2]) : Gap(t, x, y).replacement[k] = t[x[2] + k]
    BY <2>1, <1>4
  <2>3. /\ x[1] = p => PutIn(E, p) = Gap(t, x, y).replacement
        /\ x[1] # p => PutIn(E, p) = <<>>
        /\ Taken(E, p) <=> p + 1 < y[1]
    BY <2>1, <1>10
  <2>4. /\ w[p] + Len(PutIn(E, p)) = y[2] - 1
        /\ \A k \in 1..Len(PutIn(E, p)) : t[w[p] + k] = PutIn(E, p)[k]
    <3>1. CASE x[1] = p
      <4>1. w[p] = x[2] /\ PutIn(E, p) = Gap(t, x, y).replacement
        BY <2>1, <2>3, <3>1
      <4> HIDE DEF Between, Sound
      <4>2. QED  BY <4>1, <2>2
    <3>2. CASE x[1] # p
      <4>1. w[p] = y[2] - 1 /\ PutIn(E, p) = <<>>
        BY <2>1, <2>3, <3>2
      <4>2. Len(<<>>) = 0
        OBVIOUS
      <4> HIDE DEF Between, Sound
      <4>3. QED  BY <4>1, <4>2, <2>2
    <3>3. QED  BY <3>1, <3>2
  <2>6. ASSUME p = n  PROVE w[p] + Len(PutIn(E, p)) = m
    <3>1. y[1] = <<n + 1, m + 1>>[1]
      BY <2>1, <2>2, <2>6
    <3>2. y = <<n + 1, m + 1>>
      BY <3>1, <1>1 DEF Rising
    <3>3. QED  BY <3>2, <2>4, <1>0
  <2>7. ASSUME p < n, Taken(E, p)  PROVE w[p + 1] = y[2] - 1
    <3>0. p + 1 \in 0..n
      BY <2>7
    <3>1. PICK v \in A, z \in A : /\ Between(p + 1, v, z)
                                /\ w[p + 1] = IF v[1] = p + 1 THEN v[2] ELSE z[2] - 1
      <4>1. At0(p + 1, w[p + 1])
        <5> HIDE DEF At0
        <5> QED  BY <3>0, <1>7
      <4>2. QED  BY <4>1
    <3>2. Between(p + 1, x, y)
      BY <2>1, <2>2, <2>3, <2>7
    <3>3. v = x /\ z = y
      <4>1. p + 1 \in Int
        OBVIOUS
      <4>2. QED  BY <3>1, <3>2, <4>1, <1>8
    <3>4. QED  BY <3>1, <3>3, <2>1, <2>2
  <2>8. ASSUME p < n, ~Taken(E, p)
        PROVE  w[p + 1] = y[2] /\ y[2] <= m /\ t[y[2]] = b[p + 1]
    <3>0. y[1] = p + 1
      BY <2>1, <2>2, <2>3, <2>8
    <3>1. PICK v \in A, z \in A : /\ Between(p + 1, v, z)
                                /\ w[p + 1] = IF v[1] = p + 1 THEN v[2] ELSE z[2] - 1
      <4>1. At0(p + 1, w[p + 1])
        <5>1. p + 1 \in 0..n
          BY <2>8
        <5> HIDE DEF At0
        <5>2. QED  BY <5>1, <1>7
      <4>2. QED  BY <4>1
    <3>2. v[1] = p + 1
      <4>1. v[1] \in Int /\ z[1] \in Int
        BY <3>1, <1>4
      <4>2. y[1] <= v[1] \/ z[1] <= y[1]
        BY <3>1, <2>1 DEF Consecutive
      <4>3. QED  BY <3>0, <3>1, <4>1, <4>2
    <3>3. v = y
      BY <3>0, <3>2, <1>1 DEF Rising
    <3>4. y[1] \in 1..n
      BY <3>0, <2>8
    <3>5. y[2] \in 1..m /\ b[y[1]] = t[y[2]]
      BY <3>4, <1>1
    <3>6. w[p + 1] = v[2]
      BY <3>1, <3>2
    <3>7. QED  BY <3>0, <3>3, <3>5, <3>6
  <2>9. /\ w[p] + Len(PutIn(E, p)) <= m
        /\ w[p] + Len(PutIn(E, p)) + 1 = y[2]
    BY <2>2, <2>4
  <2>10. QED  BY <2>4, <2>6, <2>7, <2>8, <2>9
<1>12. w[0] = 0
  <2>1. PICK x \in A, y \in A : Between(0, x, y) /\ w[0] = IF x[1] = 0 THEN x[2] ELSE y[2] - 1
    BY <1>7
  <2>2. x[1] = <<0, 0>>[1]
    BY <2>1, <1>4
  <2>3. x = <<0, 0>>
    BY <2>2, <1>1 DEF Rising
  <2>4. QED  BY <2>1, <2>3
<1>13. w \in [0..n -> Nat]
  BY <1>7 DEF w
<1>14. Rewrites(b, t, E, w)
  BY <1>11, <1>12, <1>13 DEF Rewrites
<1>15. QED  BY <1>5, <1>6, <1>14 DEF E

-----------------------------------------------------------------------------
(* The edits of both sides put over the base *)

------------------------------------------------------------------------------
(* The edits of both sides put together: Apply *)

\* The line that follows the first p lines of b, when it is not taken out.
Stays(b, E, p) == IF p < Len(b) /\ ~Taken(E, p) THEN <<b[p + 1]>> ELSE <<>>

\* Both of them, one behind the other.
Written(b, E, p) == PutIn(E, p) \o Stays(b, E, p)

\* Nothing put before or behind a text.
LEMMA JoiningNothing ==
  ASSUME NEW S, NEW s \in Seq(S)
  PROVE  <<>> \o s = s /\ s \o <<>> = s
OBVIOUS

\* When no two edits start at the same place, a piece of the merged text is what one edit puts
\* there and then the line of the base, whoever made the edit.
LEMMA PieceIs ==
  ASSUME NEW S, NEW b \in Seq(S), NEW mine, NEW theirs, NEW E, E = mine \union theirs,
         EditSet(mine, Len(b), S), EditSet(theirs, Len(b), S), UniqueStarts(E),
         NEW p \in 0..Len(b)
  PROVE  /\ PutIn(E, p) \in Seq(S) /\ Stays(b, E, p) \in Seq(S)
         /\ Piece(b, mine, theirs, p) = Written(b, E, p)
<1> DEFINE changes == {e \in E : ~IsInsert(e)}
           put == PutIn(E, p)
           stays == Stays(b, E, p)
           first == Text(Inserted(mine, p))
           second == Text(Inserted(theirs, p) \ Inserted(mine, p))
           kept == Kept(b, E, p)
<1>1. ASSUME NEW e \in E
      PROVE  /\ e.start \in 0..Len(b) /\ e.end \in 0..Len(b) /\ e.start <= e.end
             /\ e.replacement \in Seq(S)
  BY DEF AnEdit, EditSet
<1>2. Taken(E, p) <=> \E e \in changes : e.start <= p /\ p < e.end
  <2>1. ASSUME NEW e \in E, e.start <= p, p < e.end  PROVE e \in changes
    BY <1>1, <2>1 DEF IsInsert
  <2>2. QED  BY <2>1 DEF Taken
<1>3. stays \in Seq(S)
  <2>1. CASE p < Len(b)
    <3>1. p + 1 \in 1..Len(b)
      BY <2>1
    <3>2. QED  BY <3>1 DEF Stays
  <2>2. CASE ~(p < Len(b))
    BY <2>2 DEF Stays
  <2>3. QED  BY <2>1, <2>2
<1>4. Piece(b, mine, theirs, p) = first \o second \o kept
  BY DEF Piece
<1>5. kept = IF p < Len(b) /\ ~Taken(E, p) THEN <<b[p + 1]>>
             ELSE Text({e \in changes : e.start = p})
  <2>1. kept = IF p < Len(b) /\ ~\E e \in changes : e.start <= p /\ p < e.end
               THEN <<b[p + 1]>> ELSE Text({e \in changes : e.start = p})
    BY DEF Kept
  <2>2. QED  BY <2>1, <1>2
<1> HIDE DEF first, second, kept, stays, put
<1>6. CASE \E e \in E : e.start = p
  <2>1. PICK e \in E : e.start = p
    BY <1>6
  <2>2. put = e.replacement /\ put \in Seq(S)
    <3>1. UniqueStarts(E)
      OBVIOUS
    <3>2. e.replacement \in Seq(S)
      BY <1>1
    <3>3. put = e.replacement
      BY <2>1, <3>1, PutIs DEF put
    <3>4. QED  BY <3>2, <3>3
  <2>3. Text({e}) = put
    BY <2>2, <1>1, SingleText
  <2>4. \A f \in E : f.start = p => f = e
    BY <2>1 DEF UniqueStarts
  <2>5. CASE IsInsert(e)
    <3>1. {f \in changes : f.start = p} = {}
      BY <2>4, <2>5
    <3>2. kept = stays
      BY <3>1, <1>5, EmptyText DEF stays, Stays
    <3>3. CASE e \in mine
      <4>1. Inserted(mine, p) = {e} /\ Inserted(theirs, p) \ Inserted(mine, p) = {}
        BY <2>1, <2>4, <2>5, <3>3 DEF Inserted
      <4>2. first = put /\ second = <<>>
        BY <4>1, <2>3, EmptyText DEF first, second
      <4>3. QED  BY <1>3, <1>4, <2>2, <3>2, <4>2, JoiningNothing DEF put, stays, Written
    <3>4. CASE e \notin mine
      <4>1. Inserted(mine, p) = {} /\ Inserted(theirs, p) \ Inserted(mine, p) = {e}
        BY <2>1, <2>4, <2>5, <3>4 DEF Inserted
      <4>2. first = <<>> /\ second = put
        BY <4>1, <2>3, EmptyText DEF first, second
      <4>3. QED  BY <1>3, <1>4, <2>2, <3>2, <4>2, JoiningNothing DEF put, stays, Written
    <3>5. QED  BY <3>3, <3>4
  <2>6. CASE ~IsInsert(e)
    <3>1. Inserted(mine, p) = {} /\ Inserted(theirs, p) \ Inserted(mine, p) = {}
      BY <2>4, <2>6 DEF Inserted
    <3>2. first = <<>> /\ second = <<>>
      BY <3>1, EmptyText DEF first, second
    <3>3. {f \in changes : f.start = p} = {e}
      BY <2>1, <2>4, <2>6
    <3>4. Taken(E, p)
      BY <2>1, <2>6, <1>1 DEF Taken, IsInsert
    <3>5. kept = put /\ stays = <<>>
      BY <3>3, <3>4, <1>5, <2>3 DEF stays, Stays
    <3>6. QED  BY <1>3, <1>4, <2>2, <3>2, <3>5, JoiningNothing DEF put, stays, Written
  <2>7. QED  BY <2>5, <2>6
<1>7. CASE ~\E e \in E : e.start = p
  <2>1. put = <<>>
    BY <1>7, PutIs DEF put
  <2>2. /\ Inserted(mine, p) = {} /\ Inserted(theirs, p) \ Inserted(mine, p) = {}
        /\ {f \in changes : f.start = p} = {}
    BY <1>7 DEF Inserted
  <2>3. first = <<>> /\ second = <<>> /\ kept = stays
    BY <2>2, <1>5, EmptyText DEF first, second, stays, Stays
  <2>4. <<>> \in Seq(S)
    OBVIOUS
  <2>5. QED  BY <1>3, <1>4, <2>1, <2>3, <2>4, JoiningNothing DEF put, stays, Written
<1>8. QED  BY <1>6, <1>7

\* What is put together from the pieces is the base with the edits of both sides.
LEMMA ApplyRewrites ==
  ASSUME NEW S, NEW b \in Seq(S),
         NEW mine, NEW theirs, EditSet(mine, Len(b), S), EditSet(theirs, Len(b), S),
         UniqueStarts(mine \union theirs)
  PROVE  /\ Apply(b, mine, theirs) \in Seq(S)
         /\ \E w : Rewrites(b, Apply(b, mine, theirs), mine \union theirs, w)
         /\ Apply(b, mine, theirs) = Apply(b, theirs, mine)
<1> DEFINE E == mine \union theirs
           n == Len(b)
           q == [i \in 1..n + 1 |-> Written(b, E, i - 1)]
           m == Apply(b, mine, theirs)
<1>0. n \in Nat /\ n + 1 \in Nat \ {0} /\ \A i \in 1..n + 1 : i - 1 \in 0..n
  OBVIOUS
<1>1. ASSUME NEW p \in 0..n
      PROVE  /\ PutIn(E, p) \in Seq(S) /\ Stays(b, E, p) \in Seq(S)
             /\ Piece(b, mine, theirs, p) = Written(b, E, p)
             /\ Piece(b, theirs, mine, p) = Written(b, E, p)
  <2>1. E = mine \union theirs /\ E = theirs \union mine /\ UniqueStarts(E) /\ p \in 0..Len(b)
    OBVIOUS
  <2> HIDE DEF E, n, q, m
  <2>2. /\ PutIn(E, p) \in Seq(S) /\ Stays(b, E, p) \in Seq(S)
        /\ Piece(b, mine, theirs, p) = Written(b, E, p)
    BY <2>1, PieceIs
  <2>3. Piece(b, theirs, mine, p) = Written(b, E, p)
    BY <2>1, PieceIs
  <2>4. QED  BY <2>2, <2>3
<1>2. m = FlattenSeq(q) /\ Apply(b, theirs, mine) = FlattenSeq(q)
  <2>1. [i \in 1..n + 1 |-> Piece(b, mine, theirs, i - 1)] = q
    <3> HIDE DEF E, n
    <3> QED  BY <1>0, <1>1
  <2>2. [i \in 1..n + 1 |-> Piece(b, theirs, mine, i - 1)] = q
    <3> HIDE DEF E, n
    <3> QED  BY <1>0, <1>1
  <2>3. QED  BY <2>1, <2>2 DEF Apply
<1> HIDE DEF E, m, n
<1>3. q \in [1..n + 1 -> Seq(S)]
  <2>1. ASSUME NEW i \in 1..n + 1  PROVE Written(b, E, i - 1) \in Seq(S)
    BY <1>0, <1>1 DEF Written
  <2>2. QED  BY <2>1
<1>4. \A p \in 0..n : q[p + 1] = PutIn(E, p) \o Stays(b, E, p)
  BY <1>0 DEF Written
<1> HIDE DEF q
<1>5. m \in Seq(S)
  BY <1>0, <1>2, <1>3, FlattenPlaces
<1>6. PICK v \in [0..n + 1 -> Nat] :
         /\ v[0] = 0 /\ v[n + 1] = Len(m)
         /\ \A i \in 0..n + 1 : v[i] <= Len(m)
         /\ \A i \in 1..n + 1 : /\ v[i] = v[i - 1] + Len(q[i])
                              /\ \A k \in 1..Len(q[i]) : m[v[i - 1] + k] = q[i][k]
  <2> DEFINE h == n + 1
  <2>1. h \in Nat \ {0} /\ q \in [1..h -> Seq(S)]
    BY <1>0, <1>3
  <2> HIDE DEF h
  <2>2. \E v : Splits(m, q, h, v)
    BY <2>1, <1>2, FlattenPlaces
  <2>3. QED  BY <2>2 DEF Splits, h
<1> DEFINE w == [p \in 0..n |-> v[p]]
<1>7. ASSUME NEW p \in 0..n
      PROVE  /\ w[p] + Len(PutIn(E, p)) <= Len(m)
             /\ \A k \in 1..Len(PutIn(E, p)) : m[w[p] + k] = PutIn(E, p)[k]
             /\ p = n => w[p] + Len(PutIn(E, p)) = Len(m)
             /\ p < n /\ Taken(E, p) => w[p + 1] = w[p] + Len(PutIn(E, p))
             /\ p < n /\ ~Taken(E, p) =>
                  /\ w[p + 1] = w[p] + Len(PutIn(E, p)) + 1 /\ w[p + 1] <= Len(m)
                  /\ m[w[p + 1]] = b[p + 1]
  <2> DEFINE x == PutIn(E, p)
             y == Stays(b, E, p)
  <2>1. /\ p + 1 \in 1..n + 1 /\ p + 1 \in 0..n + 1 /\ (p + 1) - 1 = p /\ p \in 0..n + 1
        /\ w[p] = v[p] /\ v[p] \in Nat /\ (p < n => p + 1 \in 0..n)
    BY <1>0
  <2>2. x \in Seq(S) /\ y \in Seq(S) /\ q[p + 1] = x \o y
    BY <1>1, <1>4
  <2> HIDE DEF x, y
  <2>3. /\ v[p + 1] = v[p] + Len(x \o y) /\ v[p + 1] <= Len(m)
        /\ \A k \in 1..Len(x \o y) : m[v[p] + k] = (x \o y)[k]
    BY <2>1, <2>2, <1>6
  <2>4. /\ Len(x) \in Nat /\ Len(y) \in Nat /\ Len(x \o y) = Len(x) + Len(y)
        /\ \A k \in 1..Len(x) : (x \o y)[k] = x[k]
        /\ \A k \in 1..Len(y) : (x \o y)[Len(x) + k] = y[k]
    BY <2>2, Joining
  <2>5. Len(m) \in Nat
    BY <1>5
  <2>6. w[p] + Len(x) <= Len(m)
    BY <2>1, <2>3, <2>4, <2>5
  <2>7. ASSUME NEW k \in 1..Len(x)  PROVE m[w[p] + k] = x[k]
    <3>1. k \in 1..Len(x \o y)
      BY <2>4
    <3>2. QED  BY <3>1, <2>1, <2>3, <2>4
  <2>8. CASE p < n /\ ~Taken(E, p)
    <3>1. y = <<b[p + 1]>>
      BY <2>8 DEF y, Stays, n
    <3>2. Len(y) = 1 /\ y[1] = b[p + 1]
      BY <3>1
    <3>3. w[p + 1] = w[p] + Len(x) + 1 /\ w[p + 1] <= Len(m)
      BY <2>1, <2>3, <2>4, <2>8, <3>2
    <3>4. m[v[p] + (Len(x) + 1)] = y[1]
      BY <2>3, <2>4, <3>2
    <3>5. v[p] + (Len(x) + 1) = w[p + 1]
      BY <2>1, <2>4, <3>3
    <3>6. QED  BY <2>6, <2>7, <2>8, <3>2, <3>3, <3>4, <3>5 DEF x
  <2>9. CASE ~(p < n /\ ~Taken(E, p))
    <3>1. y = <<>>
      BY <2>9 DEF y, Stays, n
    <3>2. Len(y) = 0
      BY <3>1
    <3>3. v[p + 1] = v[p] + Len(x)
      BY <2>1, <2>3, <2>4, <3>2
    <3>4. p = n => w[p] + Len(x) = Len(m)
      BY <2>1, <3>3, <1>6
    <3>5. p < n => w[p + 1] = w[p] + Len(x)
      BY <2>1, <3>3
    <3>6. QED  BY <2>6, <2>7, <2>9, <3>4, <3>5 DEF x
  <2>10. QED  BY <2>8, <2>9
<1>8. w \in [0..n -> Nat] /\ w[0] = 0
  BY <1>0, <1>6
<1> HIDE DEF w
<1>9. Rewrites(b, m, E, w)
  BY <1>7, <1>8 DEF Rewrites, n
<1>10. QED  BY <1>2, <1>5, <1>9 DEF E, m

-----------------------------------------------------------------------------
(* The alignment of a merged text *)

------------------------------------------------------------------------------
(* The alignment of the merged text with the three it was made from: Reach *)

\* How the places that an alignment can get to are found, one more line at a time.
Grows(R, b, l, u, m, k) == R[k] = R[k - 1] \union UNION {Aligned(b, l, u, m, at) : at \in R[k - 1]}

\* The recursive definition of these places has a solution.
LEMMA ReachIs ==
  ASSUME NEW b, NEW l, NEW u, NEW m, Len(b) \in Nat, Len(l) \in Nat, Len(u) \in Nat
  PROVE  /\ Reach(b, l, u, m)[0] = {<<0, 0, 0, 0>>}
         /\ \A k \in 1..Len(b) + Len(l) + Len(u) : Grows(Reach(b, l, u, m), b, l, u, m, k)
<1> DEFINE N == Len(b) + Len(l) + Len(u)
           Body(f, k) ==
             IF k = 0 THEN {<<0, 0, 0, 0>>}
             ELSE f[k - 1] \union UNION {Aligned(b, l, u, m, at) : at \in f[k - 1]}
           D == 0..N
           S == {k \in Nat : \E f : \A i \in D : i <= k => f[i] = Body(f, i)}
<1>0. N \in Nat
  OBVIOUS
<1> HIDE DEF N
<1>1. ASSUME NEW f, NEW g, NEW i \in D, i # 0 => f[i - 1] = g[i - 1]  PROVE Body(f, i) = Body(g, i)
  BY <1>1
<1>2. 0 \in S
  <2>1. \A i \in D : i <= 0 =>
          [j \in D |-> {<<0, 0, 0, 0>>}][i] = Body([j \in D |-> {<<0, 0, 0, 0>>}], i)
    OBVIOUS
  <2>2. QED  BY <2>1
<1> HIDE DEF Body
<1>3. ASSUME NEW k \in Nat, k \in S  PROVE k + 1 \in S
  <2>1. PICK f : \A i \in D : i <= k => f[i] = Body(f, i)
    BY <1>3
  <2> DEFINE g == [i \in D |-> Body(f, i)]
  <2>2. ASSUME NEW i \in D, i <= k + 1  PROVE g[i] = Body(g, i)
    <3>1. ASSUME i # 0  PROVE f[i - 1] = g[i - 1]
      <4>1. i - 1 \in D /\ i - 1 <= k
        <5> HIDE DEF g
        <5> QED  BY <3>1, <2>2, <1>0
      <4>2. QED  BY <4>1, <2>1
    <3>2. Body(f, i) = Body(g, i)
      <4> HIDE DEF g
      <4> QED  BY <3>1, <1>1
    <3>3. QED  BY <3>2
  <2> HIDE DEF g
  <2>3. QED  BY <2>2
<1>4. N \in S
  <2> HIDE DEF S
  <2> QED  BY <1>0, <1>2, <1>3, Induction
<1>5. PICK f : \A i \in D : i <= N => f[i] = Body(f, i)
  BY <1>4
<1> DEFINE g == [i \in D |-> Body(f, i)]
<1>6. g = [i \in D |-> Body(g, i)]
  <2>1. ASSUME NEW i \in D  PROVE Body(f, i) = Body(g, i)
    <3>1. ASSUME i # 0  PROVE f[i - 1] = g[i - 1]
      <4>1. i - 1 \in D /\ i - 1 <= N
        BY <1>0, <3>1
      <4>2. QED  BY <4>1, <1>5
    <3> HIDE DEF g
    <3>2. QED  BY <3>1, <1>1
  <2>2. QED  BY <2>1
<1> HIDE DEF g
<1> DEFINE R == Reach(b, l, u, m)
<1>7. R = [i \in D |-> Body(R, i)]
  <2>1. R = CHOOSE h : h = [i \in D |-> Body(h, i)]
    BY DEF Reach, Body, N
  <2> HIDE DEF R
  <2>2. QED  BY <2>1, <1>6
<1> HIDE DEF R
<1>8. \A i \in D : R[i] = Body(R, i)
  BY <1>7
<1>9. R[0] = {<<0, 0, 0, 0>>}
  <2>1. 0 \in D
    BY <1>0
  <2>2. QED  BY <2>1, <1>8 DEF Body
<1>10. ASSUME NEW k \in 1..N  PROVE Grows(R, b, l, u, m, k)
  <2>1. k \in D /\ k # 0
    BY <1>0
  <2>2. QED  BY <2>1, <1>8 DEF Body, Grows
<1>11. QED  BY <1>9, <1>10 DEF R, N

\* The alignment gets to i lines of b, j of l, k of u and h of m.
On(b, l, u, m, i, j, k, h) ==
  /\ i \in Nat /\ j \in Nat /\ k \in Nat /\ h \in Nat
  /\ i + j + k <= Len(b) + Len(l) + Len(u)
  /\ <<i, j, k, h>> \in Reach(b, l, u, m)[i + j + k]

\* The next line of those texts that a move takes one of.
Takes(t, j, c, line) == c \in {0, 1} /\ (c = 1 => j + 1 <= Len(t) /\ t[j + 1] = line)

\* A line that is taken is there.
LEMMA TakesFits ==
  ASSUME NEW t, Len(t) \in Nat, NEW j \in Nat, j <= Len(t), NEW c, NEW line, Takes(t, j, c, line)
  PROVE  c \in {0, 1} /\ j + c \in Nat /\ j + c <= Len(t)
<1>1. CASE c = 0
  BY <1>1
<1>2. CASE c = 1
  BY <1>2 DEF Takes
<1>3. QED  BY <1>1, <1>2 DEF Takes

\* One more line.
LEMMA OneMove ==
  ASSUME NEW b, NEW l, NEW u, NEW m,
         Len(b) \in Nat, Len(l) \in Nat, Len(u) \in Nat, Len(m) \in Nat,
         NEW i, NEW j, NEW k, NEW h, On(b, l, u, m, i, j, k, h),
         i <= Len(b), j <= Len(l), k <= Len(u), h <= Len(m),
         NEW a, NEW c, NEW d, NEW e, <<a, c, d, e>> \in Moves, NEW line,
         Takes(b, i, a, line), Takes(l, j, c, line), Takes(u, k, d, line), Takes(m, h, e, line)
  PROVE  On(b, l, u, m, i + a, j + c, k + d, h + e)
<1> DEFINE at == <<i, j, k, h>>
           v == <<a, c, d, e>>
           texts == <<b, l, u, m>>
           N == Len(b) + Len(l) + Len(u)
           s == i + j + k
           R == Reach(b, l, u, m)
           to == <<i + a, j + c, k + d, h + e>>
<1>0. /\ i \in Nat /\ j \in Nat /\ k \in Nat /\ h \in Nat /\ s <= N /\ at \in R[s]
      /\ a \in {0, 1} /\ c \in {0, 1} /\ d \in {0, 1} /\ e \in {0, 1}
  BY DEF On, Takes
<1>1. a = 1 \/ c = 1 \/ d = 1
  BY DEF Moves
<1>2. i + a <= Len(b) /\ j + c <= Len(l) /\ k + d <= Len(u) /\ h + e <= Len(m)
  <2> HIDE DEF N, s, R, to, at, v, texts
  <2> QED  BY <1>0, TakesFits
<1>3. \A x \in 1..4 : x = 1 \/ x = 2 \/ x = 3 \/ x = 4
  OBVIOUS
<1>4. ASSUME NEW x \in 1..4  PROVE at[x] + v[x] <= Len(texts[x])
  <2> HIDE DEF N, s, R, to
  <2>1. CASE x = 1
    BY <2>1, <1>2
  <2>2. CASE x = 2
    BY <2>2, <1>2
  <2>3. CASE x = 3
    BY <2>3, <1>2
  <2>4. CASE x = 4
    BY <2>4, <1>2
  <2>5. QED  BY <2>1, <2>2, <2>3, <2>4, <1>3
<1>5. ASSUME NEW x \in 1..4, v[x] = 1  PROVE texts[x][at[x] + 1] = line
  <2> HIDE DEF N, s, R, to
  <2>1. CASE x = 1
    BY <2>1, <1>5 DEF Takes
  <2>2. CASE x = 2
    BY <2>2, <1>5 DEF Takes
  <2>3. CASE x = 3
    BY <2>3, <1>5 DEF Takes
  <2>4. CASE x = 4
    BY <2>4, <1>5 DEF Takes
  <2>5. QED  BY <2>1, <2>2, <2>3, <2>4, <1>3
<1>6. to \in Aligned(b, l, u, m, at)
  <2> DEFINE Fits(z) == /\ \A x \in 1 .. 4 : at[x] + z[x] <= Len(texts[x])
                        /\ \A x, y \in {x \in 1 .. 4 : z[x] = 1} :
                             texts[x][at[x] + 1] = texts[y][at[y] + 1]
  <2>1. Fits(v)
    <3> HIDE DEF at, v, texts, to, R, s, N
    <3>1. QED  BY <1>4, <1>5
  <2>2. Aligned(b, l, u, m, at) =
          {<<at[1] + z[1], at[2] + z[2], at[3] + z[3], at[4] + z[4]>> :
             z \in {z \in Moves : Fits(z)}}
    BY DEF Aligned
  <2>3. to = <<at[1] + v[1], at[2] + v[2], at[3] + v[3], at[4] + v[4]>> /\ v \in Moves
    OBVIOUS
  <2> HIDE DEF Fits, at, v, texts, to, R, s, N
  <2>4. QED  BY <2>1, <2>2, <2>3
<1>7. N \in Nat /\ s \in Nat /\ \A x \in 1..N : Grows(R, b, l, u, m, x)
  BY <1>0, ReachIs
<1>8. ASSUME NEW x \in Nat, x + 1 <= N  PROVE R[x] \subseteq R[x + 1]
  <2>1. x + 1 \in 1..N /\ (x + 1) - 1 = x
    BY <1>7, <1>8
  <2>2. QED  BY <2>1, <1>7 DEF Grows
<1>9. s + 1 <= N => to \in R[s + 1]
  <2> SUFFICES ASSUME s + 1 <= N  PROVE to \in R[s + 1]
    OBVIOUS
  <2> HIDE DEF s, N, to, at, R
  <2>1. s + 1 \in 1..N /\ (s + 1) - 1 = s
    BY <1>7
  <2>2. QED  BY <2>1, <1>0, <1>6, <1>7 DEF Grows
<1> DEFINE z == (i + a) + (j + c) + (k + d)
<1>10. z \in {s + 1, s + 2, s + 3} /\ z <= N
  <2>1. a + c + d \in {1, 2, 3}
    <3>1. a \in {0, 1} /\ c \in {0, 1} /\ d \in {0, 1} /\ (a = 1 \/ c = 1 \/ d = 1)
      BY DEF Moves
    <3> HIDE DEF N, s, R, to, at, v, texts, z
    <3>2. QED  BY <3>1
  <2>2. z = s + (a + c + d)
    BY <1>0
  <2>3. z <= N
    BY <1>0, <1>2
  <2> HIDE DEF z, s, N
  <2>4. QED  BY <2>1, <2>2, <2>3, <1>7
<1>11. to \in R[z]
  <2> HIDE DEF s, N, to, at, R, z
  <2>1. CASE z = s + 1
    BY <2>1, <1>9, <1>10
  <2>2. CASE z = s + 2
    <3>1. s + 1 <= N /\ (s + 1) + 1 <= N /\ s + 1 \in Nat /\ (s + 1) + 1 = s + 2
      BY <2>2, <1>7, <1>10
    <3>2. QED  BY <3>1, <2>2, <1>8, <1>9
  <2>3. CASE z = s + 3
    <3>1. /\ s + 1 <= N /\ (s + 1) + 1 <= N /\ s + 1 \in Nat
          /\ (s + 1) + 1 \in Nat /\ ((s + 1) + 1) + 1 = s + 3 /\ ((s + 1) + 1) + 1 <= N
      BY <2>3, <1>7, <1>10
    <3>2. QED  BY <3>1, <2>3, <1>8, <1>9
  <2>4. QED  BY <2>1, <2>2, <2>3, <1>10
<1>12. i + a \in Nat /\ j + c \in Nat /\ k + d \in Nat /\ h + e \in Nat
  <2> HIDE DEF N, s, R, to, at, v, texts, z
  <2> QED  BY <1>0, TakesFits
<1>13. QED
  <2>1. z <= N /\ to \in R[z]
    BY <1>10, <1>11
  <2>2. QED  BY <2>1, <1>12 DEF On

\* A text t has the lines of r behind its first j lines.
HasRun(t, j, r) == j + Len(r) <= Len(t) /\ \A x \in 1..Len(r) : t[j + x] = r[x]
Plus(j, c, x) == IF c = 1 THEN j + x ELSE j

\* A side that has these lines, or none of them.
MayRun(t, j, c, r) == c \in {0, 1} /\ (c = 1 => HasRun(t, j, r))

\* Lines that one side, or both, have put in.
LEMMA RunIsReached ==
  ASSUME NEW b, NEW l, NEW u, NEW m,
         Len(b) \in Nat, Len(l) \in Nat, Len(u) \in Nat, Len(m) \in Nat,
         NEW i \in Nat, NEW j \in Nat, NEW k \in Nat, NEW h \in Nat, On(b, l, u, m, i, j, k, h),
         i <= Len(b), j <= Len(l), k <= Len(u),
         NEW r, Len(r) \in Nat, HasRun(m, h, r),
         NEW c, MayRun(l, j, c, r), NEW d, MayRun(u, k, d, r), c = 1 \/ d = 1
  PROVE  On(b, l, u, m, i, Plus(j, c, Len(r)), Plus(k, d, Len(r)), h + Len(r))
<1>0. /\ c \in {0, 1} /\ (c = 1 => HasRun(l, j, r))
      /\ d \in {0, 1} /\ (d = 1 => HasRun(u, k, r))
  BY DEF MayRun
<1> USE <1>0
<1> DEFINE G == {x \in Nat : x <= Len(r) => On(b, l, u, m, i, Plus(j, c, x), Plus(k, d, x), h + x)}
<1>1. 0 \in G
  <2>1. Plus(j, c, 0) = j /\ Plus(k, d, 0) = k /\ h + 0 = h
    BY DEF Plus
  <2>2. QED  BY <2>1
<1>2. ASSUME NEW x \in Nat, x \in G  PROVE x + 1 \in G
  <2> SUFFICES ASSUME x + 1 <= Len(r)
               PROVE  On(b, l, u, m, i, Plus(j, c, x + 1), Plus(k, d, x + 1), h + (x + 1))
    OBVIOUS
  <2> DEFINE j1 == Plus(j, c, x)
             k1 == Plus(k, d, x)
             line == r[x + 1]
  <2>1. On(b, l, u, m, i, j1, k1, h + x)
    BY <1>2
  <2> HIDE DEF G
  <2>2. x + 1 \in 1..Len(r)
    OBVIOUS
  <2>3. Takes(l, j1, c, line) /\ j1 \in Nat /\ j1 <= Len(l)
    <3>1. CASE c = 1
      <4>1. l[j + (x + 1)] = r[x + 1] /\ j + Len(r) <= Len(l)
        BY <3>1, <2>2 DEF HasRun
      <4>2. j1 = j + x /\ j1 + 1 = j + (x + 1) /\ j1 + 1 <= Len(l) /\ j1 \in Nat
        BY <3>1, <4>1 DEF Plus
      <4>3. QED  BY <3>1, <4>1, <4>2 DEF Takes
    <3>2. CASE c = 0
      BY <3>2 DEF Takes, Plus
    <3>3. QED  BY <3>1, <3>2
  <2>4. Takes(u, k1, d, line) /\ k1 \in Nat /\ k1 <= Len(u)
    <3>1. CASE d = 1
      <4>1. u[k + (x + 1)] = r[x + 1] /\ k + Len(r) <= Len(u)
        BY <3>1, <2>2 DEF HasRun
      <4>2. k1 = k + x /\ k1 + 1 = k + (x + 1) /\ k1 + 1 <= Len(u) /\ k1 \in Nat
        BY <3>1, <4>1 DEF Plus
      <4>3. QED  BY <3>1, <4>1, <4>2 DEF Takes
    <3>2. CASE d = 0
      BY <3>2 DEF Takes, Plus
    <3>3. QED  BY <3>1, <3>2
  <2>5. Takes(m, h + x, 1, line) /\ h + x \in Nat /\ h + x <= Len(m)
    BY <2>2 DEF Takes, HasRun
  <2>6. Takes(b, i, 0, line) /\ <<0, c, d, 1>> \in Moves
    BY DEF Takes, Moves
  <2>7. /\ Plus(j, c, x + 1) = j1 + c /\ Plus(k, d, x + 1) = k1 + d
        /\ h + (x + 1) = (h + x) + 1 /\ i + 0 = i
    BY DEF Plus
  <2> HIDE DEF j1, k1, line
  <2>8. On(b, l, u, m, i + 0, j1 + c, k1 + d, (h + x) + 1)
    BY <2>1, <2>3, <2>4, <2>5, <2>6, OneMove
  <2>9. QED  BY <2>7, <2>8
<1>3. Len(r) \in G
  <2> HIDE DEF G
  <2> QED  BY <1>1, <1>2, Induction
<1>4. QED  BY <1>3

\* What E puts behind line p is what both sides put there, or the one that puts anything.
Sides(mine, theirs, E, p) ==
  \/ PutIn(mine, p) = PutIn(E, p) /\ PutIn(theirs, p) = PutIn(E, p)
  \/ PutIn(mine, p) = PutIn(E, p) /\ PutIn(theirs, p) = <<>>
  \/ PutIn(mine, p) = <<>> /\ PutIn(theirs, p) = PutIn(E, p)

\* What both sides put behind a line, and which lines both take out.
LEMMA BothEdits ==
  ASSUME NEW mine, NEW theirs, NEW E, E = mine \union theirs, UniqueStarts(E), NEW p
  PROVE  /\ Sides(mine, theirs, E, p)
         /\ Taken(E, p) <=> Taken(mine, p) \/ Taken(theirs, p)
<1>1. UniqueStarts(mine) /\ UniqueStarts(theirs)
  BY DEF UniqueStarts
<1>2. \A F \in {mine, theirs, E} :
        /\ \A e \in F : e.start = p => PutIn(F, p) = e.replacement
        /\ (\A e \in F : e.start # p) => PutIn(F, p) = <<>>
  BY <1>1, PutIs
<1>3. /\ \A e \in mine : e.start = p => PutIn(mine, p) = e.replacement
      /\ (\A e \in mine : e.start # p) => PutIn(mine, p) = <<>>
      /\ \A e \in theirs : e.start = p => PutIn(theirs, p) = e.replacement
      /\ (\A e \in theirs : e.start # p) => PutIn(theirs, p) = <<>>
      /\ \A e \in E : e.start = p => PutIn(E, p) = e.replacement
      /\ (\A e \in E : e.start # p) => PutIn(E, p) = <<>>
  BY <1>2
<1>4. CASE \E e \in mine : e.start = p
  <2>1. PICK e \in mine : e.start = p
    BY <1>4
  <2>2. PutIn(mine, p) = PutIn(E, p)
    BY <2>1, <1>3
  <2>3. CASE e \in theirs
    BY <2>1, <2>2, <2>3, <1>3 DEF Taken, Sides
  <2>4. CASE e \notin theirs
    <3>1. \A f \in theirs : f.start # p
      BY <2>1, <2>4 DEF UniqueStarts
    <3>2. QED  BY <3>1, <2>2, <1>3 DEF Taken, Sides
  <2>5. QED  BY <2>3, <2>4
<1>5. CASE ~\E e \in mine : e.start = p
  <2>1. PutIn(mine, p) = <<>>
    BY <1>3, <1>5
  <2>2. PutIn(theirs, p) = PutIn(E, p)
    BY <1>3, <1>5
  <2>3. QED  BY <2>1, <2>2 DEF Taken, Sides
<1>6. QED  BY <1>4, <1>5

\* What a rewritten text has at each place.
LEMMA RewritesAt ==
  ASSUME NEW b, NEW t, NEW E, NEW w, Len(b) \in Nat, Len(t) \in Nat, Rewrites(b, t, E, w),
         NEW p \in 0..Len(b), Len(PutIn(E, p)) \in Nat
  PROVE  /\ w[p] \in Nat /\ w[p] <= Len(t)
         /\ HasRun(t, w[p], PutIn(E, p))
         /\ p = Len(b) => w[p] + Len(PutIn(E, p)) = Len(t)
         /\ p < Len(b) => LET c == IF Taken(E, p) THEN 0 ELSE 1 IN
                          /\ w[p + 1] = w[p] + Len(PutIn(E, p)) + c
                          /\ Takes(t, w[p] + Len(PutIn(E, p)), c, b[p + 1])
<1>1. w[p] \in Nat /\ w[p] + Len(PutIn(E, p)) <= Len(t)
  BY DEF Rewrites
<1>2. HasRun(t, w[p], PutIn(E, p))
  BY DEF Rewrites, HasRun
<1>3. p = Len(b) => w[p] + Len(PutIn(E, p)) = Len(t)
  BY DEF Rewrites
<1>4. p < Len(b) /\ Taken(E, p) => w[p + 1] = w[p] + Len(PutIn(E, p))
  BY DEF Rewrites
<1>5. p < Len(b) /\ ~Taken(E, p) => /\ w[p + 1] = w[p] + Len(PutIn(E, p)) + 1 /\ w[p + 1] <= Len(t)
                                    /\ t[w[p + 1]] = b[p + 1]
  BY DEF Rewrites
<1>6. QED  BY <1>1, <1>2, <1>3, <1>4, <1>5 DEF Takes

\* A text that was put together from the edits of both sides is the base with the changes of
\* both.
LEMMA MergedHasBothChanges ==
  ASSUME NEW S, NEW b \in Seq(S), NEW l \in Seq(S), NEW u \in Seq(S), NEW m \in Seq(S),
         NEW mine, NEW theirs, EditSet(mine, Len(b), S), EditSet(theirs, Len(b), S),
         NEW E, E = mine \union theirs, UniqueStarts(E),
         NEW wl, Rewrites(b, l, mine, wl), NEW wu, Rewrites(b, u, theirs, wu),
         NEW wm, Rewrites(b, m, E, wm)
  PROVE  HasBothChanges(b, l, u, m)
<1> DEFINE n == Len(b)
           L(p) == Len(PutIn(mine, p))
           U(p) == Len(PutIn(theirs, p))
           M(p) == Len(PutIn(E, p))
<1>0. n \in Nat /\ Len(l) \in Nat /\ Len(u) \in Nat /\ Len(m) \in Nat
  OBVIOUS
<1>1. ASSUME NEW F \in {mine, theirs, E}, NEW p  PROVE Len(PutIn(F, p)) \in Nat
  <2>1. \A e \in F : e.replacement \in Seq(S)
    BY DEF EditSet, AnEdit
  <2>2. UniqueStarts(F)
    BY DEF UniqueStarts
  <2>3. PutIn(F, p) \in Seq(S)
    <3>1. CASE \E e \in F : e.start = p
      BY <3>1, <2>1, <2>2, PutIs
    <3>2. CASE ~\E e \in F : e.start = p
      <4>1. PutIn(F, p) = <<>>
        BY <3>2, <2>2, PutIs
      <4>2. QED  BY <4>1
    <3>3. QED  BY <3>1, <3>2
  <2>4. QED  BY <2>3
<1>2. \A p : L(p) \in Nat /\ U(p) \in Nat /\ M(p) \in Nat
  BY <1>1
<1>3. ASSUME NEW p \in 0..n, On(b, l, u, m, p, wl[p], wu[p], wm[p])
      PROVE  On(b, l, u, m, p, wl[p] + L(p), wu[p] + U(p), wm[p] + M(p))
  <2> DEFINE r == PutIn(E, p)
  <2>1. /\ wl[p] \in Nat /\ wl[p] <= Len(l) /\ HasRun(l, wl[p], PutIn(mine, p))
        /\ wu[p] \in Nat /\ wu[p] <= Len(u) /\ HasRun(u, wu[p], PutIn(theirs, p))
        /\ wm[p] \in Nat /\ wm[p] <= Len(m) /\ HasRun(m, wm[p], r)
    BY <1>0, <1>2, RewritesAt
  <2>2. p \in Nat /\ p <= Len(b) /\ Len(r) \in Nat
    BY <1>0, <1>2
  <2>3. Len(<<>>) = 0 /\ MayRun(l, wl[p], 0, r) /\ MayRun(u, wu[p], 0, r)
    BY DEF MayRun
  <2>8. \/ PutIn(mine, p) = r /\ PutIn(theirs, p) = r
        \/ PutIn(mine, p) = r /\ PutIn(theirs, p) = <<>>
        \/ PutIn(mine, p) = <<>> /\ PutIn(theirs, p) = r
    <3>1. Sides(mine, theirs, E, p)
      <4> HIDE DEF L, U, M, n, r
      <4> QED  BY BothEdits
    <3>2. QED  BY <3>1 DEF Sides
  <2> HIDE DEF r, L, U, M, n
  <2>4. CASE PutIn(mine, p) = r /\ PutIn(theirs, p) = r
    <3>1. On(b, l, u, m, p, Plus(wl[p], 1, Len(r)), Plus(wu[p], 1, Len(r)), wm[p] + Len(r))
      <4>1. MayRun(l, wl[p], 1, r) /\ MayRun(u, wu[p], 1, r)
        BY <2>1, <2>4 DEF MayRun
      <4>2. QED  BY <4>1, <1>0, <1>3, <2>1, <2>2, RunIsReached DEF n
    <3>2. QED  BY <3>1, <2>4 DEF Plus, L, U, M, r
  <2>5. CASE PutIn(mine, p) = r /\ PutIn(theirs, p) = <<>>
    <3>1. On(b, l, u, m, p, Plus(wl[p], 1, Len(r)), Plus(wu[p], 0, Len(r)), wm[p] + Len(r))
      <4>1. MayRun(l, wl[p], 1, r)
        BY <2>1, <2>5 DEF MayRun
      <4>2. QED  BY <4>1, <1>0, <1>3, <2>1, <2>2, <2>3, RunIsReached DEF n
    <3>2. wu[p] + 0 = wu[p]
      BY <2>1
    <3>3. QED  BY <3>1, <3>2, <2>3, <2>5 DEF Plus, L, U, M, r
  <2>6. CASE PutIn(mine, p) = <<>> /\ PutIn(theirs, p) = r
    <3>1. On(b, l, u, m, p, Plus(wl[p], 0, Len(r)), Plus(wu[p], 1, Len(r)), wm[p] + Len(r))
      <4>1. MayRun(u, wu[p], 1, r)
        BY <2>1, <2>6 DEF MayRun
      <4>2. QED  BY <4>1, <1>0, <1>3, <2>1, <2>2, <2>3, RunIsReached DEF n
    <3>2. wl[p] + 0 = wl[p]
      BY <2>1
    <3>3. QED  BY <3>1, <3>2, <2>3, <2>6 DEF Plus, L, U, M, r
  <2>7. QED  BY <2>4, <2>5, <2>6, <2>8
<1> DEFINE G == {p \in Nat : p <= n => On(b, l, u, m, p, wl[p], wu[p], wm[p])}
<1>4. 0 \in G
  <2>1. wl[0] = 0 /\ wu[0] = 0 /\ wm[0] = 0
    BY DEF Rewrites
  <2>2. On(b, l, u, m, 0, 0, 0, 0)
    <3>1. Reach(b, l, u, m)[0] = {<<0, 0, 0, 0>>}
      BY <1>0, ReachIs
    <3>2. QED  BY <3>1, <1>0 DEF On
  <2>3. QED  BY <2>1, <2>2
<1>5. ASSUME NEW p \in Nat, p \in G  PROVE p + 1 \in G
  <2> SUFFICES ASSUME p + 1 <= n  PROVE On(b, l, u, m, p + 1, wl[p + 1], wu[p + 1], wm[p + 1])
    OBVIOUS
  <2>0. p \in 0..n /\ p < n
    BY <1>0
  <2>1. On(b, l, u, m, p, wl[p] + L(p), wu[p] + U(p), wm[p] + M(p))
    <3>1. On(b, l, u, m, p, wl[p], wu[p], wm[p])
      BY <2>0, <1>5
    <3> HIDE DEF G, L, U, M, n
    <3>2. QED  BY <3>1, <2>0, <1>3
  <2> HIDE DEF G
  <2> DEFINE c == IF Taken(mine, p) THEN 0 ELSE 1
             d == IF Taken(theirs, p) THEN 0 ELSE 1
             e == IF Taken(E, p) THEN 0 ELSE 1
             line == b[p + 1]
             j == wl[p] + L(p)
             k == wu[p] + U(p)
             h == wm[p] + M(p)
  <2>2. /\ wl[p + 1] = j + c /\ Takes(l, j, c, line) /\ j <= Len(l)
        /\ wu[p + 1] = k + d /\ Takes(u, k, d, line) /\ k <= Len(u)
        /\ wm[p + 1] = h + e /\ Takes(m, h, e, line) /\ h <= Len(m)
    <3>1. wl[p + 1] = j + c /\ Takes(l, j, c, line) /\ j <= Len(l)
      BY <2>0, <1>0, <1>2, RewritesAt DEF HasRun
    <3>2. wu[p + 1] = k + d /\ Takes(u, k, d, line) /\ k <= Len(u)
      BY <2>0, <1>0, <1>2, RewritesAt DEF HasRun
    <3>3. wm[p + 1] = h + e /\ Takes(m, h, e, line) /\ h <= Len(m)
      BY <2>0, <1>0, <1>2, RewritesAt DEF HasRun
    <3>4. QED  BY <3>1, <3>2, <3>3
  <2>3. <<1, c, d, e>> \in Moves
    BY BothEdits DEF Moves
  <2>4. Takes(b, p, 1, line) /\ p <= Len(b)
    BY <2>0 DEF Takes
  <2> HIDE DEF c, d, e, j, k, h, line, n
  <2>5. On(b, l, u, m, p + 1, j + c, k + d, h + e)
    BY <2>1, <2>2, <2>3, <2>4, <1>0, OneMove DEF j, k, h, n
  <2>6. QED  BY <2>2, <2>5
<1>6. On(b, l, u, m, n, wl[n], wu[n], wm[n])
  <2>1. n \in G
    <3> HIDE DEF G
    <3> QED  BY <1>0, <1>4, <1>5, Induction
  <2>2. QED  BY <2>1, <1>0
<1>7. On(b, l, u, m, n, wl[n] + L(n), wu[n] + U(n), wm[n] + M(n))
  <2>1. n \in 0..n
    BY <1>0
  <2>2. QED  BY <2>1, <1>3, <1>6
<1>8. wl[n] + L(n) = Len(l) /\ wu[n] + U(n) = Len(u) /\ wm[n] + M(n) = Len(m)
  <2>1. n \in 0..Len(b)
    BY <1>0
  <2>2. QED  BY <2>1, <1>0, <1>2, RewritesAt
<1>9. QED  BY <1>7, <1>8 DEF On, HasBothChanges

------------------------------------------------------------------------------
(* Edits that do not touch, and lines without a newline *)

\* No edit of one side touches another one of the other.
ConflictFree(mine, theirs) == \A x \in mine, y \in theirs : x = y \/ ~EditsTouch(x, y)

\* It makes no difference which side is called mine.
LEMMA TouchingIsMutual ==
  ASSUME NEW mine, NEW theirs, NEW n, NEW S, EditSet(mine, n, S), EditSet(theirs, n, S)
  PROVE  ConflictFree(mine, theirs) <=> ConflictFree(theirs, mine)
<1>1. ASSUME NEW x \in mine, NEW y \in theirs  PROVE EditsTouch(x, y) <=> EditsTouch(y, x)
  BY DEF EditsTouch, EditSet, AnEdit, IsInsert
<1>2. QED  BY <1>1 DEF ConflictFree

\* Edits that do not touch start at different places.
LEMMA EditsStartApart ==
  ASSUME NEW mine, NEW theirs, NEW n \in Nat, NEW S, EditSet(mine, n, S), EditSet(theirs, n, S),
         Separate(mine), Separate(theirs), ConflictFree(mine, theirs)
  PROVE  UniqueStarts(mine \union theirs)
<1>1. \A e \in mine \union theirs : e.start \in Nat /\ e.end \in Nat /\ e.start <= e.end
  BY DEF EditSet, AnEdit
<1>2. ASSUME NEW e \in mine, NEW f \in theirs, e.start = f.start  PROVE e = f
  <2>1. EditsTouch(e, f)
    BY <1>1, <1>2 DEF EditsTouch, IsInsert
  <2>2. QED  BY <2>1 DEF ConflictFree
<1>3. ASSUME NEW F \in {mine, theirs}, NEW e \in F, NEW f \in F, e.start = f.start  PROVE e = f
  <2>1. Separate(F)
    OBVIOUS
  <2>2. ~(e.end < f.start) /\ ~(f.end < e.start)
    BY <1>1, <1>3
  <2>3. QED  BY <2>1, <2>2, <1>3 DEF Separate
<1>4. ASSUME NEW e \in mine \union theirs, NEW f \in mine \union theirs, e.start = f.start
      PROVE  e = f
  <2>1. CASE e \in mine /\ f \in mine
    BY <2>1, <1>3, <1>4
  <2>2. CASE e \in theirs /\ f \in theirs
    BY <2>2, <1>3, <1>4
  <2>3. CASE e \in mine /\ f \in theirs
    BY <2>3, <1>2, <1>4
  <2>4. CASE e \in theirs /\ f \in mine
    BY <2>4, <1>2, <1>4
  <2>5. QED  BY <2>1, <2>2, <2>3, <2>4
<1>5. QED  BY <1>4 DEF UniqueStarts

\* The text t ends with what is put behind line p of the base.
Ends(t, E, w, p) == w[p] + Len(PutIn(E, p)) = Len(t)

\* It does when the next line is taken out, and nothing is put behind it that does not end t.
LEMMA EndsStep ==
  ASSUME NEW b, NEW t, NEW E, NEW w, Len(b) \in Nat, Len(t) \in Nat, Rewrites(b, t, E, w),
         NEW p \in 0..Len(b), p < Len(b), Len(PutIn(E, p)) \in Nat, Len(PutIn(E, p + 1)) \in Nat
  PROVE  Ends(t, E, w, p) <=> /\ Taken(E, p) /\ Len(PutIn(E, p + 1)) = 0
                              /\ Ends(t, E, w, p + 1)
<1> DEFINE k == Len(PutIn(E, p))
           j == Len(PutIn(E, p + 1))
           c == IF Taken(E, p) THEN 0 ELSE 1
<1>1. /\ w[p] \in Nat /\ w[p] + k <= Len(t) /\ w[p + 1] = w[p] + k + c
      /\ w[p + 1] \in Nat /\ w[p + 1] + j <= Len(t)
  <2>1. p + 1 \in 0..Len(b)
    OBVIOUS
  <2>2. QED  BY <2>1, RewritesAt DEF HasRun
<1>2. k \in Nat /\ j \in Nat /\ c \in {0, 1}
  OBVIOUS
<1>3. w[p] + k = Len(t) <=> c = 0 /\ j = 0 /\ w[p + 1] + j = Len(t)
  <2> DEFINE x == w[p]
             y == w[p + 1]
             z == Len(t)
  <2>1. /\ x \in Nat /\ x + k <= z /\ y = x + k + c /\ y \in Nat /\ y + j <= z
        /\ z \in Nat
    BY <1>1
  <2> HIDE DEF k, j, c, x, y, z
  <2>2. x + k = z <=> c = 0 /\ j = 0 /\ y + j = z
    BY <2>1, <1>2
  <2>3. QED  BY <2>2 DEF x, y, z
<1>4. QED  BY <1>3 DEF Ends

\* What is put behind a line is a text.
LEMMA PutIsText ==
  ASSUME NEW E, NEW n, NEW S, EditSet(E, n, S), UniqueStarts(E), NEW p
  PROVE  PutIn(E, p) \in Seq(S) /\ Len(PutIn(E, p)) \in Nat
<1>1. \A e \in E : e.replacement \in Seq(S)
  BY DEF EditSet, AnEdit
<1>2. PutIn(E, p) \in Seq(S)
  <2>1. CASE \E e \in E : e.start = p
    BY <2>1, <1>1, PutIs
  <2>2. CASE ~\E e \in E : e.start = p
    <3>1. PutIn(E, p) = <<>>
      BY <2>2, PutIs
    <3>2. QED  BY <3>1
  <2>3. QED  BY <2>1, <2>2
<1>3. QED  BY <1>2

\* Behind a line that one side takes out the other side puts nothing that the first does not.
LEMMA NothingBehind ==
  ASSUME NEW mine, NEW theirs, NEW E, NEW n \in Nat, NEW S, EditSet(mine, n, S),
         EditSet(theirs, n, S), E = mine \union theirs, UniqueStarts(E),
         ConflictFree(mine, theirs), NEW p \in 0..n, p < n, Taken(mine, p),
         Len(PutIn(mine, p + 1)) = 0, p + 1 < n => Taken(mine, p + 1)
  PROVE  Len(PutIn(E, p + 1)) = 0
<1>0. /\ \A e \in E : /\ e.start \in Nat /\ e.end \in Nat /\ e.start <= e.end /\ e.end <= n
                      /\ e.replacement \in Seq(S)
      /\ UniqueStarts(mine) /\ UniqueStarts(theirs)
  BY DEF EditSet, AnEdit, UniqueStarts
<1>1. PICK g \in mine : g.start <= p /\ p < g.end
  BY DEF Taken
<1>2. ASSUME NEW f \in mine, f.start = p + 1  PROVE f.replacement = <<>>
  <2>1. PutIn(mine, p + 1) = f.replacement
    BY <1>0, <1>2, PutIs
  <2>2. f.replacement \in Seq(S) /\ Len(f.replacement) = 0
    BY <1>0, <2>1
  <2>3. QED  BY <2>2
<1>3. ASSUME NEW f \in theirs, f.start = p + 1  PROVE f.replacement = <<>>
  <2>1. CASE IsInsert(f)
    <3>1. EditsTouch(g, f)
      BY <1>0, <1>1, <1>3, <2>1 DEF EditsTouch, IsInsert
    <3>2. f = g
      BY <3>1 DEF ConflictFree
    <3>3. QED  BY <3>2, <1>2, <1>3
  <2>2. CASE ~IsInsert(f)
    <3>1. p + 1 < n
      BY <1>0, <1>3, <2>2 DEF IsInsert
    <3>2. PICK h \in mine : h.start <= p + 1 /\ p + 1 < h.end
      BY <3>1 DEF Taken
    <3>3. EditsTouch(h, f)
      BY <1>0, <1>3, <2>2, <3>2 DEF EditsTouch, IsInsert
    <3>4. f = h
      BY <3>3 DEF ConflictFree
    <3>5. QED  BY <3>4, <1>2, <1>3
  <2>3. QED  BY <2>1, <2>2
<1>4. CASE \E f \in E : f.start = p + 1
  <2>1. PICK f \in E : f.start = p + 1
    BY <1>4
  <2>2. PutIn(E, p + 1) = f.replacement
    BY <2>1, PutIs
  <2>3. QED  BY <2>1, <2>2, <1>2, <1>3
<1>5. CASE ~\E f \in E : f.start = p + 1
  <2>1. PutIn(E, p + 1) = <<>>
    BY <1>5, PutIs
  <2>2. QED  BY <2>1
<1>6. QED  BY <1>4, <1>5

\* Where one side ends with what it puts, the merged text ends too.
LEMMA EndsTogether ==
  ASSUME NEW S, NEW b \in Seq(S), NEW l \in Seq(S), NEW m \in Seq(S),
         NEW mine, NEW theirs, NEW E, EditSet(mine, Len(b), S), EditSet(theirs, Len(b), S),
         E = mine \union theirs, UniqueStarts(E), ConflictFree(mine, theirs),
         NEW wl, Rewrites(b, l, mine, wl), NEW wm, Rewrites(b, m, E, wm),
         NEW p \in 0..Len(b), Ends(l, mine, wl, p)
  PROVE  Ends(m, E, wm, p)
<1> DEFINE n == Len(b)
           G == {x \in Nat : x <= n => (Ends(l, mine, wl, n - x) => Ends(m, E, wm, n - x))}
<1>0. n \in Nat /\ Len(l) \in Nat /\ Len(m) \in Nat /\ n \in 0..Len(b)
  OBVIOUS
<1>1. \A q : Len(PutIn(mine, q)) \in Nat /\ Len(PutIn(E, q)) \in Nat
  <2>1. UniqueStarts(mine)
    BY DEF UniqueStarts
  <2>2. EditSet(E, Len(b), S)
    BY DEF EditSet
  <2>3. ASSUME NEW q  PROVE Len(PutIn(mine, q)) \in Nat /\ Len(PutIn(E, q)) \in Nat
    BY <2>1, <2>2, PutIsText
  <2>4. QED  BY <2>3
<1>2. 0 \in G
  <2>1. Ends(m, E, wm, n)
    BY <1>0, <1>1, RewritesAt DEF Ends
  <2>2. n - 0 = n
    BY <1>0
  <2> HIDE DEF n
  <2>3. QED  BY <2>1, <2>2
<1>3. ASSUME NEW x \in Nat, x \in G  PROVE x + 1 \in G
  <2> SUFFICES ASSUME x + 1 <= n, Ends(l, mine, wl, n - (x + 1))
               PROVE  Ends(m, E, wm, n - (x + 1))
    OBVIOUS
  <2> DEFINE q == n - (x + 1)
  <2>1. /\ q \in 0..Len(b) /\ q < Len(b) /\ q + 1 = n - x /\ q + 1 \in 0..Len(b)
        /\ q \in 0..n /\ q < n
    BY <1>0
  <2>2. Ends(l, mine, wl, q + 1) => Ends(m, E, wm, q + 1)
    BY <2>1, <1>3
  <2>3. Ends(l, mine, wl, q)
    OBVIOUS
  <2> HIDE DEF q, G
  <2>4. Taken(mine, q) /\ Len(PutIn(mine, q + 1)) = 0 /\ Ends(l, mine, wl, q + 1)
    <3> HIDE DEF n
    <3>1. QED  BY <1>0, <1>1, <2>1, <2>3, EndsStep
  <2>5. q + 1 < n => Taken(mine, q + 1)
    <3> SUFFICES ASSUME q + 1 < n  PROVE Taken(mine, q + 1)
      OBVIOUS
    <3> DEFINE z == q + 1
    <3>1. z \in 0..Len(b) /\ z < Len(b)
      BY <2>1
    <3>2. Ends(l, mine, wl, z)
      BY <2>4
    <3> HIDE DEF n, z
    <3>3. Taken(mine, z)
      BY <1>0, <1>1, <3>1, <3>2, EndsStep
    <3>4. QED  BY <3>3 DEF z
  <2>6. Len(PutIn(E, q + 1)) = 0
    BY <1>0, <2>1, <2>4, <2>5, NothingBehind
  <2>7. Taken(E, q)
    BY <2>4 DEF Taken
  <2>8. Ends(m, E, wm, q)
    <3> HIDE DEF n
    <3>1. QED  BY <1>0, <1>1, <2>1, <2>2, <2>4, <2>6, <2>7, EndsStep
  <2>9. QED  BY <2>8 DEF q
<1>4. n - p \in G /\ n - p \in Nat
  <2>1. n - p \in Nat
    BY <1>0
  <2> HIDE DEF G, n
  <2>2. QED  BY <2>1, <1>2, <1>3, Induction
<1>5. n - p <= n /\ n - (n - p) = p
  BY <1>0
<1> HIDE DEF n
<1>6. QED  BY <1>4, <1>5

\* Only the last line of a text is open.
OpenLast(t) == \A i \in 1..Len(t) : t[i] \in Unended => i = Len(t)

\* An open line that one side puts in ends the merged text.
LEMMA OpenIsPutLast ==
  ASSUME NEW S, NEW b \in Seq(S), NEW l \in Seq(S), NEW m \in Seq(S),
         NEW mine, NEW theirs, NEW E, EditSet(mine, Len(b), S), EditSet(theirs, Len(b), S),
         E = mine \union theirs, UniqueStarts(E), ConflictFree(mine, theirs),
         NEW wl, Rewrites(b, l, mine, wl), NEW wm, Rewrites(b, m, E, wm), OpenLast(l),
         NEW p \in 0..Len(b), PutIn(mine, p) = PutIn(E, p), NEW k \in 1..Len(PutIn(E, p)),
         PutIn(E, p)[k] \in Unended
  PROVE  wm[p] + k = Len(m)
<1>0. Len(b) \in Nat /\ Len(l) \in Nat /\ Len(m) \in Nat
  OBVIOUS
<1>1. Len(PutIn(mine, p)) \in Nat /\ Len(PutIn(E, p)) \in Nat
  <2>1. UniqueStarts(mine)
    BY DEF UniqueStarts
  <2>2. QED  BY <2>1, PutIsText
<1>2. wl[p] \in Nat /\ HasRun(l, wl[p], PutIn(mine, p))
  BY <1>0, <1>1, RewritesAt
<1>3. wm[p] \in Nat /\ HasRun(m, wm[p], PutIn(E, p))
  BY <1>0, <1>1, RewritesAt
<1>4. wl[p] + k \in 1..Len(l) /\ l[wl[p] + k] \in Unended
  <2>1. l[wl[p] + k] = PutIn(mine, p)[k] /\ wl[p] + Len(PutIn(mine, p)) <= Len(l)
    BY <1>2 DEF HasRun
  <2>2. k \in Nat \ {0} /\ k <= Len(PutIn(mine, p))
    BY <1>1
  <2>3. QED  BY <2>1, <2>2, <1>0, <1>1, <1>2
<1>5. wl[p] + k = Len(l)
  BY <1>4 DEF OpenLast
<1>6. k = Len(PutIn(E, p)) /\ Ends(l, mine, wl, p)
  BY <1>0, <1>1, <1>2, <1>5 DEF Ends, HasRun
<1>7. Ends(m, E, wm, p)
  BY <1>6, EndsTogether
<1>8. QED  BY <1>6, <1>7 DEF Ends

\* In a text without open lines but the last, an open line of the base that is kept ends it.
LEMMA OpenIsKeptLast ==
  ASSUME NEW b, NEW l, NEW E, NEW w, Len(b) \in Nat, Len(l) \in Nat, OpenLast(l),
         Rewrites(b, l, E, w), NEW p \in 0..Len(b), p + 1 = Len(b), ~Taken(E, p),
         b[p + 1] \in Unended, Len(PutIn(E, p)) \in Nat, Len(PutIn(E, p + 1)) \in Nat
  PROVE  Len(PutIn(E, p + 1)) = 0
<1>1. /\ w[p] \in Nat /\ p < Len(b) /\ p + 1 \in 0..Len(b)
      /\ w[p + 1] = w[p] + Len(PutIn(E, p)) + 1
      /\ Takes(l, w[p] + Len(PutIn(E, p)), 1, b[p + 1])
  BY RewritesAt
<1>2. w[p + 1] \in 1..Len(l) /\ l[w[p + 1]] \in Unended
  BY <1>1 DEF Takes
<1>3. w[p + 1] = Len(l)
  BY <1>2 DEF OpenLast
<1>4. w[p + 1] + Len(PutIn(E, p + 1)) = Len(l)
  <2>1. p + 1 \in 0..Len(b)
    BY <1>1
  <2>2. QED  BY <2>1, RewritesAt
<1>5. QED  BY <1>1, <1>3, <1>4

\* No line of t up to line k is open but the last of t.
OpenAtEnd(t, k) == \A i \in 1..Len(t) : i <= k /\ t[i] \in Unended => i = Len(t)

\* A text that was put together from edits that do not touch has an open line only at its end.
LEMMA MergedIsOpenLast ==
  ASSUME NEW S, NEW b \in Seq(S), NEW l \in Seq(S), NEW u \in Seq(S), NEW m \in Seq(S),
         NEW mine, NEW theirs, EditSet(mine, Len(b), S), EditSet(theirs, Len(b), S),
         NEW E, E = mine \union theirs, UniqueStarts(E),
         ConflictFree(mine, theirs), ConflictFree(theirs, mine),
         NEW wl, Rewrites(b, l, mine, wl), NEW wu, Rewrites(b, u, theirs, wu),
         NEW wm, Rewrites(b, m, E, wm), OpenLast(b), OpenLast(l), OpenLast(u)
  PROVE  OpenLast(m)
<1> DEFINE n == Len(b)
           M(p) == Len(PutIn(E, p))
           G == {p \in Nat : p <= n => OpenAtEnd(m, wm[p] + M(p))}
<1>0. n \in Nat /\ Len(l) \in Nat /\ Len(u) \in Nat /\ Len(m) \in Nat /\ Len(b) \in Nat
  OBVIOUS
<1>1. \A q : /\ Len(PutIn(mine, q)) \in Nat /\ Len(PutIn(theirs, q)) \in Nat
             /\ Len(PutIn(E, q)) \in Nat
  <2>1. UniqueStarts(mine) /\ UniqueStarts(theirs)
    BY DEF UniqueStarts
  <2>2. EditSet(E, Len(b), S)
    BY DEF EditSet
  <2>3. ASSUME NEW q
        PROVE  /\ Len(PutIn(mine, q)) \in Nat /\ Len(PutIn(theirs, q)) \in Nat
               /\ Len(PutIn(E, q)) \in Nat
    BY <2>1, <2>2, PutIsText
  <2>4. QED  BY <2>3
\* A line that is put in.
<1>2. ASSUME NEW p \in 0..Len(b), NEW i \in 1..Len(m), wm[p] < i, i <= wm[p] + M(p),
             m[i] \in Unended
      PROVE  i = Len(m)
  <2> DEFINE k == i - wm[p]
  <2>1. wm[p] \in Nat /\ HasRun(m, wm[p], PutIn(E, p))
    <3> HIDE DEF n, G, k
    <3> QED  BY <1>0, <1>1, RewritesAt
  <2>2. k \in 1..Len(PutIn(E, p)) /\ wm[p] + k = i
    BY <1>1, <1>2, <2>1
  <2> HIDE DEF k, n, G
  <2>3. PutIn(E, p)[k] \in Unended
    BY <1>2, <2>1, <2>2 DEF HasRun
  <2>4. Sides(mine, theirs, E, p)
    BY BothEdits
  <2>5. CASE PutIn(mine, p) = PutIn(E, p)
    <3>1. wm[p] + k = Len(m)
      BY <2>2, <2>3, <2>5, OpenIsPutLast
    <3>2. QED  BY <3>1, <2>2
  <2>6. CASE PutIn(theirs, p) = PutIn(E, p)
    <3>1. E = theirs \union mine
      OBVIOUS
    <3>2. wm[p] + k = Len(m)
      BY <2>2, <2>3, <2>6, <3>1, OpenIsPutLast
    <3>3. QED  BY <3>2, <2>2
  <2>7. QED  BY <2>4, <2>5, <2>6 DEF Sides
\* A line that is kept.
<1>3. ASSUME NEW p \in 0..Len(b), p < Len(b), ~Taken(E, p), wm[p + 1] \in 1..Len(m),
             m[wm[p + 1]] \in Unended
      PROVE  wm[p + 1] = Len(m)
  <2> HIDE DEF n, G, M
  <2>1. m[wm[p + 1]] = b[p + 1]
    <3>1. Len(PutIn(E, p)) \in Nat
      BY <1>1
    <3>2. wm[p + 1] = wm[p] + Len(PutIn(E, p)) + 1
      BY <1>0, <1>3, <3>1, RewritesAt
    <3>3. Takes(m, wm[p] + Len(PutIn(E, p)), 1, b[p + 1])
      BY <1>0, <1>3, <3>1, RewritesAt
    <3>4. QED  BY <3>2, <3>3 DEF Takes
  <2>2. p + 1 = Len(b)
    <3>1. p + 1 \in 1..Len(b)
      BY <1>0, <1>3
    <3>2. QED  BY <3>1, <2>1, <1>3 DEF OpenLast
  <2>3. ~Taken(mine, p) /\ ~Taken(theirs, p)
    BY <1>3 DEF Taken
  <2>4. Len(PutIn(mine, p + 1)) = 0 /\ Len(PutIn(theirs, p + 1)) = 0
    BY <1>0, <1>1, <1>3, <2>1, <2>2, <2>3, OpenIsKeptLast
  <2>5. Len(PutIn(E, p + 1)) = 0
    <3>1. Sides(mine, theirs, E, p + 1)
      BY BothEdits
    <3>2. QED  BY <3>1, <2>4 DEF Sides
  <2>6. wm[p + 1] + Len(PutIn(E, p + 1)) = Len(m)
    <3>1. p + 1 \in 0..Len(b)
      BY <1>0, <1>3
    <3>2. QED  BY <3>1, <1>0, <1>1, <2>2, RewritesAt
  <2>7. QED  BY <2>5, <2>6, <1>0, <1>3
<1>4. 0 \in G
  <2>1. wm[0] = 0 /\ 0 \in 0..Len(b)
    BY <1>0 DEF Rewrites
  <2>2. OpenAtEnd(m, wm[0] + M(0))
    <3> HIDE DEF n, G, M
    <3> QED  BY <2>1, <1>0, <1>2 DEF OpenAtEnd
  <2>3. QED  BY <2>2
<1>5. ASSUME NEW p \in Nat, p \in G  PROVE p + 1 \in G
  <2> SUFFICES ASSUME p + 1 <= n  PROVE OpenAtEnd(m, wm[p + 1] + M(p + 1))
    OBVIOUS
  <2>0. p <= n /\ OpenAtEnd(m, wm[p] + M(p))
    BY <1>0, <1>5
  <2> SUFFICES ASSUME NEW i \in 1..Len(m), i <= wm[p + 1] + M(p + 1), m[i] \in Unended
               PROVE  i = Len(m)
    BY DEF OpenAtEnd
  <2>1. p \in 0..Len(b) /\ p + 1 \in 0..Len(b) /\ p < Len(b)
    BY <1>0
  <2>2. CASE i <= wm[p] + M(p)
    BY <2>0, <2>2 DEF OpenAtEnd
  <2> HIDE DEF G, n, M
  <2>3. CASE wm[p + 1] < i
    BY <2>1, <2>3, <1>2
  <2>4. CASE wm[p] + M(p) < i /\ i <= wm[p + 1]
    <3>1. /\ wm[p] \in Nat /\ M(p) \in Nat
          /\ wm[p + 1] = wm[p] + M(p) + (IF Taken(E, p) THEN 0 ELSE 1)
      BY <1>0, <1>1, <2>1, RewritesAt DEF M
    <3>2. ~Taken(E, p)
      BY <3>1, <2>4
    <3>3. wm[p + 1] = wm[p] + M(p) + 1
      BY <3>1, <3>2
    <3>4. i = wm[p + 1]
      <4> DEFINE x == wm[p]
                 y == wm[p + 1]
                 z == M(p)
      <4>1. x \in Nat /\ z \in Nat /\ y = x + z + 1 /\ x + z < i /\ i <= y
        BY <3>1, <3>3, <2>4
      <4>2. i \in Int
        BY <1>0
      <4> HIDE DEF x, y, z
      <4>3. i = y
        BY <4>1, <4>2
      <4>4. QED  BY <4>3 DEF y
    <3>5. QED  BY <3>2, <3>4, <2>1, <1>3
  <2>5. wm[p] \in Nat /\ M(p) \in Nat /\ wm[p + 1] \in Nat
    BY <1>0, <1>1, <2>1, RewritesAt DEF M
  <2>6. QED  BY <2>2, <2>3, <2>4, <2>5
<1>6. n \in G
  <2> HIDE DEF G, n
  <2> QED  BY <1>0, <1>4, <1>5, Induction
<1>7. wm[n] + M(n) = Len(m)
  <2>1. n \in 0..Len(b)
    BY <1>0
  <2>2. QED  BY <2>1, <1>0, <1>1, RewritesAt
<1>8. ASSUME NEW i \in 1..Len(m), m[i] \in Unended  PROVE i = Len(m)
  <2>1. i <= wm[n] + M(n)
    BY <1>7
  <2>2. n <= n
    BY <1>0
  <2>3. QED  BY <2>1, <2>2, <1>6, <1>8 DEF OpenAtEnd
<1>9. QED  BY <1>8 DEF OpenLast

------------------------------------------------------------------------------
(* Texts, entries and trees *)

\* What the merge of three texts promises.
GoodText(b, l, u, m) == m \in Seq(Lines) /\ OpenLast(m) /\ HasBothChanges(b, l, u, m)

\* What is put together from the edits of both sides has the changes of both.
LEMMA ApplyIsGood ==
  ASSUME NEW b \in Seq(Lines), NEW l \in Seq(Lines), NEW u \in Seq(Lines),
         OpenLast(b), OpenLast(l), OpenLast(u), ConflictFree(Edits(b, l), Edits(b, u))
  PROVE  /\ GoodText(b, l, u, Apply(b, Edits(b, l), Edits(b, u)))
         /\ Apply(b, Edits(b, l), Edits(b, u)) = Apply(b, Edits(b, u), Edits(b, l))
         /\ ConflictFree(Edits(b, u), Edits(b, l))
<1> DEFINE mine == Edits(b, l)
           theirs == Edits(b, u)
           E == mine \union theirs
           m == Apply(b, mine, theirs)
<1>0. ConflictFree(mine, theirs) /\ Len(b) \in Nat
  OBVIOUS
<1>1. /\ EditSet(mine, Len(b), Lines) /\ EditSet(theirs, Len(b), Lines)
      /\ Separate(mine) /\ Separate(theirs)
  BY EditsRewrite DEF EditSet
<1>2. PICK wl : Rewrites(b, l, mine, wl)
  BY EditsRewrite
<1>3. PICK wu : Rewrites(b, u, theirs, wu)
  BY EditsRewrite
<1> HIDE DEF mine, theirs
<1>4. UniqueStarts(E)
  BY <1>0, <1>1, EditsStartApart
<1>5. m \in Seq(Lines) /\ m = Apply(b, theirs, mine) /\ \E w : Rewrites(b, m, E, w)
  BY <1>1, <1>4, ApplyRewrites
<1> HIDE DEF m
<1>6. PICK wm : Rewrites(b, m, E, wm)
  BY <1>5
<1>7. ConflictFree(theirs, mine)
  BY <1>0, <1>1, TouchingIsMutual
<1>8. HasBothChanges(b, l, u, m)
  BY <1>1, <1>2, <1>3, <1>4, <1>5, <1>6, MergedHasBothChanges
<1>9. OpenLast(m)
  BY <1>0, <1>1, <1>2, <1>3, <1>4, <1>5, <1>6, <1>7, MergedIsOpenLast
<1>10. QED  BY <1>5, <1>7, <1>8, <1>9 DEF GoodText, m, mine, theirs

\* The merge of three texts when each side changed the base: it has the changes of both.
LEMMA MergeTextIs ==
  ASSUME NEW b \in Seq(Lines), NEW l \in Seq(Lines), NEW u \in Seq(Lines),
         OpenLast(b), OpenLast(l), OpenLast(u)
  PROVE  /\ \A m \in MergeText(b, l, u) : \/ m = l /\ (l = u \/ b = u)
                                          \/ m = u /\ b = l
                                          \/ GoodText(b, l, u, m)
         /\ MergeText(b, l, u) = MergeText(b, u, l)
<1> DEFINE mine == Edits(b, l)
           theirs == Edits(b, u)
<1>1. CASE l = u \/ b = u \/ b = l
  BY <1>1 DEF MergeText
<1>2. CASE ~(l = u \/ b = u \/ b = l) /\ (TooComplex(b, l) \/ TooComplex(b, u))
  BY <1>2 DEF MergeText
<1>3. CASE ~(l = u \/ b = u \/ b = l) /\ ~(TooComplex(b, l) \/ TooComplex(b, u))
  <2>1. /\ MergeText(b, l, u) = IF ConflictFree(mine, theirs) THEN {Apply(b, mine, theirs)} ELSE {}
        /\ MergeText(b, u, l) = IF ConflictFree(theirs, mine) THEN {Apply(b, theirs, mine)} ELSE {}
    BY <1>3 DEF MergeText, ConflictFree
  <2>2. EditSet(mine, Len(b), Lines) /\ EditSet(theirs, Len(b), Lines)
    BY EditsRewrite DEF EditSet
  <2>3. ConflictFree(mine, theirs) <=> ConflictFree(theirs, mine)
    BY <2>2, TouchingIsMutual
  <2>4. CASE ConflictFree(mine, theirs)
    <3>1. /\ GoodText(b, l, u, Apply(b, mine, theirs))
          /\ Apply(b, mine, theirs) = Apply(b, theirs, mine)
      BY <2>4, ApplyIsGood
    <3>2. QED  BY <3>1, <2>1, <2>3, <2>4
  <2>5. CASE ~ConflictFree(mine, theirs)
    BY <2>1, <2>3, <2>5
  <2>6. QED  BY <2>4, <2>5
<1>4. QED  BY <1>1, <1>2, <1>3

\* The texts of a tree have an open line only at their end, and so has one that is put together.
LEMMA TextsAreOpenLast ==
  /\ \A d \in Texts : d \in Seq(Lines) /\ OpenLast(d)
  /\ \A d \in Seq(Lines) : OpenLast(d) => d \in Texts
<1>1. ASSUME NEW d \in Seq(Lines)  PROVE d \in Texts <=> OpenLast(d)
  <2>1. Len(d) \in Nat
    OBVIOUS
  <2>2. d \in Texts <=> \A i \in 1 .. Len(d) - 1 : d[i] \notin Unended
    BY DEF Texts
  <2>3. (\A i \in 1 .. Len(d) - 1 : d[i] \notin Unended) <=> OpenLast(d)
    BY <2>1 DEF OpenLast
  <2>4. QED  BY <2>2, <2>3
<1>2. Texts \subseteq Seq(Lines)
  BY DEF Texts
<1>3. QED  BY <1>1, <1>2

\* The entries of a path that can be there.
Known == Entries \union {Absent}

\* An entry with another text.
LEMMA WithText ==
  ASSUME NEW b \in Entries, NEW x \in Texts
  PROVE  /\ [b EXCEPT !.data = x] \in Entries
         /\ [b EXCEPT !.data = x].kind = b.kind /\ [b EXCEPT !.data = x].exec = b.exec
         /\ [b EXCEPT !.data = x].data = x
BY DEF Entries

\* The entry of a path that a merge makes is lawful, whichever side is called local.
LEMMA MergeEntryIs ==
  ASSUME NEW b \in Known, NEW o \in Known, NEW t \in Known, {b, o, t} # {Absent}
  PROVE  /\ \A m \in MergeEntry(b, o, t) : m \in Known /\ Lawful(b, o, t, m)
         /\ MergeEntry(b, o, t) = MergeEntry(b, t, o)
<1>0. /\ Absent.kind = "absent" /\ Absent.exec = FALSE /\ Absent.data = <<>>
      /\ Absent \notin Entries /\ Len(Absent.data) = 0
  BY DEF Absent, Entries
<1>1. \A e \in Known : /\ e # Absent => e \in Entries
                       /\ \A i \in 1 .. Len(e.data) - 1 : e.data[i] \notin Unended
  <2>1. \A d \in Texts : \A i \in 1 .. Len(d) - 1 : d[i] \notin Unended
    BY DEF Texts
  <2>2. \A e \in Entries : e.data \in Texts
    BY DEF Entries
  <2>3. QED  BY <2>1, <2>2, <1>0 DEF Known
<1>2. CASE b = Absent
  <2>1. /\ MergeEntry(b, o, t) = IF {o, t} \ {Absent} = {} THEN {Absent}
                                 ELSE {e \in {o, t} \ {Absent} :
                                         {o, t} \ {Absent} = {e} /\ SafeNewEntry(e)}
        /\ {o, t} = {t, o}
    BY <1>2 DEF MergeEntry
  <2>2. MergeEntry(b, t, o) = IF {t, o} \ {Absent} = {} THEN {Absent}
                              ELSE {e \in {t, o} \ {Absent} :
                                      {t, o} \ {Absent} = {e} /\ SafeNewEntry(e)}
    BY <1>2 DEF MergeEntry
  <2>3. {o, t} \ {Absent} # {}
    BY <1>2
  <2>4. ASSUME NEW m \in MergeEntry(b, o, t)  PROVE m \in Known /\ Lawful(b, o, t, m)
    <3>1. m \in {o, t} \ {Absent} /\ {o, t} \ {Absent} = {m} /\ SafeNewEntry(m)
      BY <2>1, <2>3, <2>4
    <3>2. (m = o /\ (o = t \/ b = t)) \/ (m = t /\ b = o)
      BY <3>1, <1>2
    <3>3. m.kind = "text" /\ ~m.exec
      BY <3>1 DEF SafeNewEntry
    <3>4. m \in Known
      BY <3>1
    <3>5. QED  BY <3>2, <3>3, <3>4, <1>1 DEF Lawful
  <2>5. QED  BY <2>1, <2>2, <2>4
<1>3. CASE b # Absent /\ Absent \in {o, t}
  <2>1. MergeEntry(b, o, t) = {e \in {Absent} : {o, t} \ {b, Absent} = {} /\ b.kind = "text"}
    BY <1>3 DEF MergeEntry
  <2>2. MergeEntry(b, t, o) = {e \in {Absent} : {t, o} \ {b, Absent} = {} /\ b.kind = "text"}
    BY <1>3 DEF MergeEntry
  <2>3. ASSUME NEW m \in MergeEntry(b, o, t)  PROVE m \in Known /\ Lawful(b, o, t, m)
    <3>1. m = Absent /\ {o, t} \ {b, Absent} = {}
      BY <2>1, <2>3
    <3>2. (m = o /\ (o = t \/ b = t)) \/ (m = t /\ b = o)
      BY <3>1, <1>3
    <3>3. m \in Known
      BY <3>1 DEF Known
    <3>4. QED  BY <3>1, <3>2, <3>3, <1>0, <1>1 DEF Lawful
  <2>4. {t, o} = {o, t}
    OBVIOUS
  <2>5. QED  BY <2>1, <2>2, <2>3, <2>4
<1>4. CASE b # Absent /\ Absent \notin {o, t}
  <2> DEFINE known == {b, o, t} \ {Absent}
             refused == (\E e \in known : e.kind = "symlink") \/ (\E e \in known : e.exec # b.exec)
             binary == \E e \in known : e.kind = "binary"
  <2>1. /\ MergeEntry(b, o, t) =
             IF refused THEN {} ELSE IF binary THEN {e \in {b} : known = {b}}
             ELSE {[b EXCEPT !.data = x] : x \in MergeText(b.data, o.data, t.data)}
        /\ MergeEntry(b, t, o) =
             IF refused THEN {} ELSE IF binary THEN {e \in {b} : known = {b}}
             ELSE {[b EXCEPT !.data = x] : x \in MergeText(b.data, t.data, o.data)}
    <3>1. {b, t, o} = {b, o, t} /\ Absent \notin {t, o}
      BY <1>4
    <3>2. QED  BY <1>4, <3>1 DEF MergeEntry
  <2>2. known = {b, o, t} /\ b \in Entries /\ o \in Entries /\ t \in Entries
    BY <1>1, <1>4
  <2> HIDE DEF known
  <2>3. CASE refused
    BY <2>1, <2>3
  <2>4. CASE ~refused /\ binary
    <3>1. MergeEntry(b, t, o) = MergeEntry(b, o, t)
      BY <2>1, <2>4
    <3>2. ASSUME NEW m \in MergeEntry(b, o, t)  PROVE m \in Known /\ Lawful(b, o, t, m)
      <4>1. m = b /\ o = b /\ t = b
        BY <2>1, <2>2, <2>4, <3>2
      <4>2. b.kind # "symlink"
        BY <2>2, <2>4
      <4>3. QED  BY <4>1, <4>2, <1>1, <1>4 DEF Lawful
    <3>3. QED  BY <3>1, <3>2
  <2>5. CASE ~refused /\ ~binary
    <3>1. \A e \in {b, o, t} : /\ e \in Entries /\ e.kind = "text" /\ e.exec = b.exec
                               /\ e.data \in Seq(Lines) /\ OpenLast(e.data)
      <4>1. \A e \in Entries : e.kind \in {"text", "binary", "symlink"} /\ e.data \in Texts
        BY DEF Entries
      <4>2. QED  BY <4>1, <2>2, <2>5, TextsAreOpenLast
    <3>2. /\ \A x \in MergeText(b.data, o.data, t.data) :
               \/ x = o.data /\ (o.data = t.data \/ b.data = t.data)
               \/ x = t.data /\ b.data = o.data
               \/ GoodText(b.data, o.data, t.data, x)
          /\ MergeText(b.data, o.data, t.data) = MergeText(b.data, t.data, o.data)
      BY <3>1, MergeTextIs
    <3>3. MergeEntry(b, t, o) = MergeEntry(b, o, t)
      BY <2>1, <2>5, <3>2
    <3>4. ASSUME NEW m \in MergeEntry(b, o, t)  PROVE m \in Known /\ Lawful(b, o, t, m)
      <4>1. PICK x \in MergeText(b.data, o.data, t.data) : m = [b EXCEPT !.data = x]
        BY <2>1, <2>5, <3>4
      <4>2. x \in Texts
        BY <3>1, <3>2, TextsAreOpenLast DEF GoodText
      <4>3. m \in Entries /\ m.kind = "text" /\ m.exec = b.exec /\ m.data = x
        BY <4>1, <4>2, <3>1, WithText
      <4>4. m \in Known /\ m # Absent
        BY <4>3, <1>0 DEF Known
      <4>5. \A e, f \in {b, o, t, m} : e.data = f.data => e = f
        <5>1. \A e \in {b, o, t, m} : e \in Entries /\ e.kind = "text" /\ e.exec = b.exec
          BY <3>1, <4>3
        <5>2. QED  BY <5>1 DEF Entries
      <4>6. CASE x = o.data /\ (o.data = t.data \/ b.data = t.data)
        <5>1. m = o /\ (o = t \/ b = t)
          BY <4>3, <4>5, <4>6
        <5>2. QED  BY <5>1, <4>3, <4>4, <1>1, <1>4 DEF Lawful
      <4>7. CASE x = t.data /\ b.data = o.data
        <5>1. m = t /\ b = o
          BY <4>3, <4>5, <4>7
        <5>2. QED  BY <5>1, <4>3, <4>4, <1>1, <1>4 DEF Lawful
      <4>8. CASE GoodText(b.data, o.data, t.data, x)
        <5>1. HasBothChanges(b.data, o.data, t.data, m.data)
          BY <4>3, <4>8 DEF GoodText
        <5>2. \A e \in {b, o, t, m} : e.kind = "text" /\ e.exec = b.exec
          BY <3>1, <4>3
        <5>3. QED  BY <5>1, <5>2, <4>3, <4>4, <1>1, <1>4 DEF Lawful
      <4>9. QED  BY <4>6, <4>7, <4>8, <3>2
    <3>5. QED  BY <3>3, <3>4
  <2>6. QED  BY <2>3, <2>4, <2>5
<1>5. QED  BY <1>2, <1>3, <1>4

\* A tree maps its paths to entries.
IsTree(t) == t \in [DOMAIN t -> Entries]

\* The entry at a path of a tree.
LEMMA AtIs ==
  ASSUME NEW t, IsTree(t), NEW p
  PROVE  At(t, p) \in Known /\ (p \in DOMAIN t => At(t, p) = t[p] /\ At(t, p) # Absent)
<1>1. Absent \notin Entries
  BY DEF Absent, Entries
<1>2. p \in DOMAIN t => t[p] \in Entries
  BY DEF IsTree
<1>3. QED  BY <1>1, <1>2 DEF At, Known

\* What a merged tree promises: a lawful entry for each path, and no file where another needs
\* a directory.
GoodTree(b, l, u, m) ==
  /\ IsTree(m)
  /\ \A p \in DOMAIN b \union DOMAIN l \union DOMAIN u :
       Lawful(At(b, p), At(l, p), At(u, p), At(m, p))
  /\ \A x \in Under : ~({x[1], x[2]} \subseteq DOMAIN m)

\* The merge of three trees.
LEMMA MergeTreeIs ==
  ASSUME NEW b, NEW l, NEW u, IsTree(b), IsTree(l), IsTree(u)
  PROVE  /\ \A m \in MergeTree(b, l, u) : GoodTree(b, l, u, m)
         /\ MergeTree(b, l, u) = MergeTree(b, u, l)
<1> DEFINE paths == DOMAIN b \union DOMAIN l \union DOMAIN u
           Entry(p) == MergeEntry(At(b, p), At(l, p), At(u, p))
           Other(p) == MergeEntry(At(b, p), At(u, p), At(l, p))
           kept == {p \in paths : Absent \notin Entry(p)}
<1>1. ASSUME NEW p \in paths
      PROVE  /\ \A m \in Entry(p) : m \in Known /\ Lawful(At(b, p), At(l, p), At(u, p), m)
             /\ Entry(p) = Other(p)
  <2>1. At(b, p) \in Known /\ At(l, p) \in Known /\ At(u, p) \in Known
    BY AtIs
  <2>2. {At(b, p), At(l, p), At(u, p)} # {Absent}
    BY AtIs
  <2>3. QED  BY <2>1, <2>2, MergeEntryIs
<1>2. MergeTree(b, l, u) =
        IF ~ValidatePaths(paths) \/ \E p \in paths : Entry(p) = {} THEN {}
        ELSE {[p \in kept |-> CHOOSE e \in Entry(p) : TRUE]}
  BY DEF MergeTree
<1>3. MergeTree(b, u, l) = MergeTree(b, l, u)
  <2> DEFINE others == {p \in paths : Absent \notin Other(p)}
  <2>1. DOMAIN b \union DOMAIN u \union DOMAIN l = paths
    OBVIOUS
  <2>2. MergeTree(b, u, l) =
          IF ~ValidatePaths(paths) \/ \E p \in paths : Other(p) = {} THEN {}
          ELSE {[p \in others |-> CHOOSE e \in Other(p) : TRUE]}
    BY <2>1 DEF MergeTree
  <2> HIDE DEF paths, Entry, Other
  <2>3. others = kept
    BY <1>1
  <2>4. (\E p \in paths : Other(p) = {}) <=> (\E p \in paths : Entry(p) = {})
    BY <1>1
  <2>5. \A p \in kept : (CHOOSE e \in Entry(p) : TRUE) = (CHOOSE e \in Other(p) : TRUE)
    <3>1. \A p \in kept : Entry(p) = Other(p)
      BY <1>1
    <3>2. QED  BY <3>1
  <2>6. [p \in others |-> CHOOSE e \in Other(p) : TRUE] =
          [p \in kept |-> CHOOSE e \in Entry(p) : TRUE]
    BY <2>3, <2>5
  <2>7. QED  BY <1>2, <2>2, <2>4, <2>6
<1>4. ASSUME NEW m \in MergeTree(b, l, u)  PROVE GoodTree(b, l, u, m)
  <2>1. /\ ValidatePaths(paths) /\ \A p \in paths : Entry(p) # {}
        /\ m = [p \in kept |-> CHOOSE e \in Entry(p) : TRUE]
    <3> HIDE DEF paths, Entry, kept
    <3> QED  BY <1>2, <1>4
  <2> HIDE DEF Entry
  <2>2. DOMAIN m = kept /\ \A p \in kept : m[p] \in Entry(p) /\ m[p] # Absent
    BY <2>1
  <2>3. \A p \in kept : m[p] \in Entries
    BY <2>2, <1>1 DEF Known
  <2>4. IsTree(m)
    BY <2>1, <2>3 DEF IsTree
  <2>5. ASSUME NEW p \in paths  PROVE Lawful(At(b, p), At(l, p), At(u, p), At(m, p))
    <3>1. At(m, p) \in Entry(p)
      <4>1. CASE p \in kept
        BY <4>1, <2>2 DEF At
      <4>2. CASE p \notin kept
        BY <4>2, <2>2, <2>5 DEF At
      <4>3. QED  BY <4>1, <4>2
    <3> HIDE DEF paths
    <3>2. QED  BY <3>1, <2>5, <1>1
  <2>6. ASSUME NEW x \in Under  PROVE ~({x[1], x[2]} \subseteq DOMAIN m)
    BY <2>1, <2>2 DEF ValidatePaths
  <2>7. QED  BY <2>4, <2>5, <2>6 DEF GoodTree
<1>5. QED  BY <1>3, <1>4

------------------------------------------------------------------------------
(* The update *)

\* What an update knows and has made in each phase.  Of a merge only its tree is written.
Merging ==
  CASE base = {} -> {}
    [] base # {} /\ runtime -> {u \in {upstream} : base = {local}}
    [] OTHER -> UNION {MergeTree(b, local, upstream) : b \in base}
MergeInv ==
  /\ \A t \in base \union {local, upstream} : IsTree(t)
  /\ \A b, c \in base : b = c
  /\ runtime \in BOOLEAN
  /\ phase \in {"merging", "merged", "needs_review", "validating"}
  /\ phase = "merging" => merged = {}
  /\ phase # "merging" => merged = Merging
  /\ IF phase = "validating" THEN disk \in merged ELSE disk = <<>>

\* What an update writes is what upstream has or a merged tree.
LEMMA MergingIs ==
  ASSUME MergeInv, NEW t \in Merging
  PROVE  /\ IsTree(t)
         /\ runtime => t = upstream /\ base = {local}
         /\ ~runtime => \A b \in base : GoodTree(b, local, upstream, t)
<1>1. CASE runtime
  BY <1>1 DEF Merging, MergeInv
<1>2. CASE ~runtime
  <2>1. PICK b \in base : t \in MergeTree(b, local, upstream)
    BY <1>2 DEF Merging
  <2>2. GoodTree(b, local, upstream, t)
    BY <2>1, MergeTreeIs DEF MergeInv
  <2>3. \A c \in base : c = b
    BY <2>1 DEF MergeInv
  <2>4. QED  BY <2>2, <2>3, <1>2 DEF GoodTree
<1>3. QED  BY <1>1, <1>2

\* The types of a tree.
LEMMA TreeTypes ==
  ASSUME NEW t, IsTree(t)
  PROVE  \A p \in DOMAIN t : /\ t[p].kind \in {"text", "binary", "symlink"}
                             /\ t[p].exec \in BOOLEAN /\ t[p].data \in Seq(Lines)
<1>1. \A p \in DOMAIN t : t[p] \in Entries
  BY DEF IsTree
<1>2. QED  BY <1>1 DEF Entries, Texts

\* The invariant implies what is checked.
LEMMA MergeInvIsLawful == MergeInv => MergesAreLawful /\ MergeTypeOK
<1> SUFFICES ASSUME MergeInv  PROVE MergesAreLawful /\ MergeTypeOK
  OBVIOUS
<1>1. \A t \in merged : IsTree(t)
  <2>1. \A t \in merged : t \in Merging
    BY DEF MergeInv
  <2>2. QED  BY <2>1, MergingIs
<1>2. IsTree(disk)
  <2>1. CASE phase = "validating"
    BY <2>1, <1>1 DEF MergeInv
  <2>2. CASE phase # "validating"
    <3>1. disk = <<>> /\ DOMAIN disk = {}
      BY <2>2 DEF MergeInv
    <3>2. QED  BY <3>1 DEF IsTree
  <2>3. QED  BY <2>1, <2>2
<1>3. MergeTypeOK
  <2>1. \A t \in base \union {local, upstream, disk} \union merged : IsTree(t)
    BY <1>1, <1>2 DEF MergeInv
  <2>2. QED  BY <2>1, TreeTypes DEF MergeTypeOK, MergeInv
<1>4. phase = "validating" => disk \in Merging
  BY DEF MergeInv
<1>5. \A b \in base : MergeTree(b, local, upstream) = MergeTree(b, upstream, local)
  BY MergeTreeIs DEF MergeInv
<1>6. phase = "validating" /\ ~runtime => \A b \in base : GoodTree(b, local, upstream, disk)
  BY <1>4, MergingIs
<1>7. phase = "validating" /\ runtime => disk = upstream /\ base = {local}
  BY <1>4, MergingIs
<1>8. MergesAreLawful
  BY <1>5, <1>6, <1>7 DEF MergesAreLawful, GoodTree
<1>9. QED  BY <1>3, <1>8

\* It holds of what an update begins with.
LEMMA MergeInvInit == MergeInit => MergeInv
<1> SUFFICES ASSUME MergeInit  PROVE MergeInv
  OBVIOUS
<1>1. PICK F \in Families : /\ base \in {{}} \union {{b} : b \in F[1]}
                            /\ local \in F[2] /\ upstream \in F[2]
  BY DEF MergeInit
<1>2. \A t \in base \union {local, upstream} : IsTree(t)
  BY <1>1, FamiliesAssumption DEF IsTree
<1>3. \A b, c \in base : b = c
  BY <1>1
<1>4. QED  BY <1>2, <1>3 DEF MergeInit, MergeInv

\* And each step of the update keeps it.
LEMMA MergeInvStep == MergeInv /\ MergeNext => MergeInv'
<1> SUFFICES ASSUME MergeInv, MergeNext  PROVE MergeInv'
  OBVIOUS
<1>1. base' = base /\ local' = local /\ upstream' = upstream /\ runtime' = runtime
  BY DEF MergeNext, Merge, WriteMergeTree
<1>2. Merging' = Merging
  BY <1>1 DEF Merging
<1>3. CASE Merge
  <2>1. merged' = Merging /\ phase' \in {"merged", "needs_review"} /\ disk' = disk
    BY <1>3 DEF Merge, Merging
  <2>2. phase = "merging"
    BY <1>3 DEF Merge
  <2>3. QED  BY <1>1, <1>2, <2>1, <2>2 DEF MergeInv
<1>4. CASE WriteMergeTree
  BY <1>1, <1>2, <1>4 DEF WriteMergeTree, MergeInv
<1>5. QED  BY <1>3, <1>4 DEF MergeNext

\* The life of the binding does not touch the merge.
LEMMA MergeInvStays == MergeInv /\ UNCHANGED mergeVars => MergeInv'
<1> SUFFICES ASSUME MergeInv, UNCHANGED mergeVars  PROVE MergeInv'
  OBVIOUS
<1>1. /\ base' = base /\ local' = local /\ upstream' = upstream /\ runtime' = runtime
      /\ phase' = phase /\ merged' = merged /\ disk' = disk
  BY DEF mergeVars
<1>2. Merging' = Merging
  BY <1>1 DEF Merging
<1>3. QED  BY <1>1, <1>2 DEF MergeInv

\* What an update knows and has made is as MergeInv says: the base, the two sides, and the
\* merged tree that it computed from them.
THEOREM MergeCorrect == UpdateSpec => []MergeInv
<1>1. UpdateInit => MergeInv
  <2>1. ASSUME base = {}, local = <<>>, upstream = <<>>, runtime = FALSE, phase = "merging",
               merged = {}, disk = <<>>
        PROVE  MergeInv
    <3>1. DOMAIN <<>> = {} /\ IsTree(<<>>)
      BY DEF IsTree
    <3>2. QED  BY <2>1, <3>1 DEF MergeInv
  <2>2. QED  BY <2>1, MergeInvInit DEF UpdateInit
<1>2. MergeInv /\ [UpdateNext]_<<merges, vars, mergeVars>> => MergeInv'
  <2> SUFFICES ASSUME MergeInv, [UpdateNext]_<<merges, vars, mergeVars>>  PROVE MergeInv'
    OBVIOUS
  <2>1. MergeNext \/ UNCHANGED mergeVars
    BY DEF UpdateNext, BindingSteps, MergeSteps, MergeEnds
  <2>2. QED  BY <2>1, MergeInvStep, MergeInvStays
<1>3. QED  BY <1>1, <1>2, PTL DEF UpdateSpec

\* What an update writes for activation without a review (lifecycle/update.go, merge.go,
\* text.go) has, path by path, the changes of both sides and nothing else, however long the
\* texts are and whatever else the trees have; no two lines become one, no file stands where
\* another needs a directory, and it makes no difference which side is called local.
THEOREM MergesLawful == UpdateSpec => []MergesAreLawful
<1>1. QED  BY MergeInvIsLawful, MergeCorrect, PTL

\* The composition behaves as a binding does, so that the theorems above hold of it too.
THEOREM UpdateBehavesAsBinding == UpdateSpec => Spec
<1>1. UpdateInit => Init
  BY DEF UpdateInit
<1>2. [UpdateNext]_<<merges, vars, mergeVars>> => [Next]_vars
  BY DEF UpdateNext, BindingSteps, MergeSteps, MergeEnds
<1>3. QED  BY <1>1, <1>2, PTL DEF UpdateSpec, Spec

\* The types of the binding and of the merge.
THEOREM UpdateTypeCorrect == UpdateSpec => []UpdateTypeOK
<1>1. TypeOK /\ MergeInv => UpdateTypeOK
  BY MergeInvIsLawful DEF UpdateTypeOK
<1>2. QED  BY <1>1, TypeCorrect, UpdateBehavesAsBinding, MergeCorrect, PTL

=============================================================================
