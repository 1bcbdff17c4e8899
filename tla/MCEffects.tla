------------------------------ MODULE MCEffects -------------------------------
(***************************************************************************)
(* The commands that change files of the user, checked by one run: an      *)
(* adoption, the capture of a directory, the drivers of a bundle and the   *)
(* commands that set ToolTend up.  They take turns under the activation    *)
(* lock, so a behaviour is one of a single command: which, chosen at the   *)
(* beginning, tells whose; the variables of the others keep their initial  *)
(* values.                                                                 *)
(***************************************************************************)
EXTENDS Adoption

CONSTANTS p1, f, g

(* Every kind of adoption; a directory is edited twice.                    *)
MCKinds == {"file", "hook", "cli", "stdio"}
MCEdits == [k \in MCKinds |-> IF k = "file" THEN 2 ELSE 1]

VARIABLES
  which,
  (* ObjectStore *)
  source, oEdits, blobs, trees, rotten, oPc, oJob, generation, been, oFaults,
  (* Driver *)
  drivers, installations, entries, stage, status, steps, dItem, dAt, dTries, aside, failures,
  worker, first,
  (* Setup *)
  file, scheduled, managed, uLock, uPc, uAt, seen, copy, complete, plan, op, planned,
  manager, newest, saved, uLate, uEdits, resets

O == INSTANCE ObjectStore WITH
       Procs <- {p1}, Files <- {f, g}, MaxEdit <- 2, MaxFault <- 1,
       tree <- source, edits <- oEdits, pc <- oPc, job <- oJob, faults <- oFaults
D == INSTANCE Driver WITH
       N <- 2, Retries <- 2, kind <- drivers, path <- installations, item <- dItem, at <- dAt,
       tries <- dTries
U == INSTANCE Setup WITH
       MaxEvent <- 3, MaxReset <- 1,
       lock <- uLock, pc <- uPc, at <- uAt, late <- uLate, edits <- uEdits

(* What the theorems about the store, the drivers and the setup assume     *)
(* holds here.                                                             *)
ASSUME EffectsBounds == O!StoreBounds /\ D!DriverBounds /\ U!SetupBounds

oVars == <<source, oEdits, blobs, trees, rotten, oPc, oJob, generation, been, oFaults>>
dVars == <<drivers, installations, entries, stage, status, steps, dItem, dAt, dTries, aside,
           failures, worker, first>>
uVars == <<file, scheduled, managed, uLock, uPc, uAt, seen, copy, complete, plan, op, planned,
           manager, newest, saved, uLate, uEdits, resets>>

Commands == {"adoption", "capture", "driver", "setup"}
(* Of the commands that do not move one initial state is enough.           *)
EffectsInit ==
  /\ which \in Commands
  /\ Init /\ (which = "adoption" \/ (kind = "hook" /\ ~config.managed))
  /\ O!Init /\ U!Init
  /\ D!Init /\ (which = "driver" \/ (/\ drivers = [i \in D!Items |-> "git"] /\ entries = {}
                                     /\ installations = [i \in D!Items |-> "old"]))

AdoptionNext == which = "adoption" /\ Next /\ UNCHANGED <<which, oVars, dVars, uVars>>
CaptureNext == which = "capture" /\ O!Next /\ UNCHANGED <<which, vars, dVars, uVars>>
DriverNext == which = "driver" /\ D!Next /\ UNCHANGED <<which, vars, oVars, uVars>>
SetupNext == which = "setup" /\ U!Next /\ UNCHANGED <<which, vars, oVars, dVars>>
EffectsNext == AdoptionNext \/ CaptureNext \/ DriverNext \/ SetupNext

(* The fairness of the adoption, the only command that has one.            *)
EffectsSpec ==
  /\ EffectsInit /\ [][EffectsNext]_<<which, vars, oVars, dVars, uVars>>
  /\ WF_vars(which = "adoption" /\ (Recover \/ Adopt))

(* The types of all four modules.                                          *)
EffectsTypeOK == TypeOK /\ O!TypeOK /\ D!TypeOK /\ U!TypeOK

(* The properties of the modules, where they are explained.                *)
(* objectstore/store.go: no mixture of two states of a directory.          *)
CapturesAreReal == O!CapturesAreReal
(* bundledriver/driver.go: everything new, or everything as it was.        *)
TransactionIsWhole == D!TransactionIsWhole
(* cli/reset.go: everything rebuilt, or everything put back.               *)
ResetsAreWhole == U!ResetsAreWhole
===============================================================================
