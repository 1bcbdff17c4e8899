------------------------------ MODULE MCServices ------------------------------
(***************************************************************************)
(* The services that run without the user, checked by one run: the worker  *)
(* and its queues, the schedule with the kicks of the sessions and the     *)
(* watchdog, and the update of ToolTend itself.  They share no state that  *)
(* matters to their properties, so a behaviour is one of a single service: *)
(* which, chosen at the beginning, tells whose; the variables of the       *)
(* others keep their initial values.                                       *)
(***************************************************************************)
EXTENDS Reconcile

CONSTANTS w1, w2, p1, p2, d1

VARIABLES
  which,
  (* Wakeup *)
  latest, success, queued, alerts, wLock, marker, wPc, run, hook, slot, wFaults,
  (* SelfUpdate *)
  live, previous, origin, seq, pending, staged, sLock, sPc, sJob, sFaults

W == INSTANCE Wakeup WITH
       Workers <- {w1}, MaxSlot <- 2, MaxFault <- 1,
       lock <- wLock, pc <- wPc, faults <- wFaults
S == INSTANCE SelfUpdate WITH
       Procs <- {p1, p2}, Dirs <- {d1}, MaxRelease <- 3, MaxFault <- 2,
       lock <- sLock, pc <- sPc, job <- sJob, faults <- sFaults

(* What the theorems about the self-update assume holds here.              *)
ASSUME ServicesBounds == S!UpdateBounds

wVars == <<latest, success, queued, alerts, wLock, marker, wPc, run, hook, slot, wFaults>>
sVars == <<live, previous, origin, seq, pending, staged, sLock, sPc, sJob, sFaults>>
allVars == <<which, vars, wVars, sVars>>

Services == {"reconcile", "wakeup", "selfupdate"}
(* Of the services that do not move one initial state is enough.           *)
ServicesInit ==
  /\ which \in Services
  /\ Init /\ (which = "reconcile" \/ item = CHOOSE i \in Items : TRUE)
  /\ W!Init /\ S!Init

ReconcileNext == which = "reconcile" /\ Next /\ UNCHANGED <<which, wVars, sVars>>
WakeupNext == which = "wakeup" /\ W!Next /\ UNCHANGED <<which, vars, sVars>>
SelfUpdateNext == which = "selfupdate" /\ S!Next /\ UNCHANGED <<which, vars, wVars>>
ServicesNext == ReconcileNext \/ WakeupNext \/ SelfUpdateNext

(* The fairness of each service, while it moves.                           *)
ServicesFairness ==
  /\ \A w \in Workers :
       /\ WF_vars(which = "reconcile" /\ Step(w))
       /\ WF_vars(which = "reconcile" /\ Begin(w))
       /\ SF_vars(which = "reconcile" /\ Claim(w))
  /\ WF_vars(which = "reconcile" /\ CommandEnds)
  /\ WF_wVars(which = "wakeup" /\ W!Check) /\ WF_wVars(which = "wakeup" /\ W!Kick)
  /\ WF_wVars(which = "wakeup" /\ W!MarkerAges) /\ WF_wVars(which = "wakeup" /\ W!CommandEnds)
  /\ WF_wVars(which = "wakeup" /\ W!Step(w1))
  /\ \A p \in {p1, p2} :
       /\ WF_sVars(which = "selfupdate" /\ S!Step(p))
       /\ SF_sVars(which = "selfupdate" /\ S!ApplyLock(p))
  /\ SF_sVars(which = "selfupdate" /\ \E p \in {p1, p2} : S!Command(p, d1))
ServicesSpec == ServicesInit /\ [][ServicesNext]_allVars /\ ServicesFairness

(* The types of all three modules.                                         *)
ServicesTypeOK == TypeOK /\ W!TypeOK /\ S!TypeOK

(* The properties of the modules, where they are explained.                *)
(* reconcile/watchdog: a day without a run is told.                        *)
MissedRunsAreTold == (which = "wakeup" /\ slot = 2 /\ ~W!Healthy) ~> (W!Healthy \/ W!ToldToday)
(* kick/kick.go: a session that is due leads to a run.                     *)
KicksGoThrough == (which = "wakeup" /\ W!Due) ~> (~W!Due \/ wPc[w1] = "run")
(* selfupdate/manager.go: no older release over a newer one.               *)
UpdatesGoForward == S!UpdatesGoForward
(* selfupdate/manager.go: what is pending is applied in the end.           *)
EveryUpdateSettles == S!EveryUpdateSettles
===============================================================================
