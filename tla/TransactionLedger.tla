-------------------------- MODULE TransactionLedger --------------------------
(***************************************************************************)
(* What ToolTend promises to whoever reads the history of a Bundle or of a *)
(* binding: each transaction is settled at most once, the release moves in *)
(* one step with the outcome and the receipt of the transaction that moved *)
(* it, and otherwise only when a scan reports what it found.  How journals *)
(* and recovery bring that about is the business of BundleTxn (the release *)
(* of a Bundle) and of Activation (the generation of a binding).           *)
(***************************************************************************)
EXTENDS Sequences

CONSTANTS
  Transaction, Release, InitialRelease,
  Observes  \* whether a scan may set the release

VARIABLES
  outcome,  \* per transaction: "none", "open" or how it was settled
  target,   \* the release it was opened for
  release,  \* the release the Bundle is at
  receipt   \* the receipts each transaction has left

lvars == <<outcome, target, release, receipt>>

Outcomes == {"none", "open", "committed", "rolled_back", "failed"}

LedgerInit ==
  /\ outcome = [t \in Transaction |-> "none"]
  /\ target \in [Transaction -> Release]
  /\ release = InitialRelease
  /\ receipt = [t \in Transaction |-> <<>>]

Open(t, r) ==
  /\ outcome[t] = "none"
  /\ outcome' = [outcome EXCEPT ![t] = "open"]
  /\ target' = [target EXCEPT ![t] = r]
  /\ UNCHANGED <<release, receipt>>

Settle(t, how) ==
  /\ outcome[t] = "open"
  /\ outcome' = [outcome EXCEPT ![t] = how]
  /\ UNCHANGED target

LeaveReceipt(t, status) == receipt' = [receipt EXCEPT ![t] = Append(@, status)]

Install(t)  == Settle(t, "committed") /\ release' = target[t] /\ LeaveReceipt(t, "succeeded")
Prepare(t)  == Settle(t, "committed") /\ UNCHANGED <<release, receipt>>
Undo(t)     == Settle(t, "rolled_back") /\ UNCHANGED release /\ LeaveReceipt(t, "rolled_back")
Abandon(t)  == Settle(t, "failed") /\ UNCHANGED <<release, receipt>>

Observe ==
  /\ Observes /\ release' \in Release
  /\ UNCHANGED <<outcome, target, receipt>>

LedgerNext ==
  \/ \E t \in Transaction : \/ \E r \in Release : Open(t, r)
                            \/ Install(t) \/ Prepare(t) \/ Undo(t) \/ Abandon(t)
  \/ Observe

LedgerSpec == LedgerInit /\ [][LedgerNext]_lvars

=============================================================================
