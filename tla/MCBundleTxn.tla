----------------------------- MODULE MCBundleTxn -----------------------------
(* Instances of BundleTxn for TLC: two installations, the second one a hook. *)
EXTENDS BundleTxn

\* what is installed at first, what a receipt from before allows to go back to, and
\* what the resolvers may report: both artifacts moved, or the first one only
MCInitial       == <<2, 2>>
MCPriorReceipts == {<<1, 1>>}
MCResolvable    == {<<3, 3>>, <<3, 2>>}
MCOneResolvable == {<<3, 3>>}
=============================================================================
