----------------------------- MODULE MCActivation -----------------------------
(* Instances of Activation for TLC: a source with two refs. *)
EXTENDS Activation

MCRefs == {1, 2}
=============================================================================
