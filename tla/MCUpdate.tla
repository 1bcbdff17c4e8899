------------------------------- MODULE MCUpdate -------------------------------
(***************************************************************************)
(* The life of a managed binding and the merge that each of its updates    *)
(* begins with, checked by one run.  Activation knows of a merge only      *)
(* whether it needs a review, so a behaviour is one of the two: merges,    *)
(* chosen at the beginning, tells which; the variables of the other keep   *)
(* their initial values.                                                   *)
(***************************************************************************)
EXTENDS MCActivation, Merge

(* Every text of up to four lines changed to texts of up to three, "o"     *)
(* being a line without a newline; and one path of every kind, with one    *)
(* below it.                                                               *)
MCTexts == {d \in UNION {[1 .. n -> {"x", "y", "o"}] : n \in 0 .. 4} :
              \A i \in 1 .. Len(d) - 1 : d[i] # "o"}
MCText(d) == [kind |-> "text", exec |-> FALSE, data |-> d]
MCDocs(n) == {[doc |-> MCText(d)] : d \in {d \in MCTexts : Len(d) <= n}}
MCEntries ==
  {[kind |-> x[1], exec |-> x[2], data |-> <<x[3]>>] :
     x \in ({"text", "binary"} \X {FALSE} \X {"x", "y"})
             \union {<<"text", TRUE, "x">>, <<"symlink", FALSE, "x">>}}
MCTrees == {<<>>} \union [{"a"} -> MCEntries] \union [{"a/b"} -> MCEntries]
MCUnder == {<<"a/b", "a">>}
MCFamilies == {<<MCDocs(4), MCDocs(3)>>, <<MCTrees, MCTrees>>}

VARIABLE merges

(* Of the binding that does not move one initial state is enough.          *)
UpdateInit ==
  /\ merges \in BOOLEAN
  /\ Init
  /\ \/ merges /\ MergeInit
     \/ /\ ~merges /\ base = {} /\ local = <<>> /\ upstream = <<>> /\ runtime = FALSE
        /\ phase = "merging" /\ merged = {} /\ disk = <<>>

BindingSteps == ~merges /\ Next /\ UNCHANGED <<merges, mergeVars>>
MergeSteps == merges /\ MergeNext /\ UNCHANGED <<merges, vars>>
MergeEnds == merges /\ phase \in {"needs_review", "validating"} /\ UNCHANGED <<merges, vars, mergeVars>>
UpdateNext == BindingSteps \/ MergeSteps \/ MergeEnds

UpdateSpec == UpdateInit /\ [][UpdateNext]_<<merges, vars, mergeVars>>

(* The types of both modules.                                              *)
UpdateTypeOK == TypeOK /\ MergeTypeOK
===============================================================================
