-------------------------------- MODULE Merge ---------------------------------
(***************************************************************************)
(* The three-way merge of an update (internal/merge/merge.go, text.go; its *)
(* caller in internal/lifecycle/update.go): what the user changed in a     *)
(* managed directory and what upstream changed are put together over the   *)
(* content both started from, or a person has to review them.              *)
(*                                                                         *)
(* A tree maps paths to entries; a directory is only a part of a path.     *)
(* Regular text is a sequence of lines; one of Unended has no newline, so  *)
(* it can only be the last one.  Of the mode the executable bit is kept,   *)
(* of the reasons of a conflict only that there is one.                    *)
(***************************************************************************)
EXTENDS Integers, Sequences, FiniteSets, SequencesExt

CONSTANTS
  Lines, Unended,  \* the lines that texts are made of; those without a newline
  Under,           \* pairs of paths <<p, q>>: p is below q
  MaxDiffCells,    \* the bound on the table of a comparison
  Families         \* pairs of sets of trees that an update may have to do with:
                   \* the baselines, and what the two sides made of one

VARIABLES
  base,                   \* the set of the baseline, empty if none is known
  local, upstream,        \* the trees of the user and of the new release
  runtime,                \* whether the component is a runtime, never merged
  phase, merged,          \* what became of the update, and its tree
  disk                    \* the directory that will be captured and activated

mergeVars == <<base, local, upstream, runtime, phase, merged, disk>>

(* Only the last line of a text can be open.                               *)
Texts == {d \in Seq(Lines) : \A i \in 1 .. Len(d) - 1 : d[i] \notin Unended}
Entries == [kind : {"text", "binary", "symlink"}, exec : BOOLEAN, data : Texts]

ASSUME FamiliesAssumption ==
  \A F \in Families : \A t \in F[1] \union F[2] : t \in [DOMAIN t -> Entries]

Absent == [kind |-> "absent", exec |-> FALSE, data |-> <<>>]
At(tree, p) == IF p \in DOMAIN tree THEN tree[p] ELSE Absent

-------------------------------------------------------------------------------
(* text.go *)

(* The lengths of the longest common subsequences of what is left of base  *)
(* and target from each pair of positions on.                              *)
Cells(b, t) == (1 .. Len(b) + 1) \X (1 .. Len(t) + 1)
Same(b, t, x) == x[1] <= Len(b) /\ x[2] <= Len(t) /\ b[x[1]] = t[x[2]]
Lcs(b, t) ==
  LET Longer(x, y) == IF x >= y THEN x ELSE y
      lcs[x \in Cells(b, t)] ==
        CASE x[1] > Len(b) \/ x[2] > Len(t) -> 0
          [] Same(b, t, x) -> 1 + lcs[<<x[1] + 1, x[2] + 1>>]
          [] OTHER -> Longer(lcs[<<x[1] + 1, x[2]>>], lcs[<<x[1], x[2] + 1>>])
  IN lcs

(* The lines of base that the comparison finds again in target, as pairs   *)
(* of positions: a longest common subsequence, where a line of base is     *)
(* given up first unless giving up one of target leads to a longer one.    *)
MatchesFrom(b, t) ==
  LET lcs == Lcs(b, t)
      from[x \in Cells(b, t)] ==
        CASE x[1] > Len(b) \/ x[2] > Len(t) -> {}
          [] Same(b, t, x) -> {x} \union from[<<x[1] + 1, x[2] + 1>>]
          [] OTHER -> IF lcs[<<x[1], x[2] + 1>>] > lcs[<<x[1] + 1, x[2]>>]
                      THEN from[<<x[1], x[2] + 1>>] ELSE from[<<x[1] + 1, x[2]>>]
  IN from
Matches(b, t) == MatchesFrom(b, t)[<<1, 1>>]

(* The matches, between the beginnings and the ends of both texts; what    *)
(* lies between two of them is an edit: the lines start + 1 .. end of base *)
(* are replaced.                                                           *)
Anchors(b, t) == Matches(b, t) \union {<<0, 0>>, <<Len(b) + 1, Len(t) + 1>>}
Following(anchors, x) == CHOOSE y \in anchors : /\ y[1] > x[1]
                                               /\ \A z \in anchors : z[1] > x[1] => z[1] >= y[1]
Gap(t, x, y) == [start |-> x[1], end |-> y[1] - 1, replacement |-> SubSeq(t, x[2] + 1, y[2] - 1)]
Edits(b, t) ==
  LET anchors == Anchors(b, t)
  IN {e \in {Gap(t, x, Following(anchors, x)) : x \in {x \in anchors : x[1] <= Len(b)}} :
        e.start < e.end \/ e.replacement # <<>>}

TooComplex(b, t) == Len(b) + 1 > MaxDiffCells \div (Len(t) + 1)

IsInsert(e) == e.start = e.end
EditsTouch_NotInserts(l, r) == \* mutant
  CASE IsInsert(l) /\ IsInsert(r) -> FALSE
    [] IsInsert(l) /\ ~IsInsert(r) -> r.start <= l.start /\ l.start <= r.end
    [] ~IsInsert(l) /\ IsInsert(r) -> l.start <= r.start /\ r.start <= l.end
    [] OTHER -> l.start < r.end /\ r.start < l.end
(* An insertion touches what is changed on either side of it; two changes  *)
(* of neighbouring lines do not touch.                                     *)
EditsTouch(l, r) ==
  CASE IsInsert(l) /\ IsInsert(r) -> l.start = r.start
    [] IsInsert(l) /\ ~IsInsert(r) -> r.start <= l.start /\ l.start <= r.end
    [] ~IsInsert(l) /\ IsInsert(r) -> l.start <= r.start /\ r.start <= l.end
    [] OTHER -> l.start < r.end /\ r.start < l.end

(* The edits in the order of their ranges, those of local first; an edit   *)
(* that both sides made is made once.                                      *)
Text(E) == FlattenSeq(SetToSeq({e.replacement : e \in E}))
Inserted(E, p) == {e \in E : e.start = p /\ IsInsert(e)}
Kept(b, E, p) ==
  LET changes == {e \in E : ~IsInsert(e)}
  IN IF p < Len(b) /\ ~\E e \in changes : e.start <= p /\ p < e.end
     THEN <<b[p + 1]>> ELSE Text({e \in changes : e.start = p})
Piece(b, mine, theirs, p) ==
  Text(Inserted(mine, p)) \o Text(Inserted(theirs, p) \ Inserted(mine, p))
    \o Kept(b, mine \union theirs, p)
Apply(b, mine, theirs) ==
  FlattenSeq([i \in 1 .. Len(b) + 1 |-> Piece(b, mine, theirs, i - 1)])

(* The merged text, a set: empty for a conflict.                           *)
MergeText(b, l, u) ==
  IF l = u \/ b = u THEN {l}
  ELSE IF b = l THEN {u}
  ELSE IF TooComplex(b, l) \/ TooComplex(b, u) THEN {}
  ELSE LET mine == Edits(b, l)
           theirs == Edits(b, u)
       IN IF \E x \in mine, y \in theirs : x # y /\ EditsTouch(x, y) THEN {}
          ELSE {Apply(b, mine, theirs)}

-------------------------------------------------------------------------------
(* merge.go *)

SafeNewEntry(e) == e.kind = "text" /\ ~e.exec

(* The entry of one path, Absent for none, a set: empty for a conflict.    *)
MergeEntry(b, o, t) ==
  LET known == {b, o, t} \ {Absent}
      new == {o, t} \ {Absent}
      changed == {o, t} \ {b, Absent}
  IN CASE b = Absent ->
            IF new = {} THEN {Absent}
            ELSE {e \in new : new = {e} /\ SafeNewEntry(e)}
       [] b # Absent /\ Absent \in {o, t} ->
            {e \in {Absent} : changed = {} /\ b.kind = "text"}
       [] OTHER ->
            IF \/ \E e \in known : e.kind = "symlink"
               \/ \E e \in known : e.exec # b.exec
            THEN {}
            ELSE IF \E e \in known : e.kind = "binary" THEN {e \in {b} : known = {b}}
            ELSE {[b EXCEPT !.data = x] : x \in MergeText(b.data, o.data, t.data)}

(* Below a path that is a file on one side there may be nothing on any.    *)
ValidatePaths(paths) == \A x \in Under : x[1] \in paths => x[2] \notin paths

(* The merged tree, a set: empty for a conflict.                           *)
MergeTree(b, l, u) ==
  LET paths == DOMAIN b \union DOMAIN l \union DOMAIN u
      Entry(p) == MergeEntry(At(b, p), At(l, p), At(u, p))
      kept == {p \in paths : Absent \notin Entry(p)}
  IN IF ~ValidatePaths(paths) \/ \E p \in paths : Entry(p) = {} THEN {}
     ELSE {[p \in kept |-> CHOOSE e \in Entry(p) : TRUE]}

-------------------------------------------------------------------------------
(* lifecycle/update.go *)

MergeInit ==
  /\ \E F \in Families :
       /\ base \in {{}} \union {{b} : b \in F[1]}
       /\ local \in F[2] /\ upstream \in F[2]
  /\ runtime \in BOOLEAN
  /\ phase = "merging" /\ merged = {} /\ disk = <<>>

(* A runtime that the user changed is reviewed, otherwise replaced.        *)
Merge ==
  /\ phase = "merging"
  /\ merged' = CASE base = {} -> {}
                 [] base # {} /\ runtime -> {u \in {upstream} : base = {local}}
                 [] OTHER -> UNION {MergeTree(b, local, upstream) : b \in base}
  /\ phase' = IF merged' = {} THEN "needs_review" ELSE "merged"
  /\ UNCHANGED <<base, local, upstream, runtime, disk>>

(* writeMergeTree; a runtime is materialized from what was downloaded.     *)
WriteMergeTree ==
  /\ phase = "merged"
  /\ disk' \in {t \in merged : runtime \/ \A p \in DOMAIN t : t[p].kind # "symlink"}
  /\ phase' = "validating"
  /\ UNCHANGED <<base, local, upstream, runtime, merged>>

MergeNext == Merge \/ WriteMergeTree

-------------------------------------------------------------------------------
MergeTypeOK ==
  /\ \A t \in base \union {local, upstream, disk} \union merged : \A p \in DOMAIN t :
       /\ t[p].kind \in {"text", "binary", "symlink"} /\ t[p].exec \in BOOLEAN
       /\ t[p].data \in Seq(Lines)
  /\ phase \in {"merging", "merged", "needs_review", "validating"}

(* One more line of the alignment of a merged text m with the three texts  *)
(* it was made from, at = <<lines used of b, of l, of u, of m>>: a line of *)
(* b was kept or taken out by l, by u or by both; a line was put in by l,  *)
(* by u or by both, and then it is in m.                                   *)
Moves == {<<1, 1, 1, 1>>, <<1, 1, 0, 0>>, <<1, 0, 1, 0>>, <<1, 0, 0, 0>>,
          <<0, 1, 0, 1>>, <<0, 0, 1, 1>>, <<0, 1, 1, 1>>}
Aligned(b, l, u, m, at) ==
  LET texts == <<b, l, u, m>>
      Fits(v) == /\ \A x \in 1 .. 4 : at[x] + v[x] <= Len(texts[x])
                 /\ \A x, y \in {x \in 1 .. 4 : v[x] = 1} :
                      texts[x][at[x] + 1] = texts[y][at[y] + 1]
  IN {<<at[1] + v[1], at[2] + v[2], at[3] + v[3], at[4] + v[4]>> : v \in {v \in Moves : Fits(v)}}

(* m is b with the changes of l and those of u, and nothing else.          *)
Reach(b, l, u, m) ==
  LET reach[n \in 0 .. Len(b) + Len(l) + Len(u)] ==
        IF n = 0 THEN {<<0, 0, 0, 0>>}
        ELSE LET r == reach[n - 1] IN r \union UNION {Aligned(b, l, u, m, at) : at \in r}
  IN reach
HasBothChanges(b, l, u, m) ==
  <<Len(b), Len(l), Len(u), Len(m)>> \in Reach(b, l, u, m)[Len(b) + Len(l) + Len(u)]

(* What a merge may make of one path: what both have, what the only one    *)
(* that changed it has, or a text with the changes of both; never anything *)
(* whose harm a text merge cannot judge.                                   *)
Lawful(b, o, t, m) ==
  /\ \/ m = o /\ (o = t \/ b = t)
     \/ m = t /\ b = o
     \/ /\ \A e \in {b, o, t, m} : e.kind = "text" /\ e.exec = b.exec
        /\ HasBothChanges(b.data, o.data, t.data, m.data)
  /\ m.kind # "symlink"
  /\ m.kind = "binary" => {b, o, t} = {m}
  /\ m.exec => b.exec /\ b # Absent
  /\ \A i \in 1 .. Len(m.data) - 1 : m.data[i] \notin Unended

(* What is written for activation without a review has, path by path, the  *)
(* changes of the user and of upstream and nothing else; no file stands    *)
(* where another needs a directory, no two lines have become one; and it   *)
(* makes no difference which side is called local (merge.go:1-3: it        *)
(* prefers a review over guessing).                                        *)
MergesAreLawful ==
  /\ phase = "validating" /\ ~runtime =>
       \A b \in base :
         /\ \A p \in DOMAIN b \union DOMAIN local \union DOMAIN upstream :
              Lawful(At(b, p), At(local, p), At(upstream, p), At(disk, p))
         /\ \A x \in Under : ~({x[1], x[2]} \subseteq DOMAIN disk)
  /\ phase = "validating" /\ runtime => disk = upstream /\ base = {local}
  /\ ~runtime /\ phase \in {"validating", "needs_review"} =>
       \A b \in base : MergeTree(b, local, upstream) = MergeTree(b, upstream, local)
===============================================================================
