------------------------------ MODULE MCRegen ------------------------------
(* Small programs for Regen: two owned files, a seeded one, two columns. *)
EXTENDS Regen, TLC

CONSTANTS main, aux, svc, g1, g2, u, x, y

owned(c) == [role |-> "Owned", content |-> c]
seeded(c) == [role |-> "Seeded", content |-> c]

MCFile == {main, aux, svc}
MCContent == {g1, g2, u}
MCFeature == {x, y}

\* r1 -> r2 changes the files and adds a column; r3 drops an owned file and
\* keeps r2's schema, so going back from r2 or r3 to r1 is refused.
MCRevision == {"r1", "r2", "r3"}
MCSchema == [r \in MCRevision |-> IF r = "r1" THEN {x} ELSE {x, y}]
\* r3 also drops a record field that r1 carries across a service boundary.
MCBreaking == {<<"r1", "r3">>}
MCEmit1 ==
  ("r1" :> (main :> owned(g1) @@ aux :> owned(g1) @@ svc :> seeded(g1))) @@
  ("r2" :> (main :> owned(g2) @@ aux :> owned(g2) @@ svc :> seeded(g2))) @@
  ("r3" :> (main :> NoFile @@ aux :> owned(g2) @@ svc :> seeded(g1)))
MCEmit == "v1" :> MCEmit1

\* Where every step may also fail: two revisions of a tree with one owned file
\* and its migrations, which have the seeded role's rules.
OneFile == {main}
TwoRevisions == {"r1", "r2"}
TwoSchema == [r \in TwoRevisions |-> MCSchema[r]]
NoSchema == [r \in TwoRevisions |-> {}]
TwoEmit == "v1" :> [r \in TwoRevisions |-> [f \in OneFile |-> MCEmit1[r][f]]]

\* Version v2 of the compiler renders r1's owned file differently.
MCEmit2 == MCEmit @@ ("v2" :> [MCEmit1 EXCEPT !["r1"][main] = owned(g2)])
=============================================================================
