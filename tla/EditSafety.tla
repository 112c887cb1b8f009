----------------------------- MODULE EditSafety -----------------------------
(***************************************************************************)
(* What `ciac build` promises the owner of a generated tree, without       *)
(* manifests, plans or processes: a build may replace or delete a file     *)
(* only while it holds something a build once rendered for it.  Only --force may *)
(* clear the tree.                                                         *)
(***************************************************************************)
CONSTANTS Path, Data, Absent, Torn

VARIABLES
  disk,      \* what each path holds
  known,     \* every content a build has ever rendered for each path
  building,  \* a build is running: what changes is the compiler's doing
  forcing    \* one of them is a --force build about to clear the tree

Init ==
  /\ disk = [p \in Path |-> Absent]
  /\ known = [p \in Path |-> {}]

\* There is nothing at p that only the user has.
Expendable(p) == disk[p] \in known[p] \cup {Absent, Torn}

UserWrites(p) ==
  /\ ~building
  /\ \E c \in Data \cup {Absent} : disk' = [disk EXCEPT ![p] = c]
  /\ UNCHANGED known

Renders ==
  /\ known' \in [Path -> SUBSET Data]
  /\ \A p \in Path : known[p] \subseteq known'[p]
  /\ UNCHANGED disk

BuildWrites(p) ==
  /\ building /\ Expendable(p)
  /\ \E c \in known[p] : disk' = [disk EXCEPT ![p] = c]
  /\ UNCHANGED known

\* Deletes p, or dies while writing it.
BuildRuins(p) ==
  /\ building /\ Expendable(p)
  /\ \E c \in {Absent, Torn} : disk' = [disk EXCEPT ![p] = c]
  /\ UNCHANGED known

Clobber ==
  /\ forcing
  /\ \E S \in SUBSET Path :
        disk' = [p \in Path |-> IF p \in S THEN Absent ELSE disk[p]]
  /\ UNCHANGED known

Next ==
  \/ \E p \in Path : UserWrites(p) \/ BuildWrites(p) \/ BuildRuins(p)
  \/ Renders
  \/ Clobber

Spec == Init /\ [][Next]_<<disk, known>>
=============================================================================
