------------------------------- MODULE Rename -------------------------------
(***************************************************************************)
(* `ciac rename --apply`, the transaction over source files and output     *)
(* trees of crates/ciac/src/rename.rs: back up every file, journal, put    *)
(* the edited files in place, compile, check every --out tree, and then    *)
(* either roll the files back or regenerate the trees and clean up.        *)
(*                                                                         *)
(* A file is its user's revision and the name it uses for the symbol; the  *)
(* program compiles when all files agree on a name that collides with      *)
(* nothing. Every file write is a step that an I/O error or the death of   *)
(* the process may interrupt.                                              *)
(***************************************************************************)
EXTENDS Integers, Sequences

CONSTANTS
  Files,        \* the files the symbol occurs in, in the plan's order
  Outs,         \* the --out trees, in order
  NoBackup, Torn,
  IOErrors, Crashes,     \* may writes fail, may the process die
  EditsWhileRunning,     \* does the user edit during a rename
  MaxRuns, MaxEdits      \* bounds

VARIABLES
  src,          \* the source files
  backup,       \* their .ciac-rename-bak siblings
  journal,      \* .ciac/rename-journal.json
  tree,         \* output trees: the name they were generated with, and
                \* whether a regeneration would be without conflicts
  snap,         \* the sources as resolve() loaded them
  pc, status,   \* the process and how the last one ended
  runs, edits,  \* how often renamed and edited
  taken         \* names that collide with another symbol

vars == <<src, backup, journal, tree, snap, pc, status, runs, edits, taken>>

ASSUME FilesAssumption == Len(Files) \in Nat \ {0} /\ DOMAIN Files = 1..Len(Files)
ASSUME OutsAssumption == Len(Outs) \in Nat /\ DOMAIN Outs = 1..Len(Outs)
ASSUME BoundsAssumption == MaxRuns \in Nat /\ MaxEdits \in Nat

F == DOMAIN Files
O == DOMAIN Outs
Name == {0, 1}
Content == [rev : 0..MaxEdits, name : Name]

ASSUME SentinelsAssumption == NoBackup # Torn /\ NoBackup \notin Content /\ Torn \notin Content

Compiles(s) ==
  /\ \A f \in F : s[f] # Torn
  /\ \A f, g \in F : s[f].name = s[g].name
  /\ \A f \in F : s[f].name \notin taken

Edited(f) == [snap[f] EXCEPT !.name = 1 - @]

Idle == [at |-> "idle"]
At(step, i) == [at |-> step, i |-> i]

------------------------------------------------------------------------------
Init ==
  /\ src = [f \in F |-> [rev |-> 0, name |-> 0]]
  /\ backup = [f \in F |-> NoBackup]
  /\ journal = "none"
  /\ tree \in [O -> [name : {0}, safe : BOOLEAN]]
  /\ snap = src
  /\ pc = Idle
  /\ status = "none"
  /\ runs = 0
  /\ edits = 0
  /\ taken \in SUBSET {1}

Quit(how) == pc' = Idle /\ status' = how

\* An error returned with `?`, or the end of the process, in the middle of it.
Interrupted ==
  \/ IOErrors /\ Quit("error")
  \/ Crashes /\ Quit("crashed")

StartsOn == (\A f \in F : src[f] # Torn) /\ journal = "none"

\* resolve() refuses a program that does not parse; a journal of an earlier run, one
\* that does not parse included, stops apply_plan.
Start ==
  /\ pc = Idle /\ runs < MaxRuns
  /\ runs' = runs + 1
  /\ IF StartsOn THEN snap' = src /\ pc' = At("backup", 1) /\ status' = "running"
                 ELSE Quit("refused") /\ UNCHANGED snap
  /\ UNCHANGED <<src, backup, journal, tree, edits, taken>>

BackedUp_FaultyKeepsOld(f) == IF backup[f] = NoBackup THEN snap[f] ELSE backup[f]

BackedUp(f) == snap[f]

Backup(f) ==
  /\ pc = At("backup", f) /\ f \in F
  /\ \/ /\ backup' = [backup EXCEPT ![f] = BackedUp(f)]
        /\ pc' = IF f + 1 \in F THEN At("backup", f + 1) ELSE At("journal", 1)
        /\ UNCHANGED status
     \/ /\ backup' \in {backup, [backup EXCEPT ![f] = Torn]}
        /\ Interrupted
  /\ UNCHANGED <<src, journal, tree, snap, runs, edits, taken>>

WriteJournal ==
  /\ pc.at = "journal"
  /\ \/ journal' = "full" /\ pc' = At("replace", 1) /\ UNCHANGED status
     \/ journal' \in {"none", "torn", "full"} /\ Interrupted
  /\ UNCHANGED <<src, backup, tree, snap, runs, edits, taken>>

\* A temporary sibling renamed over the file: in place or not at all.
Replace(f) ==
  /\ pc = At("replace", f) /\ f \in F
  /\ \/ /\ src' = [src EXCEPT ![f] = Edited(f)]
        /\ pc' = IF f + 1 \in F THEN At("replace", f + 1) ELSE At("verify", 1)
        /\ UNCHANGED status
     \/ src' \in {src, [src EXCEPT ![f] = Edited(f)]} /\ Interrupted
  /\ UNCHANGED <<backup, journal, tree, snap, runs, edits, taken>>

AfterChecks == IF O = {} THEN At("clean", 1) ELSE At("commit", 1)

Verify ==
  /\ pc.at = "verify"
  /\ \/ /\ pc' = IF ~Compiles(src) THEN At("rollback", 1)
                 ELSE IF O = {} THEN AfterChecks ELSE At("check", 1)
        /\ UNCHANGED status
     \/ Interrupted
  /\ UNCHANGED <<src, backup, journal, tree, snap, runs, edits, taken>>

\* replay_recipe without committing; what fails here is rolled back.
Replays(o) == tree[o].safe /\ Compiles(src)

CheckTree(o) ==
  /\ pc = At("check", o) /\ o \in O
  /\ \/ /\ pc' = IF ~Replays(o) THEN At("rollback", 1)
                 ELSE IF o + 1 \in O THEN At("check", o + 1) ELSE AfterChecks
        /\ UNCHANGED status
     \/ IOErrors /\ pc' = At("rollback", 1) /\ UNCHANGED status
     \/ Crashes /\ Quit("crashed")
  /\ UNCHANGED <<src, backup, journal, tree, snap, runs, edits, taken>>

Rendered_FaultyStale == snap[1].name

Rendered == src[1].name

\* replay_recipe, committing. It loads the sources again, and applies its plan
\* whether or not it has conflicts by now.
CommitTree(o) ==
  /\ pc = At("commit", o) /\ o \in O
  /\ \/ /\ Compiles(src)
        /\ tree' = [tree EXCEPT ![o] = [name |-> Rendered, safe |-> TRUE]]
        /\ pc' = IF o + 1 \in O THEN At("commit", o + 1) ELSE At("clean", 1)
        /\ UNCHANGED status
     \/ UNCHANGED tree /\ Interrupted
  /\ UNCHANGED <<src, backup, journal, snap, runs, edits, taken>>

\* Backups first, then the journal; a file that cannot be removed is left.
CleanBackup(f) ==
  /\ pc = At("clean", f) /\ f \in F
  /\ \/ /\ backup' = [backup EXCEPT ![f] = NoBackup]
        /\ pc' = At("clean", f + 1)
        /\ UNCHANGED status
     \/ IOErrors /\ pc' = At("clean", f + 1) /\ UNCHANGED <<backup, status>>
     \/ Crashes /\ Quit("crashed") /\ UNCHANGED backup
  /\ UNCHANGED <<src, journal, tree, snap, runs, edits, taken>>

CleanJournal ==
  /\ pc.at = "clean" /\ pc.i \notin F
  /\ \/ journal' = "none" /\ Quit("applied")
     \/ IOErrors /\ Quit("applied") /\ UNCHANGED journal
     \/ Crashes /\ Quit("crashed") /\ UNCHANGED journal
  /\ UNCHANGED <<src, backup, tree, snap, runs, edits, taken>>

\* rollback: read the backup, write the file, remove the backup.
RollbackFile_FaultyRemovesFirst(f) ==
  /\ pc = At("rollback", f) /\ f \in F
  /\ \/ /\ src' = [src EXCEPT ![f] = backup[f]]
        /\ backup' = [backup EXCEPT ![f] = NoBackup]
        /\ pc' = At("rollback", f + 1)
        /\ UNCHANGED status
     \/ /\ src' \in {src, [src EXCEPT ![f] = Torn], [src EXCEPT ![f] = backup[f]]}
        /\ backup' = [backup EXCEPT ![f] = NoBackup]
        /\ Interrupted
  /\ UNCHANGED <<journal, tree, snap, runs, edits, taken>>

RollbackFile(f) ==
  /\ pc = At("rollback", f) /\ f \in F
  /\ \/ /\ src' = [src EXCEPT ![f] = backup[f]]
        /\ \/ backup' = [backup EXCEPT ![f] = NoBackup]
           \/ IOErrors /\ UNCHANGED backup
        /\ pc' = At("rollback", f + 1)
        /\ UNCHANGED status
     \/ /\ src' \in {src, [src EXCEPT ![f] = Torn], [src EXCEPT ![f] = backup[f]]}
        /\ Interrupted
        /\ UNCHANGED backup
  /\ UNCHANGED <<journal, tree, snap, runs, edits, taken>>

RollbackJournal ==
  /\ pc.at = "rollback" /\ pc.i \notin F
  /\ \/ journal' = "none" /\ Quit("rolled_back")
     \/ IOErrors /\ Quit("rolled_back") /\ UNCHANGED journal
     \/ Crashes /\ Quit("crashed") /\ UNCHANGED journal
  /\ UNCHANGED <<src, backup, tree, snap, runs, edits, taken>>

Process ==
  \/ \E f \in F : Backup(f) \/ Replace(f) \/ CleanBackup(f) \/ RollbackFile(f)
  \/ \E o \in O : CheckTree(o) \/ CommitTree(o)
  \/ Start \/ WriteJournal \/ Verify \/ CleanJournal \/ RollbackJournal

------------------------------------------------------------------------------
(* The user.                                                               *)

UserMay == edits < MaxEdits /\ (pc = Idle \/ EditsWhileRunning)

EditFile(f) ==
  /\ UserMay /\ src[f] # Torn
  /\ src' = [src EXCEPT ![f].rev = edits + 1]
  /\ edits' = edits + 1
  /\ UNCHANGED <<backup, journal, tree, snap, pc, status, runs, taken>>

\* A generated file is edited, or reconciled.
EditTree(o) ==
  /\ UserMay
  /\ tree' = [tree EXCEPT ![o].safe = ~@]
  /\ edits' = edits + 1
  /\ UNCHANGED <<src, backup, journal, snap, pc, status, runs, taken>>

\* What the refusal asks for: put back the backups there are, delete the
\* journal. One that does not parse names no backup.
Restored == [f \in F |-> IF backup[f] = NoBackup THEN src[f] ELSE backup[f]]

Recover ==
  /\ pc = Idle /\ journal # "none"
  /\ src' = IF journal = "full" /\ ~Compiles(src) THEN Restored ELSE src
  /\ journal' = "none"
  /\ UNCHANGED <<backup, tree, snap, pc, status, runs, edits, taken>>

User == (\E f \in F : EditFile(f)) \/ (\E o \in O : EditTree(o)) \/ Recover

Next == Process \/ User
Spec == Init /\ [][Next]_vars

----------------------------------------------------------------------------
(* What `ciac rename --apply` promises about the sources and the trees. *)

\* Every variable has its type, the position of the process included: the loops over files
\* and trees never leave them, but for the one step after the last file that cleans up.
Position ==
  \/ pc = Idle \/ pc = At("journal", 1) \/ pc = At("verify", 1)
  \/ \E f \in F : pc = At("backup", f) \/ pc = At("replace", f)
  \/ \E f \in 1..(Len(Files) + 1) : pc = At("clean", f) \/ pc = At("rollback", f)
  \/ \E o \in O : pc = At("check", o) \/ pc = At("commit", o)
TypeOK ==
  /\ src \in [F -> Content \cup {Torn}]
  /\ backup \in [F -> Content \cup {NoBackup, Torn}]
  /\ journal \in {"none", "torn", "full"}
  /\ tree \in [O -> [name : Name, safe : BOOLEAN]]
  /\ snap \in [F -> Content]
  /\ Position
  /\ status \in {"none", "running", "refused", "error", "crashed", "applied", "rolled_back"}
  /\ runs \in 0..MaxRuns
  /\ edits \in 0..MaxEdits
  /\ taken \in SUBSET {1}

\* Whenever no rename runs and the sources do not compile, whatever was
\* interrupted, a readable journal is there and the backups it names put back a
\* program that compiles.
Recoverable ==
  (pc = Idle /\ ~Compiles(src)) => journal = "full" /\ Compiles(Restored)

\* A rename never undoes an edit: the revision of each file, or of its backup
\* while the file itself is torn, only grows, recovery by hand aside.
RevOf(s, b, f) == IF s[f] # Torn THEN s[f].rev ELSE IF b[f] \in Content THEN b[f].rev ELSE 0
EditsKept == [][\A f \in F : RevOf(src', backup', f) >= RevOf(src, backup, f) \/ Recover]_vars

\* "If any listed tree can't regenerate safely, the entire rename is refused":
\* a rename that reports its rollback has left every source as it was loaded,
\* whatever backups earlier renames could not remove.
RollbackIsTotal == [][(pc.at = "rollback" /\ status' = "rolled_back") => src' = snap]_vars

\* Trees and sources move together: a rename that reports success has put the
\* new name everywhere.
AppliedEverywhere ==
  [][(pc.at = "clean" /\ status' = "applied") =>
       /\ \A f \in F : src'[f] = Edited(f)
       /\ \A o \in O : tree'[o].name = src'[1].name]_vars
=============================================================================
