---------------------------- MODULE RenameProofs ----------------------------
(***************************************************************************)
(* Theorems about Rename, for any number of files and trees, wherever I/O  *)
(* errors and crashes strike, as long as nobody edits while a rename runs: *)
(* the transaction can always be recovered, loses no edit, and a rollback  *)
(* and a success are total.                                                *)
(***************************************************************************)
EXTENDS Rename, TLAPS

----------------------------------------------------------------------------
(* The inductive invariant: what holds at each step of the transaction.    *)

\* The process reports nothing before it ends, and no revision is newer than the last edit.
Reporting == pc # Idle => status = "running"
Revisions ==
  \A f \in F : /\ src[f] # Torn => src[f].rev <= edits
               /\ snap[f].rev <= edits
               /\ backup[f] \in Content => backup[f].rev <= edits

\* Until the journal is written the sources are as they were loaded; then their backups are.
BackingUp ==
  pc.at = "backup" =>
    src = snap /\ journal = "none" /\ \A f \in F : f < pc.i => backup[f] = snap[f]
Journaling == pc.at = "journal" => src = snap /\ journal = "none" /\ backup = snap
Replacing ==
  pc.at = "replace" =>
    /\ journal = "full" /\ backup = snap
    /\ \A f \in F : src[f] = IF f < pc.i THEN Edited(f) ELSE snap[f]

\* From the verification on every file is edited, and the backups stay until the trees are
\* regenerated.
Checking ==
  /\ pc.at \in {"verify", "check", "commit"} => journal = "full" /\ backup = snap
  /\ pc.at \in {"verify", "check", "commit", "clean"} => \A f \in F : src[f] = Edited(f)
  /\ pc.at \in {"check", "commit", "clean"} => Compiles(src)
Committing ==
  \A o \in O : pc.at = "clean" \/ (pc.at = "commit" /\ o < pc.i) => tree[o].name = src[1].name

\* A rollback has put back the files it is past, and the others still have their backups.
RollingBack ==
  pc.at = "rollback" =>
    /\ journal = "full"
    /\ \A f \in F : IF f < pc.i THEN src[f] = snap[f] /\ backup[f] \in {NoBackup, snap[f]}
                                ELSE src[f] \in {snap[f], Edited(f)} /\ backup[f] = snap[f]

\* The program that was loaded compiles: a rename starts without a journal.
Loaded == pc # Idle => Compiles(snap)

Inv ==
  /\ TypeOK /\ Reporting /\ Revisions
  /\ BackingUp /\ Journaling /\ Replacing /\ Checking /\ Committing /\ RollingBack
  /\ Loaded /\ Recoverable

----------------------------------------------------------------------------

\* An edit swaps the name and keeps the revision.
LEMMA EditedType ==
  ASSUME TypeOK, NEW f \in F
  PROVE  /\ Edited(f) \in Content /\ Edited(f) # Torn
         /\ Edited(f).rev = snap[f].rev /\ Edited(f).name = 1 - snap[f].name
<1>1. snap[f] \in [rev : 0..MaxEdits, name : Name]
  BY DEF TypeOK, Content
<1>2. Edited(f) \in Content
  BY <1>1, SMT DEF Edited, Content, Name
<1> QED BY <1>1, <1>2, SentinelsAssumption, SMT DEF Edited, Content, Name

\* Where the process is, from its position.
LEMMA PositionType ==
  ASSUME TypeOK
  PROVE  /\ pc = Idle <=> pc.at = "idle"
         /\ pc.at \in {"backup", "replace"} => pc.i \in F
         /\ pc.at \in {"clean", "rollback"} => pc.i \in 1..Len(Files) + 1
         /\ pc.at \in {"check", "commit"} => pc.i \in O
BY SMT DEF TypeOK, Position, Idle, At

\* Before the first rename there is no journal, and the sources compile.
THEOREM Initially == Init => Inv
<1> SUFFICES ASSUME Init PROVE Inv
  OBVIOUS
<1>1. [rev |-> 0, name |-> 0] \in Content
  BY BoundsAssumption DEF Content, Name
<1>2. TypeOK
  BY <1>1, BoundsAssumption DEF Init, TypeOK, Name, Position
<1>3. Compiles(src)
  BY <1>1, SentinelsAssumption, SMT DEF Init, Compiles
<1>4. Revisions
  BY <1>1, SentinelsAssumption, SMT DEF Init, Revisions
<1>5. pc.at = "idle" /\ pc = Idle
  BY DEF Init, Idle
<1> QED
  BY <1>2, <1>3, <1>4, <1>5 DEF Inv, Reporting, BackingUp, Journaling, Replacing, Checking,
     Committing, RollingBack, Loaded, Recoverable

----------------------------------------------------------------------------
(* When the process ends, three facts are left to show.                    *)

\* An idle process claims nothing but types, revisions and recoverability.
LEMMA EndKeeps ==
  ASSUME TypeOK', pc' = Idle, Revisions', Recoverable'
  PROVE  Inv'
<1>1. pc'.at = "idle"
  BY DEF Idle
<1> QED
  BY <1>1 DEF Inv, Reporting, BackingUp, Journaling, Replacing, Checking, Committing,
     RollingBack, Loaded

\* The backups of a full journal are the program that was loaded, but for files that were
\* put back already.
LEMMA BackupsRestore ==
  ASSUME TypeOK', Compiles(snap)', journal' = "full",
         \A f \in F : \/ backup'[f] = snap'[f]
                      \/ backup'[f] = NoBackup /\ src'[f] = snap'[f]
  PROVE  Recoverable'
<1>1. \A f \in F : Restored'[f] = snap'[f]
  BY SentinelsAssumption DEF TypeOK, Restored
<1>2. Compiles(Restored)'
  BY <1>1 DEF Compiles
<1> QED BY <1>2 DEF Recoverable

\* A rename starts from sources that compile, without a journal.
LEMMA StartKeeps ==
  ASSUME Inv, Start
  PROVE  Inv'
<1>1. CASE StartsOn
  <2>1. pc = Idle /\ pc' = At("backup", 1) /\ snap' = src /\ status' = "running"
        /\ UNCHANGED <<src, backup, journal, tree, edits, taken>>
    BY <1>1 DEF Start
  <2>2. TypeOK'
    BY <1>1, <2>1, FilesAssumption, BoundsAssumption DEF Inv, TypeOK, Start, StartsOn, Position, F
  <2>3. Compiles(src) /\ Compiles(src)'
    BY <1>1, <2>1 DEF Inv, Recoverable, StartsOn, Compiles
  <2>4. Revisions' /\ Reporting' /\ Loaded' /\ BackingUp'
    BY <1>1, <2>1, <2>3, FilesAssumption
       DEF Inv, TypeOK, StartsOn, Revisions, Reporting, Loaded, BackingUp, Compiles, At, F
  <2>5. pc'.at = "backup" /\ pc' # Idle
    BY <2>1 DEF At, Idle
  <2> QED
    BY <2>2, <2>4, <2>5 DEF Inv, Journaling, Replacing, Checking, Committing, RollingBack, Recoverable
<1>2. CASE ~StartsOn
  <2>1. pc = Idle /\ pc' = Idle /\ status' = "refused"
        /\ UNCHANGED <<src, backup, journal, tree, snap, edits, taken>>
    BY <1>2 DEF Start, Quit
  <2>2. TypeOK'
    BY <2>1, BoundsAssumption DEF Inv, TypeOK, Start, Position
  <2>3. Revisions' /\ Recoverable'
    BY <2>1 DEF Inv, Revisions, Recoverable, Compiles, Restored
  <2> QED BY <2>1, <2>2, <2>3, EndKeeps
<1> QED BY <1>1, <1>2

\* Each backup written, or torn, is one the journal does not promise yet.
LEMMA BackupKeeps ==
  ASSUME Inv, NEW f \in F, Backup(f)
  PROVE  Inv'
<1>1. /\ pc = At("backup", f) /\ pc.at = "backup" /\ pc.i = f /\ pc # Idle
      /\ UNCHANGED <<src, journal, tree, snap, runs, edits, taken>>
  BY DEF Backup, At, Idle
<1>2. src = snap /\ journal = "none" /\ Compiles(snap) /\ snap[f] \in Content
  BY <1>1 DEF Inv, BackingUp, Loaded, TypeOK
<1>3. Compiles(src)' /\ Compiles(snap)'
  BY <1>1, <1>2 DEF Compiles
<1>4. CASE /\ backup' = [backup EXCEPT ![f] = BackedUp(f)]
           /\ pc' = IF f + 1 \in F THEN At("backup", f + 1) ELSE At("journal", 1)
           /\ UNCHANGED status
  <2>1. TypeOK'
    BY <1>1, <1>2, <1>4 DEF Inv, TypeOK, Position, BackedUp
  <2>2. Revisions' /\ Reporting' /\ Loaded'
    BY <1>1, <1>2, <1>3, <1>4 DEF Inv, TypeOK, Revisions, Reporting, Loaded, BackedUp
  <2>3. pc' # Idle /\ pc'.at \in {"backup", "journal"}
    BY <1>4 DEF At, Idle
  <2>4. BackingUp'
    BY <1>1, <1>2, <1>4, FilesAssumption DEF Inv, TypeOK, BackingUp, BackedUp, At, F
  <2>5. Journaling'
    BY <1>1, <1>2, <1>4, FilesAssumption DEF Inv, TypeOK, BackingUp, Journaling, BackedUp, At, F
  <2> QED
    BY <2>1, <2>2, <2>3, <2>4, <2>5
       DEF Inv, Replacing, Checking, Committing, RollingBack, Recoverable
<1>5. CASE backup' \in {backup, [backup EXCEPT ![f] = Torn]} /\ Interrupted
  <2>1. pc' = Idle /\ status' \in {"error", "crashed"}
    BY <1>5 DEF Interrupted, Quit
  <2>2. TypeOK'
    BY <1>1, <1>5, <2>1 DEF Inv, TypeOK, Position
  <2>3. Revisions' /\ Recoverable'
    BY <1>1, <1>3, <1>5, SentinelsAssumption DEF Inv, TypeOK, Revisions, Recoverable
  <2> QED BY <2>1, <2>2, <2>3, EndKeeps
<1> QED BY <1>4, <1>5 DEF Backup

\* The journal is full only when every file has its backup.
LEMMA WriteJournalKeeps ==
  ASSUME Inv, WriteJournal
  PROVE  Inv'
<1>1. /\ pc.at = "journal" /\ pc # Idle
      /\ UNCHANGED <<src, backup, tree, snap, runs, edits, taken>>
  BY DEF WriteJournal, Idle
<1>2. src = snap /\ backup = snap /\ Compiles(snap)
  BY <1>1 DEF Inv, Journaling, Loaded
<1>3. Compiles(src)' /\ Compiles(snap)' /\ Revisions'
  BY <1>1, <1>2 DEF Inv, Compiles, Revisions
<1>4. CASE journal' = "full" /\ pc' = At("replace", 1) /\ UNCHANGED status
  <2>1. TypeOK'
    BY <1>1, <1>4, FilesAssumption DEF Inv, TypeOK, Position, F
  <2>2. Reporting' /\ Loaded'
    BY <1>1, <1>3, <1>4 DEF Inv, Reporting, Loaded
  <2>3. pc' # Idle /\ pc'.at = "replace"
    BY <1>4 DEF At, Idle
  <2>4. Replacing'
    BY <1>1, <1>2, <1>4, FilesAssumption DEF Replacing, At, F
  <2> QED
    BY <1>3, <2>1, <2>2, <2>3, <2>4
       DEF Inv, BackingUp, Journaling, Checking, Committing, RollingBack, Recoverable
<1>5. CASE journal' \in {"none", "torn", "full"} /\ Interrupted
  <2>1. pc' = Idle /\ status' \in {"error", "crashed"}
    BY <1>5 DEF Interrupted, Quit
  <2>2. TypeOK'
    BY <1>1, <1>5, <2>1 DEF Inv, TypeOK, Position
  <2>3. Recoverable'
    BY <1>3 DEF Recoverable
  <2> QED BY <1>3, <2>1, <2>2, <2>3, EndKeeps
<1> QED BY <1>4, <1>5 DEF WriteJournal

\* A file that is replaced, or torn, has its backup; a failed write starts the rollback.
LEMMA ReplaceKeeps ==
  ASSUME Inv, NEW f \in F, Replace(f)
  PROVE  Inv'
<1>1. /\ pc = At("replace", f) /\ pc.at = "replace" /\ pc.i = f /\ pc # Idle
      /\ UNCHANGED <<backup, journal, tree, snap, runs, edits, taken>>
  BY DEF Replace, At, Idle
<1>2. journal = "full" /\ backup = snap /\ Compiles(snap)
      /\ \A g \in F : src[g] = IF g < f THEN Edited(g) ELSE snap[g]
  BY <1>1 DEF Inv, Replacing, Loaded
<1>3. Compiles(snap)' /\ \A g \in F : Edited(g)' = Edited(g)
  BY <1>1, <1>2 DEF Compiles, Edited
<1>4. \A g \in F : Edited(g) \in Content /\ Edited(g) # Torn /\ Edited(g).rev = snap[g].rev
  BY EditedType DEF Inv
<1>5. CASE /\ src' = [src EXCEPT ![f] = Edited(f)]
           /\ pc' = IF f + 1 \in F THEN At("replace", f + 1) ELSE At("verify", 1)
           /\ UNCHANGED status
  <2>1. TypeOK'
    BY <1>1, <1>4, <1>5 DEF Inv, TypeOK, Position
  <2>2. Revisions' /\ Reporting' /\ Loaded'
    BY <1>1, <1>3, <1>4, <1>5 DEF Inv, TypeOK, Revisions, Reporting, Loaded
  <2>3. pc' # Idle /\ pc'.at \in {"replace", "verify"}
    BY <1>5 DEF At, Idle
  <2>4. \A g \in F : src'[g] = IF g < f + 1 THEN Edited(g)' ELSE snap'[g]
    BY <1>1, <1>2, <1>3, <1>5, FilesAssumption DEF Inv, TypeOK, F
  <2>5. Replacing'
    BY <1>1, <1>2, <1>5, <2>4 DEF Replacing, At
  <2>6. Checking'
    <3>1. CASE f + 1 \in F
      BY <1>5, <3>1 DEF Checking, At
    <3>2. CASE f + 1 \notin F
      <4>1. \A g \in F : g < f + 1
        BY <3>2, FilesAssumption DEF F
      <4> QED BY <1>1, <1>2, <1>5, <2>4, <3>2, <4>1 DEF Checking, At
    <3> QED BY <3>1, <3>2
  <2> QED
    BY <2>1, <2>2, <2>3, <2>5, <2>6
       DEF Inv, BackingUp, Journaling, Committing, RollingBack, Recoverable
<1>6. CASE src' \in {src, [src EXCEPT ![f] = Edited(f)]} /\ Interrupted
  <2>1. pc' = Idle /\ status' \in {"error", "crashed"}
    BY <1>6 DEF Interrupted, Quit
  <2>2. TypeOK'
    BY <1>1, <1>4, <1>6, <2>1 DEF Inv, TypeOK, Position
  <2>3. Revisions'
    BY <1>1, <1>4, <1>6 DEF Inv, TypeOK, Revisions
  <2>4. Recoverable'
    BY <1>1, <1>2, <1>3, <2>2, BackupsRestore
  <2> QED BY <2>1, <2>2, <2>3, <2>4, EndKeeps
<1> QED BY <1>5, <1>6 DEF Replace

\* What the process learns from its checks changes no file: it goes on, turns back or ends.
LEMMA CheckKeeps ==
  ASSUME Inv, Verify \/ \E o \in O : CheckTree(o)
  PROVE  Inv'
<1>1. /\ pc.at \in {"verify", "check"} /\ pc # Idle
      /\ UNCHANGED <<src, backup, journal, tree, snap, runs, edits, taken>>
  BY DEF Verify, CheckTree, At, Idle
<1>2. journal = "full" /\ backup = snap /\ Compiles(snap) /\ \A f \in F : src[f] = Edited(f)
  BY <1>1 DEF Inv, Checking, Loaded
<1>3. Revisions' /\ Compiles(snap)' /\ (Compiles(src)' <=> Compiles(src))
      /\ \A f \in F : Edited(f)' = Edited(f)
  BY <1>1, <1>2 DEF Inv, Revisions, Compiles, Edited
<1>4. \/ Compiles(src) /\ O = {} /\ pc' = At("clean", 1)
      \/ Compiles(src) /\ O # {} /\ pc' = At("commit", 1)
      \/ Compiles(src) /\ \E o \in O : pc' = At("check", o)
      \/ pc' = At("rollback", 1)
      \/ pc' = Idle
  <2>1. CASE Verify
    BY <2>1, OutsAssumption DEF Verify, AfterChecks, Interrupted, Quit, O
  <2>2. CASE \E o \in O : CheckTree(o)
    BY <2>2 DEF CheckTree, Replays, AfterChecks, Interrupted, Quit
  <2> QED BY <2>1, <2>2
<1>5. status' = status \/ (pc' = Idle /\ status' \in {"error", "crashed"})
  BY DEF Verify, CheckTree, Interrupted, Quit
<1>6. TypeOK'
  <2>1. 1 \in 1..(Len(Files) + 1) /\ (O # {} => 1 \in O)
    BY FilesAssumption, OutsAssumption DEF O
  <2>2. Position'
    BY <1>4, <2>1 DEF Position
  <2> QED BY <1>1, <1>5, <2>2 DEF Inv, TypeOK
<1>7. CASE pc' = Idle
  BY <1>1, <1>2, <1>3, <1>6, <1>7, EndKeeps, BackupsRestore
<1>8. CASE pc' # Idle
  <2>1. Reporting' /\ Loaded'
    BY <1>1, <1>3, <1>5, <1>8 DEF Inv, Reporting, Loaded
  <2>2. pc'.at \in {"clean", "commit", "check", "rollback"}
        /\ (pc'.at = "rollback" => pc'.i = 1)
        /\ (pc'.at # "rollback" => Compiles(src))
        /\ (pc'.at = "clean" => O = {}) /\ (pc'.at = "commit" => pc'.i = 1)
    BY <1>4, <1>8 DEF At
  <2>3. Checking' /\ RollingBack'
    BY <1>1, <1>2, <1>3, <2>2, FilesAssumption DEF Checking, RollingBack, F
  <2>4. Committing'
    BY <2>2, OutsAssumption DEF Committing, O
  <2> QED
    BY <1>3, <1>6, <1>8, <2>1, <2>2, <2>3, <2>4
       DEF Inv, BackingUp, Journaling, Replacing, Recoverable
<1> QED BY <1>7, <1>8

\* Each tree that is committed has the new name.
LEMMA CommitKeeps ==
  ASSUME Inv, NEW o \in O, CommitTree(o)
  PROVE  Inv'
<1>1. /\ pc = At("commit", o) /\ pc.at = "commit" /\ pc.i = o /\ pc # Idle
      /\ UNCHANGED <<src, backup, journal, snap, runs, edits, taken>>
  BY DEF CommitTree, At, Idle
<1>2. journal = "full" /\ backup = snap /\ Compiles(src) /\ \A f \in F : src[f] = Edited(f)
  BY <1>1 DEF Inv, Checking
<1>3. Compiles(src)' /\ Revisions' /\ \A f \in F : Edited(f)' = Edited(f)
  BY <1>1, <1>2 DEF Inv, Compiles, Revisions, Edited
<1>4. CASE /\ tree' = [tree EXCEPT ![o] = [name |-> Rendered, safe |-> TRUE]]
           /\ pc' = IF o + 1 \in O THEN At("commit", o + 1) ELSE At("clean", 1)
           /\ UNCHANGED status
  <2>1. Rendered \in Name
    BY <1>2, FilesAssumption, EditedType DEF Inv, Rendered, F, Content
  <2>2. TypeOK'
    BY <1>1, <1>4, <2>1, FilesAssumption DEF Inv, TypeOK, Position, F
  <2>3. Reporting' /\ Loaded'
    BY <1>1, <1>4 DEF Inv, Reporting, Loaded, Compiles
  <2>4. pc' # Idle /\ pc'.at \in {"commit", "clean"} /\ (pc'.at = "commit" => pc'.i = o + 1)
        /\ (pc'.at = "clean" => o + 1 \notin O)
    BY <1>4 DEF At, Idle
  <2>5. Checking'
    BY <1>1, <1>2, <1>3, <2>4 DEF Checking
  <2>6. Committing'
    BY <1>1, <1>4, <2>4, OutsAssumption DEF Inv, TypeOK, Committing, Rendered, O
  <2> QED
    BY <1>3, <2>2, <2>3, <2>4, <2>5, <2>6
       DEF Inv, BackingUp, Journaling, Replacing, RollingBack, Recoverable
<1>5. CASE UNCHANGED tree /\ Interrupted
  <2>1. pc' = Idle /\ status' \in {"error", "crashed"}
    BY <1>5 DEF Interrupted, Quit
  <2>2. TypeOK'
    BY <1>1, <1>5, <2>1 DEF Inv, TypeOK, Position
  <2>3. Recoverable'
    BY <1>3 DEF Recoverable
  <2> QED BY <1>3, <2>1, <2>2, <2>3, EndKeeps
<1> QED BY <1>4, <1>5 DEF CommitTree

\* Backups go when the sources compile without them.
LEMMA CleanKeeps ==
  ASSUME Inv, (\E f \in F : CleanBackup(f)) \/ CleanJournal
  PROVE  Inv'
<1>1. pc.at = "clean" /\ pc # Idle /\ UNCHANGED <<src, tree, snap, runs, edits, taken>>
  BY DEF CleanBackup, CleanJournal, At, Idle
<1>2. /\ \A f \in F : src[f] = Edited(f) /\ Edited(f)' = Edited(f)
      /\ Compiles(src)' /\ Compiles(snap)'
      /\ \A o \in O : tree'[o].name = src'[1].name
  BY <1>1 DEF Inv, Checking, Committing, Loaded, Compiles, Edited
<1>3. CASE \E f \in F : CleanBackup(f)
  <2>1. PICK f \in F : CleanBackup(f)
    BY <1>3
  <2>2. /\ journal' = journal /\ backup' \in {backup, [backup EXCEPT ![f] = NoBackup]}
        /\ \/ pc' = At("clean", f + 1) /\ status' = status
           \/ pc' = Idle /\ status' = "crashed"
    BY <2>1 DEF CleanBackup, Quit
  <2>3. TypeOK'
    <3>1. f + 1 \in 1..(Len(Files) + 1)
      BY FilesAssumption DEF F
    <3>2. Position'
      BY <2>2, <3>1 DEF Position
    <3> QED BY <1>1, <2>2, <3>2 DEF Inv, TypeOK
  <2>4. Revisions' /\ Recoverable'
    BY <1>1, <1>2, <2>2, SentinelsAssumption DEF Inv, TypeOK, Revisions, Recoverable
  <2>5. CASE pc' = Idle
    BY <2>3, <2>4, <2>5, EndKeeps
  <2>6. CASE pc' = At("clean", f + 1) /\ status' = status
    <3>1. pc'.at = "clean" /\ pc' # Idle
      BY <2>6 DEF At, Idle
    <3>2. Reporting' /\ Loaded'
      BY <1>1, <1>2, <2>6 DEF Inv, Reporting, Loaded
    <3>3. Checking' /\ Committing'
      BY <1>1, <1>2, <3>1 DEF Checking, Committing
    <3> QED
      BY <2>3, <2>4, <3>1, <3>2, <3>3
         DEF Inv, BackingUp, Journaling, Replacing, RollingBack
  <2> QED BY <2>2, <2>5, <2>6
<1>4. CASE CleanJournal
  <2>1. /\ pc' = Idle /\ status' \in {"applied", "crashed"} /\ backup' = backup
        /\ journal' \in {"none", journal}
    BY <1>4 DEF CleanJournal, Quit
  <2>2. TypeOK' /\ Revisions' /\ Recoverable'
    BY <1>1, <1>2, <2>1 DEF Inv, TypeOK, Position, Revisions, Recoverable
  <2> QED BY <2>1, <2>2, EndKeeps
<1> QED BY <1>3, <1>4

\* A rollback puts back a file before it drops its backup.
LEMMA RollbackFileKeeps ==
  ASSUME Inv, NEW f \in F, RollbackFile(f)
  PROVE  Inv'
<1>1. /\ pc = At("rollback", f) /\ pc.at = "rollback" /\ pc.i = f /\ pc # Idle
      /\ UNCHANGED <<journal, tree, snap, runs, edits, taken>>
  BY DEF RollbackFile, At, Idle
<1>2. /\ journal = "full" /\ Compiles(snap) /\ Compiles(snap)' /\ backup[f] = snap[f]
      /\ \A g \in F : IF g < f THEN src[g] = snap[g] /\ backup[g] \in {NoBackup, snap[g]}
                                ELSE src[g] \in {snap[g], Edited(g)} /\ backup[g] = snap[g]
  BY <1>1, FilesAssumption DEF Inv, RollingBack, Loaded, Compiles, F
<1>3. \A g \in F : /\ snap[g] \in Content /\ snap[g] # Torn
                   /\ Edited(g)' = Edited(g)
  BY <1>1, SentinelsAssumption DEF Inv, TypeOK, Edited
<1>4. CASE /\ src' = [src EXCEPT ![f] = backup[f]]
           /\ backup' \in {backup, [backup EXCEPT ![f] = NoBackup]}
           /\ pc' = At("rollback", f + 1)
           /\ UNCHANGED status
  <2>1. TypeOK'
    <3>1. f + 1 \in 1..(Len(Files) + 1)
      BY FilesAssumption DEF F
    <3>2. Position'
      BY <1>4, <3>1 DEF Position
    <3> QED BY <1>1, <1>2, <1>3, <1>4, <3>2 DEF Inv, TypeOK
  <2>2. Revisions' /\ Reporting' /\ Loaded'
    BY <1>1, <1>2, <1>3, <1>4, SentinelsAssumption
       DEF Inv, TypeOK, Revisions, Reporting, Loaded
  <2>3. pc' # Idle /\ pc'.at = "rollback" /\ pc'.i = f + 1
    BY <1>4 DEF At, Idle
  <2>4. RollingBack'
    <3> SUFFICES ASSUME NEW g \in F
                 PROVE  IF g < f + 1 THEN src'[g] = snap'[g] /\ backup'[g] \in {NoBackup, snap'[g]}
                        ELSE src'[g] \in {snap'[g], Edited(g)'} /\ backup'[g] = snap'[g]
      BY <1>1, <1>2, <2>3 DEF RollingBack
    <3>1. CASE g = f
      BY <1>1, <1>2, <1>4, <3>1, FilesAssumption DEF Inv, TypeOK, F
    <3>2. CASE g # f
      BY <1>1, <1>2, <1>3, <1>4, <3>2, FilesAssumption DEF Inv, TypeOK, F
    <3> QED BY <3>1, <3>2
  <2> QED
    BY <2>1, <2>2, <2>3, <2>4
       DEF Inv, BackingUp, Journaling, Replacing, Checking, Committing, Recoverable
<1>5. CASE /\ src' \in {src, [src EXCEPT ![f] = Torn], [src EXCEPT ![f] = backup[f]]}
           /\ Interrupted
           /\ UNCHANGED backup
  <2>1. pc' = Idle /\ status' \in {"error", "crashed"}
    BY <1>5 DEF Interrupted, Quit
  <2>2. TypeOK'
    BY <1>1, <1>2, <1>3, <1>5, <2>1 DEF Inv, TypeOK, Position
  <2>3. Revisions'
    BY <1>1, <1>2, <1>3, <1>5 DEF Inv, TypeOK, Revisions
  <2>4. \A g \in F : \/ backup'[g] = snap'[g]
                     \/ backup'[g] = NoBackup /\ src'[g] = snap'[g]
    BY <1>1, <1>2, <1>5, FilesAssumption DEF Inv, TypeOK, F
  <2>5. Recoverable'
    BY <1>1, <1>2, <2>2, <2>4, BackupsRestore
  <2> QED BY <2>1, <2>2, <2>3, <2>5, EndKeeps
<1> QED BY <1>4, <1>5 DEF RollbackFile

\* A rollback that is through has put back every file.
LEMMA RolledBack ==
  ASSUME Inv, RollbackJournal
  PROVE  src = snap
<1>1. pc.at = "rollback" /\ pc.i \in 1..(Len(Files) + 1) /\ pc.i \notin F
  BY PositionType DEF Inv, RollbackJournal
<1>2. \A f \in F : f < pc.i
  BY <1>1, FilesAssumption DEF F
<1> QED BY <1>1, <1>2 DEF Inv, TypeOK, RollingBack

\* The journal goes last, when every file is back.
LEMMA RollbackJournalKeeps ==
  ASSUME Inv, RollbackJournal
  PROVE  Inv'
<1>1. /\ pc.at = "rollback" /\ pc # Idle /\ journal' \in {"none", journal}
      /\ pc' = Idle /\ status' \in {"rolled_back", "crashed"}
      /\ UNCHANGED <<src, backup, tree, snap, runs, edits, taken>>
  BY DEF RollbackJournal, Quit, Idle
<1>2. Compiles(src)'
  BY <1>1, RolledBack DEF Inv, Loaded, Compiles
<1>3. TypeOK' /\ Revisions' /\ Recoverable'
  BY <1>1, <1>2 DEF Inv, TypeOK, Position, Revisions, Recoverable
<1> QED BY <1>1, <1>3, EndKeeps

----------------------------------------------------------------------------
(* The user, between two renames.                                          *)

\* Edits and recovery by hand happen between renames.
LEMMA UserKeeps ==
  ASSUME Inv, ~EditsWhileRunning, User
  PROVE  Inv'
<1>1. /\ pc = Idle /\ pc' = Idle /\ UNCHANGED <<backup, snap, status, runs, taken>>
  BY DEF User, UserMay, EditFile, EditTree, Recover
<1>2. CASE \E f \in F : EditFile(f)
  <2>1. PICK f \in F : EditFile(f)
    BY <1>2
  <2>2. /\ src[f] \in Content /\ edits + 1 \in 0..MaxEdits /\ edits' = edits + 1
        /\ src' = [src EXCEPT ![f].rev = edits + 1] /\ UNCHANGED <<journal, tree>>
    BY <2>1, BoundsAssumption DEF EditFile, UserMay, Inv, TypeOK
  <2>3. /\ src'[f] \in Content /\ src'[f].rev = edits + 1 /\ src'[f].name = src[f].name
        /\ \A g \in F \ {f} : src'[g] = src[g]
    BY <2>2 DEF Inv, TypeOK, Content
  <2>4. TypeOK'
    BY <1>1, <2>2, <2>3 DEF Inv, TypeOK, Position
  <2>5. Revisions'
    BY <1>1, <2>2, <2>3, SentinelsAssumption DEF Inv, TypeOK, Revisions, Content
  <2>6. Compiles(src) => Compiles(src)'
    BY <1>1, <2>3, SentinelsAssumption DEF Compiles
  <2>7. Compiles(Restored) => Compiles(Restored)'
    BY <1>1, <2>3, SentinelsAssumption DEF Compiles, Restored
  <2> QED BY <1>1, <2>2, <2>4, <2>5, <2>6, <2>7, EndKeeps DEF Inv, Recoverable
<1>3. CASE \E o \in O : EditTree(o)
  <2>1. PICK o \in O : EditTree(o)
    BY <1>3
  <2>2. TypeOK' /\ Revisions'
    <3>1. [tree[o] EXCEPT !.safe = ~@] \in [name : Name, safe : BOOLEAN]
      BY DEF Inv, TypeOK
    <3>2. tree' \in [O -> [name : Name, safe : BOOLEAN]]
      BY <2>1, <3>1 DEF EditTree, Inv, TypeOK
    <3>3. edits' = edits + 1 /\ edits' \in 0..MaxEdits /\ UNCHANGED <<src, journal>>
      BY <2>1, BoundsAssumption DEF EditTree, UserMay, Inv, TypeOK
    <3> QED BY <1>1, <3>2, <3>3 DEF Inv, TypeOK, Position, Revisions, Content
  <2>3. Recoverable'
    BY <1>1, <2>1 DEF EditTree, Inv, Recoverable, Compiles, Restored
  <2> QED BY <1>1, <2>2, <2>3, EndKeeps
<1>4. CASE Recover
  <2>1. /\ src' = IF journal = "full" /\ ~Compiles(src) THEN Restored ELSE src
        /\ journal' = "none" /\ UNCHANGED <<tree, edits>>
    BY <1>4 DEF Recover
  <2>2. Compiles(src)'
    BY <1>1, <2>1 DEF Inv, Recoverable, Compiles
  <2>3. TypeOK' /\ Revisions'
    BY <1>1, <2>1, SentinelsAssumption DEF Inv, TypeOK, Position, Revisions, Restored
  <2> QED BY <1>1, <2>2, <2>3, EndKeeps DEF Recoverable
<1> QED BY <1>2, <1>3, <1>4 DEF User

----------------------------------------------------------------------------

\* Every step keeps the invariant.
THEOREM Inductive ==
  ASSUME Inv, ~EditsWhileRunning, [Next]_vars
  PROVE  Inv'
<1>1. CASE Process
  BY <1>1, StartKeeps, BackupKeeps, WriteJournalKeeps, ReplaceKeeps, CheckKeeps, CommitKeeps,
     CleanKeeps, RollbackFileKeeps, RollbackJournalKeeps DEF Process
<1>2. CASE User
  BY <1>2, UserKeeps
<1>3. CASE UNCHANGED vars
  BY <1>3
     DEF vars, Inv, TypeOK, Position, Reporting, Revisions, BackingUp, Journaling, Replacing,
         Checking, Committing, RollingBack, Loaded, Recoverable, Compiles, Restored, Edited
<1> QED BY <1>1, <1>2, <1>3 DEF Next

\* The invariant holds in every behaviour, if nobody edits during a rename.
THEOREM Invariance ==
  ASSUME ~EditsWhileRunning
  PROVE  Spec => []Inv
<1>1. Inv /\ [Next]_vars => Inv'
  BY Inductive
<1> QED BY <1>1, Initially, PTL DEF Spec

\* The variables keep their types, and the process never leaves its loops.
THEOREM TypeCorrect ==
  ASSUME ~EditsWhileRunning
  PROVE  Spec => []TypeOK
<1>1. Inv => TypeOK
  BY DEF Inv
<1> QED BY <1>1, Invariance, PTL

\* Whatever write failed and wherever the process died, in this rename or an earlier one: if
\* the sources do not compile there is a journal, and with the backups beside them they do
\* (apply_plan's order of backups, journal and replacing; rollback).
THEOREM AlwaysRecoverable ==
  ASSUME ~EditsWhileRunning
  PROVE  Spec => []Recoverable
<1>1. Inv => Recoverable
  BY DEF Inv
<1> QED BY <1>1, Invariance, PTL

----------------------------------------------------------------------------
(* What a step of the process may report, and what it may not undo.        *)

\* Only the last step of a rollback reports it, and only the last step of a cleanup a success.
LEMMA Reports ==
  ASSUME Inv, ~EditsWhileRunning, Next, pc # Idle
  PROVE  /\ status' = "rolled_back" => RollbackJournal
         /\ status' = "applied" => CleanJournal
<1>1. status = "running"
  BY DEF Inv, Reporting
<1>2. Process
  BY DEF Next, User, UserMay, EditFile, EditTree, Recover
<1>3. ASSUME Process, ~RollbackJournal, ~CleanJournal
      PROVE  status' \notin {"rolled_back", "applied"}
  BY <1>1, <1>3
     DEF Process, Backup, Replace, CleanBackup, RollbackFile, CheckTree, CommitTree, Start,
         WriteJournal, Verify, Interrupted, Quit
<1>4. RollbackJournal => status' # "applied"
  BY DEF RollbackJournal, Quit
<1>5. CleanJournal => status' # "rolled_back"
  BY DEF CleanJournal, Quit
<1> QED BY <1>2, <1>3, <1>4, <1>5

\* A rename that reports its rollback has put back every source as it was loaded, whatever
\* backups earlier renames left behind (rollback, apply_plan).
THEOREM RollbacksAreTotal ==
  ASSUME ~EditsWhileRunning
  PROVE  Spec => RollbackIsTotal
<1>1. Inv /\ [Next]_vars =>
        [(pc.at = "rollback" /\ status' = "rolled_back") => src' = snap]_vars
  <2> SUFFICES ASSUME Inv, Next, pc.at = "rollback", status' = "rolled_back"
               PROVE  src' = snap
    OBVIOUS
  <2>1. RollbackJournal
    BY Reports DEF Idle
  <2> QED BY <2>1, RolledBack DEF RollbackJournal
<1> QED BY <1>1, Invariance, PTL DEF Spec, RollbackIsTotal

\* A rename that reports success has put the new name into every file and every tree
\* (apply_plan's verification, its checks and commits of the trees).
THEOREM SuccessIsEverywhere ==
  ASSUME ~EditsWhileRunning
  PROVE  Spec => AppliedEverywhere
<1>1. Inv /\ [Next]_vars =>
        [(pc.at = "clean" /\ status' = "applied") =>
           /\ \A f \in F : src'[f] = Edited(f)
           /\ \A o \in O : tree'[o].name = src'[1].name]_vars
  <2> SUFFICES ASSUME Inv, Next, pc.at = "clean", status' = "applied"
               PROVE  /\ \A f \in F : src'[f] = Edited(f)
                      /\ \A o \in O : tree'[o].name = src'[1].name
    OBVIOUS
  <2>1. CleanJournal
    BY Reports DEF Idle
  <2>2. src' = src /\ tree' = tree
    BY <2>1 DEF CleanJournal
  <2> QED BY <2>2 DEF Inv, Checking, Committing
<1> QED BY <1>1, Invariance, PTL DEF Spec, AppliedEverywhere

\* While a rename runs, each file is at the revision that was loaded, or torn with a backup
\* that is.
LEMMA RunningRevision ==
  ASSUME Inv, pc # Idle, NEW f \in F
  PROVE  src[f] # Torn /\ src[f].rev = snap[f].rev
<1>1. /\ snap[f] \in Content /\ snap[f] # Torn
      /\ Edited(f) # Torn /\ Edited(f).rev = snap[f].rev
  BY EditedType, SentinelsAssumption DEF Inv, TypeOK
<1>2. pc.at \in {"backup", "journal", "replace", "verify", "check", "commit", "clean", "rollback"}
  BY DEF Inv, TypeOK, Position, At
<1> QED
  BY <1>1, <1>2 DEF Inv, BackingUp, Journaling, Replacing, Checking, RollingBack

\* No rename, finished, failed or killed, undoes a revision of the user, nor does an edit:
\* recovery by hand apart, each file or the backup of a torn one only gets newer.
THEOREM NoEditIsUndone ==
  ASSUME ~EditsWhileRunning
  PROVE  Spec => EditsKept
<1>1. Inv /\ [Next]_vars =>
        [\A f \in F : RevOf(src', backup', f) >= RevOf(src, backup, f) \/ Recover]_vars
  <2> SUFFICES ASSUME Inv, Next, ~Recover, NEW f \in F
               PROVE  RevOf(src', backup', f) >= RevOf(src, backup, f)
    OBVIOUS
  <2>1. TypeOK /\ TypeOK' /\ Inv'
    BY Inductive DEF Inv
  <2>2. CASE User
    <3>1. PICK g \in F : EditFile(g) \/ UNCHANGED <<src, backup>>
      BY <2>2, FilesAssumption DEF User, EditFile, EditTree, F
    <3> QED
      BY <2>1, <3>1, BoundsAssumption, SentinelsAssumption
         DEF EditFile, Inv, Revisions, RevOf, TypeOK, Content
  <2>3. CASE Start
    BY <2>1, <2>3 DEF Start, RevOf, TypeOK, Content
  <2>4. CASE Process /\ ~Start
    <3>1. pc # Idle /\ snap' = snap
      BY <2>4
         DEF Process, Backup, Replace, CleanBackup, RollbackFile, CheckTree, CommitTree,
             WriteJournal, Verify, CleanJournal, RollbackJournal, At, Idle
    <3>2. /\ src[f] # Torn /\ src[f].rev = snap[f].rev
          /\ snap[f] \in Content /\ snap[f] # Torn /\ snap[f].rev \in 0..MaxEdits
          /\ Edited(f) # Torn /\ Edited(f).rev = snap[f].rev
      BY <3>1, <2>1, RunningRevision, EditedType, SentinelsAssumption DEF TypeOK, Content
    <3>3. \/ src'[f] = src[f] \/ src'[f] = Edited(f) \/ src'[f] = snap[f]
          \/ src'[f] = Torn /\ backup'[f] = snap[f]
      <4>1. CASE \E g \in F : Replace(g)
        BY <2>1, <4>1 DEF Replace, TypeOK
      <4>2. CASE \E g \in F : RollbackFile(g)
        <5>1. PICK g \in F : RollbackFile(g)
          BY <4>2
        <5>2. backup[g] = snap[g]
          BY <5>1, FilesAssumption DEF RollbackFile, Inv, RollingBack, At, F
        <5> QED BY <2>1, <5>1, <5>2 DEF RollbackFile, TypeOK
      <4>3. CASE UNCHANGED src
        BY <4>3
      <4> QED
        BY <2>4, <4>1, <4>2, <4>3
           DEF Process, Backup, CleanBackup, CheckTree, CommitTree, WriteJournal, Verify,
               CleanJournal, RollbackJournal
    <3> QED BY <3>2, <3>3 DEF RevOf
  <2> QED BY <2>2, <2>3, <2>4 DEF Next
<1> QED BY <1>1, Invariance, PTL DEF Spec, EditsKept
=============================================================================
