------------------------------- MODULE Regen -------------------------------
(***************************************************************************)
(* `ciac build` into an output tree that already exists.  A build          *)
(* generates a project from the source and the previous manifest, compares *)
(* it with the disk (plan_regeneration), applies the plan file by file     *)
(* (apply_regeneration) and records the result in .ciac/manifest.json.     *)
(* Between any two of these steps the user may edit the tree, another      *)
(* build may run, or the process may die.                                  *)
(*                                                                         *)
(* A file's hash stands for its content.  What a backend renders for a     *)
(* source revision is the constant Emit; a SQL migration is the set of     *)
(* schema features (tables, columns) it adds.                              *)
(***************************************************************************)
EXTENDS Naturals, FiniteSets

CONSTANTS
  File,        \* generated paths other than migration files
  Content,     \* contents those files can have, the user's included
  Feature,     \* additive schema elements: a table, a column
  MaxSeq,      \* bound: migration sequence numbers
  Builder,     \* processes that run builds on this tree
  Revision,    \* a source text together with the flags of its build
  Compiler,    \* compiler versions
  Emit,        \* Emit[c][r][f]: what compiler c renders for f, or NoFile
  Schema,      \* Schema[r]: the features of r's tables
  Breaking,    \* pairs <<old, new>>: a boundary record lost a field
  Modes,       \* the kinds of build that are run
  UserDoes,    \* what the user does to the tree besides editing the source
  Edits,       \* contents the user may write
  Interfere,   \* TRUE: the user also edits while a build is running
  Crashes,     \* TRUE: a build may die, or fail with an I/O error
  NoFile, Absent, Torn, NoManifest, TornManifest

Mode == {"normal", "adopt", "force", "replay"}
MigPath == {"migration"} \X (1..MaxSeq)
Path == File \cup MigPath
Sql == [adds : SUBSET Feature]
Data == Content \cup Sql
OnDisk == Data \cup {Absent, Torn}
Role == {"Owned", "Seeded", "Migration"}
Entry == [role : Role, content : Data]
Project == [Path -> Entry \cup {NoFile}]
Manifest == [files : Project, tables : SUBSET Feature, seq : 1..(MaxSeq + 1),
             rev : Revision, compiler : Compiler]
Generated == [proj : Project, tables : SUBSET Feature, seq : 1..(MaxSeq + 1),
              rev : Revision, compiler : Compiler]
Statuses == {"New", "Unchanged", "Update", "Conflict", "SeededDrift",
             "OrphanDelete", "OrphanLeft", "None"}
Writing == {"New", "Update"}
Sidecar == {"Conflict", "SeededDrift"}

ASSUME BoundAssumption == MaxSeq \in Nat
ASSUME ChoiceAssumption ==
  /\ Modes \subseteq Mode
  /\ UserDoes \subseteq {"edit", "delete", "drop sidecar", "drop manifest"}
  /\ Edits \subseteq Content
  /\ Interfere \in BOOLEAN /\ Crashes \in BOOLEAN
ASSUME ProgramAssumption ==
  /\ Schema \in [Revision -> SUBSET Feature]
  /\ Emit \in [Compiler -> [Revision -> [File ->
                 [role : {"Owned", "Seeded"}, content : Content] \cup {NoFile}]]]
  /\ Breaking \subseteq Revision \X Revision
ASSUME SentinelAssumption ==
  /\ File \cap MigPath = {}
  /\ NoFile \notin Entry
  /\ Absent \notin Data /\ Torn \notin Data /\ Absent # Torn
  /\ NoManifest \notin Manifest /\ TornManifest \notin Manifest
  /\ NoManifest # TornManifest

VARIABLES
  disk,      \* what each generated path holds
  side,      \* what each path's .ciac-new sidecar holds
  manifest,  \* .ciac/manifest.json
  rev, compiler,              \* the source as it is now, the installed compiler
  phase, mode, gen, status, todo,  \* each builder's place in build_inner
  result,    \* how each builder's last build ended
  known,     \* history: contents builds have rendered for each path
  touched    \* history: paths the user changed since a build last wrote them

tree == <<disk, side, manifest>>
source == <<rev, compiler>>
job == <<phase, mode, gen, status, todo, result>>
history == <<known, touched>>
vars == <<disk, side, manifest, rev, compiler, phase, mode, gen, status, todo,
          result, known, touched>>

Readable == manifest \notin {NoManifest, TornManifest}
Base(p) == IF Readable THEN manifest.files[p] ELSE NoFile
OldTables == IF Readable THEN manifest.tables ELSE {}
OldSeq == IF Readable THEN manifest.seq ELSE 1

-----------------------------------------------------------------------------
(* generate(): the project, and the schema state its manifest will carry.   *)

SchemaRefused == ~(OldTables \subseteq Schema[rev])
RecordsRefused == Readable /\ <<manifest.rev, rev>> \in Breaking
Delta == Schema[rev] \ OldTables

ProjectNow ==
  [p \in Path |->
     IF p \in File THEN Emit[compiler][rev][p]
     ELSE IF Delta # {} /\ p = <<"migration", OldSeq>>
          THEN [role |-> "Migration", content |-> [adds |-> Delta]]
          ELSE NoFile]

\* (For the word Faulty see plan_regeneration below.)
GeneratedNow_FaultySeq ==
  [proj |-> ProjectNow, tables |-> Schema[rev],
   seq |-> OldSeq + Cardinality(Schema[rev]), rev |-> rev, compiler |-> compiler]

GeneratedNow ==
  [proj |-> ProjectNow, tables |-> Schema[rev],
   seq |-> IF Delta = {} THEN OldSeq ELSE OldSeq + 1,
   rev |-> rev, compiler |-> compiler]

-----------------------------------------------------------------------------
(* plan_regeneration(): the three-way comparison of one path.  A definition *)
(* whose name ends in _Faulty... is a plausible bug that the properties must *)
(* reject; no action uses it.                                               *)

StatusOf_FaultyIgnoresEdit(adopt, d, base, new) ==
  IF d = Absent THEN "New"
  ELSE IF d = new.content THEN "Unchanged"
  ELSE IF new.role = "Owned" THEN IF base # NoFile THEN "Update" ELSE "Conflict"
       ELSE "SeededDrift"

StatusOf_FaultyNags(adopt, d, base, new) ==
  IF d = Absent THEN "New"
  ELSE IF d = new.content THEN "Unchanged"
  ELSE IF new.role # "Owned" THEN "SeededDrift"
  ELSE IF base # NoFile /\ d = base.content THEN "Update" ELSE "Conflict"

StatusOf(adopt, d, base, new) ==
  IF d = Absent THEN "New"
  ELSE IF d = new.content THEN "Unchanged"
  ELSE IF new.role = "Owned"
       THEN IF ~adopt /\ base # NoFile /\ d = base.content
            THEN "Update" ELSE "Conflict"
       ELSE IF ~adopt /\ base # NoFile /\ base.content = new.content
            THEN "Unchanged" ELSE "SeededDrift"

OrphanStatus_FaultyAnyRole(d, base) ==
  IF d = base.content THEN "OrphanDelete" ELSE "OrphanLeft"

OrphanStatus(d, base) ==
  IF base.role = "Owned" /\ d = base.content THEN "OrphanDelete" ELSE "OrphanLeft"

PlanEntry(adopt, proj, p) ==
  IF proj[p] # NoFile THEN StatusOf(adopt, disk[p], Base(p), proj[p])
  ELSE IF ~adopt /\ Base(p) # NoFile THEN OrphanStatus(disk[p], Base(p))
  ELSE "None"

Plan(adopt, proj) == [p \in Path |-> PlanEntry(adopt, proj, p)]
HasErrors(plan) == \E p \in Path : plan[p] = "Conflict"

\* A normal build whose plan has a conflict writes sidecars only, and fails.
FullApply(m, plan) == ~(m = "normal" /\ HasErrors(plan))

\* ApplyMode::Full and ApplyMode::SidecarsOnly
ToApply_FaultyFull(full, plan) ==
  {p \in Path : plan[p] \in Sidecar \cup Writing \cup {"OrphanDelete"}}
ToApply(full, plan) ==
  {p \in Path : plan[p] \in Sidecar \cup
                  (IF full THEN Writing \cup {"OrphanDelete"} ELSE {})}

UpToDate_FaultyIgnoresDisk == Readable /\ manifest.rev = rev

\* is_up_to_date(): the compiler version the manifest records is not compared
UpToDate ==
  /\ Readable
  /\ manifest.rev = rev
  /\ \A p \in Path : manifest.files[p] # NoFile => disk[p] = manifest.files[p].content

OutputDirNonempty ==
  \E p \in Path : disk[p] # Absent \/ side[p] # Absent

-----------------------------------------------------------------------------
NoProject == [p \in Path |-> NoFile]
NoPlan == [p \in Path |-> "None"]
NoGen == [proj |-> NoProject, tables |-> {}, seq |-> 1,
          rev |-> CHOOSE r \in Revision : TRUE,
          compiler |-> CHOOSE c \in Compiler : TRUE]

Init ==
  /\ disk = [p \in Path |-> Absent]
  /\ side = [p \in Path |-> Absent]
  /\ manifest = NoManifest
  /\ rev \in Revision /\ compiler \in Compiler
  /\ phase = [b \in Builder |-> "idle"]
  /\ mode = [b \in Builder |-> "normal"]
  /\ gen = [b \in Builder |-> NoGen]
  /\ status = [b \in Builder |-> NoPlan]
  /\ todo = [b \in Builder |-> {}]
  /\ result = [b \in Builder |-> "none"]
  /\ known = [p \in Path |-> {}]
  /\ touched = [p \in Path |-> FALSE]

\* Builder b leaves build_inner with the given result.
Return(b, r) ==
  /\ phase' = [phase EXCEPT ![b] = "idle"]
  /\ mode' = [mode EXCEPT ![b] = "normal"]
  /\ gen' = [gen EXCEPT ![b] = NoGen]
  /\ status' = [status EXCEPT ![b] = NoPlan]
  /\ todo' = [todo EXCEPT ![b] = {}]
  /\ result' = [result EXCEPT ![b] = r]

-----------------------------------------------------------------------------
(* The user, who leaves migrations and their sidecars alone.                *)

Quiet == \A b \in Builder : phase[b] = "idle"

EditFile(p, c) ==
  /\ Interfere \/ Quiet
  /\ (IF c = Absent THEN "delete" ELSE "edit") \in UserDoes
  /\ disk[p] # c
  /\ disk' = [disk EXCEPT ![p] = c]
  /\ touched' = [touched EXCEPT ![p] = TRUE]
  /\ UNCHANGED <<side, manifest, source, job, known>>

DropSidecar(p) ==
  /\ Quiet /\ "drop sidecar" \in UserDoes /\ side[p] # Absent
  /\ side' = [side EXCEPT ![p] = Absent]
  /\ UNCHANGED <<disk, manifest, source, job, history>>

DeleteManifest ==
  /\ Quiet /\ "drop manifest" \in UserDoes /\ manifest # NoManifest
  /\ manifest' = NoManifest
  /\ UNCHANGED <<disk, side, source, job, history>>

EditSource(r) ==
  /\ r # rev
  /\ rev' = r
  /\ UNCHANGED <<tree, compiler, job, history>>

UpgradeCompiler(c) ==
  /\ c # compiler /\ Quiet
  /\ compiler' = c
  /\ UNCHANGED <<tree, rev, job, history>>

-----------------------------------------------------------------------------
(* A build, step by step.                                                   *)

BuildUpToDate(b, m) ==
  /\ phase[b] = "idle"
  /\ m \in {"normal", "adopt"} /\ UpToDate
  /\ Return(b, "up to date")
  /\ UNCHANGED <<tree, source, history>>

\* What a build of this mode does once is_up_to_date has said no.
Proceeds(b, m) ==
  /\ phase[b] = "idle"
  /\ m \in {"normal", "adopt"} => ~UpToDate

BuildUnreadable(b, m) ==
  /\ Proceeds(b, m)
  /\ manifest = TornManifest
  /\ Return(b, "unreadable manifest")
  /\ UNCHANGED <<tree, source, history>>

BuildRefused(b, m) ==
  /\ Proceeds(b, m)
  /\ manifest # TornManifest
  /\ SchemaRefused \/ RecordsRefused
  /\ Return(b, "refused")
  /\ UNCHANGED <<tree, source, history>>

\* A replay is `ciac rename --out`: a tree without a manifest has no recipe to
\* replay, and it goes ahead only when its dry run found no conflict.
BuildGenerate(b, m) ==
  /\ Proceeds(b, m)
  /\ manifest # TornManifest
  /\ ~SchemaRefused /\ ~RecordsRefused
  /\ Delta # {} => OldSeq \leq MaxSeq
  /\ m = "replay" => Readable /\ ~HasErrors(Plan(FALSE, ProjectNow))
  /\ gen' = [gen EXCEPT ![b] = GeneratedNow]
  /\ mode' = [mode EXCEPT ![b] = m]
  /\ phase' = [phase EXCEPT ![b] = "generated"]
  /\ result' = [result EXCEPT ![b] = "none"]
  /\ known' = [p \in Path |-> known[p] \cup
                 (IF ProjectNow[p] = NoFile THEN {} ELSE {ProjectNow[p].content})]
  /\ UNCHANGED <<tree, source, status, todo, touched>>

\* --force: remove_dir_all(out), then GeneratedProject::write_to.
ForceClear(b) ==
  /\ phase[b] = "generated" /\ mode[b] = "force"
  /\ disk' = [p \in Path |-> Absent]
  /\ side' = [p \in Path |-> Absent]
  /\ manifest' = NoManifest
  /\ phase' = [phase EXCEPT ![b] = "applying"]
  /\ status' = [status EXCEPT ![b] =
        [p \in Path |-> IF gen[b].proj[p] = NoFile THEN "None" ELSE "New"]]
  /\ todo' = [todo EXCEPT ![b] = {p \in Path : gen[b].proj[p] # NoFile}]
  /\ touched' = [p \in Path |-> FALSE]
  /\ UNCHANGED <<source, mode, gen, result, known>>

\* The manifest is read a second time, after generate() has read it.
PlanStops(b) ==
  /\ phase[b] = "generated" /\ mode[b] # "force"
  /\ \/ manifest = TornManifest /\ Return(b, "unreadable manifest")
     \/ /\ manifest = NoManifest /\ OutputDirNonempty /\ mode[b] = "normal"
        /\ Return(b, "missing manifest")
  /\ UNCHANGED <<tree, source, history>>

Fails_FaultyNever(b) == FALSE
Fails(b) == ~FullApply(mode[b], status[b])

PlanBuild(b) ==
  /\ phase[b] = "generated" /\ mode[b] # "force"
  /\ manifest # TornManifest
  /\ manifest = NoManifest /\ mode[b] = "normal" => ~OutputDirNonempty
  /\ LET plan == Plan(mode[b] = "adopt", gen[b].proj)
     IN /\ status' = [status EXCEPT ![b] = plan]
        /\ todo' = [todo EXCEPT ![b] = ToApply(FullApply(mode[b], plan), plan)]
        /\ touched' = [p \in Path |->
             touched[p] \/ (mode[b] = "adopt" /\ plan[p] = "Conflict")]
  /\ phase' = [phase EXCEPT ![b] = "applying"]
  /\ UNCHANGED <<tree, source, mode, gen, result, known>>

\* One entry of apply_regeneration (or one file of write_to).
ApplyFile(b, p) ==
  /\ phase[b] = "applying" /\ p \in todo[b]
  /\ todo' = [todo EXCEPT ![b] = @ \ {p}]
  /\ \/ /\ status[b][p] \in Writing
        /\ disk' = [disk EXCEPT ![p] = gen[b].proj[p].content]
        /\ touched' = [touched EXCEPT ![p] = FALSE]
        /\ UNCHANGED side
     \/ /\ status[b][p] \in Sidecar
        /\ side' = [side EXCEPT ![p] = gen[b].proj[p].content]
        /\ UNCHANGED <<disk, touched>>
     \/ /\ status[b][p] = "OrphanDelete"
        /\ disk' = [disk EXCEPT ![p] = Absent]
        /\ UNCHANGED <<side, touched>>
  /\ UNCHANGED <<manifest, source, phase, mode, gen, status, result, known>>

FinishFailed(b) ==
  /\ phase[b] = "applying" /\ todo[b] = {} /\ Fails(b)
  /\ Return(b, "conflict")
  /\ UNCHANGED <<tree, source, history>>

\* manifest_files() lists every generated entry and drops the orphans.
FinishBuild(b) ==
  /\ phase[b] = "applying" /\ todo[b] = {} /\ ~Fails(b)
  /\ manifest' = [files |-> gen[b].proj, tables |-> gen[b].tables,
                  seq |-> gen[b].seq, rev |-> gen[b].rev,
                  compiler |-> gen[b].compiler]
  /\ Return(b, IF mode[b] = "force" THEN "forced" ELSE "built")
  /\ UNCHANGED <<disk, side, source, history>>

-----------------------------------------------------------------------------
(* The process dies, or an I/O error returns through `?`, between two       *)
(* steps or in the middle of one of its three kinds of write.               *)

Abort(b) ==
  /\ Crashes /\ phase[b] # "idle"
  /\ Return(b, "aborted")
  /\ UNCHANGED <<tree, source, history>>

\* std::fs::write truncates before it writes.
AbortInWrite(b, p) ==
  /\ Crashes /\ phase[b] = "applying" /\ p \in todo[b]
  /\ \/ /\ status[b][p] \in Writing
        /\ disk' = [disk EXCEPT ![p] = Torn]
        /\ UNCHANGED side
     \/ /\ status[b][p] \in Sidecar
        /\ side' = [side EXCEPT ![p] = Torn]
        /\ UNCHANGED disk
  /\ Return(b, "aborted")
  /\ UNCHANGED <<manifest, source, history>>

AbortInManifest(b) ==
  /\ Crashes /\ phase[b] = "applying" /\ todo[b] = {} /\ ~Fails(b)
  /\ manifest' = TornManifest
  /\ Return(b, "aborted")
  /\ UNCHANGED <<disk, side, source, history>>

AbortInClear(b, S) ==
  /\ Crashes /\ phase[b] = "generated" /\ mode[b] = "force"
  /\ disk' = [p \in Path |-> IF p \in S THEN Absent ELSE disk[p]]
  /\ side' = [p \in Path |-> IF p \in S THEN Absent ELSE side[p]]
  /\ manifest' \in {manifest, NoManifest}
  /\ touched' = [p \in Path |-> p \notin S /\ touched[p]]
  /\ Return(b, "aborted")
  /\ UNCHANGED <<source, known>>

-----------------------------------------------------------------------------
User ==
  \/ \E p \in File, c \in Edits \cup {Absent} : EditFile(p, c)
  \/ \E p \in File : DropSidecar(p)
  \/ DeleteManifest
  \/ \E r \in Revision : EditSource(r)
  \/ \E c \in Compiler : UpgradeCompiler(c)

Start(b) ==
  \E m \in Modes : \/ BuildUpToDate(b, m)
                   \/ BuildUnreadable(b, m)
                   \/ BuildRefused(b, m)
                   \/ BuildGenerate(b, m)

Step(b) ==
  \/ ForceClear(b)
  \/ PlanStops(b)
  \/ PlanBuild(b)
  \/ \E p \in Path : ApplyFile(b, p)
  \/ FinishFailed(b)
  \/ FinishBuild(b)

Fault(b) ==
  \/ Abort(b)
  \/ \E p \in Path : AbortInWrite(b, p)
  \/ AbortInManifest(b)
  \/ \E S \in SUBSET Path : AbortInClear(b, S)

Next == User \/ \E b \in Builder : Start(b) \/ Step(b) \/ Fault(b)

Spec == Init /\ [][Next]_vars

\* A process that has started a build runs it to its end unless it dies, and
\* the user keeps running builds.
FairSpec == Spec /\ \A b \in Builder : WF_vars(Start(b)) /\ WF_vars(Step(b))

----------------------------------------------------------------------------
(***************************************************************************)
(* What must be true of builds into an existing tree.                      *)
(***************************************************************************)

\* Every variable has its type.
TypeOK ==
  /\ disk \in [Path -> OnDisk]
  /\ side \in [Path -> OnDisk]
  /\ manifest \in Manifest \cup {NoManifest, TornManifest}
  /\ rev \in Revision /\ compiler \in Compiler
  /\ phase \in [Builder -> {"idle", "generated", "applying"}]
  /\ mode \in [Builder -> Mode]
  /\ gen \in [Builder -> Generated]
  /\ status \in [Builder -> [Path -> Statuses]]
  /\ todo \in [Builder -> SUBSET Path]
  /\ known \in [Path -> SUBSET Data]
  /\ touched \in [Path -> BOOLEAN]

\* A builder has work only while it applies a plan, and what it writes is
\* something it generated.
WorkFits ==
  \A b \in Builder :
    /\ phase[b] # "applying" => todo[b] = {}
    /\ \A p \in todo[b] :
         status[b][p] \in Writing \cup Sidecar => gen[b].proj[p] # NoFile

\* The parts of the inductive invariant of RegenProofs.
ManifestKnown ==
  Readable => \A p \in Path :
    manifest.files[p] # NoFile => manifest.files[p].content \in known[p]
GeneratedKnown ==
  \A b \in Builder, p \in Path : phase[b] # "idle" /\ gen[b].proj[p] # NoFile
    => gen[b].proj[p].content \in known[p]
OverwritesExpendable ==
  \A b \in Builder : \A p \in todo[b] :
    phase[b] = "applying" /\ status[b][p] \in Writing \cup {"OrphanDelete"}
      => disk[p] \in known[p] \cup {Absent, Torn}
SafetyInv == ManifestKnown /\ GeneratedKnown /\ OverwritesExpendable

Forcing == \E b \in Builder : mode[b] = "force" /\ phase[b] = "generated"

\* No build that is not a --force build replaces or deletes a file whose
\* content no build ever rendered for that path: what a user typed into a
\* generated file survives every later `ciac build`, `--adopt` and
\* `rename --out` (plan_regeneration's table, manifest_files, the crashes).
Safety == INSTANCE EditSafety WITH building <- ~Quiet, forcing <- Forcing
NoUserContentLost == Safety!Spec

SeededFile == {f \in File : \E c \in Compiler, r \in Revision :
                 Emit[c][r][f] # NoFile /\ Emit[c][r][f].role = "Seeded"}

\* "Seeded files are generated once and then owned by the user": while builds
\* run, a seeded file or a migration that holds something keeps it, edited or
\* not, unless the tree is being cleared by --force.
SeedWrittenOnce ==
  [][\A p \in SeededFile \cup MigPath :
       disk[p] # Absent /\ disk'[p] # disk[p] => Quiet \/ Forcing]_vars

\* CIAC0033 means the file was edited: a normal build never reports a conflict
\* on an owned file the user left as the compiler wrote it, whatever failed
\* builds, orphaned files and returning files came before.
NoFalseConflict ==
  \A b \in Builder, p \in Path :
    phase[b] = "applying" /\ mode[b] = "normal" /\ status[b][p] = "Conflict"
      => touched[p]

\* Every schema feature the manifest counts as migrated is in a migration file
\* on disk, or in a sidecar waiting to be reconciled: the next build's diff
\* starts from a schema that the migrations really build up.
SchemaCovered ==
  Readable => \A x \in manifest.tables : \E p \in MigPath :
                 \/ disk[p] \in Sql /\ x \in disk[p].adds
                 \/ side[p] \in Sql /\ x \in side[p].adds

\* is_up_to_date() never skips a build that had something to do: the tree is
\* what the installed compiler renders from the present source.
UpToDateIsSound ==
  UpToDate =>
    /\ manifest.tables = Schema[rev]
    /\ \A f \in File : LET e == Emit[compiler][rev][f]
                       IN e # NoFile => disk[f] = e.content

\* A failed build changes neither the manifest nor a file, over its whole run:
\* until FinishFailed it has written sidecars only.
FailedBuildsKeepTree ==
  [][\A b \in Builder : Fails(b) /\ phase[b] = "applying" =>
       disk' = disk /\ manifest' = manifest]_vars

\* The next build has nothing to write: changed_count() of its plan is zero.
Settled ==
  Readable /\ \A p \in Path :
    Plan(FALSE, ProjectNow)[p] \in {"Unchanged", "OrphanLeft", "None"}

\* Rebuilding converges: once the user stops changing the source and deleting
\* files, repeated builds of a tree nobody edited reach a state where every
\* further build is skipped, changes nothing, or is refused by the schema or record differ.
BuildsConverge ==
  <>[][~User]_vars => <>[](UpToDate \/ Settled \/ SchemaRefused \/ RecordsRefused)
=============================================================================
