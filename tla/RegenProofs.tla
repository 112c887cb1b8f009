---------------------------- MODULE RegenProofs ----------------------------
(***************************************************************************)
(* Theorems about Regen, for every set of files, contents, revisions,      *)
(* compilers and builders: type correctness, and that builds implement     *)
(* EditSafety, i.e. never lose what only the user has; then every other    *)
(* safety property of the runs, most of them for a builder that is alone.  *)
(***************************************************************************)
EXTENDS Regen, TLAPS

\* What generate() returns has its type, as long as a sequence number is left.
LEMMA GeneratedType ==
  ASSUME TypeOK, Delta # {} => OldSeq \leq MaxSeq
  PROVE  GeneratedNow \in Generated
<1>1. OldTables \in SUBSET Feature /\ OldSeq \in 1..(MaxSeq + 1)
  <2>1. CASE Readable
    <3>1. manifest \in Manifest
      BY <2>1 DEF TypeOK, Readable
    <3> QED BY <2>1, <3>1 DEF OldTables, OldSeq, Manifest
  <2>2. CASE ~Readable
    BY <2>2, BoundAssumption DEF OldTables, OldSeq
  <2> QED BY <2>1, <2>2
<1>2. Schema[rev] \in SUBSET Feature /\ Delta \in SUBSET Feature
  BY ProgramAssumption DEF TypeOK, Delta
<1>3. ProjectNow \in Project
  <2>1. ASSUME NEW p \in Path
        PROVE  (IF p \in File THEN Emit[compiler][rev][p]
                ELSE IF Delta # {} /\ p = <<"migration", OldSeq>>
                     THEN [role |-> "Migration", content |-> [adds |-> Delta]]
                     ELSE NoFile) \in Entry \cup {NoFile}
    <3>1. CASE p \in File
      <4>1. Emit[compiler][rev][p] \in
              [role : {"Owned", "Seeded"}, content : Content] \cup {NoFile}
        BY <3>1, ProgramAssumption DEF TypeOK
      <4> QED BY <3>1, <4>1 DEF Entry, Role, Data
    <3>2. CASE p \notin File
      BY <3>2, <1>2 DEF Entry, Role, Data, Sql
    <3> QED BY <3>1, <3>2
  <2> QED BY <2>1 DEF ProjectNow, Project
<1>4. (IF Delta = {} THEN OldSeq ELSE OldSeq + 1) \in 1..(MaxSeq + 1)
  BY <1>1, BoundAssumption
<1> QED BY <1>2, <1>3, <1>4 DEF GeneratedNow, Generated, TypeOK

\* The comparison of any path ends in one of the eight statuses.
LEMMA PlanType ==
  ASSUME NEW adopt, NEW proj PROVE Plan(adopt, proj) \in [Path -> Statuses]
BY DEF Plan, PlanEntry, StatusOf, OrphanStatus, Statuses

\* An idle builder's placeholders are well-typed.
LEMMA NoGenType ==
  ASSUME TypeOK PROVE NoGen \in Generated /\ NoPlan \in [Path -> Statuses]
<1>1. (CHOOSE r \in Revision : TRUE) \in Revision
      /\ (CHOOSE c \in Compiler : TRUE) \in Compiler
  BY DEF TypeOK
<1>2. 1 \in 1..(MaxSeq + 1)
  BY BoundAssumption
<1> QED
  BY <1>1, <1>2 DEF NoGen, NoPlan, NoProject, Generated, Project, Statuses

\* Leaving build_inner keeps a builder's variables well-typed.
LEMMA ReturnType ==
  ASSUME TypeOK, NEW b \in Builder, NEW r, Return(b, r)
  PROVE  /\ phase' \in [Builder -> {"idle", "generated", "applying"}]
         /\ mode' \in [Builder -> Mode]
         /\ gen' \in [Builder -> Generated]
         /\ status' \in [Builder -> [Path -> Statuses]]
         /\ todo' \in [Builder -> SUBSET Path]
BY NoGenType DEF TypeOK, Return, Mode

\* Init gives every variable its type.
LEMMA InitType == Init => TypeOK
<1> SUFFICES ASSUME Init PROVE TypeOK
  OBVIOUS
<1>1. (CHOOSE r \in Revision : TRUE) \in Revision
      /\ (CHOOSE c \in Compiler : TRUE) \in Compiler
  BY DEF Init
<1>2. 1 \in 1..(MaxSeq + 1)
  BY BoundAssumption
<1>3. NoGen \in Generated /\ NoPlan \in [Path -> Statuses]
  BY <1>1, <1>2 DEF NoGen, NoPlan, NoProject, Generated, Project, Statuses
<1> QED BY <1>3 DEF Init, TypeOK, OnDisk, Mode

\* Every step of the user, of a build and of a crash keeps the types.
LEMMA NextType == TypeOK /\ WorkFits /\ [Next]_vars => TypeOK'
<1> SUFFICES ASSUME TypeOK, WorkFits, [Next]_vars PROVE TypeOK'
  OBVIOUS
<1>1. CASE User
  <2>1. ASSUME NEW p \in File, NEW c \in Edits \cup {Absent}, EditFile(p, c)
        PROVE  TypeOK'
    <3>1. c \in OnDisk /\ p \in Path
      BY ChoiceAssumption DEF OnDisk, Data, Path
    <3> QED BY <2>1, <3>1 DEF EditFile, TypeOK, source, job
  <2>2. ASSUME NEW p \in File, DropSidecar(p) PROVE TypeOK'
    BY <2>2 DEF DropSidecar, TypeOK, OnDisk, source, job, history
  <2>3. CASE DeleteManifest
    BY <2>3 DEF DeleteManifest, TypeOK, source, job, history
  <2>4. ASSUME NEW r \in Revision, EditSource(r) PROVE TypeOK'
    BY <2>4 DEF EditSource, TypeOK, tree, job, history
  <2>5. ASSUME NEW c \in Compiler, UpgradeCompiler(c) PROVE TypeOK'
    BY <2>5 DEF UpgradeCompiler, TypeOK, tree, job, history
  <2> QED BY <1>1, <2>1, <2>2, <2>3, <2>4, <2>5 DEF User
<1>2. ASSUME NEW b \in Builder, Start(b) PROVE TypeOK'
  <2>1. PICK m \in Modes : \/ BuildUpToDate(b, m)
                           \/ BuildUnreadable(b, m)
                           \/ BuildRefused(b, m)
                           \/ BuildGenerate(b, m)
    BY <1>2 DEF Start
  <2>2. CASE BuildUpToDate(b, m) \/ BuildUnreadable(b, m) \/ BuildRefused(b, m)
    BY <2>2, ReturnType
    DEF BuildUpToDate, BuildUnreadable, BuildRefused, TypeOK, tree, source, history
  <2>3. CASE BuildGenerate(b, m)
    <3>1. GeneratedNow \in Generated
      BY <2>3, GeneratedType DEF BuildGenerate
    <3>2. m \in Mode
      BY ChoiceAssumption
    <3>3. known' \in [Path -> SUBSET Data]
      <4>1. ASSUME NEW p \in Path
            PROVE (IF ProjectNow[p] = NoFile THEN {} ELSE {ProjectNow[p].content})
                    \in SUBSET Data
        BY <3>1 DEF GeneratedNow, Generated, Project, Entry
      <4> QED BY <2>3, <4>1 DEF BuildGenerate, TypeOK
    <3> QED BY <2>3, <3>1, <3>2, <3>3 DEF BuildGenerate, TypeOK, tree, source
  <2> QED BY <2>1, <2>2, <2>3
<1>3. ASSUME NEW b \in Builder, Step(b) PROVE TypeOK'
  <2>1. CASE ForceClear(b)
    BY <2>1 DEF ForceClear, TypeOK, OnDisk, Statuses, source
  <2>2. CASE PlanStops(b)
    BY <2>2, ReturnType DEF PlanStops, TypeOK, tree, source, history
  <2>3. CASE PlanBuild(b)
    BY <2>3, PlanType DEF PlanBuild, ToApply, TypeOK, tree, source
  <2>4. ASSUME NEW p \in Path, ApplyFile(b, p) PROVE TypeOK'
    <3>1. gen[b].proj[p] \in Entry \cup {NoFile}
      BY DEF TypeOK, Generated, Project
    <3>2. status[b][p] \in Writing \cup Sidecar => gen[b].proj[p].content \in OnDisk
      BY <2>4, <3>1 DEF ApplyFile, WorkFits, Entry, OnDisk
    <3>3. /\ disk' \in [Path -> OnDisk] /\ side' \in [Path -> OnDisk]
          /\ touched' \in [Path -> BOOLEAN]
      BY <2>4, <3>2 DEF ApplyFile, TypeOK, OnDisk
    <3>4. todo' \in [Builder -> SUBSET Path]
      BY <2>4 DEF ApplyFile, TypeOK
    <3> QED BY <2>4, <3>3, <3>4 DEF ApplyFile, TypeOK, source
  <2>5. CASE FinishFailed(b)
    BY <2>5, ReturnType DEF FinishFailed, TypeOK, tree, source, history
  <2>6. CASE FinishBuild(b)
    <3>1. manifest' \in Manifest
      BY <2>6 DEF FinishBuild, TypeOK, Generated, Manifest
    <3> QED BY <2>6, <3>1, ReturnType DEF FinishBuild, TypeOK, source, history
  <2> QED BY <1>3, <2>1, <2>2, <2>3, <2>4, <2>5, <2>6 DEF Step
<1>4. ASSUME NEW b \in Builder, Fault(b) PROVE TypeOK'
  <2>1. CASE Abort(b)
    BY <2>1, ReturnType DEF Abort, TypeOK, tree, source, history
  <2>2. ASSUME NEW p \in Path, AbortInWrite(b, p) PROVE TypeOK'
    BY <2>2, ReturnType DEF AbortInWrite, TypeOK, OnDisk, source, history
  <2>3. CASE AbortInManifest(b)
    BY <2>3, ReturnType DEF AbortInManifest, TypeOK, source, history
  <2>4. ASSUME NEW S \in SUBSET Path, AbortInClear(b, S) PROVE TypeOK'
    BY <2>4, ReturnType DEF AbortInClear, TypeOK, OnDisk, source
  <2> QED BY <1>4, <2>1, <2>2, <2>3, <2>4 DEF Fault
<1>5. CASE UNCHANGED vars
  BY <1>5 DEF vars, TypeOK
<1> QED BY <1>1, <1>2, <1>3, <1>4, <1>5 DEF Next

\* No builder has work at first.
LEMMA InitWork == Init => WorkFits
BY DEF Init, WorkFits

\* Only planning and clearing give a builder work, for entries it generated.
LEMMA NextWork == TypeOK /\ WorkFits /\ [Next]_vars => WorkFits'
<1> SUFFICES ASSUME TypeOK, WorkFits, [Next]_vars PROVE WorkFits'
  OBVIOUS
<1>1. ASSUME NEW b \in Builder, NEW r, Return(b, r) PROVE WorkFits'
  BY <1>1 DEF Return, WorkFits, TypeOK
<1>2. ASSUME UNCHANGED job PROVE WorkFits'
  BY <1>2 DEF job, WorkFits
<1>3. CASE User
  BY <1>2, <1>3
  DEF User, EditFile, DropSidecar, DeleteManifest, EditSource, UpgradeCompiler
<1>4. ASSUME NEW b \in Builder, Start(b) PROVE WorkFits'
  <2>1. PICK m \in Modes : \/ BuildUpToDate(b, m)
                           \/ BuildUnreadable(b, m)
                           \/ BuildRefused(b, m)
                           \/ BuildGenerate(b, m)
    BY <1>4 DEF Start
  <2>2. CASE BuildGenerate(b, m)
    BY <2>2 DEF BuildGenerate, Proceeds, WorkFits, TypeOK
  <2> QED BY <1>1, <2>1, <2>2 DEF BuildUpToDate, BuildUnreadable, BuildRefused
<1>5. ASSUME NEW b \in Builder, Step(b) PROVE WorkFits'
  <2>1. CASE ForceClear(b)
    BY <2>1 DEF ForceClear, WorkFits, TypeOK
  <2>2. CASE PlanStops(b)
    BY <1>1, <2>2 DEF PlanStops
  <2>3. CASE PlanBuild(b)
    <3>1. \A p \in Path :
            Plan(mode[b] = "adopt", gen[b].proj)[p] \in Writing \cup Sidecar
              => gen[b].proj[p] # NoFile
      BY DEF Plan, PlanEntry, OrphanStatus, Writing, Sidecar
    <3>2. todo'[b] \subseteq Path
      BY <2>3 DEF PlanBuild, ToApply, TypeOK
    <3> QED BY <2>3, <3>1, <3>2 DEF PlanBuild, ToApply, WorkFits, TypeOK
  <2>4. ASSUME NEW p \in Path, ApplyFile(b, p) PROVE WorkFits'
    BY <2>4 DEF ApplyFile, WorkFits, TypeOK
  <2>5. CASE FinishFailed(b) \/ FinishBuild(b)
    BY <1>1, <2>5 DEF FinishFailed, FinishBuild
  <2> QED BY <1>5, <2>1, <2>2, <2>3, <2>4, <2>5 DEF Step
<1>6. ASSUME NEW b \in Builder, Fault(b) PROVE WorkFits'
  BY <1>1, <1>6 DEF Fault, Abort, AbortInWrite, AbortInManifest, AbortInClear
<1>7. CASE UNCHANGED vars
  BY <1>2, <1>7 DEF vars, job
<1> QED BY <1>3, <1>4, <1>5, <1>6, <1>7 DEF Next

\* Every variable keeps its type in every behaviour.
THEOREM TypeCorrect == Spec => []TypeOK
<1> QED BY InitType, NextType, InitWork, NextWork, PTL DEF Spec

-----------------------------------------------------------------------------
(* The inductive invariant behind NoUserContentLost: hashes the manifest or *)
(* a builder holds are of rendered contents, and a file that a plan will    *)
(* replace or delete holds nothing else.  The user must not edit while a    *)
(* build runs; without that the plan is stale (run regen_race).             *)

\* The first state satisfies it: there is no manifest and no build.
LEMMA InitSafe == Init => SafetyInv
BY DEF Init, SafetyInv, ManifestKnown, GeneratedKnown, OverwritesExpendable, Readable

\* What a step that only adds to known and keeps everything else preserves.
LEMMA ReturnSafe ==
  ASSUME TypeOK, SafetyInv, NEW b \in Builder, NEW r, Return(b, r),
         \A p \in Path : known[p] \subseteq known'[p],
         \A p \in Path : disk'[p] \in {disk[p], Absent, Torn}
  PROVE  GeneratedKnown' /\ OverwritesExpendable'
<1>1. GeneratedKnown'
  BY DEF SafetyInv, GeneratedKnown, Return, TypeOK
<1>2. OverwritesExpendable'
  BY DEF SafetyInv, OverwritesExpendable, Return, TypeOK
<1> QED BY <1>1, <1>2

\* Rendered content is known as soon as it is rendered, so no step breaks it.
LEMMA NextSafe ==
  ASSUME Interfere = FALSE, TypeOK, TypeOK', WorkFits, SafetyInv, [Next]_vars
  PROVE  SafetyInv'
<1>1. CASE User
  <2>1. ASSUME NEW p \in File, NEW c \in Edits \cup {Absent}, EditFile(p, c)
        PROVE  SafetyInv'
    <3>1. \A b \in Builder : phase'[b] = "idle"
      BY <2>1 DEF EditFile, Quiet, job
    <3> QED
      BY <2>1, <3>1 DEF EditFile, source, job, SafetyInv, ManifestKnown, Readable,
         GeneratedKnown, OverwritesExpendable
  <2>2. ASSUME UNCHANGED <<disk, known, job>>, manifest' \in {manifest, NoManifest}
        PROVE  SafetyInv'
    BY <2>2 DEF job, SafetyInv, ManifestKnown, Readable, GeneratedKnown,
       OverwritesExpendable
  <2> QED
    BY <1>1, <2>1, <2>2 DEF User, DropSidecar, DeleteManifest, EditSource,
       UpgradeCompiler, tree, history
<1>2. ASSUME NEW b \in Builder, Start(b) PROVE SafetyInv'
  <2>1. PICK m \in Modes : \/ BuildUpToDate(b, m)
                           \/ BuildUnreadable(b, m)
                           \/ BuildRefused(b, m)
                           \/ BuildGenerate(b, m)
    BY <1>2 DEF Start
  <2>2. CASE BuildUpToDate(b, m) \/ BuildUnreadable(b, m) \/ BuildRefused(b, m)
    <3>1. UNCHANGED <<disk, manifest, known>> /\ \E r : Return(b, r)
      BY <2>2 DEF BuildUpToDate, BuildUnreadable, BuildRefused, tree, history
    <3>2. ManifestKnown'
      BY <3>1 DEF SafetyInv, ManifestKnown, Readable
    <3> QED BY <3>1, <3>2, ReturnSafe DEF SafetyInv, TypeOK
  <2>3. CASE BuildGenerate(b, m)
    <3>1. UNCHANGED <<disk, manifest>>
      BY <2>3 DEF BuildGenerate, tree
    <3>2. \A p \in Path :
            /\ known[p] \subseteq known'[p]
            /\ ProjectNow[p] # NoFile => ProjectNow[p].content \in known'[p]
      BY <2>3 DEF BuildGenerate
    <3>3. ManifestKnown'
      BY <3>1, <3>2 DEF SafetyInv, ManifestKnown, Readable
    <3>4. GeneratedKnown'
      BY <2>3, <3>2 DEF SafetyInv, GeneratedKnown, BuildGenerate, GeneratedNow, TypeOK
    <3>5. OverwritesExpendable'
      BY <2>3, <3>1, <3>2 DEF SafetyInv, OverwritesExpendable, BuildGenerate, TypeOK
    <3> QED BY <3>3, <3>4, <3>5 DEF SafetyInv
  <2> QED BY <2>1, <2>2, <2>3
<1>3. ASSUME NEW b \in Builder, Step(b) PROVE SafetyInv'
  <2>1. CASE ForceClear(b)
    BY <2>1 DEF ForceClear, source, SafetyInv, ManifestKnown, Readable,
       GeneratedKnown, OverwritesExpendable, TypeOK
  <2>2. CASE PlanStops(b) \/ FinishFailed(b)
    <3>1. UNCHANGED <<disk, manifest, known>> /\ \E r : Return(b, r)
      BY <2>2 DEF PlanStops, FinishFailed, tree, history
    <3>2. ManifestKnown'
      BY <3>1 DEF SafetyInv, ManifestKnown, Readable
    <3> QED BY <3>1, <3>2, ReturnSafe DEF SafetyInv, TypeOK
  <2>3. CASE PlanBuild(b)
    <3>1. UNCHANGED <<disk, manifest, known, gen, mode>>
      BY <2>3 DEF PlanBuild, tree
    <3>2. ManifestKnown' /\ GeneratedKnown'
      BY <2>3, <3>1 DEF PlanBuild, SafetyInv, ManifestKnown, Readable,
         GeneratedKnown, TypeOK
    <3>3. \A p \in Path :
            Plan(mode[b] = "adopt", gen[b].proj)[p] \in Writing \cup {"OrphanDelete"}
              => disk[p] \in known[p] \cup {Absent, Torn}
      BY DEF SafetyInv, ManifestKnown, Base, Plan, PlanEntry, StatusOf, OrphanStatus,
         Writing
    <3>4. OverwritesExpendable'
      BY <2>3, <3>1, <3>3 DEF PlanBuild, ToApply, SafetyInv, OverwritesExpendable, TypeOK
    <3> QED BY <3>2, <3>4 DEF SafetyInv
  <2>4. ASSUME NEW p \in Path, ApplyFile(b, p) PROVE SafetyInv'
    <3>1. UNCHANGED <<manifest, known, gen, phase, status>>
      BY <2>4 DEF ApplyFile, source
    <3>2. ManifestKnown' /\ GeneratedKnown'
      BY <3>1 DEF SafetyInv, ManifestKnown, Readable, GeneratedKnown
    <3>3. \A q \in Path : disk'[q] \in {disk[q], Absent} \cup known[q]
      <4>1. status[b][p] \in Writing => gen[b].proj[p].content \in known[p]
        BY <2>4 DEF ApplyFile, WorkFits, SafetyInv, GeneratedKnown
      <4> QED BY <2>4, <4>1 DEF ApplyFile, TypeOK
    <3>4. \A c \in Builder : todo'[c] \subseteq todo[c]
      BY <2>4 DEF ApplyFile, TypeOK
    <3>5. OverwritesExpendable'
      BY <3>1, <3>3, <3>4 DEF SafetyInv, OverwritesExpendable, TypeOK
    <3> QED BY <3>2, <3>5 DEF SafetyInv
  <2>5. CASE FinishBuild(b)
    <3>1. UNCHANGED <<disk, known>> /\ \E r : Return(b, r)
      BY <2>5 DEF FinishBuild, history
    <3>2. ManifestKnown'
      BY <2>5, <3>1 DEF FinishBuild, SafetyInv, GeneratedKnown, ManifestKnown
    <3> QED BY <3>1, <3>2, ReturnSafe DEF SafetyInv, TypeOK
  <2> QED BY <1>3, <2>1, <2>2, <2>3, <2>4, <2>5 DEF Step
<1>4. ASSUME NEW b \in Builder, Fault(b) PROVE SafetyInv'
  <2>1. /\ UNCHANGED known
        /\ manifest' \in {manifest, NoManifest, TornManifest}
        /\ \A p \in Path : disk'[p] \in {disk[p], Absent, Torn}
        /\ \E r : Return(b, r)
    BY <1>4 DEF Fault, Abort, AbortInWrite, AbortInManifest, AbortInClear, TypeOK,
       tree, history
  <2>2. ManifestKnown'
    BY <2>1 DEF SafetyInv, ManifestKnown, Readable
  <2> QED BY <2>1, <2>2, ReturnSafe DEF SafetyInv, TypeOK
<1>5. CASE UNCHANGED vars
  BY <1>5 DEF vars, SafetyInv, ManifestKnown, Readable, GeneratedKnown,
     OverwritesExpendable
<1> QED BY <1>1, <1>2, <1>3, <1>4, <1>5 DEF Next

-----------------------------------------------------------------------------
(* Regen implements EditSafety: every step of a build is one of the steps   *)
(* EditSafety allows, or leaves the files alone.                            *)

\* A step of the user, of a build or of a crash is a step of EditSafety or a stutter.
LEMMA StepSafe ==
  ASSUME Interfere = FALSE, TypeOK, WorkFits, SafetyInv, [Next]_vars
  PROVE  [Safety!Next]_<<disk, known>>
<1> USE DEF Safety!Next
<1>1. ASSUME UNCHANGED <<disk, known>> PROVE [Safety!Next]_<<disk, known>>
  BY <1>1
<1>2. CASE User
  <2>1. ASSUME NEW p \in File, NEW c \in Edits \cup {Absent}, EditFile(p, c)
        PROVE  Safety!UserWrites(p)
    <3>1. Quiet
      BY <2>1 DEF EditFile
    <3>2. c \in Data \cup {Absent}
      BY ChoiceAssumption DEF Data
    <3> QED BY <2>1, <3>1, <3>2 DEF EditFile, Safety!UserWrites
  <2>2. \A p \in File : p \in Path
    BY DEF Path
  <2> QED
    BY <1>1, <1>2, <2>1, <2>2 DEF User, DropSidecar, DeleteManifest, EditSource,
       UpgradeCompiler, tree, history
<1>3. ASSUME NEW b \in Builder, Start(b) PROVE [Safety!Next]_<<disk, known>>
  <2>1. ASSUME NEW m \in Modes, BuildGenerate(b, m) PROVE Safety!Renders
    <3>1. GeneratedNow \in Generated
      BY <2>1, GeneratedType DEF BuildGenerate
    <3>2. ASSUME NEW p \in Path
          PROVE (IF ProjectNow[p] = NoFile THEN {} ELSE {ProjectNow[p].content})
                  \in SUBSET Data
      BY <3>1 DEF GeneratedNow, Generated, Project, Entry
    <3>3. known' \in [Path -> SUBSET Data]
      BY <2>1, <3>2 DEF BuildGenerate, TypeOK
    <3> QED BY <2>1, <3>3 DEF BuildGenerate, tree, Safety!Renders
  <2> QED
    BY <1>1, <1>3, <2>1 DEF Start, BuildUpToDate, BuildUnreadable, BuildRefused,
       tree, history
<1>4. ASSUME NEW b \in Builder, Step(b) PROVE [Safety!Next]_<<disk, known>>
  <2>1. CASE ForceClear(b)
    <3>1. Forcing
      BY <2>1 DEF ForceClear, Forcing
    <3>2. disk' = [p \in Path |-> IF p \in Path THEN Absent ELSE disk[p]]
      BY <2>1 DEF ForceClear
    <3>3. Path \in SUBSET Path
      OBVIOUS
    <3>4. UNCHANGED known
      BY <2>1 DEF ForceClear
    <3> QED BY <3>1, <3>2, <3>3, <3>4 DEF Safety!Clobber
  <2>2. ASSUME NEW p \in Path, ApplyFile(b, p)
        PROVE  [Safety!Next]_<<disk, known>>
    <3>1. ~Quiet /\ UNCHANGED known
      BY <2>2 DEF ApplyFile, Quiet
    <3>2. CASE status[b][p] \in Writing
      <4>1. gen[b].proj[p].content \in known[p] /\ Safety!Expendable(p)
        BY <2>2, <3>2 DEF ApplyFile, WorkFits, SafetyInv, GeneratedKnown,
           OverwritesExpendable, Safety!Expendable
      <4>2. disk' = [disk EXCEPT ![p] = gen[b].proj[p].content]
        BY <2>2, <3>2 DEF ApplyFile, Writing, Sidecar
      <4> QED BY <3>1, <4>1, <4>2 DEF Safety!BuildWrites
    <3>3. CASE status[b][p] = "OrphanDelete"
      <4>1. Safety!Expendable(p)
        BY <2>2, <3>3 DEF ApplyFile, SafetyInv, OverwritesExpendable, Safety!Expendable
      <4>2. disk' = [disk EXCEPT ![p] = Absent]
        BY <2>2, <3>3 DEF ApplyFile, Writing, Sidecar
      <4> QED BY <3>1, <4>1, <4>2 DEF Safety!BuildRuins
    <3>4. CASE status[b][p] \in Sidecar
      BY <1>1, <2>2, <3>1, <3>4 DEF ApplyFile, Writing, Sidecar
    <3> QED BY <2>2, <3>2, <3>3, <3>4 DEF ApplyFile
  <2> QED
    BY <1>1, <1>4, <2>1, <2>2 DEF Step, PlanStops, PlanBuild, FinishFailed,
       FinishBuild, tree, history
<1>5. ASSUME NEW b \in Builder, Fault(b) PROVE [Safety!Next]_<<disk, known>>
  <2>1. ASSUME NEW p \in Path, AbortInWrite(b, p)
        PROVE  [Safety!Next]_<<disk, known>>
    <3>1. ~Quiet /\ UNCHANGED known
      BY <2>1 DEF AbortInWrite, Quiet, history
    <3>2. CASE disk' = [disk EXCEPT ![p] = Torn] /\ status[b][p] \in Writing
      <4>1. Safety!Expendable(p)
        BY <2>1, <3>2 DEF AbortInWrite, SafetyInv, OverwritesExpendable,
           Safety!Expendable
      <4> QED BY <3>1, <3>2, <4>1 DEF Safety!BuildRuins
    <3>3. CASE UNCHANGED disk
      BY <1>1, <3>1, <3>3
    <3> QED BY <2>1, <3>2, <3>3 DEF AbortInWrite
  <2>2. ASSUME NEW S \in SUBSET Path, AbortInClear(b, S) PROVE Safety!Clobber
    <3>1. Forcing
      BY <2>2 DEF AbortInClear, Forcing
    <3> QED BY <2>2, <3>1 DEF AbortInClear, Safety!Clobber
  <2> QED
    BY <1>1, <1>5, <2>1, <2>2 DEF Fault, Abort, AbortInManifest, tree, history
<1>6. CASE UNCHANGED vars
  BY <1>1, <1>6 DEF vars
<1> QED BY <1>2, <1>3, <1>4, <1>5, <1>6 DEF Next

\* As long as the user does not edit while a build runs, no build ever destroys
\* what only the user has, whatever crashes, however many builds run at once.
THEOREM EditsSurvive ==
  ASSUME Interfere = FALSE PROVE Spec => NoUserContentLost
<1>1. Init => Safety!Init
  BY DEF Init, Safety!Init
<1>2. TypeOK /\ WorkFits /\ SafetyInv /\ TypeOK' /\ [Next]_vars => SafetyInv'
  BY NextSafe
<1>3. TypeOK /\ WorkFits /\ SafetyInv /\ [Next]_vars => [Safety!Next]_<<disk, known>>
  BY StepSafe
<1> QED
  BY InitType, NextType, InitWork, NextWork, InitSafe, <1>1, <1>2, <1>3, PTL
  DEF Spec, NoUserContentLost, Safety!Spec

-----------------------------------------------------------------------------
(* What a build generates and what the manifest records are one revision's  *)
(* project as some compiler renders it, whose migrations have a sequence    *)
(* number that is used up.                                                  *)

Rendered(files, tables, seq, r, c) ==
  /\ tables = Schema[r]
  /\ \A f \in File : files[f] = Emit[c][r][f]
  /\ \A p \in MigPath : files[p] # NoFile =>
       files[p].role = "Migration" /\ files[p].content \in Sql /\ p[2] < seq

ManifestRendered ==
  Readable => Rendered(manifest.files, manifest.tables, manifest.seq, manifest.rev,
                       manifest.compiler)
GeneratedRendered ==
  \A b \in Builder : phase[b] # "idle" =>
    /\ Rendered(gen[b].proj, gen[b].tables, gen[b].seq, gen[b].rev, gen[b].compiler)
    /\ mode[b] \in Modes
Pedigree == ManifestRendered /\ GeneratedRendered

\* Every step but the start of a build and its end keeps what builds generated
\* and keeps, tears or deletes the manifest.
Keeps ==
  /\ manifest' \in {manifest, NoManifest, TornManifest}
  /\ \A b \in Builder : \/ phase'[b] = "idle"
                        \/ phase[b] # "idle" /\ gen'[b] = gen[b] /\ mode'[b] = mode[b]

\* Every step keeps them, generates a project or records one.
LEMMA StepKinds ==
  ASSUME TypeOK, [Next]_vars
  PROVE  \/ Keeps
         \/ \E b \in Builder, m \in Modes : BuildGenerate(b, m)
         \/ \E b \in Builder : FinishBuild(b)
<1>1. ASSUME NEW b \in Builder, NEW r, Return(b, r),
             manifest' \in {manifest, NoManifest, TornManifest}
      PROVE  Keeps
  BY <1>1 DEF Return, Keeps, TypeOK
<1>2. ASSUME UNCHANGED job, manifest' \in {manifest, NoManifest, TornManifest}
      PROVE  Keeps
  BY <1>2 DEF job, Keeps
<1>3. CASE User
  BY <1>2, <1>3
  DEF User, EditFile, DropSidecar, DeleteManifest, EditSource, UpgradeCompiler, tree
<1>4. ASSUME NEW b \in Builder, NEW m \in Modes,
             BuildUpToDate(b, m) \/ BuildUnreadable(b, m) \/ BuildRefused(b, m)
      PROVE  Keeps
  BY <1>1, <1>4 DEF BuildUpToDate, BuildUnreadable, BuildRefused, tree
<1>5. ASSUME NEW b \in Builder, Step(b), ~FinishBuild(b) PROVE Keeps
  <2>1. CASE ForceClear(b) \/ PlanBuild(b) \/ \E p \in Path : ApplyFile(b, p)
    BY <2>1 DEF ForceClear, PlanBuild, ApplyFile, Keeps, TypeOK, tree
  <2>2. CASE PlanStops(b) \/ FinishFailed(b)
    BY <1>1, <2>2 DEF PlanStops, FinishFailed, tree
  <2> QED BY <1>5, <2>1, <2>2 DEF Step
<1>6. ASSUME NEW b \in Builder, Fault(b) PROVE Keeps
  BY <1>1, <1>6 DEF Fault, Abort, AbortInWrite, AbortInManifest, AbortInClear, tree
<1>7. CASE UNCHANGED vars
  BY <1>2, <1>7 DEF vars, job
<1> QED BY <1>3, <1>4, <1>5, <1>6, <1>7 DEF Next, Start

\* A migration that generate() adds holds the new features, under the number
\* the manifest keeps for it.
LEMMA NewMigration ==
  ASSUME TypeOK, NEW p \in MigPath, ProjectNow[p] # NoFile
  PROVE  /\ Delta # {} /\ p[2] = OldSeq
         /\ ProjectNow[p] = [role |-> "Migration", content |-> [adds |-> Delta]]
<1>1. p \in Path /\ p \notin File
  BY SentinelAssumption DEF Path
<1>2. Delta # {} /\ p = <<"migration", OldSeq>>
  BY <1>1 DEF ProjectNow
<1> QED BY <1>1, <1>2 DEF ProjectNow

\* The first number is 1.
LEMMA OldSeqType ==
  ASSUME TypeOK PROVE OldSeq \in Nat \ {0}
<1>1. CASE Readable
  BY <1>1 DEF TypeOK, Readable, Manifest, OldSeq
<1> QED BY <1>1 DEF OldSeq

\* What generate() returns is the present revision's project, and the new
\* migration has the number that the next build will not use.
LEMMA GeneratedIsRendered ==
  ASSUME TypeOK
  PROVE  Rendered(GeneratedNow.proj, GeneratedNow.tables, GeneratedNow.seq,
                  GeneratedNow.rev, GeneratedNow.compiler)
<1>1. Schema[rev] \in SUBSET Feature /\ Delta \in SUBSET Feature
  BY ProgramAssumption DEF TypeOK, Delta
<1>3. \A f \in File : ProjectNow[f] = Emit[compiler][rev][f]
  BY DEF ProjectNow, Path
<1>4. ASSUME NEW p \in MigPath, ProjectNow[p] # NoFile
      PROVE  /\ ProjectNow[p].role = "Migration" /\ ProjectNow[p].content \in Sql
             /\ Delta # {} /\ p[2] = OldSeq
  BY <1>1, <1>4, NewMigration DEF Sql
<1> QED BY <1>3, <1>4, OldSeqType DEF GeneratedNow, Rendered

\* Only a rendered project is generated, and only what was generated is recorded.
LEMMA NextPedigree == TypeOK /\ Pedigree /\ [Next]_vars => Pedigree'
<1> SUFFICES ASSUME TypeOK, Pedigree, [Next]_vars PROVE Pedigree'
  OBVIOUS
<1>1. CASE Keeps
  BY <1>1 DEF Keeps, Pedigree, ManifestRendered, GeneratedRendered, Readable, Rendered
<1>2. ASSUME NEW b \in Builder, NEW m \in Modes, BuildGenerate(b, m) PROVE Pedigree'
  <2>1. /\ gen' = [gen EXCEPT ![b] = GeneratedNow] /\ UNCHANGED manifest
        /\ \A c \in Builder \ {b} : phase'[c] = phase[c] /\ mode'[c] = mode[c]
        /\ mode'[b] = m
    BY <1>2 DEF BuildGenerate, tree, TypeOK
  <2>2. ManifestRendered'
    BY <2>1 DEF Pedigree, ManifestRendered, Readable, Rendered
  <2>3. GeneratedRendered'
    <3> DEFINE Fit(g) == Rendered(g.proj, g.tables, g.seq, g.rev, g.compiler)
    <3>1. Fit(GeneratedNow)
      BY GeneratedIsRendered
    <3>2. gen'[b] = GeneratedNow /\ \A c \in Builder \ {b} : gen'[c] = gen[c]
      BY <2>1 DEF TypeOK
    <3>3. \A c \in Builder : phase[c] # "idle" => Fit(gen[c]) /\ mode[c] \in Modes
      BY DEF Pedigree, GeneratedRendered
    <3>4. ASSUME NEW c \in Builder, phase'[c] # "idle"
          PROVE  Fit(gen'[c]) /\ mode'[c] \in Modes
      <4>1. CASE c = b
        BY <2>1, <3>1, <3>2, <4>1
      <4>2. CASE c # b
        BY <2>1, <3>2, <3>3, <3>4, <4>2
      <4> QED BY <4>1, <4>2
    <3> QED BY <3>4 DEF Fit, GeneratedRendered, Rendered
  <2> QED BY <2>2, <2>3 DEF Pedigree
<1>3. ASSUME NEW b \in Builder, FinishBuild(b) PROVE Pedigree'
  <2>1. phase[b] # "idle"
    BY <1>3 DEF FinishBuild
  <2>2. ManifestRendered'
    BY <1>3, <2>1 DEF FinishBuild, Pedigree, GeneratedRendered, ManifestRendered, Rendered
  <2>3. GeneratedRendered'
    BY <1>3 DEF FinishBuild, Return, Pedigree, GeneratedRendered, Rendered, TypeOK
  <2> QED BY <2>2, <2>3 DEF Pedigree
<1> QED BY <1>1, <1>2, <1>3, StepKinds

\* With one compiler installed, `ciac build` skips only a tree that is what it
\* would render, whatever was edited, aborted or built at the same time: the
\* fast path of is_up_to_date() is sound except for compiler upgrades.
THEOREM SkipsAreSound ==
  ASSUME \A c, d \in Compiler : c = d PROVE Spec => []UpToDateIsSound
<1>1. Init => Pedigree
  BY DEF Init, Pedigree, ManifestRendered, GeneratedRendered, Readable
<1>2. TypeOK /\ Pedigree => UpToDateIsSound
  <2> SUFFICES ASSUME TypeOK, Pedigree, UpToDate
               PROVE  /\ manifest.tables = Schema[rev]
                      /\ \A f \in File : Emit[compiler][rev][f] # NoFile
                           => disk[f] = Emit[compiler][rev][f].content
    BY DEF UpToDateIsSound
  <2>1. manifest \in Manifest /\ manifest.compiler = compiler
    BY DEF UpToDate, Readable, TypeOK, Manifest
  <2>2. Rendered(manifest.files, manifest.tables, manifest.seq, rev, compiler)
    BY <2>1 DEF Pedigree, ManifestRendered, UpToDate
  <2> QED BY <2>2 DEF Rendered, UpToDate, Path
<1> QED BY InitType, NextType, InitWork, NextWork, NextPedigree, <1>1, <1>2, PTL DEF Spec

-----------------------------------------------------------------------------
(* One build at a time: what its plan was made from does not change while   *)
(* it is applied, so the plan still says of every entry what a new          *)
(* comparison would say.                                                    *)

Alone == Interfere = FALSE /\ \A b, c \in Builder : b = c

\* A path is a stub of the user's in every program or in none: backends put
\* handler stubs in a directory of their own and lowered bodies in another.
\* (Where a backend also keeps resource stores among the stubs, a handler must
\* not take the name of a store.)
RolesAreFixed ==
  \A f \in SeededFile, c \in Compiler, r \in Revision :
    Emit[c][r][f] # NoFile => Emit[c][r][f].role = "Seeded"

PlanIsCurrent ==
  \A b \in Builder : phase[b] = "applying" => \A p \in todo[b] :
    status[b][p] = PlanEntry(mode[b] = "adopt", gen[b].proj, p)
FailuresWriteSidecars ==
  \A b \in Builder : phase[b] = "applying" /\ Fails(b) => \A p \in todo[b] :
    status[b][p] \in Sidecar

\* What the build adds to the schema is in its migrations, numbered from the
\* manifest's sequence number on ...
MigrationsExtend ==
  \A b \in Builder : phase[b] # "idle" /\ mode[b] # "force" =>
    /\ OldSeq \leq gen[b].seq
    /\ \A p \in MigPath : gen[b].proj[p] # NoFile => OldSeq \leq p[2]
    /\ \A x \in gen[b].tables \ OldTables : \E p \in MigPath :
         gen[b].proj[p] # NoFile /\ x \in gen[b].proj[p].content.adds

\* ... and these are on disk, or beside it, when it has nothing left to do.
MigrationsApplied ==
  \A b \in Builder : phase[b] = "applying" /\ mode[b] # "force" /\ ~Fails(b) =>
    \A p \in MigPath \ todo[b] : gen[b].proj[p] # NoFile =>
      gen[b].proj[p].content \in {disk[p], side[p]}

BuildInv == /\ MigrationsExtend /\ PlanIsCurrent
            /\ FailuresWriteSidecars /\ MigrationsApplied

\* With one builder, a step ends its build, touches no tree and no job, or is
\* one of the four below.
LEMMA SoleKinds ==
  ASSUME Alone, TypeOK, [Next]_vars
  PROVE  \/ \A b \in Builder : phase'[b] = "idle"
         \/ UNCHANGED <<tree, job, history>>
         \/ \E b \in Builder : \/ \E m \in Modes : BuildGenerate(b, m)
                              \/ ForceClear(b)
                              \/ PlanBuild(b)
                              \/ \E p \in Path : ApplyFile(b, p)
<1>1. ASSUME NEW b \in Builder, NEW r, Return(b, r)
      PROVE  \A c \in Builder : phase'[c] = "idle"
  BY <1>1 DEF Return, Alone, TypeOK
<1>2. ASSUME UNCHANGED job, Quiet PROVE \A c \in Builder : phase'[c] = "idle"
  BY <1>2 DEF job, Quiet
<1>3. CASE User
  BY <1>2, <1>3
  DEF User, EditFile, DropSidecar, DeleteManifest, EditSource, UpgradeCompiler, Alone
<1>4. ASSUME NEW b \in Builder, NEW m \in Modes,
             BuildUpToDate(b, m) \/ BuildUnreadable(b, m) \/ BuildRefused(b, m)
      PROVE  \A c \in Builder : phase'[c] = "idle"
  BY <1>1, <1>4 DEF BuildUpToDate, BuildUnreadable, BuildRefused
<1>5. ASSUME NEW b \in Builder, PlanStops(b) \/ FinishFailed(b) \/ FinishBuild(b)
      PROVE  \A c \in Builder : phase'[c] = "idle"
  BY <1>1, <1>5 DEF PlanStops, FinishFailed, FinishBuild
<1>6. ASSUME NEW b \in Builder, Fault(b)
      PROVE  \A c \in Builder : phase'[c] = "idle"
  BY <1>1, <1>6 DEF Fault, Abort, AbortInWrite, AbortInManifest, AbortInClear
<1>7. CASE UNCHANGED vars
  BY <1>7 DEF vars, tree, job, history
<1> QED BY <1>3, <1>4, <1>5, <1>6, <1>7 DEF Next, Start, Step

\* A build numbers its migrations from the manifest's next number on, and they
\* add all that its schema has beyond the manifest's.
LEMMA NextExtend ==
  ASSUME Alone, TypeOK, MigrationsExtend, [Next]_vars PROVE MigrationsExtend'
<1>1. CASE \A b \in Builder : phase'[b] = "idle"
  BY <1>1 DEF MigrationsExtend
<1>2. ASSUME UNCHANGED <<manifest, gen, mode>>,
             \A b \in Builder : phase'[b] # "idle" => phase[b] # "idle"
      PROVE  MigrationsExtend'
  BY <1>2 DEF MigrationsExtend, OldSeq, OldTables, Readable
<1>3. CASE UNCHANGED <<tree, job, history>>
  BY <1>2, <1>3 DEF tree, job
<1>4. ASSUME NEW b \in Builder, NEW m \in Modes, BuildGenerate(b, m)
      PROVE  MigrationsExtend'
  <2>1. gen'[b] = GeneratedNow /\ UNCHANGED manifest
    BY <1>4 DEF BuildGenerate, tree, TypeOK
  <2>2. OldSeq \leq GeneratedNow.seq
    BY OldSeqType DEF GeneratedNow
  <2>3. \A p \in MigPath : GeneratedNow.proj[p] # NoFile => OldSeq \leq p[2]
    BY NewMigration, OldSeqType DEF GeneratedNow
  <2>4. ASSUME NEW x \in GeneratedNow.tables \ OldTables
        PROVE  \E p \in MigPath : /\ GeneratedNow.proj[p] # NoFile
                                  /\ x \in GeneratedNow.proj[p].content.adds
    <3> DEFINE q == <<"migration", OldSeq>>
    <3>1. x \in Delta
      BY <2>4 DEF GeneratedNow, Delta
    <3>2. q \in MigPath /\ q \in Path /\ q \notin File
      BY <1>4, <3>1, OldSeqType, BoundAssumption, SentinelAssumption
      DEF BuildGenerate, MigPath, Path
    <3>3. ProjectNow[q] = [role |-> "Migration", content |-> [adds |-> Delta]]
      BY <3>1, <3>2 DEF ProjectNow
    <3>4. [role |-> "Migration", content |-> [adds |-> Delta]] \in Entry
      <4>1. Delta \in SUBSET Feature
        BY ProgramAssumption DEF TypeOK, Delta
      <4> QED BY <4>1 DEF Entry, Role, Data, Sql
    <3> QED BY <3>1, <3>2, <3>3, <3>4, SentinelAssumption DEF GeneratedNow
  <2> QED
    BY <2>1, <2>2, <2>3, <2>4 DEF MigrationsExtend, Alone, OldSeq, OldTables, Readable
<1>5. ASSUME NEW b \in Builder, ForceClear(b) PROVE MigrationsExtend'
  BY <1>5 DEF ForceClear, MigrationsExtend, Alone
<1>6. ASSUME NEW b \in Builder, PlanBuild(b) \/ \E p \in Path : ApplyFile(b, p)
      PROVE  MigrationsExtend'
  <2>1. UNCHANGED <<manifest, gen, mode>> /\ \A c \in Builder : phase[c] # "idle"
    BY <1>6 DEF PlanBuild, ApplyFile, tree, Alone
  <2> QED BY <1>2, <2>1
<1> QED BY <1>1, <1>3, <1>4, <1>5, <1>6, SoleKinds

\* The plan that is being carried out still says of the entries that are left
\* what a new comparison would say, and a failing build has only sidecars left.
LEMMA NextPlan ==
  ASSUME Alone, TypeOK, PlanIsCurrent, FailuresWriteSidecars, [Next]_vars
  PROVE  PlanIsCurrent' /\ FailuresWriteSidecars'
<1>1. CASE \A b \in Builder : phase'[b] = "idle"
  BY <1>1 DEF PlanIsCurrent, FailuresWriteSidecars
<1>2. CASE UNCHANGED <<tree, job, history>>
  <2>1. UNCHANGED <<disk, manifest, phase, mode, gen, status, todo>>
    BY <1>2 DEF tree, job
  <2>2. ASSUME NEW c \in Builder, phase[c] = "applying", NEW p \in todo[c]
        PROVE  status[c][p] = PlanEntry(mode[c] = "adopt", gen[c].proj, p)'
    BY <2>1, <2>2 DEF PlanIsCurrent, PlanEntry, Base, Readable
  <2>3. PlanIsCurrent'
    BY <2>1, <2>2 DEF PlanIsCurrent
  <2>4. FailuresWriteSidecars'
    BY <2>1 DEF FailuresWriteSidecars, Fails, FullApply, HasErrors
  <2> QED BY <2>3, <2>4
<1>3. ASSUME NEW b \in Builder, NEW m \in Modes, BuildGenerate(b, m)
      PROVE  PlanIsCurrent' /\ FailuresWriteSidecars'
  <2>1. \A c \in Builder : phase'[c] = "generated"
    BY <1>3 DEF BuildGenerate, Alone, TypeOK
  <2> QED BY <2>1 DEF PlanIsCurrent, FailuresWriteSidecars
<1>4. ASSUME NEW b \in Builder, ForceClear(b)
      PROVE  PlanIsCurrent' /\ FailuresWriteSidecars'
  <2>1. /\ mode'[b] = "force" /\ \A p \in Path : disk'[p] = Absent
        /\ gen' = gen
        /\ \A p \in todo'[b] : gen[b].proj[p] # NoFile /\ status'[b][p] = "New"
        /\ todo'[b] \subseteq Path
    BY <1>4 DEF ForceClear, TypeOK
  <2>2. ~Fails(b)'
    BY <2>1 DEF Fails, FullApply
  <2>3. \A p \in todo'[b] : PlanEntry(FALSE, gen[b].proj, p)' = "New"
    BY <2>1 DEF PlanEntry, StatusOf
  <2> QED
    BY <2>1, <2>2, <2>3 DEF PlanIsCurrent, FailuresWriteSidecars, Alone
<1>5. ASSUME NEW b \in Builder, PlanBuild(b)
      PROVE  PlanIsCurrent' /\ FailuresWriteSidecars'
  <2> DEFINE plan == Plan(mode[b] = "adopt", gen[b].proj)
  <2>1. /\ UNCHANGED <<disk, manifest, mode, gen>>
        /\ status'[b] = plan
        /\ todo'[b] = ToApply(FullApply(mode[b], plan), plan)
    BY <1>5 DEF PlanBuild, tree, TypeOK
  <2>2. todo'[b] \subseteq Path
    BY <2>1 DEF ToApply
  <2>3. \A p \in Path : plan[p] = PlanEntry(mode[b] = "adopt", gen[b].proj, p)'
    BY <2>1 DEF Plan, PlanEntry, Base, Readable
  <2>4. PlanIsCurrent'
    BY <2>1, <2>2, <2>3 DEF PlanIsCurrent, Alone
  <2>5. Fails(b)' => \A p \in todo'[b] : plan[p] \in Sidecar
    BY <2>1 DEF Fails, FullApply, HasErrors, ToApply
  <2>6. FailuresWriteSidecars'
    BY <2>1, <2>5 DEF FailuresWriteSidecars, Alone
  <2> QED BY <2>4, <2>6
<1>6. ASSUME NEW b \in Builder, NEW p \in Path, ApplyFile(b, p)
      PROVE  PlanIsCurrent' /\ FailuresWriteSidecars'
  <2>1. /\ UNCHANGED <<manifest, phase, mode, gen, status>>
        /\ todo'[b] = todo[b] \ {p}
        /\ \A q \in Path \ {p} : disk'[q] = disk[q]
    BY <1>6 DEF ApplyFile, TypeOK
  <2>2. \A q \in todo'[b] : PlanEntry(mode[b] = "adopt", gen[b].proj, q)' =
                           PlanEntry(mode[b] = "adopt", gen[b].proj, q)
    BY <2>1 DEF PlanEntry, Base, Readable, TypeOK
  <2>3. PlanIsCurrent'
    BY <2>1, <2>2 DEF PlanIsCurrent, Alone
  <2>4. FailuresWriteSidecars'
    BY <2>1 DEF FailuresWriteSidecars, Fails, FullApply, HasErrors, Alone
  <2> QED BY <2>3, <2>4
<1> QED BY <1>1, <1>2, <1>3, <1>4, <1>5, <1>6, SoleKinds

\* A migration of a build that goes through is never skipped and never thought
\* unchanged for the manifest's sake: the manifest has no file of its number.
LEMMA NextApplied ==
  ASSUME Alone, TypeOK, Pedigree, BuildInv, [Next]_vars
  PROVE  MigrationsApplied'
<1>1. CASE \A b \in Builder : phase'[b] = "idle"
  BY <1>1 DEF MigrationsApplied
<1>2. CASE UNCHANGED <<tree, job, history>>
  BY <1>2 DEF BuildInv, MigrationsApplied, Fails, FullApply, HasErrors, tree, job
<1>3. ASSUME NEW b \in Builder, NEW m \in Modes, BuildGenerate(b, m)
      PROVE  MigrationsApplied'
  <2>1. \A c \in Builder : phase'[c] = "generated"
    BY <1>3 DEF BuildGenerate, Alone, TypeOK
  <2> QED BY <2>1 DEF MigrationsApplied
<1>4. ASSUME NEW b \in Builder, ForceClear(b) PROVE MigrationsApplied'
  BY <1>4 DEF ForceClear, MigrationsApplied, Alone
<1>5. ASSUME NEW b \in Builder, PlanBuild(b) PROVE MigrationsApplied'
  <2> DEFINE plan == Plan(mode[b] = "adopt", gen[b].proj)
  <2>1. /\ UNCHANGED <<disk, side, mode, gen>> /\ mode[b] # "force"
        /\ phase[b] # "idle" /\ status'[b] = plan
        /\ todo'[b] = ToApply(FullApply(mode[b], plan), plan)
    BY <1>5 DEF PlanBuild, tree, TypeOK
  <2>2. SUFFICES ASSUME ~Fails(b)', NEW p \in MigPath \ todo'[b],
                        gen[b].proj[p] # NoFile
                 PROVE  gen[b].proj[p].content = disk[p]
    BY <2>1 DEF MigrationsApplied, Alone
  <2>3. p \in Path /\ p[2] \in Nat
    BY DEF Path, MigPath
  <2>4. plan[p] \notin Sidecar \cup Writing
    BY <2>1, <2>2, <2>3 DEF ToApply, Fails
  <2>5. gen[b].proj[p].role = "Migration" /\ OldSeq \leq p[2]
    BY <2>1, <2>2 DEF Pedigree, GeneratedRendered, Rendered, BuildInv, MigrationsExtend
  <2>6. Base(p) = NoFile
    BY <2>3, <2>5, OldSeqType DEF Pedigree, ManifestRendered, Rendered, Base, OldSeq
  <2>7. plan[p] = StatusOf(mode[b] = "adopt", disk[p], Base(p), gen[b].proj[p])
    BY <2>2, <2>3 DEF Plan, PlanEntry
  <2> QED BY <2>4, <2>5, <2>6, <2>7 DEF StatusOf, Sidecar, Writing
<1>6. ASSUME NEW b \in Builder, NEW p \in Path, ApplyFile(b, p)
      PROVE  MigrationsApplied'
  <2>1. /\ UNCHANGED <<phase, mode, gen, status>>
        /\ todo'[b] = todo[b] \ {p} /\ phase[b] = "applying" /\ p \in todo[b]
        /\ \A q \in Path \ {p} : disk'[q] = disk[q] /\ side'[q] = side[q]
    BY <1>6 DEF ApplyFile, TypeOK
  <2>2. SUFFICES ASSUME ~Fails(b), mode[b] # "force", NEW q \in MigPath \ todo'[b],
                        gen[b].proj[q] # NoFile
                 PROVE  gen[b].proj[q].content \in {disk'[q], side'[q]}
    BY <2>1 DEF MigrationsApplied, Fails, FullApply, HasErrors, Alone
  <2>3. CASE q # p
    BY <2>1, <2>2, <2>3 DEF BuildInv, MigrationsApplied, Path
  <2>4. CASE q = p
    <3>1. status[b][p] = StatusOf(mode[b] = "adopt", disk[p], Base(p), gen[b].proj[p])
      BY <2>1, <2>2, <2>4 DEF BuildInv, PlanIsCurrent, PlanEntry
    <3>2. status[b][p] # "OrphanDelete"
      BY <3>1 DEF StatusOf
    <3> QED BY <1>6, <2>4, <3>2 DEF ApplyFile, TypeOK
  <2> QED BY <2>3, <2>4
<1> QED BY <1>1, <1>2, <1>3, <1>4, <1>5, <1>6, SoleKinds

\* A build that runs alone keeps its invariant ...
LEMMA NextBuild ==
  ASSUME Alone, TypeOK, Pedigree, BuildInv, [Next]_vars PROVE BuildInv'
BY NextExtend, NextPlan, NextApplied DEF BuildInv

\* ... which holds when nothing has been built.
LEMMA InitBuild == Init => BuildInv /\ Pedigree
BY DEF Init, BuildInv, MigrationsExtend, PlanIsCurrent, FailuresWriteSidecars,
   MigrationsApplied, Pedigree, ManifestRendered, GeneratedRendered, Readable

-----------------------------------------------------------------------------
(* What the plan's being current means for the tree.                        *)

\* The steps that change a file, with a single builder: the user's when no
\* build runs, the clearing of the tree, and an entry of the plan.
LEMMA DiskSteps ==
  ASSUME Alone, TypeOK, [Next]_vars
  PROVE  \/ disk' = disk
         \/ Quiet
         \/ Forcing
         \/ \E b \in Builder, p \in Path :
              /\ phase[b] = "applying" /\ p \in todo[b]
              /\ status[b][p] \in Writing \cup {"OrphanDelete"}
              /\ \A q \in Path \ {p} : disk'[q] = disk[q]
<1>1. CASE User
  BY <1>1 DEF User, EditFile, DropSidecar, DeleteManifest, EditSource, UpgradeCompiler,
     Alone, tree
<1>2. ASSUME NEW b \in Builder, Start(b) PROVE disk' = disk
  BY <1>2 DEF Start, BuildUpToDate, BuildUnreadable, BuildRefused, BuildGenerate, tree
<1>3. ASSUME NEW b \in Builder, ForceClear(b) \/ \E S \in SUBSET Path : AbortInClear(b, S)
      PROVE  Forcing
  BY <1>3 DEF ForceClear, AbortInClear, Forcing
<1>4. ASSUME NEW b \in Builder, NEW p \in Path, ApplyFile(b, p) \/ AbortInWrite(b, p)
      PROVE  \/ disk' = disk
             \/ /\ phase[b] = "applying" /\ p \in todo[b]
                /\ status[b][p] \in Writing \cup {"OrphanDelete"}
                /\ \A q \in Path \ {p} : disk'[q] = disk[q]
  BY <1>4 DEF ApplyFile, AbortInWrite, TypeOK
<1>5. ASSUME NEW b \in Builder, PlanStops(b) \/ PlanBuild(b) \/ FinishFailed(b)
                                \/ FinishBuild(b) \/ Abort(b) \/ AbortInManifest(b)
      PROVE  disk' = disk
  BY <1>5 DEF PlanStops, PlanBuild, FinishFailed, FinishBuild, Abort, AbortInManifest, tree
<1>6. CASE UNCHANGED vars
  BY <1>6 DEF vars
<1> QED BY <1>1, <1>2, <1>3, <1>4, <1>5, <1>6 DEF Next, Step, Fault

\* "Seeded files are generated once and then owned by the user": a build that
\* runs alone never writes over a seeded file or a migration that holds
\* something, edited or not, unless --force is clearing the tree.
THEOREM SeedsAreWrittenOnce ==
  ASSUME Alone, RolesAreFixed PROVE Spec => SeedWrittenOnce
<1>1. ASSUME TypeOK, WorkFits, Pedigree, BuildInv, [Next]_vars
      PROVE  [\A p \in SeededFile \cup MigPath :
                disk[p] # Absent /\ disk'[p] # disk[p] => Quiet \/ Forcing]_vars
  <2> SUFFICES ASSUME NEW p \in SeededFile \cup MigPath, disk[p] # Absent,
                      disk'[p] # disk[p], ~Quiet, ~Forcing
               PROVE  FALSE
    OBVIOUS
  <2>1. p \in Path
    BY DEF Path, SeededFile
  <2>2. PICK b \in Builder :
          /\ phase[b] = "applying" /\ p \in todo[b]
          /\ status[b][p] \in Writing \cup {"OrphanDelete"}
    BY <1>1, <2>1, DiskSteps
  <2>3. status[b][p] = PlanEntry(mode[b] = "adopt", gen[b].proj, p)
    BY <1>1, <2>2 DEF BuildInv, PlanIsCurrent
  <2>4. ASSUME NEW files, NEW tables, NEW seq, NEW r \in Revision, NEW c \in Compiler,
               Rendered(files, tables, seq, r, c), files[p] # NoFile
        PROVE  files[p].role # "Owned"
    BY <2>1, <2>4 DEF Rendered, RolesAreFixed, SeededFile
  <2>5. gen[b].proj[p] # NoFile => gen[b].proj[p].role # "Owned"
    <3>1. gen[b].rev \in Revision /\ gen[b].compiler \in Compiler
      BY <1>1 DEF TypeOK, Generated
    <3> QED BY <1>1, <2>2, <2>4, <3>1 DEF Pedigree, GeneratedRendered
  <2>6. Base(p) # NoFile => Base(p).role # "Owned"
    <3>1. Readable => manifest.rev \in Revision /\ manifest.compiler \in Compiler
      BY <1>1 DEF TypeOK, Manifest, Readable
    <3> QED BY <1>1, <2>4, <3>1 DEF Pedigree, ManifestRendered, Base
  <2> QED
    BY <2>2, <2>3, <2>5, <2>6 DEF PlanEntry, StatusOf, OrphanStatus, Writing
<1> QED
  BY InitType, NextType, InitWork, NextWork, InitBuild, NextPedigree, NextBuild, <1>1, PTL
  DEF Spec, SeedWrittenOnce

\* A build that ends in CIAC0033 has changed no file and no manifest: while it
\* runs alone it only writes sidecars.
THEOREM FailuresKeepTheTree ==
  ASSUME Alone PROVE Spec => FailedBuildsKeepTree
<1>1. ASSUME TypeOK, BuildInv, [Next]_vars
      PROVE  [\A b \in Builder : Fails(b) /\ phase[b] = "applying" =>
                disk' = disk /\ manifest' = manifest]_vars
  <2> SUFFICES ASSUME NEW b \in Builder, Fails(b), phase[b] = "applying"
               PROVE  disk' = disk /\ manifest' = manifest
    OBVIOUS
  <2>1. ~Quiet /\ ~Forcing /\ \A p \in todo[b] : status[b][p] \in Sidecar
    BY <1>1 DEF Quiet, Forcing, Alone, BuildInv, FailuresWriteSidecars
  <2>2. disk' = disk
    BY <1>1, <2>1, DiskSteps DEF Alone, Sidecar, Writing
  <2>3. manifest' = manifest
    <3>1. CASE User
      BY <2>1, <3>1 DEF User, EditFile, DropSidecar, DeleteManifest, EditSource,
         UpgradeCompiler, tree
    <3>2. ASSUME NEW c \in Builder, Start(c) PROVE manifest' = manifest
      BY <3>2 DEF Start, BuildUpToDate, BuildUnreadable, BuildRefused, BuildGenerate, tree
    <3>3. ASSUME NEW c \in Builder, Step(c) \/ Fault(c) PROVE manifest' = manifest
      <4>1. c = b
        BY DEF Alone
      <4> QED
        BY <3>3, <4>1 DEF Step, Fault, ForceClear, PlanStops, PlanBuild, ApplyFile,
           FinishFailed, FinishBuild, Abort, AbortInWrite, AbortInManifest,
           AbortInClear, tree
    <3>4. CASE UNCHANGED vars
      BY <3>4 DEF vars
    <3> QED BY <1>1, <3>1, <3>2, <3>3, <3>4 DEF Next
  <2> QED BY <2>2, <2>3
<1> QED
  BY InitType, NextType, InitWork, NextWork, InitBuild, NextPedigree, NextBuild, <1>1, PTL
  DEF Spec, FailedBuildsKeepTree

\* The migrations that cover the manifest's schema have used-up numbers: no
\* build writes them again.
CoveredBelow ==
  Readable => \A x \in manifest.tables : \E p \in MigPath :
    /\ p[2] < manifest.seq
    /\ \/ disk[p] \in Sql /\ x \in disk[p].adds
       \/ side[p] \in Sql /\ x \in side[p].adds

\* Entries whose numbers are used up keep what covers the manifest's schema.
LEMMA CoverKept ==
  ASSUME TypeOK, CoveredBelow, manifest' \in {manifest, NoManifest, TornManifest},
         \A p \in MigPath : Readable /\ p[2] < OldSeq
           => disk'[p] = disk[p] /\ side'[p] = side[p]
  PROVE  CoveredBelow'
BY DEF CoveredBelow, Readable, OldSeq

\* An entry of a build's plan is no migration whose number is used up.
LEMMA WorkIsNew ==
  ASSUME TypeOK, WorkFits, Pedigree, BuildInv, "force" \notin Modes,
         NEW b \in Builder, phase[b] = "applying", NEW p \in todo[b] \cap MigPath,
         status[b][p] \in Writing \cup Sidecar \cup {"OrphanDelete"}
  PROVE  OldSeq \leq p[2]
<1>1. mode[b] # "force" /\ p \in Path
  BY DEF Pedigree, GeneratedRendered, Path
<1>2. status[b][p] # "OrphanDelete"
  <2>1. status[b][p] = PlanEntry(mode[b] = "adopt", gen[b].proj, p)
    BY DEF BuildInv, PlanIsCurrent
  <2>2. Base(p) # NoFile => Base(p).role # "Owned"
    BY DEF Base, Pedigree, ManifestRendered, Rendered
  <2> QED BY <2>1, <2>2 DEF PlanEntry, StatusOf, OrphanStatus
<1>3. gen[b].proj[p] # NoFile
  BY <1>2 DEF WorkFits
<1> QED BY <1>1, <1>3 DEF BuildInv, MigrationsExtend

\* Whatever a step writes or deletes, the recorded schema stays covered.
LEMMA NextCovered ==
  ASSUME Alone, "force" \notin Modes, TypeOK, WorkFits, Pedigree, BuildInv,
         CoveredBelow, [Next]_vars
  PROVE  CoveredBelow'
<1>1. ASSUME UNCHANGED <<disk, side>>,
             manifest' \in {manifest, NoManifest, TornManifest}
      PROVE  CoveredBelow'
  BY <1>1, CoverKept
<1>2. CASE User
  <2>1. ASSUME NEW p \in File,
               DropSidecar(p) \/ \E c \in Edits \cup {Absent} : EditFile(p, c)
        PROVE  CoveredBelow'
    <3>1. \A q \in MigPath : q # p /\ q \in Path
      BY SentinelAssumption DEF Path
    <3>2. manifest' = manifest /\ \A q \in MigPath : disk'[q] = disk[q] /\ side'[q] = side[q]
      BY <2>1, <3>1 DEF DropSidecar, EditFile, TypeOK
    <3> QED BY <3>2, CoverKept
  <2> QED
    BY <1>1, <1>2, <2>1 DEF User, DeleteManifest, EditSource, UpgradeCompiler, tree
<1>3. ASSUME NEW b \in Builder, Start(b) PROVE CoveredBelow'
  BY <1>1, <1>3 DEF Start, BuildUpToDate, BuildUnreadable, BuildRefused, BuildGenerate, tree
<1>4. ASSUME NEW b \in Builder, NEW p \in Path, ApplyFile(b, p) \/ AbortInWrite(b, p)
      PROVE  CoveredBelow'
  <2>1. /\ manifest' = manifest /\ phase[b] = "applying" /\ p \in todo[b]
        /\ status[b][p] \in Writing \cup Sidecar \cup {"OrphanDelete"}
        /\ \A q \in Path \ {p} : disk'[q] = disk[q] /\ side'[q] = side[q]
    BY <1>4 DEF ApplyFile, AbortInWrite, TypeOK
  <2>2. p \in MigPath => OldSeq \leq p[2]
    BY <2>1, WorkIsNew
  <2>3. \A q \in MigPath : q \in Path /\ q[2] \in Nat
    BY DEF Path, MigPath
  <2>4. \A q \in MigPath : Readable /\ q[2] < OldSeq
          => disk'[q] = disk[q] /\ side'[q] = side[q]
    BY <2>1, <2>2, <2>3, OldSeqType
  <2> QED BY <2>1, <2>4, CoverKept
<1>5. ASSUME NEW b \in Builder, FinishBuild(b) PROVE CoveredBelow'
  <2>1. /\ phase[b] = "applying" /\ todo[b] = {} /\ ~Fails(b) /\ UNCHANGED <<disk, side>>
        /\ manifest' = [files |-> gen[b].proj, tables |-> gen[b].tables,
                        seq |-> gen[b].seq, rev |-> gen[b].rev,
                        compiler |-> gen[b].compiler]
    BY <1>5 DEF FinishBuild
  <2>2. mode[b] # "force" /\ gen[b].seq \in Nat
    BY <2>1 DEF Pedigree, GeneratedRendered, TypeOK, Generated
  <2>3. SUFFICES ASSUME NEW x \in gen[b].tables
                 PROVE  \E p \in MigPath :
                          /\ p[2] < gen[b].seq
                          /\ \/ disk[p] \in Sql /\ x \in disk[p].adds
                             \/ side[p] \in Sql /\ x \in side[p].adds
    BY <2>1 DEF CoveredBelow
  <2>4. CASE x \in OldTables
    <3>1. PICK p \in MigPath : /\ p[2] < OldSeq
                              /\ \/ disk[p] \in Sql /\ x \in disk[p].adds
                                 \/ side[p] \in Sql /\ x \in side[p].adds
      BY <2>4 DEF CoveredBelow, OldTables, OldSeq
    <3>2. OldSeq \leq gen[b].seq /\ p[2] \in Nat
      BY <2>1, <2>2 DEF BuildInv, MigrationsExtend, MigPath
    <3> QED BY <2>2, <3>1, <3>2, OldSeqType
  <2>5. CASE x \notin OldTables
    <3>1. PICK p \in MigPath : /\ gen[b].proj[p] # NoFile
                              /\ x \in gen[b].proj[p].content.adds
      BY <2>1, <2>2, <2>3, <2>5 DEF BuildInv, MigrationsExtend
    <3>2. gen[b].proj[p].content \in {disk[p], side[p]}
      BY <2>1, <2>2, <3>1 DEF BuildInv, MigrationsApplied
    <3>3. gen[b].proj[p].content \in Sql /\ p[2] < gen[b].seq
      BY <2>1, <3>1 DEF Pedigree, GeneratedRendered, Rendered
    <3> QED BY <3>1, <3>2, <3>3
  <2> QED BY <2>4, <2>5
<1>6. ASSUME NEW b \in Builder, NEW S \in SUBSET Path, AbortInClear(b, S) PROVE FALSE
  BY <1>6 DEF AbortInClear, Pedigree, GeneratedRendered
<1>7. ASSUME NEW b \in Builder, ForceClear(b) \/ AbortInManifest(b) PROVE CoveredBelow'
  BY <1>7 DEF ForceClear, AbortInManifest, CoveredBelow, Readable
<1>8. ASSUME NEW b \in Builder, PlanStops(b) \/ PlanBuild(b) \/ FinishFailed(b) \/ Abort(b)
      PROVE  CoveredBelow'
  BY <1>1, <1>8 DEF PlanStops, PlanBuild, FinishFailed, Abort, tree
<1>9. CASE UNCHANGED vars
  BY <1>1, <1>9 DEF vars
<1> QED
  BY <1>2, <1>3, <1>4, <1>5, <1>6, <1>7, <1>8, <1>9 DEF Next, Step, Fault

\* Builds that run one after the other, dying anywhere, never record a schema
\* that no migration builds up, as long as --force does not empty the tree.
THEOREM MigrationsCoverTheSchema ==
  ASSUME Alone, "force" \notin Modes PROVE Spec => []SchemaCovered
<1>1. Init => CoveredBelow
  BY DEF Init, CoveredBelow, Readable
<1>2. CoveredBelow => SchemaCovered
  BY DEF CoveredBelow, SchemaCovered
<1> QED
  BY InitType, NextType, InitWork, NextWork, InitBuild, NextPedigree, NextBuild,
     NextCovered, <1>1, <1>2, PTL
  DEF Spec

-----------------------------------------------------------------------------
(* A conflict means an edit.  Without crashes, --adopt and a lost manifest, *)
(* a file of the backend's that the user has not changed is what the        *)
(* manifest says, or what the running build has made of it.                 *)

Orderly == /\ Alone /\ RolesAreFixed /\ Crashes = FALSE
           /\ "adopt" \notin Modes /\ "drop manifest" \notin UserDoes

Recorded(f) == Base(f) # NoFile /\ disk[f] = Base(f).content
UntouchedKnown ==
  \A f \in File \ SeededFile : ~touched[f] /\ disk[f] # Absent =>
    /\ (\A b \in Builder : phase[b] = "applying" => f \in todo[b] \/ Fails(b))
         => Recorded(f)
    /\ \A b \in Builder : phase[b] = "applying" /\ f \notin todo[b] /\ ~Fails(b) =>
         gen[b].proj[f] # NoFile /\ disk[f] = gen[b].proj[f].content

\* What builds generate and record for such a file has the owned role.
LEMMA OwnedRole ==
  ASSUME TypeOK, Pedigree, NEW f \in File \ SeededFile
  PROVE  /\ \A b \in Builder : phase[b] # "idle" /\ gen[b].proj[f] # NoFile
              => gen[b].proj[f].role = "Owned"
         /\ Base(f) # NoFile => Base(f).role = "Owned"
<1>1. ASSUME NEW files, NEW tables, NEW seq, NEW r \in Revision, NEW c \in Compiler,
             Rendered(files, tables, seq, r, c), files[f] # NoFile
      PROVE  files[f].role = "Owned"
  <2>1. Emit[c][r][f] \in [role : {"Owned", "Seeded"}, content : Content] \cup {NoFile}
    BY ProgramAssumption
  <2>2. files[f] = Emit[c][r][f] /\ files[f].role # "Seeded"
    BY <1>1 DEF Rendered, SeededFile
  <2> QED BY <1>1, <2>1, <2>2
<1>2. \A b \in Builder : gen[b].rev \in Revision /\ gen[b].compiler \in Compiler
  BY DEF TypeOK, Generated
<1>3. Readable => manifest.rev \in Revision /\ manifest.compiler \in Compiler
  BY DEF TypeOK, Manifest, Readable
<1> QED
  BY <1>1, <1>2, <1>3 DEF Pedigree, GeneratedRendered, ManifestRendered, Base

\* The plan of a file that is as recorded: it is kept, updated or removed.
LEMMA RecordedPlan ==
  ASSUME TypeOK, Pedigree, NEW f \in File \ SeededFile, disk[f] # Absent, Recorded(f),
         NEW b \in Builder, phase[b] # "idle", mode[b] # "adopt"
  PROVE  LET s == PlanEntry(mode[b] = "adopt", gen[b].proj, f)
         IN  \/ /\ gen[b].proj[f] # NoFile
                /\ \/ s = "Unchanged" /\ disk[f] = gen[b].proj[f].content
                   \/ s = "Update"
             \/ s = "OrphanDelete"
BY OwnedRole DEF PlanEntry, StatusOf, OrphanStatus, Recorded

\* No step of an orderly tree's life makes an untouched file a stranger.
LEMMA NextUntouched ==
  ASSUME Orderly, TypeOK, Pedigree, BuildInv, UntouchedKnown, [Next]_vars
  PROVE  UntouchedKnown'
<1> USE DEF Orderly
<1>1. ASSUME UNCHANGED <<disk, manifest>>,
             \A f \in File : touched[f] => touched'[f],
             \A b \in Builder : phase[b] = "applying" => Fails(b),
             \A b \in Builder : phase'[b] # "applying"
      PROVE  UntouchedKnown'
  BY <1>1 DEF UntouchedKnown, Recorded, Base, Readable
<1>2. CASE UNCHANGED <<tree, job, history>>
  <2>1. UNCHANGED <<disk, manifest, phase, mode, gen, status, todo, touched>>
    BY <1>2 DEF tree, job, history
  <2>2. \A b \in Builder : Fails(b)' = Fails(b)
    BY <2>1 DEF Fails, FullApply, HasErrors
  <2>3. \A f \in File : Recorded(f)' = Recorded(f)
    BY <2>1 DEF Recorded, Base, Readable
  <2> QED BY <2>1, <2>2, <2>3 DEF UntouchedKnown
<1>3. CASE User
  <2>1. ASSUME NEW p \in File, NEW c \in Edits \cup {Absent}, EditFile(p, c)
        PROVE  UntouchedKnown'
    <3>1. \A f \in File : f \in Path
      BY DEF Path
    <3>2. touched'[p] /\ \A f \in File \ {p} : disk'[f] = disk[f] /\ touched'[f] = touched[f]
      BY <2>1, <3>1 DEF EditFile, TypeOK
    <3>3. manifest' = manifest /\ \A b \in Builder : phase[b] = "idle" /\ phase'[b] = "idle"
      BY <2>1 DEF EditFile, Quiet, Alone, job
    <3> QED BY <3>2, <3>3 DEF UntouchedKnown, Recorded, Base, Readable
  <2>2. ~DeleteManifest
    BY DEF DeleteManifest
  <2>3. ASSUME NEW p \in File, DropSidecar(p) PROVE UntouchedKnown'
    BY <1>1, <2>3 DEF DropSidecar, Quiet, job, history
  <2>4. ASSUME NEW r, EditSource(r) \/ UpgradeCompiler(r) PROVE UntouchedKnown'
    BY <1>2, <2>4 DEF EditSource, UpgradeCompiler
  <2> QED BY <1>3, <2>1, <2>2, <2>3, <2>4 DEF User
<1>4. ASSUME NEW b \in Builder, Start(b) PROVE UntouchedKnown'
  <2>1. /\ \A c \in Builder : phase[c] = "idle" /\ phase'[c] \in {"idle", "generated"}
        /\ UNCHANGED <<disk, manifest, touched>>
    BY <1>4 DEF Start, BuildUpToDate, BuildUnreadable, BuildRefused, BuildGenerate,
       Proceeds, Return, TypeOK, Alone, tree, history
  <2> QED BY <1>1, <2>1
<1>5. ASSUME NEW b \in Builder, ForceClear(b) PROVE UntouchedKnown'
  BY <1>5 DEF ForceClear, UntouchedKnown, Path
<1>6. ASSUME NEW b \in Builder, PlanStops(b) \/ FinishFailed(b) PROVE UntouchedKnown'
  <2>1. /\ \A c \in Builder : phase[c] = "applying" => Fails(c)
        /\ \A c \in Builder : phase'[c] = "idle"
        /\ UNCHANGED <<disk, manifest, touched>>
    <3>1. CASE PlanStops(b)
      BY <3>1 DEF PlanStops, Return, TypeOK, Alone, tree, history
    <3>2. CASE FinishFailed(b)
      BY <3>2 DEF FinishFailed, Return, TypeOK, Alone, tree, history
    <3> QED BY <1>6, <3>1, <3>2
  <2> QED BY <1>1, <2>1
<1>7. ASSUME NEW b \in Builder, PlanBuild(b) PROVE UntouchedKnown'
  <2> DEFINE plan == Plan(mode[b] = "adopt", gen[b].proj)
  <2>1. /\ UNCHANGED <<disk, manifest, gen, mode>>
        /\ phase[b] = "generated" /\ status'[b] = plan
        /\ todo'[b] = ToApply(FullApply(mode[b], plan), plan)
        /\ \A f \in Path : touched[f] => touched'[f]
    BY <1>7 DEF PlanBuild, tree, TypeOK
  <2>2. mode[b] # "adopt"
    BY <2>1 DEF Pedigree, GeneratedRendered
  <2>3. SUFFICES ASSUME NEW f \in File \ SeededFile, ~touched'[f], disk[f] # Absent
                 PROVE  /\ Recorded(f)'
                        /\ f \notin todo'[b] /\ ~Fails(b)' =>
                             gen[b].proj[f] # NoFile /\ disk[f] = gen[b].proj[f].content
    BY <2>1 DEF UntouchedKnown, Alone
  <2>4. f \in Path
    BY DEF Path
  <2>5. Recorded(f)
    BY <2>1, <2>3, <2>4 DEF UntouchedKnown, Alone
  <2>6. Recorded(f)'
    BY <2>1, <2>5 DEF Recorded, Base, Readable
  <2>7. plan[f] = PlanEntry(mode[b] = "adopt", gen[b].proj, f)
    BY <2>4 DEF Plan
  <2>8. \/ /\ gen[b].proj[f] # NoFile
           /\ \/ plan[f] = "Unchanged" /\ disk[f] = gen[b].proj[f].content
              \/ plan[f] = "Update"
        \/ plan[f] = "OrphanDelete"
    BY <2>1, <2>2, <2>3, <2>5, <2>7, RecordedPlan
  <2>9. ~Fails(b)' => FullApply(mode[b], plan)
    BY <2>1 DEF Fails
  <2> QED BY <2>1, <2>4, <2>6, <2>8, <2>9 DEF ToApply, Writing
<1>8. ASSUME NEW b \in Builder, NEW p \in Path, ApplyFile(b, p) PROVE UntouchedKnown'
  <2>1. /\ UNCHANGED <<manifest, phase, mode, gen, status>>
        /\ todo'[b] = todo[b] \ {p} /\ phase[b] = "applying" /\ p \in todo[b]
        /\ \A q \in Path \ {p} : disk'[q] = disk[q] /\ touched'[q] = touched[q]
    BY <1>8 DEF ApplyFile, TypeOK
  <2>2. mode[b] # "adopt" /\ Fails(b)' = Fails(b)
    BY <2>1 DEF Pedigree, GeneratedRendered, Fails, FullApply, HasErrors
  <2>3. SUFFICES ASSUME NEW f \in File \ SeededFile, ~touched'[f], disk'[f] # Absent
                 PROVE  /\ f \in todo'[b] \/ Fails(b) => Recorded(f)'
                        /\ f \notin todo'[b] /\ ~Fails(b) =>
                             gen[b].proj[f] # NoFile /\ disk'[f] = gen[b].proj[f].content
    BY <2>1, <2>2 DEF UntouchedKnown, Alone
  <2>4. f \in Path
    BY DEF Path
  <2>5. CASE f # p
    BY <2>1, <2>3, <2>4, <2>5 DEF UntouchedKnown, Recorded, Base, Readable, Alone
  <2>6. CASE f = p
    <3>1. CASE status[b][p] \in Writing
      <4>1. ~Fails(b) /\ gen[b].proj[p] # NoFile
        <5>1. status[b][p] = PlanEntry(mode[b] = "adopt", gen[b].proj, p)
          BY <2>1 DEF BuildInv, PlanIsCurrent
        <5> QED
          BY <2>1, <3>1, <5>1 DEF BuildInv, FailuresWriteSidecars, Writing, Sidecar,
             PlanEntry, OrphanStatus
      <4>2. disk'[p] = gen[b].proj[p].content
        BY <1>8, <3>1 DEF ApplyFile, Writing, Sidecar, TypeOK
      <4> QED BY <2>1, <2>6, <4>1, <4>2
    <3>2. CASE status[b][p] \in Sidecar
      <4>1. disk' = disk /\ touched' = touched
        BY <1>8, <3>2 DEF ApplyFile, Writing, Sidecar
      <4>2. Recorded(f)
        BY <2>1, <2>3, <2>6, <4>1 DEF UntouchedKnown, Alone
      <4>3. status[b][p] = PlanEntry(mode[b] = "adopt", gen[b].proj, p)
        BY <2>1 DEF BuildInv, PlanIsCurrent
      <4> QED BY <2>1, <2>2, <2>3, <2>6, <3>2, <4>1, <4>2, <4>3, RecordedPlan DEF Sidecar
    <3>3. CASE status[b][p] = "OrphanDelete"
      BY <1>8, <2>3, <2>4, <2>6, <3>3 DEF ApplyFile, Writing, Sidecar, TypeOK
    <3> QED BY <1>8, <3>1, <3>2, <3>3 DEF ApplyFile
  <2> QED BY <2>5, <2>6
<1>9. ASSUME NEW b \in Builder, FinishBuild(b) PROVE UntouchedKnown'
  <2>1. /\ phase[b] = "applying" /\ todo[b] = {} /\ ~Fails(b)
        /\ UNCHANGED <<disk, touched>> /\ manifest'.files = gen[b].proj
        /\ \A c \in Builder : phase'[c] = "idle"
    BY <1>9 DEF FinishBuild, Return, TypeOK, Alone, history
  <2>2. Readable'
    <3>1. manifest' \in Manifest
      BY <1>9 DEF FinishBuild, TypeOK, Generated, Manifest
    <3> QED BY <3>1, SentinelAssumption DEF Readable
  <2>3. ASSUME NEW f \in File PROVE Base(f)' = gen[b].proj[f]
    BY <2>1, <2>2 DEF Base
  <2>4. ASSUME NEW f \in File \ SeededFile, ~touched[f], disk[f] # Absent
        PROVE  Recorded(f)'
    <3>1. gen[b].proj[f] # NoFile /\ disk[f] = gen[b].proj[f].content
      BY <2>1, <2>4 DEF UntouchedKnown
    <3> QED BY <2>1, <2>3, <3>1 DEF Recorded
  <2> QED BY <2>1, <2>4 DEF UntouchedKnown
<1>10. ASSUME NEW b \in Builder PROVE ~Fault(b)
  BY DEF Fault, Abort, AbortInWrite, AbortInManifest, AbortInClear
<1>11. CASE UNCHANGED vars
  BY <1>2, <1>11 DEF vars, tree, job, history
<1> QED
  BY <1>3, <1>4, <1>5, <1>6, <1>7, <1>8, <1>9, <1>10, <1>11 DEF Next, Step

\* A conflict is of a file the user has changed, and stays so until the build ends.
LEMMA NextConflict ==
  ASSUME Orderly, TypeOK, TypeOK', Pedigree, Pedigree', BuildInv, UntouchedKnown,
         NoFalseConflict, [Next]_vars
  PROVE  NoFalseConflict'
<1> USE DEF Orderly
<1>1. CASE \A b \in Builder : phase'[b] = "idle"
  BY <1>1 DEF NoFalseConflict
<1>2. CASE UNCHANGED <<tree, job, history>>
  BY <1>2 DEF NoFalseConflict, job, history
<1>3. ASSUME NEW b \in Builder, ForceClear(b) \/ \E m \in Modes : BuildGenerate(b, m)
      PROVE  NoFalseConflict'
  <2>1. \A c \in Builder : phase'[c] # "applying" \/ mode'[c] = "force"
    BY <1>3 DEF ForceClear, BuildGenerate, Alone, TypeOK
  <2> QED BY <2>1 DEF NoFalseConflict
<1>4. ASSUME NEW b \in Builder, PlanBuild(b) PROVE NoFalseConflict'
  <2> DEFINE plan == Plan(mode[b] = "adopt", gen[b].proj)
  <2>1. /\ UNCHANGED <<disk, manifest, gen, mode>>
        /\ phase[b] = "generated" /\ status'[b] = plan
        /\ \A f \in Path : touched[f] => touched'[f]
    BY <1>4 DEF PlanBuild, tree, TypeOK
  <2>2. SUFFICES ASSUME NEW p \in Path, plan[p] = "Conflict" PROVE touched[p]
    BY <2>1 DEF NoFalseConflict, Alone
  <2>3. plan[p] = PlanEntry(mode[b] = "adopt", gen[b].proj, p) /\ mode[b] # "adopt"
    BY <2>1, <2>2 DEF Plan, Pedigree, GeneratedRendered
  <2>4. gen[b].proj[p] # NoFile /\ gen[b].proj[p].role = "Owned" /\ disk[p] # Absent
    BY <2>2, <2>3 DEF PlanEntry, StatusOf, OrphanStatus
  <2>5. p \in File \ SeededFile
    <3>1. Rendered(gen[b].proj, gen[b].tables, gen[b].seq, gen[b].rev, gen[b].compiler)
      BY <2>1 DEF Pedigree, GeneratedRendered
    <3>2. gen[b].rev \in Revision /\ gen[b].compiler \in Compiler
      BY DEF TypeOK, Generated
    <3> QED BY <2>4, <3>1, <3>2 DEF Rendered, RolesAreFixed, Path
  <2>6. ~Recorded(p)
    BY <2>1, <2>2, <2>3, <2>4, <2>5, RecordedPlan
  <2> QED BY <2>1, <2>4, <2>5, <2>6 DEF UntouchedKnown, Alone, TypeOK
<1>5. ASSUME NEW b \in Builder, NEW p \in Path, ApplyFile(b, p) PROVE NoFalseConflict'
  <2>1. UNCHANGED <<phase, mode, status>>
        /\ \A q \in Path : touched'[q] = touched[q] \/ (q = p /\ status[b][q] # "Conflict")
    <3>1. UNCHANGED <<phase, mode, status>>
      BY <1>5 DEF ApplyFile
    <3>2. \A q \in Path \ {p} : touched'[q] = touched[q]
      BY <1>5 DEF ApplyFile, TypeOK
    <3>3. status[b][p] = "Conflict" => touched' = touched
      BY <1>5 DEF ApplyFile, Writing, Sidecar
    <3> QED BY <3>1, <3>2, <3>3
  <2> QED BY <2>1 DEF NoFalseConflict, Alone
<1> QED BY <1>1, <1>2, <1>3, <1>4, <1>5, SoleKinds

\* CIAC0033 means the file was edited: builds that run one after the other and
\* to their end never report a conflict on a file the user left alone.
THEOREM ConflictsAreEdits ==
  ASSUME Orderly PROVE Spec => []NoFalseConflict
<1>1. Init => UntouchedKnown /\ NoFalseConflict
  BY DEF Init, UntouchedKnown, NoFalseConflict, Path
<1> USE DEF Orderly
<1> QED
  BY InitType, NextType, InitWork, NextWork, InitBuild, NextPedigree, NextBuild,
     NextUntouched, NextConflict, <1>1, PTL
  DEF Spec
=============================================================================
