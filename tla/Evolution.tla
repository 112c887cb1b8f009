----------------------------- MODULE Evolution -----------------------------
(***************************************************************************)
(* A program that changes over time, the tree that is built from it, and   *)
(* the databases that follow.  A build compares the program with what the  *)
(* manifest remembers and writes a migration or refuses; a baseline is     *)
(* replaced only when asked for; a backfill plan leads, file by file, from *)
(* a nullable column to one that is not.                                   *)
(***************************************************************************)
EXTENDS Naturals, Sequences, SequencesExt, FiniteSets, TLC

CONSTANTS
  Revision,       \* the versions of the programs
  Families,       \* which are versions of one program
  \* What the compiler makes of a revision, and of two of them: see Versions.
  SupportedOf(_),   \* can a backend generate it at all
  SchemaOf(_),      \* its tables
  ShapesOf(_),      \* its boundary records, as a manifest remembers them
  HashOf(_),        \* the hash of its semantic model
  FieldsOf(_),      \* the fields of its records, with their types
  ExchangesOf(_),   \* <<sender, reader, record>>, what its services send each other
  BackfillsOf(_, _), \* the columns that the diff of the two asks to backfill
  FollowersOf(_, _), \* the tables of the second that store what they stored in the first
  Databases,
  Transactional,  \* the databases whose runner applies a file in one transaction
  MaxFiles,       \* the bound on the files in the migrations directory
  MaxPlans        \* the bound on the plans on record

ASSUME TransactionalAssumption == Transactional \subseteq Databases

----------------------------------------------------------------------------
(* The next migration: additive, or refused.                               *)
(*                                                                         *)
(* A schema is a function from physical table names to [cols, fks, unique, *)
(* link]; cols gives the SQL type of a column, fks the foreign key of a    *)
(* column that has one.  A statement is [k, table, ...]: "create" with the *)
(* schema of the table, "add" with a column and its type.                  *)

Targets(schema) == {schema.fks[c].target : c \in DOMAIN schema.fks}

AddedColumns(old, new, t)   == DOMAIN new[t].cols \ DOMAIN old[t].cols
KeptColumns(old, new, t)    == DOMAIN new[t].cols \cap DOMAIN old[t].cols

\* A column that becomes a reference, or stops being one, keeps its type and its name.
ForeignKeyChanged(old, new, t) ==
  \E c \in DOMAIN old[t].fks \cap DOMAIN new[t].fks : old[t].fks[c] # new[t].fks[c]

TableRefused_FaultyNoTypes(old, new, t) ==
  \/ AddedColumns(old, new, t) \cap DOMAIN new[t].fks # {}
  \/ DOMAIN old[t].cols \ DOMAIN new[t].cols # {}
  \/ ForeignKeyChanged(old, new, t)

TableRefused(old, new, t) ==
  \/ AddedColumns(old, new, t) \cap DOMAIN new[t].fks # {}
  \/ \E c \in KeptColumns(old, new, t) : old[t].cols[c] # new[t].cols[c]
  \/ DOMAIN old[t].cols \ DOMAIN new[t].cols # {}
  \/ ForeignKeyChanged(old, new, t)

SchemaRefused(old, new) ==
  \/ DOMAIN old \ DOMAIN new # {}
  \/ \E t \in DOMAIN old \cap DOMAIN new : TableRefused(old, new, t)

Create(t, schema) == [k |-> "create", table |-> t, schema |-> schema, column |-> "", type |-> ""]
AddColumn(t, c, type) ==
  [k |-> "add", table |-> t, schema |-> <<>>, column |-> c, type |-> type]

\* New tables, each round those whose foreign keys need no other table that remains.
OrderNewTables(tables, new) ==
  LET rounds[n \in 0..Cardinality(tables)] ==
        IF n = 0 THEN [ordered |-> <<>>, remaining |-> tables]
        ELSE LET r == rounds[n - 1]
                 ready == {t \in r.remaining : Targets(new[t]) \cap r.remaining = {}}
                 next == IF ready = {} THEN r.remaining ELSE ready
             IN  [ordered |-> r.ordered \o SetToSeq(next), remaining |-> r.remaining \ next]
  IN  rounds[Cardinality(tables)].ordered

\* The statements of the migration, the new tables before the new columns.
DiffSchema(old, new) ==
  LET created == OrderNewTables(DOMAIN new \ DOMAIN old, new)
      adds(t) == {AddColumn(t, c, new[t].cols[c]) : c \in AddedColumns(old, new, t)}
  IN  [i \in DOMAIN created |-> Create(created[i], new[created[i]])]
        \o SetToSeq(UNION {adds(t) : t \in DOMAIN old \cap DOMAIN new})

----------------------------------------------------------------------------
(* Records that cross a service boundary. *)

\* A record that no longer crosses a boundary may change as it likes.
DiffRecordShapes(old, new) ==
  UNION {{<<r, f>> : f \in {g \in DOMAIN old[r] : g \notin DOMAIN new[r] \/ new[r][g] # old[r][g]}}
         : r \in DOMAIN old \cap DOMAIN new}

----------------------------------------------------------------------------

\* Computed once for all.
Pairs     == UNION {f \X f : f \in Families}
Supported == [r \in Revision |-> SupportedOf(r)]
Schema    == [r \in Revision |-> SchemaOf(r)]
Shapes    == [r \in Revision |-> ShapesOf(r)]
Hash      == [r \in Revision |-> HashOf(r)]
Fields    == [r \in Revision |-> FieldsOf(r)]
Exchanges == [r \in Revision |-> ExchangesOf(r)]
Backfills == [p \in Pairs |-> BackfillsOf(p[1], p[2])]
Followers == [p \in Pairs |-> FollowersOf(p[1], p[2])]

\* 0 is no revision.
None == 0
ASSUME RevisionAssumption == None \notin Revision

\* A revision is a version of one program.
ASSUME FamiliesAssumption ==
  /\ UNION Families = Revision
  /\ \A f, g \in Families : f = g \/ f \cap g = {}

\* A foreign key is a column, it refers to a table of the same program, and tables do not
\* need each other in a circle (sema's resolve_reference and find_reference_cycles).
IsTable(s) ==
  /\ DOMAIN s = {"cols", "fks", "unique", "link"}
  /\ s.cols = [c \in DOMAIN s.cols |-> s.cols[c]]
  /\ IsFiniteSet(DOMAIN s.cols)
  /\ DOMAIN s.fks \subseteq DOMAIN s.cols

WellFormed(schema) ==
  /\ IsFiniteSet(DOMAIN schema)
  /\ \A t \in DOMAIN schema : IsTable(schema[t]) /\ Targets(schema[t]) \subseteq DOMAIN schema
  /\ \A ts \in SUBSET DOMAIN schema :
       ts # {} => \E t \in ts : Targets(schema[t]) \cap ts = {}

ASSUME SchemaAssumption == \A r \in Revision : WellFormed(Schema[r])

VARIABLES
  source,    \* the revision that the sources hold
  manifest,  \* what the last build left: its tables, its boundary records, the next sequence number
  built,     \* the revision of the last build, 0 for none
  baseline,  \* the revision of the checked-in baseline, 0 for none
  files,     \* the migration files
  plans,     \* the backfill plans whose script is written
  db         \* a database, one of Databases: they have nothing to do with each other

vars == <<source, manifest, built, baseline, files, plans, db>>

EmptyDatabase ==
  [tables |-> <<>>, nulls |-> {}, applied |-> {}, ledger |-> FALSE, done |-> {}]

Init ==
  /\ source \in Revision
  /\ manifest = [tables |-> <<>>, records |-> <<>>, seq |-> 1]
  /\ built = None
  /\ baseline = None
  /\ files = {}
  /\ plans = {}
  /\ db \in {[d \in {x} |-> EmptyDatabase] : x \in Databases}

Edit(r) ==
  /\ r # source
  /\ \E f \in Families : {r, source} \subseteq f
  /\ source' = r
  /\ UNCHANGED <<manifest, built, baseline, files, plans, db>>

----------------------------------------------------------------------------
(* Builds. *)

Refused(r) ==
  \/ ~Supported[r]
  \/ SchemaRefused(manifest.tables, Schema[r])
  \/ DiffRecordShapes(manifest.records, Shapes[r]) # {}

MigrationFile(seq, stmts) == [seq |-> seq, kind |-> "migration", plan |-> <<>>, stmts |-> stmts]

\* No statement, no file, and the number is kept.
Build ==
  LET stmts == DiffSchema(manifest.tables, Schema[source])
      new == IF stmts = <<>> THEN {} ELSE {MigrationFile(manifest.seq, stmts)}
  IN  /\ ~Refused(source)
      /\ source = built => new # {}
      /\ Cardinality(files \cup new) <= MaxFiles
      /\ files' = files \cup new
      /\ manifest' = [tables |-> Schema[source], records |-> Shapes[source],
                      seq |-> manifest.seq + Cardinality(new)]
      /\ built' = source
      /\ UNCHANGED <<source, baseline, plans, db>>

\* The first baseline, or a new one with both flags, where something has changed.
AcceptBaseline ==
  /\ baseline # None => Hash[baseline] # Hash[source]
  /\ baseline' = source
  /\ UNCHANGED <<source, manifest, built, files, plans, db>>

----------------------------------------------------------------------------
(* Backfill plans. *)

\* The column is one of the program's, and the build has expanded it.
Expanded(p, tables) == p.table \in DOMAIN tables /\ p.column \in DOMAIN tables[p.table].cols

\* A plan is known by its table, its column and the hashes of the two models.
PlanFor(x) == [table |-> x[1], column |-> x[2], before |-> Hash[baseline], after |-> Hash[source]]

PlansNow ==
  IF baseline = None THEN {}
  ELSE {p \in {PlanFor(x) : x \in Backfills[<<baseline, source>>]} :
          Expanded(p, Schema[source]) /\ Expanded(p, manifest.tables)}

Plan ==
  /\ PlansNow \ plans # {}
  /\ Cardinality(plans \cup PlansNow) <= MaxPlans
  /\ plans' = plans \cup PlansNow
  /\ UNCHANGED <<source, manifest, built, baseline, files, db>>

Statement(k, p) == [k |-> k, table |-> p.table, schema |-> <<>>, column |-> p.column, type |-> ""]
ContractFile(p, seq) ==
  [seq |-> seq, kind |-> "contract", plan |-> <<p>>,
   stmts |-> <<Statement("ledger", p), Statement("guard", p), Statement("tighten", p)>>]

\* The plan is asked for by its name; a contract that is there is not written again.  The
\* manifest is written last, so the command may end with the number not counted.
Contract(p, counted) ==
  /\ p \in PlansNow
  /\ ~\E f \in files : f.plan = <<p>>
  /\ Cardinality(files) < MaxFiles /\ Cardinality(plans \cup PlansNow) <= MaxPlans
  /\ plans' = plans \cup PlansNow
  /\ files' = files \cup {ContractFile(p, manifest.seq)}
  /\ manifest' = IF counted THEN [manifest EXCEPT !.seq = @ + 1] ELSE manifest
  /\ UNCHANGED <<source, built, baseline, db>>

\* A person fills in the value, or does not, and runs the script; its last statement inserts
\* into the ledger.  The script's updates last only if it gets that far.
RunScript(d, p, filled) ==
  LET nulls == IF filled THEN db[d].nulls \ {<<p.table, p.column>>} ELSE db[d].nulls
  IN  /\ p \in plans
      /\ p \notin db[d].done
      /\ Expanded(p, db[d].tables)
      /\ db' = IF db[d].ledger
               THEN [db EXCEPT ![d].nulls = nulls, ![d].done = @ \cup {p}] ELSE db
      /\ UNCHANGED <<source, manifest, built, baseline, files, plans>>

----------------------------------------------------------------------------
(* Databases: a file at a time, in the order of their names. *)

Name(f) == [seq |-> f.seq, kind |-> f.kind, plan |-> f.plan]
Before(f, g) == f.seq < g.seq \/ (f.seq = g.seq /\ f.kind = "contract" /\ g.kind # "contract")
Pending(d) == {f \in files : Name(f) \notin db[d].applied}
IsFirst(f, d) == f \in Pending(d) /\ \A g \in Pending(d) : ~Before(g, f)

Known(s, x) == s.table \in DOMAIN x.tables

\* Whether a statement works, and what it does.
Works(s, f, x) ==
  CASE s.k = "create"  -> Targets(s.schema) \subseteq DOMAIN x.tables
    [] s.k = "add"     -> Known(s, x) /\ s.column \notin DOMAIN x.tables[s.table].cols
    [] s.k = "ledger"  -> TRUE
    [] s.k = "guard"   -> f.plan[1] \in x.done
    [] s.k = "tighten" -> Expanded(s, x.tables) /\ <<s.table, s.column>> \notin x.nulls

Having(f, a, b) == [y \in DOMAIN f \cup {a} |-> IF y = a THEN b ELSE f[y]]

Does(s, x) ==
  CASE s.k = "create"  -> IF Known(s, x) THEN x
                          ELSE [x EXCEPT !.tables = Having(@, s.table, s.schema)]
    [] s.k = "add"     -> [x EXCEPT !.tables[s.table].cols = Having(@, s.column, s.type),
                                    !.nulls = @ \cup {<<s.table, s.column>>}]
    [] s.k = "ledger"  -> [x EXCEPT !.ledger = TRUE]
    [] s.k \in {"guard", "tighten"} -> x

\* After each statement: whether all worked so far, and what they left.
Executed(f, x) ==
  LET run[n \in 0..Len(f.stmts)] ==
        IF n = 0 THEN [ok |-> TRUE, x |-> x]
        ELSE LET r == run[n - 1]
             IN  IF r.ok /\ Works(f.stmts[n], f, r.x) THEN [ok |-> TRUE, x |-> Does(f.stmts[n], r.x)]
                 ELSE [ok |-> FALSE, x |-> r.x]
  IN  run

Apply(f, d) == Executed(f, db[d])[Len(f.stmts)]

Migrate(d) ==
  \E f \in files :
    /\ IsFirst(f, d)
    /\ db' = IF Apply(f, d).ok THEN [db EXCEPT ![d] = [Apply(f, d).x EXCEPT !.applied = @ \cup {Name(f)}]]
             ELSE IF d \in Transactional THEN db
             ELSE [db EXCEPT ![d] = Apply(f, d).x]
    /\ UNCHANGED <<source, manifest, built, baseline, files, plans>>

\* The runner dies inside a file: without a transaction what it did stays.
MigrateCut(d) ==
  \E f \in files : \E n \in 1..Len(f.stmts) :
    /\ d \notin Transactional
    /\ IsFirst(f, d)
    /\ db' = [db EXCEPT ![d] = Executed(f, db[d])[n].x]
    /\ UNCHANGED <<source, manifest, built, baseline, files, plans>>

Next ==
  \/ \E r \in Revision : Edit(r)
  \/ Build
  \/ AcceptBaseline
  \/ Plan
  \/ \E p \in PlansNow, counted \in BOOLEAN : Contract(p, counted)
  \/ \E d \in DOMAIN db, p \in plans, filled \in BOOLEAN : RunScript(d, p, filled)
  \/ \E d \in DOMAIN db : Migrate(d)
  \/ \E d \in DOMAIN db : MigrateCut(d)

Spec == Init /\ [][Next]_vars

----------------------------------------------------------------------------
(***************************************************************************)
(* What the evolution of a program keeps: databases that can follow it,    *)
(* services that still understand each other, and a diff that tells of     *)
(* everything a build refuses.                                             *)
(***************************************************************************)

Settled(d) == built # None /\ Pending(d) = {}

ColumnsOf(tables) == [t \in DOMAIN tables |-> tables[t].cols]
AgreeOnKeys(x, y) ==
  \A t \in DOMAIN x \cap DOMAIN y : \A c \in DOMAIN x[t].fks \cap DOMAIN y[t].fks :
    x[t].fks[c] = y[t].fks[c]

\* Whatever builds, contracts and crashes lie behind it, a database that has run every file
\* has the tables and columns of the program last built, with their types, and enforces no
\* reference that the program declares in another way; and the next migration of a database
\* whose files are applied whole is one it can apply (diff_schema's order and its refusals,
\* the runners' order of files).
SchemaCatchesUp ==
  \A d \in DOMAIN db :
    /\ Settled(d) => /\ ColumnsOf(db[d].tables) = ColumnsOf(manifest.tables)
                     /\ AgreeOnKeys(db[d].tables, manifest.tables)
    /\ d \in Transactional =>
         \A f \in files : IsFirst(f, d) /\ f.kind = "migration" => Apply(f, d).ok

----------------------------------------------------------------------------

\* The services of a program are deployed one by one: a reader of the build before still
\* finds every field it knows, with its type, in what a sender of this build sends, if the
\* two exchange the record in both (diff_records, and what a manifest remembers for it).
DeploysStayReadable ==
  [][built # None /\ manifest' # manifest =>
       \A e \in Exchanges[built] \cap Exchanges[built'] :
         \A f \in DOMAIN Fields[built][e[3]] :
           /\ f \in DOMAIN Fields[built'][e[3]]
           /\ Fields[built'][e[3]][f] = Fields[built][e[3]][f]]_vars

----------------------------------------------------------------------------

\* A column that a database had to leave nullable since the baseline is offered a backfill
\* plan, as long as the sources are those last built: otherwise it stays nullable for good
\* (plan_backfills resolves what the diff reports against what the migrations expanded).
NullableColumnsHavePlans ==
  baseline # None /\ built = source =>
    \A d \in DOMAIN db : \A x \in db[d].nulls :
      /\ x[1] \in Followers[<<baseline, source>>] \cap DOMAIN Schema[baseline]
      /\ x[2] \notin DOMAIN Schema[baseline][x[1]].cols
      => \E p \in PlansNow : p.table = x[1] /\ p.column = x[2]

\* A plan's script ends by inserting into a table that every generated runtime can create
\* (backfill.rs): where the column is expanded the script can run to its end.
ScriptsHaveTheirLedger ==
  \A d \in DOMAIN db, p \in plans : Expanded(p, db[d].tables) => db[d].ledger
=============================================================================
