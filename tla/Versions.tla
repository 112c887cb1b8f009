------------------------------ MODULE Versions ------------------------------
(***************************************************************************)
(* What the compiler makes of the versions of a program: the operators     *)
(* that Evolution takes as constants.  Then what the report on two         *)
(* versions owes to a build that refuses the second.                       *)
(***************************************************************************)
EXTENDS SemanticDiff, Evolution

CONSTANTS
  Revisions,                         \* the versions of the programs, a sequence
  IrOf(_), ModelOf(_), DiffOf(_, _)  \* a revision compiled, its model, two models compared

\* Computed once for all.
Numbered == DOMAIN Revisions
OfEach(F(_))     == [r \in Numbered |-> F(r)]
OfPairs(F(_, _)) == [p \in Pairs |-> F(p[1], p[2])]

Ir    == OfEach(IrOf)
Model == OfEach(ModelOf)
Diff  == OfPairs(DiffOf)

CompiledIr(r)      == Run(Revisions[r])
SemanticModelOf(r) == FromIr(Ir[r])
ModelDiff(r, s)    == DiffModels(Model[r], Model[s])

ASSUME RevisionsAssumption == \A r \in Numbered : Accepted(Ir[r])

\* Revisions of one model have one semantic hash.
SemanticHash(r) == CHOOSE i \in Numbered :
                     /\ Model[i] = Model[r]
                     /\ \A j \in 1..(i - 1) : Model[j] # Model[r]
RecordFields(r) == Model[r].records

----------------------------------------------------------------------------
(* The tables of a program. *)

SqlType(ty) ==
  CASE ty.k = "Str"   -> "TEXT"
    [] ty.k = "Uuid"  -> "TEXT"
    [] ty.k = "Enum"  -> "TEXT"
    [] ty.k = "Reference" -> "TEXT"
    [] ty.k = "Int"   -> "BIGINT"
    [] ty.k = "Bool"  -> "BOOLEAN"
    [] ty.k = "Float" -> "DOUBLE PRECISION"
    [] ty.k = "Timestamp" -> "TIMESTAMPTZ"
    [] OTHER          -> "JSONB"

Physical(name) == Kebab(name)

ToOne(f)  == f.ty.k = "Reference" /\ f.ty.cardinality = "one"
ToMany(f) == f.ty.k = "Reference" /\ f.ty.cardinality = "many"
Column(f) == IF ToOne(f) THEN f.name \o "_id" ELSE f.name

ForeignKey(target, onDelete, onUpdate) ==
  [target |-> target, onDelete |-> onDelete, onUpdate |-> onUpdate]

\* A reference to one row is a column; a reference to many is a table of its own.
TableSchema(fields) ==
  LET here == {f \in fields : ~ToMany(f)}
      field(c) == CHOOSE f \in here : Column(f) = c
      keys == {Column(f) : f \in {g \in here : ToOne(g)}}
  IN  [cols |-> [c \in {Column(f) : f \in here} |-> SqlType(field(c).ty)],
       fks |-> [c \in keys |-> ForeignKey(Physical(field(c).ty.table), field(c).ty.onDelete,
                                          field(c).ty.onUpdate)],
       unique |-> {c \in keys : field(c).ty.unique},
       link |-> FALSE]

\* Deleting the source of a link always deletes the link.
LinkSchema(owner, ty) ==
  [cols |-> [c \in {"source_id", "target_id"} |-> "TEXT"],
   fks |-> [source_id |-> ForeignKey(owner, "cascade", "cascade"),
            target_id |-> ForeignKey(Physical(ty.table), ty.onDelete, ty.onUpdate)],
   unique |-> {}, link |-> TRUE]

SnapshotSchema(b) ==
  LET fields(t) == Range(RecordOf(b, t.record).fields)
      own(t) == (Physical(t.name) :> TableSchema(fields(t)))
      link(t, f) == ((Physical(t.name) \o "__" \o Kebab(f.name)) :> LinkSchema(Physical(t.name), f.ty))
      links(t) == FoldSet(LAMBDA f, s : link(t, f) @@ s, <<>>, {f \in fields(t) : ToMany(f)})
  IN  FoldLeft(LAMBDA s, t : own(t) @@ links(t) @@ s, <<>>, b.tables)

DeclaredSchema(r) == SnapshotSchema(Ir[r])

\* No backend generates a program that has a reference to many.
Generates(r) == \A record \in Range(Ir[r].records) : ~\E f \in Range(record.fields) : ToMany(f)

----------------------------------------------------------------------------
(* Records that cross a service boundary. *)

RECURSIVE CallTargets(_)
CallTargets(steps) ==
  UNION {IF s.k = "call" THEN {s.node} ELSE UNION {CallTargets(a) : a \in Range(s.arms)}
         : s \in Range(steps)}

ServiceOf(b, i) == b.nodes[i].service

\* <<record, service>>: a pipeline of the service calls an api of another one, whose
\* pipeline takes the record.
CallBoundary(b) ==
  UNION {LET caller == ServiceOf(b, p.owner)
             called == {q \in Range(b.pipelines) :
                          /\ q.owner \in CallTargets(p.steps)
                          /\ ServiceOf(b, q.owner) \notin {0, caller}}
         IN  {<<q.payload, caller>> : q \in {x \in called : x.payload # "" /\ caller # 0}}
         : p \in Range(b.pipelines)}

Sends(b) == {e \in Range(b.edges) : e.kind = "AsyncMessage"}
ProducersOf_FaultyEitherEnd(b, stream) ==
  {ServiceOf(b, e.from) : e \in {x \in Sends(b) : x.to = stream}}
    \cup {ServiceOf(b, e.to) : e \in {x \in Sends(b) : x.from = stream}}

ProducersOf(b, stream) == {ServiceOf(b, e.from) : e \in {x \in Sends(b) : x.to = stream}}

\* The service consumes a stream of the record, and does not publish to it.
StreamBoundary(b) ==
  UNION {LET stream == e.from
             reader == ServiceOf(b, e.to)
         IN  IF /\ b.nodes[stream].kind = "Stream" /\ b.nodes[stream].record # ""
                /\ reader \notin {0} \cup ProducersOf(b, stream)
             THEN {<<b.nodes[stream].record, reader>>} ELSE {}
         : e \in Sends(b)}

BoundaryConsumers(b) == CallBoundary(b) \cup StreamBoundary(b)

Position(seq, name) == CHOOSE i \in DOMAIN seq : seq[i].name = name

\* A type as it is remembered: a reference by the positions of its record and its table.
Rendered(b, ty) ==
  IF ty.k # "Reference" THEN ty
  ELSE [ty EXCEPT !.target = ToString(Position(b.records, @)), !.table = ToString(Position(b.tables, @))]

FieldTypes(b, r) ==
  LET fields == Range(RecordOf(b, r).fields)
  IN  [f \in {g.name : g \in fields} |-> Rendered(b, (CHOOSE g \in fields : g.name = f).ty)]

SnapshotBoundaryRecords(b) ==
  [r \in {c[1] : c \in BoundaryConsumers(b)} |-> FieldTypes(b, r)]

BoundaryShapes(r) == SnapshotBoundaryRecords(Ir[r])

RECURSIVE Flat(_)
Flat(steps) ==
  UNION {{s} \cup UNION {Flat(a) : a \in Range(s.arms)} : s \in Range(steps)}
StepsOfService(b, s) == UNION {Flat(p.steps) : p \in {q \in Range(b.pipelines) : ServiceOf(b, q.owner) = s}}
Targeted(b, s, k) == {x.node : x \in {y \in StepsOfService(b, s) : y.k = k}}

\* <<sender, reader, record>>, from the steps of the pipelines.  A service that also sends
\* to the stream is left out.
ExchangesIn(b) ==
  LET all == DOMAIN b.services
      called(s) == {<<s, ServiceOf(b, a), b.nodes[a].record>> : a \in Targeted(b, s, "call")}
      read(s, x) == {ServiceOf(b, i) : i \in {j \in DOMAIN b.consumes : b.consumes[j] = x}}
                      \ {q \in all : x \in Targeted(b, q, "publish")}
      sent(s) == UNION {{<<s, q, b.nodes[x].record>> : q \in read(s, x)} : x \in Targeted(b, s, "publish")}
  IN  {<<b.services[e[1]], b.services[e[2]], e[3]>> :
         e \in {x \in UNION {called(s) \cup sent(s) : s \in all} : x[1] # x[2] /\ x[3] # ""}}

ExchangesAt(r) == ExchangesIn(Ir[r])

----------------------------------------------------------------------------
(* Backfills. *)

\* The first table that stores the record counts.
TableOfRecord(r, record) ==
  LET b == Ir[r]
      i == StoredIn(b, record)
  IN  IF i = 0 THEN {} ELSE {b.tables[i].name}

PlanTable_FaultyAsDeclared(name) == name

PlanTable(name) == Physical(name)

ResolvePlan(change, r) ==
  {<<PlanTable(t), change.key[4]>> : t \in TableOfRecord(r, change.key[3])}

ColumnsToBackfill(r, s) == UNION {ResolvePlan(c, s) : c \in {x \in Diff[<<r, s>>] : x.backfill}}

\* A table was there before with the record it has now, and is the record's first.
SameTables(r, s) ==
  {Physical(u.name) : u \in {x \in Range(Ir[s].tables) :
     /\ x.name \in TableOfRecord(s, x.record)
     /\ \E v \in Range(Ir[r].tables) : v.name = x.name /\ v.record = x.record}}

----------------------------------------------------------------------------
SameRecord(t) == \E u \in Range(Ir[source].tables) : u.name = t.name /\ u.record = t.record
Reported(kind, name) ==
  \E c \in Diff[<<built, source>>] : c.class = "Breaking" /\ c.key[2] = kind /\ c.key[3] = name
ServiceGone(t) == ServiceName(Ir[built], t.service) \notin Model[source].services

TableExplained(t) ==
  LET name == Physical(t.name)
  IN  /\ name \notin DOMAIN Schema[source] => Reported("table", t.name) \/ ServiceGone(t)
      /\ SameRecord(t) /\ TableRefused(Schema[built], Schema[source], name) =>
           Reported("record", t.record)

\* The fields of boundary records for which the build refuses; a reference is remembered by
\* position and may be refused although nothing has changed.
IsReference(r, x) == Model[r].records[x[1]][x[2]].k = "Reference"
RefusedFields ==
  {x \in DiffRecordShapes(manifest.records, Shapes[source]) :
     ~(IsReference(built, x) /\ x[2] \in DOMAIN Model[source].records[x[1]] /\ IsReference(source, x))}

\* The services that read a record of another one in a version: whom a refusal names, if it is
\* the new one.
ReadersIn(r, record) ==
  {ServiceName(Ir[r], c[2]) : c \in {x \in BoundaryConsumers(Ir[r]) : x[1] = record}}

ReportedTo(services, x) ==
  \E c \in Diff[<<built, source>>] :
    /\ c.key = FieldKey(x[1], x[2]) /\ c.class = "Breaking"
    /\ services \subseteq {k.service : k \in c.consumers}

\* What a build refuses, the semantic diff against the same program reports as breaking:
\* a table that is gone or whose columns cannot follow, and a boundary record's field, with
\* every service that reads the record in the program last built, whose deployed code the
\* change would break.  Tables of a removed service, and tables that store another record than
\* before, are not reported.  The refusal itself names the readers in the new program, who may
\* be others (ReportNamesTheRefused).
RefusalsAreExplained ==
  built # None =>
    /\ \A t \in Range(Ir[built].tables) : TableExplained(t)
    /\ \A x \in RefusedFields : ReportedTo(ReadersIn(built, x[1]), x)

\* The report of a refused field names every service that the refusal names: its search for
\* consumers is introduced as "generalizing `evolution::boundary_consumers`"
\* (semantic_diff.rs:210).  It is not so: diff_record_fields looks for them in the old program
\* (semantic_diff.rs:273, :299), generate in the new one (commands.rs:3376).
ReportNamesTheRefused ==
  built # None => \A x \in RefusedFields : ReportedTo(ReadersIn(source, x[1]), x)
=============================================================================
