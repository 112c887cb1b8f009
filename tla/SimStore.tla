------------------------------ MODULE SimStore ------------------------------
(***************************************************************************)
(* The simulator's relational store: FakeDatabase and the checked calls of *)
(* SimWorld that generated code makes against it (ciac-sim/world.rs).      *)
(*                                                                         *)
(* A call first consults the failure engine, then validates what it is     *)
(* about to do against a copy of the tables, then writes the tables. A     *)
(* `transaction {}` block arrives as one batch of operations.              *)
(***************************************************************************)
EXTENDS FailureEngine, SequencesExt

CONSTANTS
  Table,        \* the tables of the program
  Field,        \* the names of reference columns
  Keys,         \* the rows scenarios name, <<table, primary key>>
  NoRef,        \* a null reference column; the row an insert replaces
  Refused,      \* in the place of a deletion plan: it is restricted
  References,   \* the schema: [table, field, target, cascade, unique]
  BatchTables,  \* the tables the program's transactions write
  MaxBatch,     \* the longest batch a scenario commits
  KeepsId,      \* updates write a record whose id is the row they name
  Reinserts     \* a batch may insert an id an earlier operation deleted

VARIABLES
  db,           \* table -> its rows, in insertion order
  failures,     \* the failure engine
  outcome       \* what the last call returned

vars == <<db, failures, outcome>>

Reference == [table : Table, field : Field, target : Table, cascade : BOOLEAN, unique : BOOLEAN]

\* sema's find_reference_cycles refuses a cycle of to-one references.
AcyclicSchema ==
  \E rank \in [Table -> 1..Cardinality(Table)] :
    \A r \in References : rank[r.target] < rank[r.table]

IdsOf(t) == {k[2] : k \in {x \in Keys : x[1] = t}}
Id == UNION {IdsOf(t) : t \in Table}

ASSUME SchemaAssumption ==
  IsFiniteSet(Table) /\ References \subseteq Reference /\ AcyclicSchema

\* The two sentinels are no key and no id.
ASSUME KeysAssumption ==
  /\ \A k \in Keys : k[1] \in Table /\ k = <<k[1], k[2]>>
  /\ Refused \notin Keys /\ NoRef \notin Id

Outgoing(t) == {r \in References : r.table = t}
Incoming(t) == {r \in References : r.target = t}

\* A row has a value in its table's reference columns only.
RowsOf(t) ==
  {row \in [id : IdsOf(t), refs : [Field -> Id \cup {NoRef}]] :
     \A f \in Field : (\A r \in Outgoing(t) : r.field # f) => row.refs[f] = NoRef}
Row == UNION {RowsOf(t) : t \in Table}

Ids(d, t) == {d[t][i].id : i \in DOMAIN d[t]}
RowSet(d, t) == ToSet(d[t])

------------------------------------------------------------------------------
(* FakeDatabase: unchecked writes.                                         *)

Push(d, t, row) == [d EXCEPT ![t] = Append(@, row)]

\* The first row with this id, if there is one, becomes `row`.
ReplaceFirst(rows, id, row) ==
  LET at == {i \in DOMAIN rows : rows[i].id = id} IN
  IF at = {} THEN rows ELSE [rows EXCEPT ![Min(at)] = row]

Replace(d, t, id, row) == [d EXCEPT ![t] = ReplaceFirst(@, id, row)]

\* The rows of t without one of these keys, in their order.
Without(rows, t, keys) ==
  LET rest[n \in 0..Len(rows)] ==
        IF n = 0 THEN <<>>
        ELSE IF <<t, rows[n].id>> \in keys THEN rest[n - 1]
        ELSE Append(rest[n - 1], rows[n])
  IN rest[Len(rows)]

\* Every row with one of these keys goes.
Retain(d, keys) == [t \in Table |-> Without(d[t], t, keys)]

------------------------------------------------------------------------------
(* The checks.                                                             *)

ValidWrite_FaultyNoTarget(d, t, row, self) ==
  self = NoRef => row.id \notin Ids(d, t)

\* validate_write: `self` is the row an update replaces, NoRef for an insert.
ValidWrite(d, t, row, self) ==
  /\ self = NoRef => row.id \notin Ids(d, t)
  /\ \A r \in Outgoing(t) : row.refs[r.field] # NoRef =>
       /\ row.refs[r.field] \in Ids(d, r.target)
       /\ r.unique => ~\E other \in RowSet(d, t) :
                          /\ other.refs[r.field] = row.refs[r.field]
                          /\ other.id # self

\* The rows that refer to row k through reference r.
Dependents(d, r, k) ==
  {<<r.table, row.id>> : row \in {x \in RowSet(d, r.table) : x.refs[r.field] = k[2]}}

PlanDelete_FaultyShallow(d, k) ==
  UNION {Dependents(d, r, k) : r \in Incoming(k[1])}

\* plan_delete: what deleting k takes along, with Refused in it when a
\* restricting reference blocks k or a row that would go with it. The recursion
\* follows references to their tables, so it is no deeper than there are tables.
PlanDelete(d, k) ==
  LET plan[n \in 0..Cardinality(Table)] ==
        [x \in Keys |->
           UNION {LET deps == Dependents(d, r, x) IN
                  IF deps = {} THEN {}
                  ELSE IF ~r.cascade \/ n = 0 THEN {Refused}
                  ELSE deps \cup UNION {plan[n - 1][y] : y \in deps}
                  : r \in Incoming(x[1])}]
  IN plan[Cardinality(Table)][k]

------------------------------------------------------------------------------
(* The calls, as the tables they leave and whether they were accepted.     *)

Accept(d) == [ok |-> TRUE, db |-> d, deleted |-> {}]
Refuse(d) == [ok |-> FALSE, db |-> d, deleted |-> {}]

InsertInto(d, t, row) ==
  IF ValidWrite(d, t, row, NoRef) THEN Accept(Push(d, t, row)) ELSE Refuse(d)

UpdateIn(d, t, id, row) ==
  IF id \in Ids(d, t) /\ ~ValidWrite(d, t, row, id) THEN Refuse(d)
  ELSE Accept(Replace(d, t, id, row))

DeleteFrom(d, k) ==
  IF k[2] \notin Ids(d, k[1]) THEN Accept(d)
  ELSE LET plan == PlanDelete(d, k) IN
       IF Refused \in plan THEN Refuse(d)
       ELSE [ok |-> TRUE, db |-> Retain(d, {k} \cup plan), deleted |-> {k} \cup plan]

\* One operation of a batch against the overlay. An update of a row that is not
\* there is validated all the same, and then changes nothing; a delete of a row
\* that is not there is planned, and counted, like any other.
BatchStep(o, op) ==
  CASE op.kind = "insert" ->
         LET r == InsertInto(o.db, op.table, op.row) IN [r EXCEPT !.deleted = o.deleted]
    [] op.kind = "update" ->
         IF ValidWrite(o.db, op.table, op.row, op.id)
         THEN [o EXCEPT !.db = Replace(@, op.table, op.id, op.row)]
         ELSE [o EXCEPT !.ok = FALSE]
    [] op.kind = "delete" ->
         LET k == <<op.table, op.id>>
             gone == {k} \cup PlanDelete(o.db, k)
         IN IF Refused \in gone THEN [o EXCEPT !.ok = FALSE]
            ELSE [ok |-> o.ok, db |-> Retain(o.db, gone), deleted |-> o.deleted \cup gone]

\* The overlay after each operation; the first refusal ends the loop.
Overlay(d, ops) ==
  LET o[n \in 0..Len(ops)] ==
        IF n = 0 THEN Accept(d)
        ELSE LET before == o[n - 1] IN
             IF before.ok THEN BatchStep(before, ops[n]) ELSE before
  IN o

ApplyWrite(d, op) ==
  CASE op.kind = "insert" -> Push(d, op.table, op.row)
    [] op.kind = "update" -> Replace(d, op.table, op.id, op.row)
    [] op.kind = "delete" -> d

\* The tables after each write of the batch.
Written(d, ops) ==
  LET w[n \in 0..Len(ops)] == IF n = 0 THEN d ELSE ApplyWrite(w[n - 1], ops[n]) IN w

CommitBatch_FaultyPartial(d, ops) ==
  LET o == Overlay(d, ops)[Len(ops)] IN
  IF o.ok THEN [o EXCEPT !.db = Retain(Written(d, ops)[Len(ops)], o.deleted)]
  ELSE [o EXCEPT !.db = ApplyWrite(d, ops[1])]

\* commit_batch_checked: every write of the batch, then every delete.
CommitBatch(d, ops) ==
  LET o == Overlay(d, ops)[Len(ops)] IN
  IF o.ok THEN [o EXCEPT !.db = Retain(Written(d, ops)[Len(ops)], o.deleted)]
  ELSE Refuse(d)

------------------------------------------------------------------------------
(* What scenarios ask for.                                                 *)

Op(t, kind, id, row) == [kind |-> kind, table |-> t, id |-> id, row |-> row]

\* Updates are `db.update(key, record)`.
Operations ==
  UNION {{Op(t, "insert", row.id, row) : row \in RowsOf(t)}
         \cup {Op(t, "update", id, row) : id \in IdsOf(t), row \in RowsOf(t)}
         \cup {Op(t, "delete", id, CHOOSE row \in RowsOf(t) : row.id = id) : id \in IdsOf(t)}
         : t \in Table}

Admissible(op) == (op.kind = "update" /\ KeepsId) => op.row.id = op.id

\* Some insert of the batch brings back a row an earlier operation deleted.
Reinserting(d, ops) ==
  \E j \in DOMAIN ops :
    /\ ops[j].kind = "insert"
    /\ <<ops[j].table, ops[j].id>> \in Overlay(d, ops)[j - 1].deleted

AdmissibleOps == {op \in Operations : Admissible(op)}
BatchOps == {op \in AdmissibleOps : op.table \in BatchTables}
Batches == SeqOf(BatchOps, MaxBatch) \ {<<>>}
AdmissibleBatch(d, ops) == Reinserts \/ ~Reinserting(d, ops)

------------------------------------------------------------------------------
(* The state machine.                                                      *)

Init ==
  /\ db = [t \in Table |-> <<>>]
  /\ failures = NewEngine
  /\ outcome = "none"

\* Every call asks should_fail first; only `pass` goes on to the store.
Call(subject, result) ==
  LET verdict == ShouldFail(failures, <<"db.commit", subject>>) IN
  /\ failures' = Observed(failures, <<"db.commit", subject>>)
  /\ outcome' = IF verdict # "pass" THEN verdict ELSE IF result.ok THEN "ok" ELSE "refused"
  /\ db' = IF verdict # "pass" THEN db ELSE result.db

Insert(op) == op.kind = "insert" /\ Call(op.table, InsertInto(db, op.table, op.row))
Update(op) == op.kind = "update" /\ Call(op.table, UpdateIn(db, op.table, op.id, op.row))
Delete(op) == op.kind = "delete" /\ Call(op.table, DeleteFrom(db, <<op.table, op.id>>))

\* One failure check for the batch, on its first operation's table.
Commit(ops) == Call(ops[1].table, CommitBatch(db, ops))

Next ==
  \/ \E op \in AdmissibleOps : Insert(op) \/ Update(op) \/ Delete(op)
  \/ \E ops \in Batches : AdmissibleBatch(db, ops) /\ Commit(ops)

Spec == Init /\ [][Next]_vars

----------------------------------------------------------------------------
(***************************************************************************)
(* What the simulated store promises: the constraints the migrations put   *)
(* on the real schema hold in it, and a call is all or nothing.            *)
(***************************************************************************)

\* A reference that is not null names a row that exists, after any series of
\* inserts, replacements, cascades and batches (validate_write, plan_delete).
RefIntegrity(d) ==
  \A r \in References : \A row \in RowSet(d, r.table) :
    row.refs[r.field] \in Ids(d, r.target) \cup {NoRef}

\* No two rows of a table have the same id: an insert of a taken id is refused
\* and a batch never leaves a copy behind.
IdsUnique(d) ==
  \A t \in Table : \A i, j \in DOMAIN d[t] : d[t][i].id = d[t][j].id => i = j

\* A `unique` reference column holds a value once, also after updates.
RefsUnique(d) ==
  \A r \in {x \in References : x.unique} : \A i, j \in DOMAIN d[r.table] :
    (/\ d[r.table][i].refs[r.field] = d[r.table][j].refs[r.field]
     /\ d[r.table][i].refs[r.field] # NoRef) => i = j

\* What the generated migrations declare (foreign keys, primary keys, unique
\* columns) holds of the simulated tables after any series of calls, so that a
\* scenario sees the refusals the real database would give.
Sound(d) == RefIntegrity(d) /\ IdsUnique(d) /\ RefsUnique(d)
ConstraintsHold == Sound(db)

\* The rows that have to go with k: the smallest set of rows holding k and
\* every row that refers to one of its members through a cascading reference.
Existing(d) == {k \in Keys : k[2] \in Ids(d, k[1])}
ClosedUnderCascade(d, S) ==
  \A r \in {x \in References : x.cascade} : \A row \in RowSet(d, r.table) :
    <<r.target, row.refs[r.field]>> \in S => <<r.table, row.id>> \in S
CascadeClosure(d, k) ==
  LET closed == {S \in SUBSET Existing(d) : k \in S /\ ClosedUnderCascade(d, S)}
  IN {x \in Existing(d) : \A S \in closed : x \in S}

\* A restricting reference points at a row of S.
Restricted(d, S) ==
  \E r \in References : ~r.cascade /\ \E x \in S : x[1] = r.target /\ Dependents(d, r, x) # {}

\* db_delete_checked removes exactly that closure, and refuses exactly when a
\* restricting reference points into it.
DeleteIsTheClosure ==
  \A k \in Existing(db) :
    LET gone == CascadeClosure(db, k)
        result == DeleteFrom(db, k)
    IN IF Restricted(db, gone) THEN ~result.ok
       ELSE result.ok /\ result.db = Retain(db, gone)

\* Running the operations of a batch one call at a time.
OneCall(d, op) ==
  CASE op.kind = "insert" -> InsertInto(d, op.table, op.row)
    [] op.kind = "update" -> UpdateIn(d, op.table, op.id, op.row)
    [] op.kind = "delete" -> DeleteFrom(d, <<op.table, op.id>>)

OneAtATime(d, ops) ==
  LET o[n \in 0..Len(ops)] ==
        IF n = 0 THEN Accept(d)
        ELSE LET before == o[n - 1] IN
             IF before.ok THEN OneCall(before.db, ops[n]) ELSE before
  IN o[Len(ops)]

\* A batch is all or nothing: one that commits leaves what its operations would
\* have left one after the other, although it writes first and deletes last, and
\* one that is refused, even by its last operation, leaves every table alone.
BatchIsSequential ==
  \A ops \in Batches : AdmissibleBatch(db, ops) =>
    LET result == CommitBatch(db, ops)
        single == OneAtATime(db, ops)
    IN IF result.ok THEN single.ok /\ result.db = single.db ELSE result.db = db
=============================================================================
