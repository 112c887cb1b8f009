------------------------------- MODULE HostTs -------------------------------
(***************************************************************************)
(* TypeScript: a statement host.  Every call asks this.state.world first,  *)
(* which is there in a simulation only.  A transaction holds a connection  *)
(* of its own; this is the Postgres and MySQL text, SQLite has one         *)
(* connection for all.                                                     *)
(***************************************************************************)
EXTENDS HostSyntax

Orientation == "statement"

Literal(h) == h
FieldAccess(e, field) == Select(e, field)
Index(base, key) == At(base, key)
UuidNew == NewUuid
TimestampNow == Now
EnumLiteral(named, h) == Variant(h)                        \* a string
ValueForRecordField(v, original) == v
RecordCons(name, fields, base) == Built(name, fields, base)        \* a spread

\* A template literal shows both operands; Math.trunc(a / b) has a value for every b; and
\* `===` compares what is an object by reference.
ByReference(ty) == ty.k \in {"Record", "Timestamp", "Json", "List"}
Binary(op, l, r, lty, rty) ==
  Operator(op, CASE op = "+" /\ Str \in {lty, rty} -> "display"
                 [] op = "/"                       -> "truncated"
                 [] op \in {"==", "!="} /\ ByReference(lty) -> "identity"
                 [] OTHER                          -> "native", l, r)
Unary(op, e) == Prefixed(op, e)

----------------------------------------------------------------------------
(* Statements. *)

Assign(name, e) == SetOrLet(name, e)               \* = or const
ReturnStmt(e) == Return(e)
DiscardStmt(e) == Do(e)                            \* void (e)
EmptyBlockStmt == <<>>
FailStmt(error, args) == Fail(error, args)
PublishStmt(stream, e, ty) == Publish(stream, e)
Apply(dest, e) == ApplyDest(dest, e, Assign, ReturnStmt, DiscardStmt)

IfTail(c, then, else) == <<Do(Branch(c, then, else))>>
MatchTail(e, arms) == <<Do(Switch(e, arms))>>

----------------------------------------------------------------------------
(* The database. *)

Handle(mode) == IF mode = "tx" THEN "tx" ELSE "pool"
WhereClause(terms) == ComparedBy("sql", terms)
\* Number(..) on both sides of an ordering: no order where it is not a number.
WorldPredicate(terms) == ComparedBy("numbers", terms)
Written(verb, table, args, mode) ==
  Guard(Db("world", verb, table, args, <<>>), Db(Handle(mode), verb, table, args, <<>>))

\* The value is computed once, into a constant of its own, and that goes where the row goes.
DbInsertTail(table, v, dest, mode) == Apply(dest, Written("insert", table, <<v>>, mode))
DbUpdateTail(table, key, v, dest, mode) == Apply(dest, Written("update", table, <<key, v>>, mode))
DbDeleteTail(table, key, dest, mode) == Apply(dest, Written("delete", table, <<key>>, mode))
QueryTail(verb, table, terms, dest, mode) ==
  Apply(dest, Guard(Db("world", verb, table, <<>>, WorldPredicate(terms)),
                    Db(Handle(mode), verb, table, <<>>, WhereClause(terms))))

DbGet(table, key) ==
  Guard(Db("world", "get", table, <<key>>, <<>>), Db("pool", "get", table, <<key>>, <<>>))

\* try, commit, catch: roll back and throw again, for the database or for the world's batch.
TransactionStmt(lines) == <<Twofold(<<Batch("world", lines)>>, <<Held(lines)>>)>>

----------------------------------------------------------------------------
(* The other services. *)

JsonBody(e, ty) == Payload(IF ty.k \in {"Record", "Json"} THEN "json" ELSE "wrapped", e)
ObjectOf(e, ty) == Payload(IF ty.k = "Record" THEN "json" ELSE "text", e)

CacheGet(key) == Guarded("cache", "get", <<key>>)
CacheSet(key, v, ty) == Guarded("cache", "set", <<key, Payload("json", v)>>)
CacheDelete(key) == Guarded("cache", "delete", <<key>>)
ObjectStorePut(key, v, ty) == Guarded("object_store", "put", <<key, ObjectOf(v, ty)>>)
ObjectStoreGet(key) == Guarded("object_store", "get", <<key>>)
ObjectStoreDelete(key) == Guarded("object_store", "delete", <<key>>)
ObjectStoreList(prefix) == Guarded("object_store", "list", <<prefix>>)
EmailSend(to, subject, text) == Guarded("email", "send", <<to, subject, text>>)
SearchIndex(id, doc, ty) == Guarded("search", "index", <<id, JsonBody(doc, ty)>>)
SearchQuery(query) == Guarded("search", "query", <<query>>)
HttpCall(url, v, ty) == Guarded("external_http", "request", <<url, JsonBody(v, ty)>>)

CallTail(h, e, dest) == Apply(dest, e)

----------------------------------------------------------------------------

Walker ==
  INSTANCE Lower WITH
    IfExpr <- Unreached3, MatchExpr <- Unreached2, DbInsertExpr <- Unreached3,
    DbUpdateExpr <- Unreached4, DbDeleteExpr <- Unreached3, QueryExpr <- Unreached4,
    LetBinding <- Unreached2, WrapTail <- Unreached2, UnitLiteral <- Unbuilt,
    TransactionExpr <- Unreached2, EndWorldBatch <- Unreached1

BranchingLets(params, hir) == Walker!BranchingLetsOf(params, hir)

Render(params, hir) ==
  [body |-> <<Hoist(BranchingLets(params, hir))>> \o Walker!LowerBody(params, hir),
   needs |-> Scan(hir)]
=============================================================================
