------------------------------ MODULE HostRust ------------------------------
(***************************************************************************)
(* Rust: an expression host.  Every call asks self.world first, which is   *)
(* there in a simulation only; a transaction is written twice, for the     *)
(* world, where its writes are pushed on a list and committed as one       *)
(* batch, and for the database, where they go to the transaction held.     *)
(***************************************************************************)
EXTENDS HostSyntax

Orientation == "expression"

Literal(h) == h
FieldAccess(e, field) == Select(e, field)
Index(base, key) == At(base, key)
UuidNew == NewUuid
TimestampNow == Now

\* An enum is a named type: a variant whose context does not name it is not expected.
EnumLiteral(named, h) == IF named THEN Variant(h) ELSE Unbuilt

ValueForRecordField(v, original) == v         \* a field is cloned
RecordCons(name, fields, base) == Built(name, fields, base)

\* format! shows both operands.
Binary(op, l, r, lty, rty) ==
  Operator(op, IF op = "+" /\ Str \in {lty, rty} THEN "display" ELSE "native", l, r)
Unary(op, e) == Prefixed(op, e)

IfExpr(c, then, else) == Branch(c, then, else)
MatchExpr(e, arms) == Switch(e, arms)

----------------------------------------------------------------------------
(* The database. *)

Executor(mode) == IF mode = "tx" THEN "tx" ELSE "pool"
WhereClause(terms) == ComparedBy("sql", terms)
\* Rows are JSON in the world, where only numbers have an order.
WorldPredicate(terms) == ComparedBy("numbers", terms)

Written(verb, table, args, mode) ==
  IF mode = "batching" THEN Db("queue", verb, table, args, <<>>)
  ELSE Guard(Db("world", verb, table, args, <<>>), Db(Executor(mode), verb, table, args, <<>>))

DbInsertExpr(table, v, mode) == Written("insert", table, <<v>>, mode)
DbUpdateExpr(table, key, v, mode) == Written("update", table, <<key, v>>, mode)
DbDeleteExpr(table, key, mode) == Written("delete", table, <<key>>, mode)

QueryExpr(verb, table, terms, mode) ==
  Guard(Db("world", verb, table, <<>>, WorldPredicate(terms)),
        Db(Executor(mode), verb, table, <<>>, WhereClause(terms)))

DbGet(table, key) ==
  Guard(Db("world", "get", table, <<key>>, <<>>), Db("pool", "get", table, <<key>>, <<>>))

TransactionExpr(world, real) == Twofold(world, <<Held(real)>>)
EndWorldBatch(body) == <<Batch("host", body)>>

----------------------------------------------------------------------------
(* Statements. *)

LetBinding(name, e) == Let(name, e)
UnitLiteral == [k |-> "unit"]
WrapTail(e, wrap) == IF wrap = "wrapped" THEN Return(e) ELSE Do(e)
ReturnStmt(e) == Return(e)
FailStmt(error, args) == Fail(error, args)
PublishStmt(stream, e, ty) == Publish(stream, e)

----------------------------------------------------------------------------
(* The other services. *)

JsonValue(e, ty) == Payload(IF ty.k \in {"Record", "Json"} THEN "json" ELSE "wrapped", e)
ObjectOf(e, ty) == Payload(IF ty.k = "Record" THEN "json" ELSE "text", e)

CacheGet(key) == Guarded("cache", "get", <<key>>)
CacheSet(key, v, ty) == Guarded("cache", "set", <<key, Payload("json", v)>>)
CacheDelete(key) == Guarded("cache", "delete", <<key>>)
ObjectStorePut(key, v, ty) == Guarded("object_store", "put", <<key, ObjectOf(v, ty)>>)
ObjectStoreGet(key) == Guarded("object_store", "get", <<key>>)
ObjectStoreDelete(key) == Guarded("object_store", "delete", <<key>>)
ObjectStoreList(prefix) == Guarded("object_store", "list", <<prefix>>)
EmailSend(to, subject, text) == Guarded("email", "send", <<to, subject, text>>)
SearchIndex(id, doc, ty) == Guarded("search", "index", <<id, JsonValue(doc, ty)>>)
SearchQuery(query) == Guarded("search", "query", <<query>>)
HttpCall(url, v, ty) == Guarded("external_http", "request", <<url, JsonValue(v, ty)>>)

----------------------------------------------------------------------------

Walker ==
  INSTANCE Lower WITH
    IfTail <- Unreached3, MatchTail <- Unreached2, DbInsertTail <- Unreached4,
    DbUpdateTail <- Unreached5, DbDeleteTail <- Unreached4, QueryTail <- Unreached5,
    Assign <- Unreached2, DiscardStmt <- Unreached1, EmptyBlockStmt <- Unbuilt,
    TransactionStmt <- Unreached1, CallTail <- Unreached3

Render(params, hir) == [body |-> Walker!LowerBody(params, hir), needs |-> Scan(hir)]
=============================================================================
