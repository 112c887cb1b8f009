------------------------------- MODULE HostGo -------------------------------
(***************************************************************************)
(* Go: a statement host.  A call that may fail makes a pair of a value and *)
(* an error, which is a statement of its own: such a call inside another   *)
(* expression does not compile.  A name belongs to the block it is first   *)
(* assigned in, so the names that an `if` or a `match` gives a value to    *)
(* are declared above the body.  st.World is there in a simulation only.   *)
(***************************************************************************)
EXTENDS HostSyntax

Orientation == "statement"

Literal(h) == h
FieldAccess(e, field) == Select(e, field)
Index(base, key) == At(base, key)
UuidNew == NewUuid
TimestampNow == Now
EnumLiteral(named, h) == IF named THEN Variant(h) ELSE Unbuilt
ValueForRecordField(v, original) == v
RecordCons(name, fields, base) == Built(name, fields, base)        \* a copy, then assignments

\* A string and something else have no sum.
Binary(op, l, r, lty, rty) ==
  IF op = "+" /\ lty # rty THEN Refused ELSE Operator(op, "native", l, r)
Unary(op, e) == Prefixed(op, e)

----------------------------------------------------------------------------
(* Statements. *)

Assign(name, e) == SetOrLet(name, e)               \* = or :=
ReturnStmt(e) == Return(e)
DiscardStmt(e) == Do(e)
EmptyBlockStmt == <<>>
FailStmt(error, args) == Fail(error, args)
PublishStmt(stream, e, ty) == Publish(stream, e)
Apply(dest, e) == ApplyDest(dest, e, Assign, ReturnStmt, DiscardStmt)

IfTail(c, then, else) == <<Do(Branch(c, then, else))>>
MatchTail(e, arms) == <<Do(Switch(e, arms))>>

\* The error is checked and returned, the value goes on.
FallibleTail(e, dest) == Apply(dest, e.e)

----------------------------------------------------------------------------
(* The database. *)

Handle(mode) == IF mode = "tx" THEN "tx" ELSE "pool"
WhereClause(terms) == ComparedBy("sql", terms)
WorldPredicate(terms) == ComparedBy("values", terms)
Written(verb, table, args, mode) ==
  Guard(Db("world", verb, table, args, <<>>), Db(Handle(mode), verb, table, args, <<>>))

DbInsertTail(table, v, dest, mode) == Apply(dest, Written("insert", table, <<v>>, mode))
DbUpdateTail(table, key, v, dest, mode) ==
  FallibleTail(Pair(Written("update", table, <<key, v>>, mode)), dest)
DbDeleteTail(table, key, dest, mode) == Apply(dest, Written("delete", table, <<key>>, mode))
QueryTail(verb, table, terms, dest, mode) ==
  Apply(dest, Guard(Db("world", verb, table, <<>>, WorldPredicate(terms)),
                    Db(Handle(mode), verb, table, <<>>, WhereClause(terms))))

DbGet(table, key) ==
  Pair(Guard(Db("world", "get", table, <<key>>, <<>>), Db("pool", "get", table, <<key>>, <<>>)))

\* Begin, defer the rollback, the body, commit: of the database or of the world's batch.
TransactionStmt(lines) == <<Twofold(<<Batch("world", lines)>>, <<Held(lines)>>)>>

----------------------------------------------------------------------------
(* The other services. *)

JsonBody(e, ty) == Payload(IF ty.k \in {"Record", "Json"} THEN "json" ELSE "wrapped", e)
Call(cap, verb, args) == Pair(Guarded(cap, verb, args))

CacheGet(key) == Call("cache", "get", <<key>>)
\* `return cache.Set(..).Err(), nil`: the error is the value, and nothing failed.
CacheSet(key, v, ty) ==
  LET args == <<key, Payload("json", v)>>
  IN  Pair(Guard(Ask("world", "cache", "set", args), Lost(Ask("service", "cache", "set", args))))
CacheDelete(key) == Call("cache", "delete", <<key>>)
ObjectStorePut(key, v, ty) == Call("object_store", "put", <<key, JsonBody(v, ty)>>)
ObjectStoreGet(key) == Call("object_store", "get", <<key>>)
ObjectStoreDelete(key) == Call("object_store", "delete", <<key>>)
ObjectStoreList(prefix) == Call("object_store", "list", <<prefix>>)
EmailSend(to, subject, text) == Call("email", "send", <<to, subject, text>>)
SearchIndex(id, doc, ty) == Call("search", "index", <<id, JsonBody(doc, ty)>>)
SearchQuery(query) == Call("search", "query", <<query>>)
HttpCall(url, v, ty) == Call("external_http", "request", <<url, JsonBody(v, ty)>>)

CallTail(h, e, dest) == FallibleTail(e, dest)

----------------------------------------------------------------------------

Walker ==
  INSTANCE Lower WITH
    IfExpr <- Unreached3, MatchExpr <- Unreached2, DbInsertExpr <- Unreached3,
    DbUpdateExpr <- Unreached4, DbDeleteExpr <- Unreached3, QueryExpr <- Unreached4,
    LetBinding <- Unreached2, WrapTail <- Unreached2, UnitLiteral <- Unbuilt,
    TransactionExpr <- Unreached2, EndWorldBatch <- Unreached1

BranchingLets(params, hir) == Walker!BranchingLetsOf(params, hir)

Render(params, hir) ==
  [body |-> <<Hoist(BranchingLets(params, hir))>> \o Walker!LowerBody(params, hir),
   needs |-> Scan(hir)]
=============================================================================
