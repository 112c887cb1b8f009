----------------------------- MODULE HostPython -----------------------------
(***************************************************************************)
(* Python: a statement host.  The database is one session of the request,  *)
(* which a transaction commits or rolls back; the other services are       *)
(* objects that were constructed as the service or as its fake.            *)
(***************************************************************************)
EXTENDS HostSyntax

Orientation == "statement"

Literal(h) == h
FieldAccess(e, field) == Select(e, field)
Index(base, key) == At(base, key)
UuidNew == NewUuid
TimestampNow == Now
EnumLiteral(named, h) == Variant(h)                \* a string
ValueForRecordField(v, original) == v
RecordCons(name, fields, base) == Built(name, fields, base)

\* Of two operands of which one is a string the other is given to str(); `/` divides exactly.
Binary(op, l, r, lty, rty) ==
  Operator(op, CASE op = "+" /\ lty # rty -> "str"
                 [] op = "/"              -> "exact"
                 [] OTHER                 -> "native", l, r)
Unary(op, e) == Prefixed(op, e)

----------------------------------------------------------------------------
(* Statements.  A name belongs to the function. *)

Assign(name, e) == Set(name, e)
ReturnStmt(e) == Return(e)
DiscardStmt(e) == Do(e)
EmptyBlockStmt == <<>>                             \* pass
FailStmt(error, args) == Fail(error, args)
PublishStmt(stream, e, ty) == Publish(stream, e)
Apply(dest, e) == ApplyDest(dest, e, Assign, ReturnStmt, DiscardStmt)

IfTail(c, then, else) == <<Do(Branch(c, then, else))>>

\* if, elif ...: each test computes the scrutinee again.
RECURSIVE MatchTail(_, _)
MatchTail(e, arms) ==
  IF arms = <<>> THEN <<>>
  ELSE LET is == IF Head(arms).label = "_" THEN [k |-> "lit", n |-> 1, ty |-> Bool]
                 ELSE Operator("==", "native", e, [k |-> "variant", v |-> Head(arms).label])
       IN  <<Do(Branch(is, Head(arms).body, MatchTail(e, Tail(arms))))>>

----------------------------------------------------------------------------
(* The database.  A write on its own is committed; one of a transaction (mode) is not. *)

WhereChain(terms) == ComparedBy("sql", terms)
Session(verb, table, args, terms) == Db("session", verb, table, args, terms)

\* The text of the value is written a second time where the row goes somewhere.
DbInsertTail(table, v, dest, mode) ==
  <<Do(Session("insert", table, <<v>>, <<>>))>>
    \o (IF dest = Discard THEN <<>> ELSE Apply(dest, Again(v)))

DbUpdateTail(table, key, v, dest, mode) == Apply(dest, Session("update", table, <<key, v>>, <<>>))
DbDeleteTail(table, key, dest, mode) == Apply(dest, Session("delete", table, <<key>>, <<>>))
QueryTail(verb, table, terms, dest, mode) == Apply(dest, Session(verb, table, <<>>, WhereChain(terms)))
DbGet(table, key) == Session("get", table, <<key>>, <<>>)

\* try, commit, except: rollback and raise again.
TransactionStmt(lines) == <<Held(lines)>>

----------------------------------------------------------------------------
(* The other services. *)

Injected(cap, verb, args) == Ask("injected", cap, verb, args)
JsonBody(e, ty) == Payload(IF ty.k \in {"Record", "Json"} THEN "json" ELSE "wrapped", e)
ObjectOf(e, ty) == Payload(IF ty.k = "Record" THEN "json" ELSE "text", e)

CacheGet(key) == Injected("cache", "get", <<key>>)
CacheSet(key, v, ty) == Injected("cache", "set", <<key, Payload("json", v)>>)
CacheDelete(key) == Injected("cache", "delete", <<key>>)
ObjectStorePut(key, v, ty) == Injected("object_store", "put", <<key, ObjectOf(v, ty)>>)
ObjectStoreGet(key) == Injected("object_store", "get", <<key>>)
ObjectStoreDelete(key) == Injected("object_store", "delete", <<key>>)
ObjectStoreList(prefix) == Injected("object_store", "list", <<prefix>>)
EmailSend(to, subject, text) == Injected("email", "send", <<to, subject, text>>)
SearchIndex(id, doc, ty) == Injected("search", "index", <<id, JsonBody(doc, ty)>>)
SearchQuery(query) == Injected("search", "query", <<query>>)
HttpCall(url, v, ty) == Injected("external_http", "request", <<url, JsonBody(v, ty)>>)

CallTail(h, e, dest) == Apply(dest, e)

----------------------------------------------------------------------------

Walker ==
  INSTANCE Lower WITH
    IfExpr <- Unreached3, MatchExpr <- Unreached2, DbInsertExpr <- Unreached3,
    DbUpdateExpr <- Unreached4, DbDeleteExpr <- Unreached3, QueryExpr <- Unreached4,
    LetBinding <- Unreached2, WrapTail <- Unreached2, UnitLiteral <- Unbuilt,
    TransactionExpr <- Unreached2, EndWorldBatch <- Unreached1

Render(params, hir) == [body |-> Walker!LowerBody(params, hir), needs |-> Scan(hir)]
=============================================================================
