------------------------------ MODULE HostJava ------------------------------
(***************************************************************************)
(* Java: a statement host.  A database call asks for the world before it   *)
(* asks JdbcClient, which takes part in the transaction that is open; the  *)
(* objects of the other services ask for the world themselves, but for the *)
(* cache, which is asked here.                                             *)
(***************************************************************************)
EXTENDS HostSyntax

Orientation == "statement"

Literal(h) == h
FieldAccess(e, field) == Select(e, field)          \* an accessor method
Index(base, key) == At(base, key)
UuidNew == NewUuid
TimestampNow == Now
EnumLiteral(named, h) == IF named THEN Variant(h) ELSE Unbuilt
ValueForRecordField(v, original) == v
RecordCons(name, fields, base) == Built(name, fields, base)

\* A string and anything: its text.  `==` compares references, but for numbers, booleans and
\* the constants of an enum.
ByReference(ty) == ty.k \notin {"Int", "Float", "Bool", "Enum"}
Binary(op, l, r, lty, rty) ==
  Operator(op, CASE op = "+" /\ Str \in {lty, rty} -> "display"
                 [] op \in {"==", "!="} /\ ByReference(lty) -> "identity"
                 [] OTHER                          -> "native", l, r)
Unary(op, e) == Prefixed(op, e)

----------------------------------------------------------------------------
(* Statements. *)

Assign(name, e) == SetOrLet(name, e)               \* = or var
ReturnStmt(e) == Return(e)
DiscardStmt(e) == Do(e)
EmptyBlockStmt == <<>>
FailStmt(error, args) == Fail(error, args)
PublishStmt(stream, e, ty) == Publish(stream, e)
Apply(dest, e) == ApplyDest(dest, e, Assign, ReturnStmt, DiscardStmt)

IfTail(c, then, else) == <<Do(Branch(c, then, else))>>
MatchTail(e, arms) == <<Do(Switch(e, arms))>>

----------------------------------------------------------------------------
(* The database. *)

Jdbc == "jdbc"
WhereClause(terms) == ComparedBy("sql", terms)
WorldPredicate(terms) == ComparedBy("values", terms)
Written(verb, table, args) ==
  Guard(Db("world", verb, table, args, <<>>), Db(Jdbc, verb, table, args, <<>>))

DbInsertTail(table, v, dest, mode) == Apply(dest, Written("insert", table, <<v>>))
DbUpdateTail(table, key, v, dest, mode) == Apply(dest, Written("update", table, <<key, v>>))
DbDeleteTail(table, key, dest, mode) == Apply(dest, Written("delete", table, <<key>>))
QueryTail(verb, table, terms, dest, mode) ==
  Apply(dest, Guard(Db("world", verb, table, <<>>, WorldPredicate(terms)),
                    Db(Jdbc, verb, table, <<>>, WhereClause(terms))))

\* Inside an expression there is no guard: that is in the tail.
DbGet(table, key) == Db(Jdbc, "get", table, <<key>>, <<>>)
DbGetTail(e, dest) == Apply(dest, Guard([e EXCEPT !.via = "world"], e))

\* The body is a Runnable, run between begin and commit of the world's batch, or by the
\* transaction template, which rolls back when it throws.
TransactionStmt(lines) == <<Twofold(<<Batch("world", lines)>>, <<Held(lines)>>)>>

----------------------------------------------------------------------------
(* The other services.  Schemas.toJson takes any value. *)

JsonBody(e, ty) == Payload("json", e)
Injected(cap, verb, args) == Ask("injected", cap, verb, args)

CacheGet(key) == Ask("service", "cache", "get", <<key>>)
CacheSet(key, v, ty) == Ask("service", "cache", "set", <<key, JsonBody(v, ty)>>)
CacheDelete(key) == Ask("service", "cache", "delete", <<key>>)
CacheGuarded(e) == Guard([e EXCEPT !.via = "world"], e)
CacheGetTail(e, dest) == Apply(dest, CacheGuarded(e))
CacheSetTail(e, dest) == <<Do(CacheGuarded(e))>>           \* dest is ignored
CacheDeleteTail(e, dest) == <<Do(CacheGuarded(e))>>
ObjectStorePut(key, v, ty) == Injected("object_store", "put", <<key, JsonBody(v, ty)>>)
ObjectStoreGet(key) == Injected("object_store", "get", <<key>>)
ObjectStoreDelete(key) == Injected("object_store", "delete", <<key>>)
ObjectStoreList(prefix) == Injected("object_store", "list", <<prefix>>)
EmailSend(to, subject, text) == Injected("email", "send", <<to, subject, text>>)
SearchIndex(id, doc, ty) == Injected("search", "index", <<id, JsonBody(doc, ty)>>)
SearchQuery(query) == Injected("search", "query", <<query>>)
HttpCall(url, v, ty) == Injected("external_http", "request", <<url, JsonBody(v, ty)>>)

CallTail(h, e, dest) ==
  CASE h.cap = "db"                          -> DbGetTail(e, dest)
    [] h.cap = "cache" /\ h.verb = "get"     -> CacheGetTail(e, dest)
    [] h.cap = "cache" /\ h.verb = "set"     -> CacheSetTail(e, dest)
    [] h.cap = "cache" /\ h.verb = "delete"  -> CacheDeleteTail(e, dest)
    [] OTHER                                 -> Apply(dest, e)

----------------------------------------------------------------------------

Walker ==
  INSTANCE Lower WITH
    IfExpr <- Unreached3, MatchExpr <- Unreached2, DbInsertExpr <- Unreached3,
    DbUpdateExpr <- Unreached4, DbDeleteExpr <- Unreached3, QueryExpr <- Unreached4,
    LetBinding <- Unreached2, WrapTail <- Unreached2, UnitLiteral <- Unbuilt,
    TransactionExpr <- Unreached2, EndWorldBatch <- Unreached1

BranchingLets(params, hir) == Walker!BranchingLetsOf(params, hir)

\* A class whose body has a transaction anywhere gets the template.
RECURSIVE BodyHasTransaction(_)
BodyHasTransaction(stmts) ==
  \E s \in Range(stmts) :
    \/ s.k = "tx"
    \/ s.k \in {"let", "expr", "return"} /\ s.e.k = "if" /\ (BodyHasTransaction(s.e.then)
                                                            \/ BodyHasTransaction(s.e.else))
    \/ s.k \in {"let", "expr", "return"} /\ s.e.k = "match"
         /\ \E a \in Range(s.e.arms) : BodyHasTransaction(a.body)

Render(params, hir) ==
  [body |-> <<Hoist(BranchingLets(params, hir))>> \o Walker!LowerBody(params, hir),
   needs |-> Scan(hir) \cup (IF BodyHasTransaction(hir) THEN {"tx"} ELSE {})]
=============================================================================
