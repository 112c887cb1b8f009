------------------------------- MODULE Lower -------------------------------
(***************************************************************************)
(* The lowering of a checked handler body, shared by the backends.  An     *)
(* "expression" host (Rust) nests `if`, `match` and database calls as      *)
(* values; a "statement" host (Python, Go, TypeScript, Java) has each of   *)
(* them end in a destination: an assignment, a return, or nothing.  Both   *)
(* lower every other expression as a scalar, and a scalar may hold none of *)
(* the four block-shaped forms: the code panics there (Unbuilt).           *)
(*                                                                         *)
(* The parameters are the methods of the HostSyntax trait: a backend       *)
(* instantiates this module with its own.  `mode` says how a database call *)
(* is executed: "plain" on its own, "tx" on the transaction held, or       *)
(* "batching" for the operations of a simulated transaction.               *)
(***************************************************************************)
EXTENDS HostSyntax

CONSTANTS
  Orientation,
  Literal(_), FieldAccess(_, _), Index(_, _), UuidNew, TimestampNow,
  EnumLiteral(_, _), ValueForRecordField(_, _), RecordCons(_, _, _), Binary(_, _, _, _, _), Unary(_, _),
  IfExpr(_, _, _), MatchExpr(_, _), DbInsertExpr(_, _, _), DbUpdateExpr(_, _, _, _),
  DbDeleteExpr(_, _, _), QueryExpr(_, _, _, _), LetBinding(_, _), WrapTail(_, _), UnitLiteral,
  TransactionExpr(_, _), EndWorldBatch(_),
  IfTail(_, _, _), MatchTail(_, _), DbInsertTail(_, _, _, _), DbUpdateTail(_, _, _, _, _),
  DbDeleteTail(_, _, _, _), QueryTail(_, _, _, _, _), Assign(_, _), DiscardStmt(_), EmptyBlockStmt,
  TransactionStmt(_),
  ReturnStmt(_), FailStmt(_, _), PublishStmt(_, _, _),
  DbGet(_, _), CacheGet(_), CacheSet(_, _, _), CacheDelete(_), ObjectStorePut(_, _, _),
  ObjectStoreGet(_), ObjectStoreDelete(_), ObjectStoreList(_), EmailSend(_, _, _),
  SearchIndex(_, _, _), SearchQuery(_), HttpCall(_, _, _),
  CallTail(_, _, _)         \* the tails of these twelve, db_get_tail and the others

\* A parameter keeps its name; the let of slot n is called v<n>, counting from 0.
LocalName(ps, slot) ==
  IF slot <= Len(ps) THEN ps[slot].name ELSE "v" \o ToString(slot - 1)

Writes == {"insert", "update", "delete"}
BlockShaped(h) ==
  \/ h.k \in {"if", "match", "query"}
  \/ h.k = "verb" /\ h.cap = "db" /\ h.verb \in Writes

\* An enum comparison and a match name the enum after the field it is read from.
NamesEnum(h) == h.k = "field" /\ h.e.ty.k = "Record" /\ h.ty.k = "Enum"

----------------------------------------------------------------------------
(* Scalars. *)

RECURSIVE LowerScalar(_, _)

LowerAll(ps, hs) == [i \in DOMAIN hs |-> LowerScalar(ps, hs[i])]

LowerField(ps, f) ==
  [name |-> f.name,
   value |-> IF f.value.k = "variant" THEN EnumLiteral(TRUE, f.value)
             ELSE ValueForRecordField(LowerScalar(ps, f.value), f.value)]

LowerCons(ps, h) ==
  RecordCons(h.ty.name, [i \in DOMAIN h.fields |-> LowerField(ps, h.fields[i])],
             IF h.base = 0 THEN Nothing ELSE Var(LocalName(ps, h.base)))

LowerBinary(ps, h) ==
  Binary(h.op, LowerScalar(ps, h.lhs),
         IF h.op \in {"==", "!="} /\ h.rhs.k = "variant" THEN EnumLiteral(NamesEnum(h.lhs), h.rhs)
         ELSE LowerScalar(ps, h.rhs),
         h.lhs.ty, h.rhs.ty)

LowerVerb(ps, h) ==
  LET a == LowerAll(ps, h.args)
      ty == h.args[Len(a)].ty
      call == <<h.cap, h.verb>>
  IN  CASE call = <<"db", "get">>              -> DbGet(h.on, a[1])
        [] call = <<"cache", "get">>           -> CacheGet(a[1])
        [] call = <<"cache", "set">>           -> CacheSet(a[1], a[2], ty)
        [] call = <<"cache", "delete">>        -> CacheDelete(a[1])
        [] call = <<"object_store", "put">>    -> ObjectStorePut(a[1], a[2], ty)
        [] call = <<"object_store", "get">>    -> ObjectStoreGet(a[1])
        [] call = <<"object_store", "delete">> -> ObjectStoreDelete(a[1])
        [] call = <<"object_store", "list">>   -> ObjectStoreList(a[1])
        [] call = <<"email", "send">>          -> EmailSend(a[1], a[2], a[3])
        [] call = <<"search", "index">>        -> SearchIndex(a[1], a[2], ty)
        [] call = <<"search", "query">>        -> SearchQuery(a[1])
        [] call = <<"external_http", "request">> -> HttpCall(a[1], a[2], ty)

\* Only the value of a term is lowered; a bare variant or bool is bound as it is.
LowerPredicate(ps, h) ==
  [i \in DOMAIN h.terms |->
     [h.terms[i] EXCEPT !.value = IF @.k = "variant" THEN Variant(@) ELSE LowerScalar(ps, @)]]

LowerScalar(ps, h) ==
  CASE BlockShaped(h)    -> Unbuilt
    [] h.k = "local"     -> Var(LocalName(ps, h.slot))
    [] h.k = "lit"       -> Literal(h)
    [] h.k = "builtin"   -> IF h.v = "Uuid" THEN UuidNew ELSE TimestampNow
    [] h.k = "variant"   -> EnumLiteral(FALSE, h)
    [] h.k = "field"     -> FieldAccess(LowerScalar(ps, h.e), h.field)
    [] h.k = "index"     -> Index(LowerScalar(ps, h.lhs), LowerScalar(ps, h.rhs))
    [] h.k = "cons"      -> LowerCons(ps, h)
    [] h.k = "binary"    -> LowerBinary(ps, h)
    [] h.k = "unary"     -> Unary(h.op, LowerScalar(ps, h.e))
    [] h.k = "verb"      -> LowerVerb(ps, h)

\* The statements up to the first that diverges.
Reachable(stmts) ==
  LET ends == {i \in DOMAIN stmts : Diverges(stmts[i])}
  IN  IF ends = {} THEN stmts
      ELSE SubSeq(stmts, 1, CHOOSE i \in ends : \A j \in ends : i <= j)

----------------------------------------------------------------------------
(* The expression orientation. *)

RECURSIVE LowerAny(_, _, _), LowerBlockExpr(_, _, _, _)

LowerArms(ps, arms, mode) ==
  [i \in DOMAIN arms |-> [label |-> arms[i].label,
                          body |-> LowerBlockExpr(ps, arms[i].body, "plain", mode)]]

LowerAny(ps, h, mode) ==
  CASE h.k = "if"    -> IfExpr(LowerScalar(ps, h.cond), LowerBlockExpr(ps, h.then, "plain", mode),
                               LowerBlockExpr(ps, h.else, "plain", mode))
    [] h.k = "match" -> IF ~NamesEnum(h.e) THEN Unbuilt
                        ELSE MatchExpr(LowerScalar(ps, h.e), LowerArms(ps, h.arms, mode))
    [] h.k = "query" -> QueryExpr(h.verb, h.on, LowerPredicate(ps, h), mode)
    [] h.k = "verb" /\ h.verb = "insert" ->
         DbInsertExpr(h.on, LowerScalar(ps, h.args[1]), mode)
    [] h.k = "verb" /\ h.verb = "update" ->
         DbUpdateExpr(h.on, LowerScalar(ps, h.args[1]), LowerScalar(ps, h.args[2]), mode)
    [] h.k = "verb" /\ h.cap = "db" /\ h.verb = "delete" ->
         DbDeleteExpr(h.on, LowerScalar(ps, h.args[1]), mode)
    [] OTHER         -> LowerScalar(ps, h)

\* The body of a transaction is lowered twice: for a simulated world, whose writes are
\* queued and committed as one batch, and for the database.
LowerStmtExpr(ps, s, wrap, mode) ==
  CASE s.k = "let"     -> IF s.e.ty = Never THEN Do(LowerAny(ps, s.e, mode))
                          ELSE LetBinding(LocalName(ps, s.slot), LowerAny(ps, s.e, mode))
    [] s.k = "expr"    -> WrapTail(LowerAny(ps, s.e, mode), wrap)
    [] s.k = "return"  -> ReturnStmt(IF s.e = Nothing THEN Nothing ELSE LowerAny(ps, s.e, mode))
    [] s.k = "fail"    -> FailStmt(s.error, [i \in DOMAIN s.args |-> LowerAny(ps, s.args[i], mode)])
    [] s.k = "publish" -> PublishStmt(s.stream, LowerAny(ps, s.e, mode), s.e.ty)
    [] s.k = "tx"      -> TransactionExpr(EndWorldBatch(LowerBlockExpr(ps, s.body, "none", "batching")),
                                          LowerBlockExpr(ps, s.body, "none", "tx"))

LowerBlockExpr(ps, stmts, wrap, mode) ==
  LET kept == Reachable(stmts)
  IN  IF stmts = <<>> THEN <<WrapTail(UnitLiteral, IF wrap = "wrapped" THEN wrap ELSE "plain")>>
      ELSE [i \in DOMAIN kept |->
              LowerStmtExpr(ps, kept[i], IF i = Len(stmts) THEN wrap ELSE "none", mode)]

LowerBodyExpr(ps, stmts) == LowerBlockExpr(ps, stmts, "wrapped", "plain")

----------------------------------------------------------------------------
(* The statement orientation. *)

RECURSIVE LowerTail(_, _, _, _), LowerBlockStmt(_, _, _, _)

LowerTail(ps, h, dest, mode) ==
  CASE h.k = "if"    -> IfTail(LowerScalar(ps, h.cond), LowerBlockStmt(ps, h.then, dest, mode),
                               LowerBlockStmt(ps, h.else, dest, mode))
    [] h.k = "match" -> MatchTail(LowerScalar(ps, h.e),
                                  [i \in DOMAIN h.arms |->
                                     [label |-> h.arms[i].label,
                                      body |-> LowerBlockStmt(ps, h.arms[i].body, dest, mode)]])
    [] h.k = "query" -> QueryTail(h.verb, h.on, LowerPredicate(ps, h), dest, mode)
    [] h.k = "verb" /\ h.verb = "insert" ->
         DbInsertTail(h.on, LowerScalar(ps, h.args[1]), dest, mode)
    [] h.k = "verb" /\ h.verb = "update" ->
         DbUpdateTail(h.on, LowerScalar(ps, h.args[1]), LowerScalar(ps, h.args[2]), dest, mode)
    [] h.k = "verb" /\ h.cap = "db" /\ h.verb = "delete" ->
         DbDeleteTail(h.on, LowerScalar(ps, h.args[1]), dest, mode)
    [] h.k = "verb" /\ ~BlockShaped(h) -> CallTail(h, LowerVerb(ps, h), dest)
    [] OTHER         -> ApplyDest(dest, LowerScalar(ps, h), Assign, ReturnStmt, DiscardStmt)

LowerStmt(ps, s, mode) ==
  CASE s.k = "let"     -> LowerTail(ps, s.e, AssignTo(LocalName(ps, s.slot)), mode)
    [] s.k = "expr"    -> LowerTail(ps, s.e, Discard, mode)
    [] s.k = "return"  -> IF s.e = Nothing THEN <<ReturnStmt(Nothing)>> ELSE LowerTail(ps, s.e, ReturnIt, mode)
    [] s.k = "fail"    -> <<FailStmt(s.error, LowerAll(ps, s.args))>>
    [] s.k = "publish" -> <<PublishStmt(s.stream, LowerScalar(ps, s.e), s.e.ty)>>
    [] s.k = "tx"      -> TransactionStmt(LowerBlockStmt(ps, s.body, Discard, "tx"))

\* A block that ends with an expression gives its value to dest.
LowerBlockStmt(ps, stmts, dest, mode) ==
  LET kept == Reachable(stmts)
      Lines(i) == IF i = Len(stmts) /\ kept[i].k = "expr" /\ kept[i].e.ty # Never
                  THEN LowerTail(ps, kept[i].e, dest, mode)
                  ELSE LowerStmt(ps, kept[i], mode)
  IN  IF stmts = <<>> THEN EmptyBlockStmt ELSE FlattenSeq([i \in DOMAIN kept |-> Lines(i)])

LowerBodyStmt(ps, stmts) == LowerBlockStmt(ps, stmts, Discard, "plain")

LowerBody(ps, stmts) ==
  IF Orientation = "expression" THEN LowerBodyExpr(ps, stmts) ELSE LowerBodyStmt(ps, stmts)

----------------------------------------------------------------------------
(* Go, TypeScript and Java, where a name belongs to a block, each collect the names that more *)
(* than one branch assigns: those of a let whose value is an `if` or a `match`.               *)

RECURSIVE BranchingLetsOf(_, _), BranchingLetsIn(_, _)
BranchingLetsOf(ps, stmts) ==
  UNION {IF s.k = "tx" THEN BranchingLetsOf(ps, s.body)
         ELSE IF s.k \in {"let", "expr", "return", "publish"}
         THEN (IF s.k = "let" /\ s.e.k \in {"if", "match"} THEN {LocalName(ps, s.slot)} ELSE {})
                \cup BranchingLetsIn(ps, s.e)
         ELSE {} : s \in Range(stmts)}
BranchingLetsIn(ps, e) ==
  CASE e.k = "if"    -> BranchingLetsOf(ps, e.then) \cup BranchingLetsOf(ps, e.else)
    [] e.k = "match" -> UNION {BranchingLetsOf(ps, a.body) : a \in Range(e.arms)}
    [] OTHER         -> {}
=============================================================================
