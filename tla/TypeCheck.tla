----------------------------- MODULE TypeCheck -----------------------------
(***************************************************************************)
(* The handler-body type checker: it resolves every name of a body to a    *)
(* slot of a flat table of locals, every verb to a capability of the       *)
(* service, gives every expression a type, and lowers the body to the      *)
(* typed tree (HIR) that the code generators read.  The first error of a   *)
(* body ends its check.                                                    *)
(*                                                                         *)
(* Syntax, types and HIR nodes are records told apart by their field k.    *)
(* A check threads a scope `sc`:                                           *)
(*   env    what the graph declares: records, tables, streams, capabilities*)
(*   ret    the declared return type                                       *)
(*   locals the type of every slot;  lets  the slots that a `let` declared *)
(*   used   the slots that were read                                       *)
(*   sent   the streams published to                                       *)
(*   frames the open blocks, each a function from names to slots           *)
(*   diags  the codes reported                                             *)
(***************************************************************************)
EXTENDS Naturals, Sequences, SequencesExt

Basic(name) == [k |-> name]
ListOf(t)   == [k |-> "List", of |-> t]
OptionOf(t) == [k |-> "Option", of |-> t]
RecordT(r)  == [k |-> "Record", name |-> r]
EnumT(vs)   == [k |-> "Enum", variants |-> vs]
Unit  == Basic("Unit")
Never == Basic("Never")
Bool  == Basic("Bool")
Str   == Basic("Str")
Uuid  == Basic("Uuid")
Json  == Basic("Json")

Numbers == {Basic("Int"), Basic("Float")}

\* HirType::unify: a branch that never ends takes the type of the other one.
Unifies(a, b) == a = b \/ a = Never \/ b = Never
Unified(a, b) == IF a = Never THEN b ELSE a

Stringifiable(t) == t.k \in {"Str", "Int", "Float", "Bool", "Uuid", "Timestamp", "Enum"}

Accept(hir, sc)  == [ok |-> TRUE, hir |-> hir, sc |-> sc]
Reject(code, sc) == [ok |-> FALSE, hir |-> <<>>, sc |-> [sc EXCEPT !.diags = @ \cup {code}]]
Report(code, sc) == [sc EXCEPT !.diags = @ \cup {code}]

\* The `?` of the code: go on with what was checked, or stop here.
Then(r, next(_, _)) == IF r.ok THEN next(r.hir, r.sc) ELSE r
Unless(bad, code, sc, r) == IF bad THEN Reject(code, sc) ELSE r

----------------------------------------------------------------------------
(* Names. *)

NewScope(env, ret) ==
  [env |-> env, ret |-> ret, locals |-> <<>>, lets |-> {}, used |-> {}, sent |-> {},
   frames |-> << <<>> >>, diags |-> {}]

Declare(sc, name, ty, isLet) ==
  LET slot == Len(sc.locals) + 1
      top == Last(sc.frames)
  IN  [sc EXCEPT !.locals = Append(@, ty),
                 !.lets = IF isLet THEN @ \cup {slot} ELSE @,
                 !.frames = Front(@) \o << [n \in DOMAIN top \cup {name} |->
                                              IF n = name THEN slot ELSE top[n]] >>]

\* Innermost block first.
Bound(sc, name) == \E i \in DOMAIN sc.frames : name \in DOMAIN sc.frames[i]
Slot(sc, name) ==
  sc.frames[CHOOSE i \in DOMAIN sc.frames :
              /\ name \in DOMAIN sc.frames[i]
              /\ \A j \in DOMAIN sc.frames : j > i => name \notin DOMAIN sc.frames[j]][name]
Read(sc, slot) == [sc EXCEPT !.used = @ \cup {slot}]
Push(sc) == [sc EXCEPT !.frames = Append(@, <<>>)]
Pop(sc)  == [sc EXCEPT !.frames = Front(@)]

FieldNames(sc, r) == {f.name : f \in Range(sc.env.records[r].fields)}
FieldType(sc, r, name) ==
  (CHOOSE f \in Range(sc.env.records[r].fields) : f.name = name).ty

----------------------------------------------------------------------------
(* The closed verb set: what each argument must be, and what the call is.  *)
(* "str" and "key" arguments have one type, "row" is the table's record,   *)
(* "any" is serialised whatever it is.                                     *)

DbVerbs ==
  [insert |-> <<"table", "row">>, get |-> <<"table", "key">>,
   update |-> <<"table", "key", "row">>, delete |-> <<"table", "key">>]
QueryVerbs   == {"query", "count", "delete_where"}
CacheVerbs   == [get |-> <<"str">>, set |-> <<"str", "any">>, delete |-> <<"str">>]
StoreVerbs   == [put |-> <<"str", "any">>, get |-> <<"str">>, delete |-> <<"str">>,
                 list |-> <<"str">>]
EmailVerbs   == [send |-> <<"str", "str", "str">>]
SearchVerbs  == [index |-> <<"str", "any">>, query |-> <<"str">>]
HttpVerbs    == [request |-> <<"str", "any">>]
QueryShape   == [v \in QueryVerbs |-> <<"table">>]

Verbs(kind) ==
  CASE kind = "db"            -> [v \in DOMAIN DbVerbs \cup QueryVerbs |->
                                    IF v \in QueryVerbs THEN QueryShape[v] ELSE DbVerbs[v]]
    [] kind = "cache"         -> CacheVerbs
    [] kind = "object_store"  -> StoreVerbs
    [] kind = "email"         -> EmailVerbs
    [] kind = "search"        -> SearchVerbs
    [] kind = "external_http" -> HttpVerbs

VerbResult(kind, verb, row) ==
  CASE kind = "db" /\ verb = "insert"           -> row
    [] kind = "db" /\ verb \in {"get", "update"} -> OptionOf(row)
    [] kind = "db" /\ verb = "delete"           -> Bool
    [] kind = "db" /\ verb = "query"            -> ListOf(row)
    [] kind = "db"                              -> Basic("Int")
    [] kind \in {"cache", "object_store"} /\ verb = "get" -> OptionOf(Json)
    [] verb = "list"                            -> ListOf(Str)
    [] kind = "search" /\ verb = "query"        -> ListOf(Json)
    [] kind = "external_http"                   -> Json
    [] OTHER                                    -> Unit

AnyType == Basic("AnyType")
Wanted(shapes, row) ==
  [i \in DOMAIN shapes |-> CASE shapes[i] = "str" -> Str
                              [] shapes[i] = "key" -> Uuid
                              [] shapes[i] = "row" -> row
                              [] shapes[i] = "any" -> AnyType]

----------------------------------------------------------------------------
(* Operators: the type of the result, or Never where there is none. *)

BinaryType(op, l, r) ==
  CASE op = "+" /\ Str \in {l, r} ->
         IF Stringifiable(l) /\ Stringifiable(r) THEN Str ELSE Never
    [] op \in {"+", "-", "*", "/"} -> IF l = r /\ l \in Numbers THEN l ELSE Never
    [] op \in {"==", "!="}         -> IF l = r THEN Bool ELSE Never
    [] op \in {"<", "<=", ">", ">="} -> IF l = r /\ l \in Numbers THEN Bool ELSE Never
    [] op \in {"&&", "||"}         -> IF l = Bool /\ r = Bool THEN Bool ELSE Never

UnaryType(op, t) ==
  CASE op = "-" -> IF t \in Numbers THEN t ELSE Never
    [] op = "!" -> IF t = Bool THEN Bool ELSE Never

\* check_match_labels reports, and the arms are checked all the same.
LabelErrors(variants, labels) ==
  LET named == Range(labels) \ {"_"}
      Twice(l) == Cardinality({i \in DOMAIN labels : labels[i] = l}) > 1
  IN  (IF \E l \in Range(labels) : Twice(l) THEN {"DuplicateDeclaration"} ELSE {})
        \cup (IF \/ named \ Range(variants) # {}
                 \/ \E i \in DOMAIN labels : labels[i] = "_" /\ i # Len(labels)
              THEN {"InvalidMatch"} ELSE {})
        \cup (IF "_" \notin Range(labels) /\ Range(variants) \ named # {}
              THEN {"NonExhaustiveMatch"} ELSE {})

----------------------------------------------------------------------------
(* Transactions. *)

TransactionViolations_FaultyFlat(stmts) ==
  UNION {CASE s.k \in {"return", "tx"} -> {"InvalidTransactionBlock"}
           [] s.k = "publish"          -> {"NonTransactionalEffect"}
           [] OTHER                    -> {}
         : s \in Range(stmts)}

RECURSIVE TransactionViolations(_), ForeignVerbs(_), NodeVerbs(_)

Branches(e) ==
  CASE e.k = "if"    -> <<e.then, e.else>>
    [] e.k = "match" -> [i \in DOMAIN e.arms |-> e.arms[i].body]
    [] OTHER         -> <<>>

\* scan_transaction_body: over the syntax, into the branches of an `if` or a `match`
\* that is a statement or the value of a `let`, and nowhere else.
TransactionViolations(stmts) ==
  UNION {CASE s.k \in {"return", "tx"} -> {"InvalidTransactionBlock"}
           [] s.k = "publish"          -> {"NonTransactionalEffect"}
           [] s.k \in {"let", "expr"}  ->
                UNION {TransactionViolations(b) : b \in Range(Branches(s.e))}
           [] s.k = "fail"             -> {}
         : s \in Range(stmts)}

\* collect_transaction_verbs: the capabilities a checked body calls, wherever the calls
\* are, but for the values of a query's predicate.
ForeignVerbs(stmts) ==
  UNION {CASE s.k \in {"let", "expr"} -> NodeVerbs(s.e)
           [] s.k = "fail"            -> UNION {NodeVerbs(a) : a \in Range(s.args)}
           [] OTHER                   -> {}
         : s \in Range(stmts)}

NodeVerbs(h) ==
  CASE h.k = "verb"   -> {h.cap} \cup UNION {NodeVerbs(a) : a \in Range(h.args)}
    [] h.k = "query"  -> {"db"}
    [] h.k \in {"field", "unary"} -> NodeVerbs(h.e)
    [] h.k \in {"index", "binary"} -> NodeVerbs(h.lhs) \cup NodeVerbs(h.rhs)
    [] h.k = "cons"   -> UNION {NodeVerbs(f.value) : f \in Range(h.fields)}
    [] h.k = "if"     -> NodeVerbs(h.cond) \cup ForeignVerbs(h.then) \cup ForeignVerbs(h.else)
    [] h.k = "match"  -> NodeVerbs(h.e) \cup UNION {ForeignVerbs(a.body) : a \in Range(h.arms)}
    [] OTHER          -> {}

----------------------------------------------------------------------------
(* Expressions and statements. *)

Diverges(s) ==
  \/ s.k \in {"return", "fail"}
  \/ s.k \in {"let", "expr"} /\ s.e.ty = Never

BlockType(stmts) ==
  IF \E i \in DOMAIN stmts : Diverges(stmts[i]) THEN Never
  ELSE IF stmts # <<>> /\ Last(stmts).k = "expr" THEN Last(stmts).e.ty
  ELSE Unit

RECURSIVE CheckExpr(_, _), CheckStmt(_, _), CheckStmts(_, _), CheckArgs(_, _, _),
          CheckInits(_, _, _, _), CheckTerms(_, _, _), CheckArms(_, _, _)

\* A bare name is a variant of the enum expected of it, unless it is a local.
CheckExpecting(e, want, sc) ==
  IF e.k = "ident" /\ want.k = "Enum" /\ ~Bound(sc, e.name) /\ e.name \in Range(want.variants)
  THEN Accept([k |-> "variant", v |-> e.name, ty |-> want], sc)
  ELSE CheckExpr(e, sc)

CheckBlock(stmts, sc) == CheckStmts(stmts, sc)
CheckInner(stmts, sc) ==
  LET r == CheckBlock(stmts, Push(sc)) IN [r EXCEPT !.sc = Pop(r.sc)]

CheckField(e, sc) ==
  Then(CheckExpr(e.e, sc), LAMBDA b, s :
    IF b.ty.k # "Record" THEN Reject("HandlerExprTypeMismatch", s)
    ELSE IF e.field \notin FieldNames(s, b.ty.name) THEN Reject("UnknownRecordField", s)
    ELSE Accept([k |-> "field", e |-> b, field |-> e.field,
                 ty |-> FieldType(s, b.ty.name, e.field)], s))

CheckIndex(e, sc) ==
  Then(CheckExpr(e.lhs, sc), LAMBDA b, s :
    Unless(b.ty # Json, "HandlerExprTypeMismatch", s,
      Then(CheckExpr(e.rhs, s), LAMBDA i, t :
        Unless(i.ty # Str, "HandlerExprTypeMismatch", t,
               Accept([k |-> "index", lhs |-> b, rhs |-> i, ty |-> Json], t)))))

\* Arguments in turn, each of the type wanted of it.
CheckArgs(args, wanted, sc) ==
  IF args = <<>> THEN Accept(<<>>, sc)
  ELSE Then(CheckExpr(Head(args), sc), LAMBDA a, s :
         Unless(Head(wanted) \notin {AnyType, a.ty}, "HandlerExprTypeMismatch", s,
           Then(CheckArgs(Tail(args), Tail(wanted), s), LAMBDA as, t :
                Accept(<<a>> \o as, t))))

CheckTerms(terms, row, sc) ==
  IF terms = <<>> THEN Accept(<<>>, sc)
  ELSE LET t == Head(terms) IN
       IF t.field \notin FieldNames(sc, row) THEN Reject("UnknownRecordField", sc)
       ELSE LET ty == FieldType(sc, row, t.field)
            IN  Then(CheckExpecting(t.value, ty, sc), LAMBDA v, s :
                  Unless(v.ty # ty \/ (t.op = "contains" /\ ty # Str), "HandlerExprTypeMismatch", s,
                    Then(CheckTerms(Tail(terms), row, s), LAMBDA ts, u :
                      Accept(<<[field |-> t.field, op |-> t.op, value |-> v]>> \o ts, u))))

\* default_capability in the handler's service: none, one to use, or several.
CheckVerb(e, sc) ==
  LET kind == e.recv
      shapes == Verbs(kind)[e.verb]
      table == e.args[1].name
      row == sc.env.tables[table]
      node(h) == [k |-> "verb", cap |-> kind, verb |-> e.verb, args |-> h, on |-> "",
                  ty |-> VerbResult(kind, e.verb, Unit)]
  IN  IF sc.env.caps[kind] # "one"
      THEN Reject("VerbOnUnboundCapability",
                  IF sc.env.caps[kind] = "many" THEN Report("AmbiguousCapabilityBinding", sc) ELSE sc)
      ELSE IF e.filter /\ ~(kind = "db" /\ e.verb \in QueryVerbs)
      THEN Reject("QueryModifierNotSupported", sc)
      ELSE IF e.verb \notin DOMAIN Verbs(kind) THEN Reject("InvalidVerbCall", sc)
      ELSE IF Len(e.args) # Len(shapes) THEN Reject("InvalidVerbCall", sc)
      ELSE IF shapes[1] # "table"
      THEN Then(CheckArgs(e.args, Wanted(shapes, Unit), sc), LAMBDA h, s : Accept(node(h), s))
      ELSE IF e.args[1].k # "ident" THEN Reject("InvalidVerbCall", sc)
      ELSE IF table \notin DOMAIN sc.env.tables THEN Reject("UnknownTable", sc)
      ELSE IF e.verb \in QueryVerbs
      THEN Then(CheckTerms(e.terms, row, sc), LAMBDA ts, s :
             Accept([k |-> "query", cap |-> "db", verb |-> e.verb, on |-> table, terms |-> ts,
                     ty |-> VerbResult("db", e.verb, RecordT(row))], s))
      ELSE Then(CheckArgs(Tail(e.args), Wanted(Tail(shapes), RecordT(row)), sc), LAMBDA h, s :
             Accept([node(h) EXCEPT !.on = table,
                                    !.ty = VerbResult("db", e.verb, RecordT(row))], s))

Builtins == [Uuid |-> "new", Timestamp |-> "now"]

CheckCall(e, sc) ==
  IF e.recv \in DOMAIN Builtins /\ e.verb = Builtins[e.recv]
  THEN Unless(e.args # <<>> \/ e.filter, "InvalidVerbCall", sc,
              Accept([k |-> "builtin", v |-> e.recv, ty |-> Basic(e.recv)], sc))
  ELSE Unless(e.recv \notin DOMAIN sc.env.caps, "UnknownName", sc, CheckVerb(e, sc))

CheckInits(inits, r, seen, sc) ==
  IF inits = <<>> THEN Accept(<<>>, sc)
  ELSE LET f == Head(inits) IN
       IF f.name \notin FieldNames(sc, r) THEN Reject("UnknownRecordField", sc)
       ELSE IF f.name \in seen THEN Reject("DuplicateDeclaration", sc)
       ELSE LET ty == FieldType(sc, r, f.name)
            IN  Then(CheckExpecting(f.value, ty, sc), LAMBDA v, s :
                  Unless(v.ty # ty, "HandlerExprTypeMismatch", s,
                    Then(CheckInits(Tail(inits), r, seen \cup {f.name}, s), LAMBDA fs, t :
                      Accept(<<[name |-> f.name, value |-> v]>> \o fs, t))))

\* A local of that name makes it an update of the local, a record a construction.
CheckCons(e, sc) ==
  LET local == Bound(sc, e.base)
      slot == Slot(sc, e.base)
      r == IF local THEN sc.locals[slot].name ELSE e.base
      start == IF local THEN Read(sc, slot) ELSE sc
      given == {f.name : f \in Range(e.fields)}
  IN  IF local /\ sc.locals[slot].k # "Record" THEN Reject("HandlerExprTypeMismatch", start)
      ELSE IF ~local /\ e.base \notin DOMAIN sc.env.records THEN Reject("UnknownName", sc)
      ELSE Then(CheckInits(e.fields, r, {}, start), LAMBDA fs, s :
             Unless(~local /\ FieldNames(s, r) \ given # {}, "HandlerExprTypeMismatch", s,
               Accept([k |-> "cons", base |-> IF local THEN slot ELSE 0, fields |-> fs,
                       ty |-> RecordT(r)], s)))

\* The right side of a comparison may be a variant of the left side's enum.
CheckBinary(e, sc) ==
  Then(CheckExpr(e.lhs, sc), LAMBDA l, s :
    Then(CheckExpecting(e.rhs, IF e.op \in {"==", "!="} THEN l.ty ELSE Unit, s), LAMBDA r, t :
      Unless(BinaryType(e.op, l.ty, r.ty) = Never, "HandlerExprTypeMismatch", t,
             Accept([k |-> "binary", op |-> e.op, lhs |-> l, rhs |-> r,
                     ty |-> BinaryType(e.op, l.ty, r.ty)], t))))

CheckUnary(e, sc) ==
  Then(CheckExpr(e.e, sc), LAMBDA h, s :
    Unless(UnaryType(e.op, h.ty) = Never, "HandlerExprTypeMismatch", s,
           Accept([k |-> "unary", op |-> e.op, e |-> h, ty |-> UnaryType(e.op, h.ty)], s)))

\* An `if` with no `else` has an empty one.
CheckIf(e, sc) ==
  Then(CheckExpr(e.cond, sc), LAMBDA c, s :
    Unless(c.ty # Bool, "HandlerExprTypeMismatch", s,
      Then(CheckInner(e.then, s), LAMBDA th, t :
        Then(CheckInner(e.else, t), LAMBDA el, u :
          Unless(~Unifies(BlockType(th), BlockType(el)), "HandlerExprTypeMismatch", u,
            Accept([k |-> "if", cond |-> c, then |-> th, else |-> el,
                    ty |-> Unified(BlockType(th), BlockType(el))], u))))))

CheckArms(arms, ty, sc) ==
  IF arms = <<>> THEN Accept([arms |-> <<>>, ty |-> ty], sc)
  ELSE Then(CheckInner(Head(arms).body, sc), LAMBDA b, s :
         Unless(~Unifies(ty, BlockType(b)), "HandlerExprTypeMismatch", s,
           Then(CheckArms(Tail(arms), Unified(ty, BlockType(b)), s), LAMBDA as, t :
             Accept([as EXCEPT !.arms = <<[label |-> Head(arms).label, body |-> b]>> \o @], t))))

CheckMatch(e, sc) ==
  Then(CheckExpr(e.e, sc), LAMBDA h, s :
    IF h.ty.k # "Enum" THEN Reject("HandlerExprTypeMismatch", s)
    ELSE LET labels == [i \in DOMAIN e.arms |-> e.arms[i].label]
             t == [s EXCEPT !.diags = @ \cup LabelErrors(h.ty.variants, labels)]
         IN  Then(CheckArms(e.arms, Never, t), LAMBDA as, u :
               Accept([k |-> "match", e |-> h, arms |-> as.arms, ty |-> as.ty], u)))

CheckExpr(e, sc) ==
  CASE e.k = "ident"  -> Unless(~Bound(sc, e.name), "UnknownName", sc,
                           Accept([k |-> "local", slot |-> Slot(sc, e.name),
                                   ty |-> sc.locals[Slot(sc, e.name)]],
                                  Read(sc, Slot(sc, e.name))))
    [] e.k = "lit"    -> Accept(e, sc)
    [] e.k = "field"  -> CheckField(e, sc)
    [] e.k = "index"  -> CheckIndex(e, sc)
    [] e.k = "call"   -> CheckCall(e, sc)
    [] e.k = "cons"   -> CheckCons(e, sc)
    [] e.k = "binary" -> CheckBinary(e, sc)
    [] e.k = "unary"  -> CheckUnary(e, sc)
    [] e.k = "if"     -> CheckIf(e, sc)
    [] e.k = "match"  -> CheckMatch(e, sc)

CheckReturn(st, sc) ==
  IF st.e.k = "none"
  THEN Unless(~Unifies(sc.ret, Unit), "HandlerExprTypeMismatch", sc, Accept(st, sc))
  ELSE Then(CheckExpr(st.e, sc), LAMBDA h, s :
         Unless(~Unifies(h.ty, s.ret), "HandlerExprTypeMismatch", s,
                Accept([k |-> "return", e |-> h], s)))

CheckFail(st, sc) ==
  LET fields == sc.env.records[st.error].fields
      types == [i \in DOMAIN fields |-> fields[i].ty]
  IN  IF st.error \notin DOMAIN sc.env.records THEN Reject("UnknownType", sc)
      ELSE IF ~sc.env.records[st.error].error THEN Reject("HandlerExprTypeMismatch", sc)
      ELSE IF Len(st.args) # Len(fields) THEN Reject("HandlerExprTypeMismatch", sc)
      ELSE Then(CheckArgs(st.args, types, sc), LAMBDA as, s :
             Accept([k |-> "fail", error |-> st.error, args |-> as], s))

\* A wrong payload, or no queue, is reported and the body is checked on.
CheckPublish(st, sc) ==
  IF st.stream \notin DOMAIN sc.env.streams THEN Reject("UnknownStream", sc)
  ELSE LET carried == sc.env.streams[st.stream]
           asked == [sc EXCEPT !.sent = @ \cup {st.stream}]
           s == CASE sc.env.caps["queue"] = "one"  -> asked
                  [] sc.env.caps["queue"] = "none" -> Report("MissingCapability", asked)
                  [] sc.env.caps["queue"] = "many" ->
                       Report("MissingCapability", Report("AmbiguousCapabilityBinding", asked))
       IN  Then(CheckExpr(st.e, s), LAMBDA h, t :
             Accept([k |-> "publish", stream |-> st.stream, e |-> h],
                    IF carried # "" /\ h.ty # RecordT(carried) THEN Report("TypeMismatch", t) ELSE t))

CheckTransaction(st, sc) ==
  LET found == TransactionViolations(st.body)
  IN  IF st.body = <<>> THEN Reject("InvalidTransactionBlock", sc)
      ELSE IF found # {} THEN [ok |-> FALSE, hir |-> <<>>, sc |-> [sc EXCEPT !.diags = @ \cup found]]
      ELSE Then(CheckInner(st.body, sc), LAMBDA b, s :
             Unless(ForeignVerbs(b) \ {"db"} # {}, "NonTransactionalEffect", s,
               Unless("db" \notin ForeignVerbs(b), "InvalidTransactionBlock", s,
                      Accept([k |-> "tx", body |-> b], s))))

CheckStmt(st, sc) ==
  CASE st.k = "let"     -> Then(CheckExpr(st.e, sc), LAMBDA h, s :
                             Accept([k |-> "let", slot |-> Len(s.locals) + 1, e |-> h],
                                    Declare(s, st.name, h.ty, TRUE)))
    [] st.k = "expr"    -> Then(CheckExpr(st.e, sc), LAMBDA h, s :
                             Accept([k |-> "expr", e |-> h], s))
    [] st.k = "return"  -> CheckReturn(st, sc)
    [] st.k = "fail"    -> CheckFail(st, sc)
    [] st.k = "publish" -> CheckPublish(st, sc)
    [] st.k = "tx"      -> CheckTransaction(st, sc)

CheckStmts(stmts, sc) ==
  IF stmts = <<>> THEN Accept(<<>>, sc)
  ELSE Then(CheckStmt(Head(stmts), sc), LAMBDA h, s :
         Then(CheckStmts(Tail(stmts), s), LAMBDA hs, t : Accept(<<h>> \o hs, t)))

\* A handler declares its parameters in the outermost frame.  The value its body ends
\* with is not compared with the return type.
CheckHandler(decl, env) ==
  LET sc == FoldLeft(LAMBDA s, p : Declare(s, p.name, p.ty, FALSE),
                     NewScope(env, decl.ret), decl.params)
      r == CheckBlock(decl.body, sc)
      unread == r.sc.lets \ r.sc.used
  IN  [ok |-> r.ok, hir |-> r.hir, locals |-> r.sc.locals, sent |-> r.sc.sent,
       diags |-> r.sc.diags \cup (IF r.ok /\ unread # {} THEN {"UnusedLet"} ELSE {})]

Warnings == {"UnusedLet"}
Sound(checked) == checked.ok /\ checked.diags \subseteq Warnings
=============================================================================
