----------------------------- MODULE Blueprints -----------------------------
(***************************************************************************)
(* The expansion of blueprints, before anything else is built.  A blueprint*)
(* has one record as its type argument and scalar parameters; each         *)
(* expansion gives its declarations names of its own.  A parameter that is *)
(* used as a name keeps the value the caller gave.                         *)
(*                                                                         *)
(* Values of parameters are attribute literals: [k, v].                    *)
(***************************************************************************)
EXTENDS Builder

\* The blueprint of a name, the first that is declared; and the records as written.
BlueprintsOf(items) == SelectSeq(items, LAMBDA d : d.k = "blueprint")
Written(items) == {d.name : d \in {x \in Range(items) : x.k = "record"}}

ValueMatches(ty, v) == IF ty = "String" THEN IsString(v.k) ELSE ty = "Int" /\ v.k = "num"

ExpandError(d, items) ==
  LET known == SelectSeq(BlueprintsOf(items), LAMBDA x : x.name = d.blueprint)
      params == known[1].params
      given == {a.name : a \in Range(d.args)}
      Value(name) == (CHOOSE i \in DOMAIN d.args : d.args[i].name = name
                        /\ \A j \in DOMAIN d.args : d.args[j].name = name => j <= i)
  IN  IF known = <<>> THEN "UnknownBlueprint"
      ELSE IF d.arg \notin Written(items) THEN "BlueprintConstraintViolation"
      ELSE IF \/ given # {p.name : p \in Range(params)}
              \/ \E p \in Range(params) : ~ValueMatches(p.ty, d.args[Value(p.name)])
      THEN "BlueprintArityMismatch"
      ELSE ""

----------------------------------------------------------------------------
(* Substitution.  x carries the type parameter and its argument, the values *)
(* of the parameters, and the new names of the body's declarations.         *)

Declares == {"crud", "stream", "handler", "record", "table", "api", "worker", "pipeline"}

Substitution(bp, d) ==
  LET params == [n \in {a.name : a \in Range(d.args)} |->
                   LET i == CHOOSE i \in DOMAIN d.args :
                              d.args[i].name = n /\ \A j \in DOMAIN d.args : d.args[j].name = n => j <= i
                   IN  [k |-> d.args[i].k, v |-> d.args[i].v]]
      names == {y.name : y \in {z \in Range(bp.body) : z.k \in Declares}}
      chosen(n) == n \in DOMAIN params /\ IsString(params[n].k)
  IN  [param |-> bp.param, arg |-> d.arg, params |-> params,
       renames |-> [n \in names |-> IF chosen(n) THEN params[n].v ELSE n \o d.arg]]

Renamed_FaultyOwnName(n, x) == n

Renamed(n, x) == IF n \in DOMAIN x.renames THEN x.renames[n] ELSE n
Referred(n, x) == IF n = x.param THEN x.arg ELSE Renamed(n, x)

SubstType(t, x) ==
  CASE t.k = "Record"    -> [t EXCEPT !.name = Referred(@, x)]
    [] t.k = "Reference" -> [t EXCEPT !.target = Referred(@, x)]
    [] t.k = "List" /\ t.of.k = "Record" -> [t EXCEPT !.of.name = Referred(@, x)]
    [] OTHER -> t

SubstAttr(a, x) ==
  IF a.k = "ident" /\ a.v \in DOMAIN x.params
  THEN [a EXCEPT !.k = x.params[a.v].k, !.v = x.params[a.v].v] ELSE a
SubstAttrs(as, x) == [i \in DOMAIN as |-> SubstAttr(as[i], x)]

\* The attributes of a reference may also name a table of the body.
SubstFieldAttr(a, x) ==
  LET c == SubstAttr(a, x) IN IF c.k = "ident" THEN [c EXCEPT !.v = Renamed(@, x)] ELSE c

SubstField(f, x) ==
  [f EXCEPT !.ty = SubstType(@, x), !.attrs = [i \in DOMAIN @ |-> SubstFieldAttr(@[i], x)]]

RECURSIVE SubstStep(_, _)
SubstStep(s, x) ==
  CASE s.k = "name"    -> [s EXCEPT !.name = Renamed(@, x)]
    [] s.k = "publish" -> [s EXCEPT !.stream = Renamed(@, x)]
    [] s.k = "call"    -> s
    [] s.k = "match"   -> [s EXCEPT !.arms = [i \in DOMAIN @ |->
                             [@[i] EXCEPT !.steps = [j \in DOMAIN @ |-> SubstStep(@[j], x)]]]]

----------------------------------------------------------------------------
(* Bodies: a name is a parameter's value, or one of the body's own          *)
(* declarations, or left alone.                                             *)

RECURSIVE RewriteExpr(_, _), RewriteStmts(_, _)

Literal(v) ==
  CASE v.k = "num"   -> [k |-> "lit", n |-> v.v, ty |-> Basic("Int")]
    [] v.k = "ident" -> [k |-> "ident", name |-> v.v]
    [] OTHER         -> [k |-> "lit", v |-> v.v, ty |-> Str]

RewriteAll(es, x) == [i \in DOMAIN es |-> RewriteExpr(es[i], x)]

RewriteExpr(e, x) ==
  CASE e.k = "ident"  -> IF e.name \in DOMAIN x.params THEN Literal(x.params[e.name])
                         ELSE [e EXCEPT !.name = Renamed(@, x)]
    [] e.k = "lit"    -> e
    [] e.k \in {"field", "unary"}  -> [e EXCEPT !.e = RewriteExpr(@, x)]
    [] e.k \in {"index", "binary"} -> [e EXCEPT !.lhs = RewriteExpr(@, x), !.rhs = RewriteExpr(@, x)]
    [] e.k = "call"   -> [e EXCEPT !.args = RewriteAll(@, x),
                                   !.terms = [i \in DOMAIN @ |->
                                                [@[i] EXCEPT !.value = RewriteExpr(@, x)]]]
    [] e.k = "cons"   -> [e EXCEPT !.base = Renamed(@, x),
                                   !.fields = [i \in DOMAIN @ |->
                                                 [@[i] EXCEPT !.value = RewriteExpr(@, x)]]]
    [] e.k = "if"     -> [e EXCEPT !.cond = RewriteExpr(@, x), !.then = RewriteStmts(@, x),
                                   !.else = RewriteStmts(@, x)]
    [] e.k = "match"  -> [e EXCEPT !.e = RewriteExpr(@, x),
                                   !.arms = [i \in DOMAIN @ |->
                                               [@[i] EXCEPT !.body = RewriteStmts(@, x)]]]
    [] OTHER          -> e

RewriteStmt(s, x) ==
  CASE s.k \in {"let", "expr"} -> [s EXCEPT !.e = RewriteExpr(@, x)]
    [] s.k = "return"  -> [s EXCEPT !.e = RewriteExpr(@, x)]
    [] s.k = "fail"    -> [s EXCEPT !.error = Renamed(@, x), !.args = RewriteAll(@, x)]
    [] s.k = "publish" -> [s EXCEPT !.stream = Renamed(@, x), !.e = RewriteExpr(@, x)]
    [] s.k = "tx"      -> [s EXCEPT !.body = RewriteStmts(@, x)]
RewriteStmts(ss, x) == [i \in DOMAIN ss |-> RewriteStmt(ss[i], x)]

----------------------------------------------------------------------------

SubstItem(d, x) ==
  LET named == [d EXCEPT !.name = Renamed(@, x)]
  IN  CASE d.k = "use"      -> d
        [] d.k = "crud"     -> [named EXCEPT !.record = Referred(@, x), !.attrs = SubstAttrs(@, x)]
        [] d.k = "stream"   -> [named EXCEPT !.record = Referred(@, x), !.attrs = SubstAttrs(@, x)]
        [] d.k = "api"      -> [named EXCEPT !.request = Referred(@, x), !.attrs = SubstAttrs(@, x)]
        [] d.k = "worker"   -> [named EXCEPT !.stream = Referred(@, x), !.attrs = SubstAttrs(@, x)]
        [] d.k = "table"    -> [named EXCEPT !.record = Referred(@, x), !.db = Renamed(@, x)]
        [] d.k = "record"   -> [named EXCEPT !.fields = [i \in DOMAIN @ |-> SubstField(@[i], x)]]
        [] d.k = "pipeline" -> [named EXCEPT !.steps = [i \in DOMAIN @ |-> SubstStep(@[i], x)]]
        [] d.k = "handler"  -> [named EXCEPT !.params = [i \in DOMAIN @ |->
                                                           [@[i] EXCEPT !.ty = SubstType(@, x)]],
                                             !.ret = SubstType(@, x),
                                             !.body = RewriteStmts(@, x)]

Instantiate(d, items) ==
  LET bp == SelectSeq(BlueprintsOf(items), LAMBDA y : y.name = d.blueprint)[1]
      x == Substitution(bp, d)
  IN  IF ExpandError(d, items) # "" THEN <<>>
      ELSE [i \in DOMAIN bp.body |-> SubstItem(bp.body[i], x)]

\* What a service block cannot hold goes to the top level of the program.
Hoisted == {"stream", "record", "table"}

ExpandBlock(block, items) ==
  LET part(hoist, d) ==
        IF d.k = "expand" THEN SelectSeq(Instantiate(d, items), LAMBDA y : (y.k \in Hoisted) = hoist)
        ELSE IF hoist THEN <<>> ELSE <<d>>
      all(hoist) == FlattenSeq([i \in DOMAIN block.items |-> part(hoist, block.items[i])])
  IN  [block |-> [block EXCEPT !.items = all(FALSE)], hoisted |-> all(TRUE)]

Expand(items) ==
  LET made(d) == CASE d.k = "blueprint" -> <<>>
                   [] d.k = "expand"    -> Instantiate(d, items)
                   [] d.k = "block"     -> <<ExpandBlock(d, items).block>>
                   [] OTHER             -> <<d>>
      hoisted(d) == IF d.k = "block" THEN ExpandBlock(d, items).hoisted ELSE <<>>
  IN  FlattenSeq([i \in DOMAIN items |-> made(items[i])])
        \o FlattenSeq([i \in DOMAIN items |-> hoisted(items[i])])

\* The errors of all the places that expand a blueprint.
ExpandErrors(items) ==
  LET places == {d \in Range(items) : d.k = "expand"}
                  \cup UNION {{e \in Range(d.items) : e.k = "expand"}
                              : d \in {x \in Range(items) : x.k = "block"}}
      names == [i \in DOMAIN BlueprintsOf(items) |-> BlueprintsOf(items)[i].name]
  IN  ({ExpandError(d, items) : d \in places} \ {""})
        \cup (IF Cardinality(Range(names)) < Len(names) THEN {"DuplicateDeclaration"} ELSE {})
=============================================================================
