------------------------------ MODULE Meaning ------------------------------
(***************************************************************************)
(* What a handler body does when it runs: the reference against which the  *)
(* checker and the lowerings are compared.  It evaluates a body as written *)
(* and a lowered body alike.  A state of a run:                            *)
(*   frames   the open blocks, each from names to values; vars, variables  *)
(*            of the whole function, and hoisted, their declared names     *)
(*   world    whether the run is simulated;  down, capabilities that fail  *)
(*   rows     table -> id -> row;  saved, the rows as last committed       *)
(*   batch    "none", or who queues the writes of a simulated transaction; *)
(*            ops, the queue                                               *)
(*   kept     <<capability, key>> -> the form of what is stored there      *)
(*   log      the calls made, in order; dirty, those made in a transaction *)
(*            that it cannot take back                                     *)
(*   out      "run", "return", "fail", or "stuck": the program went wrong; *)
(*            "panic", "reject": there is no program                       *)
(*   quirks   where the run of a host came to differ from the reference    *)
(***************************************************************************)
EXTENDS TypeCheck, TLC

Value(ty, n, s, f) == [ty |-> ty, n |-> n, s |-> s, f |-> f]
VInt(n)     == Value("Int", n, "", <<>>)
VStr(s)     == Value("Str", 0, s, <<>>)
VBool(p)    == Value("Bool", IF p THEN 1 ELSE 0, "", <<>>)
VUuid(s)    == Value("Uuid", 0, s, <<>>)
VEnum(s)    == Value("Enum", 0, s, <<>>)
VUnit       == Value("Unit", 0, "", <<>>)
VJson       == Value("Json", 0, "", <<>>)
VTime       == Value("Timestamp", 0, "now", <<>>)
VRecord(r, f) == Value("Record", 0, r, f)
VOption(f)  == Value("Option", 0, "", f)
VList(f)    == Value("List", 0, "", f)

HasType(v, t) ==
  /\ v.ty = t.k
  /\ t.k = "Record" => v.s = t.name
  /\ t.k = "Enum"   => v.s \in Range(t.variants)

\* A value of a type, one of two.
RECURSIVE Sample(_, _, _)
Sample(t, seed, env) ==
  CASE t.k = "Int"    -> VInt(seed)
    [] t.k = "Str"    -> VStr(IF seed = 0 THEN "p" ELSE "q")
    [] t.k = "Bool"   -> VBool(seed = 1)
    [] t.k = "Uuid"   -> VUuid(IF seed = 0 THEN "k0" ELSE "k1")
    [] t.k = "Enum"   -> VEnum(IF seed = 0 THEN Head(t.variants) ELSE Last(t.variants))
    [] t.k = "Record" -> VRecord(t.name, [x \in {f.name : f \in Range(env.records[t.name].fields)} |->
                           Sample((CHOOSE f \in Range(env.records[t.name].fields) : f.name = x).ty,
                                  seed, env)])
    [] OTHER          -> VJson

\* A run has one of two inputs; the second finds something stored wherever it looks.
Start(params, env, kind) ==
  LET full == kind.seed = 1
      db == [t \in DOMAIN env.tables |->
               [id \in (IF full THEN {"k1"} ELSE {}) |-> Sample(RecordT(env.tables[t]), 1, env)]]
      value(x) == Sample((CHOOSE p \in Range(params) : p.name = x).ty, kind.seed, env)
  IN  [frames |-> <<[x \in {p.name : p \in Range(params)} |-> value(x)]>>, vars |-> <<>>,
       hoisted |-> {}, world |-> kind.world, down |-> kind.down,
       rows |-> db, saved |-> db, held |-> FALSE, dirty |-> FALSE, batch |-> "none", ops |-> <<>>,
       kept |-> [p \in (IF full THEN {"cache", "object_store"} \X {"q"} ELSE {}) |-> "json"],
       log |-> <<>>, fresh |-> 0, out |-> "run", val |-> VUnit, quirks |-> {}]

Yield(v, st) == [v |-> v, st |-> st]
Stop(out, st) == Yield(VUnit, [st EXCEPT !.out = out])
And(r, next(_, _)) == IF r.st.out = "run" THEN next(r.v, r.st) ELSE r
Quirk(name, differs, st) == IF differs THEN [st EXCEPT !.quirks = @ \cup {name}] ELSE st

Put(f, x, v) == [y \in DOMAIN f \cup {x} |-> IF y = x THEN v ELSE f[y]]
Drop1(f, xs) == [y \in DOMAIN f \ xs |-> f[y]]
Holds(st, x) == \E i \in DOMAIN st.frames : x \in DOMAIN st.frames[i]
Lookup(st, x) ==
  IF Holds(st, x)
  THEN st.frames[CHOOSE i \in DOMAIN st.frames : /\ x \in DOMAIN st.frames[i]
                   /\ \A j \in DOMAIN st.frames : x \in DOMAIN st.frames[j] => j <= i][x]
  ELSE st.vars[x]
InBlock(st, x, v) == [st EXCEPT !.frames = Front(@) \o <<Put(Last(@), x, v)>>]

----------------------------------------------------------------------------
(* The database. *)

\* The order of strings, of those that the programs have.
Before(a, b) ==
  IF a.ty = "Int" THEN a.n < b.n
  ELSE \E i, j \in 1..3 : i < j /\ <<"p", "q", "s">>[i] = a.s /\ <<"p", "q", "s">>[j] = b.s

\* A one-letter string contains itself.
Compares(op, a, b) ==
  CASE op \in {"==", "contains"} -> a = b
    [] op = "!=" -> a # b
    [] op = "<"  -> Before(a, b)
    [] op = ">"  -> Before(b, a)
    [] op = "<=" -> ~Before(b, a)
    [] op = ">=" -> ~Before(a, b)

\* Code that orders only numbers finds no order in anything else.
HostCompares(t, a) ==
  IF t.by = "numbers" /\ t.op \in {"<", ">", "<=", ">="} /\ a.ty # "Int" THEN FALSE
  ELSE Compares(t.op, a, t.value)

Meets(row, terms) == \A t \in Range(terms) : Compares(t.op, row.f[t.field], t.value)
HostMeets(row, terms) == \A t \in Range(terms) : HostCompares(t, row.f[t.field])
Found(rows, terms) == {i \in DOMAIN rows : Meets(rows[i], terms)}
HostFound(rows, terms) == {i \in DOMAIN rows : HostMeets(rows[i], terms)}

\* A call, on the rows of its table: its answer and the rows that it leaves, or none of both.
Refusal == [ok |-> FALSE]
Answer(v, rows) == [ok |-> TRUE, v |-> v, rows |-> rows]
IdOf(verb, args) == IF verb = "insert" THEN args[1].f["id"].s ELSE args[1].s
Serve(verb, args, found, rows) ==
  LET id == IdOf(verb, args)
      here == id \in DOMAIN rows
      row == [args[2] EXCEPT !.f["id"] = args[1]]
  IN  CASE verb = "insert" -> IF here THEN Refusal ELSE Answer(args[1], Put(rows, id, args[1]))
        [] verb = "get"    -> Answer(VOption(IF here THEN <<rows[id]>> ELSE <<>>), rows)
        [] verb = "update" -> IF here THEN Answer(VOption(<<args[2]>>), Put(rows, id, row))
                              ELSE Answer(VOption(<<>>), rows)
        [] verb = "delete" -> Answer(VBool(here), Drop1(rows, {id}))
        [] verb = "query"  -> Answer(VList(SetToSeq({rows[i] : i \in found})), rows)
        [] verb = "count"  -> Answer(VInt(Cardinality(found)), rows)
        [] verb = "delete_where" -> Answer(VInt(Cardinality(found)), Drop1(rows, found))

Called(cap, verb, args, st) ==
  [st EXCEPT !.log = Append(@, [cap |-> cap, verb |-> verb, args |-> args]),
             !.dirty = @ \/ (st.held /\ cap # "db")]

\* A transaction's writes wait for its end, a write on its own is committed.
Write(st, on, rows) ==
  [st EXCEPT !.rows[on] = rows, !.saved = IF st.held THEN @ ELSE [@ EXCEPT ![on] = rows]]

\* The queue of a batch, as operations in the order of the calls; and what they would leave.
Op(verb, on, args) == [verb |-> verb, on |-> on, args |-> args]
Applied(tables, op) ==
  LET a == Serve(op.verb, op.args, {}, tables[op.on])
  IN  IF a.ok THEN [tables EXCEPT ![op.on] = a.rows] ELSE tables
AfterOps(tables, ops) == FoldLeft(Applied, tables, ops)

\* What the call would find: the transaction's own writes, queued or not, included.
View(st, on) == IF st.batch = "none" THEN st.rows[on] ELSE AfterOps(st.rows, st.ops)[on]
Due(e, args, terms, st) == Serve(e.verb, args, Found(View(st, e.on), terms), View(st, e.on))

\* A queued write answers as if it had gone well, before that is known.
Early(verb, args, found) ==
  CASE verb = "insert" -> args[1]
    [] verb = "update" -> VOption(<<args[2]>>)
    [] verb = "delete" -> VBool(TRUE)
    [] verb = "delete_where" -> VInt(Cardinality(found))
Queued(e, args, terms, st) ==
  LET due == Due(e, args, terms, st)
      found == HostFound(st.rows[e.on], terms)
      answer == Early(e.verb, args, found)
      new == IF e.verb = "delete_where"
             THEN SetToSeq({Op("delete", e.on, <<VUuid(i)>>) : i \in found}) ELSE <<Op(e.verb, e.on, args)>>
  IN  Yield(answer, Quirk("early answer", ~due.ok \/ due.v # answer, [st EXCEPT !.ops = @ \o new]))

\* An update by SQL keeps the id, that of a world or of Python takes the value's.
KeepsKey(e) == e.via \in {"source", "pool", "tx", "jdbc"}
Direct(e, args, terms, st) ==
  LET rows == IF e.via = "pool" THEN st.saved[e.on] ELSE st.rows[e.on]
      due == Due(e, args, terms, st)
      hit == HostFound(rows, terms)
      a == Serve(e.verb, args, hit, rows)
      moved == e.verb = "update" /\ ~KeepsKey(e) /\ args[2].f["id"] # args[1] /\ args[1].s \in DOMAIN rows
      missed == a.ok # due.ok \/ (a.ok /\ a.v # due.v)
      s == Quirk("another id", moved,
             Quirk("order", hit # Found(rows, terms),
               Quirk(IF e.via = "pool" THEN "own writes" ELSE "early answer", missed, st)))
  IN  IF ~a.ok THEN Stop("fail", s)
      ELSE IF e.verb \in {"get", "query", "count"} THEN Yield(a.v, s) ELSE Yield(a.v, Write(s, e.on, a.rows))

\* A simulated delete_where of Rust deletes from the world at once, whatever the batch.
CallDb(e, args, terms, st0) ==
  LET st == Called("db", e.verb, args, st0)
      writes == e.verb \notin {"get", "query", "count"}
  IN  IF writes /\ (e.via = "queue" \/ (e.via = "world" /\ st.batch = "world"))
      THEN Queued(e, args, terms, st)
      ELSE Direct(e, args, terms, Quirk("not rolled back", writes /\ e.via = "world" /\ st.batch = "host", st))

----------------------------------------------------------------------------
(* The other services. *)

\* A string as itself, a record as its JSON, and any other value in an object.
FormOf(cap, v) ==
  CASE cap = "cache" \/ v.ty = "Record" -> "json"
    [] cap = "object_store"             -> "text"
    [] v.ty = "Json"                    -> "json"
    [] OTHER                            -> "wrapped"

Stores(e) == <<e.cap, e.verb>> \in {<<"cache", "set">>, <<"object_store", "put">>}
HasPayload(e) == Stores(e) \/ <<e.cap, e.verb>> \in {<<"search", "index">>, <<"external_http", "request">>}

CallOther(e, args, st0) ==
  LET due == FormOf(e.cap, args[2])
      form == IF e.args[2].k = "payload" THEN e.args[2].form ELSE due
      at == <<e.cap, args[1].s>>
      here == at \in DOMAIN st0.kept
      st == Quirk("another form", HasPayload(e) /\ form # due, Called(e.cap, e.verb, args, st0))
  IN  CASE e.cap \in st.down -> Stop("fail", st)
        [] e.cap \notin st.down /\ Stores(e) -> Yield(VUnit, [st EXCEPT !.kept = Put(@, at, form)])
        [] e.cap \in {"cache", "object_store"} /\ e.verb = "delete" ->
             Yield(VUnit, [st EXCEPT !.kept = Drop1(@, {at})])
        [] e.cap = "cache" /\ e.verb = "get" -> Yield(VOption(IF here THEN <<VJson>> ELSE <<>>), st)
        [] e.cap = "object_store" /\ e.verb = "get" ->
             IF ~here THEN Stop("fail", st)
             ELSE IF e.via # "source" /\ st.kept[at] = "text" THEN Stop("fail", Quirk("plain text", TRUE, st))
             ELSE Yield(VOption(<<VJson>>), st)
        [] e.verb \in {"list", "query"} -> Yield(VList(<<>>), st)
        [] e.cap = "external_http" -> Yield(VJson, st)
        [] OTHER -> Yield(VUnit, st)

----------------------------------------------------------------------------
(* Operators.  A wrong operand stops the run. *)

Shown(v) == IF v.ty \in {"Int", "Bool"} THEN ToString(v.n) ELSE v.s

Quotient(how, l, r, st) ==
  CASE r.n = 0 /\ how = "truncated" -> Yield(VInt(0), Quirk("infinity", TRUE, st))
    [] r.n = 0                      -> Stop("fail", st)
    [] OTHER -> Yield(VInt(l.n \div r.n), Quirk("fraction", how = "exact" /\ l.n % r.n # 0, st))

Operate(op, how, l, r, st) ==
  CASE op = "+" /\ "Str" \in {l.ty, r.ty} ->
         IF {l.ty, r.ty} \subseteq {"Str", "Int", "Bool", "Uuid", "Enum", "Timestamp"}
         THEN Yield(VStr(Shown(l) \o Shown(r)), Quirk("True", how = "str" /\ "Bool" \in {l.ty, r.ty}, st))
         ELSE Stop("stuck", st)
    [] op \in {"==", "!="} -> IF l.ty # r.ty THEN Stop("stuck", st)
                              ELSE Yield(VBool((l = r) = (op = "==")), Quirk("identity", how = "identity" /\ l = r, st))
    [] op \in {"&&", "||"} -> IF r.ty # "Bool" THEN Stop("stuck", st) ELSE Yield(r, st)
    [] l.ty # "Int" \/ r.ty # "Int" -> Stop("stuck", st)
    [] op = "+" -> Yield(VInt(l.n + r.n), st)
    [] op = "-" -> Yield(VInt(l.n - r.n), st)
    [] op = "*" -> Yield(VInt(l.n * r.n), st)
    [] op = "/" -> Quotient(how, l, r, st)
    [] op \in {"<", ">", "<=", ">="} -> Yield(VBool(Compares(op, l, r)), st)

\* The right side of && and || is not always evaluated.
Decided(op, l) == (op = "&&" /\ l.n = 0) \/ (op = "||" /\ l.n = 1)

Negate(op, v, st) ==
  CASE op = "!" /\ v.ty = "Bool" -> Yield(VBool(v.n = 0), st)
    [] op = "-" /\ v.ty = "Int"  -> Yield(VInt(0 - v.n), st)
    [] OTHER -> Stop("stuck", st)

----------------------------------------------------------------------------

RECURSIVE Eval(_, _), EvalAll(_, _), Exec(_, _), ExecAll(_, _)

EvalAll(es, st) ==
  IF es = <<>> THEN Yield(<<>>, st)
  ELSE And(Eval(Head(es), st), LAMBDA v, s :
         And(EvalAll(Tail(es), s), LAMBDA vs, t : Yield(<<v>> \o vs, t)))

Block(stmts, st) ==
  LET r == ExecAll(stmts, [st EXCEPT !.frames = Append(@, <<>>)])
  IN  [r EXCEPT !.st.frames = Front(@)]

\* A new record, or an update of a value.
EvalFields(record, base, fields, st) ==
  LET names == [i \in DOMAIN fields |-> fields[i].name]
      at(x) == CHOOSE i \in DOMAIN names : names[i] = x
  IN  And(EvalAll([i \in DOMAIN fields |-> fields[i].value], st), LAMBDA vs, s :
        IF base = "" THEN Yield(VRecord(record, [x \in Range(names) |-> vs[at(x)]]), s)
        ELSE LET old == Lookup(s, base)
             IN  Yield([old EXCEPT !.f = [x \in DOMAIN @ |-> IF x \in Range(names) THEN vs[at(x)] ELSE @[x]]], s))

\* In a simulation, a call that is neither the world's nor a fake's reaches the service.
Reaches(e) == e.via \in {"pool", "tx", "jdbc", "service"}

\* An update through Python's session computes the value only where there is a row.
EvalCall(e, st) ==
  IF e.cap \notin {"db", "cache", "object_store", "email", "search", "external_http"}
  THEN Stop("stuck", st)
  ELSE And(EvalAll(e.args, Quirk("unguarded", st.world /\ Reaches(e), st)), LAMBDA vs, s :
         And(EvalAll([i \in DOMAIN e.terms |-> e.terms[i].value], s), LAMBDA ts, t :
           IF e.cap # "db" THEN CallOther(e, vs, t)
           ELSE IF e.on \notin DOMAIN t.rows THEN Stop("stuck", t)
           ELSE CallDb(e, vs, [i \in DOMAIN ts |-> [e.terms[i] EXCEPT !.value = ts[i]]],
                  Quirk("skipped", /\ e.via = "session" /\ e.verb = "update" /\ vs[1].s \notin DOMAIN t.rows[e.on]
                                   /\ <<t.log, t.fresh>> # <<st.log, st.fresh>>, t))))

\* A call of the source as a call of a host.
SourceCall(e) ==
  [cap |-> e.recv, verb |-> e.verb, via |-> "source",
   on |-> IF e.recv = "db" THEN e.args[1].name ELSE "",
   args |-> IF e.recv = "db" THEN Tail(e.args) ELSE e.args,
   terms |-> [i \in DOMAIN e.terms |-> [field |-> e.terms[i].field, op |-> e.terms[i].op, by |-> "sql",
                                        value |-> e.terms[i].value]]]

Literal1(e) == IF e.ty = Str THEN VStr(e.v) ELSE Value(e.ty.k, e.n, "", <<>>)
How(e) == IF "how" \in DOMAIN e THEN e.how ELSE "native"

\* Nodes of the source and of a host.
Eval(e, st) ==
  CASE e.k = "lit"     -> Yield(Literal1(e), st)
    [] e.k = "unit"    -> Yield(VUnit, st)
    [] e.k = "variant" -> Yield(VEnum(e.v), st)
    [] e.k = "ident"   -> IF Holds(st, e.name) THEN Yield(Lookup(st, e.name), st) ELSE Yield(VEnum(e.name), st)
    [] e.k = "var"     -> IF Holds(st, e.name) \/ e.name \in DOMAIN st.vars THEN Yield(Lookup(st, e.name), st)
                          ELSE Stop("reject", st)
    [] e.k = "builtin" -> IF e.v = "Uuid" THEN Yield(VUuid("n" \o ToString(st.fresh)),
                                                     [st EXCEPT !.fresh = @ + 1])
                          ELSE Yield(VTime, st)
    [] e.k = "field"   -> And(Eval(e.e, st), LAMBDA v, s :
                            IF v.ty = "Record" /\ e.field \in DOMAIN v.f
                            THEN Yield(v.f[e.field], s) ELSE Stop("stuck", s))
    [] e.k = "index"   -> And(Eval(e.lhs, st), LAMBDA l, s : And(Eval(e.rhs, s), LAMBDA r, t :
                            IF l.ty = "Json" /\ r.ty = "Str" THEN Yield(VJson, t) ELSE Stop("stuck", t)))
    [] e.k = "binary"  -> And(Eval(e.lhs, st), LAMBDA l, s :
                            IF e.op \in {"&&", "||"} /\ l.ty # "Bool" THEN Stop("stuck", s)
                            ELSE IF Decided(e.op, l) THEN Yield(l, s)
                            ELSE And(Eval(e.rhs, s), LAMBDA r, t : Operate(e.op, How(e), l, r, t)))
    [] e.k = "unary"   -> And(Eval(e.e, st), LAMBDA v, s : Negate(e.op, v, s))
    [] e.k = "cons"    -> IF Holds(st, e.base) THEN EvalFields("", e.base, e.fields, st)
                          ELSE EvalFields(e.base, "", e.fields, st)
    [] e.k = "build"   -> EvalFields(e.record, IF e.base.k = "var" THEN e.base.name ELSE "", e.fields, st)
    [] e.k = "if"      -> And(Eval(e.cond, st), LAMBDA c, s :
                            IF c.ty # "Bool" THEN Stop("stuck", s)
                            ELSE Block(IF c.n = 1 THEN e.then ELSE e.else, s))
    [] e.k = "match"   -> And(Eval(e.e, st), LAMBDA v, s :
                            LET fit == {i \in DOMAIN e.arms : e.arms[i].label \in {v.s, "_"}}
                            IN  IF fit = {} \/ v.ty # "Enum" THEN Stop("stuck", s)
                                ELSE Block(e.arms[CHOOSE i \in fit : \A j \in fit : i <= j].body, s))
    [] e.k = "call"    -> IF e.recv \in DOMAIN Builtins THEN Eval([k |-> "builtin", v |-> e.recv], st)
                          ELSE EvalCall(SourceCall(e), st)
    [] e.k = "verb"    -> EvalCall(e, st)
    [] e.k = "guard"   -> Eval(IF st.world THEN e.world ELSE e.real, st)
    [] e.k = "payload" -> Eval(e.e, st)
    [] e.k = "again"   -> And(Eval(e.e, st), LAMBDA v, s :
                            Yield(v, Quirk("twice", <<s.log, s.fresh>> # <<st.log, st.fresh>>, s)))
    [] e.k = "lost"    -> LET r == Eval(e.e, st)
                          IN  IF r.st.out # "fail" THEN r
                              ELSE Yield(VUnit, Quirk("lost error", TRUE, [r.st EXCEPT !.out = "run"]))
    [] e.k \in {"reject", "pair"} -> Stop("reject", st)
    [] e.k = "panic"   -> Stop("panic", st)

\* A transaction that fails leaves the rows as they were committed.
Transaction(body, st) ==
  LET r == Block(body, [st EXCEPT !.held = TRUE, !.saved = st.rows])
      ends == [r.st EXCEPT !.held = FALSE]
  IN  IF r.st.out = "run" THEN Yield(VUnit, [ends EXCEPT !.saved = ends.rows])
      ELSE Yield(VUnit, [ends EXCEPT !.rows = ends.saved, !.dirty = @ \/ r.st.out = "return"])

\* The queue is checked in the order of the calls, and applied with the deletes last.
Commit(st) ==
  LET kinds(isDelete) == SelectSeq(st.ops, LAMBDA op : (op.verb = "delete") = isDelete)
      before(i) == AfterOps(st.rows, SubSeq(st.ops, 1, i - 1))
      refused == \E i \in DOMAIN st.ops :
                   ~Serve(st.ops[i].verb, st.ops[i].args, {}, before(i)[st.ops[i].on]).ok
      after == AfterOps(AfterOps(st.rows, kinds(FALSE)), kinds(TRUE))
  IN  IF refused THEN Stop("fail", st)
      ELSE Yield(VUnit, Quirk("deletes last", after # AfterOps(st.rows, st.ops),
                              [st EXCEPT !.rows = after, !.saved = after]))

WorldBatch(by, body, st) ==
  LET r == Block(body, [st EXCEPT !.batch = by, !.ops = <<>>])
      c == IF r.st.out = "run" THEN Commit(r.st) ELSE r
  IN  Yield(VUnit, [c.st EXCEPT !.batch = "none", !.ops = <<>>])

Exec(s, st) ==
  CASE s.k = "let"     -> And(Eval(s.e, st), LAMBDA v, t : Yield(VUnit, InBlock(t, s.name, v)))
    [] s.k = "set"     -> And(Eval(s.e, st), LAMBDA v, t : Yield(VUnit, [t EXCEPT !.vars = Put(@, s.name, v)]))
    [] s.k = "assign"  -> And(Eval(s.e, st), LAMBDA v, t :
                            Yield(VUnit, IF s.name \in t.hoisted THEN [t EXCEPT !.vars = Put(@, s.name, v)]
                                         ELSE InBlock(t, s.name, v)))
    [] s.k = "hoist"   -> Yield(VUnit, [st EXCEPT !.hoisted = s.names])
    [] s.k = "expr"    -> Eval(s.e, st)
    [] s.k = "return"  -> IF s.e.k = "none" THEN Stop("return", st)
                          ELSE And(Eval(s.e, st), LAMBDA v, t : Stop("return", [t EXCEPT !.val = v]))
    [] s.k = "fail"    -> And(EvalAll(s.args, st), LAMBDA vs, t : Stop("fail", t))
    [] s.k = "publish" -> And(Eval(s.e, st), LAMBDA v, t : Yield(VUnit, Called("queue", s.stream, <<v>>, t)))
    [] s.k = "tx"      -> Transaction(s.body, st)
    [] s.k = "batch"   -> WorldBatch(s.by, s.body, st)
    [] s.k = "twofold" -> ExecAll(IF st.world THEN s.world ELSE s.real, st)

\* The value of a block is that of the expression it ends with.
ExecAll(ss, st) ==
  IF ss = <<>> THEN Yield(VUnit, st)
  ELSE IF Len(ss) = 1 /\ Head(ss).k = "expr" THEN Exec(Head(ss), st)
  ELSE And(Exec(Head(ss), st), LAMBDA v, t : IF Tail(ss) = <<>> THEN Yield(VUnit, t) ELSE ExecAll(Tail(ss), t))

Execution(stmts, params, env, kind) == ExecAll(stmts, Start(params, env, kind)).st
=============================================================================
