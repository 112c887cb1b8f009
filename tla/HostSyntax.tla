----------------------------- MODULE HostSyntax -----------------------------
(***************************************************************************)
(* What a backend supplies to the shared lowering, and what it builds: the *)
(* nodes of a target program.  A backend (HostRust, HostPython, HostGo,    *)
(* HostTs, HostJava) defines one operator for each method of the           *)
(* HostSyntax trait, under the method's name, and instantiates Lower,      *)
(* whose parameters those operators are.                                   *)
(*                                                                         *)
(* A node is what its text means to the host: how an operator treats its   *)
(* operands, whether a variable belongs to the function or to the block,   *)
(* and by which way (via) a call goes out:                                 *)
(*   "pool"      the database, committed at once                           *)
(*   "tx"        the database, on the transaction held                     *)
(*   "session"   the database, through the one session of the request      *)
(*   "jdbc"      the database, on the connection of the transaction, if    *)
(*               one is open                                               *)
(*   "world"     the simulated world                                       *)
(*   "queue"     the list of operations a simulated transaction commits    *)
(*   "service"   any other service                                         *)
(*   "injected"  an object that is the service or its fake, as constructed *)
(***************************************************************************)
EXTENDS TypeCheck, TLC

Unbuilt == [k |-> "panic"]           \* the generator panics
Nothing == [k |-> "none"]            \* no value

Var(name)           == [k |-> "var", name |-> name]
Select(e, field)    == [k |-> "field", e |-> e, field |-> field]
At(base, key)       == [k |-> "index", lhs |-> base, rhs |-> key]
Variant(h)          == [k |-> "variant", v |-> h.v]
NewUuid             == [k |-> "builtin", v |-> "Uuid"]
Now                 == [k |-> "builtin", v |-> "Timestamp"]
Built(name, fields, base) == [k |-> "build", record |-> name, fields |-> fields, base |-> base]

\* how: "native", or what the host does instead.
Operator(op, how, l, r) == [k |-> "binary", op |-> op, how |-> how, lhs |-> l, rhs |-> r]
Prefixed(op, e)         == [k |-> "unary", op |-> op, e |-> e]

Branch(c, then, else) == [k |-> "if", cond |-> c, then |-> then, else |-> else]
Switch(e, arms)       == [k |-> "match", e |-> e, arms |-> arms]

Db(via, verb, table, args, terms) ==
  [k |-> "verb", cap |-> "db", verb |-> verb, on |-> table, args |-> args, terms |-> terms, via |-> via]
Ask(via, cap, verb, args) ==
  [k |-> "verb", cap |-> cap, verb |-> verb, on |-> "", args |-> args, terms |-> <<>>, via |-> via]
Guard(world, real) == [k |-> "guard", world |-> world, real |-> real]
Guarded(cap, verb, args) == Guard(Ask("world", cap, verb, args), Ask("service", cap, verb, args))

\* What is stored for a value: its JSON, its plain text, or an object around it.
Payload(form, e) == [k |-> "payload", form |-> form, e |-> e]

\* A term of a predicate: compared by the database, or by generated code that compares only
\* numbers ("numbers") or whatever it finds ("values").
Compared(by, t) == [field |-> t.field, op |-> t.op, by |-> by, value |-> t.value]
ComparedBy(by, terms) == [i \in DOMAIN terms |-> Compared(by, terms[i])]

\* The text of an expression that is written once more; a text the host's compiler refuses; a
\* value with an error, which is refused inside an expression; a call whose error is dropped.
Again(e) == [k |-> "again", e |-> e]
Refused  == [k |-> "reject"]
Pair(e)  == [k |-> "pair", e |-> e]
Lost(e)  == [k |-> "lost", e |-> e]

Let(name, e)   == [k |-> "let", name |-> name, e |-> e]
\* An assignment to a name of the function; to a name that is hoisted, or else is new.
SetOrLet(name, e) == [k |-> "assign", name |-> name, e |-> e]
Hoist(names)   == [k |-> "hoist", names |-> names]
Set(name, e)   == [k |-> "set", name |-> name, e |-> e]
Do(e)          == [k |-> "expr", e |-> e]
Return(e)      == [k |-> "return", e |-> e]
Fail(e, args)  == [k |-> "fail", error |-> e, args |-> args]
Publish(s, e)  == [k |-> "publish", stream |-> s, e |-> e]
Twofold(world, real) == [k |-> "twofold", world |-> world, real |-> real]
Held(body)     == [k |-> "tx", body |-> body]
Batch(by, body) == [k |-> "batch", by |-> by, body |-> body]

----------------------------------------------------------------------------
(* Where a value goes. *)

AssignTo(name) == [to |-> "assign", name |-> name]
ReturnIt_FaultyFallsThrough == [to |-> "discard"]
ReturnIt == [to |-> "return"]
Discard  == [to |-> "discard"]

\* The methods of the other orientation, which the walk never reaches.
Unreached1(a) == Unbuilt
Unreached2(a, b) == Unbuilt
Unreached3(a, b, c) == Unbuilt
Unreached4(a, b, c, d) == Unbuilt
Unreached5(a, b, c, d, e) == Unbuilt

ApplyDest(dest, e, Assign(_, _), ReturnStmt(_), DiscardStmt(_)) ==
  CASE dest.to = "assign"  -> <<Assign(dest.name, e)>>
    [] dest.to = "return"  -> <<ReturnStmt(e)>>
    [] dest.to = "discard" -> <<DiscardStmt(e)>>

----------------------------------------------------------------------------
(* The scan for what a body needs: the fields and imports of its class, and the calls *)
(* a simulation cannot fake.  One walk serves every backend.                          *)

RECURSIVE ScanBlock(_), ScanExpr(_)

ScanAll(hs) == UNION {ScanExpr(h) : h \in Range(hs)}

ScanBlock(stmts) ==
  UNION {CASE s.k \in {"let", "expr"} -> ScanExpr(s.e)
           [] s.k = "return"  -> IF s.e.k = "none" THEN {} ELSE ScanExpr(s.e)
           [] s.k = "fail"    -> ScanAll(s.args)
           [] s.k = "publish" -> {"queue"} \cup ScanExpr(s.e)
           [] s.k = "tx"      -> ScanBlock(s.body)
         : s \in Range(stmts)}

\* insert is the only call that is always faked.
VerbNeeds(h) == {h.cap} \cup (IF h.verb = "insert" THEN {} ELSE {h.cap \o "." \o h.verb})

ScanExpr(h) ==
  CASE h.k \in {"local", "lit", "variant"} -> {}
    [] h.k = "builtin" -> {h.v}
    [] h.k \in {"field", "unary"}   -> ScanExpr(h.e)
    [] h.k \in {"index", "binary"}  -> ScanExpr(h.lhs) \cup ScanExpr(h.rhs)
    [] h.k = "cons"    -> ScanAll([i \in DOMAIN h.fields |-> h.fields[i].value])
    [] h.k = "if"      -> ScanExpr(h.cond) \cup ScanBlock(h.then) \cup ScanBlock(h.else)
    [] h.k = "match"   -> ScanExpr(h.e) \cup UNION {ScanBlock(a.body) : a \in Range(h.arms)}
    [] h.k = "verb"    -> VerbNeeds(h) \cup ScanAll(h.args)
    [] h.k = "query"   -> VerbNeeds(h) \cup ScanAll([i \in DOMAIN h.terms |-> h.terms[i].value])

Scan(stmts) == ScanBlock(stmts)
=============================================================================
