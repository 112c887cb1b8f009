------------------------------ MODULE Compile ------------------------------
(***************************************************************************)
(* The front end of the compiler: a program is expanded, its declarations  *)
(* are built in a fixed order of kinds, the validation passes run, an      *)
(* accepted program is cut into the models of its services, and each       *)
(* backend lowers its handler bodies.                                      *)
(***************************************************************************)
EXTENDS SystemModel

CONSTANTS
  Programs,              \* the programs to compile, each a sequence of declarations
  Lowering(_, _, _),     \* the lowering of a body for a host, from its parameters (Render)
  RunBody(_, _, _, _)    \* what a body does when it runs (Reference)

VARIABLES
  source,    \* the program as written
  phase,     \* "expand" | "build" | "model" | "lower" | "done"
  todo,      \* the declarations still to build, each with the service it is in
  b,         \* the builder
  system,    \* the models of the services that are generated
  targets    \* host -> handler -> the lowered body

vars == <<source, phase, todo, b, system, targets>>

NoSystem == [services |-> <<>>, ports |-> <<>>]

Hosts == {"rust", "python", "go", "ts", "java"}

Rust   == INSTANCE HostRust
Python == INSTANCE HostPython
Go     == INSTANCE HostGo
Ts     == INSTANCE HostTs
Java   == INSTANCE HostJava

\* Each backend renders a body, and says what the class around it needs.
Render(h, params, hir) ==
  CASE h = "rust"   -> Rust!Render(params, hir)
    [] h = "python" -> Python!Render(params, hir)
    [] h = "go"     -> Go!Render(params, hir)
    [] h = "ts"     -> Ts!Render(params, hir)
    [] h = "java"   -> Java!Render(params, hir)

----------------------------------------------------------------------------

Init ==
  /\ source \in Programs
  /\ phase = "expand"
  /\ todo = <<>>
  /\ b = NewBuilder
  /\ system = NoSystem
  /\ targets = [h \in {} |-> <<>>]

ExpandAll ==
  /\ phase = "expand"
  /\ phase' = "build"
  /\ todo' = Schedule(Expand(source))
  /\ b' = FailAll(b, ExpandErrors(source))
  /\ UNCHANGED <<source, system, targets>>

Build(kind) ==
  /\ phase = "build"
  /\ todo # <<>>
  /\ Head(todo).k = kind
  /\ b' = Step(Head(todo), b)
  /\ todo' = Tail(todo)
  /\ UNCHANGED <<source, phase, system, targets>>

\* The passes run whatever the build reported; a program with an error goes no further.
Validate ==
  /\ phase = "build"
  /\ todo = <<>>
  /\ b' = RunPasses(b)
  /\ phase' = IF Accepted(b') THEN "model" ELSE "done"
  /\ UNCHANGED <<source, todo, system, targets>>

\* Every backend starts with the same models (emit, in each lib.rs).
BuildModels ==
  /\ phase = "model"
  /\ system' = BuildSystem(b, Multi(Expand(source)))
  /\ phase' = "lower"
  /\ UNCHANGED <<source, todo, b, targets>>

\* The typed handlers that are in the graph: those that a pipeline names.
Typed(c) == {i \in DOMAIN c.nodes : c.nodes[i].hir # <<>>}

OfTyped(F(_, _, _), h, c) ==
  [i \in Typed(c) |-> F(h, c.nodes[i].hir[1].decl.params, c.nodes[i].hir[1].hir)]

\* A host gets every body, and what the bodies need.
LowerFor(h) ==
  /\ phase = "lower"
  /\ h \notin DOMAIN targets
  /\ targets' = With(targets, h, OfTyped(Lowering, h, b))
  /\ UNCHANGED <<source, phase, todo, b, system>>

Emitted ==
  /\ phase = "lower"
  /\ DOMAIN targets = Hosts
  /\ phase' = "done"
  /\ UNCHANGED <<source, todo, b, system, targets>>

Next ==
  \/ ExpandAll
  \/ \E kind \in Kinds : Build(kind)
  \/ Validate
  \/ BuildModels
  \/ \E h \in Hosts : LowerFor(h)
  \/ Emitted

Spec == Init /\ [][Next]_vars /\ WF_vars(Next)

------------------------------------------------------------------------------
(***************************************************************************)
(* What the front end promises of a program it accepts, and of the code    *)
(* the backends make of the program's bodies.                              *)
(***************************************************************************)

M == INSTANCE Meaning
Reference(stmts, params, env, kind) == M!Execution(stmts, params, env, kind)

Checked  == phase \in {"model", "lower", "done"}
Valid    == Checked /\ Accepted(b)
Finished == phase = "done"

Nodes(c) == DOMAIN c.nodes
Brokers(c, stream) == {e.to : e \in {x \in Range(c.edges) : x.from = stream /\ x.kind = "DependsOn"}}

----------------------------------------------------------------------------
(* The paths of a pipeline: one for each choice of arms. *)

RECURSIVE Paths(_)
Paths(steps) ==
  IF steps = <<>> THEN {<<>>}
  ELSE LET first == IF Head(steps).k = "match"
                    THEN UNION {Paths(a) : a \in Range(Head(steps).arms)}
                    ELSE {<<Head(steps)>>}
       IN  {p \o q : p \in first, q \in Paths(Tail(steps))}

At(path, k) == {i \in DOMAIN path : path[i].k = k}

\* Whatever the arms that are taken, a pipeline of an accepted program authenticates before
\* it does anything else and only for an api, publishes to no stream twice, carries to each
\* stream and to each service it calls the record that is expected there, and finds a broker
\* of its own service behind every stream that it publishes to by name (passes, resolve_step).
PathsAreSound ==
  Valid => \A p \in Range(b.pipelines) : \A path \in Paths(p.steps) :
    LET owner == b.nodes[p.owner] IN
    /\ \A i \in At(path, "auth") : i = 1 /\ owner.kind = "Api"
    /\ \A i, j \in At(path, "publish") : path[i].node = path[j].node => i = j
    /\ \A i \in At(path, "publish") :
         /\ b.nodes[path[i].node].record \in {"", p.payload}
         /\ path[i].node # b.defaultStream =>
              \E q \in Brokers(b, path[i].node) : b.nodes[q].service = owner.service
    /\ \A i \in At(path, "call") : b.nodes[path[i].node].record = p.payload
    /\ owner.scope # "" => At(path, "auth") = {1}

----------------------------------------------------------------------------

FlowRelation(c) == {<<e.from, e.to>> : e \in {x \in Range(c.edges) : x.kind \in Flows}}
NeedRelation(c) == UNION {{<<r, t>> : t \in Needs(c, r)} : r \in RecordNames(c)}

\* A finite relation has a cycle iff something is left when the elements that relate to nothing
\* that is left are taken away again and again.
HasCycle(R, S) ==
  FoldSet(LAMBDA i, left : {x \in left : \E y \in left : <<x, y>> \in R}, S, 1..Cardinality(S)) # {}

\* The two searches are exact: a cycle is reported when and only when some node depends on
\* itself, and the cycle that is reported is one; so no declaration order, and no sharing of
\* paths, hides a cycle (passes/cycles.rs, find_reference_cycles).
CyclesAreFound ==
  Checked =>
    LET found == FoundCycle(b)
    IN  /\ (found # <<>>) = HasCycle(FlowRelation(b), Nodes(b))
        /\ \A i \in DOMAIN found :
             <<found[i], found[IF i = Len(found) THEN 1 ELSE i + 1]>> \in FlowRelation(b)
        /\ ("CyclicReferenceGraph" \in b.diags) = HasCycle(NeedRelation(b), RecordNames(b))

\* What services share is streams and calls: every other edge stays in one service; and a
\* to-one reference of an accepted program is resolved to a table of the same database, so
\* that a foreign key can be declared for it (resolve_one_reference, default_capability).
StorageOf(c, r) == {<<t.service, t.db>> : t \in {x \in Range(c.tables) : x.record = r}}
ServicesApart ==
  Valid =>
    /\ \A e \in Range(b.edges) :
         LET from == b.nodes[e.from]
             to == b.nodes[e.to]
         IN  \/ from.service = to.service
             \/ e.kind = "ServiceCall" /\ to.kind = "Api"
             \/ "Stream" \in {from.kind, to.kind}
    /\ b.pending = <<>>
    /\ \A r \in Range(b.records) : \A f \in Range(r.fields) :
         f.ty.k = "Reference" =>
           /\ TableOf(b, f.ty.table).record = f.ty.target
           /\ StorageOf(b, r.name) \cap StorageOf(b, f.ty.target) # {}

----------------------------------------------------------------------------
(* The services that are generated. *)

Runs(c) == {a.run : a \in c.apis \cup c.workers \cup c.jobs}

\* What a service opens it has, once; it publishes with a broker, and calls with a client.
Provided(c) ==
  LET once(f) == Cardinality({i \in DOMAIN c.instances : c.instances[i].field = f}) = 1
  IN  /\ \A r \in Runs(c) :
           /\ \A f \in r.opens : once(f)
           /\ r.sends # {} => c.queue # ""
           /\ \A call \in r.imports :
                /\ call.service \in DOMAIN c.clients
                /\ \E a \in c.clients[call.service].apis : a.name = call.api
      /\ \A r \in c.resources \cup c.handlers : \A f \in r.access : once(f)

\* A client calls, at the port of the service, what that serves; except an api without a
\* pipeline, and the api of a resource, which have no such route (README, divergences).
Served(c, models) ==
  \A t \in DOMAIN c.clients :
    /\ c.clients[t].port = models[t].port
    /\ \A a \in c.clients[t].apis :
         PipelineOf(b, Find(b, t, "Api", a.name)) = {}
           \/ \E x \in models[t].apis : x.route = a.route /\ x.payload = a.payload

\* What a stream carries comes to each worker that the graph has behind it, each in a group of
\* its own, unless two services have workers of one name (README, divergences).
Receivers(models) == UNION {c.workers \cup c.consumers : c \in Range(models)}
NodeOfReceiver(w) == IF "run" \in DOMAIN w THEN w.run.node ELSE w.node
Arrives(models) ==
  LET wired == {e \in Range(b.edges) : b.nodes[e.from].kind = "Stream" /\ b.nodes[e.to].kind = "Worker"}
      receives(e, w) == NodeOfReceiver(w) = e.to /\ w.subject = b.nodes[e.from].subject
  IN  /\ \A e \in wired : \E w \in Receivers(models) : receives(e, w)
      /\ \A v, w \in Receivers(models) :
           v # w /\ v.subject = w.subject /\ v.group = w.group
             => b.nodes[NodeOfReceiver(v)].name = b.nodes[NodeOfReceiver(w)].name

\* A handler that the user writes is given the record that each of its pipelines carries; a
\* table has each column once; a job runs in production on the days of the simulation, unless
\* they are given as N/step (README, divergences).
Agrees(c) ==
  /\ \A h \in c.handlers : \A p \in Range(b.pipelines) :
       h.node \in HandlerNodes(p.steps) => h.payload \in {"", p.payload}
  /\ \A t \in c.tables : \A i, j \in DOMAIN t.record.selected :
       t.record.selected[i] = t.record.selected[j] => i = j
  /\ \A j \in c.jobs : j.crate \subseteq 1..7 /\ ((\A p \in Range(j.schedule) : ~(Len(p.base) = 1 /\ p.step # <<>>))
       => {day % 7 : day \in j.crate} = SimulatedWeekdays(j.schedule))

\* The code that is generated for the services of an accepted program fits together: every
\* pipeline, but one for a consumer of events, is run by the service that owns it, with
\* instances that the service has exactly once, every call finds the route it was made for,
\* every message its subscribers, and no two containers share a port (build_system,
\* build_scoped).
ServicesFit ==
  Finished /\ Accepted(b) =>
    \A multi \in {Multi(Expand(source))} :
      LET models == system.services
      IN  /\ \A s \in DOMAIN models : Provided(models[s]) /\ Agrees(models[s]) /\ (multi => Served(models[s], models))
          /\ Arrives(models)
          /\ \A p \in {q \in Range(b.pipelines) : q.owner \notin b.eventWorkers} :
               \E s \in DOMAIN models :
                 /\ multi => s = b.nodes[p.owner].service
                 /\ p.owner \in {r.node : r \in Runs(models[s])}
          /\ \A i, j \in DOMAIN system.ports : system.ports[i] = system.ports[j] => i = j

----------------------------------------------------------------------------

Named(c, n) == <<c.nodes[n].kind, c.nodes[n].name,
                 IF c.nodes[n].service = 0 THEN "" ELSE c.services[c.nodes[n].service]>>
Shape(c) == [edges |-> {<<Named(c, e.from), Named(c, e.to), e.kind>> : e \in Range(c.edges)},
             tables |-> {<<t.name, t.record>> : t \in Range(c.tables)},
             payloads |-> {<<p.name, p.payload>> : p \in Range(c.pipelines)}]

SameGraph(c, d) == Accepted(c) /\ Shape(c) = Shape(d)

MoveUp(s, i) == <<s[i]>> \o SubSeq(s, 1, i - 1) \o SubSeq(s, i + 1, Len(s))
Declares1(items, k) == \E d \in Range(items) : d.k = k \/ (d.k = "block" /\ \E x \in Range(d.items) : x.k = k)

\* Declaration order is free (docs/language.md:10): a program with its declarations reversed,
\* or with one of them moved to the front, is accepted too and makes the same graph.  Programs
\* with an `events` declaration are left out, whose streams are declared with the components.
OrderIsFree ==
  Finished /\ Accepted(b) /\ ~Declares1(source, "events") =>
    \A other \in {Reverse(source)} \cup {MoveUp(source, i) : i \in DOMAIN source} :
      SameGraph(Run(other), b)

\* Two expansions of a blueprint do not get in each other's way: if a program is accepted with
\* each of them alone, it is accepted with both, unless they have the type argument or a chosen
\* name in common; then the second is a duplicate (docs/blueprints.md:92-110).
ExpansionsApart ==
  LET places == {i \in DOMAIN source : source[i].k = "expand"}
      without(i) == SubSeq(source, 1, i - 1) \o SubSeq(source, i + 1, Len(source))
      names(i) == {a.v : a \in {x \in Range(source[i].args) : IsString(x.k)}}
      apart == \A i, j \in places : i # j => /\ source[i].arg # source[j].arg
                                            /\ names(i) \cap names(j) = {}
  IN  Finished /\ Cardinality(places) = 2 /\ (\A i \in places : Accepted(Run(without(i))))
        => IF apart THEN Accepted(b) ELSE "DuplicateDeclaration" \in b.diags

----------------------------------------------------------------------------
(* Bodies: what they do when they run. *)

\* Two inputs, each in production and in a simulation, and in production without the cache.
RunKinds ==
  [seed : {0, 1}, world : BOOLEAN, down : {{}}]
    \cup [seed : {0, 1}, world : {FALSE}, down : {{"cache"}}]

BodyOf(i) == b.nodes[i].hir[1]
OfBody(Running(_, _, _, _), stmts, i, kind) ==
  Running(stmts, BodyOf(i).decl.params, EnvOf(b), kind)
RunSource(i, kind)    == OfBody(RunBody, BodyOf(i).decl.body, i, kind)
RunTarget(h, i, kind) == OfBody(RunBody, targets[h][i].body, i, kind)

\* What is known to differ from the source, host by host (README, divergences).
Known ==
  [rust   |-> {"own writes", "early answer", "deletes last", "not rolled back", "another id", "order", "plain text"},
   python |-> {"another id", "twice", "skipped", "fraction", "True", "plain text"},
   go     |-> {"own writes", "early answer", "deletes last", "another id", "another form", "lost error"},
   ts     |-> {"own writes", "early answer", "deletes last", "another id", "order", "infinity", "identity",
               "plain text"},
   java   |-> {"early answer", "deletes last", "another id", "another form", "identity", "unguarded"}]

Sane(r, ret) ==
  /\ r.out # "stuck"
  /\ r.out = "return" => M!HasType(r.val, ret)
  /\ ~r.dirty

\* A run of the source and one of a target.
SameRun(r, t) ==
  /\ t.rows = r.rows
  /\ t.log = r.log
  /\ t.out = (IF r.out = "run" /\ t.out = "return" THEN "return" ELSE r.out)
  /\ r.out = "return" => t.val = r.val

Needed(t, needs) ==
  \A n \in DOMAIN t.log :
    /\ t.log[n].cap \in needs
    /\ t.log[n].cap # "queue" /\ t.log[n].verb # "insert" => (t.log[n].cap \o "." \o t.log[n].verb) \in needs

\* A body that was accepted never goes wrong: no operation meets an operand it is not defined
\* for and no name is unbound, a value that is returned has the declared type, and what a
\* transaction does can be taken back if it fails (check_handler_body, scan_transaction_body).
BodiesRun ==
  Valid => \A i \in Typed(b), kind \in RunKinds : Sane(RunSource(i, kind), BodyOf(i).decl.ret)

\* On each of the five hosts, in production as in a simulation, a body makes the calls it makes
\* in the source, in the same order and with the same arguments, leaves the same rows, and ends
\* the same way with the same value; what a call uses is among the needs that its class was
\* generated for; and no call of a simulation reaches a real service (lower/dispatch.rs,
\* lower/scan.rs, the five lower.rs).  A host whose generator panics on the body, or whose
\* compiler refuses the text, makes no program; and a run that meets a known difference of
\* its host, anywhere on its way, is compared in no other respect than what it needs.
LoweringPreservesMeaning ==
  \A h \in DOMAIN targets : \A i \in DOMAIN targets[h], kind \in RunKinds :
    LET t == RunTarget(h, i, kind)
    IN  t.out \notin {"panic", "reject"} =>
          /\ t.quirks \subseteq Known[h]
          /\ t.quirks = {} => SameRun(RunSource(i, kind), t)
          /\ Needed(t, targets[h][i].needs)
=============================================================================
