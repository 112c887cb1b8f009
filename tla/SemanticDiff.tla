---------------------------- MODULE SemanticDiff ----------------------------
(***************************************************************************)
(* The canonical model of a program: what a baseline records and what two  *)
(* versions of a program are compared by, and the classified changes from  *)
(* one to the other.  Everything has a logical key, <<service, kind, name>> *)
(* with "" for no service, so that a model does not depend on the order of *)
(* the declarations.  Equal models stand for equal semantic hashes.  A     *)
(* handler's digest is its typed body; here the body names its records and *)
(* tables, where the code has their positions.                             *)
(***************************************************************************)
EXTENDS FrontEnd

ServiceName(b, id) == IF id = 0 THEN "" ELSE b.services[id]

ServiceKey(name)       == <<name, "service">>
RecordKey(name)        == <<"", "record", name>>
FieldKey(record, name) == <<"", "record", record, name>>
TableKey(b, t)         == <<ServiceName(b, t.service), "table", t.name>>
NodeKey(b, i) == <<ServiceName(b, b.nodes[i].service), b.nodes[i].kind, b.nodes[i].name>>

\* Nodes of one kind of model, by key; a key that two nodes share is the last one's.
ByKey(b, is, Of(_)) ==
  [k \in {NodeKey(b, i) : i \in is} |->
     Of(CHOOSE i \in is : NodeKey(b, i) = k /\ \A j \in is : NodeKey(b, j) = k => j <= i)]

NodesOf(b, kind) == {i \in DOMAIN b.nodes : b.nodes[i].kind = kind}

RECURSIVE StepModels(_, _)
StepModels(b, steps) ==
  [i \in DOMAIN steps |->
     [step |-> steps[i].k,
      node |-> IF steps[i].node = 0 THEN <<>> ELSE NodeKey(b, steps[i].node),
      arms |-> [a \in DOMAIN steps[i].arms |-> StepModels(b, steps[i].arms[a])]]]

PipelineModels(b) ==
  {[key |-> NodeKey(b, p.owner), service |-> NodeKey(b, p.owner)[1], payload |-> p.payload,
    steps |-> StepModels(b, p.steps)] : p \in Range(b.pipelines)}

Signature(b, i) ==
  LET sig == b.nodes[i].hir[1]
  IN  [params |-> sig.decl.params, ret |-> sig.decl.ret, digest |-> sig.hir]

FromIr(b) ==
  LET node(i) == b.nodes[i]
      rest == DOMAIN b.nodes \ (NodesOf(b, "Api") \cup NodesOf(b, "Stream") \cup NodesOf(b, "Channel"))
      typed == {i \in NodesOf(b, "Service") : node(i).hir # <<>>}
  IN  [name     |-> b.name,
       services |-> Range(b.services),
       records  |-> [r \in RecordNames(b) |->
                       [f \in {g.name : g \in Range(RecordOf(b, r).fields)} |->
                          (CHOOSE g \in Range(RecordOf(b, r).fields) : g.name = f).ty]],
       tables   |-> [k \in {TableKey(b, t) : t \in Range(b.tables)} |-> TableOf(b, k[3]).record],
       routes   |-> ByKey(b, NodesOf(b, "Api"),
                          LAMBDA i : [at |-> node(i).subject, scope |-> node(i).scope,
                                      request |-> node(i).record]),
       streams  |-> ByKey(b, NodesOf(b, "Stream"),
                          LAMBDA i : [subject |-> node(i).subject, record |-> node(i).record]),
       channels |-> {NodeKey(b, i) : i \in NodesOf(b, "Channel")},
       capabilities |-> ByKey(b, rest, LAMBDA i : node(i).subject),
       handlers |-> ByKey(b, typed, LAMBDA i : Signature(b, i)),
       pipelines |-> PipelineModels(b),
       edges    |-> {[kind |-> e.kind, from |-> NodeKey(b, e.from), to |-> NodeKey(b, e.to)] :
                       e \in Range(b.edges)}]

----------------------------------------------------------------------------
\* Pairs <<s, t>> of service names where s is a proper prefix of t: a key is matched to a
\* service by the beginning of its text.
CONSTANT NamePrefixes

Change(kind, class, key, consumers) ==
  [kind |-> kind, class |-> class, key |-> key, consumers |-> consumers, backfill |-> FALSE]
Changes(kind, class, keys) == {Change(kind, class, k, {}) : k \in keys}

Both(f, g) == DOMAIN f \cap DOMAIN g
Only(f, g) == DOMAIN f \ DOMAIN g

----------------------------------------------------------------------------
(* Who else depends on a contract, in one model. *)

CallsOf_FaultyOutermost(steps) == {s.node : s \in {x \in Range(steps) : x.step = "call"}}

RECURSIVE CallsOf(_)
CallsOf(steps) ==
  UNION {IF s.step = "call" THEN {s.node}
         ELSE UNION {CallsOf(s.arms[a]) : a \in DOMAIN s.arms} : s \in Range(steps)}

Consumer(kind, service, contract) == [kind |-> kind, service |-> service, contract |-> contract]

\* The other services whose pipelines call a route.
RouteCallers(m, route) ==
  {Consumer("service_call", p.service, route[3]) :
     p \in {q \in m.pipelines : /\ q.service \notin {"", route[1]}
                                /\ route \in CallsOf(q.steps)}}

Messages(m)   == {e \in m.edges : e.kind = "AsyncMessage"}
StreamProducers(m, stream) == {e.from[1] : e \in {x \in Messages(m) : x.to = stream}} \ {""}

\* A service that publishes to a stream is not counted among its consumers.
StreamConsumers(m, stream) ==
  {Consumer("stream_consumer", s, stream[3]) :
     s \in {e.to[1] : e \in {x \in Messages(m) : x.from = stream}} \ ({""} \cup StreamProducers(m, stream))}

RecordConsumers(m, record) ==
  UNION {RouteCallers(m, r) : r \in {k \in DOMAIN m.routes : m.routes[k].request = record}}
    \cup UNION {StreamConsumers(m, s) : s \in {k \in DOMAIN m.streams : m.streams[k].record = record}}

IsTableBacked(m, record) == \E t \in DOMAIN m.tables : m.tables[t] = record

----------------------------------------------------------------------------
(* One comparison for each collection of the model. *)

DiffFields(old, new, r) ==
  LET before == old.records[r]
      after == new.records[r]
      read == RecordConsumers(old, r)
      added == IF IsTableBacked(new, r)
               THEN {[Change("table.column.added_required", "Breaking", FieldKey(r, f), {})
                        EXCEPT !.backfill = TRUE] : f \in Only(after, before)}
               ELSE Changes("record.field.added", "Additive", {FieldKey(r, f) : f \in Only(after, before)})
  IN  {Change("record.field.removed", "Breaking", FieldKey(r, f), read) : f \in Only(before, after)}
        \cup {Change("record.field.retyped", "Breaking", FieldKey(r, f), read) :
                f \in {g \in Both(before, after) : before[g] # after[g]}}
        \cup added

RecordRemoved(old, r) ==
  LET read == RecordConsumers(old, r)
  IN  Change("record.removed", IF read = {} THEN "Internal" ELSE "Breaking", RecordKey(r), read)

DiffRecords(old, new) ==
  {RecordRemoved(old, r) : r \in Only(old.records, new.records)}
    \cup Changes("record.added", "Additive", {RecordKey(r) : r \in Only(new.records, old.records)})
    \cup UNION {DiffFields(old, new, r) : r \in Both(old.records, new.records)}

\* A request that is another record than before is no change here.
DiffRoute(old, new, k) ==
  LET before == old.routes[k]
      after == new.routes[k]
      found(cond, kind, class) == IF cond THEN {Change(kind, class, k, RouteCallers(old, k))} ELSE {}
      typed(r) == r.request # ""
  IN  found(before.at # after.at, "route.method_or_path.changed", "Breaking")
        \cup found(~typed(before) /\ typed(after), "route.request.became_typed", "Breaking")
        \cup found(typed(before) /\ ~typed(after), "route.request.became_untyped", "Additive")
        \cup found(before.scope = "" /\ after.scope # "", "route.scope.added", "Breaking")
        \cup found(before.scope # "" /\ after.scope \notin {"", before.scope}, "route.scope.changed", "Breaking")
        \cup found(before.scope # "" /\ after.scope = "", "route.scope.removed", "Additive")

DiffRoutes(old, new) ==
  {Change("route.removed", "Breaking", k, RouteCallers(old, k)) : k \in Only(old.routes, new.routes)}
    \cup UNION {DiffRoute(old, new, k) : k \in Both(old.routes, new.routes)}
    \cup Changes("route.added", "Additive", Only(new.routes, old.routes))

StreamRemoved(old, k) ==
  LET read == StreamConsumers(old, k)
  IN  Change("stream.removed", IF read = {} THEN "Internal" ELSE "Breaking", k, read)

DiffStream(old, new, k) ==
  LET read == StreamConsumers(old, k)
      found(cond, kind) == IF cond THEN {Change(kind, "Breaking", k, read)} ELSE {}
  IN  found(old.streams[k].subject # new.streams[k].subject, "stream.subject.changed")
        \cup found(old.streams[k].record # new.streams[k].record, "stream.payload.changed")
        \cup found(/\ StreamProducers(old, k) # {} /\ StreamProducers(new, k) = {}
                   /\ read # {}, "stream.last_producer.removed")

DiffStreams(old, new) ==
  {StreamRemoved(old, k) : k \in Only(old.streams, new.streams)}
    \cup UNION {DiffStream(old, new, k) : k \in Both(old.streams, new.streams)}
    \cup Changes("stream.added", "Additive", Only(new.streams, old.streams))

\* A table that stores another record than before is no change here.
DiffTables(old, new) ==
  Changes("table.removed", "Breaking", Only(old.tables, new.tables))
    \cup Changes("table.added", "Additive", Only(new.tables, old.tables))

DiffChannels(old, new) ==
  Changes("channel.removed", "Breaking", old.channels \ new.channels)
    \cup Changes("channel.added", "Additive", new.channels \ old.channels)

\* Streams belong to no service, so a service's surface is its routes.
DiffServices(old, new) ==
  LET public(s) == \E k \in DOMAIN old.routes : k[1] = s
  IN  {Change("service.removed", IF public(s) THEN "Breaking" ELSE "Additive", ServiceKey(s), {}) :
         s \in old.services \ new.services}
        \cup Changes("service.added", "Additive", {ServiceKey(s) : s \in new.services \ old.services})

DiffCapabilities(old, new) ==
  Changes("capability.removed", "Internal", Only(old.capabilities, new.capabilities))
    \cup Changes("capability.added", "Internal", Only(new.capabilities, old.capabilities))
    \cup Changes("capability.config_changed", "Internal",
                 {k \in Both(old.capabilities, new.capabilities) :
                    old.capabilities[k] # new.capabilities[k]})

\* Only the body is compared, and only of a handler that was there before.
DiffHandlers(old, new) ==
  Changes("handler.body_changed", "Internal",
          {k \in Both(old.handlers, new.handlers) : old.handlers[k].digest # new.handlers[k].digest})

----------------------------------------------------------------------------

\* Under a removed service nothing else is reported.
Under(key, service) == key[1] = service \/ <<service, key[1]>> \in NamePrefixes
Suppress(changes) ==
  LET gone == {c.key[1] : c \in {x \in changes : x.kind = "service.removed"}}
  IN  {c \in changes : c.kind = "service.removed" \/ ~\E s \in gone : Under(c.key, s)}

\* Pipelines are part of a model, and are not compared.
DiffModels(old, new) ==
  Suppress(DiffServices(old, new) \cup DiffRecords(old, new) \cup DiffTables(old, new)
             \cup DiffRoutes(old, new) \cup DiffStreams(old, new) \cup DiffChannels(old, new)
             \cup DiffCapabilities(old, new) \cup DiffHandlers(old, new))

Breaks(changes) == \E c \in changes : c.class = "Breaking"
=============================================================================
