---------------------------- MODULE SystemModel ----------------------------
(***************************************************************************)
(* What every backend is given to fill its templates from: the graph of an *)
(* accepted program, cut into one model for each service.  A program that  *)
(* declares no service blocks is one service, of everything (scope 0).     *)
(***************************************************************************)
EXTENDS FrontEnd

Snake(name) == Kebab(name)
Suffixed(base, name) == IF name = "default" THEN base ELSE base \o "_" \o Snake(name)

\* What a service delivers is its own; of what it uses it also has what no service declares.
OwnedBy(service, scope) == scope \in {0, service}
InfraInScope_FaultyAll(service, scope) == TRUE
InfraInScope(service, scope) == scope = 0 \/ service \in {0, scope}

Own(b, kind, scope) ==
  {i \in DOMAIN b.nodes : b.nodes[i].kind = kind /\ OwnedBy(b.nodes[i].service, scope)}
Capabilities(b, kind, scope) ==
  SelectSeq([i \in DOMAIN b.nodes |-> i],
            LAMBDA i : b.nodes[i].kind = kind /\ InfraInScope(b.nodes[i].service, scope))

----------------------------------------------------------------------------
(* Instances of capabilities, and the fields that hold them. *)

StateBase == [Database |-> "db", Cache |-> "cache", ObjectStore |-> "object_store", Email |-> "email",
              Search |-> "search", ExternalHttp |-> "http"]

\* A client of another server is always called by its name.
StateField(node) ==
  IF node.kind = "ExternalHttp" THEN "http_" \o Snake(node.name)
  ELSE Suffixed(StateBase[node.kind], node.name)

\* The port by which a container is reached from outside; others have none.
PortBase == [Postgres |-> 5432, MySQL |-> 3306, Redis |-> 6379, SES |-> 8025, SMTP |-> 8025]

InstanceCtx(b, i) == [node |-> i, field |-> StateField(b.nodes[i]), provider |-> b.nodes[i].subject]
InstancesOf(b, kind, scope) ==
  LET nodes == Capabilities(b, kind, scope) IN [i \in DOMAIN nodes |-> InstanceCtx(b, nodes[i])]
Instances(b, scope) ==
  InstancesOf(b, "Email", scope) \o InstancesOf(b, "Database", scope) \o InstancesOf(b, "Cache", scope)
    \o InstancesOf(b, "ObjectStore", scope) \o InstancesOf(b, "Search", scope)
    \o InstancesOf(b, "ExternalHttp", scope)

----------------------------------------------------------------------------
(* Handlers: what they are called with comes from the edges of the graph,  *)
(* or, where the handler has a body, from the calls in it.                 *)

BindingsOf(b, n) ==
  LET flows == SelectSeq(b.edges, LAMBDA e : e.from = n /\ e.kind = "DataFlow")
  IN  [i \in DOMAIN flows |-> flows[i].to]
HirBindings(b, n) ==
  LET home == [b EXCEPT !.cur = b.nodes[n].service]
  IN  SetToSeq({DefaultCapability(home, KindOf[cap]) : cap \in TouchedBlock(b.nodes[n].hir[1].hir)})

\* Of several databases, and of several caches, a handler is given the first.
Access(b, nodes) ==
  LET kind(i) == b.nodes[nodes[i]].kind
      behind(i) == kind(i) \in {"Database", "Cache"} /\ \E j \in 1..(i - 1) : kind(j) = kind(i)
  IN  {StateField(b.nodes[nodes[i]]) : i \in {j \in DOMAIN nodes : kind(j) \in DOMAIN StateBase /\ ~behind(j)}}

HandlerRef(b, n) ==
  LET typed == b.nodes[n].hir # <<>>
  IN  [node |-> n, module |-> Snake(b.nodes[n].name), typed |-> typed,
       inline |-> typed /\ b.nodes[n].hir[1].decl.form = "body",
       access |-> Access(b, IF typed THEN HirBindings(b, n) ELSE BindingsOf(b, n))]

RECURSIVE AllSteps(_)
AllSteps(steps) ==
  Range(steps) \cup UNION {UNION {AllSteps(a) : a \in Range(s.arms)} : s \in Range(steps)}
StepNodes(steps, kind) == {s.node : s \in {x \in AllSteps(steps) : x.k = kind}}
HandlerNodes(steps) == StepNodes(steps, "handler")
CallNodes_FaultyNotInArms(steps) == {s.node : s \in {x \in Range(steps) : x.k = "call"}}
CallNodes(steps) == StepNodes(steps, "call")

OwnPipelines(b, scope) == {p \in Range(b.pipelines) : OwnedBy(b.nodes[p.owner].service, scope)}

\* The record that all the pipelines which use a handler carry, or nothing.
HandlerPayload(b, n, scope) ==
  LET carried == {p.payload : p \in {q \in OwnPipelines(b, scope) : n \in HandlerNodes(q.steps)}}
  IN  IF Cardinality(carried) = 1 THEN CHOOSE r \in carried : TRUE ELSE ""

\* A handler without a body is a function for the user to fill in.
ServiceCtx(b, n, scope) ==
  [node |-> n, payload |-> HandlerPayload(b, n, scope), access |-> Access(b, BindingsOf(b, n))]

----------------------------------------------------------------------------
(* Records, as the rows of tables.  A reference is stored as the key of its target; an insert   *)
(* names the columns with the id in front, an update binds it last.                            *)

ColumnName(f) == IF f.ty.k = "Reference" THEN f.name \o "_id" ELSE f.name
RecordCtx(b, name) ==
  LET fields == RecordOf(b, name).fields
      columns == [i \in DOMAIN fields |-> ColumnName(fields[i])]
      others == SelectSeq(columns, LAMBDA c : c # "id")
  IN  [name |-> name, hasId |-> "id" \in Range(columns), selected |-> <<"id">> \o others,
       bound |-> others \o <<"id">>,
       enums |-> {f.name : f \in {x \in Range(fields) : x.ty.k = "Enum"}}]
TableCtx(b, t) == [name |-> t.name, table |-> Snake(t.name), record |-> RecordCtx(b, t.record)]

----------------------------------------------------------------------------
(* What runs: the routes, workers, jobs, channels, consumers of events, resources. *)

StreamSubject(b, i) == b.nodes[i].subject
QueueGroup(b, n) == Snake(b.nodes[n].name)

\* An api without a path of its own, which a resource's never has, is found under its name.
Route(b, api) ==
  IF b.nodes[api].subject # "" THEN b.nodes[api].subject ELSE "POST /" \o Kebab(b.nodes[api].name)

CallCtx(b, target) == [service |-> b.nodes[target].service, api |-> b.nodes[target].name]

\* What an api, a worker or a job needs for its pipeline: the handlers, the imports, the
\* instances it opens.
StepsOf(b, owner) ==
  LET steps == UNION {Range(p.steps) : p \in PipelineOf(b, owner)}
      all == UNION {AllSteps(p.steps) : p \in PipelineOf(b, owner)}
      handlers == {HandlerRef(b, s.node) : s \in {x \in all : x.k = "handler"}}
  IN  [node |-> owner, handlers |-> handlers, opens |-> UNION {h.access : h \in handlers},
       sends |-> {StreamSubject(b, s.node) : s \in {x \in all : x.k = "publish"}},
       imports |-> {CallCtx(b, s.node) : s \in {x \in all : x.k = "call"}},
       authenticates |-> \E s \in steps : s.k = "auth"]

ApiCtx(b, n)      == [run |-> StepsOf(b, n), route |-> Route(b, n), payload |-> b.nodes[n].record,
                      scope |-> b.nodes[n].scope]
Consumed(b, n)    == LET into == SelectSeq(b.edges, LAMBDA e : e.to = n /\ e.kind = "AsyncMessage")
                     IN  IF into = <<>> THEN "" ELSE StreamSubject(b, into[1].from)
WorkerCtx(b, n)   == [run |-> StepsOf(b, n), group |-> QueueGroup(b, n),
                      subject |-> IF Consumed(b, n) = "" THEN DefaultSubject(b, "Events") ELSE Consumed(b, n)]
ConsumerCtx(b, n) == [node |-> n, group |-> QueueGroup(b, n), subject |-> Consumed(b, n)]

\* The crate that Rust runs jobs with has no day 0: Sunday is 7, and ranges are written out.
WeekdayPartValues(p) ==
  LET open == p.base = <<>> \/ (Len(p.base) = 1 /\ p.step # <<>>)
      from == IF p.base = <<>> THEN 0 ELSE p.base[1]
  IN  {day \in from..(IF open THEN 7 ELSE Last(p.base)) :
         \A step \in Range(p.step) : (day - from) % step = 0}
CronCrateWeekdays(weekdays) ==
  {IF day = 0 THEN 7 ELSE day : day \in UNION {WeekdayPartValues(p) : p \in Range(weekdays)}}

\* The simulator parses the line itself: a step after a single value is not a range to it.
ParseField(p, min, max) ==
  LET from == IF p.base = <<>> THEN min ELSE p.base[1]
  IN  {value \in from..(IF p.base = <<>> THEN max ELSE Last(p.base)) :
         \A step \in Range(p.step) : (value - from) % step = 0}
SimulatedWeekdays(weekdays) ==
  {day % 7 : day \in UNION {ParseField(p, 0, 7) : p \in Range(weekdays)}}

JobCtx(b, n)      == [run |-> StepsOf(b, n), schedule |-> b.nodes[n].schedule,
                      crate |-> CronCrateWeekdays(b.nodes[n].schedule)]

ChannelCtx(b, n)  == [node |-> n, subject |-> Consumed(b, n), path |-> b.nodes[n].subject]
ResourceCtx(b, r) == [node |-> r.api, route |-> "/" \o Snake(b.nodes[r.api].name) \o "s",
                      access |-> Access(b, BindingsOf(b, r.api + 1)), record |-> b.nodes[r.api].record]

Apis(b, scope)      == {i \in Own(b, "Api", scope) : PipelineOf(b, i) # {}}
Classic(b, scope)   == {n \in Own(b, "Service", scope) :
                          b.nodes[n].hir = <<>> /\ \A r \in Range(b.resources) : n # r.api + 1}
Workers(b, scope)   == Own(b, "Worker", scope) \ b.eventWorkers
Consumers(b, scope) == Own(b, "Worker", scope) \cap b.eventWorkers
Channels(b, scope)  == {i \in Own(b, "Channel", scope) : Consumed(b, i) # ""}
Resources(b, scope) == {r \in Range(b.resources) : OwnedBy(b.nodes[r.api].service, scope)}

\* One client for each service that is called, with a method for each of the apis called.
CallTargets(b, scope) ==
  LET called == UNION {CallNodes(p.steps) : p \in OwnPipelines(b, scope)}
      of(s) == {i \in called : b.nodes[i].service = s}
  IN  [s \in {b.nodes[i].service : i \in called} \ {0} |->
         [port |-> 8000 + s - 1,
          apis |-> {[name |-> b.nodes[i].name, route |-> Route(b, i),
                     payload |-> IF PipelineOf(b, i) = {} THEN "" ELSE b.nodes[i].record] : i \in of(s)}]]

----------------------------------------------------------------------------

BuildScoped(b, scope, port) ==
  [port |-> port, instances |-> Instances(b, scope),
   queue |-> LET brokers == Capabilities(b, "Queue", scope)
             IN  IF brokers = <<>> THEN "" ELSE b.nodes[brokers[1]].subject,
   apis |-> {ApiCtx(b, n) : n \in Apis(b, scope)},
   workers |-> {WorkerCtx(b, n) : n \in Workers(b, scope)},
   jobs |-> {JobCtx(b, n) : n \in Own(b, "Job", scope)},
   channels |-> {ChannelCtx(b, n) : n \in Channels(b, scope)},
   consumers |-> {ConsumerCtx(b, n) : n \in Consumers(b, scope)},
   resources |-> {ResourceCtx(b, r) : r \in Resources(b, scope)},
   handlers |-> {ServiceCtx(b, n, scope) : n \in Classic(b, scope)},
   tables |-> {TableCtx(b, t) : t \in {x \in Range(b.tables) : OwnedBy(x.service, scope)}},
   records |-> {RecordCtx(b, r) : r \in RecordNames(b)},
   clients |-> CallTargets(b, scope)]

\* Outside ports are counted up through the services, from a base for each kind of server.
Ported(models) ==
  LET all == FlattenSeq([s \in DOMAIN models |-> models[s].instances])
      counted(i) == {j \in 1..i : all[j].provider \in DOMAIN PortBase
                                    /\ PortBase[all[j].provider] = PortBase[all[i].provider]}
  IN  [i \in {j \in DOMAIN all : all[j].provider \in DOMAIN PortBase} |->
         PortBase[all[i].provider] + Cardinality(counted(i)) - 1]

BuildSystem(b, multi) ==
  LET models == IF ~multi THEN <<BuildScoped(b, 0, 8000)>>
                ELSE [s \in DOMAIN b.services |-> BuildScoped(b, s, 8000 + s - 1)]
  IN  [services |-> models, ports |-> Ported(models)]
=============================================================================
