------------------------------- MODULE Wiring -------------------------------
(***************************************************************************)
(* The declarations that add components to the graph, and the pipelines    *)
(* that connect them.  Like the builder's other operators these take a     *)
(* declaration and the builder's state.                                    *)
(***************************************************************************)
EXTENDS Builder

CONSTANT CheckBody(_, _)   \* the body checker, from a handler and what the graph declares (TypeCheck)

NeedQueue(b) == NeedDefault(b, "Queue")

----------------------------------------------------------------------------
(* Streams. *)

DefaultSubject(b, name) == Kebab(b.name) \o "." \o Kebab(name)

\* A subject in use is reported and the stream is there all the same; a later stream takes
\* over a name.  Streams belong to no service.
AddStream(name, record, subject, queue, b) ==
  LET c == FailIf(subject \in b.subjects, b, "DuplicateDeclaration")
      d == AddNode([c EXCEPT !.subjects = @ \cup {subject}],
                   [NodeOf("Stream", name, 0) EXCEPT !.record = record, !.subject = subject])
      e == [d EXCEPT !.streams = With(@, name, Newest(d))]
  IN  IF queue = 0 THEN e ELSE AddEdge(e, Newest(e), queue, "DependsOn")

\* In a program of several services a stream has no broker until somebody uses it.
BuildStream(d, needsQueue, b) ==
  LET c == NeedRecord(Register(d, "Stream", b), d.record)
      e == IF needsQueue THEN NeedQueue(c) ELSE c
      queue == IF needsQueue THEN DefaultCapability(b, "Queue") ELSE 0
      subject == AttrValue("stream", d.attrs, "subject", TRUE, DefaultSubject(b, d.name))
  IN  IF Taken(d, b) THEN Fail(b, "DuplicateDeclaration")
      ELSE IF needsQueue /\ queue = 0 THEN e
      ELSE AddStream(d.name, KnownRecord(b, d.record), subject, queue,
                     FailAll(e, AttrCodes("stream", d.attrs, TRUE)))

\* The stream of `Queue` steps and of workers that name none: one for the program.
WithDefaultStream(b, queue) ==
  IF b.defaultStream # 0 THEN b
  ELSE LET c == AddStream("Events", "", DefaultSubject(b, "Events"), queue, b)
       IN  [c EXCEPT !.defaultStream = Newest(c)]

StreamOf(b, name) == IF name \in DOMAIN b.streams THEN b.streams[name] ELSE 0

\* Using a stream takes the broker of the service that uses it.
UseStream(stream, b) ==
  LET c == NeedQueue(b)
      queue == DefaultCapability(b, "Queue")
  IN  IF queue = 0 THEN c ELSE AddEdge(c, stream, queue, "DependsOn")

----------------------------------------------------------------------------
(* Components. *)

BuildApi(d, b) ==
  LET request == KnownRecord(b, d.request)
      value(a, default) == AttrValue("api", d.attrs, a, TRUE, default)
      method == value("method", "POST")
      path == value("path", "/" \o Kebab(d.name))
      c == FailAll(NeedRecord(Register(d, "Api", b), d.request),
                   AttrCodes("api", d.attrs, TRUE))
      e == FailIf(request # "" /\ method \in {"GET", "DELETE"}, c, "InvalidAttributeValue")
      f == FailIf(path \in b.paths, [e EXCEPT !.paths = @ \cup {path}], "DuplicateDeclaration")
  IN  IF Taken(d, b) THEN Fail(b, "DuplicateDeclaration")
      ELSE AddNode(f, [NodeOf("Api", d.name, b.cur) EXCEPT
                         !.record = request, !.subject = method \o " " \o path,
                         !.scope = value("scope", "")])

BuildWorker(d, b) ==
  LET c == AddNode(FailAll(Register(d, "Worker", b), AttrCodes("worker", d.attrs, TRUE)),
                   NodeOf("Worker", d.name, b.cur))
      stream == StreamOf(b, d.stream)
      e == AddEdge(UseStream(stream, c), stream, Newest(c), "AsyncMessage")
  IN  IF Taken(d, b) THEN Fail(b, "DuplicateDeclaration")
      ELSE IF d.stream = "" THEN c
      ELSE IF stream = 0 THEN Fail(c, "UnknownStream")
      ELSE [e EXCEPT !.consumes = With(@, Newest(c), stream)]

BuildJob(d, b) ==
  LET c == FailAll(Register(d, "Job", b), AttrCodes("job", d.attrs, TRUE))
      schedule == AttrValue("job", d.attrs, "schedule", TRUE, <<>>)
      e == AddNode(c, [NodeOf("Job", d.name, b.cur) EXCEPT !.schedule = schedule])
      scheduler == DefaultCapability(b, "Scheduler")
  IN  IF Taken(d, b) THEN Fail(b, "DuplicateDeclaration")
      ELSE IF schedule = <<>> THEN Fail(c, "InvalidAttributeValue")
      ELSE IF scheduler = 0 THEN NeedDefault(e, "Scheduler")
      ELSE AddEdge(e, Newest(e), scheduler, "DependsOn")

BuildChannel(d, b) ==
  LET stream == StreamOf(b, d.stream)
      path == AttrValue("channel", d.attrs, "path", TRUE, "/channels/" \o Kebab(d.name))
      c == Register(d, "Channel", b)
      e == FailIf(path \in b.channels,
                  [FailAll(c, AttrCodes("channel", d.attrs, TRUE)) EXCEPT !.channels = @ \cup {path}],
                  "DuplicateDeclaration")
      f == AddNode(e, [NodeOf("Channel", d.name, b.cur) EXCEPT !.subject = path])
      realtime == DefaultCapability(b, "Realtime")
  IN  IF Taken(d, b) THEN Fail(b, "DuplicateDeclaration")
      ELSE IF stream = 0 THEN Fail(c, "UnknownStream")
      ELSE IF realtime = 0 THEN NeedDefault(f, "Realtime")
      ELSE AddEdge(AddEdge(f, stream, Newest(f), "AsyncMessage"), Newest(f), realtime, "DependsOn")

\* A resource: its api, its store, and the service's database, auth and cache.  Whether a
\* cache exists is asked of the whole program.
BuildCrud(d, b) ==
  LET cached == \E n \in Range(b.nodes) : n.kind = "Cache"
      value(a) == AttrValue("crud", d.attrs, a, cached, "")
      c == FailAll(NeedRecord(Register(d, "Api", b), d.record), AttrCodes("crud", d.attrs, cached))
      e == AddNode(AddNode(c, [NodeOf("Api", d.name, b.cur) EXCEPT !.record = KnownRecord(b, d.record)]),
                   NodeOf("Service", d.name \o "Store", b.cur))
      store == Newest(e)
      api == store - 1
      auth == DefaultCapability(b, "Auth")
      f == IF auth = 0 THEN AddEdge(AskDefault(e, "Auth"), api, store, "RequestFlow")
           ELSE AddEdge(AddEdge(e, api, auth, "RequestFlow"), auth, store, "RequestFlow")
      g == AddEdge(f, store, DefaultCapability(b, "Database"), "DataFlow")
  IN  IF Taken(d, b) THEN Fail(b, "DuplicateDeclaration")
      ELSE IF DefaultCapability(b, "Database") = 0 THEN NeedDefault(c, "Database")
      ELSE [LinkDefault(g, store, "Cache", "DataFlow") EXCEPT
              !.resources = Append(@, [api |-> api, auth |-> auth,
                                       scoped |-> {value("read_scope"), value("write_scope")} # {""}])]

\* An event stream, its consumer, and the consumer's database if there is one.
BuildEvents(d, b) ==
  LET queue == DefaultCapability(b, "Queue")
      c == NeedQueue(Register(d, "Stream", b))
      e == AddStream(d.name, "", DefaultSubject(b, d.name), queue, c)
      stream == Newest(e)
      f == AddNode(e, NodeOf("Worker", d.name \o "Consumer", b.cur))
      worker == Newest(f)
      g == AddEdge([f EXCEPT !.consumes = With(@, worker, stream), !.eventWorkers = @ \cup {worker}],
                   stream, worker, "AsyncMessage")
  IN  IF Taken(d, b) THEN Fail(b, "DuplicateDeclaration")
      ELSE IF queue = 0 THEN c
      ELSE LinkDefault(g, worker, "Database", "DataFlow")

----------------------------------------------------------------------------
(* Handlers.  One with a body, or an extern one, is type-checked here, and *)
(* takes its capabilities from the calls in the body; another one has the  *)
(* bindings it lists.                                                      *)

\* What a body may name.  A reference still has the type of its placeholder.
EnvOf(b) ==
  [records |-> [r \in RecordNames(b) |->
                  [error |-> RecordOf(b, r).error, fields |-> RecordOf(b, r).fields]],
   tables  |-> [t \in TableNames(b) |-> TableOf(b, t).record],
   streams |-> [s \in DOMAIN b.streams |-> b.nodes[b.streams[s]].record],
   caps    |-> [c \in DOMAIN KindOf |->
                  IF DefaultCapability(b, KindOf[c]) # 0 THEN "one"
                  ELSE IF Ambiguous(b, KindOf[c]) THEN "many" ELSE "none"]]

RECURSIVE KnownType(_, _)
KnownType(t, b) ==
  CASE t.k = "Record" -> t.name \in RecordNames(b)
    [] t.k = "List"   -> KnownType(t.of, b)
    [] OTHER          -> t.k # "Reference"

BuildBody(d, b) ==
  LET types == {d.ret} \cup {p.ty : p \in Range(d.params)}
      checked == CheckBody(d, EnvOf(b))
      c == FoldSet(LAMBDA s, a : UseStream(StreamOf(b, s), a), FailAll(b, checked.diags), checked.sent)
  IN  IF \E t \in types : ~KnownType(t, b) THEN Fail(b, "UnknownType")
      ELSE IF ~checked.ok THEN c
      ELSE [c EXCEPT !.signatures = With(@, Key(b, d.name), [decl |-> d, hir |-> checked.hir])]

BuildBinding(x, d, b) ==
  LET key == Key(b, d.name)
      kind == KindOf[x.cap]
  IN  IF x.cap \notin DOMAIN KindOf THEN Fail(b, "InvalidHandlerBinding")
      ELSE IF \E y \in Range(b.bindings[key]) : y.kind = kind THEN Fail(b, "DuplicateDeclaration")
      ELSE [b EXCEPT !.bindings[key] = Append(@, [kind |-> kind, name |-> x.instance])]

\* A handler that failed its check does not hold its name.
BuildHandler(d, b) ==
  LET key == Key(b, d.name)
  IN  IF key \in DOMAIN b.bindings \cup DOMAIN b.signatures THEN Fail(b, "DuplicateDeclaration")
      ELSE IF d.form # "bindings" THEN BuildBody(d, b)
      ELSE FoldLeft(LAMBDA c, x : BuildBinding(x, d, c),
                    [b EXCEPT !.bindings = With(@, key, <<>>)], d.bindings)

\* capability_nodes: the capabilities a body calls.  Publishing is not one of them.
RECURSIVE TouchedBlock(_), Touched(_)
TouchedAll(hs) == UNION {Touched(h) : h \in hs}
TouchedBlock(stmts) ==
  UNION {CASE s.k \in {"let", "expr", "publish"} -> Touched(s.e)
           [] s.k = "return" -> IF s.e.k = "none" THEN {} ELSE Touched(s.e)
           [] s.k = "fail"   -> TouchedAll(Range(s.args))
           [] s.k = "tx"     -> TouchedBlock(s.body)
         : s \in Range(stmts)}
Touched(h) ==
  CASE h.k = "verb"  -> {h.cap} \cup TouchedAll(Range(h.args))
    [] h.k = "query" -> {h.cap} \cup TouchedAll({t.value : t \in Range(h.terms)})
    [] h.k \in {"field", "unary"}  -> Touched(h.e)
    [] h.k \in {"index", "binary"} -> TouchedAll({h.lhs, h.rhs})
    [] h.k = "cons"  -> TouchedAll({f.value : f \in Range(h.fields)})
    [] h.k = "if"    -> Touched(h.cond) \cup TouchedBlock(h.then) \cup TouchedBlock(h.else)
    [] h.k = "match" -> Touched(h.e) \cup UNION {TouchedBlock(a.body) : a \in Range(h.arms)}
    [] OTHER         -> {}

\* No binding listed: the default database and cache, if the program has any at all.
WireBindings(key, node, b) ==
  LET listed == IF key \in DOMAIN b.bindings THEN b.bindings[key] ELSE <<>>
      bind(c, x) == LET to == FindCapability(c, x.kind, x.name)
                    IN  IF to = 0 THEN Fail(c, "UnknownCapabilityInstance")
                        ELSE AddEdge(c, node, to, "DataFlow")
  IN  IF key \in DOMAIN b.bindings THEN FoldLeft(bind, b, listed)
      ELSE FoldLeft(LAMBDA c, kind : LinkDefault(c, node, kind, "DataFlow"), b, <<"Database", "Cache">>)

\* The node of a handler is made where a pipeline first names it.
WithHandler(name, b) ==
  LET key == Key(b, name)
      typed == key \in DOMAIN b.signatures
      c == AddNode(b, [NodeOf("Service", name, b.cur) EXCEPT
                         !.hir = IF typed THEN <<b.signatures[key]>> ELSE <<>>])
      e == [c EXCEPT !.handlers = With(@, key, Newest(c))]
  IN  IF key \in DOMAIN b.handlers THEN b
      ELSE IF ~typed THEN WireBindings(key, Newest(c), e)
      ELSE FoldSet(LAMBDA cap, a : LinkDefault(a, Newest(c), KindOf[cap], "DataFlow"), e,
                   TouchedBlock(b.signatures[key].hir))

----------------------------------------------------------------------------
(* Pipelines. *)

IrStep(kind, node) == [k |-> kind, node |-> node, arms |-> <<>>]
Keep(step, b) == [b |-> b, steps |-> <<step>>]
Drop(b)       == [b |-> b, steps |-> <<>>]

\* A stream that carries a record takes nothing else.
CheckPublishType(stream, payload, b) ==
  FailIf(b.nodes[stream].record \notin {"", payload}, b, "TypeMismatch")

ResolvePublish(name, payload, b) ==
  LET stream == StreamOf(b, name)
  IN  IF stream = 0 THEN Drop(Fail(b, "UnknownStream"))
      ELSE Keep(IrStep("publish", stream), CheckPublishType(stream, payload, UseStream(stream, b)))

ResolveCall(path, payload, b) ==
  LET service == ServiceId(b, path[1])
      api == Find(b, service, "Api", path[2])
  IN  IF Len(path) # 2 THEN Drop(Fail(b, "InvalidCall"))
      ELSE IF service = 0 THEN Drop(Fail(b, "UnknownService"))
      ELSE IF api = 0 THEN Drop(Fail(b, "UnknownServiceMember"))
      ELSE Keep(IrStep("call", api),
                FailIf(b.nodes[api].record # payload, b, "CrossServiceTypeMismatch"))

ResolveName(name, payload, b) ==
  LET auth == DefaultCapability(b, "Auth")
      c == WithDefaultStream(b, DefaultCapability(b, "Queue"))
      e == WithHandler(name, b)
  IN  CASE name = "Auth" -> IF auth = 0 THEN Drop(NeedDefault(b, "Auth"))
                            ELSE Keep(IrStep("auth", auth), b)
        [] name = "Queue" -> IF DefaultCapability(b, "Queue") = 0 THEN Drop(NeedQueue(b))
                             ELSE Keep(IrStep("publish", c.defaultStream),
                                       CheckPublishType(c.defaultStream, payload, c))
        [] name = "Return" -> Keep(IrStep("return", 0), b)
        [] OTHER -> IF Key(b, name) \in DOMAIN b.declared \/ name = b.name
                    THEN Drop(Fail(b, "IncompatibleComposition"))
                    ELSE Keep(IrStep("handler", e.handlers[Key(b, name)]), e)

RECURSIVE ResolveSteps(_, _, _)

ResolveMatch(s, payload, b) ==
  LET types == {f.ty : f \in {g \in Range(RecordOf(b, payload).fields) : g.name = s.field}}
      variants == (CHOOSE t \in types : TRUE).variants
      labels == [i \in DOMAIN s.arms |-> s.arms[i].label]
      arm(r, a) == LET x == ResolveSteps(a.steps, payload, r.b)
                   IN  [b |-> x.b, arms |-> Append(r.arms, x.steps)]
      done == FoldLeft(arm, [b |-> FailAll(b, LabelErrors(variants, labels)), arms |-> <<>>], s.arms)
  IN  IF payload = "" \/ types = {} \/ \E t \in types : t.k # "Enum"
      THEN Drop(Fail(b, "InvalidMatch"))
      ELSE Keep([IrStep("match", 0) EXCEPT !.arms = done.arms], done.b)

ResolveStep(s, payload, b) ==
  CASE s.k = "name"    -> ResolveName(s.name, payload, b)
    [] s.k = "publish" -> ResolvePublish(s.stream, payload, b)
    [] s.k = "call"    -> ResolveCall(s.path, payload, b)
    [] s.k = "match"   -> ResolveMatch(s, payload, b)

\* A step that does not resolve is left out, and the next one is resolved.
ResolveSteps(steps, payload, b) ==
  FoldLeft(LAMBDA r, s : LET x == ResolveStep(s, payload, r.b)
                         IN  [b |-> x.b, steps |-> r.steps \o x.steps],
           Drop(b), steps)

\* Only auth and handlers move the flow on; the others hang off the step before them.
RECURSIVE WireSteps(_, _, _)
WireSteps(start, steps, b) ==
  LET one(w, s) ==
        CASE s.k \in {"auth", "handler"} -> [b |-> AddEdge(w.b, w.at, s.node, "RequestFlow"), at |-> s.node]
          [] s.k = "publish" -> [w EXCEPT !.b = AddEdge(@, w.at, s.node, "AsyncMessage")]
          [] s.k = "call"    -> [w EXCEPT !.b = AddEdge(@, w.at, s.node, "ServiceCall")]
          [] s.k = "return"  -> w
          [] s.k = "match"   -> [w EXCEPT !.b = FoldLeft(LAMBDA c, a : WireSteps(w.at, a, c), @, s.arms)]
  IN  FoldLeft(one, [b |-> b, at |-> start], steps).b

PipelineOwner(b, name) ==
  LET api == Find(b, b.cur, "Api", name)
      worker == Find(b, b.cur, "Worker", name)
  IN  IF api # 0 THEN api ELSE IF worker # 0 THEN worker ELSE Find(b, b.cur, "Job", name)

\* A worker without a stream gets the default one now.
BindWorker(owner, b) ==
  LET queue == DefaultCapability(b, "Queue")
      c == WithDefaultStream(b, queue)
      e == AddEdge(c, c.defaultStream, owner, "AsyncMessage")
  IN  IF b.nodes[owner].kind # "Worker" \/ owner \in DOMAIN b.consumes THEN b
      ELSE IF queue = 0 THEN NeedQueue(b)
      ELSE [e EXCEPT !.consumes = With(@, owner, c.defaultStream)]

PayloadOf(owner, b) ==
  CASE b.nodes[owner].kind = "Api"    -> b.nodes[owner].record
    [] b.nodes[owner].kind = "Worker" -> IF owner \in DOMAIN b.consumes
                                         THEN b.nodes[b.consumes[owner]].record ELSE ""
    [] b.nodes[owner].kind = "Job"    -> ""

BuildPipeline(d, b) ==
  LET owner == PipelineOwner(b, d.name)
      c == BindWorker(owner, b)
      payload == PayloadOf(owner, c)
      r == ResolveSteps(d.steps, payload, c)
  IN  IF owner = 0 THEN Fail(b, "UnknownPipelineTarget")
      ELSE IF \E p \in Range(b.pipelines) : p.owner = owner THEN Fail(b, "DuplicateDeclaration")
      ELSE IF d.steps = <<>> THEN Fail(b, "EmptyPipeline")
      ELSE [WireSteps(owner, r.steps, r.b) EXCEPT
              !.pipelines = Append(@, [name |-> d.name, owner |-> owner, payload |-> payload,
                                       steps |-> r.steps])]

----------------------------------------------------------------------------
(* Scopes need an auth in front of them. *)

PipelineOf(b, owner) == {p \in Range(b.pipelines) : p.owner = owner}

CheckScopes(b) ==
  LET ungated(i) == ~\E p \in PipelineOf(b, i) : p.steps # <<>> /\ p.steps[1].k = "auth"
      apis == {i \in DOMAIN b.nodes : b.nodes[i].kind = "Api" /\ b.nodes[i].scope # "" /\ ungated(i)}
      cruds == {r \in Range(b.resources) : r.scoped /\ r.auth = 0}
  IN  FailIf(apis # {} \/ cruds # {}, b, "InvalidAttributeValue")
=============================================================================
