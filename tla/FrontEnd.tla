------------------------------ MODULE FrontEnd ------------------------------
(***************************************************************************)
(* What the front end does with a program: the order in which it builds    *)
(* the declarations, the step for each, and the passes at the end.         *)
(***************************************************************************)
EXTENDS Wiring, Blueprints

----------------------------------------------------------------------------
(* The validation passes over a built graph, in the order in which they    *)
(* run; each gives the codes it reports.                                   *)
(*                                                                         *)
(* Cycles: data flow is not a flow, and the search stops at the first.     *)

Flows == {"RequestFlow", "AsyncMessage", "ServiceCall", "DependsOn"}

Successors_FaultyNoCalls(b, n) ==
  LET out == SelectSeq(b.edges, LAMBDA e : e.from = n /\ e.kind \in Flows \ {"ServiceCall"})
  IN  [i \in DOMAIN out |-> out[i].to]

Successors(b, n) ==
  LET out == SelectSeq(b.edges, LAMBDA e : e.from = n /\ e.kind \in Flows)
  IN  [i \in DOMAIN out |-> out[i].to]

FoundCycle(b) ==
  LET found == Search([n \in DOMAIN b.nodes |-> Successors(b, n)], TRUE).found
  IN  IF found = <<>> THEN <<>> ELSE found[1]

----------------------------------------------------------------------------
(* Reachability: a warning for what nothing uses. *)

Touching(b, n) == {e \in Range(b.edges) : n \in {e.from, e.to}}
Into(b, n)     == {e \in Range(b.edges) : e.to = n}
OutOf(b, n)    == {e \in Range(b.edges) : e.from = n}

Unused(b, n) ==
  CASE b.nodes[n].kind = "Api" -> PipelineOf(b, n) = {} /\ ~\E r \in Range(b.resources) : r.api = n
    [] b.nodes[n].kind = "Worker" -> Into(b, n) = {}
    [] b.nodes[n].kind = "Job"    -> PipelineOf(b, n) = {}
    [] b.nodes[n].kind = "Stream" -> \/ ~\E e \in Into(b, n) : e.kind = "AsyncMessage"
                                     \/ ~\E e \in OutOf(b, n) : e.kind = "AsyncMessage"
    [] b.nodes[n].kind \in {"Queue", "Database", "Cache", "Auth", "ObjectStore", "Email", "Search",
                            "ExternalHttp", "Scheduler", "Realtime"} -> Touching(b, n) = {}
    [] OTHER -> FALSE

Reachability(b) ==
  IF \E n \in DOMAIN b.nodes : Unused(b, n) THEN {"UnreachableComponent"} ELSE {}

----------------------------------------------------------------------------
(* Auth comes first in the pipeline of an api, and nowhere else. *)

NoCaller(b, p) == b.nodes[p.owner].kind \in {"Worker", "Job"}

AuthMisplaced_FaultyNotInArms(steps, noCaller, top) ==
  \E i \in DOMAIN steps : steps[i].k = "auth" /\ (noCaller \/ i # 1)

RECURSIVE AuthMisplaced(_, _, _)
AuthMisplaced(steps, noCaller, top) ==
  \E i \in DOMAIN steps :
    \/ steps[i].k = "auth" /\ (noCaller \/ ~top \/ i # 1)
    \/ steps[i].k = "match" /\ \E a \in Range(steps[i].arms) : AuthMisplaced(a, noCaller, FALSE)

AuthPlacement(b) ==
  IF \E p \in Range(b.pipelines) : AuthMisplaced(p.steps, NoCaller(b, p), TRUE)
  THEN {"InvalidAuthPlacement"} ELSE {}

----------------------------------------------------------------------------
(* Composition. *)

\* Over the steps of the pipeline itself; an arm of a match is not looked into.
ReturnMisplaced(b, p) ==
  \E i \in DOMAIN p.steps : p.steps[i].k = "return" /\ (NoCaller(b, p) \/ i # Len(p.steps))

\* Streams published to before an arm count in the arm, and not after it.
RECURSIVE PublishedTwice(_, _)
PublishedTwice(steps, seen) ==
  LET before(i) == {steps[j].node : j \in {h \in 1..(i - 1) : steps[h].k = "publish"}}
  IN  \E i \in DOMAIN steps :
        \/ steps[i].k = "publish" /\ steps[i].node \in seen \cup before(i)
        \/ steps[i].k = "match" /\ \E a \in Range(steps[i].arms) : PublishedTwice(a, seen \cup before(i))

MatchMisplaced(p) ==
  \E i \in DOMAIN p.steps :
    /\ p.steps[i].k = "match"
    /\ \/ i # Len(p.steps)
       \/ \E a \in Range(p.steps[i].arms) : \E s \in Range(a) : s.k = "match"

Composition(b) ==
  UNION {(IF ReturnMisplaced(b, p) \/ PublishedTwice(p.steps, {})
          THEN {"IncompatibleComposition"} ELSE {})
           \cup (IF MatchMisplaced(p) THEN {"InvalidMatch"} ELSE {})
         : p \in Range(b.pipelines)}

----------------------------------------------------------------------------

RunPasses(b) ==
  FailAll(b, (IF FoundCycle(b) # <<>> THEN {"CyclicDependency"} ELSE {})
               \cup Reachability(b) \cup AuthPlacement(b) \cup Composition(b))

Advice == {"UnreachableComponent", "UnusedLet"}
Accepted(b) == b.diags \subseteq Advice


(* The order of the build: by kind, and within a kind as written. *)

Task(k, d, service) == [k |-> k, d |-> d, service |-> service]
Tasks(items, kinds, service) ==
  LET of == SelectSeq(items, LAMBDA d : d.k \in kinds)
  IN  [i \in DOMAIN of |-> Task(of[i].k, of[i], service)]

Components == {"api", "worker", "job", "channel", "crud", "events"}
Local      == Components \cup {"use", "handler", "pipeline", "table"}

Blocks(items) == SelectSeq(items, LAMBDA d : d.k = "block")
Multi(items)  == Blocks(items) # <<>>

\* The declarations of one service, but for its pipelines.
ServiceTasks(items, service) ==
  Tasks(items, {"use"}, service) \o Tasks(items, {"table"}, service)
    \o Tasks(items, {"handler"}, service) \o Tasks(items, Components, service)

\* A block is built into the service of its name, counted as services were added.
BlockTasks(items, Of(_, _)) ==
  LET blocks == Blocks(items)
      first(i) == CHOOSE j \in DOMAIN blocks : /\ blocks[j].name = blocks[i].name
                                               /\ \A h \in 1..(j - 1) : blocks[h].name # blocks[i].name
      id(i) == Cardinality({blocks[j].name : j \in 1..first(i)})
  IN  FlattenSeq([i \in DOMAIN blocks |-> Of(blocks[i].items, id(i))])

Retask(k, tasks) == [i \in DOMAIN tasks |-> [tasks[i] EXCEPT !.k = k]]

MultiTasks(items) ==
  [i \in DOMAIN Blocks(items) |-> Task("service", Blocks(items)[i], 0)]
    \o Retask("shared", Tasks(items, {"stream"}, 0)) \o Retask("stray", Tasks(items, Local, 0))
    \o BlockTasks(items, ServiceTasks)
    \o BlockTasks(items, LAMBDA ds, s : Tasks(ds, {"pipeline"}, s))

FlatTasks_FaultyAsWritten(items) ==
  LET named == Tasks(items, {"service"}, 0)
      root == IF named = <<>> THEN 0 ELSE 1
  IN  SubSeq(named, 1, root) \o Tasks(items, Local \cup {"stream"}, root)

FlatTasks(items) ==
  LET named == Tasks(items, {"service"}, 0)
      root == IF named = <<>> THEN 0 ELSE 1
  IN  SubSeq(named, 1, root) \o Tasks(items, {"use"}, root) \o Tasks(items, {"stream"}, root)
        \o Tasks(items, {"table"}, root) \o Tasks(items, {"handler"}, root)
        \o Tasks(items, Components, root) \o Tasks(items, {"pipeline"}, root)

Schedule(items) ==
  <<Task("name", items, 0)>> \o Tasks(items, {"record"}, 0)
    \o (IF Multi(items) THEN MultiTasks(items) ELSE FlatTasks(items))
    \o <<Task("scopes", items, 0), Task("references", items, 0)>>

\* The name of the project, or of the first service.
NameProject(items, c) ==
  LET of(k) == SelectSeq(items, LAMBDA d : d.k = k)
      services == of("service")
  IN  IF of("project") # <<>> THEN [c EXCEPT !.name = of("project")[1].name]
      ELSE IF Multi(items) THEN [c EXCEPT !.name = Blocks(items)[1].name]
      ELSE IF services = <<>> THEN Fail(c, "MissingServiceDeclaration")
      ELSE FailIf(Len(services) > 1, [c EXCEPT !.name = services[1].name], "DuplicateDeclaration")

\* The builder after one declaration, or after a check between or after them.
Step(t, b0) ==
  LET c == [b0 EXCEPT !.cur = t.service]
      d == t.d
  IN  CASE t.k = "name"     -> NameProject(d, c)
        [] t.k = "record"   -> BuildRecord(d, c)
        [] t.k = "service"  -> AddService(d.name, c)
        [] t.k = "use"      -> BuildUse(d, c)
        [] t.k = "stray"    -> Fail(c, "InvalidServiceScope")
        [] t.k = "table"    -> BuildTable(d, c)
        [] t.k = "handler"  -> BuildHandler(d, c)
        [] t.k = "stream"   -> BuildStream(d, TRUE, c)
        [] t.k = "shared"   -> BuildStream(d, FALSE, c)
        [] t.k = "api"      -> BuildApi(d, c)
        [] t.k = "worker"   -> BuildWorker(d, c)
        [] t.k = "job"      -> BuildJob(d, c)
        [] t.k = "channel"  -> BuildChannel(d, c)
        [] t.k = "crud"     -> BuildCrud(d, c)
        [] t.k = "events"   -> BuildEvents(d, c)
        [] t.k = "pipeline" -> BuildPipeline(d, c)
        [] t.k = "scopes"     -> CheckScopes(c)
        [] t.k = "references" -> ResolveReferences(c)

Kinds == {"name", "record", "service", "use", "stray", "table", "handler", "stream", "shared", "api",
          "worker", "job", "channel", "crud", "events", "pipeline", "scopes", "references"}

\* The whole of the front end, for one program.
Run(items) ==
  RunPasses(FoldLeft(LAMBDA c, t : Step(t, c), FailAll(NewBuilder, ExpandErrors(items)),
                     Schedule(Expand(items))))
=============================================================================
