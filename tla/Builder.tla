------------------------------ MODULE Builder ------------------------------
(***************************************************************************)
(* The graph builder: one operator per kind of declaration, each takes the *)
(* declaration and the builder's state and gives the state after it.       *)
(*                                                                         *)
(* Declarations, attributes and pipeline steps are records told apart by   *)
(* their field k.  The literal of an attribute is an "ident", a "num", or a*)
(* string; strings that begin with a slash ("path") and valid cron lines   *)
(* ("cron") are kinds of their own.  An absent name is "".  Records and    *)
(* tables are known by their names, which are unique in a program; nodes   *)
(* and services by the order in which they were added.                     *)
(***************************************************************************)
EXTENDS TypeCheck, Cycles

\* A name in kebab or snake case: names that differ in case or in separators share it.
CONSTANT Spelling
Kebab(name) == IF name \in DOMAIN Spelling THEN Spelling[name] ELSE name

KindOf ==
  [auth |-> "Auth", db |-> "Database", cache |-> "Cache", queue |-> "Queue",
   object_store |-> "ObjectStore", email |-> "Email", search |-> "Search",
   external_http |-> "ExternalHttp", scheduler |-> "Scheduler", realtime |-> "Realtime",
   logging |-> "Logging", metrics |-> "Metrics", tracing |-> "Tracing", users |-> "Users"]

Providers ==
  {<<"auth", "JWT">>, <<"auth", "OAuth2">>, <<"db", "Postgres">>, <<"db", "MySQL">>,
   <<"db", "SQLite">>, <<"cache", "Redis">>, <<"queue", "NATS">>, <<"queue", "Kafka">>,
   <<"logging", "Structured">>, <<"metrics", "Prometheus">>, <<"tracing", "OpenTelemetry">>,
   <<"users", "Keycloak">>, <<"object_store", "S3">>, <<"email", "SES">>, <<"email", "SMTP">>,
   <<"search", "OpenSearch">>, <<"external_http", "">>, <<"scheduler", "Cron">>,
   <<"scheduler", "">>, <<"realtime", "WebSocket">>, <<"realtime", "SSE">>, <<"realtime", "">>}

NoNodes == <<>>

\* nodes, edges, records, tables, pipelines, resources: the graph.  cur is the service that
\* is being built, 0 when the program declares none.
NewBuilder ==
  [name |-> "", services |-> <<>>, cur |-> 0, diags |-> {},
   nodes |-> <<>>, edges |-> <<>>, records |-> <<>>, tables |-> <<>>,
   pipelines |-> <<>>, resources |-> <<>>,
   declared |-> NoNodes, streams |-> NoNodes, consumes |-> NoNodes, handlers |-> NoNodes,
   bindings |-> NoNodes, signatures |-> NoNodes,
   paths |-> {}, channels |-> {}, subjects |-> {}, defaultStream |-> 0, pending |-> <<>>,
   eventWorkers |-> {}]

Fail(b, code)    == [b EXCEPT !.diags = @ \cup {code}]
FailAll(b, codes) == [b EXCEPT !.diags = @ \cup codes]
FailIf(bad, b, code) == IF bad THEN Fail(b, code) ELSE b
With(f, x, v) == [y \in DOMAIN f \cup {x} |-> IF y = x THEN v ELSE f[y]]
Key(b, name)  == <<b.cur, name>>

\* subject: a stream's subject, a route's method and path, a channel's path, a provider.
NodeOf(kind, name, service) ==
  [kind |-> kind, name |-> name, service |-> service, record |-> "", subject |-> "",
   scope |-> "", schedule |-> <<>>, hir |-> <<>>]

AddNode(b, node) == [b EXCEPT !.nodes = Append(@, node)]
Newest(b) == Len(b.nodes)

\* An edge that is there already is not added again.
AddEdge(b, from, to, kind) ==
  LET e == [from |-> from, to |-> to, kind |-> kind]
  IN  IF e \in Range(b.edges) THEN b ELSE [b EXCEPT !.edges = Append(@, e)]

\* The first node of a kind and a name in the service that is being built; 0 if none.
Find(b, service, kind, name) ==
  LET found == {i \in DOMAIN b.nodes : /\ b.nodes[i].kind = kind
                                       /\ b.nodes[i].name = name
                                       /\ b.nodes[i].service = service}
  IN  IF found = {} THEN 0 ELSE CHOOSE i \in found : \A j \in found : i <= j
FindCapability_FaultyFirstService(b, kind, name) == Find(b, IF b.cur = 0 THEN 0 ELSE 1, kind, name)

FindCapability(b, kind, name) == Find(b, b.cur, kind, name)

RecordNames(b) == {r.name : r \in Range(b.records)}
RecordOf(b, name) == CHOOSE r \in Range(b.records) : r.name = name
TableNames(b) == {t.name : t \in Range(b.tables)}
TableOf(b, name) == CHOOSE t \in Range(b.tables) : t.name = name

\* A record that is named but not declared is reported and left out.
KnownRecord(b, name) == IF name \in RecordNames(b) THEN name ELSE ""
NeedRecord(b, name) == FailIf(name # "" /\ name \notin RecordNames(b), b, "UnknownType")

----------------------------------------------------------------------------
(* Capabilities of the service that is being built. *)

OwnNodes(b, kind) ==
  {i \in DOMAIN b.nodes : b.nodes[i].kind = kind /\ b.nodes[i].service = b.cur}

Ambiguous(b, kind) ==
  Cardinality(OwnNodes(b, kind)) > 1 /\ FindCapability(b, kind, "default") = 0

\* The instance named default, or the only one; 0 if there is none to use.
DefaultCapability(b, kind) ==
  LET own == OwnNodes(b, kind)
      named == FindCapability(b, kind, "default")
  IN  IF named # 0 THEN named
      ELSE IF Cardinality(own) = 1 THEN CHOOSE i \in own : TRUE
      ELSE 0

AskDefault(b, kind) == FailIf(Ambiguous(b, kind), b, "AmbiguousCapabilityBinding")
NeedDefault(b, kind) ==
  FailIf(DefaultCapability(b, kind) = 0, AskDefault(b, kind), "MissingCapability")

\* An edge from a node to the default instance, if there is one.
LinkDefault(b, from, kind, edge) ==
  LET to == DefaultCapability(b, kind)
  IN  IF to = 0 THEN AskDefault(b, kind) ELSE AddEdge(b, from, to, edge)

HasAttr(attrs, name) ==
  \E i \in DOMAIN attrs : attrs[i].name = name /\ attrs[i].k # "num"

UseEntry(e, hasUsers, b) ==
  LET pair == <<e.cap, e.provider>>
      lacks(a) == ~HasAttr(e.attrs, a)
  IN  IF pair \notin Providers THEN Fail(b, "UnknownProvider")
      ELSE IF \/ e.provider = "OAuth2" /\ lacks("issuer") /\ ~hasUsers
              \/ e.cap = "external_http" /\ lacks("base_url")
      THEN Fail(b, "UnsupportedProviderConfig")
      ELSE IF FindCapability(b, KindOf[e.cap], e.name) # 0 THEN Fail(b, "DuplicateCapability")
      ELSE AddNode(b, [NodeOf(KindOf[e.cap], e.name, b.cur) EXCEPT !.subject = e.provider])

BuildUse(d, b) ==
  LET users == \E e \in Range(d.entries) : e.cap = "users"
  IN  FoldLeft(LAMBDA c, e : UseEntry(e, users, c), b, d.entries)

----------------------------------------------------------------------------
(* Attributes: the first of a name counts, and only if its value fits. *)

KnownAttrs ==
  [api |-> {"method", "path", "scope"}, worker |-> {"concurrency", "max_retries"},
   job |-> {"schedule", "catch_up"}, stream |-> {"subject"}, channel |-> {"path"},
   crud |-> {"cache_ttl", "page_size", "read_scope", "write_scope"},
   reference |-> {"references", "cardinality", "on_delete", "on_update", "unique", "index"}]

IsString(k) == k \in {"str", "path", "cron"}

\* A field of a cron line is a sequence of parts, each with a base (nothing for *, a value, or
\* the ends of a range) and perhaps a step; of the line itself only the weekdays are kept.
ValidCronPart(p, min, max) ==
  /\ \A step \in Range(p.step) : step > 0
  /\ \A value \in Range(p.base) : min <= value /\ value <= max
  /\ Len(p.base) = 2 => p.base[1] <= p.base[2]
ValidCron(weekdays) == \A p \in Range(weekdays) : ValidCronPart(p, 0, 7)

Fits(a, hasCache) ==
  CASE a.name = "method"      -> a.k = "ident" /\ a.v \in {"GET", "POST", "PUT", "DELETE", "PATCH"}
    [] a.name = "path"        -> a.k = "path"
    [] a.name = "schedule"    -> a.k = "cron" /\ ValidCron(a.v)
    [] a.name \in {"scope", "subject", "read_scope", "write_scope"} -> IsString(a.k)
    [] a.name \in {"concurrency", "page_size"} -> a.k = "num" /\ a.v >= 1
    [] a.name = "cache_ttl"   -> a.k = "num" /\ a.v >= 1 /\ hasCache
    [] a.name = "max_retries" -> a.k = "num"
    [] a.name = "references"  -> a.k = "ident"
    [] a.name = "cardinality" -> a.k = "ident" /\ a.v \in {"one", "many"}
    [] a.name \in {"on_delete", "on_update"} -> a.k = "ident" /\ a.v \in {"restrict", "cascade"}
    [] a.name \in {"catch_up", "unique", "index"} -> a.k = "ident" /\ a.v \in {"true", "false"}

Firsts(attrs) == {i \in DOMAIN attrs : \A j \in 1..(i - 1) : attrs[j].name # attrs[i].name}

AttrCodes(target, attrs, hasCache) ==
  LET bad == {i \in Firsts(attrs) : /\ attrs[i].name \in KnownAttrs[target]
                                    /\ ~Fits(attrs[i], hasCache)}
      code(a) == CASE target = "reference" -> "InvalidReferenceDefinition"
                   [] a.name = "schedule" /\ IsString(a.k) -> "InvalidCron"
                   [] OTHER -> "InvalidAttributeValue"
  IN  (IF Firsts(attrs) # DOMAIN attrs THEN {"DuplicateDeclaration"} ELSE {})
        \cup (IF \E i \in DOMAIN attrs : attrs[i].name \notin KnownAttrs[target]
              THEN {"UnknownAttribute"} ELSE {})
        \cup {code(attrs[i]) : i \in bad}

\* The value an attribute has after all, or the default.
AttrValue(target, attrs, name, hasCache, default) ==
  LET good == {i \in Firsts(attrs) : /\ attrs[i].name = name
                                     /\ name \in KnownAttrs[target]
                                     /\ Fits(attrs[i], hasCache)}
  IN  IF good = {} THEN default ELSE attrs[CHOOSE i \in good : TRUE].v

----------------------------------------------------------------------------
(* Records, tables and services. *)

Register(d, kind, b) == [b EXCEPT !.declared = With(@, Key(b, d.name), kind)]
Taken(d, b) == Key(b, d.name) \in DOMAIN b.declared

BuildField(f, r, b) ==
  LET here == Len(b.records)
      fields == b.records[here].fields
      add(ty) == [b EXCEPT !.records[here].fields = Append(@, [name |-> f.name, ty |-> ty])]
  IN  IF f.name \in {g.name : g \in Range(fields)} THEN Fail(b, "DuplicateDeclaration")
      ELSE CASE f.ty.k \in {"Named", "Record"} -> Fail(b, "UnknownType")
             [] f.ty.k = "List"  -> Fail(b, "UnsupportedFieldType")
             [] f.ty.k = "Reference" ->
                  [add(Json) EXCEPT !.pending = Append(@, [record |-> r, field |-> Len(fields) + 1,
                                                           target |-> f.ty.target, attrs |-> f.attrs])]
             [] OTHER -> add(f.ty)

\* A reference holds its place with Json until all records and tables are known.
BuildRecord(d, b) ==
  IF d.name \in RecordNames(b) THEN Fail(b, "DuplicateDeclaration")
  ELSE FoldLeft(LAMBDA c, f : BuildField(f, d.name, c),
                [b EXCEPT !.records = Append(@, [name |-> d.name, error |-> d.error,
                                                 fields |-> <<>>])],
                d.fields)

BuildTable(d, b) ==
  LET asked == IF d.db = "" THEN DefaultCapability(b, "Database")
               ELSE FindCapability(b, "Database", d.db)
      c == IF d.db = "" THEN AskDefault(b, "Database")
           ELSE FailIf(asked = 0, b, "UnknownCapabilityInstance")
  IN  IF d.name \in TableNames(b) THEN Fail(b, "DuplicateDeclaration")
      ELSE IF d.record \notin RecordNames(b) THEN Fail(b, "UnknownType")
      ELSE [c EXCEPT !.tables = Append(@, [name |-> d.name, record |-> d.record,
                                           service |-> b.cur, db |-> asked])]

ServiceId(b, name) ==
  IF \E i \in DOMAIN b.services : b.services[i] = name
  THEN CHOOSE i \in DOMAIN b.services : b.services[i] = name ELSE 0

AddService(name, b) ==
  IF ServiceId(b, name) # 0 THEN Fail(b, "DuplicateService")
  ELSE [b EXCEPT !.services = Append(@, name)]

----------------------------------------------------------------------------
(* References between records. *)

Missing(attrs) ==
  \E a \in {"cardinality", "on_delete", "on_update"} : AttrValue("reference", attrs, a, TRUE, "") = ""

\* The first table of a record stores it; 0 if none does.
StoredIn(b, record) ==
  LET ts == {i \in DOMAIN b.tables : b.tables[i].record = record}
  IN  IF ts = {} THEN 0 ELSE CHOOSE i \in ts : \A j \in ts : i <= j

ReferenceError(p, b) ==
  LET value(a) == AttrValue("reference", p.attrs, a, TRUE, "")
      table == value("references")
      source == StoredIn(b, p.record)
      t == TableOf(b, table)
      s == b.tables[source]
  IN  IF table = "" THEN "InvalidReferenceDefinition"
      ELSE IF table \notin TableNames(b) \/ t.record # p.target THEN "UnknownReferenceTarget"
      ELSE IF Missing(p.attrs) THEN "InvalidReferenceDefinition"
      ELSE IF value("unique") = "true" /\ value("cardinality") = "many"
      THEN "InvalidReferenceDefinition"
      ELSE IF ~\E f \in Range(RecordOf(b, p.target).fields) : f = [name |-> "id", ty |-> Uuid]
      THEN "InvalidReferenceDefinition"
      ELSE IF source = 0 THEN "RefRequiresTypedStorage"
      ELSE IF s.service # t.service \/ s.db # t.db THEN "CrossStorageReference"
      ELSE ""

ResolvedType(p) ==
  LET value(a) == AttrValue("reference", p.attrs, a, TRUE, "")
  IN  [k |-> "Reference", target |-> p.target, table |-> value("references"),
       cardinality |-> value("cardinality"), onDelete |-> value("on_delete"),
       onUpdate |-> value("on_update"), unique |-> value("unique") = "true"]

ResolveReference(p, b) ==
  LET c == FailAll(b, AttrCodes("reference", p.attrs, TRUE))
      at == CHOOSE i \in DOMAIN b.records : b.records[i].name = p.record
  IN  IF p.target \notin RecordNames(b) THEN Fail(b, "UnknownReferenceTarget")
      ELSE IF ReferenceError(p, b) # "" THEN Fail(c, ReferenceError(p, b))
      ELSE [c EXCEPT !.records[at].fields[p.field].ty = ResolvedType(p)]

\* The records a record needs first: the targets of its resolved to-one references.
Needs(b, record) ==
  {f.ty.target : f \in {g \in Range(RecordOf(b, record).fields) :
                           g.ty.k = "Reference" /\ g.ty.cardinality = "one"}}

\* The search starts at the records and takes their successors in the order of a hash map,
\* which may be any; it goes on after the first cycle.
ReferenceCycle(b) ==
  LET of(i) == {j \in DOMAIN b.records : b.records[j].name \in Needs(b, b.records[i].name)}
  IN  Search([i \in DOMAIN b.records |-> SetToSeq(of(i))], FALSE).found # <<>>

ResolveReferences(b) ==
  LET c == FoldLeft(LAMBDA s, p : ResolveReference(p, s), b, b.pending)
  IN  FailIf(ReferenceCycle(c), [c EXCEPT !.pending = <<>>], "CyclicReferenceGraph")
=============================================================================
