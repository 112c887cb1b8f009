------------------------------ MODULE MCCompile ------------------------------
(***************************************************************************)
(* The programs that are compiled: one family for each part of the front   *)
(* end, every member a choice of the declarations that the part decides on.*)
(***************************************************************************)
EXTENDS Compile, Sources

MCSpelling == ("E" :> "e" @@ "Events" :> "events")

Colour == EnumT(<<"red", "blue">>)
Id     == Field("id", Uuid)
Item   == Rec("Item", <<Id, Field("n", Basic("Int")), Field("s", Str), Field("c", Colour)>>)
Other  == Rec("Other", <<Id>>)

----------------------------------------------------------------------------
(* Pipelines of one service: what an api, two workers and a job may do. *)

AllCaps == Use(<<Cap("auth", "JWT", "default"), Cap("db", "Postgres", "default"),
                 Cap("cache", "Redis", "default"), Cap("queue", "NATS", "default"),
                 Cap("scheduler", "Cron", "default"), Cap("realtime", "SSE", "default")>>)

ApiSteps ==
  {<<To("Auth"), To("save"), Pub("S"), To("Return")>>,
   <<To("save"), To("Auth")>>,
   <<To("save"), Pub("S"), Pub("S")>>,
   <<To("Auth"), On("c", <<Arm("red", <<To("save"), Pub("S")>>), Arm("_", <<Pub("T")>>)>>)>>,
   <<Pub("S"), On("c", <<Arm("red", <<Pub("S")>>), Arm("blue", <<To("Auth")>>)>>)>>,
   <<Pub("S"), On("c", <<Arm("red", <<Pub("T")>>), Arm("blue", <<To("Auth")>>)>>)>>,
   <<Pub("Typed")>>,
   <<On("c", <<Arm("red", <<On("c", <<Arm("_", <<To("save")>>)>>)>>)>>)>>,
   <<To("Queue"), To("nobody"), Pub("Nowhere")>>}
WorkerSteps == {<<>>, <<Pub("T")>>, <<To("save"), Pub("S")>>, <<To("Auth")>>}

Structured(api, scoped, w1, w2) ==
  <<Svc("E"), AllCaps, Item, Other, Stream("S", "Item"), Stream("T", ""), Stream("Typed", "Other"),
    Bare("save"),
    Api("Put", "Item", IF scoped THEN <<Attr("scope", "str", "items")>> ELSE <<>>),
    Worker("W", "S"), Worker("V", "T"), Channel("Feed", "S"), Job("Nightly"),
    Crud("Items", "Item", <<>>), Pipe("Put", api)>>
    \o (IF w1 = <<>> THEN <<>> ELSE <<Pipe("W", w1)>>)
    \o (IF w2 = <<>> THEN <<>> ELSE <<Pipe("V", w2)>>)
    \o <<Pipe("Nightly", <<To("save")>>)>>

StructuredPrograms ==
  {Structured(api, scoped, w1, w2) : api \in ApiSteps, scoped \in BOOLEAN,
                                     w1 \in WorkerSteps, w2 \in WorkerSteps}
----------------------------------------------------------------------------
(* Several services: who calls whom, and through which streams. *)

Caps2 == Use(<<Cap("auth", "JWT", "default"), Cap("db", "Postgres", "default"),
               Cap("queue", "NATS", "default")>>)
StepsOfA == {<<To("Auth"), To("save"), CallOf("B", "Take")>>, <<Pub("S")>>, <<CallOf("A", "Get")>>,
             <<CallOf("C", "Take")>>}
StepsOfB == {<<To("save")>>, <<CallOf("A", "Get")>>, <<Pub("T")>>, <<To("Queue"), CallOf("B", "Put")>>}
StepsOfW == {<<To("save")>>, <<CallOf("A", "Get")>>, <<Pub("S")>>}

TwoServices(a, bs, w, sent, caps) ==
  <<[k |-> "project", name |-> "E"], Item, Other, Stream("S", "Item"), Stream("T", ""),
    In("A", <<Caps2, Bare("save"), Tab("As", "Item"), Api("Get", "Item", <<>>), Worker("W", "T"),
              Pipe("Get", a), Pipe("W", w)>>),
    In("B", <<caps, Bare("save"), Api("Take", sent, <<>>), Crud("Others", "Other", <<>>),
              Worker("V", "S"), Pipe("Take", bs)>>)>>

ServicePrograms ==
  {TwoServices(a, bs, w, sent, caps) :
     a \in StepsOfA, bs \in StepsOfB, w \in StepsOfW, sent \in {"Item", "Other"},
     caps \in {Caps2, Use(<<Cap("db", "Postgres", "one"), Cap("db", "Postgres", "two"),
                            Cap("queue", "NATS", "default")>>),
              Use(<<Cap("db", "Postgres", "own"), Cap("queue", "NATS", "own")>>)}}

\* Event streams of one service, and a capability outside every service.
EventPrograms ==
  {<<Svc("E"), Use(<<Cap("queue", "NATS", "default")>>), EventsOf("Orders"), Worker("W", s), EventsOf(n),
     Bare("save"), Pipe("W", <<To("save"), Pub("Orders")>>)>> :
       s \in {"Orders", "Bills", ""}, n \in {"Bills", "Orders"}}
    \cup {<<[k |-> "project", name |-> "E"], Stream("S", ""), In("A", <<c, EventsOf("Bills")>>),
            In("B", <<d, Worker("W", "Bills")>>)>> \o stray :
            c, d \in {Caps2, Use(<<>>)}, stray \in {<<>>, <<Caps2>>}}

----------------------------------------------------------------------------
(* What the services that are generated share: two databases and other instances, chosen by    *)
(* name, by default and by a body; calls in arms, to a resource, to an api without a pipeline;   *)
(* two workers of one name, a broker of another make, a pipeline for a consumer of events.     *)

HttpCap(n) == [Cap("external_http", "", n) EXCEPT !.attrs = <<Attr("base_url", "str", "u")>>]
CapsOfA == Use(<<Cap("db", "Postgres", "main"), Cap("db", "MySQL", "side"), Cap("cache", "Redis", "default"),
                 Cap("queue", "NATS", "default"), HttpCap("pay"), Cap("email", "SMTP", "default")>>)
CapsOfB(provider) == Use(<<Cap("db", "Postgres", "default"), Cap("queue", provider, "default"),
                           Cap("email", "SMTP", "default"), Cap("search", "OpenSearch", "own")>>)
Bind(n, caps) == [Bare(n) EXCEPT !.bindings = [i \in DOMAIN caps |-> [cap |-> caps[i][1], instance |-> caps[i][2]]]]
Told(cap, verb, args) ==
  <<[k |-> "expr", e |-> [k |-> "call", recv |-> cap, verb |-> verb, filter |-> FALSE, terms |-> <<>>,
                          args |-> [i \in DOMAIN args |-> [k |-> "lit", v |-> args[i], ty |-> Str]]]]>>

StepsToB ==
  {<<To("keep"), On("c", <<Arm("red", <<CallOf("B", "Take")>>), Arm("_", <<Pub("S")>>)>>)>>,
   <<To("tell"), CallOf("B", "Take"), Pub("S")>>,
   <<To("side"), To("look"), CallOf("B", "Others")>>,
   <<On("c", <<Arm("red", <<To("keep"), CallOf("B", "Idle")>>), Arm("_", <<To("look")>>)>>)>>}

FitPrograms ==
  {<<[k |-> "project", name |-> "E"], Item, Stream("S", "Item"),
     In("A", <<CapsOfA, Bind("keep", <<<<"db", "main">>, <<"cache", "default">>>>), Bind("side", <<<<"db", "side">>>>),
               Bind("look", <<<<"external_http", "pay">>>>),
               Typed1("tell", <<[name |-> "x", ty |-> RecordT("Item")]>>, Unit, Told("email", "send", <<"a", "b", "c">>)),
               Api("Get", "Item", <<>>), Worker("W", "S"), Pipe("Get", steps), Pipe("W", <<To("keep")>>)>>),
     In("B", <<CapsOfB(provider), Bind("keep", <<<<"search", "own">>>>), Api("Take", "Item", <<>>), Api("Idle", "Item", <<>>),
               Crud("Others", "Item", <<>>), Worker(w, "S"), EventsOf("Orders"), Pipe("Take", <<To("keep")>>),
               Pipe(w, <<To("keep")>>)>> \o extra)>> :
       steps \in StepsToB, provider \in {"NATS", "Kafka"}, w \in {"W", "V"},
       extra \in {<<>>, <<Pipe("OrdersConsumer", <<To("keep")>>)>>}}

\* A job on some weekdays, and two pipelines with one handler.
CronDays == {0, 1, 3, 6, 7, 8}
CronParts == [base : {<<>>} \cup {<<m>> : m \in CronDays} \cup {<<m, n>> : m, n \in CronDays},
              step : {<<>>, <<0>>, <<1>>, <<3>>}]
JobOf(days, sent) ==
  <<Svc("E"), Use(<<Cap("scheduler", "Cron", "default")>>), Item, Other, Bare("save"), Bare("sweep"),
    JobOn("Nightly", days),
    Api("Put", "Item", <<>>), Api("Send", sent, <<>>), Pipe("Put", <<To("save")>>),
    Pipe("Send", <<To("save")>>), Pipe("Nightly", <<To("sweep")>>)>>
JobPrograms ==
  {JobOf(<<p>>, "Item") : p \in CronParts}
    \cup {JobOf(<<p, [base |-> <<5>>, step |-> <<>>]>>, "Other") :
            p \in [base : {<<>>, <<0>>, <<1, 7>>}, step : {<<>>, <<2>>}]}

----------------------------------------------------------------------------
(* References between three records, and the tables that store them. *)

Stored == {"P", "Q", "R"}
TableName == [P |-> "Ps", Q |-> "Qs", R |-> "Rs"]
RefsOf(r, to) == <<Id>> \o SetToSeq({Ref("to" \o t[1], t[1], TableName[t[1]], t[2]) : t \in to})

Referring(p, q, r, tables) ==
  <<Svc("E"), Use(<<Cap("db", "Postgres", "default"), Cap("db", "MySQL", "other")>>),
    Rec("P", RefsOf("P", p)), Rec("Q", RefsOf("Q", q)), Rec("R", RefsOf("R", r))>> \o tables

ThreeTables == <<Tab("Ps", "P"), Tab("Qs", "Q"), Tab("Rs", "R")>>
RefSets == SUBSET {<<t, "one">> : t \in Stored}
ReferencePrograms ==
  {Referring(p, q, r, ThreeTables) : p, q, r \in RefSets}
    \cup {Referring({<<"Q", card>>}, {<<"P", "many">>}, {}, tables) :
            card \in {"one", "many", "some"},
            tables \in {ThreeTables, <<Tab("Ps", "P"), Tab("Rs", "R")>>,
                        <<[Tab("Ps", "P") EXCEPT !.db = "other"], Tab("Qs", "Q"), Tab("Rs", "R")>>,
                        <<Tab("Ps", "P"), Tab("Qs", "Q"), Tab("Qs", "R")>>}}

----------------------------------------------------------------------------
(* Blueprints, each expanded twice. *)

Blueprint(params, body) ==
  [k |-> "blueprint", name |-> "Kit", param |-> "T", params |-> params, body |-> body]
Expansion(r, args) == [k |-> "expand", name |-> "", blueprint |-> "Kit", arg |-> r, args |-> args]
Param(n, ty) == [name |-> n, ty |-> ty]
Given(n, k, v) == [name |-> n, k |-> k, v |-> v]

Ident(n) == [k |-> "ident", name |-> n]
Lit(n)   == [k |-> "lit", n |-> n, ty |-> Basic("Int")]
DbCall(verb, args) == [k |-> "call", recv |-> "db", verb |-> verb, args |-> args, filter |-> FALSE,
                       terms |-> <<>>]

Kits ==
  {<<Crud("Res", "T", <<>>)>>,
   <<Stream("Made", "T"), Worker("Watch", "Made")>>,
   <<Stream("Made", "T"), Bare("keep"), Api("Make", "T", <<>>), Worker("Watch", "Made"),
     Pipe("Make", <<To("keep"), Pub("Made")>>), Pipe("Watch", <<To("keep")>>)>>,
   <<Tab("Kept", "T"), Typed1("keep", <<Param("x", RecordT("T"))>>, Unit,
                              <<[k |-> "expr", e |-> DbCall("insert", <<Ident("Kept"), Ident("x")>>)]>>),
     Api("Make", "T", <<>>), Pipe("Make", <<To("keep")>>)>>,
   <<Rec("Note", <<Id, Ref("of", "T", "Kept", "one")>>), Tab("Kept", "T"), Tab("Notes", "Note"),
     Crud("Desk", "Note", <<>>)>>}

Expanded(kit, params, e1, e2) ==
  <<Svc("E"), Use(<<Cap("db", "Postgres", "default"), Cap("queue", "NATS", "default")>>), Item, Other,
    Blueprint(params, kit), e1, e2>>

BlueprintPrograms ==
  {Expanded(kit, <<>>, Expansion("Item", <<>>), Expansion(r, <<>>)) :
     kit \in Kits, r \in {"Item", "Other", "None"}}
    \cup {Expanded(<<Crud("Res", "T", <<Attr("page_size", "ident", "Size")>>)>>,
                   <<Param("Res", "String"), Param("Size", "Int")>>,
                   Expansion("Item", <<Given("Res", "str", "Shelf"), Given("Size", "num", n)>>),
                   Expansion("Other", args)) :
            n \in {0, 5},
            args \in {<<Given("Res", "str", name), Given("Size", "num", 5)>> : name \in {"Shelf", "Rack"}}
                      \cup {<<Given("Res", "num", 1), Given("Size", "num", 5)>>,
                            <<Given("Res", "str", "Rack")>>}}

----------------------------------------------------------------------------
(* Handler bodies: three statements, on one item. *)

Let(n, e)      == [k |-> "let", name |-> n, e |-> e]
Do(e)          == [k |-> "expr", e |-> e]
Back(e)        == [k |-> "return", e |-> e]
Throw(args)    == [k |-> "fail", error |-> "Bad", args |-> args]
Send(e)        == [k |-> "publish", stream |-> "S", e |-> e]
Tx(ss)         == [k |-> "tx", body |-> ss]
StrLit(v)      == [k |-> "lit", v |-> v, ty |-> Str]
Of(e, f)       == [k |-> "field", e |-> e, field |-> f]
Bin(op, l, r)  == [k |-> "binary", op |-> op, lhs |-> l, rhs |-> r]
Make(base, fs) == [k |-> "cons", base |-> base,
                   fields |-> [i \in DOMAIN fs |-> [name |-> fs[i][1], value |-> fs[i][2]]]]
IfElse(c, t, e) == [k |-> "if", cond |-> c, then |-> t, else |-> e]
Matching(e, as) == [k |-> "match", e |-> e, arms |-> [i \in DOMAIN as |-> [label |-> as[i][1], body |-> as[i][2]]]]
Ask(c, v, as)   == [k |-> "call", recv |-> c, verb |-> v, args |-> as, filter |-> FALSE, terms |-> <<>>]
Filter(v, ts)   == [k |-> "call", recv |-> "db", verb |-> v, args |-> <<Ident("Items")>>, filter |-> TRUE,
                    terms |-> [i \in DOMAIN ts |-> [field |-> ts[i][1], op |-> ts[i][2], value |-> ts[i][3]]]]
Where(v, ts)    == Filter(v, [i \in DOMAIN ts |-> <<ts[i][1], "==", ts[i][2]>>])
Db(v, as)       == Ask("db", v, <<Ident("Items")>> \o as)

x == Ident("x")
IsRed == Bin("==", Of(x, "c"), Ident("red"))
Fresh == Make("Item", <<<<"id", Ask("Uuid", "new", <<>>)>>, <<"n", Lit(1)>>, <<"s", StrLit("s")>>,
                       <<"c", Ident("blue")>>>>)

MCStatements ==
  {Let("a", Bin("+", Of(x, "n"), Lit(1))),
   Let("a", Make("x", <<<<"n", Lit(2)>>, <<"c", Ident("red")>>>>)),
   Let("a", IfElse(IsRed, <<Do(x)>>, <<Do(Make("x", <<<<"s", Bin("+", Of(x, "s"), Of(x, "n"))>>>>))>>)),
   Let("a", Matching(Of(x, "c"), <<<<"red", <<Do(Of(x, "s"))>>>>, <<"_", <<Throw(<<Of(x, "s")>>)>>>>>>)),
   Let("a", Db("insert", <<Make("x", <<<<"n", Lit(3)>>>>)>>)),
   Let("a", Where("count", <<<<"c", Ident("red")>>, <<"n", Of(x, "n")>>>>)),
   Let("a", Ask("cache", "get", <<Of(x, "s")>>)),
   Do(Db("insert", <<Ident("a")>>)), Do(Db("insert", <<Fresh>>)),
   Do(Db("update", <<Of(x, "id"), Ident("a")>>)),
   Do(Where("delete_where", <<<<"s", Ident("a")>>>>)),
   Do(Ask("cache", "set", <<Bin("+", StrLit("k"), Ident("a")), x>>)),
   Do(IfElse(IsRed, <<Back(x)>>, <<Do(Db("delete", <<Of(x, "id")>>))>>)),
   Do(Matching(Of(x, "c"), <<<<"red", <<Back(Ident("a"))>>>>, <<"blue", <<Back(x)>>>>>>)),
   Do(IfElse(Bin("==", Of(x, "n"), Ident("a")), <<Throw(<<Of(x, "s")>>)>>, <<>>)),
   Do(Ask("cache", "set", <<StrLit("k"), Bin("&&", IsRed, Bin("<", Of(x, "n"), Lit(1)))>>)),
   Send(x), Send(Ident("a")), Throw(<<Of(x, "s")>>), Throw(<<Ident("a")>>),
   Back(Ident("a")), Back([k |-> "none"]),
   Back(Db("insert", <<x>>)),
   Tx(<<Do(Db("insert", <<x>>)), Do(Db("delete", <<Of(x, "id")>>))>>),
   Tx(<<Do(Db("delete", <<Of(x, "id")>>)), Do(IfElse(IsRed, <<Throw(<<Of(x, "s")>>)>>, <<>>))>>),
   Tx(<<Do(Db("insert", <<x>>)), Do(Ask("cache", "delete", <<Of(x, "s")>>))>>),
   Tx(<<Do(Db("insert", <<x>>)), Do(IfElse(IsRed, <<Send(x)>>, <<>>))>>),
   Tx(<<Do(Db("insert", <<x>>)), Back(x)>>)}

\* The other services; what differs from host to host; and what a simulated transaction batches.
HostStatements ==
  {Let("a", Ask("cache", "get", <<StrLit("q")>>)),
   Let("a", Ask("object_store", "get", <<Of(x, "s")>>)),
   Let("a", Ask("object_store", "list", <<StrLit("q")>>)),
   Let("a", Ask("search", "query", <<Of(x, "s")>>)),
   Let("a", Ask("external_http", "request", <<StrLit("u"), x>>)),
   Let("a", Bin("/", Lit(3), Bin("+", Of(x, "n"), Lit(1)))),
   Let("a", Bin("||", IsRed, Bin("<", Bin("/", Lit(1), Of(x, "n")), Lit(2)))),
   Let("a", Bin("==", Of(x, "s"), StrLit("q"))),
   Let("a", Bin("==", x, x)),
   Let("a", Db("get", <<Of(x, "id")>>)),
   Let("a", Db("insert", <<Fresh>>)),
   Let("a", Db("update", <<Of(x, "id"), Fresh>>)),
   Let("a", Filter("query", <<<<"n", "<", Of(x, "n")>>, <<"c", "!=", Ident("red")>>>>)),
   Do(Filter("delete_where", <<<<"s", "<=", Of(x, "s")>>>>)),
   Do(Ask("object_store", "put", <<Of(x, "s"), x>>)),
   Do(Ask("object_store", "put", <<Of(x, "s"), Of(x, "s")>>)),
   Do(Ask("object_store", "delete", <<Of(x, "s")>>)),
   Do(Ask("cache", "set", <<Of(x, "s"), Ident("a")>>)),
   Do(Ask("cache", "set", <<Of(x, "s"), Ask("cache", "get", <<Of(x, "s")>>)>>)),
   Do(Ask("search", "index", <<Of(x, "s"), Ident("a")>>)),
   Do(Ask("cache", "set", <<Of(x, "s"), Where("count", <<<<"c", Of(x, "c")>>>>)>>)),
   Do(Ask("external_http", "request", <<StrLit("u"), Of(x, "n")>>)),
   Do(Ask("email", "send", <<Of(x, "s"), Bin("+", StrLit("s"), IsRed), StrLit("t")>>)),
   Tx(<<Do(Db("insert", <<x>>)), Do(Db("delete", <<Of(x, "id")>>)), Do(Db("insert", <<x>>))>>),
   Tx(<<Do(Db("delete", <<Of(x, "id")>>)), Do(Db("insert", <<x>>))>>),
   Tx(<<Do(Db("insert", <<x>>)), Let("r", Db("get", <<Of(x, "id")>>)), Do(Db("insert", <<x>>))>>),
   Tx(<<Do(Db("insert", <<Fresh>>)), Do(Db("update", <<Of(x, "id"), x>>)), Do(Db("insert", <<x>>))>>),
   Tx(<<Let("r", IfElse(IsRed, <<Do(Of(x, "n"))>>, <<Do(Lit(2))>>)),
        Do(Db("insert", <<Make("x", <<<<"n", Ident("r")>>>>)>>))>>),
   Tx(<<Do(Where("delete_where", <<<<"c", Of(x, "c")>>>>)), Do(Db("insert", <<Fresh>>)),
        Do(IfElse(IsRed, <<Throw(<<Of(x, "s")>>)>>, <<>>))>>)}

\* The kind of statement before one of these: nothing, a write, a value that it uses.
Before1 ==
  {Do(Db("insert", <<x>>)), Do(Ask("cache", "set", <<Of(x, "s"), x>>)),
   Do(Ask("object_store", "put", <<Of(x, "s"), Of(x, "s")>>)),
   Let("a", Bin("+", Of(x, "n"), Lit(1))), Let("a", IfElse(IsRed, <<Do(Lit(1))>>, <<Do(Of(x, "n"))>>)),
   Let("a", Make("x", <<<<"n", Lit(2)>>>>))}

Handling(body) ==
  <<Svc("E"), Use(<<Cap("db", "Postgres", "default"), Cap("cache", "Redis", "default"),
                    Cap("queue", "NATS", "default"), Cap("object_store", "S3", "default"),
                    Cap("email", "SMTP", "default"), Cap("search", "OpenSearch", "default"),
                    [Cap("external_http", "", "default") EXCEPT !.attrs = <<Attr("base_url", "str", "u")>>]>>),
    Item, Err("Bad", <<Field("why", Str)>>), Tab("Items", "Item"), Stream("S", "Item"),
    Typed1("run", <<Param("x", RecordT("Item"))>>, RecordT("Item"), body),
    Api("Put", "Item", <<>>), Pipe("Put", <<To("run")>>)>>

BodyPrograms ==
  {Handling(<<s, t, Back(x)>>) : s, t \in MCStatements}
    \cup {Handling(<<s, t, Back(x)>>) : s \in Before1, t \in HostStatements}
    \cup {Handling(<<s, t>>) : s \in HostStatements, t \in {Back(x), Do(x), Do(Ask("cache", "set", <<StrLit("p"), Ident("a")>>))}}

MCPrograms == StructuredPrograms \cup FitPrograms \cup JobPrograms \cup ServicePrograms \cup EventPrograms \cup ReferencePrograms \cup BlueprintPrograms
                \cup BodyPrograms
=============================================================================
