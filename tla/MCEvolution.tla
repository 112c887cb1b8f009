---------------------------- MODULE MCEvolution ----------------------------
(* Two programs and their versions: tables of one service, records between services. *)
EXTENDS Versions, Sources

MCSpelling == ("Lines" :> "lines" @@ "OldOrders" :> "old_orders")
MCPrefixes == {<<"A", "AB">>}

Id == Field("id", Uuid)
N  == Field("n", Basic("Int"))
S  == Field("s", Str)
Order(fs) == Rec("Order", <<Id>> \o fs)
Line(fs)  == Rec("Line", <<Id>> \o fs)
Of   == Ref("of", "Order", "OldOrders", "one")
Many == Ref("of", "Order", "OldOrders", "many")

\* Orders and their lines: columns come, go and change, and so do references.
Shop(records, tables) ==
  <<Svc("Shop"), Use(<<Cap("db", "Postgres", "default")>>)>> \o records \o tables
Orders == Tab("OldOrders", "Order")
Lines  == Tab("Lines", "Line")

ShopRevisions ==
  <<Shop(<<Order(<<N>>)>>, <<Orders>>),
    Shop(<<Order(<<N, S>>), Line(<<Field("of_id", Uuid)>>)>>, <<Lines, Orders>>),
    Shop(<<Order(<<N>>), Line(<<Of>>)>>, <<Lines, Orders>>),
    Shop(<<Order(<<N, S>>), Line(<<Of, N>>)>>, <<Lines, Orders>>),
    Shop(<<Order(<<Field("n", Str)>>), Line(<<N>>)>>, <<Lines, Orders>>),
    Shop(<<Order(<<N, S>>), Line(<<N>>)>>, <<Tab("OldOrders", "Line"), Tab("Lines", "Order")>>),
    Shop(<<Order(<<N>>), Line(<<Many>>)>>, <<Lines, Orders>>)>>

\* A calls B, and B reads what A publishes.
Colour == Field("c", EnumT(<<"red", "blue">>))
Item(fs) == Rec("Item", <<Id, Colour>> \o fs)
Queue == Use(<<Cap("queue", "NATS", "default")>>)
CallTake == On("c", <<Arm("red", <<CallOf("B", "Take")>>), Arm("_", <<To("keep")>>)>>)

System(fs, steps, b) ==
  <<[k |-> "project", name |-> "E"], Item(fs), Stream("S", "Item"),
    In("A", <<Queue, Bare("keep"), Api("Put", "Item", <<>>), Pipe("Put", steps)>>)>> \o b
B(sent) == <<In("B", <<Queue, Bare("keep"), Api("Take", "Item", <<>>), Worker("W", "S"),
                       Pipe("Take", sent), Pipe("W", <<To("keep")>>)>>)>>
AB == <<In("AB", <<Use(<<Cap("queue", "NATS", "default"), Cap("realtime", "SSE", "default")>>), Channel("Feed", "S")>>)>>

SystemRevisions ==
  <<System(<<N>>, <<CallTake>>, B(<<To("keep")>>)),
    System(<<N, S>>, <<Pub("S"), CallTake>>, B(<<To("keep")>>)),
    System(<<S>>, <<CallTake>>, B(<<To("keep")>>)),
    System(<<Field("n", Str)>>, <<Pub("S")>>, B(<<To("keep")>>)),
    System(<<N>>, <<Pub("S")>>, B(<<Pub("S")>>)),
    System(<<S>>, <<Pub("S")>>, AB)>>

MCRevisions == ShopRevisions \o SystemRevisions
MCFamilies  == {1..7, 8..13}
=============================================================================
