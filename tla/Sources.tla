------------------------------ MODULE Sources ------------------------------
(***************************************************************************)
(* Shorthands for the declarations of the programs that are checked.       *)
(***************************************************************************)
EXTENDS TypeCheck

Attr(n, k, v)   == [name |-> n, k |-> k, v |-> v]
Field(n, ty)    == [name |-> n, ty |-> ty, attrs |-> <<>>]
Rec(n, fs)      == [k |-> "record", name |-> n, error |-> FALSE, fields |-> fs]
Err(n, fs)      == [k |-> "record", name |-> n, error |-> TRUE, fields |-> fs]
Tab(n, r)       == [k |-> "table", name |-> n, record |-> r, db |-> ""]
Cap(c, p, n)    == [cap |-> c, provider |-> p, name |-> n, attrs |-> <<>>]
Use(es)         == [k |-> "use", name |-> "", entries |-> es]
Svc(n)          == [k |-> "service", name |-> n]
In(n, ds)       == [k |-> "block", name |-> n, items |-> ds]
Stream(n, r)    == [k |-> "stream", name |-> n, record |-> r, attrs |-> <<>>]
Api(n, r, as)   == [k |-> "api", name |-> n, request |-> r, attrs |-> as]
Worker(n, s)    == [k |-> "worker", name |-> n, stream |-> s, attrs |-> <<>>]
JobOn(n, days)  == [k |-> "job", name |-> n, attrs |-> <<Attr("schedule", "cron", days)>>]
Daily           == <<[base |-> <<>>, step |-> <<>>]>>
Job(n)          == JobOn(n, Daily)
Channel(n, s)   == [k |-> "channel", name |-> n, stream |-> s, attrs |-> <<>>]
Crud(n, r, as)  == [k |-> "crud", name |-> n, record |-> r, attrs |-> as]
EventsOf(n)     == [k |-> "events", name |-> n]
Pipe(n, ss)     == [k |-> "pipeline", name |-> n, steps |-> ss]
To(n)           == [k |-> "name", name |-> n]
Pub(s)          == [k |-> "publish", stream |-> s]
CallOf(s, a)    == [k |-> "call", path |-> <<s, a>>]
On(f, arms)     == [k |-> "match", field |-> f, arms |-> arms]
Arm(l, ss)      == [label |-> l, steps |-> ss]
Bare(n)         == [k |-> "handler", form |-> "bindings", name |-> n, params |-> <<>>, ret |-> Unit,
                    body |-> <<>>, bindings |-> <<>>]
Typed1(n, ps, ret, body) ==
  [k |-> "handler", form |-> "body", name |-> n, params |-> ps, ret |-> ret, body |-> body,
   bindings |-> <<>>]

Ref(n, target, table, card) ==
  [name |-> n, ty |-> [k |-> "Reference", target |-> target],
   attrs |-> <<Attr("references", "ident", table), Attr("cardinality", "ident", card),
               Attr("on_delete", "ident", "cascade"), Attr("on_update", "ident", "restrict")>>]
=============================================================================
