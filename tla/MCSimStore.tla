----------------------------- MODULE MCSimStore -----------------------------
EXTENDS SimStore

CONSTANTS customers, orders, items

TwoTables == {customers, orders}
ThreeTables == {customers, orders, items}
TwoKeys == TwoTables \X {1, 2}
FiveKeys == TwoKeys \cup {<<items, 1>>}
TwoFields == {"owner", "payer"}

Ref(t, f, target, cascade, unique) ==
  [table |-> t, field |-> f, target |-> target, cascade |-> cascade, unique |-> unique]

\* A one-to-one reference that cascades.
\* A chain of two cascades, one of them one-to-one, that a restricting reference may run across: the
\* payer of an item need not be the customer the item goes away with.
ChainSchema == {Ref(orders, "owner", customers, TRUE, TRUE),
                Ref(items, "owner", orders, TRUE, FALSE),
                Ref(items, "payer", customers, FALSE, FALSE)}

EffectsOf(tables) == {"db.commit"} \X tables
ThreeEffects == EffectsOf(ThreeTables)

Rule(subject, n, phase, action) ==
  [effect |-> "db.commit", subject |-> subject, occurrence |-> n, phase |-> phase, action |-> action]

\* One rule that no call can match, one that fails a call on orders.
OrdersFail == <<Rule(customers, Every, "before", "error"), Rule(orders, Every, "after", "error")>>
=============================================================================
