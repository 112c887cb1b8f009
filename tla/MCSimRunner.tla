---------------------------- MODULE MCSimRunner ----------------------------
EXTENDS SimRunner

CONSTANTS a, b, orphan

Effect(s) == <<"broker.publish", s>>
MCStream == {a, b, orphan}
MCEffects == {Effect(s) : s \in MCStream}
MCApis == {<<a, b>>, <<orphan>>}
On(s, out, n) == [subject |-> s, publishes |-> out, retries |-> n]

\* Two workers share a subject; a third consumes what one of them publishes.
FanOutWorkers == <<On(a, <<b>>, 1), On(a, <<>>, 0), On(b, <<>>, 1)>>
\* The consumer of b is declared before the producer.
BackwardWorkers == <<On(b, <<>>, 0), On(a, <<b>>, 0)>>

TwoJobs == <<[fires |-> {0, 2}, publishes |-> <<>>], [fires |-> {1}, publishes |-> <<a>>]>>

PublishRule(s, n, action) ==
  [effect |-> "broker.publish", subject |-> s, occurrence |-> n, phase |-> "after", action |-> action]
SomeRules == <<PublishRule(b, 2, "error"), PublishRule(a, Every, "lose")>>
=============================================================================
