-------------------------- MODULE SimRunnerProofs --------------------------
(***************************************************************************)
(* Theorems about SimRunner, for any workers, jobs, failure rules and      *)
(* scenario: the accounts of attempts and publishes add up, schedules miss *)
(* no instant, and quiescence means that everything was delivered.         *)
(***************************************************************************)
EXTENDS SimRunner, FiniteSetTheorems, NaturalsInduction, WellFoundedInduction, TLAPS

----------------------------------------------------------------------------
(* Induction, and what a recursively defined pipeline is.                  *)

\* A set of naturals has a smallest member.
LEMMA Smallest ==
  ASSUME NEW T \in SUBSET Nat, T # {}
  PROVE  \E m \in T : \A k \in T : m <= k
<1> DEFINE LT == {ss \in Nat \X Nat : ss[1] < ss[2]}
<1>1. IsWellFoundedOn(LT, Nat)
  BY NatLessThanWellFounded DEF OpToRel
<1> HIDE DEF LT
<1>2. PICK m \in T : \A k \in T : ~(<<k, m>> \in LT)
  BY <1>1, WFMin
<1>3. ASSUME NEW k \in T PROVE m <= k
  <2>1. <<k, m>> \in Nat \X Nat /\ <<k, m>>[1] = k /\ <<k, m>>[2] = m
    OBVIOUS
  <2>2. ~(k < m)
    BY <1>2, <2>1 DEF LT
  <2> QED BY <2>2
<1> QED BY <1>3

\* The states of the broker along a pipeline are what their recursion says.
LEMMA ChainDef ==
  ASSUME NEW start, NEW streams, Len(streams) \in Nat
  PROVE  Chain(start, streams) =
           [i \in 0..Len(streams) |->
              IF i = 0 THEN start
              ELSE IF Chain(start, streams)[i - 1].ok
                   THEN PublishOne(Chain(start, streams)[i - 1], streams[i])
                   ELSE Chain(start, streams)[i - 1]]
<1> DEFINE Next1(b, i) == IF b.ok THEN PublishOne(b, streams[i]) ELSE b
           Upto(f, m) == f = [i \in 0..m |-> IF i = 0 THEN start ELSE Next1(f[i - 1], i)]
           T == {m \in Nat : ~ \E f : Upto(f, m)}
<1>1. T = {}
  <2> SUFFICES ASSUME T # {} PROVE FALSE
    OBVIOUS
  <2>1. PICK m \in T : \A k \in T : m <= k
    BY Smallest
  <2>2. CASE m = 0
    <3>1. Upto([i \in 0..0 |-> start], 0)
      OBVIOUS
    <3> QED BY <2>2, <3>1
  <2>3. CASE m # 0
    <3>1. m - 1 \in Nat /\ m - 1 \notin T
      BY <2>1, <2>3
    <3>2. PICK f : Upto(f, m - 1)
      BY <3>1
    <3> DEFINE g == [i \in 0..m |-> IF i = m THEN Next1(f[m - 1], m) ELSE f[i]]
    <3> HIDE DEF Next1
    <3>3. \A i \in 0..(m - 1) : f[i] = IF i = 0 THEN start ELSE Next1(f[i - 1], i)
      BY <3>1, <3>2
    <3>4. ASSUME NEW i \in 0..m PROVE g[i] = IF i = 0 THEN start ELSE Next1(g[i - 1], i)
      <4>1. CASE i = m
        BY <2>3, <3>1, <4>1
      <4>2. CASE i # m
        <5>1. i \in 0..(m - 1) /\ g[i] = f[i]
          BY <3>1, <4>2
        <5>2. i # 0 => i - 1 \in 0..m /\ i - 1 # m /\ g[i - 1] = f[i - 1]
          BY <3>1, <4>2
        <5> QED BY <3>3, <5>1, <5>2
      <4> QED BY <4>1, <4>2
    <3>5. Upto(g, m)
      BY <3>4
    <3> QED BY <3>5
  <2> QED BY <2>2, <2>3
<1>2. \E f : Upto(f, Len(streams))
  BY <1>1
<1>3. Chain(start, streams) = CHOOSE f : Upto(f, Len(streams))
  BY DEF Chain
<1> HIDE DEF Upto
<1>4. Upto(Chain(start, streams), Len(streams))
  BY <1>2, <1>3
<1> QED BY <1>4 DEF Upto

----------------------------------------------------------------------------
(* Schedules.                                                              *)

\* Quotient and remainder, as the arithmetic of naturals needs them.
LEMMA Division ==
  ASSUME NEW a \in Nat, NEW m \in Nat \ {0}
  PROVE  /\ a \div m \in Nat /\ a % m \in Nat /\ a % m < m
         /\ a = (a \div m) * m + (a % m)
<1>1. a \in Int /\ m \in Int /\ m > 0
  OBVIOUS
<1>2. a = (a \div m) * m + (a % m)
  BY <1>1, SMT
<1>3. a \div m \in Nat /\ a % m \in Nat /\ a % m < m
  OBVIOUS
<1> QED BY <1>2, <1>3

\* A quotient and a remainder that fit are the quotient and the remainder.
LEMMA DivisionIs ==
  ASSUME NEW q \in Nat, NEW m \in Nat \ {0}, NEW r \in Nat, r < m
  PROVE  (q * m + r) \div m = q /\ (q * m + r) % m = r
<1> DEFINE a == q * m + r
<1>1. a \in Int /\ m \in Int /\ m > 0 /\ q \in Int /\ r \in Int /\ r >= 0 /\ a = q * m + r
  OBVIOUS
<1> HIDE DEF a
<1>2. q = a \div m /\ r = a % m
  BY <1>1, SMT
<1> QED BY <1>2 DEF a

\* A schedule repeats.
LEMMA PeriodBack ==
  ASSUME NEW q \in Nat, NEW m \in Nat \ {0}, q >= m
  PROVE  (q - m) % m = q % m
<1> DEFINE d == q \div m
           r == q % m
<1>1. d \in Nat /\ r \in Nat /\ r < m /\ q = d * m + r
  BY Division
<1> HIDE DEF d, r
<1>2. d # 0
  BY <1>1
<1>3. d - 1 \in Nat /\ q - m = (d - 1) * m + r
  BY <1>1, <1>2
<1>4. ((d - 1) * m + r) % m = r
  BY <1>1, <1>3, DivisionIs
<1> QED BY <1>1, <1>3, <1>4 DEF r

\* An instant of a schedule is the start of a minute.
LEMMA InstantIsMinute ==
  ASSUME NEW job, NEW t \in Nat, Fires(job, t)
  PROVE  t \div Minute \in Nat /\ t = (t \div Minute) * Minute
         /\ (t \div Minute) % Period \in job.fires
<1>1. t % Minute = 0 /\ (t \div Minute) % Period \in job.fires
  BY DEF Fires
<1> QED BY <1>1, Division, ClockAssumption

\* The first second of a minute a schedule names is one of its instants.
LEMMA MinuteIsInstant ==
  ASSUME NEW job, NEW q \in Nat, q % Period \in job.fires
  PROVE  q * Minute \in Nat /\ Fires(job, q * Minute) /\ (q * Minute) \div Minute = q
<1>1. q * Minute \in Nat /\ q * Minute = q * Minute + 0
  BY ClockAssumption
<1>2. (q * Minute + 0) \div Minute = q /\ (q * Minute + 0) % Minute = 0
  BY DivisionIs, ClockAssumption
<1> QED BY <1>1, <1>2 DEF Fires

\* The instants of a minute later than `after` are later than `after`, and the reverse.
LEMMA LaterMinute ==
  ASSUME NEW after \in Nat, NEW q \in Nat
  PROVE  q * Minute > after <=> q > after \div Minute
<1> DEFINE d == after \div Minute
           r == after % Minute
<1>1. d \in Nat /\ r \in Nat /\ r < Minute /\ after = d * Minute + r
  BY Division, ClockAssumption
<1>2. Minute \in Nat \ {0}
  BY ClockAssumption
<1> HIDE DEF d, r
<1>3. CASE q >= d + 1
  <2>1. q * Minute >= (d + 1) * Minute /\ (d + 1) * Minute = d * Minute + Minute
    BY <1>1, <1>2, <1>3
  <2>2. q * Minute \in Nat /\ d * Minute \in Nat
    BY <1>1, <1>2
  <2>3. q * Minute > after
    BY <1>1, <1>2, <2>1, <2>2
  <2> QED BY <1>1, <1>3, <2>3 DEF d
<1>4. CASE q <= d
  <2>1. q * Minute <= d * Minute /\ q * Minute \in Nat /\ d * Minute \in Nat
    BY <1>1, <1>2, <1>4
  <2>2. ~(q * Minute > after)
    BY <1>1, <2>1
  <2> QED BY <1>1, <1>4, <2>2 DEF d
<1> QED BY <1>1, <1>3, <1>4

\* next_fire_after gives a time, or zero when it finds none.
LEMMA NextFireTyped ==
  ASSUME NEW job, NEW after \in Nat
  PROVE  NextFire(job, after) \in Nat
<1> DEFINE from == (after \div Minute) * Minute
           found == {t \in {from + k * Minute : k \in 1..Lookahead} : Fires(job, t)}
<1>1. from \in Nat /\ Minute \in Nat /\ Lookahead \in Nat
  BY Division, ClockAssumption
<1>2. NextFire(job, after) = IF found = {} THEN 0 ELSE CHOOSE t \in found : \A u \in found : t <= u
  BY DEF NextFire
<1> HIDE DEF from
<1>3. found \in SUBSET Nat
  <2> SUFFICES ASSUME NEW k \in 1..Lookahead PROVE from + k * Minute \in Nat
    OBVIOUS
  <2> QED BY <1>1
<1> HIDE DEF found
<1>4. CASE found # {}
  <2>1. \E t \in found : \A u \in found : t <= u
    BY <1>3, <1>4, Smallest
  <2> QED BY <1>2, <1>3, <1>4, <2>1
<1> QED BY <1>2, <1>4

\* next_fire_after finds the first instant after `after`, however far it is.
LEMMA NextFireIsFirst ==
  ASSUME ClockReaches, NEW job, NEW after \in Nat
  PROVE  \/ /\ NextFire(job, after) = 0
            /\ \A t \in Nat : t > after => ~Fires(job, t)
         \/ /\ NextFire(job, after) \in Nat \ {0} /\ NextFire(job, after) > after
            /\ Fires(job, NextFire(job, after))
            /\ \A t \in Nat : t > after /\ Fires(job, t) => NextFire(job, after) <= t
<1> DEFINE base == after \div Minute
           from == base * Minute
           found == {t \in {from + k * Minute : k \in 1..Lookahead} : Fires(job, t)}
           later == {t \in Nat : t > after /\ Fires(job, t)}
<1>1. base \in Nat /\ Minute \in Nat \ {0} /\ Lookahead \in Nat /\ Period \in Nat \ {0}
      /\ Period <= Lookahead
  BY Division, ClockAssumption DEF ClockReaches
<1>2. NextFire(job, after) = IF found = {} THEN 0 ELSE CHOOSE t \in found : \A u \in found : t <= u
  BY DEF NextFire
<1> HIDE DEF base
<1>3. found \subseteq later
  <2> SUFFICES ASSUME NEW k \in 1..Lookahead, Fires(job, from + k * Minute)
               PROVE  from + k * Minute \in Nat /\ from + k * Minute > after
    OBVIOUS
  <2>1. from + k * Minute = (base + k) * Minute /\ base + k \in Nat /\ base + k > base
    BY <1>1
  <2>2. (base + k) * Minute > after
    BY <2>1, LaterMinute DEF base
  <2>3. (base + k) * Minute \in Nat
    BY <1>1, <2>1
  <2> QED BY <2>1, <2>2, <2>3
<1> HIDE DEF from
<1>4. CASE later = {}
  <2>1. found = {}
    BY <1>3, <1>4
  <2> QED BY <1>2, <1>4, <2>1
<1>5. CASE later # {}
  <2>1. PICK t \in later : \A u \in later : t <= u
    BY <1>5, Smallest
  <2> DEFINE q == t \div Minute
  <2>2. q \in Nat /\ t = q * Minute /\ q % Period \in job.fires
    BY <2>1, InstantIsMinute
  <2> HIDE DEF q
  <2>3. q > base
    BY <2>1, <2>2, LaterMinute DEF base
  <2>4. q <= base + Period
    <3> SUFFICES ASSUME q > base + Period PROVE FALSE
      BY <1>1, <2>2
    <3>1. q - Period \in Nat /\ q >= Period /\ q - Period > base
      BY <1>1, <2>2
    <3>2. (q - Period) % Period \in job.fires
      BY <1>1, <2>2, <3>1, PeriodBack
    <3>3. (q - Period) * Minute \in later
      BY <3>1, <3>2, MinuteIsInstant, LaterMinute DEF base
    <3>4. (q - Period) * Minute < q * Minute
      <4>1. (q - Period) * Minute = q * Minute - Period * Minute /\ Period * Minute >= 1
        BY <1>1, <2>2
      <4> QED BY <1>1, <2>2, <4>1
    <3>5. q * Minute \in Nat /\ (q - Period) * Minute \in Nat
      BY <1>1, <2>2, <3>1
    <3> QED BY <2>1, <2>2, <3>3, <3>4, <3>5
  <2>5. t \in found
    <3>1. q - base \in 1..Lookahead /\ base + (q - base) = q
      BY <1>1, <2>2, <2>3, <2>4
    <3>2. from + (q - base) * Minute = q * Minute
      BY <1>1, <2>2 DEF from
    <3> QED BY <2>1, <2>2, <3>1, <3>2
  <2> HIDE DEF found, later
  <2>6. \A u \in found : t <= u
    BY <1>3, <2>1
  <2>7. \A u \in found : (\A v \in found : u <= v) => u = t
    <3> SUFFICES ASSUME NEW u \in found, u <= t PROVE u = t
      BY <2>5
    <3> QED BY <1>3, <2>6 DEF later
  <2>8. (CHOOSE u \in found : \A v \in found : u <= v) = t
    BY <2>5, <2>6, <2>7
  <2>9. NextFire(job, after) = t
    BY <1>2, <2>5, <2>8
  <2> QED BY <2>1, <2>9 DEF later
<1> QED BY <1>4, <1>5

\* The instants of a schedule from the start of the scenario until t.
Fired(job, t) == {u \in (StartAt + 1)..t : Fires(job, u)}

\* A schedule has finitely many instants until any time.
LEMMA FiredFinite ==
  ASSUME NEW job, NEW t \in Nat
  PROVE  IsFiniteSet(Fired(job, t)) /\ Cardinality(Fired(job, t)) \in Nat
<1>1. IsFiniteSet((StartAt + 1)..t)
  BY FS_Interval, ClockAssumption
<1>2. Fired(job, t) \subseteq (StartAt + 1)..t
  BY DEF Fired
<1> QED BY <1>1, <1>2, FS_Subset, FS_CardinalityType

\* Nothing is due in between.
LEMMA NothingFired ==
  ASSUME NEW job, NEW a \in Nat, NEW b \in Nat, a <= b,
         \A t \in Nat : t > a /\ t <= b => ~Fires(job, t)
  PROVE  Fired(job, b) = Fired(job, a)
<1>1. \A u \in (StartAt + 1)..b : u \in Nat /\ u <= b /\ (u <= a => u \in (StartAt + 1)..a)
  BY ClockAssumption
<1>2. \A u \in (StartAt + 1)..a : u \in (StartAt + 1)..b
  BY ClockAssumption
<1>3. \A u \in Nat : u <= a \/ u > a
  OBVIOUS
<1> QED BY <1>1, <1>2, <1>3 DEF Fired

\* The next instant is due.
LEMMA OneFired ==
  ASSUME NEW job, NEW a \in Nat, NEW b \in Nat, a < b, StartAt <= a, Fires(job, b),
         \A t \in Nat : t > a /\ Fires(job, t) => b <= t
  PROVE  Cardinality(Fired(job, b)) = Cardinality(Fired(job, a)) + 1
<1>1. Fired(job, b) = Fired(job, a) \cup {b}
  <2>1. ASSUME NEW u \in (StartAt + 1)..b, Fires(job, u) PROVE u \in (StartAt + 1)..a \/ u = b
    <3>1. u \in Nat /\ (u > a => b <= u)
      BY <2>1, ClockAssumption
    <3> QED BY <3>1, ClockAssumption
  <2>2. b \in (StartAt + 1)..b /\ \A u \in (StartAt + 1)..a : u \in (StartAt + 1)..b
    BY ClockAssumption
  <2> QED BY <2>1, <2>2 DEF Fired
<1>2. b \notin Fired(job, a)
  BY ClockAssumption DEF Fired
<1> QED BY <1>1, <1>2, FiredFinite, FS_AddElement

----------------------------------------------------------------------------
(* Publishing.                                                             *)

BrokerState ==
  [log : [Stream -> Nat], queued : SUBSET Stream, failures : Engine, ok : BOOLEAN]

Call(s) == <<"broker.publish", s>>
Tried(eng) == [s \in Stream |-> eng.counts[Call(s)]]

\* The messages of a log, one by one.
Spots(f) == UNION {{s} \X (1..f[s]) : s \in Stream}

Balanced(lg, eng) ==
  (\A s \in Stream : Tried(eng)[s] < CountCap) =>
    /\ IsFiniteSet(Spots(Tried(eng))) /\ IsFiniteSet(Spots(lg)) /\ IsFiniteSet(eng.matched)
    /\ Cardinality(Spots(Tried(eng))) = Cardinality(Spots(lg)) + Cardinality(eng.matched)

\* One message more in a log, or one attempt more, is one pair more to count.
LEMMA OneSpot ==
  ASSUME NEW f \in [Stream -> Nat], NEW s \in Stream, IsFiniteSet(Spots(f))
  PROVE  LET g == [f EXCEPT ![s] = @ + 1]
         IN  IsFiniteSet(Spots(g)) /\ Cardinality(Spots(g)) = Cardinality(Spots(f)) + 1
<1> DEFINE g == [f EXCEPT ![s] = @ + 1]
           new == <<s, f[s] + 1>>
<1>1. \A r \in Stream : g[r] = IF r = s THEN f[s] + 1 ELSE f[r]
  OBVIOUS
<1>2. \A n \in Nat : 1..(n + 1) = (1..n) \cup {n + 1}
  OBVIOUS
<1>3. ASSUME NEW r \in Stream
      PROVE  {r} \X (1..g[r]) = ({r} \X (1..f[r])) \cup (IF r = s THEN {new} ELSE {})
  <2>1. CASE r = s
    <3>1. 1..g[s] = (1..f[s]) \cup {f[s] + 1}
      BY <1>1, <1>2
    <3> QED BY <2>1, <3>1
  <2>2. CASE r # s
    BY <1>1, <2>2
  <2> QED BY <2>1, <2>2
<1> HIDE DEF g, new
<1>4. Spots(g) = Spots(f) \cup {new}
  BY <1>3 DEF Spots
<1>5. new \notin Spots(f)
  <2> SUFFICES ASSUME NEW r \in Stream, new \in {r} \X (1..f[r]) PROVE FALSE
    BY DEF Spots
  <2> QED BY DEF new
<1>6. /\ IsFiniteSet(Spots(f) \cup {new})
      /\ Cardinality(Spots(f) \cup {new}) = Cardinality(Spots(f)) + 1
  BY <1>5, FS_AddElement
<1>7. IsFiniteSet(Spots(g)) /\ Cardinality(Spots(g)) = Cardinality(Spots(f)) + 1
  BY <1>4, <1>6
<1> QED BY <1>7 DEF g

\* At most one rule fires on a call, and none that has fired before.
LEMMA FiringIs ==
  ASSUME NEW eng \in Engine, NEW call, NEW phase
  PROVE  \/ Firing(eng, call, phase) = {}
         \/ \E i \in DOMAIN Rules : i \notin eng.matched /\ Firing(eng, call, phase) = {i}
<1> SUFFICES ASSUME NEW i \in Firing(eng, call, phase)
             PROVE  i \in DOMAIN Rules /\ i \notin eng.matched /\ Firing(eng, call, phase) = {i}
  OBVIOUS
<1>1. DOMAIN Rules = 1..Len(Rules) /\ Len(Rules) \in Nat
  BY RulesAssumption
<1>2. ASSUME NEW j \in Firing(eng, call, phase) PROVE j = i
  <2>1. i \in 1..Len(Rules) /\ j \in 1..Len(Rules)
    BY <1>1 DEF Firing
  <2>2. i \in 1..(j - 1) \/ j \in 1..(i - 1) \/ i = j
    BY <1>1, <2>1
  <2> QED BY <2>2 DEF Firing
<1> QED BY <1>2 DEF Firing, Matches

\* One publish: the message is in the queue and in the log, or a rule has fired.
LEMMA PublishEffect ==
  ASSUME NEW b \in BrokerState, NEW s \in Stream
  PROVE  LET r == PublishOne(b, s)
         IN  /\ r \in BrokerState
             /\ r.failures.counts = [b.failures.counts EXCEPT ![Call(s)] = Occurrence(b.failures, Call(s))]
             /\ \/ /\ r.log = [b.log EXCEPT ![s] = @ + 1] /\ r.queued = b.queued \cup {s}
                   /\ r.failures.matched = b.failures.matched
                \/ /\ r.log = b.log /\ r.queued = b.queued
                   /\ \E i \in DOMAIN Rules : /\ i \notin b.failures.matched
                                              /\ r.failures.matched = b.failures.matched \cup {i}
<1> DEFINE r == PublishOne(b, s)
           eng == b.failures
           fired == Firing(eng, Call(s), "after")
<1>1. /\ b.log \in [Stream -> Nat] /\ b.queued \subseteq Stream /\ eng \in Engine
      /\ Call(s) \in Effects
  BY SubjectsAssumption DEF BrokerState, Call
<1>2. /\ r.failures = [matched |-> eng.matched \cup fired,
                       counts |-> [eng.counts EXCEPT ![Call(s)] = Occurrence(eng, Call(s))]]
      /\ r.log = IF fired = {} THEN [b.log EXCEPT ![s] = @ + 1] ELSE b.log
      /\ r.queued = IF fired = {} THEN b.queued \cup {s} ELSE b.queued
      /\ r.ok \in BOOLEAN
      /\ r = [log |-> r.log, queued |-> r.queued, failures |-> r.failures, ok |-> r.ok]
  BY DEF PublishOne, ShouldFail, Observed, Record, Call
<1>3. Occurrence(eng, Call(s)) \in 0..CountCap
  BY <1>1, RulesAssumption DEF Occurrence, Engine
<1>4. fired = {} \/ \E i \in DOMAIN Rules : i \notin eng.matched /\ fired = {i}
  BY <1>1, FiringIs
<1> HIDE DEF fired
<1>5. eng.matched \cup fired \subseteq DOMAIN Rules
  BY <1>1, <1>4 DEF Engine
<1>6. r.failures \in Engine
  BY <1>1, <1>2, <1>3, <1>5 DEF Engine
<1>7. r.log \in [Stream -> Nat] /\ r.queued \subseteq Stream
  BY <1>1, <1>2
<1> HIDE DEF r
<1>8. r \in BrokerState
  BY <1>2, <1>6, <1>7 DEF BrokerState
<1> QED BY <1>2, <1>4, <1>8 DEF r

\* The account of publishes stays balanced.
LEMMA PublishBalances ==
  ASSUME NEW b \in BrokerState, NEW s \in Stream, Balanced(b.log, b.failures)
  PROVE  Balanced(PublishOne(b, s).log, PublishOne(b, s).failures)
<1> DEFINE r == PublishOne(b, s)
<1>1. /\ r \in BrokerState
      /\ r.failures.counts = [b.failures.counts EXCEPT ![Call(s)] = Occurrence(b.failures, Call(s))]
      /\ \/ /\ r.log = [b.log EXCEPT ![s] = @ + 1]
            /\ r.failures.matched = b.failures.matched
         \/ /\ r.log = b.log
            /\ \E i \in DOMAIN Rules : /\ i \notin b.failures.matched
                                       /\ r.failures.matched = b.failures.matched \cup {i}
  BY PublishEffect
<1> HIDE DEF r
<1> SUFFICES ASSUME \A x \in Stream : Tried(r.failures)[x] < CountCap
             PROVE  /\ IsFiniteSet(Spots(Tried(r.failures))) /\ IsFiniteSet(Spots(r.log))
                    /\ IsFiniteSet(r.failures.matched)
                    /\ Cardinality(Spots(Tried(r.failures)))
                         = Cardinality(Spots(r.log)) + Cardinality(r.failures.matched)
  BY DEF Balanced, r
<1>2. /\ b.failures.counts \in [Effects -> 0..CountCap] /\ CountCap \in Nat
      /\ b.log \in [Stream -> Nat] /\ b.failures.matched \subseteq DOMAIN Rules
      /\ \A x \in Stream : Call(x) \in Effects
      /\ \A x \in Stream : Call(x) = Call(s) => x = s
  BY RulesAssumption, SubjectsAssumption DEF BrokerState, Engine, Call
<1>3. b.failures.counts[Call(s)] < CountCap
  <2>1. Tried(r.failures)[s] = Occurrence(b.failures, Call(s)) /\ Tried(r.failures)[s] < CountCap
    BY <1>1, <1>2 DEF Tried
  <2> QED BY <1>2, <2>1 DEF Occurrence
<1>4. Tried(r.failures) = [Tried(b.failures) EXCEPT ![s] = @ + 1]
  <2>1. Occurrence(b.failures, Call(s)) = b.failures.counts[Call(s)] + 1
    BY <1>2, <1>3 DEF Occurrence
  <2> QED BY <1>1, <1>2, <2>1 DEF Tried
<1>5. Tried(b.failures) \in [Stream -> Nat] /\ \A x \in Stream : Tried(b.failures)[x] < CountCap
  <2>1. Tried(b.failures) \in [Stream -> Nat]
    BY <1>2 DEF Tried
  <2>2. Tried(b.failures)[s] < CountCap
    BY <1>3 DEF Tried
  <2>3. \A x \in Stream \ {s} : Tried(b.failures)[x] < CountCap
    BY <1>4, <2>1
  <2> QED BY <2>1, <2>2, <2>3
<1>6. /\ IsFiniteSet(Spots(Tried(b.failures))) /\ IsFiniteSet(Spots(b.log))
      /\ IsFiniteSet(b.failures.matched)
      /\ Cardinality(Spots(Tried(b.failures)))
           = Cardinality(Spots(b.log)) + Cardinality(b.failures.matched)
  BY <1>5 DEF Balanced
<1>7. /\ IsFiniteSet(Spots(Tried(r.failures)))
      /\ Cardinality(Spots(Tried(r.failures))) = Cardinality(Spots(Tried(b.failures))) + 1
  BY <1>4, <1>5, <1>6, OneSpot
<1>8. /\ Cardinality(Spots(b.log)) \in Nat /\ Cardinality(b.failures.matched) \in Nat
  BY <1>6, FS_CardinalityType
<1>9. CASE r.log = [b.log EXCEPT ![s] = @ + 1] /\ r.failures.matched = b.failures.matched
  <2>1. IsFiniteSet(Spots(r.log)) /\ Cardinality(Spots(r.log)) = Cardinality(Spots(b.log)) + 1
    BY <1>2, <1>6, <1>9, OneSpot
  <2> QED BY <1>6, <1>7, <1>8, <1>9, <2>1
<1>10. CASE /\ r.log = b.log
            /\ \E i \in DOMAIN Rules : /\ i \notin b.failures.matched
                                       /\ r.failures.matched = b.failures.matched \cup {i}
  <2> DEFINE M == b.failures.matched
  <2>0. PICK i \in DOMAIN Rules : i \notin M /\ r.failures.matched = M \cup {i}
    BY <1>10
  <2> HIDE DEF M
  <2>1. /\ IsFiniteSet(r.failures.matched)
        /\ Cardinality(r.failures.matched) = Cardinality(b.failures.matched) + 1
    <3>1. IsFiniteSet(M)
      BY <1>6 DEF M
    <3>2. IsFiniteSet(M \cup {i}) /\ Cardinality(M \cup {i}) = Cardinality(M) + 1
      BY <2>0, <3>1, FS_AddElement
    <3> QED BY <2>0, <3>2 DEF M
  <2> QED BY <1>6, <1>7, <1>8, <1>10, <2>1
<1> QED BY <1>1, <1>9, <1>10

\* What every publish keeps, a pipeline keeps.
LEMMA ChainKeeps ==
  ASSUME NEW G, NEW start \in G, NEW streams \in Seq(Stream),
         \A b \in G : \A i \in DOMAIN streams : PublishOne(b, streams[i]) \in G,
         NEW n \in 0..Len(streams)
  PROVE  Chain(start, streams)[n] \in G
<1> DEFINE T == {m \in 0..Len(streams) : Chain(start, streams)[m] \notin G}
<1>1. Len(streams) \in Nat /\ DOMAIN streams = 1..Len(streams)
  OBVIOUS
<1>2. \A m \in 0..Len(streams) :
        Chain(start, streams)[m] =
          IF m = 0 THEN start
          ELSE IF Chain(start, streams)[m - 1].ok
               THEN PublishOne(Chain(start, streams)[m - 1], streams[m])
               ELSE Chain(start, streams)[m - 1]
  BY <1>1, ChainDef
<1> SUFFICES ASSUME T # {} PROVE FALSE
  OBVIOUS
<1>3. PICK m \in T : \A k \in T : m <= k
  <2>1. T \in SUBSET Nat
    BY <1>1
  <2> QED BY <2>1, Smallest
<1>4. m # 0
  BY <1>1, <1>2, <1>3
<1>5. m - 1 \in 0..Len(streams) /\ m - 1 \notin T /\ m \in DOMAIN streams
  BY <1>1, <1>3, <1>4
<1>6. Chain(start, streams)[m - 1] \in G
  BY <1>5
<1> QED BY <1>2, <1>3, <1>4, <1>5, <1>6

\* A run of a pipeline, as far as it gets.
LEMMA PipelineEffect ==
  ASSUME TypeOK, NEW streams \in Seq(Stream), NEW success, Pipeline(streams, success)
  PROVE  /\ log' \in [Stream -> Nat] /\ queued' \subseteq Stream /\ failures' \in Engine
         /\ \A s \in Stream : log'[s] >= log[s]
         /\ queued \subseteq queued'
         /\ \A s \in Stream : log'[s] # log[s] => s \in queued' /\ s \in {streams[i] : i \in DOMAIN streams}
         /\ Balanced(log, failures) => Balanced(log', failures')
<1>1. Broker \in BrokerState /\ Broker.log = log /\ Broker.queued = queued /\ Broker.failures = failures
  BY DEF TypeOK, Broker, BrokerState
<1>2. PICK n \in 0..Len(streams) :
        /\ log' = Chain(Broker, streams)[n].log
        /\ queued' = Chain(Broker, streams)[n].queued
        /\ failures' = Chain(Broker, streams)[n].failures
  BY DEF Pipeline
<1> DEFINE Named == {streams[i] : i \in DOMAIN streams}
           Good(b) == /\ \A s \in Stream : b.log[s] >= log[s]
                      /\ queued \subseteq b.queued
                      /\ \A s \in Stream : b.log[s] # log[s] => s \in b.queued /\ s \in Named
                      /\ Balanced(log, failures) => Balanced(b.log, b.failures)
           G == {b \in BrokerState : Good(b)}
<1>3. Broker \in G
  BY <1>1 DEF TypeOK
<1>4. ASSUME NEW b \in G, NEW i \in DOMAIN streams PROVE PublishOne(b, streams[i]) \in G
  <2> DEFINE s == streams[i]
             r == PublishOne(b, s)
  <2>1. s \in Stream /\ s \in Named /\ b \in BrokerState /\ Good(b)
    OBVIOUS
  <2> HIDE DEF s, Named
  <2>2. /\ r \in BrokerState
        /\ \/ r.log = [b.log EXCEPT ![s] = @ + 1] /\ r.queued = b.queued \cup {s}
           \/ r.log = b.log /\ r.queued = b.queued
    BY <2>1, PublishEffect
  <2>3. Balanced(b.log, b.failures) => Balanced(r.log, r.failures)
    BY <2>1, PublishBalances
  <2> HIDE DEF r
  <2>4. b.log \in [Stream -> Nat] /\ log \in [Stream -> Nat]
    BY <2>1 DEF BrokerState, TypeOK
  <2>5. Good(r)
    <3>1. CASE r.log = b.log /\ r.queued = b.queued
      BY <2>1, <2>3, <3>1
    <3>2. CASE r.log = [b.log EXCEPT ![s] = @ + 1] /\ r.queued = b.queued \cup {s}
      <4>1. /\ \A x \in Stream : r.log[x] >= b.log[x] /\ (x # s => r.log[x] = b.log[x])
            /\ b.queued \subseteq r.queued /\ s \in r.queued
        <5>1. \A x \in Stream \ {s} : r.log[x] = b.log[x]
          BY <2>4, <3>2
        <5>2. r.log[s] = b.log[s] + 1 /\ \A x \in Stream : b.log[x] \in Nat
          BY <2>1, <2>4, <3>2
        <5>3. \A x \in Stream : r.log[x] >= b.log[x]
          BY <5>1, <5>2
        <5> QED BY <3>2, <5>1, <5>3
      <4>2. \A x \in Stream : r.log[x] \in Nat /\ b.log[x] \in Nat /\ log[x] \in Nat
        BY <2>4, <3>2
      <4>3. \A x \in Stream : r.log[x] >= log[x]
        BY <2>1, <4>1, <4>2
      <4> QED BY <2>1, <2>3, <4>1, <4>3
    <3> QED BY <2>2, <3>1, <3>2
  <2> QED BY <2>2, <2>5 DEF r, s
<1> HIDE DEF G
<1>5. Chain(Broker, streams)[n] \in G
  BY <1>3, <1>4, ChainKeeps
<1> QED BY <1>2, <1>5 DEF G, BrokerState

----------------------------------------------------------------------------
(* The inductive invariant.                                                *)

Subject(w) == Workers[w].subject

\* A cursor is never ahead of its log, a retry never beyond its budget, and what a worker is
\* done with took at least one attempt and at most one more than it has retries.
Attempts ==
  /\ \A w \in W : cursor[w] <= log[Subject(w)]
  /\ pc.at = "deliver" => pc.left <= cursor[pc.w] /\ pc.tries <= Workers[pc.w].retries
  /\ AttemptsAddUp

\* The clock is past the start; what a job has run is its instants until now, or, while the
\* scenario advances, until the one it is at.
UpTo(j) == IF pc.at # "tick" THEN now
           ELSE IF j < pc.j THEN pc.to ELSE IF j = pc.j THEN pc.last ELSE now

Instants ==
  /\ StartAt <= now
  /\ pc.at = "tick" =>
       /\ now <= pc.last /\ pc.last <= pc.to /\ pc.to <= Horizon
       /\ pc.n <= (pc.last \div Minute) - (now \div Minute)
  /\ pc # Failed => \A j \in J : runs[j] = Cardinality(Fired(Jobs[j], UpTo(j)))

\* A message that is not drained is in the queue, and the workers before the one whose turn
\* it is have none.
Queued ==
  /\ \A w \in W : Pending(w) # 0 => Subject(w) \in queued
  /\ pc.at = "turn" => \A v \in W : v < pc.w => Pending(v) = 0
  /\ pc.at = "deliver" => \A v \in W : v <= pc.w => Pending(v) = 0

Inv == /\ TypeOK
       /\ Attempts
       /\ Balanced(log, failures)
       /\ ClockReaches => Instants
       /\ DeclaredInFeedingOrder => Queued

\* What the program counter carries, by where it is.
LEMMA AtPosition ==
  ASSUME pc \in Position
  PROVE  /\ pc.at \in {"idle", "failed", "turn", "deliver", "tick"}
         /\ pc.at = "turn" => pc.w \in 1..(Len(Workers) + 1)
         /\ pc.at = "deliver" => pc.w \in W /\ pc.left \in Nat /\ pc.tries \in Nat
         /\ pc.at = "tick" => /\ pc.j \in 1..(Len(Jobs) + 1) /\ pc.last \in Nat
                              /\ pc.n \in Nat /\ pc.to \in Nat
         /\ pc.at = "failed" <=> pc = Failed
         /\ pc.at = "idle" <=> pc = Idle
BY DEF Position, Idle, Failed

\* The declarations of workers and jobs have their types.
LEMMA Indices ==
  /\ W = 1..Len(Workers) /\ Len(Workers) \in Nat /\ J = 1..Len(Jobs) /\ Len(Jobs) \in Nat
  /\ \A w \in W : /\ Subject(w) \in Stream /\ Workers[w].publishes \in Seq(Stream)
                  /\ Workers[w].retries \in Nat
  /\ \A j \in J : Jobs[j].publishes \in Seq(Stream)
<1> DEFINE WorkerType == [subject : Stream, publishes : Seq(Stream), retries : Nat]
           JobType == [fires : SUBSET Nat, publishes : Seq(Stream)]
<1>1. Workers \in Seq(WorkerType) /\ Jobs \in Seq(JobType)
  BY PipelinesAssumption
<1>2. W = 1..Len(Workers) /\ Len(Workers) \in Nat /\ J = 1..Len(Jobs) /\ Len(Jobs) \in Nat
  BY <1>1 DEF W, J
<1> HIDE DEF WorkerType, JobType
<1>3. \A w \in W : Workers[w] \in WorkerType
  BY <1>1 DEF W
<1>4. \A j \in J : Jobs[j] \in JobType
  BY <1>1 DEF J
<1> QED BY <1>2, <1>3, <1>4 DEF Subject, WorkerType, JobType

\* The constructors of positions give positions.
LEMMA PositionsAre ==
  /\ Idle \in Position /\ Failed \in Position
  /\ \A w \in 1..(Len(Workers) + 1) : Turn(w) \in Position
  /\ \A w \in W, left \in Nat, tries \in Nat : Delivering(w, left, tries) \in Position
  /\ \A j \in 1..(Len(Jobs) + 1), last \in Nat, n \in Nat, to \in Nat :
       Ticking(j, last, n, to) \in Position
BY DEF Position, Idle, Failed, Turn, Delivering, Ticking

\* A step leaves the broker alone or runs a pipeline.
LEMMA BrokerStep ==
  ASSUME Inv, [Next]_vars
  PROVE  /\ log' \in [Stream -> Nat] /\ queued' \subseteq Stream /\ failures' \in Engine
         /\ \A s \in Stream : log'[s] >= log[s]
         /\ Balanced(log', failures')
<1>0. TypeOK /\ Balanced(log, failures)
  BY DEF Inv
<1>1. CASE UNCHANGED log /\ queued' \subseteq queued /\ UNCHANGED failures
  BY <1>0, <1>1 DEF TypeOK
<1>2. CASE \E streams \in Seq(Stream), success \in BOOLEAN : Pipeline(streams, success)
  BY <1>0, <1>2, PipelineEffect
<1>3. CASE Request
  BY <1>2, <1>3, PipelinesAssumption DEF Request
<1>4. CASE Attempt
  <2>1. pc.w \in W
    BY <1>0, <1>4, AtPosition DEF TypeOK, Attempt
  <2> QED BY <1>2, <1>4, <2>1, Indices DEF Attempt
<1>5. CASE Tick
  <2>1. pc.j \in J
    BY <1>5 DEF Tick, DueNow
  <2> QED BY <1>2, <1>5, <2>1, Indices DEF Tick
<1>6. CASE StartDrain \/ TakeBatch \/ Unreadable \/ NextWorker \/ Sweep \/ StartAdvance \/ NextJob
           \/ FinishAdvance \/ UNCHANGED vars
  <2>1. UNCHANGED log /\ queued' \subseteq queued /\ UNCHANGED failures
    BY <1>6 DEF StartDrain, TakeBatch, Unreadable, NextWorker, Sweep, StartAdvance, NextJob,
                FinishAdvance, vars
  <2> QED BY <1>1, <2>1
<1> QED BY <1>3, <1>4, <1>5, <1>6 DEF Next, Running

\* Every step keeps the types.
LEMMA TypeStep ==
  ASSUME Inv, [Next]_vars
  PROVE  TypeOK'
<1> USE DEF TypeOK
<1>0. TypeOK /\ pc \in Position /\ steps \in 0..MaxSteps
  BY DEF Inv
<1>1. log' \in [Stream -> Nat] /\ queued' \subseteq Stream /\ failures' \in Engine
  BY BrokerStep
<1>2. NewStep => steps' \in 0..MaxSteps
  BY <1>0, ClockAssumption DEF NewStep
<1>3. CASE Request
  BY <1>0, <1>1, <1>2, <1>3 DEF Request
<1>4. CASE StartDrain
  <2>1. pc' \in Position
    BY <1>4, PositionsAre, Indices DEF StartDrain
  <2> QED BY <1>0, <1>2, <1>4, <2>1 DEF StartDrain
<1>5. CASE TakeBatch
  <2>1. pc.w \in W /\ Subject(pc.w) \in Stream
    BY <1>5, Indices DEF TakeBatch
  <2>2. log[Subject(pc.w)] - cursor[pc.w] \in Nat /\ log[Subject(pc.w)] \in Nat
    BY <1>0, <2>1 DEF Inv, Attempts
  <2>3. pc' \in Position
    BY <1>5, <2>1, <2>2, PositionsAre DEF TakeBatch, Subject
  <2>4. cursor' \in [W -> Nat]
    BY <1>0, <1>5, <2>1, <2>2 DEF TakeBatch, Subject
  <2> QED BY <1>0, <1>5, <2>3, <2>4 DEF TakeBatch
<1>6. CASE Attempt
  <2>1. pc.w \in W /\ pc.left \in Nat /\ pc.tries \in Nat /\ pc.left > 0
    BY <1>0, <1>6, AtPosition DEF Attempt
  <2>2. pc' \in Position
    BY <1>6, <2>1, PositionsAre DEF Attempt
  <2>3. attempts' \in [W -> Nat]
    BY <1>0, <1>6, <2>1 DEF Attempt
  <2> QED BY <1>0, <1>1, <1>6, <2>2, <2>3 DEF Attempt
<1>7. CASE NextWorker
  <2>1. pc.w \in W
    BY <1>0, <1>7, AtPosition DEF NextWorker
  <2>2. pc.w + 1 \in 1..(Len(Workers) + 1)
    BY <2>1, Indices
  <2>3. pc' \in Position
    BY <1>7, <2>2, PositionsAre DEF NextWorker
  <2> QED BY <1>0, <1>7, <2>3 DEF NextWorker
<1>8. CASE Sweep
  <2>1. pc' \in Position
    BY <1>8, PositionsAre DEF Sweep
  <2> QED BY <1>0, <1>8, <2>1 DEF Sweep
<1>9. CASE StartAdvance
  <2>1. \A to \in now..Horizon : to \in Nat
    BY <1>0, ClockAssumption
  <2>2. 1 \in 1..(Len(Jobs) + 1) /\ 0 \in Nat
    BY Indices
  <2>3. pc' \in Position
    BY <1>0, <1>9, <2>1, <2>2, PositionsAre DEF StartAdvance
  <2> QED BY <1>0, <1>2, <1>9, <2>3 DEF StartAdvance
<1>10. CASE Tick
  <2>1. pc.j \in J /\ pc.j \in 1..(Len(Jobs) + 1) /\ pc.n + 1 \in Nat /\ pc.to \in Nat /\ pc.last \in Nat
    BY <1>0, <1>10, AtPosition DEF Tick, DueNow
  <2>2. DueNow \in Nat
    <3>1. DueNow = NextFire(Jobs[pc.j], pc.last)
      BY <1>10, <2>1 DEF Tick, DueNow, NextDue
    <3> QED BY <2>1, <3>1, NextFireTyped
  <2>3. pc' \in Position
    BY <1>10, <2>1, <2>2, PositionsAre DEF Tick
  <2>4. runs' \in [J -> Nat]
    BY <1>0, <1>10, <2>1 DEF Tick
  <2> QED BY <1>0, <1>1, <1>10, <2>3, <2>4 DEF Tick
<1>11. CASE NextJob
  <2>1. pc.j + 1 \in 1..(Len(Jobs) + 1) /\ pc.to \in Nat /\ 0 \in Nat
    BY <1>0, <1>11, AtPosition, Indices DEF NextJob
  <2>2. pc' \in Position
    BY <1>0, <1>11, <2>1, PositionsAre DEF NextJob
  <2> QED BY <1>0, <1>11, <2>2 DEF NextJob
<1>12. CASE FinishAdvance
  <2>1. pc.to \in Nat
    BY <1>0, <1>12, AtPosition DEF FinishAdvance
  <2> QED BY <1>0, <1>12, <2>1, PositionsAre DEF FinishAdvance
<1>13. CASE Unreadable
  BY <1>0, <1>13, PositionsAre DEF Unreadable
<1>14. CASE UNCHANGED vars
  BY <1>0, <1>14 DEF vars
<1> QED BY <1>3, <1>4, <1>5, <1>6, <1>7, <1>8, <1>9, <1>10, <1>11, <1>12, <1>13, <1>14 DEF Next, Running

\* One more message of at least one and at most r + 1 attempts.
LEMMA OneMoreDone ==
  ASSUME NEW a \in Nat, NEW d \in Nat, NEW r \in Nat, NEW t \in Nat, t <= r,
         a >= d, a <= d * (r + 1)
  PROVE  a + t + 1 >= d + 1 /\ a + t + 1 <= (d + 1) * (r + 1)
<1>1. (d + 1) * (r + 1) = d * (r + 1) + (r + 1) /\ d * (r + 1) \in Nat
  OBVIOUS
<1> QED BY <1>1

\* The budget of more messages is no smaller.
LEMMA MoreDone ==
  ASSUME NEW a \in Nat, NEW d \in Nat, NEW e \in Nat, NEW r \in Nat, a <= d * (r + 1), d <= e
  PROVE  a <= e * (r + 1)
<1>1. e - d \in Nat /\ e * (r + 1) = d * (r + 1) + (e - d) * (r + 1)
  OBVIOUS
<1>2. d * (r + 1) \in Nat /\ (e - d) * (r + 1) \in Nat
  BY <1>1
<1> QED BY <1>1, <1>2

\* Every step keeps the accounts of attempts.
LEMMA AttemptsStep ==
  ASSUME Inv, [Next]_vars
  PROVE  Attempts'
<1>0. TypeOK /\ TypeOK' /\ Attempts
  BY TypeStep DEF Inv
<1>1. /\ log \in [Stream -> Nat] /\ cursor \in [W -> Nat] /\ attempts \in [W -> Nat]
      /\ pc \in Position
      /\ log' \in [Stream -> Nat] /\ \A s \in Stream : log'[s] >= log[s]
  BY <1>0, BrokerStep DEF TypeOK
<1>2. \A w \in W : Done(w) \in Nat /\ Subject(w) \in Stream
  <2>1. \A w \in W : cursor[w] \in Nat /\ (pc.at = "deliver" /\ pc.w = w => pc.left \in Nat /\ pc.left <= cursor[w])
    BY <1>0, <1>1, AtPosition DEF Attempts
  <2> QED BY <2>1, Indices DEF Done
<1>3. \A w \in W : cursor[w] <= log'[Subject(w)]
  <2> SUFFICES ASSUME NEW w \in W PROVE cursor[w] <= log'[Subject(w)]
    OBVIOUS
  <2>1. cursor[w] \in Nat /\ log[Subject(w)] \in Nat /\ log'[Subject(w)] \in Nat
        /\ cursor[w] <= log[Subject(w)] /\ log'[Subject(w)] >= log[Subject(w)]
    BY <1>0, <1>1, <1>2 DEF Attempts
  <2> QED BY <2>1
\* A step that leaves the workers alone.
<1>4. CASE /\ UNCHANGED <<cursor, attempts>>
           /\ pc.at # "deliver" \/ pc.left = 0 \/ pc' = pc
           /\ pc # Failed \/ pc' = pc
           /\ pc'.at # "deliver" \/ pc' = pc
  <2>1. \A w \in W : Done(w)' = Done(w)
    <3> SUFFICES ASSUME NEW w \in W PROVE Done(w)' = Done(w)
      OBVIOUS
    <3>1. cursor[w] \in Nat
      BY <1>1
    <3> QED BY <1>4, <3>1 DEF Done
  <2>2. AttemptsAddUp'
    BY <1>0, <1>4, <2>1 DEF Attempts, AttemptsAddUp
  <2> QED BY <1>0, <1>3, <1>4, <2>2 DEF Attempts
<1>5. CASE TakeBatch
  <2> DEFINE u == pc.w
             s == Subject(u)
             left == log[s] - cursor[u]
  <2>1. u \in W /\ s \in Stream /\ pc.at = "turn" /\ log' = log /\ attempts' = attempts
    BY <1>5, Indices DEF TakeBatch
  <2>2. log[s] \in Nat /\ cursor[u] \in Nat /\ left \in Nat /\ left <= log[s]
    BY <1>0, <1>1, <2>1 DEF Attempts
  <2>3. pc' = Delivering(u, left, 0) /\ cursor' = [cursor EXCEPT ![u] = log[s]]
    BY <1>5 DEF TakeBatch, Subject
  <2>4. pc'.at = "deliver" /\ pc'.w = u /\ pc'.left = left /\ pc'.tries = 0
    BY <2>3 DEF Delivering
  <2> HIDE DEF u, left, s
  <2>5. \A w \in W : cursor'[w] <= log'[Subject(w)]
    <3> SUFFICES ASSUME NEW w \in W PROVE cursor'[w] <= log'[Subject(w)]
      OBVIOUS
    <3>1. CASE w = u
      BY <1>1, <2>1, <2>2, <2>3, <3>1 DEF s
    <3>2. CASE w # u
      BY <1>1, <1>3, <2>1, <2>3, <3>2
    <3> QED BY <3>1, <3>2
  <2>6. \A w \in W : Done(w)' = Done(w)
    <3> SUFFICES ASSUME NEW w \in W PROVE Done(w)' = Done(w)
      OBVIOUS
    <3>1. CASE w = u
      <4>1. cursor'[w] = log[s] /\ Done(w)' = log[s] - left
        BY <1>1, <2>1, <2>3, <2>4, <3>1 DEF Done
      <4>2. Done(w) = cursor[w]
        BY <1>1, <2>1 DEF Done
      <4> QED BY <2>2, <3>1, <4>1, <4>2 DEF left
    <3>2. CASE w # u
      BY <1>1, <2>1, <2>3, <2>4, <3>2 DEF Done
    <3> QED BY <3>1, <3>2
  <2>7. AttemptsAddUp'
    BY <1>0, <2>1, <2>6 DEF Attempts, AttemptsAddUp, Failed
  <2>8. pc'.left <= cursor'[pc'.w] /\ pc'.tries <= Workers[pc'.w].retries
    BY <1>1, <2>1, <2>2, <2>3, <2>4, Indices
  <2> QED BY <2>5, <2>7, <2>8 DEF Attempts
<1>6. CASE Attempt
  <2>0. pc.w \in W
    BY <1>1, <1>6, AtPosition DEF Attempt
  <2> PICK u \in W : u = pc.w
    BY <2>0
  <2> DEFINE left == pc.left
             tries == pc.tries
             budget == Workers[u].retries
  <2>1. /\ u \in W /\ left \in Nat /\ left > 0 /\ tries \in Nat /\ pc.at = "deliver"
        /\ left <= cursor[u] /\ tries <= budget /\ budget \in Nat /\ cursor' = cursor
    BY <1>0, <1>1, <1>6, AtPosition, Indices DEF Attempt, Attempts
  <2>2. \/ /\ pc' = Delivering(u, left - 1, 0)
           /\ attempts' = [attempts EXCEPT ![u] = @ + tries + 1]
        \/ /\ pc' = Delivering(u, left, tries + 1) /\ tries # budget
           /\ attempts' = attempts
    BY <1>6 DEF Attempt, GivesUp
  <2>3. cursor[u] \in Nat /\ attempts[u] \in Nat /\ Done(u) = cursor[u] - left
    BY <1>1, <2>1 DEF Done
  <2> HIDE DEF left, tries, budget
  <2>4. CASE pc' = Delivering(u, left - 1, 0) /\ attempts' = [attempts EXCEPT ![u] = @ + tries + 1]
    <3>1. pc'.at = "deliver" /\ pc'.w = u /\ pc'.left = left - 1 /\ pc'.tries = 0
      BY <2>4 DEF Delivering
    <3>2. \A w \in W : w # u => Done(w)' = Done(w) /\ attempts'[w] = attempts[w]
      BY <1>1, <2>1, <2>4, <3>1 DEF Done
    <3>3. Done(u)' = Done(u) + 1 /\ attempts'[u] = attempts[u] + tries + 1
      BY <1>1, <2>1, <2>3, <2>4, <3>1 DEF Done
    <3>4. attempts'[u] >= Done(u)' /\ attempts'[u] <= Done(u)' * (budget + 1)
      <4>1. attempts[u] >= Done(u) /\ attempts[u] <= Done(u) * (budget + 1)
        BY <1>0, <2>1 DEF Attempts, AttemptsAddUp, budget, Failed
      <4>2. Done(u) \in Nat
        BY <1>2, <2>1
      <4> QED BY <2>1, <2>3, <3>3, <4>1, <4>2, OneMoreDone
    <3>5. AttemptsAddUp'
      BY <1>0, <2>1, <3>2, <3>4 DEF Attempts, AttemptsAddUp, budget, Failed
    <3>6. pc'.left <= cursor'[pc'.w] /\ pc'.tries <= Workers[pc'.w].retries
      BY <2>1, <2>3, <3>1 DEF budget
    <3> QED BY <1>3, <2>1, <3>5, <3>6 DEF Attempts
  <2>5. CASE pc' = Delivering(u, left, tries + 1) /\ tries # budget /\ attempts' = attempts
    <3>1. pc'.at = "deliver" /\ pc'.w = u /\ pc'.left = left /\ pc'.tries = tries + 1
      BY <2>5 DEF Delivering
    <3>2. \A w \in W : Done(w)' = Done(w)
      BY <2>1, <3>1 DEF Done, left
    <3>3. AttemptsAddUp'
      BY <1>0, <2>1, <2>5, <3>2 DEF Attempts, AttemptsAddUp, Failed
    <3>4. pc'.left <= cursor'[pc'.w] /\ pc'.tries <= Workers[pc'.w].retries
      BY <2>1, <2>5, <3>1 DEF budget
    <3> QED BY <1>3, <2>1, <3>3, <3>4 DEF Attempts
  <2> QED BY <2>2, <2>4, <2>5
<1>7. CASE Request \/ UNCHANGED vars
  BY <1>4, <1>7 DEF Request, vars
<1>8. CASE StartDrain \/ StartAdvance
  <2>1. pc = Idle /\ pc'.at \in {"turn", "tick"} /\ UNCHANGED <<cursor, attempts>>
    BY <1>8 DEF StartDrain, StartAdvance, NewStep, Turn, Ticking
  <2> QED BY <1>4, <2>1 DEF Idle, Failed
<1>9. CASE NextWorker
  BY <1>4, <1>9 DEF NextWorker, Turn, Failed
<1>10. CASE Sweep \/ Tick \/ NextJob \/ FinishAdvance
  <2>1. /\ pc.at \notin {"deliver", "failed"} /\ pc'.at # "deliver"
        /\ UNCHANGED <<cursor, attempts>>
    BY <1>10 DEF Sweep, Tick, NextJob, FinishAdvance, Idle, Failed, Ticking
  <2> QED BY <1>4, <2>1 DEF Failed
\* The messages left in the batch count as done with, without an attempt.
<1>11. CASE Unreadable
  <2>1. pc' = Failed /\ pc'.at = "failed" /\ UNCHANGED <<cursor, attempts>>
    BY <1>11 DEF Unreadable, Failed
  <2>2. ASSUME NEW w \in W PROVE Done(w) <= Done(w)' /\ Done(w)' \in Nat
    <3>1. cursor[w] \in Nat /\ Done(w)' = cursor[w]
      BY <1>1, <2>1 DEF Done
    <3>2. pc.at = "deliver" => pc.left \in Nat
      BY <1>1, AtPosition
    <3> QED BY <3>1, <3>2 DEF Done
  <2>3. ASSUME NEW w \in W PROVE attempts'[w] <= Done(w)' * (Workers[w].retries + 1)
    <3>1. attempts[w] <= Done(w) * (Workers[w].retries + 1)
      BY <1>0 DEF Attempts, AttemptsAddUp
    <3> QED BY <1>1, <1>2, <2>1, <2>2, <3>1, MoreDone, Indices
  <2>4. AttemptsAddUp'
    BY <2>1, <2>3 DEF AttemptsAddUp
  <2> QED BY <1>3, <2>1, <2>4 DEF Attempts
<1> QED BY <1>5, <1>6, <1>7, <1>8, <1>9, <1>10, <1>11 DEF Next, Running

\* Minutes are ordered as instants are.
LEMMA MinutesGrow ==
  ASSUME NEW a \in Nat, NEW b \in Nat, a <= b
  PROVE  a \div Minute \in Nat /\ b \div Minute \in Nat /\ a \div Minute <= b \div Minute
<1>1. a \div Minute \in Nat /\ b \div Minute \in Nat
  BY Division, ClockAssumption
<1>2. ~((a \div Minute) * Minute > a) /\ (a \div Minute) * Minute \in Nat
  BY <1>1, LaterMinute, ClockAssumption
<1>3. ~((a \div Minute) * Minute > b)
  BY <1>2
<1> QED BY <1>1, <1>3, LaterMinute

\* While the cap is not reached, due_instants gives the next instant of the window.
LEMMA NextDueIsFirst ==
  ASSUME ClockReaches, NEW job, NEW last \in Nat, NEW n \in Nat, NEW to \in Nat,
         StartAt <= last, to <= Horizon, n <= (last \div Minute) - (StartAt \div Minute)
  PROVE  LET t == NextDue(job, last, n, to)
         IN  \/ t = 0 /\ \A u \in Nat : u > last /\ u <= to => ~Fires(job, u)
             \/ /\ t \in Nat \ {0} /\ t > last /\ t <= to /\ Fires(job, t)
                /\ \A u \in Nat : u > last /\ Fires(job, u) => t <= u
                /\ n + 1 <= (t \div Minute) - (StartAt \div Minute)
                /\ t \div Minute > last \div Minute
<1> DEFINE next == NextFire(job, last)
<1>1. \/ next = 0 /\ \A t \in Nat : t > last => ~Fires(job, t)
      \/ /\ next \in Nat \ {0} /\ next > last /\ Fires(job, next)
         /\ \A t \in Nat : t > last /\ Fires(job, t) => next <= t
  BY NextFireIsFirst
<1> HIDE DEF next
<1>2. NextDue(job, last, n, to) = IF n < DueCap /\ next <= to THEN next ELSE 0
  BY DEF NextDue, next
<1>3. CASE next = 0 /\ \A t \in Nat : t > last => ~Fires(job, t)
  BY <1>2, <1>3
<1>4. CASE /\ next \in Nat \ {0} /\ next > last /\ Fires(job, next)
           /\ \A t \in Nat : t > last /\ Fires(job, t) => next <= t
  <2>1. next \div Minute \in Nat /\ next = (next \div Minute) * Minute
    BY <1>4, InstantIsMinute
  <2>2. next \div Minute > last \div Minute
    BY <1>4, <2>1, LaterMinute
  <2>3. last \div Minute \in Nat /\ StartAt \div Minute \in Nat
    BY Division, ClockAssumption
  <2>4. CASE next <= to
    <3>1. next <= Horizon /\ Horizon \in Nat
      BY <1>4, <2>4, ClockAssumption
    <3>2. next \div Minute <= Horizon \div Minute /\ Horizon \div Minute \in Nat
      BY <1>4, <3>1, MinutesGrow
    <3>3. n < DueCap
      BY <2>1, <2>2, <2>3, <3>2, ClockAssumption DEF ClockReaches
    <3> QED BY <1>2, <1>4, <2>1, <2>2, <2>3, <2>4, <3>3
  <2>5. CASE ~(next <= to)
    <3>1. NextDue(job, last, n, to) = 0
      BY <1>2, <2>5
    <3>2. \A u \in Nat : u > last /\ u <= to => ~Fires(job, u)
      BY <1>4, <2>5
    <3> QED BY <3>1, <3>2
  <2> QED BY <2>4, <2>5
<1> QED BY <1>1, <1>3, <1>4

\* Every step keeps the accounts of instants.
LEMMA InstantsStep ==
  ASSUME Inv, ClockReaches, [Next]_vars
  PROVE  Instants'
<1>0. TypeOK /\ Instants /\ pc \in Position /\ now \in Nat /\ runs \in [J -> Nat] /\ StartAt <= now
  BY DEF Inv, TypeOK, Instants
<1>1. J = 1..Len(Jobs) /\ Len(Jobs) \in Nat
  BY Indices
\* Between the steps of an advance.
<1>2. CASE /\ UNCHANGED <<now, runs>>
           /\ pc.at # "tick" /\ pc # Failed /\ pc'.at # "tick"
  <2>1. \A j \in J : UpTo(j) = now /\ UpTo(j)' = now
    BY <1>2 DEF UpTo
  <2> QED BY <1>0, <1>2, <2>1 DEF Instants
<1>3. CASE pc' = Failed /\ now' = now
  BY <1>0, <1>3 DEF Instants, Failed
<1>4. CASE UNCHANGED vars
  <2>1. \A j \in J : UpTo(j)' = UpTo(j)
    BY <1>4 DEF UpTo, vars
  <2> QED BY <1>0, <1>4, <2>1 DEF Instants, vars
<1>5. CASE Request \/ StartDrain
  BY <1>2, <1>5 DEF Request, StartDrain, NewStep, Idle, Turn, Failed
<1>6. CASE TakeBatch \/ Attempt \/ Unreadable \/ NextWorker
  BY <1>2, <1>3, <1>6 DEF TakeBatch, Attempt, Unreadable, NextWorker, Turn, Delivering, Failed
<1>7. CASE Sweep
  BY <1>2, <1>3, <1>7 DEF Sweep, Idle, Failed
<1>8. CASE StartAdvance
  <2> PICK to \in now..Horizon : pc' = Ticking(1, now, 0, to)
    BY <1>8 DEF StartAdvance
  <2>1. pc = Idle /\ now' = now /\ runs' = runs /\ to \in Nat /\ now <= to /\ to <= Horizon
    BY <1>0, <1>8, ClockAssumption DEF StartAdvance, NewStep
  <2>2. pc'.at = "tick" /\ pc'.j = 1 /\ pc'.last = now /\ pc'.n = 0 /\ pc'.to = to /\ pc' # Failed
    BY DEF Ticking, Failed
  <2>3. \A j \in J : UpTo(j)' = now
    BY <1>1, <2>1, <2>2 DEF UpTo
  <2>4. \A j \in J : UpTo(j) = now
    BY <2>1 DEF UpTo, Idle
  <2>5. pc # Failed
    BY <2>1 DEF Idle, Failed
  <2>6. \A j \in J : runs'[j] = Cardinality(Fired(Jobs[j], UpTo(j)'))
    BY <1>0, <2>1, <2>3, <2>4, <2>5 DEF Instants
  <2>7. now \div Minute \in Nat
    BY <1>0, Division, ClockAssumption
  <2> QED BY <1>0, <2>1, <2>2, <2>6, <2>7 DEF Instants
\* In an advance, at job k.
<1>9. ASSUME pc.at = "tick"
      PROVE  /\ pc.j \in 1..(Len(Jobs) + 1) /\ pc.last \in Nat /\ pc.n \in Nat /\ pc.to \in Nat
             /\ now <= pc.last /\ pc.last <= pc.to /\ pc.to <= Horizon
             /\ StartAt <= pc.last
             /\ pc.n <= (pc.last \div Minute) - (now \div Minute)
             /\ pc.n <= (pc.last \div Minute) - (StartAt \div Minute)
             /\ pc # Failed
             /\ \A j \in J : runs[j] = Cardinality(Fired(Jobs[j], UpTo(j)))
  <2>1. /\ pc.j \in 1..(Len(Jobs) + 1) /\ pc.last \in Nat /\ pc.n \in Nat /\ pc.to \in Nat /\ pc # Failed
    BY <1>0, <1>9, AtPosition
  <2>2. /\ now <= pc.last /\ pc.last <= pc.to /\ pc.to <= Horizon
        /\ pc.n <= (pc.last \div Minute) - (now \div Minute)
        /\ \A j \in J : runs[j] = Cardinality(Fired(Jobs[j], UpTo(j)))
    BY <1>0, <1>9, <2>1 DEF Instants
  <2>3. /\ StartAt \div Minute \in Nat /\ now \div Minute \in Nat
        /\ StartAt \div Minute <= now \div Minute /\ pc.last \div Minute \in Nat
    BY <1>0, <2>1, <2>2, MinutesGrow, ClockAssumption
  <2>4. StartAt <= pc.last
    <3>1. now \in Nat /\ StartAt <= now /\ StartAt \in Nat /\ pc.last \in Nat /\ now <= pc.last
      BY <1>0, <2>1, <2>2, ClockAssumption
    <3> QED BY <3>1
  <2> QED BY <2>1, <2>2, <2>3, <2>4
<1>10. CASE Tick
  <2>1. pc.at = "tick" /\ pc.j \in J /\ DueNow # 0
    BY <1>10 DEF Tick, DueNow
  <2> PICK k \in J : k = pc.j
    BY <2>1
  <2> DEFINE last == pc.last
             to == pc.to
             n == pc.n
             t == NextDue(Jobs[k], last, n, to)
  <2>2. DueNow = t
    BY <2>1 DEF DueNow
  <2>3. /\ last \in Nat /\ n \in Nat /\ to \in Nat /\ now <= last /\ last <= to /\ to <= Horizon
        /\ StartAt <= last /\ n <= (last \div Minute) - (now \div Minute)
        /\ n <= (last \div Minute) - (StartAt \div Minute)
        /\ \A j \in J : runs[j] = Cardinality(Fired(Jobs[j], UpTo(j)))
    BY <1>9, <2>1
  <2>4. /\ t \in Nat \ {0} /\ t > last /\ t <= to /\ Fires(Jobs[k], t)
        /\ \A u \in Nat : u > last /\ Fires(Jobs[k], u) => t <= u
        /\ t \div Minute > last \div Minute
    BY <2>1, <2>2, <2>3, NextDueIsFirst
  <2>5. \/ pc' = Failed /\ now' = now
        \/ pc' = Ticking(k, t, n + 1, to) /\ runs' = [runs EXCEPT ![k] = @ + 1] /\ now' = now
    BY <1>10, <2>2 DEF Tick
  <2> HIDE DEF t, last, to, n
  <2>6. CASE pc' = Ticking(k, t, n + 1, to) /\ runs' = [runs EXCEPT ![k] = @ + 1] /\ now' = now
    <3>1. /\ pc'.at = "tick" /\ pc'.j = k /\ pc'.last = t /\ pc'.n = n + 1 /\ pc'.to = to
          /\ pc' # Failed
      BY <2>6 DEF Ticking, Failed
    <3>2. Cardinality(Fired(Jobs[k], t)) = Cardinality(Fired(Jobs[k], last)) + 1
      BY <2>3, <2>4, OneFired
    <3>3. runs'[k] = Cardinality(Fired(Jobs[k], t))
      <4>1. UpTo(k) = last
        BY <1>1, <2>1 DEF UpTo, last
      <4> QED BY <1>0, <2>3, <2>6, <3>2, <4>1
    <3>4. \A j \in J : j # k => runs'[j] = Cardinality(Fired(Jobs[j], UpTo(j)))
      BY <1>0, <2>3, <2>6
    <3>5. \A j \in J : j # k => UpTo(j)' = UpTo(j)
      BY <2>1, <2>6, <3>1 DEF UpTo, to
    <3>6. UpTo(k)' = t
      BY <1>1, <3>1 DEF UpTo
    <3>7. \A j \in J : runs'[j] = Cardinality(Fired(Jobs[j], UpTo(j)'))
      BY <3>3, <3>4, <3>5, <3>6
    <3>8. n + 1 <= (t \div Minute) - (now \div Minute)
      <4>1. t \div Minute \in Nat /\ last \div Minute \in Nat /\ now \div Minute \in Nat
        BY <1>0, <2>3, <2>4, Division, ClockAssumption
      <4> QED BY <2>3, <2>4, <4>1
    <3>9. StartAt <= now' /\ now' <= pc'.last /\ pc'.last <= pc'.to /\ pc'.to <= Horizon
          /\ pc'.n <= (pc'.last \div Minute) - (now' \div Minute)
      BY <1>0, <2>3, <2>4, <2>6, <3>1, <3>8
    <3> QED BY <3>1, <3>7, <3>9 DEF Instants
  <2> QED BY <1>3, <2>5, <2>6
\* At the end of a job's window nothing is left of it.
<1>11. ASSUME pc.at = "tick", DueNow = 0
       PROVE  \A j \in J : j = pc.j => Fired(Jobs[j], pc.to) = Fired(Jobs[j], pc.last)
  <2> SUFFICES ASSUME NEW j \in J, j = pc.j
               PROVE  Fired(Jobs[j], pc.to) = Fired(Jobs[j], pc.last)
    OBVIOUS
  <2>1. NextDue(Jobs[j], pc.last, pc.n, pc.to) = 0
    BY <1>11 DEF DueNow
  <2>2. /\ pc.last \in Nat /\ pc.n \in Nat /\ pc.to \in Nat /\ pc.last <= pc.to /\ pc.to <= Horizon
        /\ StartAt <= pc.last /\ pc.n <= (pc.last \div Minute) - (StartAt \div Minute)
    BY <1>9, <1>11
  <2>3. \A u \in Nat : u > pc.last /\ u <= pc.to => ~Fires(Jobs[j], u)
    BY <2>1, <2>2, NextDueIsFirst
  <2> QED BY <2>2, <2>3, NothingFired
<1>12. CASE NextJob
  <2>1. pc.at = "tick" /\ DueNow = 0 /\ pc' = Ticking(pc.j + 1, now, 0, pc.to) /\ UNCHANGED <<now, runs>>
    BY <1>12 DEF NextJob
  <2>2. pc.j \in 1..(Len(Jobs) + 1) /\ pc.to \in Nat /\ now <= pc.to /\ pc.to <= Horizon /\ pc.last \in Nat
    BY <1>0, <1>9, <2>1
  <2>3. /\ pc'.at = "tick" /\ pc'.j = pc.j + 1 /\ pc'.last = now /\ pc'.n = 0 /\ pc'.to = pc.to
        /\ pc' # Failed
    BY <2>1 DEF Ticking, Failed
  <2>4. \A j \in J : runs'[j] = Cardinality(Fired(Jobs[j], UpTo(j)'))
    <3> SUFFICES ASSUME NEW j \in J PROVE runs'[j] = Cardinality(Fired(Jobs[j], UpTo(j)'))
      OBVIOUS
    <3>1. runs'[j] = Cardinality(Fired(Jobs[j], UpTo(j)))
      BY <1>9, <2>1
    <3>2. CASE j = pc.j
      <4>1. UpTo(j)' = pc.to /\ UpTo(j) = pc.last
        BY <1>1, <2>1, <2>2, <2>3, <3>2 DEF UpTo
      <4>2. Fired(Jobs[j], pc.to) = Fired(Jobs[j], pc.last)
        BY <1>11, <2>1, <3>2
      <4> QED BY <3>1, <4>1, <4>2
    <3>3. CASE j # pc.j
      <4>1. UpTo(j)' = UpTo(j)
        BY <1>1, <2>1, <2>2, <2>3, <3>3 DEF UpTo
      <4> QED BY <3>1, <4>1
    <3> QED BY <3>2, <3>3
  <2>5. now \div Minute \in Nat
    BY <1>0, Division, ClockAssumption
  <2> QED BY <1>0, <2>1, <2>2, <2>3, <2>4, <2>5 DEF Instants
<1>13. CASE FinishAdvance
  <2>1. /\ pc.at = "tick" /\ DueNow = 0 /\ pc.j + 1 \notin J
        /\ now' = pc.to /\ pc' = Idle /\ runs' = runs
    BY <1>13 DEF FinishAdvance
  <2>2. pc.j \in 1..(Len(Jobs) + 1) /\ pc.to \in Nat /\ now <= pc.to
    BY <1>0, <1>9, <2>1
  <2>3. pc'.at = "idle" /\ pc' # Failed
    BY <2>1 DEF Idle, Failed
  <2>4. \A j \in J : runs'[j] = Cardinality(Fired(Jobs[j], UpTo(j)'))
    <3> SUFFICES ASSUME NEW j \in J PROVE runs'[j] = Cardinality(Fired(Jobs[j], UpTo(j)'))
      OBVIOUS
    <3>1. runs'[j] = Cardinality(Fired(Jobs[j], UpTo(j))) /\ UpTo(j)' = pc.to
      BY <1>9, <2>1, <2>3 DEF UpTo
    <3>2. j <= pc.j
      BY <1>1, <2>1, <2>2
    <3>3. CASE j = pc.j
      <4>1. UpTo(j) = pc.last
        BY <2>1, <2>2, <3>3 DEF UpTo
      <4> QED BY <1>11, <2>1, <3>1, <3>3, <4>1
    <3>4. CASE j # pc.j
      <4>1. UpTo(j) = pc.to
        BY <1>1, <2>1, <2>2, <3>2, <3>4 DEF UpTo
      <4> QED BY <3>1, <4>1
    <3> QED BY <3>3, <3>4
  <2> QED BY <1>0, <2>1, <2>2, <2>3, <2>4, ClockAssumption DEF Instants
<1> QED BY <1>4, <1>5, <1>6, <1>7, <1>8, <1>10, <1>12, <1>13 DEF Next, Running

\* What a pipeline publishes for: itself it queues, and it feeds only workers behind it.
LEMMA PublishQueues ==
  ASSUME TypeOK, TypeOK', NEW streams \in Seq(Stream), NEW success, Pipeline(streams, success),
         cursor' = cursor, \A w \in W : cursor[w] <= log[Subject(w)],
         \A w \in W : Pending(w) # 0 => Subject(w) \in queued
  PROVE  /\ \A w \in W : Pending(w)' # 0 => Subject(w) \in queued'
         /\ \A w \in W : (\A i \in DOMAIN streams : streams[i] # Subject(w)) => Pending(w)' = Pending(w)
<1>1. /\ \A s \in Stream : log'[s] # log[s] => s \in queued' /\ s \in {streams[i] : i \in DOMAIN streams}
      /\ queued \subseteq queued'
  BY PipelineEffect
<1>2. \A w \in W : Subject(w) \in Stream
  BY Indices
<1>3. ASSUME NEW w \in W, log'[Subject(w)] = log[Subject(w)] PROVE Pending(w)' = Pending(w)
  BY <1>3 DEF Pending, Subject
<1> QED BY <1>1, <1>2, <1>3

\* Every step keeps undelivered messages in the queue of a later turn.
LEMMA QueuedStep ==
  ASSUME Inv, DeclaredInFeedingOrder, [Next]_vars
  PROVE  Queued'
<1>0. TypeOK /\ TypeOK' /\ Queued /\ pc \in Position /\ (\A w \in W : cursor[w] <= log[Subject(w)])
  BY TypeStep DEF Inv, TypeOK, Attempts
<1>1. /\ W = 1..Len(Workers) /\ Len(Workers) \in Nat
      /\ \A w \in W : Subject(w) \in Stream /\ Workers[w].publishes \in Seq(Stream)
  BY Indices
<1>2. \A w \in W : Pending(w) # 0 => Subject(w) \in queued
  BY <1>0 DEF Queued
\* Outside of a drain.
<1>3. CASE /\ cursor' = cursor
           /\ \/ UNCHANGED <<log, queued>>
              \/ \E streams \in Seq(Stream), success \in BOOLEAN : Pipeline(streams, success)
           /\ pc'.at \notin {"turn", "deliver"}
  <2>1. \A w \in W : Pending(w)' # 0 => Subject(w) \in queued'
    <3>1. CASE UNCHANGED <<log, queued>>
      BY <1>2, <1>3, <3>1 DEF Pending, Subject
    <3>2. CASE \E streams \in Seq(Stream), success \in BOOLEAN : Pipeline(streams, success)
      BY <1>0, <1>2, <1>3, <3>2, PublishQueues
    <3> QED BY <1>3, <3>1, <3>2
  <2> QED BY <1>3, <2>1 DEF Queued, Subject
<1>4. CASE UNCHANGED vars
  BY <1>0, <1>4 DEF Queued, Pending, Subject, vars
<1>5. CASE Request
  <2>1. pc' = Idle
    BY <1>5 DEF Request, NewStep
  <2> QED BY <1>3, <1>5, <2>1, PipelinesAssumption DEF Request, Idle
<1>6. CASE StartDrain
  <2>1. /\ UNCHANGED <<log, queued, cursor>> /\ pc'.at = "turn" /\ pc'.w = 1
    BY <1>6 DEF StartDrain, Turn
  <2>2. \A w \in W : Pending(w)' = Pending(w) /\ ~(w < 1)
    BY <1>1, <2>1 DEF Pending
  <2> QED BY <1>2, <2>1, <2>2 DEF Queued, Subject
<1>7. CASE TakeBatch
  <2>0. pc.w \in W /\ pc.at = "turn"
    BY <1>7 DEF TakeBatch
  <2> PICK u \in W : u = pc.w
    BY <2>0
  <2>1. /\ cursor' = [cursor EXCEPT ![u] = log[Subject(u)]] /\ UNCHANGED <<log, queued>>
        /\ pc'.at = "deliver" /\ pc'.w = u
    BY <1>7 DEF TakeBatch, Subject, Delivering
  <2>2. cursor \in [W -> Nat] /\ log \in [Stream -> Nat]
    BY <1>0 DEF TypeOK
  <2>3. Pending(u)' = 0
    <3>1. cursor'[u] = log'[Workers[u].subject] /\ log'[Workers[u].subject] \in Nat
      BY <1>1, <2>1, <2>2 DEF Subject
    <3> QED BY <3>1 DEF Pending
  <2>4. \A w \in W : w # u => Pending(w)' = Pending(w)
    BY <2>1, <2>2 DEF Pending
  <2>5. \A w \in W : Pending(w)' # 0 => Subject(w) \in queued'
    BY <1>2, <2>1, <2>3, <2>4
  <2>6. \A v \in W : v <= u => Pending(v)' = 0
    <3> SUFFICES ASSUME NEW v \in W, v <= u, v # u PROVE Pending(v)' = 0
      BY <2>3
    <3>1. v < pc.w
      BY <1>1
    <3> QED BY <1>0, <2>0, <2>4, <3>1 DEF Queued
  <2> QED BY <2>1, <2>5, <2>6 DEF Queued, Subject
<1>8. CASE Attempt
  <2>0. pc.w \in W /\ pc.at = "deliver"
    BY <1>0, <1>8, AtPosition DEF Attempt
  <2> PICK u \in W : u = pc.w
    BY <2>0
  <2>1. PICK success \in BOOLEAN : Pipeline(Workers[u].publishes, success)
    BY <1>8 DEF Attempt
  <2>2. cursor' = cursor /\ pc'.at = "deliver" /\ pc'.w = u
    BY <1>8 DEF Attempt, Delivering
  <2>3. Workers[u].publishes \in Seq(Stream)
    BY <1>1
  <2>4. /\ \A w \in W : Pending(w)' # 0 => Subject(w) \in queued'
        /\ \A w \in W : (\A i \in DOMAIN Workers[u].publishes : Workers[u].publishes[i] # Subject(w))
                          => Pending(w)' = Pending(w)
    BY <1>0, <1>2, <2>1, <2>2, <2>3, PublishQueues
  <2>5. \A v \in W : v <= u => Pending(v)' = 0
    <3> SUFFICES ASSUME NEW v \in W, v <= u PROVE Pending(v)' = 0
      OBVIOUS
    <3>1. Pending(v) = 0
      BY <1>0, <2>0 DEF Queued
    <3>2. ~(u < v)
      BY <1>1
    <3>3. \A i \in DOMAIN Workers[u].publishes : Workers[u].publishes[i] # Subject(v)
      BY <3>2 DEF DeclaredInFeedingOrder, Subject
    <3> QED BY <2>4, <3>1, <3>3
  <2> QED BY <2>2, <2>4, <2>5 DEF Queued, Subject
<1>9. CASE NextWorker
  <2>0. pc.w \in W /\ pc.at = "deliver"
    BY <1>0, <1>9, AtPosition DEF NextWorker
  <2>1. UNCHANGED <<log, queued, cursor>> /\ pc'.at = "turn" /\ pc'.w = pc.w + 1
    BY <1>9 DEF NextWorker, Turn
  <2>2. \A w \in W : Pending(w)' = Pending(w) /\ (w < pc.w + 1 => w <= pc.w)
    BY <1>1, <2>0, <2>1 DEF Pending
  <2> QED BY <1>0, <1>2, <2>0, <2>1, <2>2 DEF Queued, Subject
<1>10. CASE Sweep
  <2>0. pc.w \notin W /\ pc.at = "turn"
    BY <1>10 DEF Sweep
  <2>1. pc.w \in 1..(Len(Workers) + 1)
    BY <1>0, <2>0, AtPosition
  <2>2. \A w \in W : w < pc.w
    BY <1>1, <2>0, <2>1
  <2>3. \A w \in W : Pending(w) = 0
    BY <1>0, <2>0, <2>2 DEF Queued
  <2>4. UNCHANGED <<log, cursor>> /\ pc'.at \in {"idle", "failed"}
    BY <1>10 DEF Sweep, Idle, Failed
  <2>5. \A w \in W : Pending(w)' = 0
    BY <2>3, <2>4 DEF Pending
  <2> QED BY <2>4, <2>5 DEF Queued
<1>11. CASE StartAdvance \/ NextJob \/ FinishAdvance
  <2>1. UNCHANGED <<log, queued, cursor>> /\ pc'.at \in {"tick", "idle"}
    BY <1>11 DEF StartAdvance, NextJob, FinishAdvance, Ticking, Idle
  <2> QED BY <1>3, <2>1
<1>12. CASE Tick
  <2>1. pc.j \in J
    BY <1>12 DEF Tick, DueNow
  <2>2. Jobs[pc.j].publishes \in Seq(Stream)
    BY <2>1, Indices
  <2>3. \E success \in BOOLEAN : Pipeline(Jobs[pc.j].publishes, success)
    BY <1>12 DEF Tick
  <2>4. cursor' = cursor /\ pc'.at \in {"tick", "failed"}
    BY <1>12 DEF Tick, Ticking, Failed
  <2> QED BY <1>3, <2>2, <2>3, <2>4
<1>13. CASE Unreadable
  <2>1. UNCHANGED <<log, queued, cursor>> /\ pc'.at = "failed"
    BY <1>13 DEF Unreadable, Failed
  <2> QED BY <1>3, <2>1
<1> QED BY <1>4, <1>5, <1>6, <1>7, <1>8, <1>9, <1>10, <1>11, <1>12, <1>13 DEF Next, Running

----------------------------------------------------------------------------
(* The theorems.                                                           *)

\* The first state satisfies the invariant.
LEMMA InitInv == Init => Inv
<1> SUFFICES ASSUME Init PROVE Inv
  OBVIOUS
<1>1. pc = Idle /\ now = StartAt /\ pc.at = "idle"
  BY DEF Init, Idle
<1>2. NewEngine \in Engine /\ NewEngine.matched = {} /\ NewEngine.counts = [e \in Effects |-> 0]
  <2>1. 0 \in 0..CountCap
    BY RulesAssumption
  <2> QED BY <2>1 DEF NewEngine, Engine
<1>3. TypeOK
  <2>1. 0 \in 0..MaxSteps
    BY ClockAssumption
  <2> QED BY <1>1, <1>2, <2>1, PositionsAre, ClockAssumption DEF Init, TypeOK
<1>4. Attempts
  <2>1. \A w \in W : Subject(w) \in Stream /\ Workers[w].retries \in Nat
    BY Indices
  <2>2. \A w \in W : Done(w) = 0
    BY <1>1 DEF Init, Done
  <2>3. AttemptsAddUp
    BY <2>1, <2>2 DEF Init, AttemptsAddUp
  <2> QED BY <1>1, <2>1, <2>3 DEF Init, Attempts
<1>5. Balanced(log, failures)
  <2>1. log = [s \in Stream |-> 0] /\ Tried(failures) = [s \in Stream |-> 0]
    <3>1. \A s \in Stream : Call(s) \in Effects
      BY SubjectsAssumption DEF Call
    <3> QED BY <1>2, <3>1 DEF Init, Tried
  <2>2. Spots([s \in Stream |-> 0]) = {}
    BY DEF Spots
  <2> QED BY <1>2, <2>1, <2>2, FS_EmptySet DEF Init, Balanced
<1>6. Instants
  <2>1. (StartAt + 1)..StartAt = {}
    BY ClockAssumption
  <2>2. \A j \in J : Fired(Jobs[j], StartAt) = {}
    BY <2>1 DEF Fired
  <2>3. \A j \in J : UpTo(j) = StartAt
    BY <1>1 DEF UpTo
  <2> QED BY <1>1, <2>2, <2>3, FS_EmptySet, ClockAssumption DEF Init, Instants
<1>7. Queued
  <2>1. \A w \in W : Pending(w) = 0
    BY Indices DEF Init, Pending, Subject
  <2> QED BY <1>1, <2>1 DEF Queued
<1> QED BY <1>3, <1>4, <1>5, <1>6, <1>7 DEF Inv

\* Every step keeps the invariant.
LEMMA NextInv == Inv /\ [Next]_vars => Inv'
<1> SUFFICES ASSUME Inv, [Next]_vars PROVE Inv'
  OBVIOUS
<1>1. TypeOK' /\ Attempts' /\ Balanced(log', failures')
  BY TypeStep, AttemptsStep, BrokerStep
<1>2. ClockReaches => Instants'
  BY InstantsStep
<1>3. DeclaredInFeedingOrder => Queued'
  BY QueuedStep
<1> QED BY <1>1, <1>2, <1>3 DEF Inv, ClockReaches, DeclaredInFeedingOrder

\* The invariant holds in every behaviour.
LEMMA SpecInv == Spec => []Inv
<1>1. Init => Inv
  BY InitInv
<1>2. Inv /\ [Next]_vars => Inv'
  BY NextInv
<1> QED BY <1>1, <1>2, PTL DEF Spec

(***************************************************************************)
(* Every variable keeps its type: no drain counts below zero, no worker or *)
(* job is looked up that is not declared, and no clock runs backwards past *)
(* the start.                                                              *)
(***************************************************************************)
THEOREM TypeCorrect == Spec => []TypeOK
<1>1. Inv => TypeOK
  BY DEF Inv
<1> QED BY <1>1, SpecInv, PTL

(***************************************************************************)
(* For any workers, budgets and failures: every message a worker is done   *)
(* with took at most one more attempt than it has retries and, unless the  *)
(* scenario ended in an error, at least one (the drain loop,               *)
(* expect.worker_attempts).                                                *)
(***************************************************************************)
THEOREM AttemptsAreBounded == Spec => []AttemptsAddUp
<1>1. Inv => AttemptsAddUp
  BY DEF Inv, Attempts
<1> QED BY <1>1, SpecInv, PTL

(***************************************************************************)
(* For any failure rules: every publish that was tried is a message in the *)
(* log or the one failure of a rule (publish_checked, record_occurrence).  *)
(***************************************************************************)
THEOREM PublishesAreAccountedFor == Spec => []PublishesAddUp
<1>1. Inv => PublishesAddUp
  BY DEF Inv, Balanced, PublishesAddUp, Total, Spots, Tried, Call
<1> QED BY <1>1, SpecInv, PTL

(***************************************************************************)
(* For any schedules that repeat within the lookahead and any scenario     *)
(* shorter than the cap of due_instants: however the scenario advances, a  *)
(* job has run once for each of its instants (advance, next_fire_after).   *)
(***************************************************************************)
THEOREM InstantsRunOnce == ASSUME ClockReaches PROVE Spec => []EachInstantOnce
<1>1. Inv => EachInstantOnce
  <2> SUFFICES ASSUME Inv, pc = Idle, NEW j \in J
               PROVE  runs[j] = Cardinality({t \in (StartAt + 1)..now : Fires(Jobs[j], t)})
    BY DEF EachInstantOnce
  <2>1. Instants /\ pc # Failed /\ UpTo(j) = now
    BY DEF Inv, UpTo, Idle, Failed
  <2> QED BY <2>1 DEF Instants, Fired
<1> QED BY <1>1, SpecInv, PTL

(***************************************************************************)
(* For any workers declared behind the workers that feed them: when        *)
(* expect.quiescence passes, every message was delivered (drain, expect).  *)
(***************************************************************************)
THEOREM QuiescenceMeansDelivered == ASSUME DeclaredInFeedingOrder PROVE Spec => []QuiescenceIsReal
<1>1. Inv => QuiescenceIsReal
  BY DEF Inv, Queued, QuiescenceIsReal, Quiescent
<1> QED BY <1>1, SpecInv, PTL
=============================================================================
