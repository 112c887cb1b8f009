-------------------------- MODULE EvolutionProofs --------------------------
(***************************************************************************)
(* Theorems about Evolution, for any programs, any series of edits and     *)
(* builds, and databases that lag behind or die inside a file: the         *)
(* migrations, in order, build the schema of the last program.             *)
(***************************************************************************)
EXTENDS Evolution, FiniteSetTheorems, NaturalsInduction, WellFoundedInduction, TLAPS

----------------------------------------------------------------------------
(* Induction, and sequences of the members of a set.                       *)

\* A set of naturals has a smallest member.
LEMMA Smallest ==
  ASSUME NEW T \in SUBSET Nat, T # {}
  PROVE  \E m \in T : \A k \in T : m <= k
<1> DEFINE LT == {ss \in Nat \X Nat : ss[1] < ss[2]}
<1>1. IsWellFoundedOn(LT, Nat)
  BY NatLessThanWellFounded DEF OpToRel
<1> HIDE DEF LT
<1>2. PICK m \in T : \A k \in T : ~(<<k, m>> \in LT)
  BY <1>1, WFMin
<1>3. ASSUME NEW k \in T PROVE m <= k
  <2>1. <<k, m>> \in Nat \X Nat /\ <<k, m>>[1] = k /\ <<k, m>>[2] = m
    OBVIOUS
  <2>2. ~(k < m)
    BY <1>2, <2>1 DEF LT
  <2> QED BY <2>2
<1> QED BY <1>3

\* What holds of 0 and of the successor of each number below N that it holds of, holds up to N.
LEMMA UpTo ==
  ASSUME NEW N \in Nat, NEW G, 0 \in G, \A n \in 1..N : n - 1 \in G => n \in G
  PROVE  0..N \subseteq G
<1> DEFINE T == {n \in 0..N : n \notin G}
<1> SUFFICES ASSUME T # {} PROVE FALSE
  OBVIOUS
<1>1. PICK m \in T : \A k \in T : m <= k
  <2>1. T \in SUBSET Nat
    OBVIOUS
  <2> HIDE DEF T
  <2> QED BY <2>1, Smallest
<1>2. m # 0 /\ m \in 1..N /\ m - 1 \in 0..N /\ ~(m <= m - 1)
  BY <1>1
<1> QED BY <1>1, <1>2

\* SetToSeq lists every member of a finite set, and lists it once.
LEMMA SetToSeqLists ==
  ASSUME NEW S, IsFiniteSet(S)
  PROVE  /\ SetToSeq(S) \in [1..Cardinality(S) -> S]
         /\ \A i, j \in 1..Cardinality(S) : SetToSeq(S)[i] = SetToSeq(S)[j] => i = j
         /\ \A x \in S : \E i \in 1..Cardinality(S) : SetToSeq(S)[i] = x
<1> DEFINE N == Cardinality(S)
           Lists(f) == f \in [1..N -> S] /\ IsInjective(f)
<1>1. N \in Nat /\ ExistsBijection(1..N, S)
  BY FS_CardinalityType
<1>2. PICK b \in Bijection(1..N, S) : TRUE
  BY <1>1 DEF ExistsBijection
<1>3. Lists(b)
  BY <1>2 DEF Bijection, Injection
<1>4. SetToSeq(S) = CHOOSE f : Lists(f)
  BY DEF SetToSeq
<1> HIDE DEF N
<1>5. Lists(SetToSeq(S))
  <2> HIDE DEF Lists
  <2> QED BY <1>3, <1>4
<1> DEFINE s == SetToSeq(S)
<1>6. s \in Injection(1..N, S)
  BY <1>5 DEF Injection
<1>7. IsFiniteSet(1..N) /\ Cardinality(1..N) = N
  <2>1. 1 \in Int /\ N \in Int
    BY <1>1
  <2> QED BY <1>1, <2>1, FS_Interval
<1>8. s \in Surjection(1..N, S)
  <2> HIDE DEF s
  <2>1. Cardinality(1..N) = Cardinality(S) <=> s \in Surjection(1..N, S)
    BY <1>6, FS_Injection
  <2> QED BY <1>7, <2>1 DEF N
<1> QED BY <1>5, <1>6, <1>8 DEF N, IsInjective, Surjection, Injection

----------------------------------------------------------------------------
(* A file of statements, run on a database.                                *)

\* One more statement after what has been run.
After(f, n, r) ==
  IF r.ok /\ Works(f.stmts[n], f, r.x) THEN [ok |-> TRUE, x |-> Does(f.stmts[n], r.x)]
  ELSE [ok |-> FALSE, x |-> r.x]

\* Executed goes through the statements, one after the other.
LEMMA ExecutedIs ==
  ASSUME NEW f, NEW x, Len(f.stmts) \in Nat
  PROVE  /\ Executed(f, x)[0] = [ok |-> TRUE, x |-> x]
         /\ \A n \in 1..Len(f.stmts) : Executed(f, x)[n] = After(f, n, Executed(f, x)[n - 1])
<1> DEFINE N == Len(f.stmts)
           base == [ok |-> TRUE, x |-> x]
           Is(g, m) == g = [n \in 0..m |-> IF n = 0 THEN base ELSE After(f, n, g[n - 1])]
           G == {m \in 0..N : \E g : Is(g, m)}
<1>0. N \in Nat
  OBVIOUS
<1>1. Executed(f, x) = CHOOSE g : Is(g, N)
  BY DEF Executed, After
<1> HIDE DEF N, base
<1>2. 0 \in G
  <2>1. Is([n \in 0..0 |-> base], 0)
    OBVIOUS
  <2> HIDE DEF Is
  <2> QED BY <1>0, <2>1
<1>3. ASSUME NEW m \in 1..N, m - 1 \in G PROVE m \in G
  <2>1. PICK h : Is(h, m - 1)
    BY <1>3
  <2>2. m \in Nat /\ m - 1 \in Nat /\ m \in 0..N
    BY <1>0
  <2> DEFINE g == [n \in 0..m |-> IF n = m THEN After(f, m, h[m - 1]) ELSE h[n]]
  <2>3. \A n \in 0..m : n # m => n \in 0..(m - 1)
    BY <2>2
  <2>4. ASSUME NEW n \in 0..m PROVE g[n] = IF n = 0 THEN base ELSE After(f, n, g[n - 1])
    <3>1. CASE n = m
      <4>1. m - 1 \in 0..m /\ m - 1 # m /\ m # 0
        BY <2>2
      <4> HIDE DEF Is
      <4> QED BY <3>1, <4>1
    <3>2. CASE n # m
      <4>1. n \in 0..(m - 1) /\ g[n] = h[n]
        BY <2>3, <3>2
      <4>2. n # 0 => n - 1 \in 0..m /\ n - 1 # m
        BY <2>2
      <4>3. h[n] = IF n = 0 THEN base ELSE After(f, n, h[n - 1])
        BY <2>1, <4>1
      <4> QED BY <4>1, <4>2, <4>3
    <3> QED BY <3>1, <3>2
  <2>5. Is(g, m)
    BY <2>4
  <2> HIDE DEF Is, g
  <2> QED BY <2>2, <2>5
<1>4. 0..N \subseteq G
  <2> HIDE DEF G
  <2> QED BY <1>0, <1>2, <1>3, UpTo
<1>5. \E g : Is(g, N)
  BY <1>0, <1>4
<1> DEFINE w == Executed(f, x)
<1>6. Is(w, N)
  <2> HIDE DEF Is
  <2> QED BY <1>1, <1>5
<1> HIDE DEF w
<1>7. w[0] = base /\ \A n \in 1..N : w[n] = After(f, n, w[n - 1])
  BY <1>0, <1>6
<1> QED BY <1>7 DEF w, base, N

----------------------------------------------------------------------------
(* The order in which new tables are created.                              *)

\* The sequence has the members of a set, each of them once.
Lists(q, S) ==
  /\ q \in Seq(S)
  /\ \A i, j \in 1..Len(q) : q[i] = q[j] => i = j
  /\ \A x \in S : \E i \in 1..Len(q) : q[i] = x

LEMMA SetToSeqIs ==
  ASSUME NEW S, IsFiniteSet(S)
  PROVE  Lists(SetToSeq(S), S)
<1>1. Cardinality(S) \in Nat
  BY FS_CardinalityType
<1> DEFINE q == SetToSeq(S)
<1>2. /\ q \in [1..Cardinality(S) -> S]
      /\ \A i, j \in 1..Cardinality(S) : q[i] = q[j] => i = j
      /\ \A x \in S : \E i \in 1..Cardinality(S) : q[i] = x
  BY SetToSeqLists
<1> HIDE DEF q
<1>3. Len(q) = Cardinality(S) /\ q \in Seq(S)
  BY <1>1, <1>2
<1> QED BY <1>2, <1>3 DEF Lists, q

\* The two, one after the other.
Joins(r, p, q) ==
  /\ Len(r) = Len(p) + Len(q)
  /\ \A i \in 1..Len(p) : r[i] = p[i]
  /\ \A i \in 1..Len(q) : r[Len(p) + i] = q[i]

LEMMA ListsJoin ==
  ASSUME NEW A, NEW B, NEW p, NEW q, Lists(p, A), Lists(q, B), A \cap B = {}
  PROVE  Lists(p \o q, A \cup B) /\ Joins(p \o q, p, q)
<1> DEFINE S == A \cup B
           m == Len(p)
           n == Len(q)
           r == p \o q
<1>1. p \in Seq(A) /\ q \in Seq(B) /\ p \in Seq(S) /\ q \in Seq(S)
  BY DEF Lists
<1>2. m \in Nat /\ n \in Nat /\ r \in Seq(S) /\ Len(r) = m + n
  BY <1>1
<1>3. ASSUME NEW i \in 1..(m + n) PROVE r[i] = IF i <= m THEN p[i] ELSE q[i - m]
  BY <1>1
<1>4. /\ \A i \in 1..m : p[i] \in A
      /\ \A i \in 1..n : q[i] \in B
  BY <1>1
<1> HIDE DEF r, m, n
<1>5. \A i \in 1..m : i \in 1..(m + n) /\ r[i] = p[i]
  BY <1>2, <1>3
<1>6. \A i \in 1..n : m + i \in 1..(m + n) /\ r[m + i] = q[i]
  <2> TAKE i \in 1..n
  <2>1. m + i \in 1..(m + n) /\ ~(m + i <= m) /\ (m + i) - m = i
    BY <1>2
  <2> QED BY <1>3, <2>1
<1>7. ASSUME NEW i \in 1..(m + n), NEW j \in 1..(m + n), r[i] = r[j] PROVE i = j
  <2>1. \A k \in 1..(m + n) : k \in 1..m \/ (k - m \in 1..n /\ k = m + (k - m))
    BY <1>2
  <2>2. CASE i \in 1..m /\ j \in 1..m
    BY <1>5, <1>7, <2>2 DEF Lists, m
  <2>3. ASSUME NEW k \in 1..n, NEW l \in 1..n, i = m + k, j = m + l PROVE i = j
    <3>1. q[k] = q[l]
      BY <1>6, <1>7, <2>3
    <3>2. k = l
      BY <3>1 DEF Lists, n
    <3> QED BY <2>3, <3>2
  <2>4. ASSUME NEW l \in 1..n, i \in 1..m, j = m + l PROVE FALSE
    <3>1. r[i] \in A /\ r[j] \in B
      BY <1>4, <1>5, <1>6, <2>4
    <3> QED BY <1>7, <3>1
  <2>5. ASSUME NEW k \in 1..n, i = m + k, j \in 1..m PROVE FALSE
    <3>1. r[i] \in B /\ r[j] \in A
      BY <1>4, <1>5, <1>6, <2>5
    <3> QED BY <1>7, <3>1
  <2> HIDE DEF S
  <2>6. (i \in 1..m \/ \E k \in 1..n : i = m + k) /\ (j \in 1..m \/ \E l \in 1..n : j = m + l)
    BY <2>1
  <2> QED BY <2>2, <2>3, <2>4, <2>5, <2>6
<1>8. ASSUME NEW x \in S PROVE \E i \in 1..(m + n) : r[i] = x
  <2>1. CASE x \in A
    <3>1. PICK i \in 1..m : p[i] = x
      BY <2>1 DEF Lists, m
    <3> QED BY <1>5, <3>1
  <2>2. CASE x \in B
    <3>1. PICK i \in 1..n : q[i] = x
      BY <2>2 DEF Lists, n
    <3> QED BY <1>6, <3>1
  <2> QED BY <2>1, <2>2
<1>9. Lists(r, S)
  BY <1>2, <1>7, <1>8 DEF Lists
<1> QED BY <1>2, <1>5, <1>6, <1>9 DEF r, m, n, Joins

\* What a table needs among the tables comes before it.
InOrder(q, tables, new) ==
  \A i \in 1..Len(q) : \A u \in Targets(new[q[i]]) \cap tables :
    \E j \in 1..(i - 1) : q[j] = u

\* The tables that are left do not need each other in a circle.
Acyclic(tables, new) ==
  \A ts \in SUBSET tables : ts # {} => \E t \in ts : Targets(new[t]) \cap ts = {}

\* What is taken in a round.
Taken(left, new) ==
  LET ready == {t \in left : Targets(new[t]) \cap left = {}}
  IN  IF ready = {} THEN left ELSE ready

\* A state of the loop.
Round(r, tables, new) ==
  /\ r.remaining \subseteq tables
  /\ Lists(r.ordered, tables \ r.remaining)
  /\ InOrder(r.ordered, tables, new)

LEMMA RoundKeeps ==
  ASSUME NEW tables, NEW new, IsFiniteSet(tables), Acyclic(tables, new),
         NEW r, Round(r, tables, new), NEW s,
         s.ordered = r.ordered \o SetToSeq(Taken(r.remaining, new)),
         s.remaining = r.remaining \ Taken(r.remaining, new)
  PROVE  /\ Round(s, tables, new)
         /\ s.remaining \subseteq r.remaining
         /\ r.remaining # {} => s.remaining # r.remaining
<1> DEFINE left == r.remaining
           next == Taken(left, new)
           p == r.ordered
           q == SetToSeq(next)
<1>1. left \subseteq tables /\ Lists(p, tables \ left) /\ InOrder(p, tables, new)
  BY DEF Round
<1>2. next \subseteq left /\ (\A t \in next : Targets(new[t]) \cap left = {})
                          /\ (left # {} => next # {})
  <2>1. left # {} => \E t \in left : Targets(new[t]) \cap left = {}
    BY <1>1 DEF Acyclic
  <2> QED BY <2>1 DEF Taken
<1> HIDE DEF next
<1>3. Lists(q, next)
  <2>1. IsFiniteSet(next)
    BY <1>1, <1>2, FS_Subset
  <2> QED BY <2>1, SetToSeqIs
<1> HIDE DEF p, q, left
<1>4. (tables \ left) \cap next = {} /\ (tables \ left) \cup next = tables \ (left \ next)
  BY <1>1, <1>2
<1>5. Lists(p \o q, tables \ (left \ next)) /\ Joins(p \o q, p, q)
  <2> DEFINE A == tables \ left
  <2>1. Lists(p, A) /\ A \cap next = {}
    BY <1>1, <1>4
  <2> HIDE DEF A
  <2>2. Lists(p \o q, A \cup next) /\ Joins(p \o q, p, q)
    BY <1>3, <2>1, ListsJoin
  <2> QED BY <1>4, <2>2 DEF A
<1>6. Len(p) \in Nat /\ Len(q) \in Nat
  BY <1>1, <1>3 DEF Lists
<1> DEFINE w == p \o q
<1>7. ASSUME NEW i \in 1..Len(w), NEW u \in Targets(new[w[i]]) \cap tables
      PROVE  \E j \in 1..(i - 1) : w[j] = u
  <2> HIDE DEF w, Joins
  <2>0. Len(w) = Len(p) + Len(q)
    BY <1>5 DEF w, Joins
  <2>1. CASE i \in 1..Len(p)
    <3>1. w[i] = p[i]
      BY <1>5, <2>1 DEF w, Joins
    <3>2. PICK j \in 1..(i - 1) : p[j] = u
      BY <1>1, <1>7, <2>1, <3>1 DEF InOrder
    <3>3. j \in 1..Len(p)
      BY <1>6, <2>1, <3>2
    <3>4. w[j] = u
      BY <1>5, <3>2, <3>3 DEF w, Joins
    <3> QED BY <3>2, <3>4
  <2>2. CASE ~(i \in 1..Len(p))
    <3>1. i - Len(p) \in 1..Len(q) /\ i = Len(p) + (i - Len(p))
      BY <1>6, <2>0, <2>2
    <3>2. w[i] = q[i - Len(p)]
      <4> DEFINE k == i - Len(p)
      <4>1. k \in 1..Len(q) /\ i = Len(p) + k
        BY <3>1
      <4> HIDE DEF k
      <4>2. w[Len(p) + k] = q[k]
        BY <1>5, <4>1 DEF w, Joins
      <4> QED BY <4>1, <4>2 DEF k
    <3>3. w[i] \in next
      BY <1>3, <3>1, <3>2 DEF Lists
    <3>4. u \in tables \ left
      BY <1>2, <1>7, <3>3
    <3>5. PICK j \in 1..Len(p) : p[j] = u
      BY <1>1, <3>4 DEF Lists
    <3>6. j \in 1..(i - 1) /\ w[j] = u
      BY <1>5, <1>6, <2>0, <2>2, <3>5 DEF w, Joins
    <3> QED BY <3>6
  <2> QED BY <2>1, <2>2
<1>8. InOrder(w, tables, new)
  BY <1>7 DEF InOrder
<1>9. s.ordered = w /\ s.remaining = left \ next
  BY DEF p, q, left, next
<1>10. Round(s, tables, new)
  BY <1>1, <1>5, <1>8, <1>9 DEF Round
<1>11. s.remaining \subseteq left /\ (left # {} => s.remaining # left)
  BY <1>2, <1>9
<1> QED BY <1>10, <1>11 DEF left

\* The round after r.
NextRound(r, new) ==
  [ordered |-> r.ordered \o SetToSeq(Taken(r.remaining, new)),
   remaining |-> r.remaining \ Taken(r.remaining, new)]

\* order_new_tables creates each table once, and no table before one that it refers to.
LEMMA OrderIs ==
  ASSUME NEW tables, NEW new, IsFiniteSet(tables), Acyclic(tables, new)
  PROVE  Lists(OrderNewTables(tables, new), tables) /\ InOrder(OrderNewTables(tables, new), tables, new)
<1> DEFINE N == Cardinality(tables)
           base == [ordered |-> <<>>, remaining |-> tables]
           Is(g, m) == g = [n \in 0..m |-> IF n = 0 THEN base ELSE NextRound(g[n - 1], new)]
           G == {m \in 0..N : \E g : Is(g, m)}
<1>0. N \in Nat
  BY FS_CardinalityType
<1>1. OrderNewTables(tables, new) = (CHOOSE g : Is(g, N))[N].ordered
  BY DEF OrderNewTables, NextRound, Taken
<1> HIDE DEF N, base
<1>2. 0 \in G
  <2>1. Is([n \in 0..0 |-> base], 0)
    OBVIOUS
  <2> HIDE DEF Is
  <2> QED BY <1>0, <2>1
<1>3. ASSUME NEW m \in 1..N, m - 1 \in G PROVE m \in G
  <2>1. PICK h : Is(h, m - 1)
    BY <1>3
  <2>2. m \in Nat /\ m - 1 \in Nat /\ m \in 0..N
    BY <1>0
  <2> DEFINE g == [n \in 0..m |-> IF n = m THEN NextRound(h[m - 1], new) ELSE h[n]]
  <2>3. \A n \in 0..m : n # m => n \in 0..(m - 1)
    BY <2>2
  <2>4. ASSUME NEW n \in 0..m PROVE g[n] = IF n = 0 THEN base ELSE NextRound(g[n - 1], new)
    <3>1. CASE n = m
      <4>1. m - 1 \in 0..m /\ m - 1 # m /\ m # 0
        BY <2>2
      <4> HIDE DEF Is
      <4> QED BY <3>1, <4>1
    <3>2. CASE n # m
      <4>1. n \in 0..(m - 1) /\ g[n] = h[n]
        BY <2>3, <3>2
      <4>2. n # 0 => n - 1 \in 0..m /\ n - 1 # m
        BY <2>2
      <4>3. h[n] = IF n = 0 THEN base ELSE NextRound(h[n - 1], new)
        BY <2>1, <4>1
      <4> QED BY <4>1, <4>2, <4>3
    <3> QED BY <3>1, <3>2
  <2>5. Is(g, m)
    BY <2>4
  <2> HIDE DEF Is, g
  <2> QED BY <2>2, <2>5
<1>4. 0..N \subseteq G
  <2> HIDE DEF G
  <2> QED BY <1>0, <1>2, <1>3, UpTo
<1>5. \E g : Is(g, N)
  BY <1>0, <1>4
<1> DEFINE w == CHOOSE g : Is(g, N)
<1>6. Is(w, N)
  <2> HIDE DEF Is
  <2> QED BY <1>5
<1> HIDE DEF w
<1>7. w[0] = base /\ \A n \in 1..N : w[n] = NextRound(w[n - 1], new)
  BY <1>0, <1>6
\* As many rounds as there are tables leave none.
<1> DEFINE Sound(n) == /\ Round(w[n], tables, new)
                       /\ IsFiniteSet(w[n].remaining)
                       /\ Cardinality(w[n].remaining) <= N - n
           H == {n \in 0..N : Sound(n)}
<1>8. 0 \in H
  <2>1. base.remaining = tables /\ base.ordered = <<>>
    BY DEF base
  <2>2. Lists(<<>>, tables \ tables)
    <3>1. tables \ tables = {}
      OBVIOUS
    <3>2. Lists(<<>>, {})
      BY DEF Lists
    <3> QED BY <3>1, <3>2
  <2>3. InOrder(<<>>, tables, new)
    BY DEF InOrder
  <2>4. Round(base, tables, new)
    BY <2>1, <2>2, <2>3 DEF Round
  <2>5. N <= N - 0
    BY <1>0
  <2> QED BY <1>0, <1>7, <2>1, <2>4, <2>5 DEF N
<1>9. ASSUME NEW n \in 1..N, n - 1 \in H PROVE n \in H
  <2> DEFINE r == w[n - 1]
             s == w[n]
  <2>1. Round(r, tables, new) /\ IsFiniteSet(r.remaining) /\ Cardinality(r.remaining) <= N - (n - 1)
    BY <1>9
  <2>2. s = NextRound(r, new)
    BY <1>7
  <2> HIDE DEF r, s
  <2>3. /\ s.ordered = r.ordered \o SetToSeq(Taken(r.remaining, new))
        /\ s.remaining = r.remaining \ Taken(r.remaining, new)
    BY <2>2 DEF NextRound
  <2>4. /\ Round(s, tables, new)
        /\ s.remaining \subseteq r.remaining
        /\ r.remaining # {} => s.remaining # r.remaining
    BY <2>1, <2>3, RoundKeeps
  <2>5. /\ IsFiniteSet(s.remaining)
        /\ Cardinality(s.remaining) <= Cardinality(r.remaining)
        /\ Cardinality(s.remaining) = Cardinality(r.remaining) => s.remaining = r.remaining
    <3> DEFINE A == r.remaining
               B == s.remaining
    <3>1. IsFiniteSet(A) /\ B \in SUBSET A
      BY <2>1, <2>4
    <3> HIDE DEF A, B
    <3>2. IsFiniteSet(B) /\ Cardinality(B) <= Cardinality(A) /\ (Cardinality(A) = Cardinality(B) => A = B)
      BY <3>1, FS_Subset
    <3> QED BY <3>2 DEF A, B
  <2>6. Cardinality(s.remaining) \in Nat /\ Cardinality(r.remaining) \in Nat
    BY <2>1, <2>5, FS_CardinalityType
  <2>7. Cardinality(s.remaining) <= N - n
    <3>1. CASE r.remaining = {}
      <4>1. s.remaining = {}
        BY <2>4, <3>1
      <4>2. Cardinality(s.remaining) = 0
        BY <4>1, FS_EmptySet
      <4> QED BY <1>0, <4>2
    <3>2. CASE r.remaining # {}
      <4>1. Cardinality(s.remaining) # Cardinality(r.remaining)
        BY <2>4, <2>5, <3>2
      <4> QED BY <1>0, <2>1, <2>5, <2>6, <4>1
    <3> QED BY <3>1, <3>2
  <2>8. n \in 0..N
    BY <1>0
  <2> QED BY <2>4, <2>5, <2>7, <2>8 DEF s
<1>10. 0..N \subseteq H
  <2> HIDE DEF H
  <2> QED BY <1>0, <1>8, <1>9, UpTo
<1>11. Round(w[N], tables, new) /\ IsFiniteSet(w[N].remaining) /\ Cardinality(w[N].remaining) <= N - N
  BY <1>0, <1>10
<1>12. w[N].remaining = {}
  <2>1. Cardinality(w[N].remaining) \in Nat
    BY <1>11, FS_CardinalityType
  <2>2. Cardinality(w[N].remaining) = 0
    BY <1>0, <1>11, <2>1
  <2> QED BY <1>11, <2>2, FS_EmptySet
<1>13. tables \ w[N].remaining = tables
  BY <1>12
<1>14. Lists(w[N].ordered, tables) /\ InOrder(w[N].ordered, tables, new)
  BY <1>11, <1>13 DEF Round
<1> QED BY <1>1, <1>14 DEF w

----------------------------------------------------------------------------
(* A migration, from one schema to the next.                               *)

\* What a function on a finite set takes as values is a finite set.
LEMMA ImageIsFinite ==
  ASSUME NEW S, IsFiniteSet(S), NEW T, NEW f, f \in [S -> T], \A y \in T : \E x \in S : f[x] = y
  PROVE  IsFiniteSet(T)
<1>1. f \in Surjection(S, T)
  BY DEF Surjection
<1> QED BY <1>1, FS_Surjection

\* What the statements are made of.
LEMMA StatementFields ==
  ASSUME NEW t, NEW schema, NEW c, NEW type
  PROVE  /\ Create(t, schema).k = "create"
         /\ Create(t, schema).table = t
         /\ Create(t, schema).schema = schema
         /\ AddColumn(t, c, type).k = "add"
         /\ AddColumn(t, c, type).table = t
         /\ AddColumn(t, c, type).column = c
         /\ AddColumn(t, c, type).type = type
BY DEF Create, AddColumn

Adds(old, new, t) == {AddColumn(t, c, new[t].cols[c]) : c \in AddedColumns(old, new, t)}
AllAdds(old, new) == UNION {Adds(old, new, t) : t \in DOMAIN old \cap DOMAIN new}

LEMMA AddsAreFinite ==
  ASSUME NEW old, NEW new, WellFormed(new)
  PROVE  IsFiniteSet(AllAdds(old, new))
<1> DEFINE T == DOMAIN old \cap DOMAIN new
           A == {Adds(old, new, t) : t \in T}
<1>1. IsFiniteSet(T)
  <2>1. IsFiniteSet(DOMAIN new) /\ T \subseteq DOMAIN new
    BY DEF WellFormed
  <2> HIDE DEF T
  <2> QED BY <2>1, FS_Subset
<1>2. IsFiniteSet(A)
  <2> DEFINE g == [t \in T |-> Adds(old, new, t)]
  <2>1. g \in [T -> A] /\ \A y \in A : \E x \in T : g[x] = y
    OBVIOUS
  <2> HIDE DEF T, A, g
  <2> QED BY <1>1, <2>1, ImageIsFinite
<1>3. ASSUME NEW t \in T PROVE IsFiniteSet(Adds(old, new, t))
  <2> DEFINE C == AddedColumns(old, new, t)
             B == Adds(old, new, t)
             g == [c \in C |-> AddColumn(t, c, new[t].cols[c])]
  <2>1. IsFiniteSet(DOMAIN new[t].cols)
    BY DEF WellFormed, IsTable
  <2>2. IsFiniteSet(C)
    <3>1. C \subseteq DOMAIN new[t].cols
      BY DEF AddedColumns
    <3> HIDE DEF C
    <3> QED BY <2>1, <3>1, FS_Subset
  <2>3. g \in [C -> B] /\ \A y \in B : \E x \in C : g[x] = y
    BY DEF Adds
  <2> HIDE DEF C, B, g
  <2>4. IsFiniteSet(B)
    BY <2>2, <2>3, ImageIsFinite
  <2> QED BY <2>4 DEF B
<1>4. \A B \in A : IsFiniteSet(B)
  BY <1>3
<1> HIDE DEF A
<1>5. IsFiniteSet(UNION A)
  BY <1>2, <1>4, FS_UNION
<1> QED BY <1>5 DEF A, AllAdds

\* The statements create what is new, add what was added, each once, and a table is created
\* when all that it refers to is there.
MigrationOf(q, old, new) ==
  /\ Len(q) \in Nat
  /\ \A i \in 1..Len(q) :
       \/ \E t \in DOMAIN new \ DOMAIN old : q[i] = Create(t, new[t])
       \/ \E t \in DOMAIN old \cap DOMAIN new : \E c \in AddedColumns(old, new, t) :
            q[i] = AddColumn(t, c, new[t].cols[c])
  /\ \A t \in DOMAIN new \ DOMAIN old : \E i \in 1..Len(q) : q[i] = Create(t, new[t])
  /\ \A t \in DOMAIN old \cap DOMAIN new : \A c \in AddedColumns(old, new, t) :
       \E i \in 1..Len(q) : q[i] = AddColumn(t, c, new[t].cols[c])
  /\ \A i, j \in 1..Len(q) : q[i] = q[j] => i = j
  /\ \A i \in 1..Len(q) : \A t \in DOMAIN new : q[i] = Create(t, new[t]) =>
       \A u \in Targets(new[t]) : u \in DOMAIN old \/ \E j \in 1..(i - 1) : q[j] = Create(u, new[u])

\* The statements that create, in the order of the tables.
LEMMA CreatesList ==
  ASSUME NEW S, NEW new, NEW q, Lists(q, S), NEW c, c = [i \in DOMAIN q |-> Create(q[i], new[q[i]])],
         NEW C, C = {Create(t, new[t]) : t \in S}
  PROVE  Lists(c, C) /\ Len(c) = Len(q)
<1>1. Len(q) \in Nat /\ DOMAIN q = 1..Len(q) /\ \A i \in 1..Len(q) : q[i] \in S
  BY DEF Lists
<1>2. \A i \in 1..Len(q) : c[i] = Create(q[i], new[q[i]]) /\ c[i] \in C
  BY <1>1
<1>3. c \in [1..Len(q) -> C]
  BY <1>1
<1>4. c \in Seq(C) /\ Len(c) = Len(q)
  BY <1>1, <1>3
<1>5. ASSUME NEW i \in 1..Len(q), NEW j \in 1..Len(q), c[i] = c[j] PROVE i = j
  <2>1. q[i] = q[j]
    <3>1. Create(q[i], new[q[i]]) = Create(q[j], new[q[j]])
      BY <1>2, <1>5
    <3>2. ASSUME NEW t, NEW u, Create(t, new[t]) = Create(u, new[u]) PROVE t = u
      BY <3>2 DEF Create
    <3> QED BY <3>1, <3>2
  <2> QED BY <2>1 DEF Lists
<1>6. ASSUME NEW x \in C PROVE \E i \in 1..Len(q) : c[i] = x
  <2>1. PICK t \in S : x = Create(t, new[t])
    OBVIOUS
  <2>2. PICK i \in 1..Len(q) : q[i] = t
    BY DEF Lists
  <2> QED BY <1>2, <2>1, <2>2
<1> QED BY <1>4, <1>5, <1>6 DEF Lists

LEMMA DiffSchemaIs ==
  ASSUME NEW old, NEW new, WellFormed(new)
  PROVE  MigrationOf(DiffSchema(old, new), old, new)
<1> DEFINE S == DOMAIN new \ DOMAIN old
           q == OrderNewTables(S, new)
           c == [i \in DOMAIN q |-> Create(q[i], new[q[i]])]
           C == {Create(t, new[t]) : t \in S}
           A == AllAdds(old, new)
           a == SetToSeq(A)
           m == c \o a
<1>1. Lists(q, S) /\ InOrder(q, S, new)
  <2>1. IsFiniteSet(S) /\ Acyclic(S, new)
    <3>1. IsFiniteSet(DOMAIN new) /\ S \subseteq DOMAIN new /\ Acyclic(DOMAIN new, new)
      BY DEF WellFormed, Acyclic
    <3> HIDE DEF S
    <3>2. IsFiniteSet(S)
      BY <3>1, FS_Subset
    <3> QED BY <3>1, <3>2 DEF Acyclic
  <2> HIDE DEF S
  <2> QED BY <2>1, OrderIs
<1>2. DiffSchema(old, new) = m
  BY DEF DiffSchema, AllAdds, Adds
<1>3. Lists(c, C) /\ Len(c) = Len(q)
  <2>1. C = {Create(t, new[t]) : t \in S} /\ c = [i \in DOMAIN q |-> Create(q[i], new[q[i]])]
    OBVIOUS
  <2> HIDE DEF S, q, c, C
  <2> QED BY <1>1, <2>1, CreatesList
<1>4. Lists(a, A)
  <2>1. IsFiniteSet(A)
    BY AddsAreFinite
  <2> HIDE DEF A
  <2> QED BY <2>1, SetToSeqIs
<1>5. C \cap A = {}
  BY DEF AllAdds, Adds, Create, AddColumn
<1> HIDE DEF q, c, a, C, A
<1>6. Lists(m, C \cup A) /\ Joins(m, c, a)
  BY <1>3, <1>4, <1>5, ListsJoin
<1> HIDE DEF m
<1>7. Len(m) \in Nat /\ Len(q) \in Nat /\ Len(a) \in Nat /\ Len(m) = Len(q) + Len(a)
  BY <1>1, <1>3, <1>4, <1>6 DEF Lists, Joins
<1>8. \A i \in 1..Len(m) : m[i] \in C \cup A
  BY <1>6 DEF Lists
<1>9. \A x \in C \cup A : \E i \in 1..Len(m) : m[i] = x
  BY <1>6 DEF Lists
<1>10. \A x \in A : \E t \in DOMAIN old \cap DOMAIN new : \E k \in AddedColumns(old, new, t) :
          x = AddColumn(t, k, new[t].cols[k])
  BY DEF A, AllAdds, Adds
<1>11. \A t \in DOMAIN old \cap DOMAIN new : \A k \in AddedColumns(old, new, t) :
          AddColumn(t, k, new[t].cols[k]) \in A
  BY DEF A, AllAdds, Adds
<1>12. \A x \in C : \E t \in S : x = Create(t, new[t])
  BY DEF C
<1>13. \A t \in S : Create(t, new[t]) \in C
  BY DEF C
<1>14. \A i \in 1..Len(q) : i \in 1..Len(m) /\ m[i] = Create(q[i], new[q[i]])
  <2>1. \A i \in 1..Len(q) : c[i] = Create(q[i], new[q[i]])
    BY <1>1 DEF c, Lists
  <2> QED BY <1>3, <1>6, <1>7, <2>1 DEF Joins
<1>15. ASSUME NEW i \in 1..Len(m), NEW t \in DOMAIN new, m[i] = Create(t, new[t]),
              NEW u \in Targets(new[t])
       PROVE  u \in DOMAIN old \/ \E j \in 1..(i - 1) : m[j] = Create(u, new[u])
  <2>1. i \in 1..Len(q)
    <3> SUFFICES ASSUME ~(i \in 1..Len(q)) PROVE FALSE
      OBVIOUS
    <3> DEFINE k == i - Len(q)
    <3>1. k \in 1..Len(a) /\ i = Len(c) + k
      BY <1>3, <1>7
    <3> HIDE DEF k
    <3>2. m[i] = a[k] /\ a[k] \in A
      BY <1>4, <1>6, <3>1 DEF Joins, Lists
    <3>3. m[i].k = "add"
      BY <1>10, <3>2, StatementFields
    <3>4. m[i].k = "create"
      BY <1>15, StatementFields
    <3> QED BY <3>3, <3>4
  <2>2. q[i] = t
    <3>1. Create(q[i], new[q[i]]) = Create(t, new[t])
      BY <1>14, <1>15, <2>1
    <3> QED BY <3>1, StatementFields
  <2>3. u \in DOMAIN new
    BY DEF WellFormed
  <2>4. CASE u \in S
    <3>1. PICK j \in 1..(i - 1) : q[j] = u
      BY <1>1, <2>1, <2>2, <2>4 DEF InOrder
    <3>2. j \in 1..Len(q)
      BY <1>7, <2>1
    <3> QED BY <1>14, <3>1, <3>2
  <2> QED BY <2>3, <2>4
<1>16. \A i, j \in 1..Len(m) : m[i] = m[j] => i = j
  BY <1>6 DEF Lists
<1>17. MigrationOf(m, old, new)
  <2>1. \A i \in 1..Len(m) :
          \/ \E t \in DOMAIN new \ DOMAIN old : m[i] = Create(t, new[t])
          \/ \E t \in DOMAIN old \cap DOMAIN new : \E k \in AddedColumns(old, new, t) :
               m[i] = AddColumn(t, k, new[t].cols[k])
    <3> TAKE i \in 1..Len(m)
    <3> HIDE DEF S
    <3>1. CASE m[i] \in C
      BY <1>12, <3>1 DEF S
    <3>2. CASE m[i] \in A
      BY <1>10, <3>2
    <3> QED BY <1>8, <3>1, <3>2
  <2>2. \A t \in DOMAIN new \ DOMAIN old : \E i \in 1..Len(m) : m[i] = Create(t, new[t])
    BY <1>9, <1>13
  <2>3. \A t \in DOMAIN old \cap DOMAIN new : \A k \in AddedColumns(old, new, t) :
          \E i \in 1..Len(m) : m[i] = AddColumn(t, k, new[t].cols[k])
    BY <1>9, <1>11
  <2> QED BY <1>7, <1>15, <1>16, <2>1, <2>2, <2>3 DEF MigrationOf
<1> QED BY <1>2, <1>17

----------------------------------------------------------------------------
(* The invariant: what the files say, and how far a database has come.     *)

\* The versions of the program at hand.
Relatives == UNION {f \in Families : source \in f}

Creates(s, t) == s.k = "create" /\ s.table = t
Writes(s, t, c) ==
  /\ s.table = t
  /\ \/ s.k = "create" /\ c \in DOMAIN s.schema.cols
     \/ s.k = "add" /\ s.column = c

TypedState ==
  /\ source \in Revision
  /\ built \in Relatives \cup {None}
  /\ baseline \in Relatives \cup {None}
  /\ DOMAIN manifest = {"tables", "records", "seq"}
  /\ manifest.seq \in Nat

\* The manifest remembers the last build.
ManifestIsBuilt ==
  /\ manifest.tables = IF built = None THEN <<>> ELSE Schema[built]
  /\ manifest.records = IF built = None THEN <<>> ELSE Shapes[built]

\* The column is in the tables, with the type.
Holds(tables, t, c, type) ==
  t \in DOMAIN tables /\ c \in DOMAIN tables[t].cols /\ tables[t].cols[c] = type

\* A build from one version to the other adds the column.
AddedIn(p, t, c) ==
  LET old == Schema[p[1]]
      new == Schema[p[2]]
  IN  /\ ~SchemaRefused(old, new)
      /\ t \in DOMAIN old \cap DOMAIN new /\ c \in AddedColumns(old, new, t)
Added(t, c) == \E p \in Relatives \X Relatives : AddedIn(p, t, c)

\* What a migration says is true of the tables the manifest remembers.
TrueCreate(s) ==
  /\ s.k = "create"
  /\ s.table \in DOMAIN manifest.tables
  /\ \E r \in Relatives : s.table \in DOMAIN Schema[r] /\ s.schema = Schema[r][s.table]
  /\ \A c \in DOMAIN s.schema.cols : Holds(manifest.tables, s.table, c, s.schema.cols[c])
TrueAdd(s) ==
  /\ s.k = "add"
  /\ Holds(manifest.tables, s.table, s.column, s.type)
  /\ Added(s.table, s.column)

IsMigration(f) ==
  /\ f.kind = "migration"
  /\ f = MigrationFile(f.seq, f.stmts)
  /\ f.seq < manifest.seq
  /\ \A i \in 1..Len(f.stmts) : TrueCreate(f.stmts[i]) \/ TrueAdd(f.stmts[i])
IsContract(f) == f.kind = "contract" /\ f = ContractFile(f.plan[1], f.seq)

FilesAreTrue ==
  \A f \in files : f.seq \in Nat /\ Len(f.stmts) \in Nat /\ (IsMigration(f) \/ IsContract(f))

\* A migration is known by its number.
NumbersAreUnique ==
  \A f, g \in files : f.kind = "migration" /\ g.kind = "migration" /\ f.seq = g.seq => f = g

\* A migration makes every table and every column, and makes it once.
EverythingIsMade ==
  \A t \in DOMAIN manifest.tables :
    /\ \E f \in files : \E i \in 1..Len(f.stmts) : Creates(f.stmts[i], t)
    /\ \A c \in DOMAIN manifest.tables[t].cols :
         \E f \in files : \E i \in 1..Len(f.stmts) : Writes(f.stmts[i], t, c)

MadeTwice(s, u) ==
  \/ \E t \in DOMAIN manifest.tables : Creates(s, t) /\ Creates(u, t)
  \/ \E t \in DOMAIN manifest.tables : \E c \in DOMAIN manifest.tables[t].cols :
       Writes(s, t, c) /\ Writes(u, t, c)
NothingIsMadeTwice ==
  \A f, g \in files : \A i \in 1..Len(f.stmts) : \A j \in 1..Len(g.stmts) :
    MadeTwice(f.stmts[i], g.stmts[j]) => f = g /\ i = j

\* The table is created in an earlier migration, or above in this one.
CreatedBefore(f, t) == \E g \in files : g.seq < f.seq /\ \E j \in 1..Len(g.stmts) : Creates(g.stmts[j], t)
CreatedAbove(f, i, t) == \E j \in 1..(i - 1) : Creates(f.stmts[j], t)
MigrationsAreOrdered ==
  \A f \in files : \A i \in 1..Len(f.stmts) :
    /\ f.stmts[i].k = "create" => \A t \in Targets(f.stmts[i].schema) :
                                    CreatedBefore(f, t) \/ CreatedAbove(f, i, t)
    /\ f.stmts[i].k = "add" => CreatedBefore(f, f.stmts[i].table)

FilesInv ==
  /\ FilesAreTrue
  /\ NumbersAreUnique
  /\ EverythingIsMade
  /\ NothingIsMadeTwice
  /\ MigrationsAreOrdered

\* A database has no table, column or key that the program did not declare, and a table has
\* at least the columns that it was created with.
IsDatabase(x) ==
  /\ DOMAIN x = {"tables", "nulls", "applied", "ledger", "done"}
  /\ \A t \in DOMAIN x.tables :
       /\ DOMAIN x.tables[t] = {"cols", "fks", "unique", "link"}
       /\ x.tables[t].cols = [c \in DOMAIN x.tables[t].cols |-> x.tables[t].cols[c]]
OnlyDeclared(x) ==
  \A t \in DOMAIN x.tables :
    /\ t \in DOMAIN manifest.tables
    /\ \A c \in DOMAIN x.tables[t].cols : Holds(manifest.tables, t, c, x.tables[t].cols[c])
    /\ \E r \in Relatives : t \in DOMAIN Schema[r] /\ x.tables[t].fks = Schema[r][t].fks
CreatedWhole(x) ==
  \A f \in files : \A i \in 1..Len(f.stmts) : \A t \in DOMAIN x.tables :
    Creates(f.stmts[i], t) => DOMAIN f.stmts[i].schema.cols \subseteq DOMAIN x.tables[t].cols
\* What a database holds as nullable was added to a table that was there.
NullsAreColumns(x) ==
  \A n \in x.nulls :
    /\ n = <<n[1], n[2]>>
    /\ n[1] \in DOMAIN x.tables /\ n[2] \in DOMAIN x.tables[n[1]].cols
    /\ Added(n[1], n[2])

Sound(x) == IsDatabase(x) /\ OnlyDeclared(x) /\ CreatedWhole(x) /\ NullsAreColumns(x)

\* The statement has left what it makes.
Made(s, tables) ==
  /\ s.k \in {"create", "add"} => s.table \in DOMAIN tables
  /\ s.k = "create" => DOMAIN s.schema.cols \subseteq DOMAIN tables[s.table].cols
  /\ s.k = "add" => s.column \in DOMAIN tables[s.table].cols

AppliedIsMade(x) ==
  /\ x.applied \subseteq {Name(f) : f \in files}
  /\ \A f \in files : Name(f) \in x.applied => \A i \in 1..Len(f.stmts) : Made(f.stmts[i], x.tables)

\* Every column comes from a file that is applied whole.
OnlyApplied(x) ==
  \A t \in DOMAIN x.tables : \A c \in DOMAIN x.tables[t].cols :
    \E f \in files : Name(f) \in x.applied /\ \E i \in 1..Len(f.stmts) : Writes(f.stmts[i], t, c)

DatabasesInv ==
  \A d \in DOMAIN db :
    /\ Sound(db[d])
    /\ AppliedIsMade(db[d])
    /\ d \in Transactional => OnlyApplied(db[d])

EvolutionInv == TypedState /\ ManifestIsBuilt /\ FilesInv /\ DatabasesInv

----------------------------------------------------------------------------
(* What a statement does to a database.                                    *)

LEMMA CreateDoes ==
  ASSUME NEW s, NEW x, s.k = "create", IsDatabase(x), ~Known(s, x)
  PROVE  LET y == Does(s, x) IN
         /\ DOMAIN y = DOMAIN x
         /\ y.nulls = x.nulls /\ y.applied = x.applied /\ y.ledger = x.ledger /\ y.done = x.done
         /\ DOMAIN y.tables = DOMAIN x.tables \cup {s.table}
         /\ \A t \in DOMAIN y.tables : y.tables[t] = IF t = s.table THEN s.schema ELSE x.tables[t]
<1> DEFINE ts == Having(x.tables, s.table, s.schema)
           y == [x EXCEPT !.tables = ts]
<1>1. Does(s, x) = y
  BY DEF Does
<1>2. DOMAIN ts = DOMAIN x.tables \cup {s.table}
  BY DEF Having
<1>3. \A t \in DOMAIN ts : ts[t] = IF t = s.table THEN s.schema ELSE x.tables[t]
  BY DEF Having, Known
<1> HIDE DEF ts
<1>4. y.tables = ts /\ DOMAIN y = DOMAIN x
      /\ y.nulls = x.nulls /\ y.applied = x.applied /\ y.ledger = x.ledger /\ y.done = x.done
  BY DEF IsDatabase
<1> QED BY <1>1, <1>2, <1>3, <1>4

LEMMA AddDoes ==
  ASSUME NEW s, NEW x, s.k = "add", IsDatabase(x), Known(s, x)
  PROVE  LET y == Does(s, x)
             old == x.tables[s.table].cols
             new == y.tables[s.table].cols IN
         /\ DOMAIN y = DOMAIN x
         /\ y.applied = x.applied /\ y.ledger = x.ledger /\ y.done = x.done
         /\ y.nulls = x.nulls \cup {<<s.table, s.column>>}
         /\ DOMAIN y.tables = DOMAIN x.tables
         /\ \A t \in DOMAIN x.tables : t # s.table => y.tables[t] = x.tables[t]
         /\ DOMAIN y.tables[s.table] = DOMAIN x.tables[s.table]
         /\ y.tables[s.table].fks = x.tables[s.table].fks
         /\ DOMAIN new = DOMAIN old \cup {s.column}
         /\ new = [c \in DOMAIN new |-> IF c = s.column THEN s.type ELSE old[c]]
<1> DEFINE old == x.tables[s.table].cols
           new == Having(old, s.column, s.type)
           tab == [x.tables[s.table] EXCEPT !.cols = new]
           ts == [x.tables EXCEPT ![s.table] = tab]
           nu == x.nulls \cup {<<s.table, s.column>>}
           y == [x EXCEPT !.tables = ts, !.nulls = nu]
<1>1. Does(s, x) = y
  BY DEF Does
<1>2. DOMAIN new = DOMAIN old \cup {s.column}
      /\ new = [c \in DOMAIN new |-> IF c = s.column THEN s.type ELSE old[c]]
  BY DEF Having
<1> HIDE DEF new
<1>3. s.table \in DOMAIN x.tables /\ DOMAIN x.tables[s.table] = {"cols", "fks", "unique", "link"}
  BY DEF IsDatabase, Known
<1>4. tab.cols = new /\ tab.fks = x.tables[s.table].fks /\ DOMAIN tab = DOMAIN x.tables[s.table]
  BY <1>3
<1> HIDE DEF tab
<1>5. /\ DOMAIN ts = DOMAIN x.tables
      /\ ts[s.table] = tab
      /\ \A t \in DOMAIN x.tables : t # s.table => ts[t] = x.tables[t]
  BY <1>3
<1> HIDE DEF ts, nu
<1>6. y.tables = ts /\ y.nulls = nu /\ DOMAIN y = DOMAIN x
      /\ y.applied = x.applied /\ y.ledger = x.ledger /\ y.done = x.done
  BY DEF IsDatabase
<1> HIDE DEF old, y
<1> QED BY <1>1, <1>2, <1>4, <1>5, <1>6 DEF old, nu

\* A contract's statements leave the tables as they are.
LEMMA OtherDoes ==
  ASSUME NEW s, NEW x, s.k \in {"ledger", "guard", "tighten"}, IsDatabase(x)
  PROVE  LET y == Does(s, x) IN
         /\ DOMAIN y = DOMAIN x
         /\ y.tables = x.tables /\ y.nulls = x.nulls /\ y.applied = x.applied /\ y.done = x.done
<1>1. CASE s.k = "ledger"
  BY <1>1 DEF Does, IsDatabase
<1>2. CASE s.k \in {"guard", "tighten"}
  <2>1. Does(s, x) = x
    BY <1>2 DEF Does
  <2> QED BY <2>1
<1> QED BY <1>1, <1>2

\* A database has all that it had, and has run no other file or script.
Grows(x, y) ==
  /\ y.applied = x.applied
  /\ DOMAIN x.tables \subseteq DOMAIN y.tables
  /\ \A t \in DOMAIN x.tables : DOMAIN x.tables[t].cols \subseteq DOMAIN y.tables[t].cols

\* What is new in y was written by the statement.
NewIsWritten(x, y, s) ==
  \A t \in DOMAIN y.tables : \A c \in DOMAIN y.tables[t].cols :
    (t \in DOMAIN x.tables /\ c \in DOMAIN x.tables[t].cols) \/ Writes(s, t, c)

Kept(x, y, s) == Sound(y) /\ Grows(x, y) /\ Made(s, y.tables) /\ NewIsWritten(x, y, s)

LEMMA SchemaTables ==
  ASSUME NEW r \in Relatives, NEW t \in DOMAIN Schema[r]
  PROVE  IsTable(Schema[r][t])
<1>1. r \in Revision
  BY FamiliesAssumption DEF Relatives
<1> QED BY <1>1, SchemaAssumption DEF WellFormed

LEMMA CreateKeeps ==
  ASSUME FilesInv, NEW f \in files, NEW i \in 1..Len(f.stmts), NEW x, Sound(x), TrueCreate(f.stmts[i])
  PROVE  Kept(x, Does(f.stmts[i], x), f.stmts[i])
<1> DEFINE s == f.stmts[i]
           y == Does(s, x)
<1>0. s.k = "create"
  BY DEF TrueCreate
<1>1. CASE Known(s, x)
  <2>1. y = x
    BY <1>0, <1>1 DEF Does
  <2>2. Made(s, x.tables)
    BY <1>0, <1>1 DEF Sound, CreatedWhole, Made, Creates, Known
  <2> QED BY <2>1, <2>2 DEF Kept, Grows, NewIsWritten
<1>2. CASE ~Known(s, x)
  <2> HIDE DEF s
  <2> USE <1>0, <1>2
  <2>0. IsDatabase(x) /\ OnlyDeclared(x) /\ CreatedWhole(x) /\ NullsAreColumns(x)
    BY DEF Sound
  <2>1. /\ DOMAIN y = DOMAIN x
        /\ y.nulls = x.nulls /\ y.applied = x.applied
        /\ DOMAIN y.tables = DOMAIN x.tables \cup {s.table}
        /\ \A t \in DOMAIN y.tables : y.tables[t] = IF t = s.table THEN s.schema ELSE x.tables[t]
    BY <2>0, CreateDoes
  <2> HIDE DEF y
  <2>2. s.table \notin DOMAIN x.tables
    BY DEF Known
  <2>3. PICK r \in Relatives : s.table \in DOMAIN Schema[r] /\ s.schema = Schema[r][s.table]
    BY DEF s, TrueCreate
  <2>4. IsTable(s.schema)
    BY <2>3, SchemaTables
  <2>5. IsDatabase(y)
    BY <2>0, <2>1, <2>4 DEF IsDatabase, IsTable
  <2>6. OnlyDeclared(y)
    <3>1. ASSUME NEW t \in DOMAIN y.tables
          PROVE  /\ t \in DOMAIN manifest.tables
                 /\ \A c \in DOMAIN y.tables[t].cols : Holds(manifest.tables, t, c, y.tables[t].cols[c])
                 /\ \E q \in Relatives : t \in DOMAIN Schema[q] /\ y.tables[t].fks = Schema[q][t].fks
      <4>1. CASE t = s.table
        <5>1. y.tables[t] = s.schema
          BY <2>1, <4>1
        <5>2. s.table \in DOMAIN manifest.tables
              /\ \A c \in DOMAIN s.schema.cols : Holds(manifest.tables, s.table, c, s.schema.cols[c])
          BY DEF s, TrueCreate
        <5> QED BY <2>3, <4>1, <5>1, <5>2
      <4>2. CASE t # s.table
        <5>1. t \in DOMAIN x.tables /\ y.tables[t] = x.tables[t]
          BY <2>1, <4>2
        <5> QED BY <2>0, <5>1 DEF OnlyDeclared
      <4> QED BY <4>1, <4>2
    <3> QED BY <3>1 DEF OnlyDeclared
  <2>7. CreatedWhole(y)
    <3>1. ASSUME NEW g \in files, NEW j \in 1..Len(g.stmts), NEW t \in DOMAIN y.tables, Creates(g.stmts[j], t)
          PROVE  DOMAIN g.stmts[j].schema.cols \subseteq DOMAIN y.tables[t].cols
      <4>1. CASE t = s.table
        <5>1. MadeTwice(s, g.stmts[j])
          BY <3>1, <4>1 DEF s, TrueCreate, MadeTwice, Creates
        <5>2. g = f /\ j = i
          BY <5>1 DEF s, FilesInv, NothingIsMadeTwice
        <5> QED BY <2>1, <4>1, <5>2 DEF s
      <4>2. CASE t # s.table
        <5>1. t \in DOMAIN x.tables /\ y.tables[t] = x.tables[t]
          BY <2>1, <4>2
        <5> QED BY <2>0, <3>1, <5>1 DEF CreatedWhole
      <4> QED BY <4>1, <4>2
    <3> QED BY <3>1 DEF CreatedWhole
  <2>8. Grows(x, y)
    BY <2>1, <2>2 DEF Grows
  <2>9. NullsAreColumns(y)
    BY <2>0, <2>1, <2>8 DEF NullsAreColumns, Grows
  <2>10. Made(s, y.tables)
    BY <2>1 DEF Made
  <2>11. NewIsWritten(x, y, s)
    BY <2>1 DEF NewIsWritten, Writes
  <2>12. Kept(x, y, s)
    BY <2>5, <2>6, <2>7, <2>8, <2>9, <2>10, <2>11 DEF Kept, Sound
  <2> QED BY <2>12 DEF s, y
<1> QED BY <1>1, <1>2

LEMMA AddKeeps ==
  ASSUME NEW s, NEW x, Sound(x), TrueAdd(s), Known(s, x)
  PROVE  Kept(x, Does(s, x), s)
<1> DEFINE y == Does(s, x)
           T == s.table
           old == x.tables[T].cols
           new == y.tables[T].cols
<1>0. s.k = "add" /\ T \in DOMAIN x.tables
  BY DEF TrueAdd, Known
<1>1. IsDatabase(x) /\ OnlyDeclared(x) /\ CreatedWhole(x) /\ NullsAreColumns(x)
  BY DEF Sound
<1>2. /\ DOMAIN y = DOMAIN x
      /\ y.applied = x.applied
      /\ y.nulls = x.nulls \cup {<<T, s.column>>}
      /\ DOMAIN y.tables = DOMAIN x.tables
      /\ \A t \in DOMAIN x.tables : t # T => y.tables[t] = x.tables[t]
      /\ DOMAIN y.tables[T] = DOMAIN x.tables[T]
      /\ y.tables[T].fks = x.tables[T].fks
      /\ DOMAIN new = DOMAIN old \cup {s.column}
      /\ new = [c \in DOMAIN new |-> IF c = s.column THEN s.type ELSE old[c]]
  BY <1>0, <1>1, AddDoes
<1>3. \A c \in DOMAIN new : new[c] = IF c = s.column THEN s.type ELSE old[c]
  <2> HIDE DEF new, old
  <2> QED BY <1>2
<1>4. new = [c \in DOMAIN new |-> new[c]]
  <2> HIDE DEF new, old
  <2> QED BY <1>2
<1> HIDE DEF y
<1>5. IsDatabase(y)
  <2>1. ASSUME NEW t \in DOMAIN y.tables
        PROVE  /\ DOMAIN y.tables[t] = {"cols", "fks", "unique", "link"}
               /\ y.tables[t].cols = [c \in DOMAIN y.tables[t].cols |-> y.tables[t].cols[c]]
    <3>1. t \in DOMAIN x.tables
      BY <1>2
    <3>2. CASE t = T
      <4>1. DOMAIN y.tables[T] = {"cols", "fks", "unique", "link"}
        BY <1>0, <1>1, <1>2 DEF IsDatabase
      <4> QED BY <1>4, <3>2, <4>1
    <3>3. CASE t # T
      <4>1. y.tables[t] = x.tables[t]
        BY <1>2, <3>1, <3>3
      <4> HIDE DEF T
      <4> QED BY <1>1, <3>1, <4>1 DEF IsDatabase
    <3> QED BY <3>2, <3>3
  <2> QED BY <1>1, <1>2, <2>1 DEF IsDatabase
<1>6. OnlyDeclared(y)
  <2>1. ASSUME NEW t \in DOMAIN y.tables
        PROVE  /\ t \in DOMAIN manifest.tables
               /\ \A c \in DOMAIN y.tables[t].cols : Holds(manifest.tables, t, c, y.tables[t].cols[c])
               /\ \E q \in Relatives : t \in DOMAIN Schema[q] /\ y.tables[t].fks = Schema[q][t].fks
    <3>1. t \in DOMAIN x.tables
      BY <1>2
    <3>2. CASE t = T
      <4>1. Holds(manifest.tables, T, s.column, s.type)
        BY DEF TrueAdd
      <4>2. \A c \in DOMAIN old : Holds(manifest.tables, T, c, old[c])
        BY <1>1, <3>1, <3>2 DEF OnlyDeclared
      <4>3. \A c \in DOMAIN new : Holds(manifest.tables, T, c, new[c])
        <5>1. DOMAIN new = DOMAIN old \cup {s.column}
          BY <1>2
        <5> HIDE DEF new, old, T
        <5> QED BY <1>3, <4>1, <4>2, <5>1
      <4>4. PICK q \in Relatives : T \in DOMAIN Schema[q] /\ x.tables[T].fks = Schema[q][T].fks
        BY <1>0, <1>1 DEF OnlyDeclared
      <4>5. y.tables[T].fks = Schema[q][T].fks
        BY <1>2, <4>4
      <4>6. T \in DOMAIN manifest.tables
        BY <1>0, <1>1 DEF OnlyDeclared
      <4> QED BY <3>2, <4>3, <4>4, <4>5, <4>6
    <3>3. CASE t # T
      BY <1>1, <1>2, <3>1, <3>3 DEF OnlyDeclared
    <3> QED BY <3>2, <3>3
  <2> QED BY <2>1 DEF OnlyDeclared
<1>7. Grows(x, y)
  BY <1>2 DEF Grows
<1>8. CreatedWhole(y)
  BY <1>1, <1>2, <1>7 DEF CreatedWhole, Grows
<1>9. NullsAreColumns(y)
  <2>1. ASSUME NEW n \in y.nulls
        PROVE  /\ n = <<n[1], n[2]>> /\ n[1] \in DOMAIN y.tables /\ n[2] \in DOMAIN y.tables[n[1]].cols
               /\ Added(n[1], n[2])
    <3>1. CASE n \in x.nulls
      BY <1>1, <1>7, <3>1 DEF NullsAreColumns, Grows
    <3>2. CASE n = <<T, s.column>>
      BY <1>0, <1>2, <3>2 DEF TrueAdd
    <3> QED BY <1>2, <2>1, <3>1, <3>2
  <2> QED BY <2>1 DEF NullsAreColumns
<1>10. Made(s, y.tables)
  BY <1>0, <1>2 DEF Made
<1>11. NewIsWritten(x, y, s)
  BY <1>0, <1>2 DEF NewIsWritten, Writes
<1>12. Kept(x, y, s)
  BY <1>5, <1>6, <1>7, <1>8, <1>9, <1>10, <1>11 DEF Kept, Sound
<1> QED BY <1>12 DEF y

LEMMA OtherKeeps ==
  ASSUME NEW s, NEW x, Sound(x), s.k \in {"ledger", "guard", "tighten"}
  PROVE  Kept(x, Does(s, x), s)
<1> DEFINE y == Does(s, x)
<1>1. IsDatabase(x) /\ OnlyDeclared(x) /\ CreatedWhole(x) /\ NullsAreColumns(x)
  BY DEF Sound
<1>2. /\ DOMAIN y = DOMAIN x
      /\ y.tables = x.tables /\ y.nulls = x.nulls /\ y.applied = x.applied
  BY <1>1, OtherDoes
<1> HIDE DEF y
<1>3. Sound(y)
  BY <1>1, <1>2 DEF Sound, IsDatabase, OnlyDeclared, CreatedWhole, NullsAreColumns
<1>4. Grows(x, y) /\ Made(s, y.tables) /\ NewIsWritten(x, y, s)
  BY <1>2 DEF Grows, Made, NewIsWritten
<1>5. Kept(x, y, s)
  BY <1>3, <1>4 DEF Kept
<1> QED BY <1>5 DEF y

LEMMA ContractStatements ==
  ASSUME NEW f, IsContract(f), NEW i \in 1..Len(f.stmts)
  PROVE  f.stmts[i].k \in {"ledger", "guard", "tighten"}
<1> DEFINE p == f.plan[1]
           a == Statement("ledger", p)
           b == Statement("guard", p)
           c == Statement("tighten", p)
<1>1. f = ContractFile(p, f.seq)
  BY DEF IsContract
<1>2. ContractFile(p, f.seq).stmts = <<a, b, c>>
  BY DEF ContractFile
<1>3. f.stmts = <<a, b, c>>
  BY <1>1, <1>2
<1>4. a.k = "ledger" /\ b.k = "guard" /\ c.k = "tighten"
  BY DEF Statement
<1> HIDE DEF a, b, c
<1> QED BY <1>3, <1>4

\* Whatever file a statement is in, when it works the database stays what the files say.
LEMMA StatementKeeps ==
  ASSUME FilesInv, NEW f \in files, NEW i \in 1..Len(f.stmts), NEW x, Sound(x), Works(f.stmts[i], f, x)
  PROVE  Kept(x, Does(f.stmts[i], x), f.stmts[i])
<1> DEFINE s == f.stmts[i]
<1>1. CASE IsMigration(f)
  <2>1. CASE TrueCreate(s)
    BY <2>1, CreateKeeps
  <2>2. CASE TrueAdd(s)
    <3>1. Known(s, x)
      BY <2>2 DEF TrueAdd, Works
    <3> HIDE DEF s
    <3>2. Kept(x, Does(s, x), s)
      BY <2>2, <3>1, AddKeeps
    <3> QED BY <3>2 DEF s
  <2> QED BY <1>1, <2>1, <2>2 DEF IsMigration
<1>2. CASE IsContract(f)
  <2>1. s.k \in {"ledger", "guard", "tighten"}
    BY <1>2, ContractStatements
  <2> HIDE DEF s
  <2>2. Kept(x, Does(s, x), s)
    BY <2>1, OtherKeeps
  <2> QED BY <2>2 DEF s
<1> QED BY <1>1, <1>2 DEF FilesInv, FilesAreTrue

----------------------------------------------------------------------------
(* What a file does to a database.                                         *)

LEMMA MadeStays ==
  ASSUME NEW s, NEW x, NEW y, Made(s, x.tables), Grows(x, y)
  PROVE  Made(s, y.tables)
BY DEF Made, Grows

LEMMA GrowsOn ==
  ASSUME NEW x, NEW y, NEW z, Grows(x, y), Grows(y, z)
  PROVE  Grows(x, z)
BY DEF Grows

\* After n statements: what worked was made, and nothing else.
RunIs(r, f, x, n) ==
  /\ Sound(r.x)
  /\ Grows(x, r.x)
  /\ r.ok => \A i \in 1..n : Made(f.stmts[i], r.x.tables)
  /\ \A t \in DOMAIN r.x.tables : \A c \in DOMAIN r.x.tables[t].cols :
       \/ t \in DOMAIN x.tables /\ c \in DOMAIN x.tables[t].cols
       \/ \E i \in 1..n : Writes(f.stmts[i], t, c)

LEMMA AfterIs ==
  ASSUME FilesInv, NEW f \in files, NEW n \in 1..Len(f.stmts), Len(f.stmts) \in Nat, NEW x,
         NEW r, RunIs(r, f, x, n - 1)
  PROVE  RunIs(After(f, n, r), f, x, n)
<1>1. n \in Nat /\ \A i \in 1..n : i = n \/ i \in 1..(n - 1)
  OBVIOUS
<1>2. 1..(n - 1) \subseteq 1..n /\ n \in 1..n
  OBVIOUS
<1> DEFINE s == f.stmts[n]
<1>3. CASE r.ok /\ Works(s, f, r.x)
  <2> DEFINE y == Does(s, r.x)
             q == [ok |-> TRUE, x |-> y]
  <2>1. After(f, n, r) = q
    BY <1>3 DEF After
  <2>2. Kept(r.x, y, s)
    BY <1>3, StatementKeeps DEF RunIs
  <2> HIDE DEF y, s
  <2>3. q.x = y /\ q.ok
    OBVIOUS
  <2> HIDE DEF q
  <2>4. Grows(x, y)
    <3>1. Grows(x, r.x) /\ Grows(r.x, y)
      BY <2>2 DEF RunIs, Kept
    <3> QED BY <3>1, GrowsOn
  <2>5. ASSUME NEW i \in 1..n PROVE Made(f.stmts[i], y.tables)
    <3>1. CASE i = n
      BY <2>2, <3>1 DEF Kept, s
    <3>2. CASE i \in 1..(n - 1)
      <4>1. Made(f.stmts[i], r.x.tables)
        BY <1>3, <3>2 DEF RunIs
      <4>2. Grows(r.x, y)
        BY <2>2 DEF Kept
      <4> QED BY <4>1, <4>2, MadeStays
    <3> QED BY <1>1, <3>1, <3>2
  <2>6. ASSUME NEW t \in DOMAIN y.tables, NEW c \in DOMAIN y.tables[t].cols
        PROVE  \/ t \in DOMAIN x.tables /\ c \in DOMAIN x.tables[t].cols
               \/ \E i \in 1..n : Writes(f.stmts[i], t, c)
    <3>1. CASE Writes(s, t, c)
      BY <1>2, <3>1 DEF s
    <3>2. CASE t \in DOMAIN r.x.tables /\ c \in DOMAIN r.x.tables[t].cols
      BY <1>2, <3>2 DEF RunIs
    <3> QED BY <2>2, <2>6, <3>1, <3>2 DEF Kept, NewIsWritten
  <2> QED BY <2>1, <2>2, <2>3, <2>4, <2>5, <2>6 DEF RunIs, Kept
<1>4. CASE ~(r.ok /\ Works(s, f, r.x))
  <2> DEFINE q == [ok |-> FALSE, x |-> r.x]
  <2>1. After(f, n, r) = q
    BY <1>4 DEF After
  <2>2. q.x = r.x /\ ~q.ok
    OBVIOUS
  <2> HIDE DEF q
  <2>3. RunIs(q, f, x, n)
    BY <1>2, <2>2 DEF RunIs
  <2> QED BY <2>1, <2>3
<1> QED BY <1>3, <1>4

LEMMA StartIs ==
  ASSUME NEW f, NEW x, Sound(x)
  PROVE  RunIs([ok |-> TRUE, x |-> x], f, x, 0)
<1>1. Grows(x, x)
  BY DEF Grows
<1> QED BY <1>1 DEF RunIs

LEMMA RunKeeps ==
  ASSUME FilesInv, NEW f \in files, NEW x, Sound(x), NEW n \in 0..Len(f.stmts)
  PROVE  RunIs(Executed(f, x)[n], f, x, n)
<1> DEFINE N == Len(f.stmts)
           H == {k \in 0..N : RunIs(Executed(f, x)[k], f, x, k)}
<1>0. N \in Nat
  BY DEF FilesInv, FilesAreTrue
<1>1. /\ Executed(f, x)[0] = [ok |-> TRUE, x |-> x]
      /\ \A k \in 1..N : Executed(f, x)[k] = After(f, k, Executed(f, x)[k - 1])
  BY <1>0, ExecutedIs
<1>2. 0 \in H
  BY <1>0, <1>1, StartIs
<1>3. ASSUME NEW k \in 1..N, k - 1 \in H PROVE k \in H
  <2> DEFINE r == Executed(f, x)[k - 1]
  <2>1. RunIs(r, f, x, k - 1)
    BY <1>3
  <2> HIDE DEF r
  <2>2. RunIs(After(f, k, r), f, x, k)
    BY <1>0, <2>1, AfterIs
  <2> QED BY <1>0, <1>1, <2>2 DEF r
<1>4. 0..N \subseteq H
  <2> HIDE DEF H, N
  <2> QED BY <1>0, <1>2, <1>3, UpTo
<1> QED BY <1>4

\* A database that is what some of the files, run whole, have made of it: the next one works.
LEMMA NextWorks ==
  ASSUME FilesInv, NEW f \in files, f.kind = "migration",
         NEW x, Sound(x), AppliedIsMade(x), OnlyApplied(x),
         Name(f) \notin x.applied, \A g \in files : g.seq < f.seq => Name(g) \in x.applied,
         NEW n \in 1..Len(f.stmts), Len(f.stmts) \in Nat,
         NEW r, r.ok, RunIs(r, f, x, n - 1)
  PROVE  Works(f.stmts[n], f, r.x)
<1> DEFINE s == f.stmts[n]
<1>1. IsMigration(f)
  BY DEF FilesInv, FilesAreTrue, IsContract
<1>2. TrueCreate(s) \/ TrueAdd(s)
  BY <1>1 DEF IsMigration
<1>3. ASSUME NEW t, CreatedBefore(f, t) PROVE t \in DOMAIN r.x.tables
  <2>1. PICK g \in files : g.seq < f.seq /\ \E j \in 1..Len(g.stmts) : Creates(g.stmts[j], t)
    BY <1>3 DEF CreatedBefore
  <2>2. PICK j \in 1..Len(g.stmts) : Creates(g.stmts[j], t)
    BY <2>1
  <2>3. Made(g.stmts[j], x.tables)
    BY <2>1 DEF AppliedIsMade
  <2> QED BY <2>2, <2>3 DEF Made, Creates, RunIs, Grows
<1>4. ASSUME NEW t, CreatedAbove(f, n, t) PROVE t \in DOMAIN r.x.tables
  <2>1. PICK j \in 1..(n - 1) : Creates(f.stmts[j], t)
    BY <1>4 DEF CreatedAbove
  <2>2. Made(f.stmts[j], r.x.tables)
    BY DEF RunIs
  <2> QED BY <2>1, <2>2 DEF Made, Creates
<1>5. CASE TrueCreate(s)
  <2>1. s.k = "create"
    BY <1>5 DEF TrueCreate
  <2>2. \A t \in Targets(s.schema) : CreatedBefore(f, t) \/ CreatedAbove(f, n, t)
    BY <2>1 DEF FilesInv, MigrationsAreOrdered
  <2>3. Targets(s.schema) \subseteq DOMAIN r.x.tables
    BY <1>3, <1>4, <2>2
  <2> QED BY <2>1, <2>3 DEF Works
<1>6. CASE TrueAdd(s)
  <2>1. s.k = "add" /\ s.table \in DOMAIN manifest.tables /\ s.column \in DOMAIN manifest.tables[s.table].cols
    BY <1>6 DEF TrueAdd, Holds
  <2>2. s.table \in DOMAIN r.x.tables
    <3>1. CreatedBefore(f, s.table)
      BY <2>1 DEF FilesInv, MigrationsAreOrdered
    <3> QED BY <1>3, <3>1
  <2>3. Writes(s, s.table, s.column)
    BY <2>1 DEF Writes
  <2>4. ASSUME s.column \in DOMAIN r.x.tables[s.table].cols PROVE FALSE
    <3>1. CASE \E i \in 1..(n - 1) : Writes(f.stmts[i], s.table, s.column)
      <4>1. PICK i \in 1..(n - 1) : Writes(f.stmts[i], s.table, s.column)
        BY <3>1
      <4>2. i \in 1..Len(f.stmts) /\ i # n
        OBVIOUS
      <4>3. MadeTwice(f.stmts[i], s)
        BY <2>1, <2>3, <4>1 DEF MadeTwice
      <4> QED BY <4>2, <4>3 DEF FilesInv, NothingIsMadeTwice
    <3>2. CASE s.table \in DOMAIN x.tables /\ s.column \in DOMAIN x.tables[s.table].cols
      <4>1. PICK g \in files : Name(g) \in x.applied /\ \E i \in 1..Len(g.stmts) : Writes(g.stmts[i], s.table, s.column)
        BY <3>2 DEF OnlyApplied
      <4>2. PICK i \in 1..Len(g.stmts) : Writes(g.stmts[i], s.table, s.column)
        BY <4>1
      <4>3. MadeTwice(g.stmts[i], s)
        BY <2>1, <2>3, <4>2 DEF MadeTwice
      <4>4. g = f
        BY <4>3 DEF FilesInv, NothingIsMadeTwice
      <4> QED BY <4>1, <4>4
    <3> QED BY <2>2, <2>4, <3>1, <3>2 DEF RunIs
  <2>5. Known(s, r.x) /\ s.column \notin DOMAIN r.x.tables[s.table].cols
    BY <2>2, <2>4 DEF Known
  <2> HIDE DEF s
  <2>6. Works(s, f, r.x)
    BY <2>1, <2>5 DEF Works
  <2> QED BY <2>6 DEF s
<1> QED BY <1>2, <1>5, <1>6

LEMMA RunWorks ==
  ASSUME FilesInv, NEW f \in files, f.kind = "migration",
         NEW x, Sound(x), AppliedIsMade(x), OnlyApplied(x),
         Name(f) \notin x.applied, \A g \in files : g.seq < f.seq => Name(g) \in x.applied
  PROVE  Executed(f, x)[Len(f.stmts)].ok
<1> DEFINE N == Len(f.stmts)
           H == {k \in 0..N : Executed(f, x)[k].ok}
<1>0. N \in Nat
  BY DEF FilesInv, FilesAreTrue
<1>1. /\ Executed(f, x)[0] = [ok |-> TRUE, x |-> x]
      /\ \A k \in 1..N : Executed(f, x)[k] = After(f, k, Executed(f, x)[k - 1])
  BY <1>0, ExecutedIs
<1>2. 0 \in H
  BY <1>0, <1>1
<1>3. ASSUME NEW k \in 1..N, k - 1 \in H PROVE k \in H
  <2> DEFINE r == Executed(f, x)[k - 1]
  <2>1. RunIs(r, f, x, k - 1)
    <3>1. k - 1 \in 0..N
      BY <1>0
    <3> QED BY <3>1, RunKeeps
  <2>2. r.ok
    BY <1>3
  <2> HIDE DEF r
  <2>3. Works(f.stmts[k], f, r.x)
    BY <1>0, <2>1, <2>2, NextWorks
  <2>4. After(f, k, r).ok
    BY <2>2, <2>3 DEF After
  <2> QED BY <1>0, <1>1, <2>4 DEF r
<1>4. 0..N \subseteq H
  <2> HIDE DEF H, N
  <2> QED BY <1>0, <1>2, <1>3, UpTo
<1> QED BY <1>0, <1>4

----------------------------------------------------------------------------
(* The invariant holds initially.                                          *)

LEMMA InitEstablishes ==
  ASSUME Init
  PROVE  EvolutionInv
<1> USE DEF Init
<1>1. TypedState /\ ManifestIsBuilt
  BY DEF TypedState, ManifestIsBuilt
<1>2. FilesInv
  <2>1. files = {} /\ manifest.tables = <<>>
    OBVIOUS
  <2> QED BY <2>1 DEF FilesInv, FilesAreTrue, NumbersAreUnique, EverythingIsMade, NothingIsMadeTwice, MigrationsAreOrdered
<1>3. DatabasesInv
  <2>1. ASSUME NEW d \in DOMAIN db PROVE db[d] = EmptyDatabase
    OBVIOUS
  <2> DEFINE x == EmptyDatabase
  <2>2. DOMAIN x = {"tables", "nulls", "applied", "ledger", "done"} /\ x.tables = <<>> /\ x.nulls = {} /\ x.applied = {}
    BY DEF EmptyDatabase
  <2>3. files = {}
    OBVIOUS
  <2> HIDE DEF x
  <2>4. IsDatabase(x) /\ OnlyDeclared(x) /\ CreatedWhole(x) /\ NullsAreColumns(x) /\ AppliedIsMade(x) /\ OnlyApplied(x)
    BY <2>2, <2>3 DEF IsDatabase, OnlyDeclared, CreatedWhole, NullsAreColumns, AppliedIsMade, OnlyApplied
  <2>5. Sound(x)
    BY <2>4 DEF Sound
  <2> QED BY <2>1, <2>4, <2>5 DEF DatabasesInv, x
<1> QED BY <1>1, <1>2, <1>3 DEF EvolutionInv

----------------------------------------------------------------------------
(* The steps that leave the files and the databases as they are.           *)

LEMMA SourceIsRelative ==
  ASSUME source \in Revision
  PROVE  source \in Relatives
BY FamiliesAssumption DEF Relatives

\* What the files say does not depend on the databases.
LEMMA FilesStay ==
  ASSUME FilesInv, UNCHANGED <<manifest, files>>, Relatives' = Relatives
  PROVE  FilesInv'
<1>1. FilesAreTrue'
  BY DEF FilesInv, FilesAreTrue, IsMigration, TrueCreate, TrueAdd, Added
<1>2. NumbersAreUnique' /\ EverythingIsMade'
  BY DEF FilesInv, NumbersAreUnique, EverythingIsMade
<1>3. NothingIsMadeTwice'
  BY DEF FilesInv, NothingIsMadeTwice, MadeTwice
<1>4. MigrationsAreOrdered'
  BY DEF FilesInv, MigrationsAreOrdered, CreatedBefore, CreatedAbove
<1> QED BY <1>1, <1>2, <1>3, <1>4 DEF FilesInv

LEMMA RelativesArePairs ==
  ASSUME NEW r \in Relatives, NEW s \in Relatives
  PROVE  <<r, s>> \in Pairs
<1>1. PICK f \in Families : r \in f /\ source \in f
  BY DEF Relatives
<1>2. PICK g \in Families : s \in g /\ source \in g
  BY DEF Relatives
<1>3. f = g
  BY <1>1, <1>2, FamiliesAssumption
<1> QED BY <1>1, <1>2, <1>3 DEF Pairs

LEMMA EditKeeps ==
  ASSUME EvolutionInv, NEW r \in Revision, Edit(r)
  PROVE  EvolutionInv'
<1> USE DEF EvolutionInv
<1>1. PICK f \in Families : {r, source} \subseteq f
  BY DEF Edit
<1>2. source' = r /\ UNCHANGED <<manifest, built, baseline, files, plans, db>>
  BY DEF Edit
<1>3. \A g \in Families : source \in g <=> g = f
  BY <1>1, FamiliesAssumption
<1>4. \A g \in Families : r \in g <=> g = f
  BY <1>1, FamiliesAssumption
<1>5. Relatives' = Relatives
  BY <1>2, <1>3, <1>4 DEF Relatives
<1>6. TypedState'
  BY <1>2, <1>5 DEF TypedState
<1>7. ManifestIsBuilt'
  BY <1>2 DEF ManifestIsBuilt
<1>8. FilesInv'
  <2>1. UNCHANGED <<manifest, files>>
    BY <1>2
  <2> QED BY <1>5, <2>1, FilesStay
<1>9. DatabasesInv'
  BY <1>2, <1>5 DEF DatabasesInv, Sound, OnlyDeclared, CreatedWhole, NullsAreColumns, Added, AppliedIsMade, OnlyApplied
<1> QED BY <1>6, <1>7, <1>8, <1>9

\* Neither the sources nor the manifest, files or databases change.
LEMMA StutterKeeps ==
  ASSUME EvolutionInv, UNCHANGED <<source, manifest, built, files, db>>, baseline' \in Relatives \cup {None}
  PROVE  EvolutionInv'
<1> USE DEF EvolutionInv
<1>1. Relatives' = Relatives
  BY DEF Relatives
<1>2. TypedState'
  BY <1>1 DEF TypedState
<1>3. ManifestIsBuilt'
  BY DEF ManifestIsBuilt
<1>4. FilesInv'
  BY <1>1, FilesStay
<1>5. DatabasesInv'
  <2>1. ASSUME NEW x, Sound(x) PROVE Sound(x)'
    <3>1. OnlyDeclared(x)' /\ NullsAreColumns(x)'
      BY <1>1, <2>1 DEF Sound, OnlyDeclared, NullsAreColumns, Added
    <3> QED BY <2>1, <3>1 DEF Sound, CreatedWhole, IsDatabase
  <2>2. ASSUME NEW x, AppliedIsMade(x) PROVE AppliedIsMade(x)'
    BY <2>2 DEF AppliedIsMade
  <2>3. ASSUME NEW x, OnlyApplied(x) PROVE OnlyApplied(x)'
    BY <2>3 DEF OnlyApplied
  <2>4. ASSUME NEW d \in DOMAIN db
        PROVE  Sound(db[d])' /\ AppliedIsMade(db[d])' /\ (d \in Transactional => OnlyApplied(db[d])')
    <3> DEFINE x == db[d]
    <3>1. Sound(x) /\ AppliedIsMade(x) /\ (d \in Transactional => OnlyApplied(x))
      BY DEF DatabasesInv
    <3>2. Sound(db[d])' /\ AppliedIsMade(db[d])'
      BY <2>1, <2>2, <3>1 DEF Sound, AppliedIsMade
    <3>3. d \in Transactional => OnlyApplied(db[d])'
      BY <3>1 DEF OnlyApplied
    <3> QED BY <3>2, <3>3
  <2> QED BY <2>4 DEF DatabasesInv
<1> QED BY <1>2, <1>3, <1>4, <1>5

----------------------------------------------------------------------------
(* The databases.                                                          *)

\* A step of a database.
LEMMA DatabaseStep ==
  ASSUME EvolutionInv, UNCHANGED <<source, manifest, built, baseline, files>>,
         NEW d \in DOMAIN db, NEW y, db' = [db EXCEPT ![d] = y],
         Sound(y), AppliedIsMade(y), d \in Transactional => OnlyApplied(y)
  PROVE  EvolutionInv'
<1> USE DEF EvolutionInv
<1>1. Relatives' = Relatives
  BY DEF Relatives
<1>2. TypedState'
  BY <1>1 DEF TypedState
<1>3. ManifestIsBuilt'
  BY DEF ManifestIsBuilt
<1>4. FilesInv'
  BY <1>1, FilesStay
<1>5. ASSUME NEW e \in DOMAIN db', NEW z, z = db'[e]
      PROVE  Sound(z) /\ AppliedIsMade(z) /\ (e \in Transactional => OnlyApplied(z))
  <2>1. CASE e = d
    BY <1>5, <2>1
  <2>2. CASE e # d
    BY <1>5, <2>2 DEF DatabasesInv
  <2> QED BY <2>1, <2>2
<1>6. DatabasesInv'
  <2>1. ASSUME NEW e \in DOMAIN db'
        PROVE  Sound(db[e])' /\ AppliedIsMade(db[e])' /\ (e \in Transactional => OnlyApplied(db[e])')
    <3> DEFINE z == db'[e]
    <3>1. Sound(z) /\ AppliedIsMade(z) /\ (e \in Transactional => OnlyApplied(z))
      BY <1>5
    <3>2. Sound(db[e])'
      <4>1. IsDatabase(db[e])' /\ NullsAreColumns(db[e])'
        BY <1>1, <3>1 DEF Sound, IsDatabase, NullsAreColumns, Added
      <4>2. OnlyDeclared(db[e])'
        BY <1>1, <3>1 DEF Sound, OnlyDeclared
      <4>3. CreatedWhole(db[e])'
        BY <3>1 DEF Sound, CreatedWhole
      <4> QED BY <4>1, <4>2, <4>3 DEF Sound
    <3>3. AppliedIsMade(db[e])'
      BY <3>1 DEF AppliedIsMade
    <3>4. e \in Transactional => OnlyApplied(db[e])'
      BY <3>1 DEF OnlyApplied
    <3> QED BY <3>2, <3>3, <3>4
  <2> QED BY <2>1 DEF DatabasesInv
<1> QED BY <1>2, <1>3, <1>4, <1>6

\* A file that is run to its end, or not, leaves what the applied files made.
LEMMA RunLeaves ==
  ASSUME FilesInv, NEW f \in files, NEW x, Sound(x), AppliedIsMade(x), NEW n \in 0..Len(f.stmts),
         NEW y, y = Executed(f, x)[n].x
  PROVE  Sound(y) /\ AppliedIsMade(y)
<1> DEFINE r == Executed(f, x)[n]
<1>1. RunIs(r, f, x, n)
  BY RunKeeps
<1> HIDE DEF r
<1>2. Sound(y) /\ Grows(x, y)
  BY <1>1 DEF RunIs, r
<1>3. y.applied = x.applied
  BY <1>2 DEF Grows
<1>4. ASSUME NEW g \in files, Name(g) \in y.applied, NEW i \in 1..Len(g.stmts)
      PROVE  Made(g.stmts[i], y.tables)
  <2>1. Made(g.stmts[i], x.tables)
    BY <1>3, <1>4 DEF AppliedIsMade
  <2> QED BY <1>2, <2>1, MadeStays
<1>5. AppliedIsMade(y)
  BY <1>3, <1>4 DEF AppliedIsMade
<1> QED BY <1>2, <1>5

LEMMA MigrateCutKeeps ==
  ASSUME EvolutionInv, NEW d \in DOMAIN db, MigrateCut(d)
  PROVE  EvolutionInv'
<1>1. PICK f \in files : \E n \in 1..Len(f.stmts) :
         /\ d \notin Transactional
         /\ db' = [db EXCEPT ![d] = Executed(f, db[d])[n].x]
         /\ UNCHANGED <<source, manifest, built, baseline, files, plans>>
  BY DEF MigrateCut
<1>2. PICK n \in 1..Len(f.stmts) :
         /\ d \notin Transactional
         /\ db' = [db EXCEPT ![d] = Executed(f, db[d])[n].x]
         /\ UNCHANGED <<source, manifest, built, baseline, files, plans>>
  BY <1>1
<1> DEFINE x == db[d]
           y == Executed(f, x)[n].x
<1>3. FilesInv /\ Sound(x) /\ AppliedIsMade(x)
  BY DEF EvolutionInv, DatabasesInv
<1>4. n \in 0..Len(f.stmts)
  BY <1>3 DEF FilesInv, FilesAreTrue
<1>5. Sound(y) /\ AppliedIsMade(y)
  <2> HIDE DEF x
  <2> QED BY <1>3, <1>4, RunLeaves
<1> HIDE DEF y
<1>6. db' = [db EXCEPT ![d] = y] /\ d \notin Transactional
      /\ UNCHANGED <<source, manifest, built, baseline, files>>
  BY <1>2 DEF y
<1> QED BY <1>5, <1>6, DatabaseStep

\* The file that was run to its end is applied.
LEMMA ApplyLeaves ==
  ASSUME FilesInv, NEW f \in files, NEW x, Sound(x), AppliedIsMade(x),
         NEW r, r.ok, RunIs(r, f, x, Len(f.stmts)),
         NEW y, y = [r.x EXCEPT !.applied = @ \cup {Name(f)}]
  PROVE  Sound(y) /\ AppliedIsMade(y) /\ (OnlyApplied(x) => OnlyApplied(y))
<1> DEFINE z == r.x
<1>1. Sound(z) /\ Grows(x, z) /\ DOMAIN z = {"tables", "nulls", "applied", "ledger", "done"}
  BY DEF RunIs, Sound, IsDatabase
<1>2. DOMAIN y = DOMAIN z /\ y.tables = z.tables /\ y.nulls = z.nulls /\ y.applied = z.applied \cup {Name(f)}
  BY <1>1
<1>3. z.applied = x.applied
  BY <1>1 DEF Grows
<1> HIDE DEF z
<1>4. Sound(y)
  BY <1>1, <1>2 DEF Sound, IsDatabase, OnlyDeclared, CreatedWhole, NullsAreColumns
<1>5. ASSUME NEW g \in files, Name(g) \in y.applied, NEW i \in 1..Len(g.stmts)
      PROVE  Made(g.stmts[i], y.tables)
  <2>1. CASE Name(g) \in x.applied
    <3>1. Made(g.stmts[i], x.tables)
      BY <2>1 DEF AppliedIsMade
    <3>2. Made(g.stmts[i], z.tables)
      BY <1>1, <3>1, MadeStays
    <3> QED BY <1>2, <3>2
  <2>2. CASE Name(g) = Name(f)
    <3>1. g.kind = f.kind /\ g.seq = f.seq
      BY <2>2 DEF Name
    <3>2. CASE g.kind = "migration"
      <4>1. g = f
        BY <3>1, <3>2 DEF FilesInv, NumbersAreUnique
      <4> QED BY <1>2, <4>1 DEF RunIs, z
    <3>3. CASE g.kind # "migration"
      <4>1. IsContract(g)
        BY <3>3 DEF FilesInv, FilesAreTrue, IsMigration
      <4>2. g.stmts[i].k \in {"ledger", "guard", "tighten"}
        BY <4>1, ContractStatements
      <4> QED BY <4>2 DEF Made
    <3> QED BY <3>2, <3>3
  <2> QED BY <1>2, <1>3, <1>5, <2>1, <2>2
<1>6. y.applied \subseteq {Name(g) : g \in files}
  BY <1>2, <1>3 DEF AppliedIsMade
<1>7. AppliedIsMade(y)
  BY <1>5, <1>6 DEF AppliedIsMade
<1>8. ASSUME OnlyApplied(x), NEW t \in DOMAIN y.tables, NEW c \in DOMAIN y.tables[t].cols
      PROVE  \E g \in files : Name(g) \in y.applied /\ \E i \in 1..Len(g.stmts) : Writes(g.stmts[i], t, c)
  <2>1. CASE t \in DOMAIN x.tables /\ c \in DOMAIN x.tables[t].cols
    BY <1>2, <1>3, <1>8, <2>1 DEF OnlyApplied
  <2>2. CASE \E i \in 1..Len(f.stmts) : Writes(f.stmts[i], t, c)
    BY <1>2, <2>2
  <2> QED BY <1>2, <2>1, <2>2 DEF RunIs, z
<1> QED BY <1>4, <1>7, <1>8 DEF OnlyApplied

LEMMA MigrateKeeps ==
  ASSUME EvolutionInv, NEW d \in DOMAIN db, Migrate(d)
  PROVE  EvolutionInv'
<1>1. PICK f \in files :
         /\ db' = IF Apply(f, d).ok THEN [db EXCEPT ![d] = [Apply(f, d).x EXCEPT !.applied = @ \cup {Name(f)}]]
                  ELSE IF d \in Transactional THEN db
                  ELSE [db EXCEPT ![d] = Apply(f, d).x]
         /\ UNCHANGED <<source, manifest, built, baseline, files, plans>>
  BY DEF Migrate
<1> DEFINE x == db[d]
           N == Len(f.stmts)
           r == Executed(f, x)[N]
<1>2. FilesInv /\ Sound(x) /\ AppliedIsMade(x) /\ (d \in Transactional => OnlyApplied(x))
  BY DEF EvolutionInv, DatabasesInv
<1>3. N \in 0..N
  BY <1>2 DEF FilesInv, FilesAreTrue
<1>4. Apply(f, d) = r
  BY DEF Apply
<1>5. RunIs(r, f, x, N)
  <2> HIDE DEF x
  <2> QED BY <1>2, <1>3, RunKeeps
<1>6. CASE r.ok
  <2> DEFINE y == [r.x EXCEPT !.applied = @ \cup {Name(f)}]
  <2>1. db' = [db EXCEPT ![d] = y]
    BY <1>1, <1>4, <1>6
  <2> HIDE DEF r, x
  <2>2. Sound(y) /\ AppliedIsMade(y) /\ (OnlyApplied(x) => OnlyApplied(y))
    BY <1>2, <1>5, <1>6, ApplyLeaves
  <2> HIDE DEF y
  <2> QED BY <1>1, <1>2, <2>1, <2>2, DatabaseStep
<1>7. CASE ~r.ok /\ d \in Transactional
  <2>1. db' = db /\ baseline' = baseline
    BY <1>1, <1>4, <1>7
  <2>2. baseline' \in Relatives \cup {None}
    BY <2>1 DEF EvolutionInv, TypedState
  <2> QED BY <1>1, <2>1, <2>2, StutterKeeps
<1>8. CASE ~r.ok /\ d \notin Transactional
  <2> DEFINE y == r.x
  <2>1. db' = [db EXCEPT ![d] = y]
    BY <1>1, <1>4, <1>8
  <2>2. Sound(y) /\ AppliedIsMade(y)
    <3> HIDE DEF x
    <3> QED BY <1>2, <1>3, RunLeaves
  <2> HIDE DEF y
  <2> QED BY <1>1, <1>8, <2>1, <2>2, DatabaseStep
<1> QED BY <1>6, <1>7, <1>8

LEMMA RunScriptKeeps ==
  ASSUME EvolutionInv, NEW d \in DOMAIN db, NEW p, NEW filled \in BOOLEAN, RunScript(d, p, filled)
  PROVE  EvolutionInv'
<1> DEFINE x == db[d]
           nulls == IF filled THEN x.nulls \ {<<p.table, p.column>>} ELSE x.nulls
           y == [x EXCEPT !.nulls = nulls, !.done = @ \cup {p}]
<1>1. UNCHANGED <<source, manifest, built, baseline, files>>
  BY DEF RunScript
<1>2. db' = IF x.ledger THEN [db EXCEPT ![d].nulls = nulls, ![d].done = @ \cup {p}] ELSE db
  BY DEF RunScript
<1>3. CASE x.ledger
  <2>1. Sound(x) /\ AppliedIsMade(x) /\ (d \in Transactional => OnlyApplied(x))
    BY DEF EvolutionInv, DatabasesInv
  <2>2. DOMAIN x = {"tables", "nulls", "applied", "ledger", "done"}
    BY <2>1 DEF Sound, IsDatabase
  <2>3. nulls \subseteq x.nulls
    OBVIOUS
  <2>4. db' = [db EXCEPT ![d] = y]
    BY <1>2, <1>3
  <2> HIDE DEF x, nulls
  <2>5. DOMAIN y = DOMAIN x /\ y.tables = x.tables /\ y.nulls = nulls /\ y.applied = x.applied
    BY <2>2
  <2> HIDE DEF y
  <2>6. Sound(y)
    BY <2>1, <2>2, <2>3, <2>5 DEF Sound, IsDatabase, OnlyDeclared, CreatedWhole, NullsAreColumns
  <2>7. AppliedIsMade(y) /\ (d \in Transactional => OnlyApplied(y))
    BY <2>1, <2>5 DEF AppliedIsMade, OnlyApplied
  <2> QED BY <1>1, <2>4, <2>6, <2>7, DatabaseStep
<1>4. CASE ~x.ledger
  <2>1. baseline' \in Relatives \cup {None}
    BY <1>1 DEF EvolutionInv, TypedState
  <2> QED BY <1>1, <1>2, <1>4, <2>1, StutterKeeps
<1> QED BY <1>3, <1>4

----------------------------------------------------------------------------
(* The files that a command or a build adds.                               *)

\* What a file makes is in the manifest.
LEMMA MadeIsRemembered ==
  ASSUME FilesInv, NEW f \in files, NEW i \in 1..Len(f.stmts), NEW t
  PROVE  /\ Creates(f.stmts[i], t) => t \in DOMAIN manifest.tables
         /\ \A c : Writes(f.stmts[i], t, c) =>
              t \in DOMAIN manifest.tables /\ c \in DOMAIN manifest.tables[t].cols
         /\ Creates(f.stmts[i], t) => f.kind = "migration" /\ f.seq < manifest.seq
<1> DEFINE s == f.stmts[i]
<1>1. CASE IsMigration(f)
  <2>1. TrueCreate(s) \/ TrueAdd(s)
    BY <1>1 DEF IsMigration
  <2>2. f.kind = "migration" /\ f.seq < manifest.seq
    BY <1>1 DEF IsMigration
  <2> HIDE DEF s
  <2>3. CASE TrueCreate(s)
    <3>1. s.k = "create" /\ s.table \in DOMAIN manifest.tables
          /\ \A c \in DOMAIN s.schema.cols : c \in DOMAIN manifest.tables[s.table].cols
      BY <2>3 DEF TrueCreate, Holds
    <3> QED BY <2>2, <3>1 DEF Creates, Writes, s
  <2>4. CASE TrueAdd(s)
    <3>1. s.k = "add" /\ s.table \in DOMAIN manifest.tables /\ s.column \in DOMAIN manifest.tables[s.table].cols
      BY <2>4 DEF TrueAdd, Holds
    <3> QED BY <3>1 DEF Creates, Writes, s
  <2> QED BY <2>1, <2>3, <2>4
<1>2. CASE IsContract(f)
  <2>1. s.k \in {"ledger", "guard", "tighten"}
    BY <1>2, ContractStatements
  <2> QED BY <2>1 DEF Creates, Writes
<1> QED BY <1>1, <1>2 DEF FilesInv, FilesAreTrue

LEMMA ContractKeeps ==
  ASSUME EvolutionInv, NEW p, NEW counted \in BOOLEAN, Contract(p, counted)
  PROVE  EvolutionInv'
<1> USE DEF EvolutionInv
<1> DEFINE f0 == ContractFile(p, manifest.seq)
<1>1. /\ ~\E f \in files : f.plan = <<p>>
      /\ files' = files \cup {f0}
      /\ manifest' = IF counted THEN [manifest EXCEPT !.seq = @ + 1] ELSE manifest
      /\ UNCHANGED <<source, built, baseline, db>>
  BY DEF Contract
<1>2. Relatives' = Relatives
  BY <1>1 DEF Relatives
<1>3. /\ DOMAIN manifest' = DOMAIN manifest /\ manifest'.seq \in Nat /\ manifest.seq <= manifest'.seq
      /\ manifest'.tables = manifest.tables /\ manifest'.records = manifest.records
  BY <1>1 DEF TypedState
<1>4. /\ f0.seq = manifest.seq /\ f0.kind = "contract" /\ f0.plan = <<p>>
      /\ f0.stmts = <<Statement("ledger", p), Statement("guard", p), Statement("tighten", p)>>
  BY DEF ContractFile
<1>5. Len(f0.stmts) = 3
  BY <1>4
<1>6. f0 = ContractFile(f0.plan[1], f0.seq)
  BY <1>4
<1>7. IsContract(f0)
  BY <1>4, <1>6 DEF IsContract
<1> HIDE DEF f0
<1>8. \A i \in 1..Len(f0.stmts) : f0.stmts[i].k \in {"ledger", "guard", "tighten"}
  BY <1>7, ContractStatements
<1>9. TypedState' /\ ManifestIsBuilt'
  BY <1>1, <1>2, <1>3 DEF TypedState, ManifestIsBuilt
<1>10. FilesAreTrue'
  <2>1. ASSUME NEW f \in files' PROVE f.seq \in Nat /\ Len(f.stmts) \in Nat /\ (IsMigration(f)' \/ IsContract(f))
    <3>1. CASE f = f0
      BY <1>4, <1>5, <1>7, <3>1 DEF TypedState
    <3>2. CASE f \in files
      <4>1. f.seq \in Nat /\ Len(f.stmts) \in Nat /\ (IsMigration(f) \/ IsContract(f))
        BY <3>2 DEF FilesInv, FilesAreTrue
      <4>2. IsMigration(f) => IsMigration(f)'
        <5>1. f.seq < manifest.seq => f.seq < manifest'.seq
          BY <1>3, <4>1 DEF TypedState
        <5> QED BY <1>2, <1>3, <5>1 DEF IsMigration, TrueCreate, TrueAdd, Added
      <4> QED BY <4>1, <4>2
    <3> QED BY <1>1, <3>1, <3>2
  <2> QED BY <2>1 DEF FilesAreTrue, IsContract
<1>11. NumbersAreUnique'
  BY <1>1, <1>4 DEF FilesInv, NumbersAreUnique
<1>12. EverythingIsMade'
  BY <1>1, <1>3 DEF FilesInv, EverythingIsMade
<1>13. \A s, u : MadeTwice(s, u)' <=> MadeTwice(s, u)
  BY <1>3 DEF MadeTwice
<1>14. \A i \in 1..Len(f0.stmts) : \A s : ~MadeTwice(f0.stmts[i], s) /\ ~MadeTwice(s, f0.stmts[i])
  BY <1>8 DEF MadeTwice, Creates, Writes
<1>15. NothingIsMadeTwice'
  <2>1. ASSUME NEW f \in files', NEW g \in files', NEW i \in 1..Len(f.stmts), NEW j \in 1..Len(g.stmts),
               MadeTwice(f.stmts[i], g.stmts[j])
        PROVE  f = g /\ i = j
    <3>1. f \in files /\ g \in files
      BY <1>1, <1>14, <2>1
    <3> QED BY <2>1, <3>1 DEF FilesInv, NothingIsMadeTwice
  <2> QED BY <1>13, <2>1 DEF NothingIsMadeTwice
<1>16. MigrationsAreOrdered'
  <2>1. ASSUME NEW f \in files, NEW t, CreatedBefore(f, t) PROVE CreatedBefore(f, t)'
    BY <1>1, <2>1 DEF CreatedBefore
  <2>2. ASSUME NEW f \in files', NEW i \in 1..Len(f.stmts)
        PROVE /\ f.stmts[i].k = "create" => \A t \in Targets(f.stmts[i].schema) :
                                              CreatedBefore(f, t)' \/ CreatedAbove(f, i, t)
              /\ f.stmts[i].k = "add" => CreatedBefore(f, f.stmts[i].table)'
    <3>1. CASE f = f0
      BY <1>8, <3>1
    <3>2. CASE f \in files
      BY <2>1, <3>2 DEF FilesInv, MigrationsAreOrdered
    <3> QED BY <1>1, <3>1, <3>2
  <2> QED BY <2>2 DEF MigrationsAreOrdered, CreatedAbove
<1>17. DatabasesInv'
  <2>1. ASSUME NEW d \in DOMAIN db', NEW x, x = db'[d]
        PROVE  /\ IsDatabase(x) /\ OnlyDeclared(x)' /\ CreatedWhole(x)' /\ NullsAreColumns(x)'
               /\ AppliedIsMade(x)' /\ (d \in Transactional => OnlyApplied(x)')
    <3>1. IsDatabase(x) /\ OnlyDeclared(x) /\ CreatedWhole(x) /\ NullsAreColumns(x)
          /\ AppliedIsMade(x) /\ (d \in Transactional => OnlyApplied(x))
      BY <1>1, <2>1 DEF DatabasesInv, Sound
    <3>2. OnlyDeclared(x)'
      BY <1>2, <1>3, <3>1 DEF OnlyDeclared
    <3>3. CreatedWhole(x)'
      BY <1>1, <1>8, <3>1 DEF CreatedWhole, Creates
    <3>4. AppliedIsMade(x)'
      BY <1>1, <1>8, <3>1 DEF AppliedIsMade, Made
    <3>5. d \in Transactional => OnlyApplied(x)'
      BY <1>1, <3>1 DEF OnlyApplied
    <3>6. NullsAreColumns(x)'
      BY <1>2, <3>1 DEF NullsAreColumns, Added
    <3> QED BY <3>1, <3>2, <3>3, <3>4, <3>5, <3>6
  <2> QED BY <2>1 DEF DatabasesInv, Sound, IsDatabase, OnlyDeclared, CreatedWhole, NullsAreColumns, AppliedIsMade, OnlyApplied
<1>18. FilesInv'
  BY <1>10, <1>11, <1>12, <1>15, <1>16 DEF FilesInv
<1> QED BY <1>9, <1>17, <1>18

\* A schema that is not refused still has what the old one had.
LEMMA AcceptedHolds ==
  ASSUME NEW old, NEW new, ~SchemaRefused(old, new), NEW t \in DOMAIN old
  PROVE  /\ t \in DOMAIN new
         /\ \A c : \A type : Holds(old, t, c, type) => Holds(new, t, c, type)
<1>1. t \in DOMAIN new /\ ~TableRefused(old, new, t)
  BY DEF SchemaRefused
<1>2. ASSUME NEW c \in DOMAIN old[t].cols PROVE c \in DOMAIN new[t].cols /\ new[t].cols[c] = old[t].cols[c]
  <2>1. c \in DOMAIN new[t].cols
    BY <1>1 DEF TableRefused
  <2>2. c \in KeptColumns(old, new, t)
    BY <2>1 DEF KeptColumns
  <2> QED BY <1>1, <2>1, <2>2 DEF TableRefused
<1> QED BY <1>1, <1>2 DEF Holds

\* What the statements of a migration make is new.
LEMMA FreshIs ==
  ASSUME NEW old, NEW new, NEW q, MigrationOf(q, old, new), NEW i \in 1..Len(q), NEW t
  PROVE  /\ Creates(q[i], t) => t \in DOMAIN new \ DOMAIN old /\ q[i] = Create(t, new[t])
         /\ \A c : Writes(q[i], t, c) =>
              \/ t \in DOMAIN new \ DOMAIN old /\ q[i] = Create(t, new[t]) /\ c \in DOMAIN new[t].cols
              \/ /\ t \in DOMAIN old \cap DOMAIN new /\ c \in AddedColumns(old, new, t)
                 /\ q[i] = AddColumn(t, c, new[t].cols[c])
<1> DEFINE s == q[i]
<1>1. CASE \E u \in DOMAIN new \ DOMAIN old : s = Create(u, new[u])
  <2>1. PICK u \in DOMAIN new \ DOMAIN old : s = Create(u, new[u])
    BY <1>1
  <2>2. s.k = "create" /\ s.table = u /\ s.schema = new[u]
    BY <2>1, StatementFields
  <2> QED BY <2>1, <2>2 DEF Creates, Writes
<1>2. CASE \E u \in DOMAIN old \cap DOMAIN new : \E c \in AddedColumns(old, new, u) : s = AddColumn(u, c, new[u].cols[c])
  <2>1. PICK u \in DOMAIN old \cap DOMAIN new : \E c \in AddedColumns(old, new, u) : s = AddColumn(u, c, new[u].cols[c])
    BY <1>2
  <2>2. PICK c \in AddedColumns(old, new, u) : s = AddColumn(u, c, new[u].cols[c])
    BY <2>1
  <2>3. s.k = "add" /\ s.table = u /\ s.column = c
    BY <2>2, StatementFields
  <2> QED BY <2>2, <2>3 DEF Creates, Writes
<1> QED BY <1>1, <1>2 DEF MigrationOf

\* The statements of a migration are true of the new schema.
LEMMA FreshIsTrue ==
  ASSUME NEW old, NEW new, NEW q, MigrationOf(q, old, new), NEW i \in 1..Len(q)
  PROVE  \/ /\ q[i].k = "create" /\ q[i].table \in DOMAIN new /\ q[i].schema = new[q[i].table]
            /\ q[i] = Create(q[i].table, new[q[i].table])
         \/ /\ q[i].k = "add" /\ q[i].table \in DOMAIN old \cap DOMAIN new
            /\ Holds(new, q[i].table, q[i].column, q[i].type)
            /\ q[i].column \in AddedColumns(old, new, q[i].table)
<1> DEFINE s == q[i]
<1>1. CASE \E u \in DOMAIN new \ DOMAIN old : s = Create(u, new[u])
  <2>1. PICK u \in DOMAIN new \ DOMAIN old : s = Create(u, new[u])
    BY <1>1
  <2>2. s.k = "create" /\ s.table = u /\ s.schema = new[u]
    BY <2>1, StatementFields
  <2> QED BY <2>1, <2>2
<1>2. CASE \E u \in DOMAIN old \cap DOMAIN new : \E c \in AddedColumns(old, new, u) : s = AddColumn(u, c, new[u].cols[c])
  <2>1. PICK u \in DOMAIN old \cap DOMAIN new : \E c \in AddedColumns(old, new, u) : s = AddColumn(u, c, new[u].cols[c])
    BY <1>2
  <2>2. PICK c \in AddedColumns(old, new, u) : s = AddColumn(u, c, new[u].cols[c])
    BY <2>1
  <2>3. s.k = "add" /\ s.table = u /\ s.column = c /\ s.type = new[u].cols[c]
    BY <2>2, StatementFields
  <2>4. c \in DOMAIN new[u].cols
    BY DEF AddedColumns
  <2> QED BY <2>3, <2>4 DEF Holds
<1> QED BY <1>1, <1>2 DEF MigrationOf

LEMMA BuildKeeps ==
  ASSUME EvolutionInv, Build
  PROVE  EvolutionInv'
<1> USE DEF EvolutionInv
<1> DEFINE old == manifest.tables
           new == Schema[source]
<1>a. PICK M : M = DiffSchema(old, new)
  OBVIOUS
<1>b. PICK f0 : f0 = MigrationFile(manifest.seq, M)
  OBVIOUS
<1> DEFINE F == IF M = <<>> THEN {} ELSE {f0}
           N == Len(M)
<1>1. /\ ~SchemaRefused(old, new)
      /\ files' = files \cup F
      /\ manifest' = [tables |-> new, records |-> Shapes[source], seq |-> manifest.seq + Cardinality(F)]
      /\ built' = source
      /\ UNCHANGED <<source, baseline, plans, db>>
  BY <1>a, <1>b DEF Build, Refused
<1>2. source \in Revision /\ source \in Relatives /\ WellFormed(new)
  BY SourceIsRelative, SchemaAssumption DEF TypedState
<1>3. MigrationOf(M, old, new)
  <2> HIDE DEF old, new
  <2> QED BY <1>a, <1>2, DiffSchemaIs
<1>4. Relatives' = Relatives
  BY <1>1 DEF Relatives
<1>5. Cardinality(F) \in Nat /\ (M # <<>> => Cardinality(F) = 1)
  <2>1. Cardinality({}) = 0 /\ Cardinality({f0}) = 1
    BY FS_EmptySet, FS_Singleton
  <2> QED BY <2>1
<1>6. /\ manifest'.tables = new /\ manifest'.records = Shapes[source]
      /\ DOMAIN manifest' = {"tables", "records", "seq"}
      /\ manifest'.seq \in Nat /\ manifest.seq <= manifest'.seq
      /\ M # <<>> => manifest.seq < manifest'.seq
  BY <1>1, <1>5 DEF TypedState
<1>7. f0.seq = manifest.seq /\ f0.kind = "migration" /\ f0.plan = <<>> /\ f0.stmts = M
      /\ f0 = MigrationFile(f0.seq, f0.stmts)
  BY <1>b DEF MigrationFile
<1>8. \A t \in DOMAIN old : t \in DOMAIN new /\ \A c : \A type : Holds(old, t, c, type) => Holds(new, t, c, type)
  <2> HIDE DEF old, new
  <2> QED BY <1>1, AcceptedHolds
<1>9. N \in Nat
  BY <1>3 DEF MigrationOf
<1>10. \A f \in files' : f \in files \/ (f = f0 /\ M # <<>>)
  BY <1>1
<1>11. \A i \in 1..N : f0 \in files'
  <2>1. 1..N # {} => M # <<>>
    BY <1>9
  <2> QED BY <1>1, <2>1
<1>12. files \subseteq files'
  BY <1>1
<1>13. ManifestIsBuilt' /\ TypedState'
  <2>1. built' # None
    BY <1>1, <1>2, RevisionAssumption
  <2>2. ManifestIsBuilt'
    BY <1>1, <1>6, <2>1 DEF ManifestIsBuilt
  <2>3. TypedState'
    BY <1>1, <1>2, <1>4, <1>6 DEF TypedState
  <2> QED BY <2>2, <2>3
<1> HIDE DEF old, new, F
<1>14. \A t \in DOMAIN old : \A c \in DOMAIN old[t].cols : t \in DOMAIN new /\ c \in DOMAIN new[t].cols
  BY <1>8 DEF Holds
<1>15. FilesAreTrue'
  <2>1. ASSUME NEW f \in files PROVE IsMigration(f) => IsMigration(f)'
    <3>1. f.seq \in Nat /\ (f.seq < manifest.seq => f.seq < manifest'.seq)
      BY <1>6 DEF FilesInv, FilesAreTrue, TypedState
    <3>2. ASSUME NEW s, TrueCreate(s) PROVE TrueCreate(s)'
      <4>1. s.table \in DOMAIN old /\ \A c \in DOMAIN s.schema.cols : Holds(old, s.table, c, s.schema.cols[c])
        BY <3>2 DEF TrueCreate, old
      <4>2. s.table \in DOMAIN new /\ \A c \in DOMAIN s.schema.cols : Holds(new, s.table, c, s.schema.cols[c])
        BY <1>8, <4>1
      <4>3. s.k = "create" /\ \E r \in Relatives : s.table \in DOMAIN Schema[r] /\ s.schema = Schema[r][s.table]
        BY <3>2 DEF TrueCreate
      <4> QED BY <1>4, <1>6, <4>2, <4>3 DEF TrueCreate
    <3>3. ASSUME NEW s, TrueAdd(s) PROVE TrueAdd(s)'
      <4>1. /\ s.k = "add" /\ s.table \in DOMAIN old /\ Holds(old, s.table, s.column, s.type)
            /\ Added(s.table, s.column)
        BY <3>3 DEF TrueAdd, Holds, old
      <4> QED BY <1>4, <1>6, <1>8, <4>1 DEF TrueAdd, Added
    <3> QED BY <3>1, <3>2, <3>3 DEF IsMigration
  <2>2. ASSUME M # <<>> PROVE IsMigration(f0)'
    <3>1. ASSUME NEW i \in 1..N PROVE TrueCreate(M[i])' \/ TrueAdd(M[i])'
      <4> DEFINE s == M[i]
      <4>1. CASE s.k = "create" /\ s.table \in DOMAIN new /\ s.schema = new[s.table]
        <5>1. \A c \in DOMAIN s.schema.cols : Holds(new, s.table, c, s.schema.cols[c])
          BY <4>1 DEF Holds
        <5>2. \E r \in Relatives : s.table \in DOMAIN Schema[r] /\ s.schema = Schema[r][s.table]
          BY <1>2, <4>1 DEF new
        <5> HIDE DEF s
        <5>3. TrueCreate(s)'
          BY <1>4, <1>6, <4>1, <5>1, <5>2 DEF TrueCreate
        <5> QED BY <5>3 DEF s
      <4>2. CASE /\ s.k = "add" /\ Holds(new, s.table, s.column, s.type)
                 /\ s.table \in DOMAIN old \cap DOMAIN new /\ s.column \in AddedColumns(old, new, s.table)
        <5>1. built # None /\ old = Schema[built]
          BY <4>2 DEF ManifestIsBuilt, old
        <5>2. <<built, source>> \in Relatives \X Relatives
          BY <1>2, <5>1 DEF TypedState
        <5>3. Added(s.table, s.column)
          BY <1>1, <4>2, <5>1, <5>2 DEF Added, AddedIn, new
        <5> HIDE DEF s
        <5>4. TrueAdd(s)'
          BY <1>4, <1>6, <4>2, <5>3 DEF TrueAdd, Added
        <5> QED BY <5>4 DEF s
      <4> QED BY <1>3, <4>1, <4>2, FreshIsTrue
    <3>2. f0.seq < manifest'.seq
      BY <1>6, <1>7, <2>2
    <3> QED BY <1>7, <3>1, <3>2 DEF IsMigration
  <2>3. ASSUME NEW f \in files' PROVE f.seq \in Nat /\ Len(f.stmts) \in Nat /\ (IsMigration(f)' \/ IsContract(f))
    <3>1. CASE f \in files
      BY <2>1, <3>1 DEF FilesInv, FilesAreTrue
    <3>2. CASE f = f0 /\ M # <<>>
      BY <1>7, <1>9, <2>2, <3>2 DEF TypedState
    <3> QED BY <1>10, <3>1, <3>2
  <2> QED BY <2>3 DEF FilesAreTrue, IsContract
<1>16. \A f \in files : f.kind = "migration" => f.seq < manifest.seq
  BY DEF FilesInv, FilesAreTrue, IsMigration, IsContract
<1>17. NumbersAreUnique'
  <2>1. ASSUME NEW f \in files', NEW g \in files', f.kind = "migration", g.kind = "migration", f.seq = g.seq
        PROVE  f = g
    <3>1. \A h \in files : h.kind = "migration" => h.seq # f0.seq
      BY <1>7, <1>16 DEF TypedState, FilesInv, FilesAreTrue
    <3>2. f \in files /\ g \in files => f = g
      BY <2>1 DEF FilesInv, NumbersAreUnique
    <3> QED BY <1>10, <2>1, <3>1, <3>2
  <2> QED BY <2>1 DEF NumbersAreUnique
\* What the new file makes.
<1>18. ASSUME NEW i \in 1..N, NEW t
       PROVE  /\ Creates(M[i], t) => t \in DOMAIN new \ DOMAIN old /\ M[i] = Create(t, new[t])
              /\ \A c : Writes(M[i], t, c) =>
                   \/ t \in DOMAIN new \ DOMAIN old /\ M[i] = Create(t, new[t]) /\ c \in DOMAIN new[t].cols
                   \/ /\ t \in DOMAIN old \cap DOMAIN new /\ c \in AddedColumns(old, new, t)
                      /\ M[i] = AddColumn(t, c, new[t].cols[c])
  BY <1>3, FreshIs
<1>19. EverythingIsMade'
  <2>1. ASSUME NEW t \in DOMAIN new
        PROVE  /\ \E f \in files' : \E i \in 1..Len(f.stmts) : Creates(f.stmts[i], t)
               /\ \A c \in DOMAIN new[t].cols : \E f \in files' : \E i \in 1..Len(f.stmts) : Writes(f.stmts[i], t, c)
    <3>1. CASE t \notin DOMAIN old
      <4>1. PICK i \in 1..N : M[i] = Create(t, new[t])
        BY <1>3, <3>1 DEF MigrationOf
      <4>2. M[i].k = "create" /\ M[i].table = t /\ M[i].schema = new[t]
        BY <4>1, StatementFields
      <4>3. Creates(M[i], t) /\ \A c \in DOMAIN new[t].cols : Writes(M[i], t, c)
        BY <4>2 DEF Creates, Writes
      <4>4. f0 \in files' /\ f0.stmts = M
        BY <1>7, <1>11
      <4> QED BY <4>3, <4>4
    <3>2. CASE t \in DOMAIN old
      <4>1. \E f \in files : \E i \in 1..Len(f.stmts) : Creates(f.stmts[i], t)
        BY <3>2 DEF FilesInv, EverythingIsMade, old
      <4>2. ASSUME NEW c \in DOMAIN new[t].cols
            PROVE  \E f \in files' : \E i \in 1..Len(f.stmts) : Writes(f.stmts[i], t, c)
        <5>1. CASE c \in DOMAIN old[t].cols
          <6>1. \E f \in files : \E i \in 1..Len(f.stmts) : Writes(f.stmts[i], t, c)
            BY <3>2, <5>1 DEF FilesInv, EverythingIsMade, old
          <6> QED BY <1>12, <6>1
        <5>2. CASE c \notin DOMAIN old[t].cols
          <6>1. c \in AddedColumns(old, new, t)
            BY <5>2 DEF AddedColumns
          <6>2. PICK i \in 1..N : M[i] = AddColumn(t, c, new[t].cols[c])
            BY <1>3, <3>2, <6>1 DEF MigrationOf
          <6>3. M[i].k = "add" /\ M[i].table = t /\ M[i].column = c
            BY <6>2, StatementFields
          <6>4. Writes(M[i], t, c)
            BY <6>3 DEF Writes
          <6>5. f0 \in files' /\ f0.stmts = M
            BY <1>7, <1>11
          <6> QED BY <6>4, <6>5
        <5> QED BY <5>1, <5>2
      <4> QED BY <1>12, <4>1, <4>2
    <3> QED BY <3>1, <3>2
  <2> QED BY <1>6, <2>1 DEF EverythingIsMade
<1>20. ASSUME NEW f \in files, NEW i \in 1..Len(f.stmts), NEW t
       PROVE  /\ Creates(f.stmts[i], t) => t \in DOMAIN old
              /\ \A c : Writes(f.stmts[i], t, c) => t \in DOMAIN old /\ c \in DOMAIN old[t].cols
              /\ Creates(f.stmts[i], t) => f.kind = "migration" /\ f.seq < manifest.seq
  BY MadeIsRemembered DEF old
<1>21. NothingIsMadeTwice'
  <2>1. ASSUME NEW f \in files', NEW g \in files', NEW i \in 1..Len(f.stmts), NEW j \in 1..Len(g.stmts),
               MadeTwice(f.stmts[i], g.stmts[j])'
        PROVE  f = g /\ i = j
    <3> DEFINE s == f.stmts[i]
               u == g.stmts[j]
    <3>1. \/ \E t : Creates(s, t) /\ Creates(u, t)
          \/ \E t : \E c : Writes(s, t, c) /\ Writes(u, t, c)
      BY <2>1 DEF MadeTwice
    <3>2. CASE f \in files /\ g \in files
      <4>1. MadeTwice(s, u)
        <5>1. CASE \E t : Creates(s, t) /\ Creates(u, t)
          <6>1. PICK t : Creates(s, t) /\ Creates(u, t)
            BY <5>1
          <6>2. t \in DOMAIN manifest.tables
            BY <1>20, <3>2, <6>1 DEF old
          <6> QED BY <6>1, <6>2 DEF MadeTwice
        <5>2. CASE \E t : \E c : Writes(s, t, c) /\ Writes(u, t, c)
          <6>1. PICK t : \E c : Writes(s, t, c) /\ Writes(u, t, c)
            BY <5>2
          <6>2. PICK c : Writes(s, t, c) /\ Writes(u, t, c)
            BY <6>1
          <6>3. t \in DOMAIN manifest.tables /\ c \in DOMAIN manifest.tables[t].cols
            BY <1>20, <3>2, <6>2 DEF old
          <6> QED BY <6>2, <6>3 DEF MadeTwice
        <5> QED BY <3>1, <5>1, <5>2
      <4> QED BY <3>2, <4>1 DEF FilesInv, NothingIsMadeTwice
    \* A file that was there makes what is old, the new one what is not.
    <3>3. ASSUME NEW h \in files, NEW k \in 1..Len(h.stmts), NEW l \in 1..N
          PROVE  /\ \A t : ~(Creates(h.stmts[k], t) /\ Creates(M[l], t))
                 /\ \A t : \A c : ~(Writes(h.stmts[k], t, c) /\ Writes(M[l], t, c))
      <4>1. \A t : ~(Creates(h.stmts[k], t) /\ Creates(M[l], t))
        BY <1>18, <1>20
      <4>2. ASSUME NEW t, NEW c, Writes(h.stmts[k], t, c), Writes(M[l], t, c) PROVE FALSE
        <5>1. t \in DOMAIN old /\ c \in DOMAIN old[t].cols
          BY <1>20, <4>2
        <5>2. c \in AddedColumns(old, new, t)
          BY <1>18, <4>2, <5>1
        <5> QED BY <5>1, <5>2 DEF AddedColumns
      <4> QED BY <4>1, <4>2
    <3>4. CASE f \in files /\ g = f0
      BY <1>7, <3>1, <3>3, <3>4
    <3>5. CASE f = f0 /\ g \in files
      BY <1>7, <3>1, <3>3, <3>5
    <3>6. CASE f = f0 /\ g = f0
      <4>1. s = M[i] /\ u = M[j] /\ i \in 1..N /\ j \in 1..N
        BY <1>7, <3>6
      <4>2. M[i] = M[j]
        <5>1. CASE \E t : Creates(s, t) /\ Creates(u, t)
          BY <1>18, <4>1, <5>1
        <5>2. CASE \E t : \E c : Writes(s, t, c) /\ Writes(u, t, c)
          <6>1. PICK t : \E c : Writes(s, t, c) /\ Writes(u, t, c)
            BY <5>2
          <6>2. PICK c : Writes(s, t, c) /\ Writes(u, t, c)
            BY <6>1
          <6> HIDE DEF s, u
          <6>3. Writes(M[i], t, c) /\ Writes(M[j], t, c)
            BY <4>1, <6>2
          <6> QED BY <1>18, <4>1, <6>3
        <5> QED BY <3>1, <5>1, <5>2
      <4>3. i = j
        BY <1>3, <4>1, <4>2 DEF MigrationOf
      <4> QED BY <3>6, <4>3
    <3> QED BY <1>10, <3>2, <3>4, <3>5, <3>6
  <2> QED BY <2>1 DEF NothingIsMadeTwice
<1>22. MigrationsAreOrdered'
  <2>1. ASSUME NEW f \in files, NEW t, CreatedBefore(f, t) PROVE CreatedBefore(f, t)'
    BY <1>12, <2>1 DEF CreatedBefore
  <2>2. ASSUME NEW t \in DOMAIN old PROVE CreatedBefore(f0, t)'
    <3>1. PICK g \in files : \E j \in 1..Len(g.stmts) : Creates(g.stmts[j], t)
      BY DEF FilesInv, EverythingIsMade, old
    <3>2. g.seq < f0.seq
      BY <1>7, <1>20, <3>1
    <3> QED BY <1>12, <3>1, <3>2 DEF CreatedBefore
  <2>3. ASSUME NEW i \in 1..N
        PROVE /\ M[i].k = "create" => \A t \in Targets(M[i].schema) :
                                        CreatedBefore(f0, t)' \/ CreatedAbove(f0, i, t)
              /\ M[i].k = "add" => CreatedBefore(f0, M[i].table)'
    <3>1. CASE /\ M[i].k = "create" /\ M[i].table \in DOMAIN new /\ M[i].schema = new[M[i].table]
               /\ M[i] = Create(M[i].table, new[M[i].table])
      <4> DEFINE t == M[i].table
      <4>1. ASSUME NEW u \in Targets(new[t]) PROVE CreatedBefore(f0, u)' \/ CreatedAbove(f0, i, u)
        <5>1. u \in DOMAIN old \/ \E j \in 1..(i - 1) : M[j] = Create(u, new[u])
          BY <1>3, <3>1 DEF MigrationOf
        <5>2. ASSUME NEW j \in 1..(i - 1), M[j] = Create(u, new[u]) PROVE CreatedAbove(f0, i, u)
          <6>1. Creates(M[j], u)
            BY <5>2, StatementFields DEF Creates
          <6> QED BY <1>7, <6>1 DEF CreatedAbove
        <5> QED BY <2>2, <5>1, <5>2
      <4> QED BY <3>1, <4>1
    <3>2. CASE M[i].k = "add" /\ M[i].table \in DOMAIN old
      BY <2>2, <3>2
    <3> QED BY <1>3, <3>1, <3>2, FreshIsTrue
  <2>4. ASSUME NEW f \in files', NEW i \in 1..Len(f.stmts)
        PROVE /\ f.stmts[i].k = "create" => \A t \in Targets(f.stmts[i].schema) :
                                              CreatedBefore(f, t)' \/ CreatedAbove(f, i, t)
              /\ f.stmts[i].k = "add" => CreatedBefore(f, f.stmts[i].table)'
    <3>1. CASE f = f0
      BY <1>7, <2>3, <3>1
    <3>2. CASE f \in files
      BY <2>1, <3>2 DEF FilesInv, MigrationsAreOrdered
    <3> QED BY <1>10, <3>1, <3>2
  <2> QED BY <2>4 DEF MigrationsAreOrdered, CreatedAbove
<1>23. FilesInv'
  BY <1>15, <1>17, <1>19, <1>21, <1>22 DEF FilesInv
<1>24. DatabasesInv'
  <2>1. ASSUME NEW d \in DOMAIN db', NEW x, x = db'[d]
        PROVE  /\ IsDatabase(x) /\ OnlyDeclared(x)' /\ CreatedWhole(x)' /\ NullsAreColumns(x)'
               /\ AppliedIsMade(x)' /\ (d \in Transactional => OnlyApplied(x)')
    <3>1. IsDatabase(x) /\ OnlyDeclared(x) /\ CreatedWhole(x) /\ NullsAreColumns(x)
          /\ AppliedIsMade(x) /\ (d \in Transactional => OnlyApplied(x))
      BY <1>1, <2>1 DEF DatabasesInv, Sound
    <3>2. OnlyDeclared(x)'
      <4>1. ASSUME NEW t \in DOMAIN x.tables
            PROVE  /\ t \in DOMAIN new
                   /\ \A c \in DOMAIN x.tables[t].cols : Holds(new, t, c, x.tables[t].cols[c])
        <5>1. t \in DOMAIN old /\ \A c \in DOMAIN x.tables[t].cols : Holds(old, t, c, x.tables[t].cols[c])
          BY <3>1 DEF OnlyDeclared, old
        <5> QED BY <1>8, <5>1
      <4> QED BY <1>4, <1>6, <3>1, <4>1 DEF OnlyDeclared
    <3>3. CreatedWhole(x)'
      <4>1. ASSUME NEW f \in files', NEW i \in 1..Len(f.stmts), NEW t \in DOMAIN x.tables, Creates(f.stmts[i], t)
            PROVE  DOMAIN f.stmts[i].schema.cols \subseteq DOMAIN x.tables[t].cols
        <5>1. CASE f \in files
          BY <3>1, <4>1, <5>1 DEF CreatedWhole
        <5>2. CASE f = f0
          <6>1. t \notin DOMAIN old
            BY <1>7, <1>18, <4>1, <5>2
          <6> QED BY <3>1, <6>1 DEF OnlyDeclared, old
        <5> QED BY <1>10, <5>1, <5>2
      <4> QED BY <4>1 DEF CreatedWhole
    <3>4. Name(f0) \notin x.applied
      <4>1. ASSUME NEW g \in files, Name(g) = Name(f0) PROVE FALSE
        <5>1. g.kind = "migration" /\ g.seq = manifest.seq
          BY <1>7, <4>1 DEF Name
        <5> QED BY <1>16, <5>1 DEF TypedState
      <4> QED BY <3>1, <4>1 DEF AppliedIsMade
    <3>5. AppliedIsMade(x)'
      BY <1>10, <1>12, <3>1, <3>4 DEF AppliedIsMade
    <3>6. d \in Transactional => OnlyApplied(x)'
      BY <1>12, <3>1 DEF OnlyApplied
    <3>7. NullsAreColumns(x)'
      BY <1>4, <3>1 DEF NullsAreColumns, Added
    <3> QED BY <3>1, <3>2, <3>3, <3>5, <3>6, <3>7
  <2> QED BY <2>1 DEF DatabasesInv, Sound, IsDatabase, OnlyDeclared, CreatedWhole, NullsAreColumns, AppliedIsMade, OnlyApplied
<1> QED BY <1>13, <1>23, <1>24

----------------------------------------------------------------------------
(* What the theorems take of the compiler, for the versions at hand.       *)

\* A column that refers to a table in two versions refers to the same one in the same way.
KeysStay == \A p \in Pairs : AgreeOnKeys(Schema[p[1]], Schema[p[2]])

\* What two versions exchange, both remember; and a field that is remembered alike is alike.
SnapshotsTell ==
  \A p \in Pairs : \A e \in Exchanges[p[1]] \cap Exchanges[p[2]] :
    LET old == Shapes[p[1]]
        new == Shapes[p[2]]
        r == e[3]
    IN  /\ r \in DOMAIN old \cap DOMAIN new
        /\ \A f \in DOMAIN Fields[p[1]][r] :
             /\ f \in DOMAIN old[r]
             /\ f \in DOMAIN new[r] /\ new[r][f] = old[r][f] =>
                  f \in DOMAIN Fields[p[2]][r] /\ Fields[p[2]][r][f] = Fields[p[1]][r][f]

\* The diff asks to backfill a column that was added, unless it is a reference.
AddedAreOffered ==
  \A p \in Pairs : \A t \in Followers[p] \cap DOMAIN Schema[p[1]] \cap DOMAIN Schema[p[2]] :
    \A c \in AddedColumns(Schema[p[1]], Schema[p[2]], t) :
      <<t, c>> \in Backfills[p] \/ c \in DOMAIN Schema[p[2]][t].fks

\* A column that a build added is a reference in no version of the program.
AddedStayPlain ==
  \A f \in Families : \A r \in f : \A t \in DOMAIN Schema[r] : \A c \in DOMAIN Schema[r][t].fks :
    ~\E p \in f \X f : AddedIn(p, t, c)

----------------------------------------------------------------------------
(* The theorems.                                                           *)

LEMMA NextKeeps ==
  ASSUME EvolutionInv, [Next]_vars
  PROVE  EvolutionInv'
<1>1. baseline \in Relatives \cup {None} /\ source \in Relatives
  BY SourceIsRelative DEF EvolutionInv, TypedState
<1>2. ASSUME NEW r \in Revision, Edit(r) PROVE EvolutionInv'
  BY <1>2, EditKeeps
<1>3. CASE Build
  BY <1>3, BuildKeeps
<1>4. CASE AcceptBaseline
  <2>1. baseline' \in Relatives \cup {None} /\ UNCHANGED <<source, manifest, built, files, db>>
    BY <1>1, <1>4 DEF AcceptBaseline
  <2> QED BY <2>1, StutterKeeps
<1>5. CASE Plan
  <2>1. baseline' \in Relatives \cup {None} /\ UNCHANGED <<source, manifest, built, files, db>>
    BY <1>1, <1>5 DEF Plan
  <2> QED BY <2>1, StutterKeeps
<1>6. ASSUME NEW p \in PlansNow, NEW counted \in BOOLEAN, Contract(p, counted) PROVE EvolutionInv'
  BY <1>6, ContractKeeps
<1>7. ASSUME NEW d \in DOMAIN db, NEW p \in plans, NEW filled \in BOOLEAN, RunScript(d, p, filled)
      PROVE  EvolutionInv'
  BY <1>7, RunScriptKeeps
<1>8. ASSUME NEW d \in DOMAIN db, Migrate(d) PROVE EvolutionInv'
  BY <1>8, MigrateKeeps
<1>9. ASSUME NEW d \in DOMAIN db, MigrateCut(d) PROVE EvolutionInv'
  BY <1>9, MigrateCutKeeps
<1>10. CASE UNCHANGED vars
  <2>1. baseline' \in Relatives \cup {None} /\ UNCHANGED <<source, manifest, built, files, db>>
    BY <1>1, <1>10 DEF vars
  <2> QED BY <2>1, StutterKeeps
<1> QED BY <1>2, <1>3, <1>4, <1>5, <1>6, <1>7, <1>8, <1>9, <1>10 DEF Next

\* The files say what the manifest remembers, each thing once and in an order in which it can
\* be made; and a database holds what the files it has applied have made, whatever builds,
\* edits, refusals and crashes lie behind it (diff_schema, write_migrations, the runners).
THEOREM FilesTellTheSchema == Spec => []EvolutionInv
<1>1. Init => EvolutionInv
  BY InitEstablishes
<1>2. EvolutionInv /\ [Next]_vars => EvolutionInv'
  BY NextKeeps
<1> QED BY <1>1, <1>2, PTL DEF Spec

\* A database that has run every file has the columns of the program last built.
LEMMA SettledHasColumns ==
  ASSUME EvolutionInv, NEW d \in DOMAIN db, Settled(d)
  PROVE  ColumnsOf(db[d].tables) = ColumnsOf(manifest.tables)
<1> DEFINE x == db[d]
           new == manifest.tables
<1>1. Sound(x) /\ AppliedIsMade(x) /\ FilesInv
  BY DEF EvolutionInv, DatabasesInv
<1>2. built # None /\ new = Schema[built]
  BY DEF Settled, EvolutionInv, ManifestIsBuilt
<1>3. \A t \in DOMAIN new : new[t].cols = [c \in DOMAIN new[t].cols |-> new[t].cols[c]]
  <2>1. built \in Relatives
    BY <1>2 DEF EvolutionInv, TypedState
  <2> QED BY <1>2, <2>1, SchemaTables DEF IsTable
<1>4. ASSUME NEW f \in files, NEW i \in 1..Len(f.stmts) PROVE Made(f.stmts[i], x.tables)
  <2>1. Name(f) \in x.applied
    BY DEF Settled, Pending
  <2> QED BY <1>1, <2>1 DEF AppliedIsMade
<1> HIDE DEF x
<1>5. DOMAIN x.tables = DOMAIN new
  <2>1. DOMAIN x.tables \subseteq DOMAIN new
    BY <1>1 DEF Sound, OnlyDeclared
  <2>2. ASSUME NEW t \in DOMAIN new PROVE t \in DOMAIN x.tables
    <3>1. PICK f \in files : \E i \in 1..Len(f.stmts) : Creates(f.stmts[i], t)
      BY <1>1 DEF FilesInv, EverythingIsMade
    <3>2. PICK i \in 1..Len(f.stmts) : Creates(f.stmts[i], t)
      BY <3>1
    <3> QED BY <1>4, <3>2 DEF Made, Creates
  <2> QED BY <2>1, <2>2
<1>6. ASSUME NEW t \in DOMAIN new PROVE x.tables[t].cols = new[t].cols
  <2> DEFINE a == x.tables[t].cols
             b == new[t].cols
  <2>1. a = [c \in DOMAIN a |-> a[c]] /\ b = [c \in DOMAIN b |-> b[c]]
    BY <1>1, <1>3, <1>5 DEF Sound, IsDatabase
  <2>2. \A c \in DOMAIN a : c \in DOMAIN b /\ b[c] = a[c]
    BY <1>1, <1>5 DEF Sound, OnlyDeclared, Holds
  <2>3. ASSUME NEW c \in DOMAIN b PROVE c \in DOMAIN a
    <3>1. PICK f \in files : \E i \in 1..Len(f.stmts) : Writes(f.stmts[i], t, c)
      BY <1>1 DEF FilesInv, EverythingIsMade
    <3>2. PICK i \in 1..Len(f.stmts) : Writes(f.stmts[i], t, c)
      BY <3>1
    <3>3. Made(f.stmts[i], x.tables)
      BY <1>4
    <3> QED BY <3>2, <3>3 DEF Made, Writes
  <2> HIDE DEF a, b
  <2>4. DOMAIN a = DOMAIN b
    BY <2>2, <2>3
  <2>5. a = b
    BY <2>1, <2>2, <2>4
  <2> QED BY <2>5 DEF a, b
<1> HIDE DEF new
<1>7. ColumnsOf(x.tables) = ColumnsOf(new)
  BY <1>5, <1>6 DEF ColumnsOf
<1> QED BY <1>7 DEF x, new

\* The next migration of a database that applies whole files is one that works.
LEMMA NextMigrationWorks ==
  ASSUME EvolutionInv, NEW d \in DOMAIN db, d \in Transactional, NEW f \in files, IsFirst(f, d), f.kind = "migration"
  PROVE  Apply(f, d).ok
<1> DEFINE x == db[d]
<1>1. Sound(x) /\ AppliedIsMade(x) /\ OnlyApplied(x) /\ FilesInv
  BY DEF EvolutionInv, DatabasesInv
<1>2. Name(f) \notin x.applied
  BY DEF IsFirst, Pending
<1>3. \A g \in files : g.seq < f.seq => Name(g) \in x.applied
  BY DEF IsFirst, Pending, Before
<1> HIDE DEF x
<1>4. Executed(f, x)[Len(f.stmts)].ok
  BY <1>1, <1>2, <1>3, RunWorks
<1> QED BY <1>4 DEF Apply, x

\* No database enforces a reference that the program declares in another way.
LEMMA KeysAgree ==
  ASSUME EvolutionInv, KeysStay, NEW d \in DOMAIN db
  PROVE  AgreeOnKeys(db[d].tables, manifest.tables)
<1> DEFINE x == db[d]
           new == manifest.tables
<1>1. Sound(x)
  BY DEF EvolutionInv, DatabasesInv
<1>2. CASE built = None
  <2>1. DOMAIN new = {}
    BY <1>2 DEF EvolutionInv, ManifestIsBuilt
  <2> QED BY <2>1 DEF AgreeOnKeys
<1>3. CASE built # None
  <2>1. built \in Relatives /\ new = Schema[built]
    BY <1>3 DEF EvolutionInv, TypedState, ManifestIsBuilt
  <2>2. ASSUME NEW t \in DOMAIN x.tables \cap DOMAIN new, NEW c \in DOMAIN x.tables[t].fks \cap DOMAIN new[t].fks
        PROVE  x.tables[t].fks[c] = new[t].fks[c]
    <3>1. PICK r \in Relatives : t \in DOMAIN Schema[r] /\ x.tables[t].fks = Schema[r][t].fks
      BY <1>1 DEF Sound, OnlyDeclared
    <3>2. <<r, built>> \in Pairs
      BY <2>1, RelativesArePairs
    <3>3. AgreeOnKeys(Schema[r], Schema[built])
      BY <3>2 DEF KeysStay
    <3> QED BY <2>1, <2>2, <3>1, <3>3 DEF AgreeOnKeys
  <2> QED BY <2>2 DEF AgreeOnKeys
<1> QED BY <1>2, <1>3

\* What does not depend on the references: a settled database has the columns of the program
\* last built, with their types, and the next migration works (diff_schema, order_new_tables,
\* the runners' order of files).
ColumnsCatchUp ==
  \A d \in DOMAIN db :
    /\ Settled(d) => ColumnsOf(db[d].tables) = ColumnsOf(manifest.tables)
    /\ d \in Transactional =>
         \A f \in files : IsFirst(f, d) /\ f.kind = "migration" => Apply(f, d).ok

\* For any programs and any history, databases that run every file hold the columns of the
\* last build, and those that apply files whole are never stuck.
THEOREM ColumnsAlwaysCatchUp == Spec => []ColumnsCatchUp
<1>1. EvolutionInv => ColumnsCatchUp
  BY SettledHasColumns, NextMigrationWorks DEF ColumnsCatchUp
<1> QED BY <1>1, FilesTellTheSchema, PTL

\* Where a column that is a reference in two versions refers to the same table, databases
\* catch up with the keys as well (diff_schema compares with the last build only).
THEOREM SchemasCatchUp == ASSUME KeysStay PROVE Spec => []SchemaCatchesUp
<1>1. EvolutionInv => SchemaCatchesUp
  BY SettledHasColumns, NextMigrationWorks, KeysAgree DEF SchemaCatchesUp
<1> QED BY <1>1, FilesTellTheSchema, PTL

\* Where two versions remember what they exchange, no build breaks the reader of another
\* service (diff_records, snapshot_boundary_records).
THEOREM DeploysAreReadable == ASSUME SnapshotsTell PROVE Spec => DeploysStayReadable
<1> DEFINE Readable ==
      built # None /\ manifest' # manifest =>
        \A e \in Exchanges[built] \cap Exchanges[built'] :
          \A f \in DOMAIN Fields[built][e[3]] :
            /\ f \in DOMAIN Fields[built'][e[3]]
            /\ Fields[built'][e[3]][f] = Fields[built][e[3]][f]
<1>1. EvolutionInv /\ [Next]_vars => [Readable]_vars
  <2> SUFFICES ASSUME EvolutionInv, Next, built # None, manifest' # manifest PROVE Readable
    OBVIOUS
  <2>1. CASE built' = built
    BY <2>1
  <2>2. CASE Build
    <3>1. built' = source /\ DiffRecordShapes(manifest.records, Shapes[source]) = {}
      BY <2>2 DEF Build, Refused
    <3>2. manifest.records = Shapes[built] /\ <<built, source>> \in Pairs
      <4>1. built \in Relatives /\ source \in Relatives
        BY SourceIsRelative DEF EvolutionInv, TypedState
      <4> QED BY <4>1, RelativesArePairs DEF EvolutionInv, ManifestIsBuilt
    <3>3. ASSUME NEW e \in Exchanges[built] \cap Exchanges[source], NEW f \in DOMAIN Fields[built][e[3]]
          PROVE  /\ f \in DOMAIN Fields[source][e[3]]
                 /\ Fields[source][e[3]][f] = Fields[built][e[3]][f]
      <4> DEFINE old == Shapes[built]
                 new == Shapes[source]
                 r == e[3]
      <4>1. /\ r \in DOMAIN old \cap DOMAIN new
            /\ f \in DOMAIN old[r]
            /\ f \in DOMAIN new[r] /\ new[r][f] = old[r][f] =>
                 f \in DOMAIN Fields[source][r] /\ Fields[source][r][f] = Fields[built][r][f]
        <5> DEFINE p == <<built, source>>
        <5>1. p \in Pairs /\ p[1] = built /\ p[2] = source
          BY <3>2
        <5> HIDE DEF p
        <5>2. e \in Exchanges[p[1]] \cap Exchanges[p[2]]
          BY <5>1
        <5> QED BY <5>1, <5>2 DEF SnapshotsTell
      <4> HIDE DEF old, new, r
      <4>2. f \in DOMAIN new[r] /\ new[r][f] = old[r][f]
        <5>1. DiffRecordShapes(old, new) = {}
          BY <3>1, <3>2 DEF old, new
        <5> DEFINE bad == {g \in DOMAIN old[r] : g \notin DOMAIN new[r] \/ new[r][g] # old[r][g]}
        <5>2. {<<r, g>> : g \in bad} \subseteq DiffRecordShapes(old, new)
          BY <4>1 DEF DiffRecordShapes
        <5>3. f \notin bad
          BY <5>1, <5>2
        <5> QED BY <4>1, <5>3
      <4> QED BY <4>1, <4>2 DEF r
    <3> QED BY <3>1, <3>3
  <2>3. built' = built \/ Build
    <3>1. \A r : Edit(r) => built' = built
      BY DEF Edit
    <3>2. AcceptBaseline \/ Plan => built' = built
      BY DEF AcceptBaseline, Plan
    <3>3. \A p, counted : Contract(p, counted) => built' = built
      BY DEF Contract
    <3>4. \A d, p, filled : RunScript(d, p, filled) => built' = built
      BY DEF RunScript
    <3>5. \A d : Migrate(d) \/ MigrateCut(d) => built' = built
      BY DEF Migrate, MigrateCut
    <3> QED BY <3>1, <3>2, <3>3, <3>4, <3>5 DEF Next
  <2> QED BY <2>1, <2>2, <2>3
<1>2. DeploysStayReadable <=> [][Readable]_vars
  BY DEF DeploysStayReadable
<1> HIDE DEF Readable
<1> QED BY <1>1, <1>2, FilesTellTheSchema, PTL DEF Spec

\* Where the diff reports the columns that were added, and none becomes a reference, every
\* column that was left nullable since the baseline is offered a plan (plan_backfills).
THEOREM NullableColumnsAreOffered ==
  ASSUME AddedAreOffered, AddedStayPlain PROVE Spec => []NullableColumnsHavePlans
<1>1. EvolutionInv => NullableColumnsHavePlans
  <2> SUFFICES ASSUME EvolutionInv, baseline # None, built = source, NEW d \in DOMAIN db, NEW n \in db[d].nulls,
                      n[1] \in Followers[<<baseline, source>>] \cap DOMAIN Schema[baseline],
                      n[2] \notin DOMAIN Schema[baseline][n[1]].cols
               PROVE  \E p \in PlansNow : p.table = n[1] /\ p.column = n[2]
    BY DEF NullableColumnsHavePlans
  <2> DEFINE t == n[1]
             c == n[2]
             q == <<baseline, source>>
             p == PlanFor(<<t, c>>)
  <2>1. Sound(db[d])
    BY DEF EvolutionInv, DatabasesInv
  <2>2. /\ n = <<t, c>> /\ t \in DOMAIN db[d].tables /\ c \in DOMAIN db[d].tables[t].cols
        /\ Added(t, c)
    BY <2>1 DEF Sound, NullsAreColumns
  <2>3. built \in Relatives /\ source \in Relatives /\ baseline \in Relatives /\ built # None
    BY SourceIsRelative, RevisionAssumption DEF EvolutionInv, TypedState
  <2>4. manifest.tables = Schema[source]
    BY <2>3 DEF EvolutionInv, ManifestIsBuilt
  <2>5. t \in DOMAIN Schema[source] /\ c \in DOMAIN Schema[source][t].cols
    BY <2>1, <2>2, <2>4 DEF Sound, OnlyDeclared, Holds
  <2>6. q \in Pairs /\ q[1] = baseline /\ q[2] = source
    BY <2>3, RelativesArePairs
  <2>7. c \notin DOMAIN Schema[source][t].fks
    <3>1. PICK o \in Relatives \X Relatives : AddedIn(o, t, c)
      BY <2>2 DEF Added
    <3>2. PICK f \in Families : source \in f
      BY <2>3 DEF Relatives
    <3>3. Relatives = f
      BY <3>2, FamiliesAssumption DEF Relatives
    <3> QED BY <2>5, <3>1, <3>2, <3>3 DEF AddedStayPlain
  <2>8. <<t, c>> \in Backfills[q]
    BY <2>5, <2>6, <2>7 DEF AddedAreOffered, AddedColumns
  <2>9. p.table = t /\ p.column = c
    BY DEF PlanFor
  <2>10. p \in PlansNow
    BY <2>4, <2>5, <2>8, <2>9 DEF PlansNow, Expanded
  <2> QED BY <2>9, <2>10
<1> QED BY <1>1, FilesTellTheSchema, PTL
=============================================================================
