---------------------------- MODULE CyclesProofs ----------------------------
(***************************************************************************)
(* Both searches for cycles are exact, on every graph: they come to an     *)
(* end, what they report is a cycle, and where they report nothing there   *)
(* is none.                                                                *)
(***************************************************************************)
EXTENDS Cycles, FiniteSetTheorems, SequenceTheorems, NaturalsInduction, WellFoundedInduction, TLAPS

Nodes(out)   == 1..Len(out)
IsGraph(out) == out \in Seq(Seq(Nodes(out)))

\* A cycle is a list of nodes, each followed by the next one and the last by the first.
Follows(out, a, b) == \E k \in DOMAIN out[a] : out[a][k] = b
IsCycle(out, c) ==
  /\ c \in Seq(Nodes(out))
  /\ c # <<>>
  /\ \A j \in 1..Len(c) : Follows(out, c[j], c[IF j = Len(c) THEN 1 ELSE j + 1])

----------------------------------------------------------------------------
(* The invariant of a search. *)

Typed(out, s) ==
  /\ s \in [next : 1..(Len(out) + 1), stack : Seq([node : Nodes(out), at : Nat]),
            black : SUBSET Nodes(out), found : Seq(Seq(Nodes(out)))]
  /\ \A i \in DOMAIN s.stack : s.stack[i].at \in 1..(Len(out[s.stack[i].node]) + 1)

\* A node has one colour, and is on the stack once.
OneColour(s) ==
  /\ \A i, j \in DOMAIN s.stack : s.stack[i].node = s.stack[j].node => i = j
  /\ \A i \in DOMAIN s.stack : s.stack[i].node \notin s.black

\* The stack is a path, along the edges that were followed last.
IsPath(out, s) ==
  \A i \in 1..(Len(s.stack) - 1) :
    /\ s.stack[i].at > 1
    /\ out[s.stack[i].node][s.stack[i].at - 1] = s.stack[i + 1].node

StartsPassed(s) == \A n \in 1..(s.next - 1) : n \in s.black \cup Grey(s)

RingsAreCycles(out, s) == \A i \in DOMAIN s.found : IsCycle(out, s.found[i])

\* As long as nothing is found, what was followed leads to black nodes, or up the stack; ...
Explored(out, s) ==
  /\ \A n \in s.black : \A k \in DOMAIN out[n] : out[n][k] \in s.black
  /\ \A i \in DOMAIN s.stack : \A k \in 1..(s.stack[i].at - 1) :
       \/ out[s.stack[i].node][k] \in s.black
       \/ i < Len(s.stack) /\ out[s.stack[i].node][k] = s.stack[i + 1].node

\* ... and the black nodes have no cycle: of any of them, one has no successor among them.
NoRing(out, s) ==
  \A C \in SUBSET s.black : C # {} => \E n \in C : \A k \in DOMAIN out[n] : out[n][k] \notin C

SearchInv(out, s) ==
  /\ Typed(out, s)
  /\ OneColour(s)
  /\ IsPath(out, s)
  /\ StartsPassed(s)
  /\ RingsAreCycles(out, s)
  /\ s.found = <<>> => Explored(out, s) /\ NoRing(out, s)

\* What is left to do: starts, nodes to enter and to leave, edges to follow.
White(out, s) == Nodes(out) \ (s.black \cup Grey(s))
Ahead(out, s) ==
  {e \in Edges(out) : /\ e[1] \notin s.black
                      /\ \A i \in DOMAIN s.stack : s.stack[i].node = e[1] => e[2] >= s.stack[i].at}
Left(out, s) ==
  (Len(out) + 1 - s.next) + Cardinality(White(out, s)) + Cardinality(Nodes(out) \ s.black)
    + Cardinality(Ahead(out, s))


\* A sequence, taken apart; and a graph, which is one of sequences.
LEMMA SeqIs ==
  ASSUME NEW S, NEW q \in Seq(S)
  PROVE  /\ Len(q) \in Nat /\ DOMAIN q = 1..Len(q) /\ \A i \in 1..Len(q) : q[i] \in S
         /\ q # <<>> => Len(q) >= 1
<1>1. Len(q) \in Nat /\ DOMAIN q = 1..Len(q) /\ \A i \in 1..Len(q) : q[i] \in S
  OBVIOUS
<1>2. q # <<>> => Len(q) \in Nat \ {0}
  BY EmptySeq
<1> QED BY <1>1, <1>2

LEMMA GraphIs ==
  ASSUME NEW out, IsGraph(out)
  PROVE  /\ Len(out) \in Nat /\ DOMAIN out = Nodes(out)
         /\ \A n \in Nodes(out) :
              /\ Len(out[n]) \in Nat /\ DOMAIN out[n] = 1..Len(out[n])
              /\ \A k \in 1..Len(out[n]) : out[n][k] \in Nodes(out)
<1>1. Len(out) \in Nat /\ DOMAIN out = 1..Len(out) /\ \A n \in 1..Len(out) : out[n] \in Seq(1..Len(out))
  BY DEF IsGraph, Nodes
<1>2. ASSUME NEW n \in Nodes(out)
      PROVE  /\ Len(out[n]) \in Nat /\ DOMAIN out[n] = 1..Len(out[n])
             /\ \A k \in 1..Len(out[n]) : out[n][k] \in Nodes(out)
  BY <1>1, <1>2 DEF Nodes
<1> QED BY <1>1, <1>2 DEF Nodes

\* The smallest member of a set of naturals.
LEMMA Smallest ==
  ASSUME NEW T \in SUBSET Nat, T # {}
  PROVE  \E m \in T : \A k \in T : m <= k
<1> DEFINE LT == {ss \in Nat \X Nat : ss[1] < ss[2]}
<1>1. IsWellFoundedOn(LT, Nat)
  BY NatLessThanWellFounded DEF OpToRel
<1> HIDE DEF LT
<1>2. PICK m \in T : \A k \in T : ~(<<k, m>> \in LT)
  BY <1>1, WFMin
<1>3. ASSUME NEW k \in T PROVE m <= k
  <2>1. <<k, m>> \in Nat \X Nat /\ <<k, m>>[1] = k /\ <<k, m>>[2] = m
    OBVIOUS
  <2>2. ~(k < m)
    BY <1>2, <2>1 DEF LT
  <2> QED BY <2>2
<1> QED BY <1>3

\* What holds of 0 and of the successor of each number below N that it holds of, holds up to N.
LEMMA UpTo ==
  ASSUME NEW N \in Nat, NEW G, 0 \in G, \A n \in 1..N : n - 1 \in G => n \in G
  PROVE  0..N \subseteq G
<1> DEFINE T == {n \in 0..N : n \notin G}
<1> SUFFICES ASSUME T # {} PROVE FALSE
  OBVIOUS
<1>1. PICK m \in T : \A k \in T : m <= k
  <2>1. T \in SUBSET Nat
    OBVIOUS
  <2> HIDE DEF T
  <2> QED BY <2>1, Smallest
<1>2. m # 0 /\ m \in 1..N /\ m - 1 \in 0..N /\ ~(m <= m - 1)
  BY <1>1
<1> QED BY <1>1, <1>2

\* A graph has finitely many edges: node by node.
LEMMA EdgesAreFinite ==
  ASSUME NEW out, IsGraph(out)
  PROVE  IsFiniteSet(Edges(out)) /\ Cardinality(Edges(out)) \in Nat
<1> DEFINE upto(n) == UNION {{m} \X DOMAIN out[m] : m \in 1..n}
           G == {n \in 0..Len(out) : IsFiniteSet(upto(n))}
<1>1. Len(out) \in Nat /\ DOMAIN out = 1..Len(out)
  BY GraphIs DEF Nodes
<1>2. 0 \in G
  <2>1. upto(0) = {}
    OBVIOUS
  <2> QED BY <2>1, <1>1, FS_EmptySet
<1>3. ASSUME NEW n \in 1..Len(out), n - 1 \in G PROVE n \in G
  <2>1. upto(n) = upto(n - 1) \cup ({n} \X DOMAIN out[n])
    <3>1. 1..n = 1..(n - 1) \cup {n}
      BY <1>1
    <3> QED BY <3>1
  <2>2. IsFiniteSet({n} \X DOMAIN out[n])
    <3>1. Len(out[n]) \in Nat /\ DOMAIN out[n] = 1..Len(out[n])
      BY GraphIs DEF Nodes
    <3>2. 1 \in Int /\ Len(out[n]) \in Int
      BY <3>1
    <3>3. IsFiniteSet(DOMAIN out[n])
      BY <3>1, <3>2, FS_Interval
    <3> QED BY <3>3, FS_Singleton, FS_Product
  <2>3. IsFiniteSet(upto(n - 1))
    BY <1>3
  <2> HIDE DEF upto
  <2>4. IsFiniteSet(upto(n - 1) \cup ({n} \X DOMAIN out[n]))
    BY ONLY <2>2, <2>3, FS_Union
  <2>5. IsFiniteSet(upto(n))
    BY <2>1, <2>4
  <2> QED BY <2>5, <1>1
<1>4. Len(out) \in G
  <2> HIDE DEF G
  <2>1. 0..Len(out) \subseteq G
    BY <1>1, <1>2, <1>3, UpTo
  <2> QED BY <1>1, <2>1
<1>5. Edges(out) = upto(Len(out))
  BY <1>1 DEF Edges
<1> HIDE DEF upto
<1>6. IsFiniteSet(Edges(out))
  BY <1>4, <1>5
<1> QED BY <1>6, FS_CardinalityType

\* A set that loses a member has fewer of them; one that gains none has not more.
LEMMA Fewer ==
  ASSUME NEW S, IsFiniteSet(S), NEW T, T \subseteq S
  PROVE  /\ Cardinality(S) \in Nat /\ Cardinality(T) \in Nat
         /\ Cardinality(T) <= Cardinality(S)
         /\ \A x \in S : x \notin T => Cardinality(T) < Cardinality(S)
<1>1. IsFiniteSet(T) /\ Cardinality(T) <= Cardinality(S) /\ (Cardinality(S) = Cardinality(T) => S = T)
  BY FS_Subset
<1>2. Cardinality(S) \in Nat /\ Cardinality(T) \in Nat
  BY <1>1, FS_CardinalityType
<1> QED BY <1>1, <1>2


LEMMA LeftIs ==
  ASSUME NEW out, IsGraph(out), NEW s, Typed(out, s)
  PROVE  /\ IsFiniteSet(White(out, s)) /\ IsFiniteSet(Nodes(out) \ s.black) /\ IsFiniteSet(Ahead(out, s))
         /\ Left(out, s) \in Nat
<1>1. Len(out) \in Nat
  BY GraphIs
<1>2. IsFiniteSet(Nodes(out))
  <2>1. 1 \in Int /\ Len(out) \in Int
    BY <1>1
  <2> QED BY <2>1, FS_Interval DEF Nodes
<1>3. White(out, s) \subseteq Nodes(out) /\ (Nodes(out) \ s.black) \subseteq Nodes(out)
  BY DEF White
<1>4. Ahead(out, s) \subseteq Edges(out)
  BY DEF Ahead
<1>5. IsFiniteSet(White(out, s)) /\ IsFiniteSet(Nodes(out) \ s.black)
  BY <1>2, <1>3, FS_Subset
<1>6. IsFiniteSet(Ahead(out, s))
  BY <1>4, EdgesAreFinite, FS_Subset
<1>7. /\ Cardinality(White(out, s)) \in Nat /\ Cardinality(Nodes(out) \ s.black) \in Nat
      /\ Cardinality(Ahead(out, s)) \in Nat
  BY <1>5, <1>6, FS_CardinalityType
<1>8. s.next \in 1..(Len(out) + 1)
  BY DEF Typed
<1> QED BY <1>1, <1>5, <1>6, <1>7, <1>8 DEF Left

\* Less is left when nothing comes back and something is done.
LEMMA LeftFalls ==
  ASSUME NEW out, IsGraph(out), NEW s, Typed(out, s), NEW t, Typed(out, t),
         t.next >= s.next, White(out, t) \subseteq White(out, s), s.black \subseteq t.black,
         Ahead(out, t) \subseteq Ahead(out, s),
         \/ t.next > s.next
         \/ \E x \in Nodes(out) : x \in t.black /\ x \notin s.black
         \/ \E e \in Ahead(out, s) : e \notin Ahead(out, t)
  PROVE  Left(out, t) < Left(out, s)
<1>1. /\ Len(out) \in Nat /\ s.next \in Nat /\ t.next \in Nat
  BY GraphIs DEF Typed
<1> DEFINE S1 == White(out, s)
           T1 == White(out, t)
           S2 == Nodes(out) \ s.black
           T2 == Nodes(out) \ t.black
           S3 == Ahead(out, s)
           T3 == Ahead(out, t)
<1>2. IsFiniteSet(S1) /\ IsFiniteSet(S2) /\ IsFiniteSet(S3)
  BY LeftIs
<1>3. T1 \subseteq S1 /\ T2 \subseteq S2 /\ T3 \subseteq S3
  OBVIOUS
<1>4. \/ t.next > s.next
      \/ \E x \in S2 : x \notin T2
      \/ \E e \in S3 : e \notin T3
  OBVIOUS
<1>5. /\ Left(out, s) = (Len(out) + 1 - s.next) + Cardinality(S1) + Cardinality(S2) + Cardinality(S3)
      /\ Left(out, t) = (Len(out) + 1 - t.next) + Cardinality(T1) + Cardinality(T2) + Cardinality(T3)
  BY DEF Left
<1> HIDE DEF S1, T1, S2, T2, S3, T3
<1>6. /\ Cardinality(S1) \in Nat /\ Cardinality(T1) \in Nat /\ Cardinality(T1) <= Cardinality(S1)
  BY <1>2, <1>3, Fewer
<1>7. /\ Cardinality(S2) \in Nat /\ Cardinality(T2) \in Nat /\ Cardinality(T2) <= Cardinality(S2)
      /\ \A x \in S2 : x \notin T2 => Cardinality(T2) < Cardinality(S2)
  BY <1>2, <1>3, Fewer
<1>8. /\ Cardinality(S3) \in Nat /\ Cardinality(T3) \in Nat /\ Cardinality(T3) <= Cardinality(S3)
      /\ \A x \in S3 : x \notin T3 => Cardinality(T3) < Cardinality(S3)
  BY <1>2, <1>3, Fewer
<1>9. t.next > s.next \/ Cardinality(T2) < Cardinality(S2) \/ Cardinality(T3) < Cardinality(S3)
  BY <1>4, <1>7, <1>8
<1> DEFINE n == Len(out)
           p == s.next
           q == t.next
           a == Cardinality(S1)
           b == Cardinality(S2)
           c == Cardinality(S3)
           d == Cardinality(T1)
           e == Cardinality(T2)
           f == Cardinality(T3)
<1>10. /\ n \in Nat /\ p \in Nat /\ q \in Nat /\ q >= p
       /\ a \in Nat /\ b \in Nat /\ c \in Nat /\ d \in Nat /\ e \in Nat /\ f \in Nat
       /\ d <= a /\ e <= b /\ f <= c /\ (q > p \/ e < b \/ f < c)
  BY <1>1, <1>6, <1>7, <1>8, <1>9
<1>11. Left(out, s) = (n + 1 - p) + a + b + c /\ Left(out, t) = (n + 1 - q) + d + e + f
  BY <1>5
<1> HIDE DEF n, p, q, a, b, c, d, e, f
<1>12. (n + 1 - q) + d + e + f < (n + 1 - p) + a + b + c
  BY <1>10
<1> QED BY <1>11, <1>12

----------------------------------------------------------------------------
(* The three steps of a search. *)

\* The next start: passed over if it is black, or the whole stack of a new search.
LEMMA BeginKeeps ==
  ASSUME NEW out, IsGraph(out), NEW s, SearchInv(out, s), s.stack = <<>>, s.next <= Len(out)
  PROVE  SearchInv(out, Begin(s)) /\ Left(out, Begin(s)) < Left(out, s)
<1> DEFINE t == Begin(s)
<1>1. /\ Len(out) \in Nat
      /\ \A n \in Nodes(out) : Len(out[n]) \in Nat /\ DOMAIN out[n] = 1..Len(out[n])
  BY GraphIs
<1>2. /\ Typed(out, s) /\ OneColour(s) /\ IsPath(out, s) /\ StartsPassed(s) /\ RingsAreCycles(out, s)
      /\ s.found = <<>> => Explored(out, s) /\ NoRing(out, s)
  BY DEF SearchInv
<1>3. /\ s.next \in 1..Len(out) /\ s.black \in SUBSET Nodes(out) /\ s.found \in Seq(Seq(Nodes(out)))
  BY <1>1, <1>2 DEF Typed, Nodes
<1> DEFINE q == IF s.next \in s.black THEN <<>> ELSE <<Frame(s.next)>>
<1>a. t = [s EXCEPT !.next = @ + 1, !.stack = q]
  BY DEF Begin
<1>b. s \in [next : 1..(Len(out) + 1), stack : Seq([node : Nodes(out), at : Nat]),
            black : SUBSET Nodes(out), found : Seq(Seq(Nodes(out)))]
  BY <1>2 DEF Typed
<1> HIDE DEF t, q
<1>4. t.next = s.next + 1 /\ t.stack = q /\ t.black = s.black /\ t.found = s.found
  BY <1>a, <1>b
<1>5. \/ s.next \in s.black /\ t.stack = <<>> /\ Len(t.stack) = 0 /\ DOMAIN t.stack = {}
      \/ /\ s.next \notin s.black /\ Len(t.stack) = 1 /\ DOMAIN t.stack = {1}
         /\ t.stack = <<Frame(s.next)>> /\ t.stack[1] = Frame(s.next)
         /\ t.stack[1].node = s.next /\ t.stack[1].at = 1
  BY <1>4 DEF Frame, q
<1>6. t.stack \in Seq([node : Nodes(out), at : Nat])
  <2>1. Frame(s.next) \in [node : Nodes(out), at : Nat]
    BY <1>3 DEF Frame, Nodes
  <2>2. <<>> \in Seq([node : Nodes(out), at : Nat])
    OBVIOUS
  <2>3. <<Frame(s.next)>> \in Seq([node : Nodes(out), at : Nat])
    BY <2>1
  <2> QED BY <1>4, <2>2, <2>3 DEF q
<1>7. Typed(out, t)
  <2>1. \A i \in DOMAIN t.stack : t.stack[i].at \in 1..(Len(out[t.stack[i].node]) + 1)
    BY <1>1, <1>3, <1>5 DEF Nodes
  <2>2. t.next \in 1..(Len(out) + 1)
    BY <1>1, <1>3, <1>4
  <2>3. t \in [next : 1..(Len(out) + 1), stack : Seq([node : Nodes(out), at : Nat]),
              black : SUBSET Nodes(out), found : Seq(Seq(Nodes(out)))]
    BY <1>4, <1>6, <1>a, <1>b, <2>2
  <2> QED BY <2>1, <2>3 DEF Typed
<1>8. Grey(s) = {}
  BY DEF Grey
<1>9. s.next \in t.black \cup Grey(t) /\ Grey(t) \subseteq {s.next}
  BY <1>4, <1>5 DEF Grey
<1>10. OneColour(t)
  BY <1>4, <1>5 DEF OneColour
<1>11. IsPath(out, t)
  BY <1>5 DEF IsPath
<1>12. StartsPassed(t)
  <2>1. \A n \in 1..(s.next - 1) : n \in s.black
    BY <1>2, <1>8 DEF StartsPassed
  <2>2. \A n \in 1..(t.next - 1) : n \in 1..(s.next - 1) \/ n = s.next
    BY <1>3, <1>4
  <2> QED BY <1>4, <1>9, <2>1, <2>2 DEF StartsPassed
<1>13. RingsAreCycles(out, t)
  BY <1>2, <1>4 DEF RingsAreCycles
<1>14. ASSUME t.found = <<>> PROVE Explored(out, t) /\ NoRing(out, t)
  <2>1. Explored(out, s) /\ NoRing(out, s)
    BY <1>2, <1>4, <1>14
  <2>2. NoRing(out, t)
    BY <1>4, <2>1 DEF NoRing
  <2>3. \A n \in t.black : \A k \in DOMAIN out[n] : out[n][k] \in t.black
    BY <1>4, <2>1 DEF Explored
  <2>4. \A i \in DOMAIN t.stack : 1..(t.stack[i].at - 1) = {}
    BY <1>5
  <2> QED BY <2>2, <2>3, <2>4 DEF Explored
<1>15. SearchInv(out, t)
  BY <1>7, <1>10, <1>11, <1>12, <1>13, <1>14 DEF SearchInv
<1>16. White(out, t) \subseteq White(out, s)
  BY <1>4, <1>8 DEF White
<1>17. Ahead(out, t) \subseteq Ahead(out, s)
  BY <1>4 DEF Ahead
<1>18. t.next >= s.next /\ t.next > s.next /\ s.black \subseteq t.black
  BY <1>3, <1>4
<1>19. Left(out, t) < Left(out, s)
  BY <1>2, <1>7, <1>16, <1>17, <1>18, LeftFalls
<1> QED BY <1>15, <1>19 DEF t


\* The top of the stack has no successor left: it turns black.
LEMMA LeaveKeeps ==
  ASSUME NEW out, IsGraph(out), NEW s, SearchInv(out, s), s.stack # <<>>,
         Last(s.stack).at > Len(out[Last(s.stack).node])
  PROVE  SearchInv(out, Leave(s)) /\ Left(out, Leave(s)) < Left(out, s)
<1> DEFINE t == Leave(s)
           m == Len(s.stack)
           v == s.stack[m].node
<1>1. /\ Len(out) \in Nat /\ DOMAIN out = Nodes(out)
      /\ \A n \in Nodes(out) : /\ Len(out[n]) \in Nat /\ DOMAIN out[n] = 1..Len(out[n])
                               /\ \A k \in 1..Len(out[n]) : out[n][k] \in Nodes(out)
  BY GraphIs
<1>2. /\ Typed(out, s) /\ OneColour(s) /\ IsPath(out, s) /\ StartsPassed(s) /\ RingsAreCycles(out, s)
      /\ s.found = <<>> => Explored(out, s) /\ NoRing(out, s)
  BY DEF SearchInv
<1>3. /\ s \in [next : 1..(Len(out) + 1), stack : Seq([node : Nodes(out), at : Nat]),
                black : SUBSET Nodes(out), found : Seq(Seq(Nodes(out)))]
      /\ \A i \in DOMAIN s.stack : s.stack[i].at \in 1..(Len(out[s.stack[i].node]) + 1)
  BY <1>2 DEF Typed
<1>4. /\ m \in Nat /\ m >= 1 /\ DOMAIN s.stack = 1..m /\ m \in 1..m
      /\ \A i \in 1..m : s.stack[i] \in [node : Nodes(out), at : Nat]
  <2>1. s.stack \in Seq([node : Nodes(out), at : Nat])
    BY <1>3
  <2>2. /\ m \in Nat /\ DOMAIN s.stack = 1..m /\ m >= 1
        /\ \A i \in 1..m : s.stack[i] \in [node : Nodes(out), at : Nat]
    BY <2>1, SeqIs
  <2> QED BY <2>2
<1>5. Last(s.stack) = s.stack[m] /\ v \in Nodes(out) /\ s.stack[m].at = Len(out[v]) + 1
  <2>1. Last(s.stack) = s.stack[m]
    BY DEF Last
  <2>2. v \in Nodes(out) /\ s.stack[m].at \in 1..(Len(out[v]) + 1)
    BY <1>3, <1>4
  <2>3. s.stack[m].at > Len(out[v])
    BY <2>1
  <2>4. Len(out[v]) \in Nat
    BY <1>1, <2>2
  <2>5. s.stack[m].at = Len(out[v]) + 1
    BY <2>2, <2>3, <2>4
  <2> QED BY <2>1, <2>2, <2>5
<1> DEFINE q == Front(s.stack)
<1>6. /\ q \in Seq([node : Nodes(out), at : Nat]) /\ Len(q) = m - 1 /\ DOMAIN q = 1..(m - 1)
      /\ \A i \in 1..(m - 1) : q[i] = s.stack[i]
  <2>1. s.stack \in Seq([node : Nodes(out), at : Nat])
    BY <1>3
  <2> QED BY <1>4, <2>1 DEF Front
<1>7. t = [s EXCEPT !.stack = q, !.black = @ \cup {v}]
  BY <1>5 DEF Leave
<1> HIDE DEF t, q
<1>8. t.next = s.next /\ t.stack = q /\ t.black = s.black \cup {v} /\ t.found = s.found
  BY <1>3, <1>7
<1> HIDE DEF m, v
<1>9. Typed(out, t)
  <2>1. \A i \in DOMAIN t.stack : t.stack[i].at \in 1..(Len(out[t.stack[i].node]) + 1)
    <3> SUFFICES ASSUME NEW i \in DOMAIN t.stack
                 PROVE  t.stack[i].at \in 1..(Len(out[t.stack[i].node]) + 1)
      OBVIOUS
    <3>1. i \in 1..(m - 1) /\ t.stack[i] = s.stack[i]
      BY <1>6, <1>8
    <3>2. i \in DOMAIN s.stack
      BY <1>4, <3>1
    <3> QED BY <1>3, <3>1, <3>2
  <2>2. t \in [next : 1..(Len(out) + 1), stack : Seq([node : Nodes(out), at : Nat]),
              black : SUBSET Nodes(out), found : Seq(Seq(Nodes(out)))]
    <3>1. s.black \cup {v} \in SUBSET Nodes(out)
      BY <1>3, <1>5
    <3> QED BY <1>3, <1>6, <1>7, <3>1
  <2> QED BY <2>1, <2>2 DEF Typed
<1>10. \A i \in 1..(m - 1) : i \in 1..m /\ i # m
  BY <1>4
<1>11. v = s.stack[m].node
  BY DEF v
<1>12. /\ \A i, j \in 1..m : s.stack[i].node = s.stack[j].node => i = j
       /\ \A i \in 1..m : s.stack[i].node \notin s.black
  BY <1>2, <1>4 DEF OneColour
<1>13. OneColour(t)
  <2>1. \A i \in 1..(m - 1) : s.stack[i].node \notin s.black /\ s.stack[i].node # v
    BY <1>4, <1>10, <1>11, <1>12
  <2>2. \A i, j \in 1..(m - 1) : s.stack[i].node = s.stack[j].node => i = j
    BY <1>10, <1>12
  <2> QED BY <1>6, <1>8, <2>1, <2>2 DEF OneColour
<1>14. IsPath(out, t)
  <2>1. \A i \in 1..(m - 1 - 1) : i \in 1..(m - 1) /\ i + 1 \in 1..(m - 1)
    BY <1>4
  <2>2. \A i \in 1..(m - 1) : /\ s.stack[i].at > 1
                              /\ out[s.stack[i].node][s.stack[i].at - 1] = s.stack[i + 1].node
    BY <1>2 DEF IsPath, m
  <2> QED BY <1>6, <1>8, <2>1, <2>2 DEF IsPath
<1>15. t.black \cup Grey(t) = s.black \cup Grey(s)
  <2>1. Grey(s) = {s.stack[i].node : i \in 1..m} /\ Grey(t) = {s.stack[i].node : i \in 1..(m - 1)}
    BY <1>4, <1>6, <1>8 DEF Grey
  <2>2. 1..m = 1..(m - 1) \cup {m}
    BY <1>4
  <2> QED BY <1>8, <1>11, <2>1, <2>2
<1>16. StartsPassed(t)
  BY <1>2, <1>8, <1>15 DEF StartsPassed
<1>17. RingsAreCycles(out, t)
  BY <1>2, <1>8 DEF RingsAreCycles
<1>18. ASSUME t.found = <<>> PROVE Explored(out, t) /\ NoRing(out, t)
  <2>1. Explored(out, s) /\ NoRing(out, s)
    BY <1>2, <1>8, <1>18
  <2>2. \A k \in 1..Len(out[v]) : out[v][k] \in s.black
    <3>1. TAKE k \in 1..Len(out[v])
    <3>2. k \in 1..(s.stack[m].at - 1)
      BY <1>1, <1>5
    <3>3. \/ out[s.stack[m].node][k] \in s.black
          \/ m < Len(s.stack) /\ out[s.stack[m].node][k] = s.stack[m + 1].node
      BY <1>4, <2>1, <3>2 DEF Explored
    <3> QED BY <1>4, <1>11, <3>3 DEF m
  <2>3. \A n \in t.black : \A k \in DOMAIN out[n] : out[n][k] \in t.black
    BY <1>1, <1>5, <1>8, <2>1, <2>2 DEF Explored
  <2>4. ASSUME NEW i \in DOMAIN t.stack, NEW k \in 1..(t.stack[i].at - 1)
        PROVE  \/ out[t.stack[i].node][k] \in t.black
               \/ i < Len(t.stack) /\ out[t.stack[i].node][k] = t.stack[i + 1].node
    <3>1. i \in 1..(m - 1) /\ i \in DOMAIN s.stack /\ t.stack[i] = s.stack[i]
      BY <1>4, <1>6, <1>8, <2>4
    <3>2. \/ out[s.stack[i].node][k] \in s.black
          \/ i < Len(s.stack) /\ out[s.stack[i].node][k] = s.stack[i + 1].node
      BY <2>1, <2>4, <3>1 DEF Explored
    <3>3. CASE i = m - 1
      <4>1. i + 1 = m
        BY <1>4, <3>3
      <4> QED BY <1>8, <1>11, <3>1, <3>2, <4>1
    <3>4. CASE i # m - 1
      <4>1. i < m - 1 /\ i + 1 \in 1..(m - 1)
        BY <1>4, <3>1, <3>4
      <4>2. t.stack[i + 1] = s.stack[i + 1] /\ Len(t.stack) = m - 1
        BY <1>6, <1>8, <4>1
      <4> QED BY <1>8, <3>1, <3>2, <4>1, <4>2
    <3> QED BY <3>3, <3>4
  <2>5. ASSUME NEW C \in SUBSET t.black, C # {}
        PROVE  \E n \in C : \A k \in DOMAIN out[n] : out[n][k] \notin C
    <3>1. CASE C \ {v} = {}
      <4>1. C = {v} /\ v \notin s.black
        BY <1>4, <1>11, <1>12, <2>5, <3>1
      <4> QED BY <1>1, <1>5, <2>2, <4>1
    <3>2. CASE C \ {v} # {}
      <4>1. C \ {v} \in SUBSET s.black
        BY <1>8
      <4>2. PICK n \in C \ {v} : \A k \in DOMAIN out[n] : out[n][k] \notin C \ {v}
        BY <2>1, <3>2, <4>1 DEF NoRing
      <4>3. \A k \in DOMAIN out[n] : out[n][k] \in s.black
        BY <2>1, <4>1 DEF Explored
      <4>4. v \notin s.black
        BY <1>4, <1>11, <1>12
      <4> QED BY <4>2, <4>3, <4>4
    <3> QED BY <3>1, <3>2
  <2>6. NoRing(out, t)
    BY <2>5 DEF NoRing
  <2> QED BY <2>3, <2>4, <2>6 DEF Explored
<1>19. SearchInv(out, t)
  BY <1>9, <1>13, <1>14, <1>16, <1>17, <1>18 DEF SearchInv
<1>20. White(out, t) \subseteq White(out, s)
  BY <1>15 DEF White
<1>21. Ahead(out, t) \subseteq Ahead(out, s)
  <2> SUFFICES ASSUME NEW e \in Ahead(out, t) PROVE e \in Ahead(out, s)
    OBVIOUS
  <2>1. e \in Edges(out) /\ e[1] \notin t.black
        /\ \A i \in DOMAIN t.stack : t.stack[i].node = e[1] => e[2] >= t.stack[i].at
    BY DEF Ahead
  <2>2. e[1] \notin s.black /\ e[1] # v
    BY <1>8, <2>1
  <2>3. ASSUME NEW i \in DOMAIN s.stack, s.stack[i].node = e[1] PROVE e[2] >= s.stack[i].at
    <3>1. i \in 1..m /\ i # m
      BY <1>4, <1>11, <2>2, <2>3
    <3>2. i \in 1..(m - 1)
      BY <1>4, <3>1
    <3> QED BY <1>6, <1>8, <2>1, <2>3, <3>2
  <2> QED BY <2>1, <2>2, <2>3 DEF Ahead
<1>22. v \in t.black /\ v \notin s.black /\ s.black \subseteq t.black /\ t.next >= s.next
  BY <1>3, <1>4, <1>8, <1>11, <1>12
<1>23. Left(out, t) < Left(out, s)
  BY <1>2, <1>5, <1>9, <1>20, <1>21, <1>22, LeftFalls
<1> QED BY <1>19, <1>23 DEF t


\* The part of the path from a grey node on, which an edge back closes, is a cycle.
LEMMA RingIs ==
  ASSUME NEW out, IsGraph(out), NEW s, Typed(out, s), IsPath(out, s), s.stack # <<>>,
         NEW w \in Grey(s), Follows(out, s.stack[Len(s.stack)].node, w)
  PROVE  IsCycle(out, Ring(s, w))
<1> DEFINE m == Len(s.stack)
           p == CHOOSE i \in DOMAIN s.stack : s.stack[i].node = w
           c == [j \in 1..(m + 1 - p) |-> s.stack[p + j - 1].node]
<1>1. /\ m \in Nat /\ m >= 1 /\ DOMAIN s.stack = 1..m
      /\ \A i \in 1..m : s.stack[i] \in [node : Nodes(out), at : Nat]
  <2>1. s.stack \in Seq([node : Nodes(out), at : Nat])
    BY DEF Typed
  <2> QED BY <2>1, SeqIs
<1>2. \A n \in Nodes(out) : Len(out[n]) \in Nat /\ DOMAIN out[n] = 1..Len(out[n])
  BY GraphIs
<1>3. p \in 1..m /\ s.stack[p].node = w
  BY <1>1 DEF Grey
<1>4. Ring(s, w) = c
  BY DEF Ring
<1> HIDE DEF m, p
<1>5. m + 1 - p \in Nat /\ m + 1 - p >= 1 /\ \A j \in 1..(m + 1 - p) : p + j - 1 \in 1..m
  BY <1>1, <1>3
<1>6. c \in [1..(m + 1 - p) -> Nodes(out)]
  BY <1>1, <1>5
<1>7. c \in Seq(Nodes(out)) /\ Len(c) = m + 1 - p
  <2> HIDE DEF c
  <2>1. c \in Seq(Nodes(out))
    BY <1>5, <1>6, SeqDef
  <2> QED BY <1>5, <1>6, <2>1, SeqIs
<1>8. \A i \in 1..(m - 1) : Follows(out, s.stack[i].node, s.stack[i + 1].node)
  <2> TAKE i \in 1..(m - 1)
  <2>1. s.stack[i].at > 1 /\ out[s.stack[i].node][s.stack[i].at - 1] = s.stack[i + 1].node
    BY DEF IsPath, m
  <2>2. i \in 1..m
    BY <1>1
  <2>3. s.stack[i].node \in Nodes(out) /\ s.stack[i].at \in 1..(Len(out[s.stack[i].node]) + 1)
    BY <1>1, <2>2 DEF Typed
  <2>4. s.stack[i].at - 1 \in DOMAIN out[s.stack[i].node]
    BY <1>2, <2>1, <2>3
  <2> QED BY <2>1, <2>4 DEF Follows
<1>9. ASSUME NEW j \in 1..Len(c) PROVE Follows(out, c[j], c[IF j = Len(c) THEN 1 ELSE j + 1])
  <2>1. j \in 1..(m + 1 - p) /\ c[j] = s.stack[p + j - 1].node
    BY <1>7
  <2>2. CASE j = Len(c)
    <3>0. j = m + 1 - p
      BY <1>7, <2>2
    <3>1. p + j - 1 = m
      BY <1>1, <1>3, <3>0
    <3>2. c[1] = s.stack[p].node
      <4>1. 1 \in 1..(m + 1 - p) /\ p + 1 - 1 = p
        BY <1>3, <1>5
      <4> QED BY <4>1
    <3> QED BY <1>3, <2>1, <2>2, <3>1, <3>2 DEF m
  <2>3. CASE j # Len(c)
    <3>0. j \in 1..(m + 1 - p) /\ j # m + 1 - p
      BY <1>7, <2>1, <2>3
    <3>1. j + 1 \in 1..(m + 1 - p) /\ p + j - 1 \in 1..(m - 1) /\ p + (j + 1) - 1 = (p + j - 1) + 1
      BY <1>1, <1>3, <3>0
    <3>2. c[j + 1] = s.stack[(p + j - 1) + 1].node
      BY <3>1
    <3> QED BY <1>8, <2>1, <2>3, <3>1, <3>2
  <2> QED BY <2>2, <2>3
<1>10. c # <<>>
  <2>1. Len(c) # 0
    BY <1>5, <1>7
  <2> HIDE DEF c
  <2> QED BY <2>1, EmptySeq
<1> HIDE DEF c
<1> QED BY <1>4, <1>7, <1>9, <1>10 DEF IsCycle

\* The stack with the top one successor further.
Moved(s) == [s.stack EXCEPT ![Len(s.stack)].at = @ + 1]

LEMMA MovedIs ==
  ASSUME NEW out, IsGraph(out), NEW s, Typed(out, s), s.stack # <<>>,
         ~(Last(s.stack).at > Len(out[Last(s.stack).node]))
  PROVE  LET m == Len(s.stack)
             v == s.stack[m].node
             a == s.stack[m].at
         IN  /\ m \in Nat /\ m >= 1 /\ m \in 1..m /\ DOMAIN s.stack = 1..m
             /\ \A i \in 1..m : s.stack[i].at \in Nat
             /\ v \in Nodes(out) /\ a \in Nat /\ a >= 1
             /\ a \in DOMAIN out[v] /\ out[v][a] \in Nodes(out)
             /\ Last(s.stack) = s.stack[m]
             /\ Moved(s) \in Seq([node : Nodes(out), at : Nat])
             /\ Len(Moved(s)) = m /\ DOMAIN Moved(s) = 1..m
             /\ \A i \in 1..(m - 1) : i \in 1..m /\ i # m /\ Moved(s)[i] = s.stack[i]
             /\ Moved(s)[m].node = v /\ Moved(s)[m].at = a + 1
             /\ \A i \in 1..m : Moved(s)[i].node = s.stack[i].node
             /\ \A i \in 1..m : Moved(s)[i].at \in 1..(Len(out[Moved(s)[i].node]) + 1)
<1> DEFINE R == [node : Nodes(out), at : Nat]
           m == Len(s.stack)
           v == s.stack[m].node
           a == s.stack[m].at
<1>1. /\ s.stack \in Seq(R)
      /\ \A i \in DOMAIN s.stack : s.stack[i].at \in 1..(Len(out[s.stack[i].node]) + 1)
  BY DEF Typed
<1>2. m \in Nat /\ m >= 1 /\ DOMAIN s.stack = 1..m /\ \A i \in 1..m : s.stack[i] \in R
  BY <1>1, SeqIs
<1>3. m \in 1..m
  BY <1>2
<1>4. v \in Nodes(out) /\ a \in Nat /\ a \in 1..(Len(out[v]) + 1)
  BY <1>1, <1>2, <1>3
<1>5. Last(s.stack) = s.stack[m]
  BY DEF Last
<1>6. /\ Len(out[v]) \in Nat /\ DOMAIN out[v] = 1..Len(out[v])
      /\ \A k \in 1..Len(out[v]) : out[v][k] \in Nodes(out)
  BY <1>4, GraphIs
<1>7. a >= 1 /\ a \in DOMAIN out[v] /\ out[v][a] \in Nodes(out) /\ a + 1 \in 1..(Len(out[v]) + 1)
  BY <1>4, <1>5, <1>6
<1>8. Moved(s) = [i \in 1..m |-> IF i = m THEN [s.stack[m] EXCEPT !.at = @ + 1] ELSE s.stack[i]]
  BY <1>2, <1>3 DEF Moved
<1>9. [s.stack[m] EXCEPT !.at = @ + 1] = [node |-> v, at |-> a + 1]
  BY <1>2, <1>3
<1>10. [node |-> v, at |-> a + 1] \in R
  BY <1>4
<1>11. \A i \in 1..m : Moved(s)[i] = IF i = m THEN [node |-> v, at |-> a + 1] ELSE s.stack[i]
  BY <1>8, <1>9
<1>12. \A i \in 1..m : Moved(s)[i] \in R
  BY <1>2, <1>10, <1>11
<1>13. Moved(s) \in [1..m -> R]
  BY <1>8, <1>12
<1>14. Moved(s) \in Seq(R) /\ Len(Moved(s)) = m /\ DOMAIN Moved(s) = 1..m
  <2>1. Moved(s) \in Seq(R)
    <3> HIDE DEF R
    <3> QED BY <1>2, <1>13, SeqDef
  <2> QED BY <1>2, <1>13, <2>1, SeqIs
<1>15. \A i \in 1..(m - 1) : i \in 1..m /\ i # m
  BY <1>2
<1>16. Moved(s)[m].node = v /\ Moved(s)[m].at = a + 1
  BY <1>3, <1>11
<1>17. \A i \in 1..m : Moved(s)[i].node = s.stack[i].node
  BY <1>11, <1>16
<1>18. \A i \in 1..m : Moved(s)[i].at \in 1..(Len(out[Moved(s)[i].node]) + 1)
  <2> TAKE i \in 1..m
  <2>1. CASE i = m
    BY <1>7, <1>16, <2>1
  <2>2. CASE i # m
    BY <1>1, <1>2, <1>11, <2>2
  <2> QED BY <2>1, <2>2
<1>19. \A i \in 1..(m - 1) : Moved(s)[i] = s.stack[i]
  BY <1>11, <1>15
<1>20. \A i \in 1..m : s.stack[i].at \in Nat
  BY <1>2
<1> HIDE DEF R
<1> QED BY <1>2, <1>3, <1>4, <1>5, <1>7, <1>14, <1>15, <1>16, <1>17, <1>18, <1>19, <1>20 DEF R


\* An edge that was followed is not followed again.
LEMMA VisitFalls ==
  ASSUME NEW out, IsGraph(out), NEW s, SearchInv(out, s), s.stack # <<>>,
         ~(Last(s.stack).at > Len(out[Last(s.stack).node])),
         NEW t, Typed(out, t), t.next = s.next, t.black = s.black,
         \A i \in 1..Len(s.stack) : i \in DOMAIN t.stack /\ t.stack[i] = Moved(s)[i]
  PROVE  Left(out, t) < Left(out, s)
<1> DEFINE m == Len(s.stack)
           v == s.stack[m].node
           a == s.stack[m].at
<1>m. m = Len(s.stack) /\ v = s.stack[m].node /\ a = s.stack[m].at
  OBVIOUS
<1> HIDE DEF m, v, a
<1>1. Typed(out, s) /\ OneColour(s)
  BY DEF SearchInv
<1>2. /\ m \in 1..m /\ DOMAIN s.stack = 1..m
      /\ v \in Nodes(out) /\ a \in Nat /\ a \in DOMAIN out[v]
      /\ \A i \in 1..(m - 1) : i \in 1..m /\ i # m /\ Moved(s)[i] = s.stack[i]
      /\ Moved(s)[m].node = v /\ Moved(s)[m].at = a + 1
      /\ \A i \in 1..m : Moved(s)[i].node = s.stack[i].node
      /\ \A i \in 1..m : Moved(s)[i].at \in 1..(Len(out[Moved(s)[i].node]) + 1)
  <2>1. /\ m \in 1..m /\ DOMAIN s.stack = 1..m
        /\ v \in Nodes(out) /\ a \in Nat /\ a \in DOMAIN out[v]
    BY <1>1, MovedIs DEF m, v, a
  <2>2. \A i \in 1..(m - 1) : i \in 1..m /\ i # m /\ Moved(s)[i] = s.stack[i]
    BY <1>1, MovedIs DEF m, v, a
  <2>5. Moved(s)[m].node = v /\ Moved(s)[m].at = a + 1
    BY <1>1, MovedIs DEF m, v, a
  <2>3. \A i \in 1..m : Moved(s)[i].node = s.stack[i].node
    <3>1. m \in Nat
      BY <1>1, MovedIs DEF m, v, a
    <3>2. \A i \in 1..m : i = m \/ i \in 1..(m - 1)
      BY <3>1
    <3> QED BY <1>m, <2>2, <2>5, <3>2
  <2>4. \A i \in 1..m : Moved(s)[i].at \in 1..(Len(out[Moved(s)[i].node]) + 1)
    BY <1>1, MovedIs DEF m, v, a
  <2> QED BY <2>1, <2>2, <2>3, <2>4, <2>5
<1>3. m \in Nat /\ \A i \in 1..m : s.stack[i].at \in Nat
  BY <1>1, MovedIs DEF m, v, a
<1>4. \A i \in 1..m : s.stack[i].at \in Nat /\ Moved(s)[i].at >= s.stack[i].at
  <2> TAKE i \in 1..m
  <2>1. CASE i = m
    <3>1. s.stack[i].at = a /\ Moved(s)[i].at = a + 1 /\ a \in Nat
      BY <1>2, <1>m, <2>1
    <3> QED BY <3>1
  <2>2. CASE i # m
    <3>1. Moved(s)[i] = s.stack[i]
      BY <1>2, <1>3, <2>2
    <3> QED BY <1>3, <3>1
  <2> QED BY <2>1, <2>2
<1>5. \A i \in 1..m : i \in DOMAIN t.stack /\ t.stack[i] = Moved(s)[i]
  BY <1>m
<1>6. White(out, t) \subseteq White(out, s)
  <2>1. Grey(s) \subseteq Grey(t)
    BY <1>2, <1>5 DEF Grey
  <2> QED BY <2>1 DEF White
<1>7. ASSUME NEW e \in Ahead(out, t) PROVE e \in Ahead(out, s)
  <2>1. /\ e \in Edges(out) /\ e[1] \notin s.black
        /\ \A i \in DOMAIN t.stack : t.stack[i].node = e[1] => e[2] >= t.stack[i].at
    BY DEF Ahead
  <2>2. e[2] \in Nat
    <3>1. PICK n \in DOMAIN out : e \in {n} \X DOMAIN out[n]
      BY <2>1 DEF Edges
    <3>2. n \in Nodes(out)
      BY GraphIs
    <3>3. DOMAIN out[n] = 1..Len(out[n])
      BY <3>2, GraphIs
    <3> QED BY <3>1, <3>3
  <2>3. ASSUME NEW i \in DOMAIN s.stack, s.stack[i].node = e[1] PROVE e[2] >= s.stack[i].at
    <3>1. i \in 1..m /\ t.stack[i] = Moved(s)[i] /\ i \in DOMAIN t.stack
      BY <1>2, <1>5
    <3>2. e[2] >= Moved(s)[i].at
      <4>1. Moved(s)[i].node = e[1]
        BY <1>2, <2>3, <3>1
      <4> QED BY <2>1, <3>1, <4>1
    <3>3. Moved(s)[i].at \in Nat
      BY <1>2, <3>1
    <3> QED BY <1>4, <2>2, <3>1, <3>2, <3>3
  <2> QED BY <2>1, <2>3 DEF Ahead
<1>8. <<v, a>> \in Ahead(out, s)
  <2>1. <<v, a>> \in Edges(out)
    <3>1. v \in DOMAIN out
      BY <1>2, GraphIs
    <3> QED BY <1>2, <3>1 DEF Edges
  <2>2. v \notin s.black
    <3>1. m \in DOMAIN s.stack
      BY <1>2
    <3> QED BY <1>1, <1>m, <3>1 DEF OneColour
  <2>3. a >= a
    BY <1>2
  <2>4. ASSUME NEW i \in DOMAIN s.stack, s.stack[i].node = v PROVE a >= s.stack[i].at
    <3>1. m \in DOMAIN s.stack /\ s.stack[m].node = v
      BY <1>2, <1>m
    <3>2. i = m
      BY <1>1, <2>4, <3>1 DEF OneColour
    <3> QED BY <1>m, <2>3, <3>2
  <2> QED BY <2>1, <2>2, <2>4 DEF Ahead
<1>9. <<v, a>> \notin Ahead(out, t)
  <2>1. m \in DOMAIN t.stack /\ t.stack[m].node = v /\ t.stack[m].at = a + 1 /\ ~(a >= a + 1)
    BY <1>2, <1>5
  <2> QED BY <2>1 DEF Ahead
<1>10. t.next >= s.next
  BY <1>1 DEF Typed
<1>11. \E e \in Ahead(out, s) : e \notin Ahead(out, t)
  BY <1>8, <1>9
<1>12. Ahead(out, t) \subseteq Ahead(out, s)
  BY <1>7
<1>13. s.black \subseteq t.black
  OBVIOUS
<1> QED BY <1>1, <1>6, <1>10, <1>11, <1>12, <1>13, LeftFalls

\* The next successor of the top: grey, black or white.
LEMMA VisitKeeps ==
  ASSUME NEW out, IsGraph(out), NEW s, SearchInv(out, s), s.stack # <<>>,
         ~(Last(s.stack).at > Len(out[Last(s.stack).node]))
  PROVE  SearchInv(out, Visit(out, s)) /\ Left(out, Visit(out, s)) < Left(out, s)
<1> DEFINE t == Visit(out, s)
           m == Len(s.stack)
           v == s.stack[m].node
           a == s.stack[m].at
           w == out[v][a]
           R == [node : Nodes(out), at : Nat]
<1>m. m = Len(s.stack) /\ v = s.stack[m].node /\ a = s.stack[m].at /\ w = out[v][a]
  OBVIOUS
<1> HIDE DEF m, v, a, w
<1>1. /\ Typed(out, s) /\ OneColour(s) /\ IsPath(out, s) /\ StartsPassed(s) /\ RingsAreCycles(out, s)
      /\ s.found = <<>> => Explored(out, s) /\ NoRing(out, s)
  BY DEF SearchInv
<1>2. s \in [next : 1..(Len(out) + 1), stack : Seq(R), black : SUBSET Nodes(out),
            found : Seq(Seq(Nodes(out)))]
  BY <1>1 DEF Typed
<1>3. /\ m \in Nat /\ m >= 1 /\ m \in 1..m /\ DOMAIN s.stack = 1..m
      /\ v \in Nodes(out) /\ a \in Nat /\ a >= 1 /\ a \in DOMAIN out[v] /\ w \in Nodes(out)
      /\ Last(s.stack) = s.stack[m]
  BY <1>1, MovedIs DEF m, v, a, w, R
<1>4. /\ Moved(s) \in Seq(R) /\ Len(Moved(s)) = m /\ DOMAIN Moved(s) = 1..m
      /\ \A i \in 1..(m - 1) : i \in 1..m /\ i # m /\ Moved(s)[i] = s.stack[i]
      /\ Moved(s)[m].node = v /\ Moved(s)[m].at = a + 1
      /\ \A i \in 1..m : Moved(s)[i].node = s.stack[i].node
      /\ \A i \in 1..m : Moved(s)[i].at \in 1..(Len(out[Moved(s)[i].node]) + 1)
  <2>1. Moved(s) \in Seq(R) /\ Len(Moved(s)) = m /\ DOMAIN Moved(s) = 1..m
    BY <1>1, MovedIs DEF m, R
  <2>2. \A i \in 1..(m - 1) : i \in 1..m /\ i # m /\ Moved(s)[i] = s.stack[i]
    BY <1>1, MovedIs DEF m
  <2>3. Moved(s)[m].node = v /\ Moved(s)[m].at = a + 1
    BY <1>1, MovedIs DEF m, v, a
  <2>4. \A i \in 1..m : Moved(s)[i].node = s.stack[i].node
    <3>1. \A i \in 1..m : i = m \/ i \in 1..(m - 1)
      BY <1>3
    <3> QED BY <1>m, <2>2, <2>3, <3>1
  <2>5. \A i \in 1..m : Moved(s)[i].at \in 1..(Len(out[Moved(s)[i].node]) + 1)
    BY <1>1, MovedIs DEF m
  <2> QED BY <2>1, <2>2, <2>3, <2>4, <2>5
<1>5. t = IF w \in Grey(s) THEN [s EXCEPT !.stack = Moved(s), !.found = Append(@, Ring(s, w))]
          ELSE IF w \in s.black THEN [s EXCEPT !.stack = Moved(s)]
          ELSE [s EXCEPT !.stack = Append(Moved(s), Frame(w))]
  BY <1>3, <1>m DEF Visit, Moved
<1>6. Follows(out, v, w)
  BY <1>3, <1>m DEF Follows
<1> HIDE DEF t, R
<1>7. /\ \A i, j \in 1..m : s.stack[i].node = s.stack[j].node => i = j
      /\ \A i \in 1..m : s.stack[i].node \notin s.black
  BY <1>1, <1>3 DEF OneColour
<1>8. Grey(s) = {s.stack[i].node : i \in 1..m}
  BY <1>3 DEF Grey
\* The path that leads to the top.
<1>9. ASSUME NEW i \in 1..(m - 1)
      PROVE  /\ i + 1 \in 1..m /\ Moved(s)[i].at > 1
             /\ out[Moved(s)[i].node][Moved(s)[i].at - 1] = Moved(s)[i + 1].node
  <2>1. i + 1 \in 1..m
    BY <1>3
  <2>2. s.stack[i].at > 1 /\ out[s.stack[i].node][s.stack[i].at - 1] = s.stack[i + 1].node
    BY <1>1 DEF IsPath, m
  <2> QED BY <1>4, <2>1, <2>2
\* What was followed before.
<1>10. ASSUME s.found = <<>>, NEW i \in 1..m, NEW k \in 1..(Moved(s)[i].at - 1)
       PROVE  \/ out[Moved(s)[i].node][k] \in s.black
              \/ i \in 1..(m - 1) /\ out[Moved(s)[i].node][k] = Moved(s)[i + 1].node
              \/ i = m /\ k = a
  <2>1. Explored(out, s)
    BY <1>1, <1>10
  <2>2. CASE i = m
    <3>1. k \in 1..a
      BY <1>3, <1>4, <2>2
    <3>2. CASE k = a
      BY <2>2, <3>2
    <3>3. CASE k # a
      <4>1. k \in 1..(s.stack[m].at - 1)
        BY <1>3, <3>1, <3>3 DEF a
      <4>2. ~(m < Len(s.stack))
        BY <1>3 DEF m
      <4>3. out[s.stack[m].node][k] \in s.black
        BY <1>3, <2>1, <4>1, <4>2 DEF Explored
      <4> QED BY <1>4, <2>2, <4>3
    <3> QED BY <3>2, <3>3
  <2>3. CASE i # m
    <3>1. i \in 1..(m - 1) /\ i + 1 \in 1..m
      BY <1>3, <2>3
    <3>2. Moved(s)[i] = s.stack[i] /\ Moved(s)[i + 1].node = s.stack[i + 1].node
      BY <1>4, <3>1
    <3>3. \/ out[s.stack[i].node][k] \in s.black
          \/ out[s.stack[i].node][k] = s.stack[i + 1].node
      BY <1>3, <2>1, <1>10, <3>2 DEF Explored
    <3> QED BY <3>1, <3>2, <3>3
  <2> QED BY <2>2, <2>3
<1>11. \A i \in 1..m : Moved(s)[i].node \notin s.black
  BY <1>4, <1>7
<1>12. \A i, j \in 1..m : Moved(s)[i].node = Moved(s)[j].node => i = j
  BY <1>4, <1>7
<1>13. m \in DOMAIN s.stack /\ m = Len(s.stack) /\ s.stack[m].node = v
  BY <1>3, <1>m
\* An edge back: the stack stays as it is, and the ring is a cycle.
<1>14. CASE w \in Grey(s)
  <2> DEFINE c == Ring(s, w)
  <2>1. IsCycle(out, c)
    <3>1. Follows(out, s.stack[Len(s.stack)].node, w)
      BY <1>6, <1>m
    <3> QED BY <1>1, <1>14, <3>1, RingIs
  <2> HIDE DEF c
  <2>2. c \in Seq(Nodes(out))
    BY <2>1 DEF IsCycle
  <2>3. t = [s EXCEPT !.stack = Moved(s), !.found = Append(s.found, c)]
    BY <1>5, <1>14 DEF c
  <2>4. t.next = s.next /\ t.stack = Moved(s) /\ t.black = s.black /\ t.found = Append(s.found, c)
    BY <1>2, <2>3
  <2>5. s.found \in Seq(Seq(Nodes(out)))
    BY <1>2
  <2>6. /\ t.found \in Seq(Seq(Nodes(out))) /\ Len(s.found) \in Nat /\ DOMAIN s.found = 1..Len(s.found)
        /\ DOMAIN t.found = 1..(Len(s.found) + 1) /\ t.found[Len(s.found) + 1] = c
        /\ \A i \in 1..Len(s.found) : t.found[i] = s.found[i]
    BY <2>2, <2>4, <2>5
  <2>7. Typed(out, t)
    <3>1. t \in [next : 1..(Len(out) + 1), stack : Seq(R), black : SUBSET Nodes(out),
                 found : Seq(Seq(Nodes(out)))]
      BY <1>2, <1>4, <2>3, <2>4, <2>6
    <3>2. \A i \in DOMAIN t.stack : t.stack[i].at \in 1..(Len(out[t.stack[i].node]) + 1)
      BY <1>4, <2>4
    <3> QED BY <3>1, <3>2 DEF Typed, R
  <2>8. OneColour(t)
    BY <1>4, <1>11, <1>12, <2>4 DEF OneColour
  <2>9. IsPath(out, t)
    BY <1>4, <1>9, <2>4 DEF IsPath
  <2>10. StartsPassed(t)
    <3>1. Grey(t) = Grey(s)
      <4>1. t.stack = Moved(s) /\ DOMAIN Moved(s) = 1..m
        BY <1>4, <2>4
      <4>2. Grey(t) = {Moved(s)[i].node : i \in 1..m}
        BY <4>1 DEF Grey
      <4>3. \A i \in 1..m : Moved(s)[i].node = s.stack[i].node
        BY <1>4
      <4> QED BY <1>8, <4>2, <4>3
    <3> QED BY <1>1, <2>4, <3>1 DEF StartsPassed
  <2>11. RingsAreCycles(out, t)
    <3> SUFFICES ASSUME NEW i \in DOMAIN t.found PROVE IsCycle(out, t.found[i])
      BY DEF RingsAreCycles
    <3>1. i = Len(s.found) + 1 \/ i \in 1..Len(s.found)
      BY <2>6
    <3> QED BY <1>1, <2>1, <2>6, <3>1 DEF RingsAreCycles
  <2>12. t.found # <<>>
    <3>1. Len(s.found) + 1 \in DOMAIN t.found
      BY <2>6
    <3> QED BY <3>1
  <2>13. \A i \in 1..Len(s.stack) : i \in DOMAIN t.stack /\ t.stack[i] = Moved(s)[i]
    BY <1>4, <1>13, <2>4
  <2>14. Left(out, t) < Left(out, s)
    BY <2>4, <2>7, <2>13, VisitFalls
  <2>15. SearchInv(out, t)
    BY <2>7, <2>8, <2>9, <2>10, <2>11, <2>12 DEF SearchInv
  <2> QED BY <2>14, <2>15 DEF t
\* A successor that is done with: only the place in the list moves on.
<1>15. CASE w \notin Grey(s) /\ w \in s.black
  <2>1. t = [s EXCEPT !.stack = Moved(s)]
    BY <1>5, <1>15
  <2>2. t.next = s.next /\ t.stack = Moved(s) /\ t.black = s.black /\ t.found = s.found
    BY <1>2, <2>1
  <2>3. Typed(out, t)
    <3>1. t \in [next : 1..(Len(out) + 1), stack : Seq(R), black : SUBSET Nodes(out),
                 found : Seq(Seq(Nodes(out)))]
      BY <1>2, <1>4, <2>1
    <3>2. \A i \in DOMAIN t.stack : t.stack[i].at \in 1..(Len(out[t.stack[i].node]) + 1)
      BY <1>4, <2>2
    <3> QED BY <3>1, <3>2 DEF Typed, R
  <2>4. OneColour(t)
    BY <1>4, <1>11, <1>12, <2>2 DEF OneColour
  <2>5. IsPath(out, t)
    BY <1>4, <1>9, <2>2 DEF IsPath
  <2>6. StartsPassed(t)
    <3>1. Grey(t) = Grey(s)
      <4>1. t.stack = Moved(s) /\ DOMAIN Moved(s) = 1..m
        BY <1>4, <2>2
      <4>2. Grey(t) = {Moved(s)[i].node : i \in 1..m}
        BY <4>1 DEF Grey
      <4>3. \A i \in 1..m : Moved(s)[i].node = s.stack[i].node
        BY <1>4
      <4> QED BY <1>8, <4>2, <4>3
    <3> QED BY <1>1, <2>2, <3>1 DEF StartsPassed
  <2>7. RingsAreCycles(out, t)
    BY <1>1, <2>2 DEF RingsAreCycles
  <2>8. ASSUME t.found = <<>> PROVE Explored(out, t) /\ NoRing(out, t)
    <3>1. s.found = <<>> /\ Explored(out, s) /\ NoRing(out, s)
      BY <1>1, <2>2, <2>8
    <3>2. NoRing(out, t)
      BY <2>2, <3>1 DEF NoRing
    <3>3. \A n \in t.black : \A k \in DOMAIN out[n] : out[n][k] \in t.black
      BY <2>2, <3>1 DEF Explored
    <3>4. ASSUME NEW i \in DOMAIN t.stack, NEW k \in 1..(t.stack[i].at - 1)
          PROVE  \/ out[t.stack[i].node][k] \in t.black
                 \/ i < Len(t.stack) /\ out[t.stack[i].node][k] = t.stack[i + 1].node
      <4>1. i \in 1..m /\ k \in 1..(Moved(s)[i].at - 1)
        BY <1>4, <2>2
      <4>2. \/ out[Moved(s)[i].node][k] \in s.black
            \/ i \in 1..(m - 1) /\ out[Moved(s)[i].node][k] = Moved(s)[i + 1].node
            \/ i = m /\ k = a
        BY <1>10, <3>1, <4>1
      <4>3. i = m /\ k = a => out[Moved(s)[i].node][k] \in s.black
        BY <1>4, <1>m, <1>15
      <4>4. i \in 1..(m - 1) => i < m
        BY <1>3
      <4> QED BY <1>4, <2>2, <4>2, <4>3, <4>4
    <3> QED BY <3>2, <3>3, <3>4 DEF Explored
  <2>9. \A i \in 1..Len(s.stack) : i \in DOMAIN t.stack /\ t.stack[i] = Moved(s)[i]
    BY <1>4, <1>13, <2>2
  <2>10. Left(out, t) < Left(out, s)
    BY <2>2, <2>3, <2>9, VisitFalls
  <2>11. SearchInv(out, t)
    BY <2>3, <2>4, <2>5, <2>6, <2>7, <2>8 DEF SearchInv
  <2> QED BY <2>10, <2>11 DEF t
\* A new node: it goes on the stack, as the next node of the path.
<1>16. CASE w \notin Grey(s) /\ w \notin s.black
  <2> DEFINE q == Append(Moved(s), Frame(w))
  <2>1. t = [s EXCEPT !.stack = q]
    BY <1>5, <1>16
  <2>2. Frame(w) \in R /\ Frame(w).node = w /\ Frame(w).at = 1
    BY <1>3 DEF Frame, R
  <2>3. /\ q \in Seq(R) /\ Len(q) = m + 1 /\ DOMAIN q = 1..(m + 1) /\ q[m + 1] = Frame(w)
        /\ \A i \in 1..m : i \in 1..(m + 1) /\ q[i] = Moved(s)[i]
    BY <1>3, <1>4, <2>2
  <2> HIDE DEF q
  <2>4. t.next = s.next /\ t.stack = q /\ t.black = s.black /\ t.found = s.found
    BY <1>2, <2>1
  <2>5. \A i \in 1..(m + 1) : i \in 1..m \/ i = m + 1
    BY <1>3
  <2>6. Typed(out, t)
    <3>1. t \in [next : 1..(Len(out) + 1), stack : Seq(R), black : SUBSET Nodes(out),
                 found : Seq(Seq(Nodes(out)))]
      BY <1>2, <2>1, <2>3
    <3>2. Len(out[w]) \in Nat
      BY <1>3, GraphIs
    <3>3. \A i \in DOMAIN t.stack : t.stack[i].at \in 1..(Len(out[t.stack[i].node]) + 1)
      BY <1>4, <2>2, <2>3, <2>4, <2>5, <3>2
    <3> QED BY <3>1, <3>3 DEF Typed, R
  <2>7. w \notin s.black /\ \A i \in 1..m : Moved(s)[i].node # w
    BY <1>4, <1>8, <1>16
  <2>8. OneColour(t)
    <3>1. \A i \in DOMAIN t.stack : t.stack[i].node \notin t.black
      BY <1>11, <2>2, <2>3, <2>4, <2>5, <2>7
    <3>2. \A i, j \in DOMAIN t.stack : t.stack[i].node = t.stack[j].node => i = j
      BY <1>12, <2>2, <2>3, <2>4, <2>5, <2>7
    <3> QED BY <3>1, <3>2 DEF OneColour
  <2>9. IsPath(out, t)
    <3> SUFFICES ASSUME NEW i \in 1..(Len(t.stack) - 1)
                 PROVE  /\ t.stack[i].at > 1
                        /\ out[t.stack[i].node][t.stack[i].at - 1] = t.stack[i + 1].node
      BY DEF IsPath
    <3>1. i \in 1..m /\ t.stack[i] = Moved(s)[i]
      BY <1>3, <2>3, <2>4
    <3>2. CASE i = m
      <4>1. Moved(s)[i].at > 1 /\ Moved(s)[i].at - 1 = a /\ Moved(s)[i].node = v
        BY <1>3, <1>4, <3>2
      <4>2. t.stack[i + 1].node = w
        BY <2>2, <2>3, <2>4, <3>2
      <4> QED BY <1>m, <3>1, <4>1, <4>2
    <3>3. CASE i # m
      <4>1. i \in 1..(m - 1)
        BY <1>3, <3>1, <3>3
      <4>2. i + 1 \in 1..m
        BY <1>9, <4>1
      <4>3. t.stack[i + 1] = Moved(s)[i + 1]
        BY <2>3, <2>4, <4>2
      <4> QED BY <1>9, <3>1, <4>1, <4>3
    <3> QED BY <3>2, <3>3
  <2>10. StartsPassed(t)
    <3>1. Grey(s) \subseteq Grey(t)
      <4>1. \A i \in 1..m : i \in DOMAIN t.stack /\ t.stack[i].node = s.stack[i].node
        BY <1>4, <2>3, <2>4
      <4> QED BY <1>8, <4>1 DEF Grey
    <3> QED BY <1>1, <2>4, <3>1 DEF StartsPassed
  <2>11. RingsAreCycles(out, t)
    BY <1>1, <2>4 DEF RingsAreCycles
  <2>12. ASSUME t.found = <<>> PROVE Explored(out, t) /\ NoRing(out, t)
    <3>1. s.found = <<>> /\ Explored(out, s) /\ NoRing(out, s)
      BY <1>1, <2>4, <2>12
    <3>2. NoRing(out, t)
      BY <2>4, <3>1 DEF NoRing
    <3>3. \A n \in t.black : \A k \in DOMAIN out[n] : out[n][k] \in t.black
      BY <2>4, <3>1 DEF Explored
    <3>4. ASSUME NEW i \in DOMAIN t.stack, NEW k \in 1..(t.stack[i].at - 1)
          PROVE  \/ out[t.stack[i].node][k] \in t.black
                 \/ i < Len(t.stack) /\ out[t.stack[i].node][k] = t.stack[i + 1].node
      <4>1. i \in 1..m /\ t.stack[i] = Moved(s)[i]
        <5>1. i # m + 1
          <6>1. 1..(1 - 1) = {}
            OBVIOUS
          <6> QED BY <2>2, <2>3, <2>4, <3>4, <6>1
        <5>2. i \in 1..m
          BY <2>3, <2>4, <2>5, <3>4, <5>1
        <5> QED BY <2>3, <2>4, <5>2
      <4>2. \/ out[Moved(s)[i].node][k] \in s.black
            \/ i \in 1..(m - 1) /\ out[Moved(s)[i].node][k] = Moved(s)[i + 1].node
            \/ i = m /\ k = a
        BY <1>10, <3>1, <3>4, <4>1
      <4>3. CASE i = m /\ k = a
        <5>1. out[Moved(s)[i].node][k] = w
          BY <1>4, <1>m, <4>3
        <5>2. t.stack[i + 1].node = w /\ i < Len(t.stack)
          BY <1>3, <2>2, <2>3, <2>4, <4>3
        <5> QED BY <4>1, <5>1, <5>2
      <4>4. CASE i \in 1..(m - 1) /\ out[Moved(s)[i].node][k] = Moved(s)[i + 1].node
        <5>1. i + 1 \in 1..m /\ i < m + 1
          BY <1>3, <4>4
        <5> QED BY <2>3, <2>4, <4>1, <4>4, <5>1
      <4> QED BY <2>4, <4>1, <4>2, <4>3, <4>4
    <3> QED BY <3>2, <3>3, <3>4 DEF Explored
  <2>13. \A i \in 1..Len(s.stack) : i \in DOMAIN t.stack /\ t.stack[i] = Moved(s)[i]
    BY <1>13, <2>3, <2>4
  <2>14. Left(out, t) < Left(out, s)
    BY <2>4, <2>6, <2>13, VisitFalls
  <2>15. SearchInv(out, t)
    BY <2>6, <2>8, <2>9, <2>10, <2>11, <2>12 DEF SearchInv
  <2> QED BY <2>14, <2>15 DEF t
<1> QED BY <1>14, <1>15, <1>16

----------------------------------------------------------------------------
(* A whole search. *)

LEMMA MoveKeeps ==
  ASSUME NEW out, IsGraph(out), NEW first, NEW s, SearchInv(out, s)
  PROVE  /\ SearchInv(out, Move(out, first, s))
         /\ Over(out, first, s) => Over(out, first, Move(out, first, s))
         /\ Over(out, first, s) \/ Left(out, Move(out, first, s)) < Left(out, s)
<1> DEFINE t == Move(out, first, s)
<1>1. CASE Over(out, first, s)
  <2>1. t = s
    BY <1>1 DEF Move
  <2> HIDE DEF t
  <2>2. SearchInv(out, t) /\ Over(out, first, t)
    BY <1>1, <2>1
  <2> QED BY <1>1, <2>2 DEF t
<1>2. CASE ~Over(out, first, s) /\ s.stack = <<>>
  <2>1. t = Begin(s)
    BY <1>2 DEF Move
  <2>2. s.next <= Len(out)
    <3>1. ~(s.next > Len(out))
      BY <1>2 DEF Over
    <3>2. Len(out) \in Nat /\ s.next \in Nat
      BY GraphIs DEF SearchInv, Typed
    <3> QED BY <3>1, <3>2
  <2>3. SearchInv(out, Begin(s)) /\ Left(out, Begin(s)) < Left(out, s)
    BY <1>2, <2>2, BeginKeeps
  <2> QED BY <1>2, <2>1, <2>3
<1>3. CASE ~Over(out, first, s) /\ s.stack # <<>> /\ Last(s.stack).at > Len(out[Last(s.stack).node])
  <2>1. t = Leave(s)
    BY <1>3 DEF Move
  <2>2. SearchInv(out, Leave(s)) /\ Left(out, Leave(s)) < Left(out, s)
    BY <1>3, LeaveKeeps
  <2> QED BY <1>3, <2>1, <2>2
<1>4. CASE /\ ~Over(out, first, s) /\ s.stack # <<>>
           /\ ~(Last(s.stack).at > Len(out[Last(s.stack).node]))
  <2>1. t = Visit(out, s)
    BY <1>4 DEF Move
  <2>2. SearchInv(out, Visit(out, s)) /\ Left(out, Visit(out, s)) < Left(out, s)
    BY <1>4, VisitKeeps
  <2> QED BY <1>4, <2>1, <2>2
<1> QED BY <1>1, <1>2, <1>3, <1>4

\* At the start everything is left to do, and nothing is wrong.
LEMMA UnsearchedIs ==
  ASSUME NEW out, IsGraph(out)
  PROVE  SearchInv(out, Unsearched) /\ Budget(out) \in Nat /\ Left(out, Unsearched) <= Budget(out)
<1>1. Len(out) \in Nat /\ DOMAIN out = Nodes(out)
  BY GraphIs
<1>2. /\ Unsearched.next = 1 /\ Unsearched.stack = <<>>
      /\ Unsearched.black = {} /\ Unsearched.found = <<>>
      /\ DOMAIN Unsearched.stack = {} /\ DOMAIN Unsearched.found = {} /\ Len(Unsearched.stack) = 0
  BY DEF Unsearched
<1>3. Typed(out, Unsearched)
  <2>1. <<>> \in Seq([node : Nodes(out), at : Nat]) /\ <<>> \in Seq(Seq(Nodes(out)))
    OBVIOUS
  <2>2. 1 \in 1..(Len(out) + 1) /\ {} \in SUBSET Nodes(out)
    BY <1>1
  <2> QED BY <1>2, <2>1, <2>2 DEF Typed, Unsearched
<1>4. /\ OneColour(Unsearched) /\ IsPath(out, Unsearched)
      /\ StartsPassed(Unsearched) /\ RingsAreCycles(out, Unsearched)
  BY <1>2 DEF OneColour, IsPath, StartsPassed, RingsAreCycles
<1>5. Explored(out, Unsearched) /\ NoRing(out, Unsearched)
  BY <1>2 DEF Explored, NoRing
<1>6. SearchInv(out, Unsearched)
  BY <1>3, <1>4, <1>5 DEF SearchInv
<1>7. /\ IsFiniteSet(Nodes(out)) /\ Cardinality(Nodes(out)) = Len(out)
  <2>1. 1 \in Int /\ Len(out) \in Int /\ (Len(out) - 1 + 1 = Len(out)) /\ (1 > Len(out) => Len(out) = 0)
    BY <1>1
  <2> QED BY <2>1, FS_Interval DEF Nodes
<1>8. Cardinality(White(out, Unsearched)) \in Nat /\ Cardinality(White(out, Unsearched)) <= Len(out)
  <2>1. White(out, Unsearched) \subseteq Nodes(out)
    BY DEF White
  <2> QED BY <1>7, <2>1, Fewer
<1>9. /\ Cardinality(Nodes(out) \ Unsearched.black) \in Nat
      /\ Cardinality(Nodes(out) \ Unsearched.black) <= Len(out)
  <2>1. (Nodes(out) \ Unsearched.black) \subseteq Nodes(out)
    OBVIOUS
  <2> QED BY <1>7, <2>1, Fewer
<1>10. /\ Cardinality(Edges(out)) \in Nat /\ Cardinality(Ahead(out, Unsearched)) \in Nat
       /\ Cardinality(Ahead(out, Unsearched)) <= Cardinality(Edges(out))
  <2>1. Ahead(out, Unsearched) \subseteq Edges(out)
    BY DEF Ahead
  <2> QED BY <2>1, EdgesAreFinite, Fewer
<1> DEFINE n == Len(out)
           b == Cardinality(White(out, Unsearched))
           c == Cardinality(Nodes(out) \ Unsearched.black)
           d == Cardinality(Ahead(out, Unsearched))
           e == Cardinality(Edges(out))
<1>11. Left(out, Unsearched) = (n + 1 - 1) + b + c + d /\ Budget(out) = 3 * n + e
  BY <1>2 DEF Left, Budget
<1>12. n \in Nat /\ b \in Nat /\ c \in Nat /\ d \in Nat /\ e \in Nat /\ b <= n /\ c <= n /\ d <= e
  BY <1>1, <1>8, <1>9, <1>10
<1> HIDE DEF n, b, c, d, e
<1>13. 3 * n + e \in Nat /\ (n + 1 - 1) + b + c + d <= 3 * n + e
  BY <1>12
<1> QED BY <1>6, <1>11, <1>13

\* Search makes its steps one after the other.
LEMMA RunIs ==
  ASSUME NEW out, IsGraph(out), NEW first
  PROVE  \E run : /\ run[0] = Unsearched
                  /\ \A k \in 1..Budget(out) : run[k] = Move(out, first, run[k - 1])
                  /\ Search(out, first) = run[Budget(out)]
<1> DEFINE N == Budget(out)
           base == Unsearched
           Is(g, m) == g = [k \in 0..m |-> IF k = 0 THEN base ELSE Move(out, first, g[k - 1])]
           G == {m \in 0..N : \E g : Is(g, m)}
<1>0. N \in Nat
  BY UnsearchedIs
<1>1. Search(out, first) = (CHOOSE g : Is(g, N))[N]
  BY DEF Search
<1> HIDE DEF N, base
<1>2. 0 \in G
  <2>1. Is([k \in 0..0 |-> base], 0)
    OBVIOUS
  <2> HIDE DEF Is
  <2> QED BY <1>0, <2>1
<1>3. ASSUME NEW m \in 1..N, m - 1 \in G PROVE m \in G
  <2>1. PICK h : Is(h, m - 1)
    BY <1>3
  <2>2. m \in Nat /\ m - 1 \in Nat /\ m \in 0..N
    BY <1>0
  <2> DEFINE g == [k \in 0..m |-> IF k = m THEN Move(out, first, h[m - 1]) ELSE h[k]]
  <2>3. \A k \in 0..m : k # m => k \in 0..(m - 1)
    BY <2>2
  <2>4. ASSUME NEW k \in 0..m PROVE g[k] = IF k = 0 THEN base ELSE Move(out, first, g[k - 1])
    <3>1. CASE k = m
      <4>1. m - 1 \in 0..m /\ m - 1 # m /\ m # 0
        BY <2>2
      <4> HIDE DEF Is
      <4> QED BY <3>1, <4>1
    <3>2. CASE k # m
      <4>1. k \in 0..(m - 1) /\ g[k] = h[k]
        BY <2>3, <3>2
      <4>2. k # 0 => k - 1 \in 0..m /\ k - 1 # m
        BY <2>2
      <4>3. h[k] = IF k = 0 THEN base ELSE Move(out, first, h[k - 1])
        BY <2>1, <4>1
      <4> QED BY <4>1, <4>2, <4>3
    <3> QED BY <3>1, <3>2
  <2>5. Is(g, m)
    BY <2>4
  <2> HIDE DEF Is, g
  <2> QED BY <2>2, <2>5
<1>4. 0..N \subseteq G
  <2> HIDE DEF G
  <2> QED BY <1>0, <1>2, <1>3, UpTo
<1>5. \E g : Is(g, N)
  BY <1>0, <1>4
<1> DEFINE run == CHOOSE g : Is(g, N)
<1>6. Is(run, N)
  <2> HIDE DEF Is
  <2> QED BY <1>5
<1>7. Search(out, first) = run[N]
  BY <1>1
<1> HIDE DEF run
<1>8. run[0] = base /\ \A k \in 1..N : run[k] = Move(out, first, run[k - 1])
  BY <1>0, <1>6
<1> QED BY <1>7, <1>8 DEF N, base

\* At the end the invariant holds, and there is nothing left to do.
LEMMA SearchIs ==
  ASSUME NEW out, IsGraph(out), NEW first
  PROVE  SearchInv(out, Search(out, first)) /\ Over(out, first, Search(out, first))
<1> DEFINE N == Budget(out)
<1>1. N \in Nat /\ SearchInv(out, Unsearched) /\ Left(out, Unsearched) <= N
  BY UnsearchedIs
<1>2. PICK run : /\ run[0] = Unsearched
                 /\ \A k \in 1..N : run[k] = Move(out, first, run[k - 1])
                 /\ Search(out, first) = run[N]
  BY RunIs
<1> HIDE DEF N
<1> DEFINE G == {k \in 0..N : /\ SearchInv(out, run[k])
                              /\ Over(out, first, run[k]) \/ Left(out, run[k]) + k <= N}
<1>3. \A s : SearchInv(out, s) => Left(out, s) \in Nat
  BY LeftIs DEF SearchInv
<1>4. 0 \in G
  <2>1. Left(out, run[0]) + 0 <= N
    BY <1>1, <1>2, <1>3
  <2> QED BY <1>1, <1>2, <2>1
<1>5. ASSUME NEW k \in 1..N, k - 1 \in G PROVE k \in G
  <2>1. k \in 0..N /\ k \in Nat /\ run[k] = Move(out, first, run[k - 1])
    BY <1>1, <1>2
  <2>2. SearchInv(out, run[k - 1])
    BY <1>5
  <2>3. /\ SearchInv(out, run[k])
        /\ Over(out, first, run[k - 1]) => Over(out, first, run[k])
        /\ Over(out, first, run[k - 1]) \/ Left(out, run[k]) < Left(out, run[k - 1])
    BY <2>1, <2>2, MoveKeeps
  <2>4. Over(out, first, run[k - 1]) \/ Left(out, run[k - 1]) + (k - 1) <= N
    BY <1>5
  <2>5. Left(out, run[k]) \in Nat /\ Left(out, run[k - 1]) \in Nat
    BY <1>3, <2>2, <2>3
  <2>6. Over(out, first, run[k]) \/ Left(out, run[k]) + k <= N
    BY <1>1, <2>1, <2>3, <2>4, <2>5
  <2> QED BY <2>1, <2>3, <2>6
<1>6. N \in G
  <2> HIDE DEF G
  <2>1. 0..N \subseteq G
    BY <1>1, <1>4, <1>5, UpTo
  <2> QED BY <1>1, <2>1
<1>7. ASSUME ~Over(out, first, run[N]) PROVE FALSE
  <2>1. SearchInv(out, run[N]) /\ Left(out, run[N]) + N <= N
    BY <1>6, <1>7
  <2>2. /\ SearchInv(out, Move(out, first, run[N]))
        /\ Left(out, Move(out, first, run[N])) < Left(out, run[N])
    BY <1>7, <2>1, MoveKeeps
  <2>3. Left(out, run[N]) \in Nat /\ Left(out, Move(out, first, run[N])) \in Nat
    BY <1>3, <2>1, <2>2
  <2> QED BY <1>1, <2>1, <2>2, <2>3
<1> QED BY <1>2, <1>6, <1>7

(* Both searches come to an end, however nodes and records refer to each other:
   each start is passed once, each node entered and left once and each edge
   followed once, also where they close cycles (cycles.rs, dfs; build.rs, visit). *)
THEOREM SearchEnds ==
  ASSUME NEW out, IsGraph(out), NEW first
  PROVE  Over(out, first, Search(out, first))
BY SearchIs

(* What the pass finds its message lists node by node, and of what the builder
   finds it points at the last reference: whatever the graph, each of these is a
   cycle, every node of which leads to the next (cycles.rs, report). *)
THEOREM ReportsAreCycles ==
  ASSUME NEW out, IsGraph(out), NEW first, NEW i \in DOMAIN Search(out, first).found
  PROVE  IsCycle(out, Search(out, first).found[i])
BY SearchIs DEF SearchInv, RingsAreCycles

(* The three colours lose nothing: a search, whether it stops at the first
   cycle or goes on over all of the graph, finds one exactly where there is
   one.  A node is painted black when all it leads to is, and the nodes that
   are black never close a ring (cycles.rs, dfs; build.rs,
   find_reference_cycles). *)
THEOREM SearchIsExact ==
  ASSUME NEW out, IsGraph(out), NEW first
  PROVE  Search(out, first).found # <<>> <=> \E c : IsCycle(out, c)
<1> DEFINE s == Search(out, first)
<1>1. SearchInv(out, s) /\ Over(out, first, s)
  BY SearchIs
<1> HIDE DEF s
<1>2. /\ Typed(out, s) /\ StartsPassed(s) /\ RingsAreCycles(out, s)
      /\ s.found = <<>> => Explored(out, s) /\ NoRing(out, s)
  BY <1>1 DEF SearchInv
<1>3. ASSUME s.found # <<>> PROVE \E c : IsCycle(out, c)
  <2>1. s.found \in Seq(Seq(Nodes(out)))
    BY <1>2 DEF Typed
  <2>2. Len(s.found) \in Nat /\ Len(s.found) >= 1 /\ DOMAIN s.found = 1..Len(s.found)
    BY <1>3, <2>1, SeqIs
  <2>3. 1 \in DOMAIN s.found
    BY <2>2
  <2> QED BY <1>2, <2>3 DEF RingsAreCycles
<1>4. ASSUME NEW c, IsCycle(out, c), s.found = <<>> PROVE FALSE
  <2>1. /\ Len(out) \in Nat /\ DOMAIN out = Nodes(out)
        /\ s.next \in Nat
    BY <1>2, GraphIs DEF Typed
  <2>2. s.stack = <<>> /\ s.next > Len(out)
    BY <1>1, <1>4 DEF Over
  <2>3. \A n \in Nodes(out) : n \in s.black
    <3>1. Grey(s) = {}
      BY <2>2 DEF Grey
    <3>2. \A n \in Nodes(out) : n \in 1..(s.next - 1)
      BY <2>1, <2>2 DEF Nodes
    <3> QED BY <1>2, <3>1, <3>2 DEF StartsPassed
  <2>4. /\ Len(c) \in Nat /\ Len(c) >= 1 /\ \A j \in 1..Len(c) : c[j] \in Nodes(out)
    BY <1>4, SeqIs DEF IsCycle
  <2> DEFINE C == {c[j] : j \in 1..Len(c)}
  <2>5. C \in SUBSET s.black /\ C # {}
    <3>1. 1 \in 1..Len(c)
      BY <2>4
    <3> QED BY <2>3, <2>4, <3>1
  <2>6. PICK n \in C : \A k \in DOMAIN out[n] : out[n][k] \notin C
    <3> HIDE DEF C
    <3> QED BY <1>2, <1>4, <2>5 DEF NoRing
  <2>7. PICK j \in 1..Len(c) : n = c[j]
    BY <2>6
  <2>8. (IF j = Len(c) THEN 1 ELSE j + 1) \in 1..Len(c)
    BY <2>4
  <2>9. Follows(out, n, c[IF j = Len(c) THEN 1 ELSE j + 1])
    BY <1>4, <2>7 DEF IsCycle
  <2>10. c[IF j = Len(c) THEN 1 ELSE j + 1] \in C
    BY <2>8
  <2> HIDE DEF C
  <2> QED BY <2>6, <2>9, <2>10 DEF Follows
<1> QED BY <1>3, <1>4 DEF s
=============================================================================
