--------------------------- MODULE SimStoreProofs ---------------------------
(***************************************************************************)
(* Theorems about SimStore, for any schema, rows, failure rules and        *)
(* batches: the constraints hold of the tables, a delete removes exactly   *)
(* its closure, and a batch does what its operations would do one by one.  *)
(***************************************************************************)
EXTENDS SimStore, FiniteSetTheorems, NaturalsInduction, WellFoundedInduction, TLAPS

----------------------------------------------------------------------------
(* Induction, and functions that are defined by recursion.                 *)

\* A set of naturals has a smallest member.
LEMMA Smallest ==
  ASSUME NEW T \in SUBSET Nat, T # {}
  PROVE  \E m \in T : \A k \in T : m <= k
<1> DEFINE LT == {ss \in Nat \X Nat : ss[1] < ss[2]}
<1>1. IsWellFoundedOn(LT, Nat)
  BY NatLessThanWellFounded DEF OpToRel
<1> HIDE DEF LT
<1>2. PICK m \in T : \A k \in T : ~(<<k, m>> \in LT)
  BY <1>1, WFMin
<1>3. ASSUME NEW k \in T PROVE m <= k
  <2>1. <<k, m>> \in Nat \X Nat /\ <<k, m>>[1] = k /\ <<k, m>>[2] = m
    OBVIOUS
  <2>2. ~(k < m)
    BY <1>2, <2>1 DEF LT
  <2> QED BY <2>2
<1> QED BY <1>3

\* What holds of 0 and of the successor of each number below N that it holds of, holds up to N.
LEMMA UpTo ==
  ASSUME NEW N \in Nat, NEW G, 0 \in G, \A n \in 1..N : n - 1 \in G => n \in G
  PROVE  0..N \subseteq G
<1> DEFINE T == {n \in 0..N : n \notin G}
<1> SUFFICES ASSUME T # {} PROVE FALSE
  OBVIOUS
<1>1. PICK m \in T : \A k \in T : m <= k
  <2>1. T \in SUBSET Nat
    OBVIOUS
  <2> HIDE DEF T
  <2> QED BY <2>1, Smallest
<1>2. m # 0 /\ m \in 1..N /\ m - 1 \in 0..N /\ ~(m <= m - 1)
  BY <1>1
<1> QED BY <1>1, <1>2

\* f is a sequence of applications of step, from a.
Runs(f, a, N, step) == f[0] = a /\ \A n \in 1..N : f[n] = step[n][f[n - 1]]

\* There is one.
LEMMA ChainExists ==
  ASSUME NEW S, NEW a \in S, NEW N \in Nat, NEW step \in [1..N -> [S -> S]]
  PROVE  \E f \in [0..N -> S] : Runs(f, a, N, step)
<1> DEFINE Up(f, m) == f[0] = a /\ \A n \in 1..m : f[n] = step[n][f[n - 1]]
           G == {m \in 0..N : \E f \in [0..m -> S] : Up(f, m)}
<1>1. 0 \in G
  <2>1. [i \in 0..0 |-> a] \in [0..0 -> S] /\ Up([i \in 0..0 |-> a], 0)
    OBVIOUS
  <2> HIDE DEF Up
  <2>2. \E f \in [0..0 -> S] : Up(f, 0)
    BY <2>1
  <2> QED BY <2>2
<1>2. ASSUME NEW m \in 1..N, m - 1 \in G PROVE m \in G
  <2>1. PICK f \in [0..(m - 1) -> S] : Up(f, m - 1)
    BY <1>2
  <2> DEFINE g == [i \in 0..m |-> IF i = m THEN step[m][f[m - 1]] ELSE f[i]]
  <2>2. g \in [0..m -> S]
    <3>1. f[m - 1] \in S /\ step[m] \in [S -> S]
      BY <2>1
    <3> QED BY <2>1, <3>1
  <2>3. Up(g, m)
    <3>1. g[0] = a
      BY <2>1
    <3>2. ASSUME NEW n \in 1..m PROVE g[n] = step[n][g[n - 1]]
      <4>1. n - 1 \in 0..m /\ n - 1 # m /\ n \in 0..m /\ g[n - 1] = f[n - 1]
        OBVIOUS
      <4>2. n # m => n \in 1..(m - 1)
        OBVIOUS
      <4> QED BY <2>1, <4>1, <4>2
    <3> QED BY <3>1, <3>2
  <2> HIDE DEF Up, g
  <2>4. \E h \in [0..m -> S] : Up(h, m)
    BY <2>2, <2>3
  <2> QED BY <2>4
<1> HIDE DEF G
<1>3. 0..N \subseteq G
  BY <1>1, <1>2, UpTo
<1>4. N \in G
  BY <1>3
<1> QED BY <1>4 DEF G, Runs

\* What holds of the empty sequence and is kept by Append holds of every sequence.
LEMMA EverySequence ==
  ASSUME NEW S, NEW G, <<>> \in G,
         \A s \in Seq(S) : \A x \in S : s \in G => Append(s, x) \in G
  PROVE  Seq(S) \subseteq G
<1> SUFFICES ASSUME NEW s \in Seq(S) PROVE s \in G
  OBVIOUS
<1> DEFINE H == {n \in 0..Len(s) : SubSeq(s, 1, n) \in G}
<1>1. Len(s) \in Nat
  OBVIOUS
<1>2. 0 \in H
  <2>1. SubSeq(s, 1, 0) = <<>> /\ 0 \in 0..Len(s)
    BY <1>1
  <2> QED BY <2>1
<1>3. ASSUME NEW n \in 1..Len(s), n - 1 \in H PROVE n \in H
  <2>1. SubSeq(s, 1, n - 1) \in Seq(S) /\ s[n] \in S
    OBVIOUS
  <2>2. SubSeq(s, 1, n) = Append(SubSeq(s, 1, n - 1), s[n])
    OBVIOUS
  <2>3. SubSeq(s, 1, n - 1) \in G /\ n \in 0..Len(s)
    BY <1>1, <1>3
  <2>4. SubSeq(s, 1, n) \in G
    BY <2>1, <2>2, <2>3
  <2> QED BY <2>3, <2>4
<1> HIDE DEF H
<1>3a. 0..Len(s) \subseteq H
  BY <1>1, <1>2, <1>3, UpTo
<1>4. Len(s) \in H
  BY <1>1, <1>3a
<1>5. SubSeq(s, 1, Len(s)) = s
  OBVIOUS
<1> QED BY <1>4, <1>5 DEF H

----------------------------------------------------------------------------
(* Sequences of rows.                                                      *)

\* w holds what is left of the first n rows.
Leaves(w, rows, t, keys) ==
  /\ w[0] = <<>>
  /\ \A n \in 1..Len(rows) :
       w[n] = IF <<t, rows[n].id>> \in keys THEN w[n - 1] ELSE Append(w[n - 1], rows[n])

\* Without goes through the rows, keeping those that it has to.
LEMMA WithoutDef ==
  ASSUME NEW S, NEW rows \in Seq(S), NEW t, NEW keys
  PROVE  \E w \in [0..Len(rows) -> Seq(S)] :
           Without(rows, t, keys) = w[Len(rows)] /\ Leaves(w, rows, t, keys)
<1> DEFINE N == Len(rows)
           Kept(x, n) == IF <<t, rows[n].id>> \in keys THEN x ELSE Append(x, rows[n])
           Is(g) == g = [n \in 0..N |-> IF n = 0 THEN <<>> ELSE Kept(g[n - 1], n)]
           step == [n \in 1..N |-> [x \in Seq(S) |-> Kept(x, n)]]
<1>1. N \in Nat /\ <<>> \in Seq(S)
  OBVIOUS
<1>2. \A n \in 1..N : \A x \in Seq(S) : Kept(x, n) \in Seq(S)
  OBVIOUS
<1>3. Without(rows, t, keys) = (CHOOSE g : Is(g))[N]
  BY DEF Without
<1> HIDE DEF N, Kept
<1>4. step \in [1..N -> [Seq(S) -> Seq(S)]]
  BY <1>2
<1>5. PICK f \in [0..N -> Seq(S)] : Runs(f, <<>>, N, step)
  <2> HIDE DEF step
  <2> QED BY <1>1, <1>4, ChainExists
<1>5a. f[0] = <<>> /\ \A n \in 1..N : f[n] = Kept(f[n - 1], n)
  <2>1. ASSUME NEW n \in 1..N PROVE n - 1 \in 0..N /\ f[n - 1] \in Seq(S)
    BY <1>1
  <2> QED BY <1>5, <2>1 DEF Runs
<1>6. Is(f)
  <2>1. ASSUME NEW n \in 0..N PROVE f[n] = IF n = 0 THEN <<>> ELSE Kept(f[n - 1], n)
    <3>1. n # 0 => n \in 1..N /\ n - 1 \in 0..N
      BY <1>1
    <3> QED BY <1>5a, <3>1
  <2> QED BY <1>5a, <2>1
<1> DEFINE w == CHOOSE g : Is(g)
<1>7. Is(w)
  <2> HIDE DEF Is
  <2> QED BY <1>6
<1> HIDE DEF w, Is, step
<1>8. /\ w[0] = <<>>
      /\ \A n \in 1..N : w[n] = Kept(w[n - 1], n)
  BY <1>1, <1>7 DEF Is
<1>9. w \in [0..N -> Seq(S)]
  <2> DEFINE G == {n \in 0..N : w[n] \in Seq(S)}
  <2>1. 0 \in G
    <3>1. 0 \in 0..N /\ w[0] \in Seq(S)
      BY <1>1, <1>8
    <3> QED BY <3>1
  <2>2. ASSUME NEW n \in 1..N, n - 1 \in G PROVE n \in G
    <3>1. n - 1 \in 0..N /\ w[n - 1] \in Seq(S) /\ n \in 0..N
      BY <1>1, <2>2
    <3> QED BY <1>2, <1>8, <3>1
  <2> HIDE DEF G
  <2>3. 0..N \subseteq G
    BY <1>1, <2>1, <2>2, UpTo
  <2>4. \A n \in 0..N : w[n] \in Seq(S)
    BY <2>3 DEF G
  <2> QED BY <1>7, <2>4 DEF Is
<1>10. Without(rows, t, keys) = w[Len(rows)] /\ w \in [0..Len(rows) -> Seq(S)]
  BY <1>3, <1>9 DEF w, N
<1>11. Leaves(w, rows, t, keys)
  BY <1>8 DEF Leaves, Kept, N
<1> QED BY <1>10, <1>11

\* Of no rows, none are left.
LEMMA WithoutEmpty ==
  ASSUME NEW t, NEW keys
  PROVE  Without(<<>>, t, keys) = <<>>
<1>1. <<>> \in Seq({}) /\ Len(<<>>) = 0
  OBVIOUS
<1>2. PICK w \in [0..Len(<<>>) -> Seq({})] :
        Without(<<>>, t, keys) = w[Len(<<>>)] /\ Leaves(w, <<>>, t, keys)
  BY <1>1, WithoutDef
<1> QED BY <1>1, <1>2 DEF Leaves

\* Without, one row at a time.
LEMMA WithoutAppend ==
  ASSUME NEW S, NEW t, NEW keys, NEW rows \in Seq(S), NEW x \in S
  PROVE  /\ Without(rows, t, keys) \in Seq(S)
         /\ Without(Append(rows, x), t, keys)
              = IF <<t, x.id>> \in keys THEN Without(rows, t, keys)
                ELSE Append(Without(rows, t, keys), x)
<1> DEFINE N == Len(rows)
           more == Append(rows, x)
<1>1. /\ N \in Nat /\ more \in Seq(S) /\ Len(more) = N + 1 /\ more[N + 1] = x
      /\ \A n \in 1..N : more[n] = rows[n]
  OBVIOUS
<1>2. PICK w \in [0..Len(rows) -> Seq(S)] :
        Without(rows, t, keys) = w[Len(rows)] /\ Leaves(w, rows, t, keys)
  BY WithoutDef
<1> HIDE DEF more
<1>3. PICK v \in [0..Len(more) -> Seq(S)] :
        Without(more, t, keys) = v[Len(more)] /\ Leaves(v, more, t, keys)
  BY <1>1, WithoutDef
<1>3a. /\ Without(rows, t, keys) = w[N] /\ w[0] = <<>>
       /\ \A n \in 1..N :
            w[n] = IF <<t, rows[n].id>> \in keys THEN w[n - 1] ELSE Append(w[n - 1], rows[n])
  BY <1>2 DEF Leaves
<1>3b. /\ Without(more, t, keys) = v[N + 1] /\ v[0] = <<>>
       /\ \A n \in 1..(N + 1) :
            v[n] = IF <<t, more[n].id>> \in keys THEN v[n - 1] ELSE Append(v[n - 1], more[n])
  BY <1>1, <1>3 DEF Leaves
<1> DEFINE G == {n \in 0..N : v[n] = w[n]}
<1>4. 0 \in G
  BY <1>1, <1>3a, <1>3b
<1>5. ASSUME NEW n \in 1..N, n - 1 \in G PROVE n \in G
  <2>1. n \in 1..(N + 1) /\ more[n] = rows[n] /\ n \in 0..N /\ v[n - 1] = w[n - 1]
    BY <1>1, <1>5
  <2>2. v[n] = w[n]
    BY <1>3a, <1>3b, <2>1
  <2> QED BY <2>1, <2>2
<1> HIDE DEF G
<1>6. 0..N \subseteq G
  BY <1>1, <1>4, <1>5, UpTo
<1>7. v[N] = w[N] /\ N + 1 \in 1..(N + 1) /\ (N + 1) - 1 = N /\ w[N] \in Seq(S)
  <2>1. N \in 0..N
    BY <1>1
  <2> QED BY <1>1, <1>2, <1>6, <2>1 DEF G
<1>8. v[N + 1] = IF <<t, x.id>> \in keys THEN w[N] ELSE Append(w[N], x)
  BY <1>1, <1>3b, <1>7
<1> QED BY <1>3a, <1>3b, <1>7, <1>8 DEF more

\* What is left is a sequence of the same type.
LEMMA WithoutType ==
  ASSUME NEW S, NEW t, NEW keys, NEW rows \in Seq(S)
  PROVE  Without(rows, t, keys) \in Seq(S)
<1>1. PICK w \in [0..Len(rows) -> Seq(S)] :
        Without(rows, t, keys) = w[Len(rows)] /\ Leaves(w, rows, t, keys)
  BY WithoutDef
<1>2. Len(rows) \in 0..Len(rows)
  OBVIOUS
<1> QED BY <1>1, <1>2

\* The members of a longer sequence.
LEMMA ToSetAppend ==
  ASSUME NEW S, NEW s \in Seq(S), NEW x \in S
  PROVE  ToSet(Append(s, x)) = ToSet(s) \cup {x}
<1>1. /\ DOMAIN s = 1..Len(s) /\ Len(s) \in Nat /\ DOMAIN Append(s, x) = 1..(Len(s) + 1)
      /\ \A i \in 1..Len(s) : Append(s, x)[i] = s[i]
      /\ Append(s, x)[Len(s) + 1] = x
  OBVIOUS
<1> DEFINE n == Len(s)
           more == Append(s, x)
<1> HIDE DEF n, more
<1>2. \A i \in 1..(n + 1) : i \in 1..n \/ i = n + 1
  BY <1>1 DEF n
<1>3. n + 1 \in 1..(n + 1) /\ \A i \in 1..n : i \in 1..(n + 1)
  BY <1>1 DEF n
<1>4. {more[i] : i \in 1..(n + 1)} = {s[i] : i \in 1..n} \cup {x}
  BY <1>1, <1>2, <1>3 DEF n, more
<1> QED BY <1>1, <1>4 DEF ToSet, n, more

\* What is left are the rows that have to be kept ...
LEMMA WithoutSet ==
  ASSUME NEW S, NEW t, NEW keys, NEW rows \in Seq(S)
  PROVE  ToSet(Without(rows, t, keys)) = {x \in ToSet(rows) : <<t, x.id>> \notin keys}
<1> DEFINE W(s) == Without(s, t, keys)
           Left(s) == {x \in ToSet(s) : <<t, x.id>> \notin keys}
           G == {s \in Seq(S) : ToSet(W(s)) = Left(s)}
<1>1. W(<<>>) = <<>> /\ ToSet(<<>>) = {}
  BY WithoutEmpty DEF ToSet
<1>2. <<>> \in G
  BY <1>1
<1>3. ASSUME NEW s \in Seq(S), NEW x \in S, s \in G PROVE Append(s, x) \in G
  <2>1. /\ W(s) \in Seq(S)
        /\ W(Append(s, x)) = IF <<t, x.id>> \in keys THEN W(s) ELSE Append(W(s), x)
    BY WithoutAppend
  <2> HIDE DEF W
  <2>2. ToSet(Append(s, x)) = ToSet(s) \cup {x} /\ ToSet(Append(W(s), x)) = ToSet(W(s)) \cup {x}
    BY <2>1, ToSetAppend
  <2>3. ToSet(W(s)) = Left(s)
    BY <1>3
  <2>4. ToSet(W(Append(s, x))) = Left(Append(s, x))
    BY <2>1, <2>2, <2>3
  <2>5. Append(s, x) \in Seq(S)
    OBVIOUS
  <2> QED BY <2>4, <2>5
<1> HIDE DEF G
<1>4. Seq(S) \subseteq G
  BY <1>2, <1>3, EverySequence
<1> QED BY <1>4 DEF G

\* ... in their order ...
LEMMA WithoutOrder ==
  ASSUME NEW S, NEW t, NEW keys, NEW rows \in Seq(S),
         NEW a \in DOMAIN Without(rows, t, keys), NEW b \in DOMAIN Without(rows, t, keys), a < b
  PROVE  \E i, j \in DOMAIN rows : /\ i < j
                                   /\ Without(rows, t, keys)[a] = rows[i]
                                   /\ Without(rows, t, keys)[b] = rows[j]
<1> DEFINE W(s) == Without(s, t, keys)
           InOrder(w, s) == \A p, q \in DOMAIN w :
             p < q => \E i, j \in DOMAIN s : i < j /\ w[p] = s[i] /\ w[q] = s[j]
           G == {s \in Seq(S) : InOrder(W(s), s)}
<1>1. <<>> \in G
  BY WithoutEmpty
<1>2. ASSUME NEW s \in Seq(S), NEW x \in S, s \in G PROVE Append(s, x) \in G
  <2> DEFINE w == W(s)
             more == Append(s, x)
             n == Len(s)
  <2>1. /\ w \in Seq(S) /\ InOrder(w, s)
        /\ W(more) = IF <<t, x.id>> \in keys THEN w ELSE Append(w, x)
    BY <1>2, WithoutAppend
  <2>2. /\ more \in Seq(S) /\ DOMAIN more = 1..(n + 1) /\ DOMAIN s = 1..n /\ n \in Nat
        /\ more[n + 1] = x /\ \A i \in 1..n : more[i] = s[i]
    OBVIOUS
  <2>3. /\ DOMAIN Append(w, x) = 1..(Len(w) + 1) /\ DOMAIN w = 1..Len(w) /\ Len(w) \in Nat
        /\ Append(w, x)[Len(w) + 1] = x /\ \A i \in 1..Len(w) : Append(w, x)[i] = w[i]
    BY <2>1
  <2>4. ASSUME NEW p \in DOMAIN w PROVE \E i \in DOMAIN s : w[p] = s[i]
    <3>0. ToSet(Without(s, t, keys)) = {y \in ToSet(s) : <<t, y.id>> \notin keys}
      BY WithoutSet
    <3>1. ToSet(w) \subseteq ToSet(s)
      BY <3>0
    <3> QED BY <3>1 DEF ToSet
  <2> HIDE DEF W, w, more
  <2>5. InOrder(w, more)
    <3> SUFFICES ASSUME NEW p \in DOMAIN w, NEW q \in DOMAIN w, p < q
                 PROVE  \E i, j \in DOMAIN more : i < j /\ w[p] = more[i] /\ w[q] = more[j]
      OBVIOUS
    <3>1. PICK i \in DOMAIN s, j \in DOMAIN s : i < j /\ w[p] = s[i] /\ w[q] = s[j]
      BY <2>1
    <3>2. i \in DOMAIN more /\ j \in DOMAIN more /\ more[i] = s[i] /\ more[j] = s[j]
      BY <2>2
    <3> QED BY <3>1, <3>2
  <2>6. InOrder(Append(w, x), more)
    <3> SUFFICES ASSUME NEW p \in 1..(Len(w) + 1), NEW q \in 1..(Len(w) + 1), p < q
                 PROVE  \E i, j \in DOMAIN more :
                          i < j /\ Append(w, x)[p] = more[i] /\ Append(w, x)[q] = more[j]
      BY <2>3
    <3>1. p \in DOMAIN w /\ Append(w, x)[p] = w[p]
      BY <2>3
    <3>2. CASE q = Len(w) + 1
      <4>1. PICK i \in DOMAIN s : w[p] = s[i]
        BY <2>4, <3>1
      <4>2. i \in DOMAIN more /\ n + 1 \in DOMAIN more /\ i < n + 1 /\ more[i] = s[i]
        BY <2>2
      <4> QED BY <2>2, <2>3, <3>1, <3>2, <4>1, <4>2
    <3>3. CASE q # Len(w) + 1
      <4>1. q \in DOMAIN w /\ Append(w, x)[q] = w[q]
        BY <2>3, <3>3
      <4> QED BY <2>5, <3>1, <4>1
    <3> QED BY <3>2, <3>3
  <2>7. InOrder(W(more), more)
    BY <2>1, <2>5, <2>6
  <2> QED BY <2>2, <2>7 DEF more
<1> HIDE DEF G
<1>3. Seq(S) \subseteq G
  BY <1>1, <1>2, EverySequence
<1>4. InOrder(W(rows), rows)
  BY <1>3 DEF G
<1> QED BY <1>4

\* ... all of them when none has to go ...
LEMMA WithoutNone ==
  ASSUME NEW S, NEW t, NEW keys, NEW rows \in Seq(S),
         \A x \in ToSet(rows) : <<t, x.id>> \notin keys
  PROVE  Without(rows, t, keys) = rows
<1> DEFINE W(s) == Without(s, t, keys)
           Spared(s) == \A x \in ToSet(s) : <<t, x.id>> \notin keys
           G == {s \in Seq(S) : Spared(s) => W(s) = s}
<1>1. <<>> \in G
  BY WithoutEmpty
<1>2. ASSUME NEW s \in Seq(S), NEW x \in S, s \in G PROVE Append(s, x) \in G
  <2>1. W(Append(s, x)) = IF <<t, x.id>> \in keys THEN W(s) ELSE Append(W(s), x)
    BY WithoutAppend
  <2>2. ToSet(Append(s, x)) = ToSet(s) \cup {x} /\ Append(s, x) \in Seq(S)
    BY ToSetAppend
  <2> HIDE DEF W
  <2> QED BY <1>2, <2>1, <2>2
<1> HIDE DEF G
<1>3. Seq(S) \subseteq G
  BY <1>1, <1>2, EverySequence
<1> QED BY <1>3 DEF G

\* ... and to go twice is to go once.
LEMMA WithoutTwice ==
  ASSUME NEW S, NEW t, NEW A, NEW B, NEW rows \in Seq(S)
  PROVE  Without(Without(rows, t, A), t, B) = Without(rows, t, A \cup B)
<1> DEFINE One(s) == Without(s, t, A)
           Two(s) == Without(s, t, B)
           Both(s) == Without(s, t, A \cup B)
           G == {s \in Seq(S) : Two(One(s)) = Both(s)}
<1>1. <<>> \in G
  BY WithoutEmpty
<1>2. ASSUME NEW s \in Seq(S), NEW x \in S, s \in G PROVE Append(s, x) \in G
  <2> DEFINE k == <<t, x.id>>
  <2>1. /\ One(s) \in Seq(S)
        /\ One(Append(s, x)) = IF k \in A THEN One(s) ELSE Append(One(s), x)
    BY WithoutAppend
  <2>2. Two(Append(One(s), x)) = IF k \in B THEN Two(One(s)) ELSE Append(Two(One(s)), x)
    <3> HIDE DEF One
    <3> QED BY <2>1, WithoutAppend
  <2>3. Both(Append(s, x)) = IF k \in A \cup B THEN Both(s) ELSE Append(Both(s), x)
    BY WithoutAppend
  <2>4. Append(s, x) \in Seq(S)
    OBVIOUS
  <2> HIDE DEF One, Two, Both, k
  <2> QED BY <1>2, <2>1, <2>2, <2>3, <2>4
<1> HIDE DEF G
<1>3. Seq(S) \subseteq G
  BY <1>1, <1>2, EverySequence
<1> QED BY <1>3 DEF G

\* Sequences with the same members at the same places are the same.
LEMMA SameSequence ==
  ASSUME NEW S, NEW s \in Seq(S), NEW u \in Seq(S), Len(s) = Len(u),
         \A i \in 1..Len(s) : s[i] = u[i]
  PROVE  s = u
  OBVIOUS

\* Row i is the first with the id.
FirstAt(rows, id, i) ==
  /\ i \in DOMAIN rows /\ rows[i].id = id
  /\ \A j \in 1..(i - 1) : rows[j].id # id

\* The row that is replaced is the first with the id ...
LEMMA ReplaceIs ==
  ASSUME NEW S, NEW rows \in Seq(S), NEW id, NEW row, NEW i, FirstAt(rows, id, i)
  PROVE  ReplaceFirst(rows, id, row) = [rows EXCEPT ![i] = row]
<1> DEFINE at == {j \in DOMAIN rows : rows[j].id = id}
<1>1. i \in at /\ DOMAIN rows = 1..Len(rows) /\ Len(rows) \in Nat
  BY DEF FirstAt
<1>2. \A j \in at : i <= j
  BY <1>1 DEF FirstAt
<1>3. at \subseteq Int
  BY <1>1
<1>4. ReplaceFirst(rows, id, row) = IF at = {} THEN rows ELSE [rows EXCEPT ![Min(at)] = row]
  BY DEF ReplaceFirst
<1> HIDE DEF at
<1>5. Min(at) = i
  <2>1. Min(at) \in at /\ \A j \in at : Min(at) <= j
    BY <1>1, <1>2 DEF Min
  <2>2. Min(at) \in Int /\ i \in Int /\ Min(at) <= i /\ i <= Min(at)
    BY <1>1, <1>2, <1>3, <2>1
  <2> HIDE DEF Min
  <2> QED BY <2>2
<1> QED BY <1>1, <1>4, <1>5

\* ... if there is one ...
LEMMA ReplaceSome ==
  ASSUME NEW S, NEW rows \in Seq(S), NEW id, NEW row, \E x \in ToSet(rows) : x.id = id
  PROVE  \E i : FirstAt(rows, id, i) /\ ReplaceFirst(rows, id, row) = [rows EXCEPT ![i] = row]
<1> DEFINE at == {j \in DOMAIN rows : rows[j].id = id}
<1>1. DOMAIN rows = 1..Len(rows) /\ Len(rows) \in Nat /\ at # {}
  BY DEF ToSet
<1>2. PICK i \in at : \A j \in at : i <= j
  <2>1. at \in SUBSET Nat
    BY <1>1
  <2> HIDE DEF at
  <2> QED BY <1>1, <2>1, Smallest
<1>3. FirstAt(rows, id, i)
  <2>1. ASSUME NEW j \in 1..(i - 1), rows[j].id = id PROVE FALSE
    <3>1. j \in at /\ ~(i <= j)
      BY <1>1, <1>2, <2>1
    <3> QED BY <1>2, <3>1
  <2> QED BY <1>2, <2>1 DEF FirstAt
<1>4. ReplaceFirst(rows, id, row) = [rows EXCEPT ![i] = row]
  BY <1>3, ReplaceIs
<1> QED BY <1>3, <1>4

\* ... and nothing is replaced if there is none.
LEMMA ReplaceNone ==
  ASSUME NEW rows, NEW id, NEW row, \A x \in ToSet(rows) : x.id # id
  PROVE  ReplaceFirst(rows, id, row) = rows
<1>1. {j \in DOMAIN rows : rows[j].id = id} = {}
  BY DEF ToSet
<1> QED BY <1>1 DEF ReplaceFirst

\* A replacement is of the same type.
LEMMA ReplaceType ==
  ASSUME NEW S, NEW rows \in Seq(S), NEW id, NEW row \in S
  PROVE  ReplaceFirst(rows, id, row) \in Seq(S)
<1>1. CASE \E x \in ToSet(rows) : x.id = id
  <2>1. PICK i : FirstAt(rows, id, i) /\ ReplaceFirst(rows, id, row) = [rows EXCEPT ![i] = row]
    BY <1>1, ReplaceSome
  <2>2. i \in 1..Len(rows) /\ Len(rows) \in Nat
    BY <2>1 DEF FirstAt
  <2>3. [rows EXCEPT ![i] = row] \in Seq(S)
    BY <2>2
  <2> QED BY <2>1, <2>3
<1>2. CASE \A x \in ToSet(rows) : x.id # id
  BY <1>2, ReplaceNone
<1> QED BY <1>1, <1>2

\* What is replaced in a longer sequence, if the shorter holds the row ...
LEMMA ReplaceBelow ==
  ASSUME NEW S, NEW rows \in Seq(S), NEW x \in S, NEW id, NEW row \in S,
         \E y \in ToSet(rows) : y.id = id
  PROVE  ReplaceFirst(Append(rows, x), id, row) = Append(ReplaceFirst(rows, id, row), x)
<1>1. PICK i : FirstAt(rows, id, i) /\ ReplaceFirst(rows, id, row) = [rows EXCEPT ![i] = row]
  BY ReplaceSome
<1> DEFINE more == Append(rows, x)
           u == [rows EXCEPT ![i] = row]
<1>2. i \in 1..Len(rows) /\ Len(rows) \in Nat
  BY <1>1 DEF FirstAt
<1>3. /\ more \in Seq(S) /\ DOMAIN more = 1..(Len(rows) + 1) /\ Len(more) = Len(rows) + 1
      /\ more[Len(rows) + 1] = x /\ \A j \in 1..Len(rows) : more[j] = rows[j]
  OBVIOUS
<1>4. u \in Seq(S) /\ Len(u) = Len(rows) /\ \A j \in 1..Len(rows) : u[j] = IF j = i THEN row ELSE rows[j]
  BY <1>2
<1>5. /\ Append(u, x) \in Seq(S) /\ Len(Append(u, x)) = Len(rows) + 1
      /\ Append(u, x)[Len(rows) + 1] = x /\ \A j \in 1..Len(rows) : Append(u, x)[j] = u[j]
  <2> HIDE DEF u
  <2> QED BY <1>4
<1> HIDE DEF more
<1>6. FirstAt(more, id, i)
  BY <1>1, <1>2, <1>3 DEF FirstAt
<1>7. ReplaceFirst(more, id, row) = [more EXCEPT ![i] = row]
  BY <1>3, <1>6, ReplaceIs
<1>8. /\ [more EXCEPT ![i] = row] \in Seq(S) /\ Len([more EXCEPT ![i] = row]) = Len(rows) + 1
      /\ \A j \in 1..(Len(rows) + 1) :
           [more EXCEPT ![i] = row][j] = IF j = i THEN row ELSE more[j]
  BY <1>2, <1>3
<1>9. [more EXCEPT ![i] = row] = Append(u, x)
  <2> DEFINE v == [more EXCEPT ![i] = row]
  <2> HIDE DEF u, v
  <2>1. \A j \in 1..(Len(rows) + 1) : v[j] = Append(u, x)[j]
    <3> SUFFICES ASSUME NEW j \in 1..(Len(rows) + 1) PROVE v[j] = Append(u, x)[j]
      OBVIOUS
    <3>1. CASE j \in 1..Len(rows)
      BY <1>2, <1>3, <1>4, <1>5, <1>8, <3>1 DEF v
    <3>2. CASE j = Len(rows) + 1
      BY <1>2, <1>3, <1>5, <1>8, <3>2 DEF v
    <3>3. j \in 1..Len(rows) \/ j = Len(rows) + 1
      BY <1>2
    <3> QED BY <3>1, <3>2, <3>3
  <2> QED BY <1>5, <1>8, <2>1, SameSequence DEF v
<1> QED BY <1>1, <1>7, <1>9 DEF more

\* ... and if it does not.
LEMMA ReplaceLast ==
  ASSUME NEW S, NEW rows \in Seq(S), NEW x \in S, NEW row \in S,
         \A y \in ToSet(rows) : y.id # x.id
  PROVE  ReplaceFirst(Append(rows, x), x.id, row) = Append(rows, row)
<1> DEFINE i == Len(rows) + 1
           more == Append(rows, x)
           u == Append(rows, row)
           v == [more EXCEPT ![i] = row]
<1>1. /\ more \in Seq(S) /\ DOMAIN more = 1..i /\ Len(more) = i /\ more[i] = x
      /\ \A j \in 1..(i - 1) : j \in DOMAIN rows /\ more[j] = rows[j]
  OBVIOUS
<1>2. /\ u \in Seq(S) /\ Len(u) = i /\ u[i] = row
      /\ \A j \in 1..(i - 1) : u[j] = rows[j]
  OBVIOUS
<1>3. i \in Nat /\ i \in 1..i /\ \A j \in 1..i : j = i \/ j \in 1..(i - 1)
  OBVIOUS
<1> HIDE DEF i, more, u
<1>4. FirstAt(more, x.id, i)
  <2>1. \A j \in 1..(i - 1) : more[j].id # x.id
    BY <1>1 DEF ToSet
  <2> QED BY <1>1, <1>3, <2>1 DEF FirstAt
<1>5. ReplaceFirst(more, x.id, row) = v
  <2> DEFINE id == x.id
  <2>1. more \in Seq(S) /\ FirstAt(more, id, i)
    BY <1>1, <1>4
  <2> HIDE DEF id
  <2>2. ReplaceFirst(more, id, row) = v
    BY <2>1, ReplaceIs
  <2> QED BY <2>2 DEF id
<1>6. v \in Seq(S) /\ Len(v) = i /\ \A j \in 1..i : v[j] = IF j = i THEN row ELSE more[j]
  BY <1>1, <1>3
<1> HIDE DEF v
<1>7. \A j \in 1..i : v[j] = u[j]
  BY <1>1, <1>2, <1>3, <1>6
<1>8. v = u
  BY <1>2, <1>6, <1>7, SameSequence
<1> QED BY <1>5, <1>8 DEF more, u

\* A replacement by a row with the same id and a removal may change places.
LEMMA WithoutReplace ==
  ASSUME NEW S, NEW t, NEW keys, NEW rows \in Seq(S), NEW row \in S
  PROVE  Without(ReplaceFirst(rows, row.id, row), t, keys)
           = IF <<t, row.id>> \in keys THEN Without(rows, t, keys)
             ELSE ReplaceFirst(Without(rows, t, keys), row.id, row)
<1> DEFINE W(s) == Without(s, t, keys)
           R(s) == ReplaceFirst(s, row.id, row)
           Gone == <<t, row.id>> \in keys
           Has(s) == \E y \in ToSet(s) : y.id = row.id
           G == {s \in Seq(S) : W(R(s)) = IF Gone THEN W(s) ELSE R(W(s))}
<1>1. <<>> \in G
  <2>1. W(<<>>) = <<>>
    BY WithoutEmpty
  <2>2. R(<<>>) = <<>>
    <3>1. ToSet(<<>>) = {}
      BY DEF ToSet
    <3> QED BY <3>1, ReplaceNone
  <2>3. <<>> \in Seq(S)
    OBVIOUS
  <2> HIDE DEF W, R
  <2> QED BY <2>1, <2>2, <2>3
<1>2. ASSUME NEW s \in Seq(S), NEW x \in S, s \in G PROVE Append(s, x) \in G
  <2> DEFINE k == <<t, x.id>>
  <2>1. Append(s, x) \in Seq(S) /\ R(s) \in Seq(S)
    BY ReplaceType
  <2>2. W(s) \in Seq(S) /\ W(Append(s, x)) = IF k \in keys THEN W(s) ELSE Append(W(s), x)
    BY WithoutAppend
  <2>3. W(Append(R(s), x)) = IF k \in keys THEN W(R(s)) ELSE Append(W(R(s)), x)
    <3> HIDE DEF R
    <3> QED BY <2>1, WithoutAppend
  <2>4. W(Append(s, row)) = IF Gone THEN W(s) ELSE Append(W(s), row)
    BY WithoutAppend
  <2>5. ToSet(W(s)) = {y \in ToSet(s) : <<t, y.id>> \notin keys}
    BY WithoutSet
  <2>6. ToSet(Append(s, x)) = ToSet(s) \cup {x}
    BY ToSetAppend
  <2>7. ToSet(W(Append(s, x))) = {y \in ToSet(Append(s, x)) : <<t, y.id>> \notin keys}
    <3> DEFINE more == Append(s, x)
    <3> HIDE DEF more
    <3>1. more \in Seq(S) => ToSet(W(more)) = {y \in ToSet(more) : <<t, y.id>> \notin keys}
      BY WithoutSet
    <3> QED BY <2>1, <3>1 DEF more
  <2>8. W(R(s)) = IF Gone THEN W(s) ELSE R(W(s))
    BY <1>2
  <2>9. CASE Has(s)
    <3>1. R(Append(s, x)) = Append(R(s), x)
      BY <2>9, ReplaceBelow
    <3>2. ~Gone => R(Append(W(s), x)) = Append(R(W(s)), x)
      <4> HIDE DEF W
      <4>1. SUFFICES ASSUME ~Gone PROVE R(Append(W(s), x)) = Append(R(W(s)), x)
        OBVIOUS
      <4>2. \E y \in ToSet(W(s)) : y.id = row.id
        BY <2>5, <2>9, <4>1
      <4> QED BY <2>2, <4>2, ReplaceBelow
    <3> HIDE DEF W, R, k, Gone
    <3>3. CASE Gone
      <4>1. W(R(Append(s, x))) = W(Append(s, x))
        BY <2>2, <2>3, <2>8, <3>1, <3>3
      <4> QED BY <2>1, <3>3, <4>1
    <3>4. CASE ~Gone
      <4>1. W(R(Append(s, x))) = R(W(Append(s, x)))
        BY <2>2, <2>3, <2>8, <3>1, <3>2, <3>4
      <4> QED BY <2>1, <3>4, <4>1
    <3> QED BY <3>3, <3>4
  <2>10. CASE ~Has(s) /\ x.id = row.id
    <3>1. R(Append(s, x)) = Append(s, row)
      BY <2>10, ReplaceLast
    <3>2. R(Append(W(s), x)) = Append(W(s), row)
      <4> HIDE DEF W
      <4>1. \A y \in ToSet(W(s)) : y.id # x.id
        BY <2>5, <2>10
      <4> QED BY <2>2, <2>10, <4>1, ReplaceLast
    <3>3. k \in keys <=> Gone
      BY <2>10
    <3> HIDE DEF W, R, k, Gone
    <3> QED BY <2>1, <2>2, <2>4, <3>1, <3>2, <3>3
  <2>11. CASE ~Has(s) /\ x.id # row.id
    <3>1. R(Append(s, x)) = Append(s, x)
      <4>1. \A y \in ToSet(Append(s, x)) : y.id # row.id
        BY <2>6, <2>11
      <4> QED BY <4>1, ReplaceNone
    <3>2. R(W(Append(s, x))) = W(Append(s, x))
      <4> HIDE DEF W
      <4>1. \A y \in ToSet(W(Append(s, x))) : y.id # row.id
        BY <2>6, <2>7, <2>11
      <4> QED BY <4>1, ReplaceNone
    <3> HIDE DEF W, R, k, Gone
    <3> QED BY <2>1, <3>1, <3>2
  <2> QED BY <2>9, <2>10, <2>11
<1> HIDE DEF G
<1>3. Seq(S) \subseteq G
  BY <1>1, <1>2, EverySequence
<1> QED BY <1>3 DEF G

----------------------------------------------------------------------------
(* The tables.                                                             *)

Store == {d \in [Table -> Seq(Row)] : \A t \in Table : d[t] \in Seq(RowsOf(t))}

\* Each row is one of its table, and named by a key.
LEMMA StoreRows ==
  ASSUME NEW d \in Store, NEW t \in Table
  PROVE  /\ d[t] \in Seq(RowsOf(t)) /\ DOMAIN d[t] = 1..Len(d[t]) /\ Len(d[t]) \in Nat
         /\ \A row \in RowSet(d, t) : row \in RowsOf(t) /\ <<t, row.id>> \in Keys /\ row.id \in Id
         /\ Ids(d, t) = {row.id : row \in RowSet(d, t)}
<1>1. d[t] \in Seq(RowsOf(t))
  BY DEF Store
<1>2. DOMAIN d[t] = 1..Len(d[t]) /\ Len(d[t]) \in Nat /\ \A i \in DOMAIN d[t] : d[t][i] \in RowsOf(t)
  BY <1>1
<1>3. \A row \in RowsOf(t) : row.id \in IdsOf(t)
  BY DEF RowsOf
<1>4. \A x \in IdsOf(t) : <<t, x>> \in Keys /\ x \in Id
  BY KeysAssumption DEF IdsOf, Id
<1>5. \A row \in RowSet(d, t) : row \in RowsOf(t)
  BY <1>2 DEF RowSet, ToSet
<1>6. Ids(d, t) = {row.id : row \in RowSet(d, t)}
  BY DEF Ids, RowSet, ToSet
<1> QED BY <1>1, <1>2, <1>3, <1>4, <1>5, <1>6

\* References are between tables.
LEMMA ReferenceType ==
  ASSUME NEW r \in References
  PROVE  r.table \in Table /\ r.field \in Field /\ r.target \in Table
         /\ r \in Outgoing(r.table) /\ r \in Incoming(r.target)
  BY SchemaAssumption DEF Reference, Outgoing, Incoming

\* A table with a new last row.
LEMMA PushRows ==
  ASSUME NEW d \in Store, NEW t \in Table, NEW row \in RowsOf(t)
  PROVE  /\ Push(d, t, row) \in Store
         /\ Push(d, t, row)[t] = Append(d[t], row)
         /\ \A u \in Table : u # t => Push(d, t, row)[u] = d[u]
         /\ RowSet(Push(d, t, row), t) = RowSet(d, t) \cup {row}
         /\ \A u \in Table : Ids(Push(d, t, row), u) = IF u = t THEN Ids(d, t) \cup {row.id} ELSE Ids(d, u)
<1> DEFINE e == Push(d, t, row)
<1>1. d \in [Table -> Seq(Row)] /\ d[t] \in Seq(RowsOf(t)) /\ row \in Row
  BY DEF Store, Row
<1>2. e = [d EXCEPT ![t] = Append(d[t], row)]
  BY DEF Push
<1>3. Append(d[t], row) \in Seq(RowsOf(t)) /\ Append(d[t], row) \in Seq(Row)
  BY <1>1
<1> HIDE DEF e
<1>4. e[t] = Append(d[t], row) /\ \A u \in Table : u # t => e[u] = d[u]
  BY <1>1, <1>2
<1>5. e \in [Table -> Seq(Row)]
  BY <1>1, <1>2, <1>3
<1>6. e \in Store
  <2>1. \A u \in Table : d[u] \in Seq(RowsOf(u))
    BY DEF Store
  <2>2. \A u \in Table : e[u] \in Seq(RowsOf(u))
    BY <1>3, <1>4, <2>1
  <2> QED BY <1>5, <2>2 DEF Store
<1>7. RowSet(e, t) = RowSet(d, t) \cup {row}
  BY <1>1, <1>4, ToSetAppend DEF RowSet
<1>8. ASSUME NEW u \in Table
      PROVE  Ids(e, u) = IF u = t THEN Ids(d, t) \cup {row.id} ELSE Ids(d, u)
  <2>1. Ids(e, t) = {x.id : x \in RowSet(e, t)} /\ Ids(d, t) = {x.id : x \in RowSet(d, t)}
    BY <1>6, StoreRows
  <2>2. Ids(e, t) = Ids(d, t) \cup {row.id}
    BY <1>7, <2>1
  <2>3. u # t => Ids(e, u) = Ids(d, u)
    BY <1>4 DEF Ids
  <2> QED BY <2>2, <2>3
<1> QED BY <1>4, <1>6, <1>7, <1>8 DEF e

\* validate_write admits no insert that breaks a constraint.
LEMMA PushSound ==
  ASSUME NEW d \in Store, Sound(d), NEW t \in Table, NEW row \in RowsOf(t),
         ValidWrite(d, t, row, NoRef)
  PROVE  Push(d, t, row) \in Store /\ Sound(Push(d, t, row))
<1> DEFINE e == Push(d, t, row)
           n == Len(d[t])
<1>1. /\ e \in Store /\ e[t] = Append(d[t], row)
      /\ \A u \in Table : u # t => e[u] = d[u]
      /\ RowSet(e, t) = RowSet(d, t) \cup {row}
      /\ \A u \in Table : Ids(e, u) = IF u = t THEN Ids(d, t) \cup {row.id} ELSE Ids(d, u)
  BY PushRows
<1>2. /\ d[t] \in Seq(RowsOf(t)) /\ DOMAIN d[t] = 1..n /\ n \in Nat
      /\ Ids(d, t) = {x.id : x \in RowSet(d, t)}
      /\ \A x \in RowSet(d, t) : x.id \in Id
  BY StoreRows
<1>3. /\ DOMAIN Append(d[t], row) = 1..(n + 1) /\ Append(d[t], row)[n + 1] = row
      /\ \A i \in 1..n : Append(d[t], row)[i] = d[t][i]
  BY <1>2
<1> HIDE DEF e, n
<1>4. row.id \notin Ids(d, t)
  BY DEF ValidWrite
<1>5. RefIntegrity(e)
  <2> SUFFICES ASSUME NEW r \in References, NEW x \in RowSet(e, r.table)
               PROVE  x.refs[r.field] \in Ids(e, r.target) \cup {NoRef}
    BY DEF RefIntegrity
  <2>1. r.table \in Table /\ r.target \in Table /\ r \in Outgoing(r.table)
    BY ReferenceType
  <2>2. Ids(d, r.target) \subseteq Ids(e, r.target)
    BY <1>1, <2>1
  <2>3. CASE x \in RowSet(d, r.table)
    BY <2>2, <2>3 DEF Sound, RefIntegrity
  <2>4. CASE r.table = t /\ x = row
    BY <2>1, <2>2, <2>4 DEF ValidWrite
  <2>5. r.table # t => RowSet(e, r.table) = RowSet(d, r.table)
    BY <1>1, <2>1 DEF RowSet
  <2> QED BY <1>1, <2>3, <2>4, <2>5
<1>6. IdsUnique(e)
  <2>1. ASSUME NEW i \in 1..(n + 1), NEW j \in 1..(n + 1), e[t][i].id = e[t][j].id PROVE i = j
    <3>1. \A k \in 1..n : e[t][k] = d[t][k] /\ d[t][k].id \in Ids(d, t)
      BY <1>1, <1>2, <1>3 DEF Ids
    <3>2. \A k \in 1..(n + 1) : k \in 1..n \/ k = n + 1
      BY <1>2
    <3>3. e[t][n + 1] = row
      BY <1>1, <1>3
    <3>4. \A k, l \in 1..n : d[t][k].id = d[t][l].id => k = l
      BY <1>2 DEF Sound, IdsUnique
    <3> QED BY <1>4, <2>1, <3>1, <3>2, <3>3, <3>4
  <2>2. DOMAIN e[t] = 1..(n + 1)
    BY <1>1, <1>3
  <2>3. \A u \in Table : u # t => e[u] = d[u]
    BY <1>1
  <2> QED BY <2>1, <2>2, <2>3 DEF Sound, IdsUnique
<1>7. RefsUnique(e)
  <2> SUFFICES ASSUME NEW r \in References, r.unique,
                      NEW i \in DOMAIN e[r.table], NEW j \in DOMAIN e[r.table],
                      e[r.table][i].refs[r.field] = e[r.table][j].refs[r.field],
                      e[r.table][i].refs[r.field] # NoRef
               PROVE  i = j
    BY DEF RefsUnique
  <2>1. r.table \in Table /\ r \in Outgoing(r.table)
    BY ReferenceType
  <2>2. CASE r.table # t
    <3>1. e[r.table] = d[r.table]
      BY <1>1, <2>1, <2>2
    <3>2. RefsUnique(d)
      BY DEF Sound
    <3> QED BY <3>1, <3>2 DEF RefsUnique
  <2>3. CASE r.table = t
    <3>1. i \in 1..(n + 1) /\ j \in 1..(n + 1)
      BY <1>1, <1>3, <2>3
    <3>2. \A k \in 1..(n + 1) : k \in 1..n \/ k = n + 1
      BY <1>2
    <3>3. e[t][n + 1] = row /\ \A k \in 1..n : e[t][k] = d[t][k]
      BY <1>1, <1>3
    <3>4. ASSUME NEW k \in 1..n, row.refs[r.field] # NoRef PROVE d[t][k].refs[r.field] # row.refs[r.field]
      <4>1. d[t][k] \in RowSet(d, t)
        BY <1>2 DEF RowSet, ToSet
      <4>2. d[t][k].id # NoRef
        BY <1>2, <4>1, KeysAssumption
      <4> QED BY <2>1, <2>3, <3>4, <4>1, <4>2 DEF ValidWrite
    <3>5. \A k, l \in 1..n : (/\ d[t][k].refs[r.field] = d[t][l].refs[r.field]
                              /\ d[t][k].refs[r.field] # NoRef) => k = l
      BY <1>2, <2>3 DEF Sound, RefsUnique
    <3> QED BY <2>3, <3>1, <3>2, <3>3, <3>4, <3>5
  <2> QED BY <2>2, <2>3
<1> QED BY <1>1, <1>5, <1>6, <1>7 DEF Sound, e

\* A table with a row replaced by one with the same id.
LEMMA ReplaceRows ==
  ASSUME NEW d \in Store, NEW t \in Table, NEW row \in RowsOf(t)
  PROVE  /\ Replace(d, t, row.id, row) \in Store
         /\ Replace(d, t, row.id, row)[t] = ReplaceFirst(d[t], row.id, row)
         /\ \A u \in Table : u # t => Replace(d, t, row.id, row)[u] = d[u]
<1> DEFINE id == row.id
           e == Replace(d, t, id, row)
           new == ReplaceFirst(d[t], id, row)
<1>1. d \in [Table -> Seq(Row)] /\ d[t] \in Seq(RowsOf(t)) /\ RowsOf(t) \subseteq Row
  BY DEF Store, Row
<1>2. e = [d EXCEPT ![t] = new]
  BY DEF Replace
<1>3. new \in Seq(RowsOf(t)) /\ new \in Seq(Row)
  <2> HIDE DEF id
  <2>1. new \in Seq(RowsOf(t))
    BY <1>1, ReplaceType
  <2> HIDE DEF new
  <2> QED BY <1>1, <2>1
<1> HIDE DEF e, new
<1>4. e[t] = new /\ \A u \in Table : u # t => e[u] = d[u]
  BY <1>1, <1>2
<1>5. e \in [Table -> Seq(Row)]
  BY <1>1, <1>2, <1>3
<1>6. e \in Store
  <2>1. \A u \in Table : d[u] \in Seq(RowsOf(u))
    BY DEF Store
  <2>2. \A u \in Table : e[u] \in Seq(RowsOf(u))
    BY <1>3, <1>4, <2>1
  <2> QED BY <1>5, <2>2 DEF Store
<1> QED BY <1>4, <1>6 DEF e, new

\* Nothing changes when there is no row to replace.
LEMMA ReplaceMissing ==
  ASSUME NEW d \in Store, NEW t \in Table, NEW id, NEW row, id \notin Ids(d, t)
  PROVE  Replace(d, t, id, row) = d
<1>1. \A x \in ToSet(d[t]) : x.id # id
  BY DEF Ids, ToSet
<1>2. ReplaceFirst(d[t], id, row) = d[t]
  BY <1>1, ReplaceNone
<1>3. d \in [Table -> Seq(Row)]
  BY DEF Store
<1> QED BY <1>2, <1>3 DEF Replace

\* validate_write admits no update that breaks a constraint.
LEMMA ReplaceSound ==
  ASSUME NEW d \in Store, Sound(d), NEW t \in Table, NEW row \in RowsOf(t),
         ValidWrite(d, t, row, row.id)
  PROVE  Replace(d, t, row.id, row) \in Store /\ Sound(Replace(d, t, row.id, row))
<1> DEFINE e == Replace(d, t, row.id, row)
           n == Len(d[t])
<1>1. /\ e \in Store /\ e[t] = ReplaceFirst(d[t], row.id, row)
      /\ \A u \in Table : u # t => e[u] = d[u]
  BY ReplaceRows
<1>2. /\ d[t] \in Seq(RowsOf(t)) /\ DOMAIN d[t] = 1..n /\ n \in Nat
      /\ Ids(d, t) = {x.id : x \in RowSet(d, t)}
  BY StoreRows
<1>3. CASE row.id \notin Ids(d, t)
  BY <1>3, ReplaceMissing
<1>4. CASE row.id \in Ids(d, t)
  <2>1. \E x \in ToSet(d[t]) : x.id = row.id
    BY <1>2, <1>4 DEF RowSet
  <2>2. PICK i : FirstAt(d[t], row.id, i) /\ e[t] = [d[t] EXCEPT ![i] = row]
    <3> DEFINE id == row.id
    <3>1. \E x \in ToSet(d[t]) : x.id = id
      BY <2>1
    <3> HIDE DEF id
    <3>2. \E i : FirstAt(d[t], id, i) /\ ReplaceFirst(d[t], id, row) = [d[t] EXCEPT ![i] = row]
      BY <1>2, <3>1, ReplaceSome
    <3> QED BY <1>1, <3>2 DEF id
  <2> HIDE DEF e, n
  <2>3. i \in 1..n /\ d[t][i].id = row.id
    BY <1>2, <2>2 DEF FirstAt
  <2>4. /\ DOMAIN e[t] = 1..n /\ e[t][i] = row
        /\ \A k \in 1..n : k # i => e[t][k] = d[t][k]
    BY <1>2, <2>2, <2>3
  <2>5. \A k \in 1..n : e[t][k].id = d[t][k].id
    BY <2>3, <2>4
  <2>6. \A u \in Table : Ids(e, u) = Ids(d, u)
    <3>1. Ids(e, t) = Ids(d, t)
      BY <1>2, <2>4, <2>5 DEF Ids
    <3>2. \A u \in Table : u # t => Ids(e, u) = Ids(d, u)
      BY <1>1 DEF Ids
    <3> QED BY <3>1, <3>2
  <2>7. RowSet(e, t) \subseteq RowSet(d, t) \cup {row}
    BY <1>2, <2>4 DEF RowSet, ToSet
  <2>8. RefIntegrity(e)
    <3> SUFFICES ASSUME NEW r \in References, NEW x \in RowSet(e, r.table)
                 PROVE  x.refs[r.field] \in Ids(e, r.target) \cup {NoRef}
      BY DEF RefIntegrity
    <3>1. r.table \in Table /\ r.target \in Table /\ r \in Outgoing(r.table)
      BY ReferenceType
    <3>2. Ids(d, r.target) = Ids(e, r.target)
      BY <2>6, <3>1
    <3>3. CASE x \in RowSet(d, r.table)
      BY <3>2, <3>3 DEF Sound, RefIntegrity
    <3>4. CASE r.table = t /\ x = row
      BY <3>1, <3>2, <3>4 DEF ValidWrite
    <3>5. r.table # t => RowSet(e, r.table) = RowSet(d, r.table)
      BY <1>1, <3>1 DEF RowSet
    <3> QED BY <2>7, <3>3, <3>4, <3>5
  <2>9. IdsUnique(e)
    <3>1. \A k, l \in 1..n : d[t][k].id = d[t][l].id => k = l
      BY <1>2 DEF Sound, IdsUnique
    <3>2. \A k, l \in DOMAIN e[t] : e[t][k].id = e[t][l].id => k = l
      BY <2>4, <2>5, <3>1
    <3> QED BY <1>1, <3>2 DEF Sound, IdsUnique
  <2>10. RefsUnique(e)
    <3> SUFFICES ASSUME NEW r \in References, r.unique,
                        NEW a \in DOMAIN e[r.table], NEW b \in DOMAIN e[r.table],
                        e[r.table][a].refs[r.field] = e[r.table][b].refs[r.field],
                        e[r.table][a].refs[r.field] # NoRef
                 PROVE  a = b
      BY DEF RefsUnique
    <3>1. r.table \in Table /\ r \in Outgoing(r.table)
      BY ReferenceType
    <3>2. CASE r.table # t
      BY <1>1, <3>1, <3>2 DEF Sound, RefsUnique
    <3>3. CASE r.table = t
      <4>1. a \in 1..n /\ b \in 1..n
        BY <2>4, <3>3
      <4>2. ASSUME NEW k \in 1..n, k # i, row.refs[r.field] # NoRef
            PROVE  d[t][k].refs[r.field] # row.refs[r.field]
        <5>1. d[t][k] \in RowSet(d, t)
          BY <1>2 DEF RowSet, ToSet
        <5>2. d[t][k].id # row.id
          BY <1>2, <2>3, <4>2 DEF Sound, IdsUnique
        <5> QED BY <3>1, <3>3, <4>2, <5>1, <5>2 DEF ValidWrite
      <4>3. \A k, l \in 1..n : (/\ d[t][k].refs[r.field] = d[t][l].refs[r.field]
                                /\ d[t][k].refs[r.field] # NoRef) => k = l
        BY <1>2, <3>3 DEF Sound, RefsUnique
      <4> QED BY <2>4, <3>3, <4>1, <4>2, <4>3
    <3> QED BY <3>2, <3>3
  <2> QED BY <1>1, <2>8, <2>9, <2>10 DEF Sound, e
<1> QED BY <1>3, <1>4

\* Tables from which rows are gone.
LEMMA RetainRows ==
  ASSUME NEW d \in Store, NEW keys
  PROVE  /\ Retain(d, keys) \in Store
         /\ \A t \in Table :
              /\ Retain(d, keys)[t] = Without(d[t], t, keys)
              /\ RowSet(Retain(d, keys), t) = {row \in RowSet(d, t) : <<t, row.id>> \notin keys}
              /\ Ids(Retain(d, keys), t) = {x \in Ids(d, t) : <<t, x>> \notin keys}
<1> DEFINE e == Retain(d, keys)
<1>1. e = [t \in Table |-> Without(d[t], t, keys)]
  BY DEF Retain
<1>2. ASSUME NEW t \in Table
      PROVE  /\ e[t] = Without(d[t], t, keys) /\ e[t] \in Seq(RowsOf(t)) /\ e[t] \in Seq(Row)
             /\ RowSet(e, t) = {row \in RowSet(d, t) : <<t, row.id>> \notin keys}
  <2>1. d[t] \in Seq(RowsOf(t)) /\ RowsOf(t) \subseteq Row
    BY DEF Store, Row
  <2>2. e[t] = Without(d[t], t, keys)
    BY <1>1
  <2> HIDE DEF e
  <2>3. e[t] \in Seq(RowsOf(t))
    BY <2>1, <2>2, WithoutType
  <2>4. e[t] \in Seq(Row)
    BY <2>1, <2>3
  <2>5. ToSet(e[t]) = {row \in ToSet(d[t]) : <<t, row.id>> \notin keys}
    BY <2>1, <2>2, WithoutSet
  <2> QED BY <2>2, <2>3, <2>4, <2>5 DEF RowSet
<1>3. e \in Store
  <2>1. e \in [Table -> Seq(Row)]
    BY <1>1, <1>2
  <2> HIDE DEF e
  <2> QED BY <1>2, <2>1 DEF Store
<1> HIDE DEF e
<1>4. ASSUME NEW t \in Table PROVE Ids(e, t) = {x \in Ids(d, t) : <<t, x>> \notin keys}
  <2>1. Ids(e, t) = {row.id : row \in RowSet(e, t)} /\ Ids(d, t) = {row.id : row \in RowSet(d, t)}
    BY <1>3, StoreRows
  <2> QED BY <1>2, <2>1
<1> QED BY <1>2, <1>3, <1>4 DEF e

\* Every row that refers to one of the keys is one of them.
Closed(d, keys) ==
  \A r \in References : \A row \in RowSet(d, r.table) :
    <<r.target, row.refs[r.field]>> \in keys => <<r.table, row.id>> \in keys

\* What is taken away with all that refers to it leaves nothing dangling.
LEMMA RetainSound ==
  ASSUME NEW d \in Store, Sound(d), NEW keys, Closed(d, keys)
  PROVE  Retain(d, keys) \in Store /\ Sound(Retain(d, keys))
<1> DEFINE e == Retain(d, keys)
<1>1. /\ e \in Store
      /\ \A t \in Table :
           /\ e[t] = Without(d[t], t, keys)
           /\ RowSet(e, t) = {row \in RowSet(d, t) : <<t, row.id>> \notin keys}
           /\ Ids(e, t) = {x \in Ids(d, t) : <<t, x>> \notin keys}
  BY RetainRows
<1> HIDE DEF e
<1>2. RefIntegrity(e)
  <2> SUFFICES ASSUME NEW r \in References, NEW x \in RowSet(e, r.table), x.refs[r.field] # NoRef
               PROVE  x.refs[r.field] \in Ids(e, r.target)
    BY DEF RefIntegrity
  <2>1. r.table \in Table /\ r.target \in Table
    BY ReferenceType
  <2>2. x \in RowSet(d, r.table) /\ <<r.table, x.id>> \notin keys
    BY <1>1, <2>1
  <2>3. x.refs[r.field] \in Ids(d, r.target)
    BY <2>2 DEF Sound, RefIntegrity
  <2>4. <<r.target, x.refs[r.field]>> \notin keys
    BY <2>2 DEF Closed
  <2> QED BY <1>1, <2>1, <2>3, <2>4
<1>3. ASSUME NEW t \in Table, NEW i \in DOMAIN e[t], NEW j \in DOMAIN e[t], i # j
      PROVE  \E a, b \in DOMAIN d[t] : a # b /\ e[t][i] = d[t][a] /\ e[t][j] = d[t][b]
  <2>1. d[t] \in Seq(RowsOf(t)) /\ e[t] \in Seq(RowsOf(t)) /\ e[t] = Without(d[t], t, keys)
    BY <1>1 DEF Store
  <2>2. ASSUME NEW p \in DOMAIN e[t], NEW q \in DOMAIN e[t], p < q
        PROVE  \E a, b \in DOMAIN d[t] : a # b /\ e[t][p] = d[t][a] /\ e[t][q] = d[t][b]
    <3> DEFINE rows == d[t]
    <3>0. /\ rows \in Seq(RowsOf(t))
          /\ p \in DOMAIN Without(rows, t, keys) /\ q \in DOMAIN Without(rows, t, keys)
      BY <2>1
    <3> HIDE DEF rows
    <3>0a. \E a, b \in DOMAIN rows : /\ a < b
                                    /\ Without(rows, t, keys)[p] = rows[a]
                                    /\ Without(rows, t, keys)[q] = rows[b]
      BY <2>2, <3>0, WithoutOrder
    <3>1. PICK a \in DOMAIN d[t], b \in DOMAIN d[t] : a < b /\ e[t][p] = d[t][a] /\ e[t][q] = d[t][b]
      BY <2>1, <3>0a DEF rows
    <3>2. a # b
      BY <2>1, <3>1
    <3> QED BY <3>1, <3>2
  <2>3. i \in Int /\ j \in Int /\ (i < j \/ j < i)
    BY <1>3, <2>1
  <2> QED BY <2>2, <2>3
<1>4. IdsUnique(e)
  BY <1>3 DEF Sound, IdsUnique
<1>5. RefsUnique(e)
  <2> SUFFICES ASSUME NEW r \in References, r.unique,
                      NEW i \in DOMAIN e[r.table], NEW j \in DOMAIN e[r.table],
                      e[r.table][i].refs[r.field] = e[r.table][j].refs[r.field],
                      e[r.table][i].refs[r.field] # NoRef, i # j
               PROVE  FALSE
    BY DEF RefsUnique
  <2>1. r.table \in Table
    BY ReferenceType
  <2>2. PICK a \in DOMAIN d[r.table], b \in DOMAIN d[r.table] :
          a # b /\ e[r.table][i] = d[r.table][a] /\ e[r.table][j] = d[r.table][b]
    BY <1>3, <2>1
  <2> QED BY <2>2 DEF Sound, RefsUnique
<1> QED BY <1>1, <1>2, <1>4, <1>5 DEF Sound, e

----------------------------------------------------------------------------
(* Deletion plans.                                                         *)

Depth == Cardinality(Table)

\* A plan of depth n, from the plans of depth n - 1.
Grown(d, before, n) ==
  [x \in Keys |->
     UNION {LET deps == Dependents(d, r, x) IN
            IF deps = {} THEN {}
            ELSE IF ~r.cascade \/ n = 0 THEN {Refused}
            ELSE deps \cup UNION {before[y] : y \in deps}
            : r \in Incoming(x[1])}]

\* What one reference adds to the plan for x.
Adds(d, before, n, r, x, z) ==
  /\ Dependents(d, r, x) # {}
  /\ \/ (~r.cascade \/ n = 0) /\ z = Refused
     \/ /\ r.cascade /\ n # 0
        /\ z \in Dependents(d, r, x) \/ \E y \in Dependents(d, r, x) : z \in before[y]

\* A member of a plan is what some reference adds to it.
LEMMA GrownIs ==
  ASSUME NEW d, NEW before, NEW n, NEW x \in Keys, NEW z
  PROVE  z \in Grown(d, before, n)[x] <=> \E r \in Incoming(x[1]) : Adds(d, before, n, r, x, z)
<1> DEFINE Part(r) == LET deps == Dependents(d, r, x) IN
                      IF deps = {} THEN {}
                      ELSE IF ~r.cascade \/ n = 0 THEN {Refused}
                      ELSE deps \cup UNION {before[y] : y \in deps}
<1>1. Grown(d, before, n)[x] = UNION {Part(r) : r \in Incoming(x[1])}
  BY DEF Grown
<1>2. ASSUME NEW r \in Incoming(x[1]) PROVE z \in Part(r) <=> Adds(d, before, n, r, x, z)
  <2> DEFINE deps == Dependents(d, r, x)
  <2>1. z \in UNION {before[y] : y \in deps} <=> \E y \in deps : z \in before[y]
    OBVIOUS
  <2>2. Part(r) = IF deps = {} THEN {}
                  ELSE IF ~r.cascade \/ n = 0 THEN {Refused}
                  ELSE deps \cup UNION {before[y] : y \in deps}
    OBVIOUS
  <2>3. Adds(d, before, n, r, x, z)
          <=> /\ deps # {}
              /\ \/ (~r.cascade \/ n = 0) /\ z = Refused
                 \/ r.cascade /\ n # 0 /\ (z \in deps \/ \E y \in deps : z \in before[y])
    BY DEF Adds
  <2> HIDE DEF deps, Part
  <2> QED BY <2>1, <2>2, <2>3
<1> HIDE DEF Part
<1> QED BY <1>1, <1>2

\* Dependents are rows that exist, one per row that refers to k.
LEMMA DependentsAre ==
  ASSUME NEW d \in Store, NEW r \in References, NEW k
  PROVE  /\ Dependents(d, r, k) \subseteq Existing(d)
         /\ \A z \in Dependents(d, r, k) : z[1] = r.table
         /\ \A row \in RowSet(d, r.table) :
              row.refs[r.field] = k[2] => <<r.table, row.id>> \in Dependents(d, r, k)
         /\ \A z \in Dependents(d, r, k) : \E row \in RowSet(d, r.table) :
              row.refs[r.field] = k[2] /\ z = <<r.table, row.id>>
<1>1. r.table \in Table
  BY ReferenceType
<1>2. \A row \in RowSet(d, r.table) : <<r.table, row.id>> \in Keys /\ row.id \in Ids(d, r.table)
  BY <1>1, StoreRows
<1>3. \A z \in Dependents(d, r, k) : \E row \in RowSet(d, r.table) :
        row.refs[r.field] = k[2] /\ z = <<r.table, row.id>>
  BY DEF Dependents
<1>4. \A row \in RowSet(d, r.table) :
        row.refs[r.field] = k[2] => <<r.table, row.id>> \in Dependents(d, r, k)
  BY DEF Dependents
<1>5. \A row \in RowSet(d, r.table) : <<r.table, row.id>> \in Existing(d)
  BY <1>2 DEF Existing
<1> QED BY <1>3, <1>4, <1>5

Plans == [Keys -> SUBSET (Keys \cup {Refused})]

\* A plan holds keys and marks of a refusal.
LEMMA GrownType ==
  ASSUME NEW d \in Store, NEW n, NEW before, n = 0 \/ before \in Plans
  PROVE  Grown(d, before, n) \in Plans
<1>1. ASSUME NEW x \in Keys, NEW z \in Grown(d, before, n)[x] PROVE z \in Keys \cup {Refused}
  <2>1. PICK r \in Incoming(x[1]) : Adds(d, before, n, r, x, z)
    BY GrownIs
  <2>2. Dependents(d, r, x) \subseteq Keys
    BY DependentsAre DEF Incoming, Existing
  <2> QED BY <2>1, <2>2 DEF Adds, Plans
<1>2. Grown(d, before, n) = [x \in Keys |-> Grown(d, before, n)[x]]
  BY DEF Grown
<1> QED BY <1>1, <1>2 DEF Plans

\* The plans of every depth.
Deepens(plan, d) ==
  /\ plan[0] = Grown(d, {}, 0)
  /\ \A n \in 1..Depth : plan[n] = Grown(d, plan[n - 1], n)

\* A schema has finitely many tables.
LEMMA DepthType == Depth \in Nat
  BY SchemaAssumption, FS_CardinalityType DEF Depth

\* plan_delete builds its plans one level of references at a time.
LEMMA PlanDef ==
  ASSUME NEW d \in Store
  PROVE  \E plan \in [0..Depth -> Plans] :
           Deepens(plan, d) /\ \A k : PlanDelete(d, k) = plan[Depth][k]
<1> DEFINE Is(g) == g = [n \in 0..Depth |-> Grown(d, g[n - 1], n)]
           step == [n \in 1..Depth |-> [p \in Plans |-> Grown(d, p, n)]]
           none == Grown(d, {}, 0)
<1>1. \A k : PlanDelete(d, k) = (CHOOSE g : Is(g))[Depth][k]
  BY DEF PlanDelete, Depth, Grown
<1>2. \A p : Grown(d, p, 0) = none
  <2> SUFFICES ASSUME NEW p PROVE Grown(d, p, 0) = none
    OBVIOUS
  <2>1. \A x \in Keys : \A z : z \in Grown(d, p, 0)[x] <=> z \in none[x]
    <3>1. \A x \in Keys : \A z : \A r : Adds(d, p, 0, r, x, z) <=> Adds(d, {}, 0, r, x, z)
      BY DEF Adds
    <3> QED BY <3>1, GrownIs
  <2>2. /\ Grown(d, p, 0) = [x \in Keys |-> Grown(d, p, 0)[x]]
        /\ none = [x \in Keys |-> none[x]]
    BY DEF Grown
  <2>3. \A x \in Keys : Grown(d, p, 0)[x] = none[x]
    BY <2>1
  <2> HIDE DEF none
  <2> QED BY <2>2, <2>3
<1>3. Depth \in Nat
  BY DepthType
<1>4. none \in Plans /\ step \in [1..Depth -> [Plans -> Plans]]
  BY GrownType
<1> HIDE DEF none
<1>5. PICK f \in [0..Depth -> Plans] : Runs(f, none, Depth, step)
  <2> HIDE DEF step
  <2> QED BY <1>3, <1>4, ChainExists
<1>6. f[0] = none /\ \A n \in 1..Depth : f[n] = Grown(d, f[n - 1], n)
  <2>1. \A n \in 1..Depth : n - 1 \in 0..Depth /\ f[n - 1] \in Plans
    BY <1>3
  <2> QED BY <1>5, <2>1 DEF Runs
<1>7. Is(f)
  <2>1. ASSUME NEW n \in 0..Depth PROVE f[n] = Grown(d, f[n - 1], n)
    <3>1. n = 0 \/ n \in 1..Depth
      BY <1>3
    <3> QED BY <1>2, <1>6, <3>1
  <2> QED BY <2>1
<1> DEFINE plan == CHOOSE g : Is(g)
<1>8. Is(plan)
  <2> HIDE DEF Is
  <2> QED BY <1>7
<1> HIDE DEF plan, step
<1>9. \A n \in 0..Depth : plan[n] = Grown(d, plan[n - 1], n)
  BY <1>8
<1>10. Deepens(plan, d)
  <2>1. 0 \in 0..Depth /\ \A n \in 1..Depth : n \in 0..Depth
    BY <1>3
  <2> QED BY <1>2, <1>9, <2>1 DEF Deepens, none
<1>11. plan \in [0..Depth -> Plans]
  <2> DEFINE G == {n \in 0..Depth : plan[n] \in Plans}
  <2>1. 0 \in G
    BY <1>3, <1>4, <1>10 DEF Deepens, none
  <2>2. ASSUME NEW n \in 1..Depth, n - 1 \in G PROVE n \in G
    BY <1>3, <1>10, <2>2, GrownType DEF Deepens
  <2> HIDE DEF G
  <2>3. 0..Depth \subseteq G
    BY <1>3, <2>1, <2>2, UpTo
  <2>4. \A n \in 0..Depth : plan[n] \in Plans
    BY <2>3 DEF G
  <2>5. plan = [n \in 0..Depth |-> plan[n]]
    BY <1>8
  <2> QED BY <2>4, <2>5
<1> HIDE DEF Is
<1>12. \A k : PlanDelete(d, k) = plan[Depth][k]
  BY <1>1 DEF plan
<1> QED BY <1>10, <1>11, <1>12

\* P holds whatever refers to x or to one of its own members, through cascading references only.
TakesAll(d, x, P) ==
  \A y \in {x} \cup P : \A r \in Incoming(y[1]) :
    Dependents(d, r, y) # {} => r.cascade /\ Dependents(d, r, y) \subseteq P

\* Every set of rows that is closed and holds x holds P, but for the mark of a refusal,
\* and has a restricting reference into it if P holds the mark.
TakesOnly(d, x, P) ==
  \A T : x \in T /\ ClosedUnderCascade(d, T) =>
    /\ P \subseteq T \cup {Refused}
    /\ Refused \in P => Restricted(d, T)

\* A closed set holds what refers to its members.
LEMMA CascadeTakes ==
  ASSUME NEW d \in Store, NEW T, ClosedUnderCascade(d, T), NEW x \in Keys, x \in T,
         NEW r \in Incoming(x[1]), r.cascade
  PROVE  Dependents(d, r, x) \subseteq T
<1> SUFFICES ASSUME NEW z \in Dependents(d, r, x) PROVE z \in T
  OBVIOUS
<1>1. r \in References /\ r.target = x[1] /\ x = <<x[1], x[2]>>
  BY KeysAssumption DEF Incoming
<1>2. PICK row \in RowSet(d, r.table) : row.refs[r.field] = x[2] /\ z = <<r.table, row.id>>
  BY <1>1, DependentsAre
<1>3. <<r.target, row.refs[r.field]>> = x
  BY <1>1, <1>2
<1> QED BY <1>1, <1>2, <1>3 DEF ClosedUnderCascade

\* One level of a plan, when the plans below are what they should be.
LEMMA GrownTakes ==
  ASSUME NEW d \in Store, NEW n, n # 0, NEW before \in Plans, NEW x \in Keys,
         \A r \in Incoming(x[1]) : \A w \in Dependents(d, r, x) :
           /\ Refused \notin before[w] => TakesAll(d, w, before[w])
           /\ TakesOnly(d, w, before[w])
  PROVE  /\ Refused \notin Grown(d, before, n)[x] => TakesAll(d, x, Grown(d, before, n)[x])
         /\ TakesOnly(d, x, Grown(d, before, n)[x])
<1> DEFINE P == Grown(d, before, n)[x]
<1>1. \A z : z \in P <=> \E r \in Incoming(x[1]) : Adds(d, before, n, r, x, z)
  BY GrownIs
<1> HIDE DEF P
<1>2. \A r \in Incoming(x[1]) : r \in References /\ r.target = x[1] /\ Dependents(d, r, x) \subseteq Keys
  BY DependentsAre DEF Incoming, Existing
<1>3. ASSUME NEW r \in Incoming(x[1]), r.cascade, NEW w \in Dependents(d, r, x)
      PROVE  w \in P /\ before[w] \subseteq P
  <2>1. Adds(d, before, n, r, x, w) /\ \A z \in before[w] : Adds(d, before, n, r, x, z)
    BY <1>3 DEF Adds
  <2> QED BY <1>1, <2>1
<1>4. ASSUME Refused \notin P PROVE TakesAll(d, x, P)
  <2>1. ASSUME NEW r \in Incoming(x[1]), Dependents(d, r, x) # {} PROVE r.cascade
    <3>1. ~r.cascade => Adds(d, before, n, r, x, Refused)
      BY <2>1 DEF Adds
    <3> QED BY <1>1, <1>4, <3>1
  <2>2. ASSUME NEW y \in P
        PROVE  \E r \in Incoming(x[1]) : \E w \in Dependents(d, r, x) :
                 r.cascade /\ (y = w \/ y \in before[w])
    <3>1. PICK r \in Incoming(x[1]) : Adds(d, before, n, r, x, y)
      BY <1>1
    <3> QED BY <1>4, <3>1 DEF Adds
  <2>3. ASSUME NEW y \in P, NEW q \in Incoming(y[1]), Dependents(d, q, y) # {}
        PROVE  q.cascade /\ Dependents(d, q, y) \subseteq P
    <3>0. PICK r \in Incoming(x[1]) : \E w \in Dependents(d, r, x) :
            r.cascade /\ (y = w \/ y \in before[w])
      BY <2>2
    <3>1. PICK w \in Dependents(d, r, x) : r.cascade /\ (y = w \/ y \in before[w])
      BY <3>0
    <3>2. before[w] \subseteq P /\ Refused \notin before[w]
      BY <1>3, <1>4, <3>1
    <3>3. TakesAll(d, w, before[w])
      BY <3>2
    <3>4. q.cascade /\ Dependents(d, q, y) \subseteq before[w]
      BY <2>3, <3>1, <3>3 DEF TakesAll
    <3> QED BY <3>2, <3>4
  <2>4. ASSUME NEW q \in Incoming(x[1]), Dependents(d, q, x) # {}
        PROVE  q.cascade /\ Dependents(d, q, x) \subseteq P
    BY <1>3, <2>1, <2>4
  <2> QED BY <2>3, <2>4 DEF TakesAll
<1>5. TakesOnly(d, x, P)
  <2> SUFFICES ASSUME NEW T, x \in T, ClosedUnderCascade(d, T)
               PROVE  P \subseteq T \cup {Refused} /\ (Refused \in P => Restricted(d, T))
    BY DEF TakesOnly
  <2>1. ASSUME NEW r \in Incoming(x[1]), r.cascade, NEW w \in Dependents(d, r, x)
        PROVE  /\ w \in T /\ w # Refused /\ before[w] \subseteq T \cup {Refused}
               /\ Refused \in before[w] => Restricted(d, T)
    <3>1. w \in T
      BY <2>1, CascadeTakes
    <3>2. w # Refused
      BY <1>2, KeysAssumption
    <3>3. TakesOnly(d, w, before[w])
      OBVIOUS
    <3> QED BY <3>1, <3>2, <3>3 DEF TakesOnly
  <2>2. ASSUME NEW r \in Incoming(x[1]), ~r.cascade, Dependents(d, r, x) # {}
        PROVE  Restricted(d, T)
    BY <1>2, <2>2 DEF Restricted
  <2>3. ASSUME NEW z \in P PROVE z \in T \cup {Refused} /\ (z = Refused => Restricted(d, T))
    <3>1. PICK r \in Incoming(x[1]) : Adds(d, before, n, r, x, z)
      BY <1>1
    <3>2. CASE ~r.cascade
      BY <2>2, <3>1, <3>2 DEF Adds
    <3>3. CASE r.cascade
      <4>1. PICK w \in Dependents(d, r, x) : z = w \/ z \in before[w]
        BY <3>1, <3>3 DEF Adds
      <4> QED BY <2>1, <3>3, <4>1
    <3> QED BY <3>2, <3>3
  <2> QED BY <2>3
<1> QED BY <1>4, <1>5 DEF P

\* plan_delete finds all that has to go and nothing else, or finds that it must refuse:
\* references run from tables of higher rank to tables of lower rank, so that its recursion
\* ends before it is as deep as there are tables.
LEMMA PlanIs ==
  ASSUME NEW d \in Store, NEW k \in Keys
  PROVE  /\ PlanDelete(d, k) \subseteq Keys \cup {Refused}
         /\ Refused \notin PlanDelete(d, k) => TakesAll(d, k, PlanDelete(d, k))
         /\ TakesOnly(d, k, PlanDelete(d, k))
<1>1. PICK rank \in [Table -> 1..Depth] : \A r \in References : rank[r.target] < rank[r.table]
  BY SchemaAssumption DEF AcyclicSchema, Depth
<1>2. PICK plan \in [0..Depth -> Plans] :
        Deepens(plan, d) /\ \A x : PlanDelete(d, x) = plan[Depth][x]
  BY PlanDef
<1>3. Depth \in Nat /\ \A x \in Keys : rank[x[1]] \in 1..Depth
  BY <1>1, DepthType, KeysAssumption
<1> DEFINE Right(n) == \A x \in Keys : n + rank[x[1]] > Depth =>
                         /\ Refused \notin plan[n][x] => TakesAll(d, x, plan[n][x])
                         /\ TakesOnly(d, x, plan[n][x])
           G == {n \in 0..Depth : Right(n)}
<1>4. 0 \in G
  <2>1. \A x \in Keys : ~(0 + rank[x[1]] > Depth)
    BY <1>3
  <2> QED BY <1>3, <2>1
<1>5. ASSUME NEW n \in 1..Depth, n - 1 \in G PROVE n \in G
  <2>1. n # 0 /\ n \in 0..Depth /\ plan[n] = Grown(d, plan[n - 1], n) /\ plan[n - 1] \in Plans
    BY <1>2, <1>3 DEF Deepens
  <2>2. ASSUME NEW x \in Keys, n + rank[x[1]] > Depth
        PROVE  /\ Refused \notin plan[n][x] => TakesAll(d, x, plan[n][x])
               /\ TakesOnly(d, x, plan[n][x])
    <3>1. ASSUME NEW r \in Incoming(x[1]), NEW w \in Dependents(d, r, x)
          PROVE  /\ Refused \notin plan[n - 1][w] => TakesAll(d, w, plan[n - 1][w])
                 /\ TakesOnly(d, w, plan[n - 1][w])
      <4>1. r \in References /\ r.target = x[1] /\ r.table \in Table
        BY ReferenceType DEF Incoming
      <4>2. w \in Keys /\ w[1] = r.table
        BY <4>1, DependentsAre DEF Existing
      <4>3. rank[x[1]] < rank[w[1]]
        BY <1>1, <4>1, <4>2
      <4>4. (n - 1) + rank[w[1]] > Depth
        BY <1>3, <2>2, <4>2, <4>3
      <4> QED BY <1>5, <4>2, <4>4
    <3> HIDE DEF G
    <3> QED BY <2>1, <3>1, GrownTakes
  <2> QED BY <2>1, <2>2
<1> HIDE DEF G
<1>6. 0..Depth \subseteq G
  BY <1>3, <1>4, <1>5, UpTo
<1>7. Depth \in 0..Depth /\ Depth + rank[k[1]] > Depth
  BY <1>3
<1>8. /\ Refused \notin plan[Depth][k] => TakesAll(d, k, plan[Depth][k])
      /\ TakesOnly(d, k, plan[Depth][k])
  BY <1>6, <1>7 DEF G
<1>9. plan[Depth][k] \subseteq Keys \cup {Refused}
  BY <1>7 DEF Plans
<1> QED BY <1>2, <1>8, <1>9

----------------------------------------------------------------------------
(* Deletes.                                                                *)

\* A key is a table and one of its ids, and neither is a sentinel.
LEMMA KeyOf ==
  ASSUME NEW k \in Keys
  PROVE  k = <<k[1], k[2]>> /\ k[1] \in Table /\ k[2] \in IdsOf(k[1]) /\ k[2] \in Id
         /\ k # Refused /\ k[2] # NoRef
  BY KeysAssumption DEF IdsOf, Id

\* What plan_delete finds are rows that exist.
LEMMA PlanExists ==
  ASSUME NEW d \in Store, NEW k \in Keys
  PROVE  PlanDelete(d, k) \subseteq {k, Refused} \cup Existing(d)
<1> DEFINE T == {k} \cup Existing(d)
<1>1. ASSUME NEW r \in References, NEW row \in RowSet(d, r.table)
      PROVE  <<r.table, row.id>> \in T
  <2>1. r.table \in Table
    BY ReferenceType
  <2>2. <<r.table, row.id>> \in Keys /\ row.id \in Ids(d, r.table)
    BY <2>1, StoreRows
  <2> QED BY <2>2 DEF Existing
<1>2. k \in T /\ ClosedUnderCascade(d, T)
  BY <1>1 DEF ClosedUnderCascade
<1> HIDE DEF T
<1>3. PlanDelete(d, k) \subseteq T \cup {Refused}
  BY <1>2, PlanIs DEF TakesOnly
<1> QED BY <1>3 DEF T

\* A plan that is not refused takes every row along that refers to one it takes.
LEMMA PlanClosed ==
  ASSUME NEW d \in Store, NEW k \in Keys, Refused \notin PlanDelete(d, k)
  PROVE  Closed(d, {k} \cup PlanDelete(d, k)) /\ ~Restricted(d, {k} \cup PlanDelete(d, k))
<1> DEFINE P == PlanDelete(d, k)
<1>1. TakesAll(d, k, P)
  BY PlanIs
<1> HIDE DEF P
<1>2. ASSUME NEW r \in References, NEW row \in RowSet(d, r.table),
             <<r.target, row.refs[r.field]>> \in {k} \cup P
      PROVE  <<r.table, row.id>> \in P
  <2> DEFINE y == <<r.target, row.refs[r.field]>>
  <2>1. y[1] = r.target /\ y[2] = row.refs[r.field] /\ y \in {k} \cup P
    BY <1>2
  <2> HIDE DEF y
  <2>2. r \in Incoming(y[1])
    BY <2>1, ReferenceType
  <2>3. <<r.table, row.id>> \in Dependents(d, r, y)
    BY <2>1, DependentsAre
  <2> QED BY <1>1, <2>1, <2>2, <2>3 DEF TakesAll
<1>3. Closed(d, {k} \cup P)
  BY <1>2 DEF Closed
<1>4. ~Restricted(d, {k} \cup P)
  BY <1>1, ReferenceType DEF Restricted, TakesAll, Incoming
<1> QED BY <1>3, <1>4 DEF P

\* db_delete_checked takes a row away exactly with those that follow it.
LEMMA DeletedIs ==
  ASSUME NEW d \in Store, NEW k \in Existing(d)
  PROVE  IF Restricted(d, CascadeClosure(d, k)) THEN ~DeleteFrom(d, k).ok
         ELSE DeleteFrom(d, k).ok /\ DeleteFrom(d, k).db = Retain(d, CascadeClosure(d, k))
<1> DEFINE P == PlanDelete(d, k)
           C == {k} \cup P
           closure == CascadeClosure(d, k)
           result == DeleteFrom(d, k)
           Holds(S) == S \in SUBSET Existing(d) /\ k \in S /\ ClosedUnderCascade(d, S)
<1>1. k \in Keys /\ k[2] \in Ids(d, k[1])
  BY DEF Existing
<1>2. result = IF Refused \in P THEN Refuse(d) ELSE [ok |-> TRUE, db |-> Retain(d, C), deleted |-> C]
  BY <1>1 DEF DeleteFrom
<1>3. \A x : x \in closure <=> x \in Existing(d) /\ \A S : Holds(S) => x \in S
  BY DEF CascadeClosure
<1>4. TakesOnly(d, k, P) /\ P \subseteq {k, Refused} \cup Existing(d)
  BY <1>1, PlanIs, PlanExists
<1>5. Refused \notin P => Closed(d, C) /\ ~Restricted(d, C)
  BY <1>1, PlanClosed
<1>6. k # Refused
  BY <1>1, KeyOf
<1> HIDE DEF P, closure, result, Holds
<1>7. CASE Refused \notin P
  <2>1. Holds(C)
    BY <1>4, <1>5, <1>7 DEF Holds, Closed, ClosedUnderCascade
  <2>2. \A S : Holds(S) => C \subseteq S
    BY <1>4, <1>7 DEF Holds, TakesOnly
  <2>3. closure = C
    BY <1>3, <2>1, <2>2 DEF Holds
  <2>4. result.ok /\ result.db = Retain(d, closure)
    <3> HIDE DEF C
    <3> QED BY <1>2, <1>7, <2>3
  <2> QED BY <1>5, <1>7, <2>3, <2>4 DEF closure, result
<1>8. CASE Refused \in P
  <2>1. k \in closure
    BY <1>3 DEF Holds
  <2>2. ClosedUnderCascade(d, closure)
    <3> SUFFICES ASSUME NEW r \in References, r.cascade, NEW row \in RowSet(d, r.table),
                        <<r.target, row.refs[r.field]>> \in closure
                 PROVE  <<r.table, row.id>> \in closure
      BY DEF ClosedUnderCascade
    <3> DEFINE y == <<r.target, row.refs[r.field]>>
               z == <<r.table, row.id>>
    <3>1. r.table \in Table
      BY ReferenceType
    <3>2. z \in Existing(d)
      BY <3>1, StoreRows DEF Existing
    <3>3. \A S : Holds(S) /\ y \in S => z \in S
      BY DEF Holds, ClosedUnderCascade
    <3> HIDE DEF y, z
    <3>4. y \in closure
      BY DEF y
    <3>5. z \in closure
      BY <1>3, <3>2, <3>3, <3>4
    <3> QED BY <3>5 DEF z
  <2>3. Restricted(d, closure)
    BY <1>4, <1>8, <2>1, <2>2 DEF TakesOnly
  <2>4. ~result.ok
    BY <1>2, <1>8 DEF Refuse
  <2> QED BY <2>3, <2>4 DEF closure, result
<1> QED BY <1>7, <1>8

\* A row that is not there has nothing that refers to it, and its delete changes nothing.
LEMMA DeleteMissing ==
  ASSUME NEW d \in Store, Sound(d), NEW k \in Keys, k[2] \notin Ids(d, k[1])
  PROVE  /\ {k} \cup PlanDelete(d, k) = {k} /\ Refused \notin PlanDelete(d, k)
         /\ Retain(d, {k}) = d
<1>1. k = <<k[1], k[2]>> /\ k[1] \in Table /\ k # Refused /\ k[2] # NoRef
  BY KeyOf
<1>2. ASSUME NEW r \in References, NEW row \in RowSet(d, r.table)
      PROVE  <<r.target, row.refs[r.field]>> # k
  BY <1>1 DEF Sound, RefIntegrity
<1>3. ClosedUnderCascade(d, {k})
  BY <1>2 DEF ClosedUnderCascade
<1>4. ~Restricted(d, {k})
  <2> SUFFICES ASSUME NEW r \in References, r.target = k[1], NEW z \in Dependents(d, r, k) PROVE FALSE
    BY DEF Restricted
  <2>1. PICK row \in RowSet(d, r.table) : row.refs[r.field] = k[2]
    BY DependentsAre
  <2> QED BY <1>1, <1>2, <2>1
<1>5. PlanDelete(d, k) \subseteq {k} \cup {Refused} /\ Refused \notin PlanDelete(d, k)
  <2> DEFINE T == {k}
  <2>1. k \in T /\ ClosedUnderCascade(d, T) /\ ~Restricted(d, T)
    BY <1>3, <1>4
  <2> HIDE DEF T
  <2>2. PlanDelete(d, k) \subseteq T \cup {Refused} /\ Refused \notin PlanDelete(d, k)
    BY <2>1, PlanIs DEF TakesOnly
  <2> QED BY <2>2 DEF T
<1>6. ASSUME NEW t \in Table PROVE Without(d[t], t, {k}) = d[t]
  <2>1. d[t] \in Seq(RowsOf(t)) /\ Ids(d, t) = {x.id : x \in RowSet(d, t)}
    BY StoreRows
  <2>2. \A x \in ToSet(d[t]) : <<t, x.id>> \notin {k}
    BY <1>1, <2>1 DEF RowSet
  <2> DEFINE keys == {k}
  <2> HIDE DEF keys
  <2>3. (\A x \in ToSet(d[t]) : <<t, x.id>> \notin keys) => Without(d[t], t, keys) = d[t]
    BY <2>1, WithoutNone
  <2> QED BY <2>2, <2>3 DEF keys
<1>7. d = [t \in Table |-> d[t]]
  BY DEF Store
<1>8. Retain(d, {k}) = d
  BY <1>6, <1>7 DEF Retain
<1> QED BY <1>5, <1>8

----------------------------------------------------------------------------
(* One call.                                                               *)

Result == [ok : BOOLEAN, db : Store, deleted : SUBSET Keys]

\* What a scenario may ask for.
LEMMA OperationType ==
  ASSUME KeepsId, NEW op \in AdmissibleOps
  PROVE  /\ op.kind \in {"insert", "update", "delete"}
         /\ op.table \in Table /\ <<op.table, op.id>> \in Keys
         /\ op.kind # "delete" => op.row \in RowsOf(op.table) /\ op.row.id = op.id
<1>1. PICK t \in Table :
        op \in {Op(t, "insert", row.id, row) : row \in RowsOf(t)}
               \cup {Op(t, "update", id, row) : id \in IdsOf(t), row \in RowsOf(t)}
               \cup {Op(t, "delete", id, CHOOSE row \in RowsOf(t) : row.id = id) : id \in IdsOf(t)}
  BY DEF AdmissibleOps, Operations
<1>2. \A id \in IdsOf(t) : <<t, id>> \in Keys
  BY KeysAssumption DEF IdsOf
<1>3. \A row \in RowsOf(t) : row.id \in IdsOf(t)
  BY DEF RowsOf
<1>4. CASE \E row \in RowsOf(t) : op = Op(t, "insert", row.id, row)
  <2>1. PICK row \in RowsOf(t) : op = Op(t, "insert", row.id, row)
    BY <1>4
  <2>2. op.kind = "insert" /\ op.table = t /\ op.id = row.id /\ op.row = row
    BY <2>1 DEF Op
  <2> QED BY <1>2, <1>3, <2>2
<1>5. CASE \E id \in IdsOf(t) : \E row \in RowsOf(t) : op = Op(t, "update", id, row)
  <2>1. PICK id \in IdsOf(t) : \E row \in RowsOf(t) : op = Op(t, "update", id, row)
    BY <1>5
  <2>2. PICK row \in RowsOf(t) : op = Op(t, "update", id, row)
    BY <2>1
  <2>3. op.kind = "update" /\ op.table = t /\ op.id = id /\ op.row = row
    BY <2>2 DEF Op
  <2>4. op.row.id = op.id
    BY <2>3 DEF AdmissibleOps, Admissible
  <2> QED BY <1>2, <2>3, <2>4
<1>6. CASE \E id \in IdsOf(t) : op = Op(t, "delete", id, CHOOSE row \in RowsOf(t) : row.id = id)
  <2>1. PICK id \in IdsOf(t) : op = Op(t, "delete", id, CHOOSE row \in RowsOf(t) : row.id = id)
    BY <1>6
  <2>2. op.kind = "delete" /\ op.table = t /\ op.id = id
    BY <2>1 DEF Op
  <2> QED BY <1>2, <2>2
<1> QED BY <1>1, <1>4, <1>5, <1>6

\* A delete leaves tables, without what it says it deleted ...
LEMMA DeleteType ==
  ASSUME NEW d \in Store, NEW k \in Keys, Refused \notin PlanDelete(d, k)
  PROVE  /\ {k} \cup PlanDelete(d, k) \in SUBSET Keys
         /\ Retain(d, {k} \cup PlanDelete(d, k)) \in Store
<1>1. PlanDelete(d, k) \subseteq Keys \cup {Refused}
  BY PlanIs
<1> DEFINE gone == {k} \cup PlanDelete(d, k)
<1>2. gone \in SUBSET Keys
  BY <1>1
<1> HIDE DEF gone
<1>3. Retain(d, gone) \in Store
  BY RetainRows
<1> QED BY <1>2, <1>3 DEF gone

\* ... that satisfy the constraints.
LEMMA DeleteSound ==
  ASSUME NEW d \in Store, Sound(d), NEW k \in Keys, Refused \notin PlanDelete(d, k)
  PROVE  Sound(Retain(d, {k} \cup PlanDelete(d, k)))
<1> DEFINE gone == {k} \cup PlanDelete(d, k)
<1>1. Closed(d, gone)
  BY PlanClosed
<1> HIDE DEF gone
<1>2. Sound(Retain(d, gone))
  BY <1>1, RetainSound
<1> QED BY <1>2 DEF gone

\* A call leaves tables ...
LEMMA CallType ==
  ASSUME KeepsId, NEW d \in Store, NEW op \in AdmissibleOps
  PROVE  OneCall(d, op) \in Result
<1> DEFINE k == <<op.table, op.id>>
<1>1. /\ op.kind \in {"insert", "update", "delete"} /\ op.table \in Table /\ k \in Keys
      /\ op.kind # "delete" => op.row \in RowsOf(op.table) /\ op.row.id = op.id
  BY OperationType
<1>2. Accept(d) \in Result /\ Refuse(d) \in Result
  BY DEF Accept, Refuse, Result
<1>3. CASE op.kind = "insert"
  <2>1. Push(d, op.table, op.row) \in Store
    BY <1>1, <1>3, PushRows
  <2>2. Accept(Push(d, op.table, op.row)) \in Result
    BY <2>1 DEF Accept, Result
  <2> QED BY <1>2, <1>3, <2>2 DEF OneCall, InsertInto
<1>4. CASE op.kind = "update"
  <2>1. Replace(d, op.table, op.row.id, op.row) \in Store
    BY <1>1, <1>4, ReplaceRows
  <2>2. Accept(Replace(d, op.table, op.id, op.row)) \in Result
    BY <1>1, <1>4, <2>1 DEF Accept, Result
  <2> QED BY <1>2, <1>4, <2>2 DEF OneCall, UpdateIn
<1>5. CASE op.kind = "delete"
  <2> DEFINE gone == {k} \cup PlanDelete(d, k)
             result == [ok |-> TRUE, db |-> Retain(d, gone), deleted |-> gone]
  <2>1. Refused \notin PlanDelete(d, k) => gone \in SUBSET Keys /\ Retain(d, gone) \in Store
    BY <1>1, DeleteType
  <2>2. Refused \notin PlanDelete(d, k) => result \in Result
    <3> HIDE DEF gone
    <3> QED BY <2>1 DEF Result
  <2>3. OneCall(d, op) = DeleteFrom(d, k)
    BY <1>5 DEF OneCall
  <2>4. DeleteFrom(d, k) = IF k[2] \notin Ids(d, k[1]) THEN Accept(d)
                           ELSE IF Refused \in PlanDelete(d, k) THEN Refuse(d) ELSE result
    BY DEF DeleteFrom
  <2> HIDE DEF k, gone, result
  <2> QED BY <1>2, <2>2, <2>3, <2>4
<1> QED BY <1>1, <1>3, <1>4, <1>5

\* ... that satisfy the constraints, if they did before it.
LEMMA CallSound ==
  ASSUME KeepsId, NEW d \in Store, Sound(d), NEW op \in AdmissibleOps
  PROVE  Sound(OneCall(d, op).db)
<1> DEFINE k == <<op.table, op.id>>
<1>1. /\ op.kind \in {"insert", "update", "delete"} /\ op.table \in Table /\ k \in Keys
      /\ op.kind # "delete" => op.row \in RowsOf(op.table) /\ op.row.id = op.id
  BY OperationType
<1>2. \A e : Accept(e).db = e /\ Refuse(e).db = e
  BY DEF Accept, Refuse
<1>3. CASE op.kind = "insert"
  <2>1. ValidWrite(d, op.table, op.row, NoRef) => Sound(Push(d, op.table, op.row))
    BY <1>1, <1>3, PushSound
  <2> QED BY <1>2, <1>3, <2>1 DEF OneCall, InsertInto
<1>4. CASE op.kind = "update"
  <2> DEFINE e == Replace(d, op.table, op.id, op.row)
  <2>1. op.id \notin Ids(d, op.table) => e = d
    BY <1>1, ReplaceMissing
  <2>2. ValidWrite(d, op.table, op.row, op.row.id) => Sound(Replace(d, op.table, op.row.id, op.row))
    BY <1>1, <1>4, ReplaceSound
  <2>3. ValidWrite(d, op.table, op.row, op.id) => Sound(e)
    BY <1>1, <1>4, <2>2
  <2>4. OneCall(d, op).db = IF op.id \in Ids(d, op.table) /\ ~ValidWrite(d, op.table, op.row, op.id)
                            THEN d ELSE e
    BY <1>2, <1>4 DEF OneCall, UpdateIn
  <2> HIDE DEF e
  <2> QED BY <2>1, <2>3, <2>4
<1>5. CASE op.kind = "delete"
  <2> DEFINE e == Retain(d, {k} \cup PlanDelete(d, k))
  <2>1. Refused \notin PlanDelete(d, k) => Sound(e)
    BY <1>1, DeleteSound
  <2>2. OneCall(d, op) = DeleteFrom(d, k)
    BY <1>5 DEF OneCall
  <2>3. DeleteFrom(d, k).db = IF k[2] \notin Ids(d, k[1]) \/ Refused \in PlanDelete(d, k) THEN d ELSE e
    BY <1>2 DEF DeleteFrom
  <2> HIDE DEF k, e
  <2> QED BY <2>1, <2>2, <2>3
<1> QED BY <1>1, <1>3, <1>4, <1>5

----------------------------------------------------------------------------
(* Batches.                                                                *)

\* What the operations of a batch do to the overlay.
OverlayRuns(o, d, ops) ==
  /\ o[0] = Accept(d)
  /\ \A n \in 1..Len(ops) : o[n] = IF o[n - 1].ok THEN BatchStep(o[n - 1], ops[n]) ELSE o[n - 1]

\* The type of what one operation leaves.
LEMMA StepType ==
  ASSUME KeepsId, NEW o \in Result, NEW op \in AdmissibleOps
  PROVE  BatchStep(o, op) \in Result
<1> DEFINE k == <<op.table, op.id>>
           P == PlanDelete(o.db, k)
           gone == {k} \cup P
<1>1. /\ op.kind \in {"insert", "update", "delete"} /\ op.table \in Table /\ k \in Keys
      /\ op.kind # "delete" => op.row \in RowsOf(op.table) /\ op.row.id = op.id
  BY OperationType
<1>2. o.ok \in BOOLEAN /\ o.db \in Store /\ o.deleted \in SUBSET Keys
  BY DEF Result
<1>3. CASE op.kind = "insert"
  <2>1. OneCall(o.db, op) \in Result
    BY <1>2, CallType
  <2>2. InsertInto(o.db, op.table, op.row) \in Result
    BY <1>3, <2>1 DEF OneCall
  <2>3. [InsertInto(o.db, op.table, op.row) EXCEPT !.deleted = o.deleted] \in Result
    BY <1>2, <2>2 DEF Result
  <2> QED BY <1>3, <2>3 DEF BatchStep
<1>4. CASE op.kind = "update"
  <2>1. Replace(o.db, op.table, op.row.id, op.row) \in Store
    BY <1>1, <1>2, <1>4, ReplaceRows
  <2>2. Replace(o.db, op.table, op.id, op.row) \in Store
    BY <1>1, <1>4, <2>1
  <2>3. /\ [o EXCEPT !.db = Replace(@, op.table, op.id, op.row)] \in Result
        /\ [o EXCEPT !.ok = FALSE] \in Result
    BY <1>2, <2>2 DEF Result
  <2> QED BY <1>4, <2>3 DEF BatchStep
<1>5. CASE op.kind = "delete"
  <2>1. Refused \notin P => gone \in SUBSET Keys /\ Retain(o.db, gone) \in Store
    BY <1>1, <1>2, DeleteType
  <2>2. k # Refused
    BY <1>1, KeyOf
  <2>3. BatchStep(o, op) = IF Refused \in gone THEN [o EXCEPT !.ok = FALSE]
                           ELSE [ok |-> o.ok, db |-> Retain(o.db, gone), deleted |-> o.deleted \cup gone]
    BY <1>5 DEF BatchStep
  <2>4. Refused \in gone <=> Refused \in P
    BY <2>2
  <2> HIDE DEF k, P, gone
  <2>5. [o EXCEPT !.ok = FALSE] \in Result
    BY DEF Result
  <2>6. Refused \notin P
          => [ok |-> o.ok, db |-> Retain(o.db, gone), deleted |-> o.deleted \cup gone] \in Result
    BY <1>2, <2>1 DEF Result
  <2> QED BY <2>3, <2>4, <2>5, <2>6
<1> QED BY <1>1, <1>3, <1>4, <1>5

\* The overlay is what its recursive definition says.
LEMMA OverlayDef ==
  ASSUME KeepsId, NEW d \in Store, NEW ops \in Seq(AdmissibleOps)
  PROVE  Overlay(d, ops) \in [0..Len(ops) -> Result] /\ OverlayRuns(Overlay(d, ops), d, ops)
<1> DEFINE N == Len(ops)
           First == Accept(d)
           Then(x, n) == IF x.ok THEN BatchStep(x, ops[n]) ELSE x
           Is(g) == g = [n \in 0..N |-> IF n = 0 THEN First ELSE Then(g[n - 1], n)]
           step == [n \in 1..N |-> [x \in Result |-> Then(x, n)]]
           o == CHOOSE g : Is(g)
<1>1. N \in Nat /\ First \in Result /\ \A n \in 1..N : ops[n] \in AdmissibleOps
  BY DEF Accept, Result
<1>2. \A n \in 1..N : \A x \in Result : Then(x, n) \in Result
  BY <1>1, StepType
<1>3. Overlay(d, ops) = o
  BY DEF Overlay
<1> HIDE DEF N, First, Then
<1>4. step \in [1..N -> [Result -> Result]]
  BY <1>2
<1>5. PICK f \in [0..N -> Result] : Runs(f, First, N, step)
  <2> HIDE DEF step
  <2> QED BY <1>1, <1>4, ChainExists
<1>6. f[0] = First /\ \A n \in 1..N : f[n] = Then(f[n - 1], n)
  <2>1. ASSUME NEW n \in 1..N PROVE n - 1 \in 0..N /\ f[n - 1] \in Result
    BY <1>1
  <2> QED BY <1>5, <2>1 DEF Runs
<1>7. Is(f)
  <2>1. ASSUME NEW n \in 0..N PROVE f[n] = IF n = 0 THEN First ELSE Then(f[n - 1], n)
    <3>1. n # 0 => n \in 1..N /\ n - 1 \in 0..N
      BY <1>1
    <3> QED BY <1>6, <3>1
  <2> QED BY <1>6, <2>1
<1>8. Is(o)
  <2> HIDE DEF Is
  <2> QED BY <1>7
<1> HIDE DEF o, step
<1>9. o[0] = First /\ \A n \in 1..N : o[n] = Then(o[n - 1], n)
  BY <1>1, <1>8
<1>10. o \in [0..N -> Result]
  <2> DEFINE G == {n \in 0..N : o[n] \in Result}
  <2>1. 0 \in G
    BY <1>1, <1>9
  <2>2. ASSUME NEW n \in 1..N, n - 1 \in G PROVE n \in G
    BY <1>1, <1>2, <1>9, <2>2
  <2> HIDE DEF G
  <2>3. 0..N \subseteq G
    BY <1>1, <2>1, <2>2, UpTo
  <2>4. \A n \in 0..N : o[n] \in Result
    BY <2>3 DEF G
  <2> QED BY <1>8, <2>4
<1> QED BY <1>3, <1>9, <1>10 DEF OverlayRuns, First, Then, N

\* What the writes of a batch do to the tables.
WritesRun(w, d, ops) ==
  w[0] = d /\ \A n \in 1..Len(ops) : w[n] = ApplyWrite(w[n - 1], ops[n])

\* The written tables are what their recursive definition says.
LEMMA WrittenDef ==
  ASSUME KeepsId, NEW d \in Store, NEW ops \in Seq(AdmissibleOps)
  PROVE  Written(d, ops) \in [0..Len(ops) -> Store] /\ WritesRun(Written(d, ops), d, ops)
<1> DEFINE N == Len(ops)
           Then(x, n) == ApplyWrite(x, ops[n])
           Is(g) == g = [n \in 0..N |-> IF n = 0 THEN d ELSE Then(g[n - 1], n)]
           step == [n \in 1..N |-> [x \in Store |-> Then(x, n)]]
           w == CHOOSE g : Is(g)
<1>1. N \in Nat
  OBVIOUS
<1>2. ASSUME NEW n \in 1..N, NEW x \in Store PROVE Then(x, n) \in Store
  <2> DEFINE op == ops[n]
  <2>0. op \in AdmissibleOps
    OBVIOUS
  <2> HIDE DEF op
  <2>1. /\ op.kind \in {"insert", "update", "delete"} /\ op.table \in Table
        /\ op.kind # "delete" => op.row \in RowsOf(op.table) /\ op.row.id = op.id
    BY <2>0, OperationType
  <2>2. op.kind # "delete" => Push(x, op.table, op.row) \in Store
    BY <2>1, PushRows
  <2>3. op.kind # "delete" => Replace(x, op.table, op.row.id, op.row) \in Store
    BY <2>1, ReplaceRows
  <2>4. ApplyWrite(x, op) \in Store
    BY <2>1, <2>2, <2>3 DEF ApplyWrite
  <2> QED BY <2>4 DEF op
<1>3. Written(d, ops) = w
  BY DEF Written
<1> HIDE DEF N, Then
<1>4. step \in [1..N -> [Store -> Store]]
  BY <1>2
<1>5. PICK f \in [0..N -> Store] : Runs(f, d, N, step)
  <2> HIDE DEF step
  <2> QED BY <1>1, <1>4, ChainExists
<1>6. f[0] = d /\ \A n \in 1..N : f[n] = Then(f[n - 1], n)
  <2>1. ASSUME NEW n \in 1..N PROVE n - 1 \in 0..N /\ f[n - 1] \in Store
    BY <1>1
  <2> QED BY <1>5, <2>1 DEF Runs
<1>7. Is(f)
  <2>1. ASSUME NEW n \in 0..N PROVE f[n] = IF n = 0 THEN d ELSE Then(f[n - 1], n)
    <3>1. n # 0 => n \in 1..N /\ n - 1 \in 0..N
      BY <1>1
    <3> QED BY <1>6, <3>1
  <2> QED BY <1>6, <2>1
<1>8. Is(w)
  <2> HIDE DEF Is
  <2> QED BY <1>7
<1> HIDE DEF w, step
<1>9. w[0] = d /\ \A n \in 1..N : w[n] = Then(w[n - 1], n)
  BY <1>1, <1>8
<1>10. w \in [0..N -> Store]
  <2> DEFINE G == {n \in 0..N : w[n] \in Store}
  <2>1. 0 \in G
    BY <1>1, <1>9
  <2>2. ASSUME NEW n \in 1..N, n - 1 \in G PROVE n \in G
    BY <1>1, <1>2, <1>9, <2>2
  <2> HIDE DEF G
  <2>3. 0..N \subseteq G
    BY <1>1, <2>1, <2>2, UpTo
  <2>4. \A n \in 0..N : w[n] \in Store
    BY <2>3 DEF G
  <2> QED BY <1>8, <2>4
<1> QED BY <1>3, <1>9, <1>10 DEF WritesRun, Then, N

\* What the operations do one call at a time.
CallsRun(o, d, ops) ==
  /\ o[0] = Accept(d)
  /\ \A n \in 1..Len(ops) : o[n] = IF o[n - 1].ok THEN OneCall(o[n - 1].db, ops[n]) ELSE o[n - 1]

\* The calls one at a time are what their recursive definition says.
LEMMA SinglyDef ==
  ASSUME KeepsId, NEW d \in Store, NEW ops \in Seq(AdmissibleOps)
  PROVE  \E o \in [0..Len(ops) -> Result] : OneAtATime(d, ops) = o[Len(ops)] /\ CallsRun(o, d, ops)
<1> DEFINE N == Len(ops)
           First == Accept(d)
           Then(x, n) == IF x.ok THEN OneCall(x.db, ops[n]) ELSE x
           Is(g) == g = [n \in 0..N |-> IF n = 0 THEN First ELSE Then(g[n - 1], n)]
           step == [n \in 1..N |-> [x \in Result |-> Then(x, n)]]
           o == CHOOSE g : Is(g)
<1>1. N \in Nat /\ First \in Result /\ \A n \in 1..N : ops[n] \in AdmissibleOps
  BY DEF Accept, Result
<1>2. ASSUME NEW n \in 1..N, NEW x \in Result PROVE Then(x, n) \in Result
  <2>1. x.db \in Store
    BY DEF Result
  <2> QED BY <1>1, <2>1, CallType
<1>3. OneAtATime(d, ops) = o[N]
  BY DEF OneAtATime
<1> HIDE DEF N, First, Then
<1>4. step \in [1..N -> [Result -> Result]]
  BY <1>2
<1>5. PICK f \in [0..N -> Result] : Runs(f, First, N, step)
  <2> HIDE DEF step
  <2> QED BY <1>1, <1>4, ChainExists
<1>6. f[0] = First /\ \A n \in 1..N : f[n] = Then(f[n - 1], n)
  <2>1. ASSUME NEW n \in 1..N PROVE n - 1 \in 0..N /\ f[n - 1] \in Result
    BY <1>1
  <2> QED BY <1>5, <2>1 DEF Runs
<1>7. Is(f)
  <2>1. ASSUME NEW n \in 0..N PROVE f[n] = IF n = 0 THEN First ELSE Then(f[n - 1], n)
    <3>1. n # 0 => n \in 1..N /\ n - 1 \in 0..N
      BY <1>1
    <3> QED BY <1>6, <3>1
  <2> QED BY <1>6, <2>1
<1>8. Is(o)
  <2> HIDE DEF Is
  <2> QED BY <1>7
<1> HIDE DEF o, step
<1>9. o[0] = First /\ \A n \in 1..N : o[n] = Then(o[n - 1], n)
  BY <1>1, <1>8
<1>10. o \in [0..N -> Result]
  <2> DEFINE G == {n \in 0..N : o[n] \in Result}
  <2>1. 0 \in G
    BY <1>1, <1>9
  <2>2. ASSUME NEW n \in 1..N, n - 1 \in G PROVE n \in G
    BY <1>1, <1>2, <1>9, <2>2
  <2> HIDE DEF G
  <2>3. 0..N \subseteq G
    BY <1>1, <2>1, <2>2, UpTo
  <2>4. \A n \in 0..N : o[n] \in Result
    BY <2>3 DEF G
  <2> QED BY <1>8, <2>4
<1> HIDE DEF Is
<1>11. CallsRun(o, d, ops)
  BY <1>9 DEF CallsRun, First, Then, N
<1>12. OneAtATime(d, ops) = o[Len(ops)] /\ o \in [0..Len(ops) -> Result]
  BY <1>3, <1>10 DEF N
<1> QED BY <1>11, <1>12

\* The tables of the overlay are sound, they are what the writes so far and the deletes so far
\* leave when the deletes come last, and the calls one at a time agree.
Agrees(o, w, s) == o.ok => Sound(o.db) /\ o.db = Retain(w, o.deleted) /\ s.ok /\ s.db = o.db

\* A row that is written after the deletes might as well be written before them.
LEMMA RetainPush ==
  ASSUME NEW w \in Store, NEW t \in Table, NEW row \in RowsOf(t), NEW gone, <<t, row.id>> \notin gone
  PROVE  Retain(Push(w, t, row), gone) = Push(Retain(w, gone), t, row)
<1> DEFINE v == Push(w, t, row)
           e == Retain(w, gone)
<1>1. /\ v \in Store /\ v[t] = Append(w[t], row) /\ \A u \in Table : u # t => v[u] = w[u]
      /\ w[t] \in Seq(RowsOf(t))
  BY PushRows, StoreRows
<1>2. e \in Store /\ \A u \in Table : e[u] = Without(w[u], u, gone)
  BY RetainRows
<1>3. Retain(v, gone) = [u \in Table |-> Without(v[u], u, gone)]
  BY DEF Retain
<1>4. Push(e, t, row) = [e EXCEPT ![t] = Append(e[t], row)]
  BY DEF Push
<1> HIDE DEF v, e
<1>5. Without(v[t], t, gone) = Append(Without(w[t], t, gone), row)
  BY <1>1, WithoutAppend
<1>6. \A u \in Table : Without(v[u], u, gone) = [e EXCEPT ![t] = Append(e[t], row)][u]
  <2>1. e = [u \in Table |-> e[u]]
    BY <1>2 DEF Store
  <2> QED BY <1>1, <1>2, <1>5, <2>1
<1>7. [e EXCEPT ![t] = Append(e[t], row)] = [u \in Table |-> [e EXCEPT ![t] = Append(e[t], row)][u]]
  BY <1>2 DEF Store
<1> QED BY <1>3, <1>4, <1>6, <1>7 DEF v, e

\* So might a row that replaces one with its id, whether or not that one goes.
LEMMA RetainReplace ==
  ASSUME NEW w \in Store, NEW t \in Table, NEW row \in RowsOf(t), NEW gone
  PROVE  Retain(Replace(w, t, row.id, row), gone) = Replace(Retain(w, gone), t, row.id, row)
<1> DEFINE v == Replace(w, t, row.id, row)
           e == Retain(w, gone)
           f == Replace(e, t, row.id, row)
<1>1. /\ v \in Store /\ v[t] = ReplaceFirst(w[t], row.id, row) /\ \A u \in Table : u # t => v[u] = w[u]
      /\ w[t] \in Seq(RowsOf(t))
  BY ReplaceRows, StoreRows
<1>2. e \in Store /\ \A u \in Table : e[u] = Without(w[u], u, gone)
  BY RetainRows
<1>3. Retain(v, gone) = [u \in Table |-> Without(v[u], u, gone)]
  BY DEF Retain
<1>4. f \in Store /\ f[t] = ReplaceFirst(e[t], row.id, row) /\ \A u \in Table : u # t => f[u] = e[u]
  <2> HIDE DEF e
  <2> QED BY <1>2, ReplaceRows
<1>5. Without(v[t], t, gone) = IF <<t, row.id>> \in gone THEN Without(w[t], t, gone)
                               ELSE ReplaceFirst(Without(w[t], t, gone), row.id, row)
  <2> HIDE DEF v
  <2> DEFINE rows == w[t]
  <2>1. v[t] = ReplaceFirst(rows, row.id, row) /\ rows \in Seq(RowsOf(t))
    BY <1>1
  <2> HIDE DEF rows
  <2>2. Without(ReplaceFirst(rows, row.id, row), t, gone)
          = IF <<t, row.id>> \in gone THEN Without(rows, t, gone)
            ELSE ReplaceFirst(Without(rows, t, gone), row.id, row)
    BY <2>1, WithoutReplace
  <2> QED BY <2>1, <2>2 DEF rows
<1>6. <<t, row.id>> \in gone => ReplaceFirst(e[t], row.id, row) = e[t]
  <2> SUFFICES ASSUME <<t, row.id>> \in gone PROVE ReplaceFirst(e[t], row.id, row) = e[t]
    OBVIOUS
  <2>1. RowSet(e, t) = {x \in RowSet(w, t) : <<t, x.id>> \notin gone}
    BY RetainRows
  <2>2. \A x \in ToSet(e[t]) : x.id # row.id
    BY <2>1 DEF RowSet
  <2> DEFINE rows == e[t]
             id == row.id
  <2>3. \A x \in ToSet(rows) : x.id # id
    BY <2>2
  <2> HIDE DEF rows, id
  <2>4. ReplaceFirst(rows, id, row) = rows
    BY <2>3, ReplaceNone
  <2> QED BY <2>4 DEF rows, id
<1> HIDE DEF v, e, f
<1>7. \A u \in Table : Without(v[u], u, gone) = f[u]
  BY <1>1, <1>2, <1>4, <1>5, <1>6
<1>8. f = [u \in Table |-> f[u]]
  BY <1>4 DEF Store
<1> QED BY <1>3, <1>7, <1>8 DEF v, e, f

\* Two deletes may be made as one.
LEMMA RetainTwice ==
  ASSUME NEW w \in Store, NEW A, NEW B
  PROVE  Retain(Retain(w, A), B) = Retain(w, A \cup B)
<1> DEFINE e == Retain(w, A)
           both == A \cup B
<1>1. e \in Store /\ \A u \in Table : e[u] = Without(w[u], u, A)
  BY RetainRows
<1>2. Retain(e, B) = [u \in Table |-> Without(e[u], u, B)]
  BY DEF Retain
<1>3. Retain(w, both) = [u \in Table |-> Without(w[u], u, both)]
  BY DEF Retain
<1> HIDE DEF e
<1>4. ASSUME NEW u \in Table PROVE Without(e[u], u, B) = Without(w[u], u, both)
  <2> DEFINE rows == w[u]
  <2>1. rows \in Seq(RowsOf(u))
    BY StoreRows
  <2>2. e[u] = Without(rows, u, A)
    BY <1>1
  <2> HIDE DEF rows
  <2>3. Without(Without(rows, u, A), u, B) = Without(rows, u, A \cup B)
    BY <2>1, WithoutTwice
  <2> QED BY <2>2, <2>3 DEF rows
<1> HIDE DEF both
<1>5. Retain(e, B) = Retain(w, both)
  BY <1>2, <1>3, <1>4
<1> QED BY <1>5 DEF e, both

\* One operation keeps the agreement.
LEMMA StepAgrees ==
  ASSUME KeepsId, NEW o \in Result, o.ok, NEW w \in Store, NEW s \in Result, Agrees(o, w, s),
         NEW op \in AdmissibleOps, op.kind = "insert" => <<op.table, op.id>> \notin o.deleted
  PROVE  Agrees(BatchStep(o, op), ApplyWrite(w, op), OneCall(s.db, op))
<1> DEFINE t == op.table
           k == <<op.table, op.id>>
           d == o.db
<1>1. /\ op.kind \in {"insert", "update", "delete"} /\ t \in Table /\ k \in Keys
      /\ op.kind # "delete" => op.row \in RowsOf(t) /\ op.row.id = op.id
  BY OperationType
<1>2. /\ d \in Store /\ Sound(d) /\ d = Retain(w, o.deleted) /\ s.db = d
      /\ DOMAIN o = {"ok", "db", "deleted"}
  BY DEF Result, Agrees
<1>3. OneCall(s.db, op) = OneCall(d, op) /\ Sound(OneCall(d, op).db)
  BY <1>2, CallSound
<1>4. CASE op.kind = "insert"
  <2> DEFINE r == InsertInto(d, t, op.row)
             b == [r EXCEPT !.deleted = o.deleted]
  <2>1. BatchStep(o, op) = b /\ OneCall(d, op) = r /\ ApplyWrite(w, op) = Push(w, t, op.row)
    BY <1>4 DEF BatchStep, OneCall, ApplyWrite
  <2>2. r = IF ValidWrite(d, t, op.row, NoRef) THEN Accept(Push(d, t, op.row)) ELSE Refuse(d)
    BY DEF InsertInto
  <2>3. r.ok => r.db = Push(d, t, op.row)
    BY <2>2 DEF Accept, Refuse
  <2>4. b.ok = r.ok /\ b.db = r.db /\ b.deleted = o.deleted
    BY <2>2 DEF Accept, Refuse
  <2>5. Retain(Push(w, t, op.row), o.deleted) = Push(d, t, op.row)
    <3>1. op.row \in RowsOf(t) /\ <<t, op.row.id>> \notin o.deleted
      BY <1>1, <1>4
    <3> HIDE DEF t
    <3>2. Retain(Push(w, t, op.row), o.deleted) = Push(Retain(w, o.deleted), t, op.row)
      BY <1>1, <3>1, RetainPush
    <3> QED BY <1>2, <3>2
  <2> HIDE DEF r, b, t, d
  <2> QED BY <1>3, <2>1, <2>3, <2>4, <2>5 DEF Agrees
<1>5. CASE op.kind = "update"
  <2> DEFINE e == Replace(d, t, op.id, op.row)
             valid == ValidWrite(d, t, op.row, op.id)
  <2>1. BatchStep(o, op) = IF valid THEN [o EXCEPT !.db = e] ELSE [o EXCEPT !.ok = FALSE]
    BY <1>5 DEF BatchStep
  <2>2. valid => OneCall(d, op) = Accept(e)
    BY <1>5 DEF OneCall, UpdateIn
  <2>3. ApplyWrite(w, op) = Replace(w, t, op.id, op.row)
    BY <1>5 DEF ApplyWrite
  <2>4. Retain(Replace(w, t, op.id, op.row), o.deleted) = e
    <3>1. op.row \in RowsOf(t) /\ op.row.id = op.id
      BY <1>1, <1>5
    <3> HIDE DEF t
    <3>2. Retain(Replace(w, t, op.row.id, op.row), o.deleted)
            = Replace(Retain(w, o.deleted), t, op.row.id, op.row)
      BY <1>1, <3>1, RetainReplace
    <3> QED BY <1>2, <3>1, <3>2
  <2> HIDE DEF e, valid, t, d
  <2>5. /\ [o EXCEPT !.db = e].db = e /\ [o EXCEPT !.db = e].deleted = o.deleted
        /\ [o EXCEPT !.ok = FALSE].ok = FALSE
    BY <1>2
  <2>6. Accept(e).ok /\ Accept(e).db = e
    BY DEF Accept
  <2> QED BY <1>3, <2>1, <2>2, <2>3, <2>4, <2>5, <2>6 DEF Agrees
<1>6. CASE op.kind = "delete"
  <2> DEFINE P == PlanDelete(d, k)
             gone == {k} \cup P
             e == Retain(d, gone)
             b == [ok |-> o.ok, db |-> e, deleted |-> o.deleted \cup gone]
  <2>1. BatchStep(o, op) = IF Refused \in gone THEN [o EXCEPT !.ok = FALSE] ELSE b
    BY <1>6 DEF BatchStep
  <2>2. OneCall(d, op) = DeleteFrom(d, k) /\ ApplyWrite(w, op) = w
    BY <1>6 DEF OneCall, ApplyWrite
  <2>3. DeleteFrom(d, k) = IF k[2] \notin Ids(d, k[1]) THEN Accept(d)
                           ELSE IF Refused \in P THEN Refuse(d)
                           ELSE [ok |-> TRUE, db |-> e, deleted |-> gone]
    BY DEF DeleteFrom
  <2>4. k[2] \notin Ids(d, k[1]) => e = d
    <3>1. k \in Keys /\ d \in Store /\ Sound(d)
      BY <1>1, <1>2
    <3> HIDE DEF k, d
    <3> SUFFICES ASSUME k[2] \notin Ids(d, k[1]) PROVE e = d
      OBVIOUS
    <3>2. gone = {k} /\ Retain(d, {k}) = d
      BY <3>1, DeleteMissing
    <3> HIDE DEF gone
    <3> QED BY <3>2
  <2>5. Refused \notin gone => DeleteFrom(d, k).ok /\ DeleteFrom(d, k).db = e
    <3>1. Accept(d).ok /\ Accept(d).db = d
      BY DEF Accept
    <3> HIDE DEF P, e, k, d
    <3> QED BY <2>3, <2>4, <3>1
  <2>6. Retain(w, o.deleted \cup gone) = e
    <3> HIDE DEF gone
    <3>1. Retain(Retain(w, o.deleted), gone) = Retain(w, o.deleted \cup gone)
      BY RetainTwice
    <3> QED BY <1>2, <3>1
  <2>7. [o EXCEPT !.ok = FALSE].ok = FALSE
    BY <1>2
  <2> HIDE DEF gone, e, k, d
  <2>8. b.db = e /\ b.deleted = o.deleted \cup gone
    OBVIOUS
  <2> HIDE DEF b
  <2> QED BY <1>3, <2>1, <2>2, <2>5, <2>6, <2>7, <2>8 DEF Agrees
<1> QED BY <1>1, <1>4, <1>5, <1>6

\* So a whole batch does what its operations would do one call at a time.
LEMMA BatchAgrees ==
  ASSUME KeepsId, NEW d \in Store, Sound(d), NEW ops \in Seq(AdmissibleOps), ~Reinserting(d, ops)
  PROVE  /\ CommitBatch(d, ops) \in Result /\ Sound(CommitBatch(d, ops).db)
         /\ IF CommitBatch(d, ops).ok
            THEN OneAtATime(d, ops).ok /\ CommitBatch(d, ops).db = OneAtATime(d, ops).db
            ELSE CommitBatch(d, ops).db = d
<1> DEFINE N == Len(ops)
           o == Overlay(d, ops)
           w == Written(d, ops)
<1>1. N \in Nat /\ DOMAIN ops = 1..N /\ \A n \in 1..N : ops[n] \in AdmissibleOps
  OBVIOUS
<1>2. o \in [0..N -> Result] /\ OverlayRuns(o, d, ops)
  BY OverlayDef
<1>3. w \in [0..N -> Store] /\ WritesRun(w, d, ops)
  BY WrittenDef
<1>4. PICK s \in [0..N -> Result] : OneAtATime(d, ops) = s[N] /\ CallsRun(s, d, ops)
  BY SinglyDef
<1>5. ASSUME NEW n \in 1..N, ops[n].kind = "insert"
      PROVE  <<ops[n].table, ops[n].id>> \notin o[n - 1].deleted
  BY <1>1, <1>5 DEF Reinserting
<1>6. CommitBatch(d, ops) = IF o[N].ok THEN [o[N] EXCEPT !.db = Retain(w[N], o[N].deleted)] ELSE Refuse(d)
  BY DEF CommitBatch
<1> HIDE DEF N, o, w
<1> DEFINE G == {n \in 0..N : Agrees(o[n], w[n], s[n])}
<1>7. 0 \in G
  <2>1. o[0] = Accept(d) /\ w[0] = d /\ s[0] = Accept(d)
    BY <1>2, <1>3, <1>4 DEF OverlayRuns, WritesRun, CallsRun
  <2>2. Accept(d).ok /\ Accept(d).db = d /\ Accept(d).deleted = {}
    BY DEF Accept
  <2>3. Retain(d, {}) = d
    <3>1. ASSUME NEW t \in Table PROVE Without(d[t], t, {}) = d[t]
      <4>1. d[t] \in Seq(RowsOf(t))
        BY StoreRows
      <4> DEFINE none == {}
      <4>2. \A x \in ToSet(d[t]) : <<t, x.id>> \notin none
        OBVIOUS
      <4> HIDE DEF none
      <4>3. Without(d[t], t, none) = d[t]
        BY <4>1, <4>2, WithoutNone
      <4> QED BY <4>3 DEF none
    <3>2. d = [t \in Table |-> d[t]]
      BY DEF Store
    <3> QED BY <3>1, <3>2 DEF Retain
  <2>4. Agrees(o[0], w[0], s[0])
    BY <2>1, <2>2, <2>3 DEF Agrees
  <2> QED BY <1>1, <2>4
<1>8. ASSUME NEW n \in 1..N, n - 1 \in G PROVE n \in G
  <2>1. n - 1 \in 0..N /\ n \in 0..N /\ Agrees(o[n - 1], w[n - 1], s[n - 1])
    BY <1>1, <1>8
  <2>2. o[n] = IF o[n - 1].ok THEN BatchStep(o[n - 1], ops[n]) ELSE o[n - 1]
    BY <1>2 DEF OverlayRuns, N
  <2>3. w[n] = ApplyWrite(w[n - 1], ops[n])
    BY <1>3 DEF WritesRun, N
  <2>4. s[n] = IF s[n - 1].ok THEN OneCall(s[n - 1].db, ops[n]) ELSE s[n - 1]
    BY <1>4 DEF CallsRun, N
  <2>5. CASE ~o[n - 1].ok
    BY <2>1, <2>2, <2>5 DEF Agrees
  <2>6. CASE o[n - 1].ok
    <3> DEFINE before == o[n - 1]
               op == ops[n]
               tables == w[n - 1]
               single == s[n - 1]
    <3>1. before \in Result /\ before.ok /\ tables \in Store /\ single \in Result /\ op \in AdmissibleOps
      BY <1>1, <1>2, <1>3, <1>4, <2>1, <2>6
    <3>2. Agrees(before, tables, single) /\ single.ok
      BY <2>1, <2>6 DEF Agrees
    <3>3. op.kind = "insert" => <<op.table, op.id>> \notin before.deleted
      BY <1>5
    <3>4. o[n] = BatchStep(before, op) /\ w[n] = ApplyWrite(tables, op) /\ s[n] = OneCall(single.db, op)
      BY <2>2, <2>3, <2>4, <2>6, <3>2
    <3> HIDE DEF before, op, tables, single
    <3>5. Agrees(BatchStep(before, op), ApplyWrite(tables, op), OneCall(single.db, op))
      BY <3>1, <3>2, <3>3, StepAgrees
    <3> QED BY <2>1, <3>4, <3>5
  <2> QED BY <2>5, <2>6
<1> HIDE DEF G
<1>9. 0..N \subseteq G
  BY <1>1, <1>7, <1>8, UpTo
<1>10. N \in 0..N /\ Agrees(o[N], w[N], s[N])
  BY <1>1, <1>9 DEF G
<1>11. CASE o[N].ok
  <2> DEFINE last == o[N]
  <2>1. last \in Result /\ last.ok /\ Sound(last.db) /\ last.db = Retain(w[N], last.deleted)
        /\ s[N].ok /\ s[N].db = last.db
    BY <1>2, <1>10, <1>11 DEF Agrees
  <2>2. CommitBatch(d, ops) = [last EXCEPT !.db = last.db]
    BY <1>6, <1>11, <2>1
  <2> HIDE DEF last
  <2>3. [last EXCEPT !.db = last.db] = last
    BY <2>1 DEF Result
  <2> QED BY <1>4, <2>1, <2>2, <2>3
<1>12. CASE ~o[N].ok
  <2>1. CommitBatch(d, ops) = Refuse(d)
    BY <1>6, <1>12
  <2>2. Refuse(d) \in Result /\ ~Refuse(d).ok /\ Refuse(d).db = d
    BY DEF Refuse, Result
  <2> QED BY <2>1, <2>2
<1> QED BY <1>11, <1>12

----------------------------------------------------------------------------
(* The state machine.                                                      *)

TypeOK ==
  /\ db \in Store
  /\ failures \in Engine
  /\ outcome \in {"none", "ok", "refused", "injected", "unsupported"}

\* A batch is a sequence of operations.
LEMMA BatchType ==
  ASSUME NEW ops \in Batches
  PROVE  ops \in Seq(AdmissibleOps) /\ ops[1] \in AdmissibleOps
<1>1. PICK m \in 0..MaxBatch : ops \in [1..m -> BatchOps]
  BY DEF Batches, SeqOf
<1>2. BatchOps \subseteq AdmissibleOps /\ m \in Nat
  BY DEF BatchOps
<1>3. ops \in Seq(BatchOps) /\ ops # <<>>
  BY <1>1, <1>2 DEF Batches
<1>4. ops \in Seq(AdmissibleOps)
  BY <1>2, <1>3
<1> QED BY <1>3, <1>4

\* The engine's counters keep their range.
LEMMA EngineType ==
  ASSUME NEW eng \in Engine, NEW effect
  PROVE  Observed(eng, effect) \in Engine
<1>1. eng.matched \in SUBSET (DOMAIN Rules) /\ eng.counts \in [Effects -> 0..CountCap] /\ CountCap \in Nat
  BY RulesAssumption DEF Engine
<1>2. eng.matched \cup Firing(eng, effect, "after") \in SUBSET (DOMAIN Rules)
  BY <1>1 DEF Firing
<1>3. effect \in Effects => Occurrence(eng, effect) \in 0..CountCap
  BY <1>1 DEF Occurrence
<1>4. [eng.counts EXCEPT ![effect] = Occurrence(eng, effect)] \in [Effects -> 0..CountCap]
  BY <1>1, <1>3
<1> QED BY <1>2, <1>4 DEF Observed, Record, Engine

\* What the store is after a call.
LEMMA AfterCall ==
  ASSUME TypeOK, ConstraintsHold, NEW subject, NEW result \in Result, Sound(result.db),
         Call(subject, result)
  PROVE  TypeOK' /\ ConstraintsHold'
<1>1. db' \in {db, result.db}
  BY DEF Call
<1>2. db' \in Store /\ Sound(db')
  BY <1>1 DEF TypeOK, ConstraintsHold, Result
<1>3. outcome' \in {"none", "ok", "refused", "injected", "unsupported"}
  <2>1. ShouldFail(failures, <<"db.commit", subject>>) \in {"pass", "injected", "unsupported"}
    BY DEF ShouldFail
  <2> QED BY <2>1 DEF Call
<1>4. failures' \in Engine
  <2>1. failures' = Observed(failures, <<"db.commit", subject>>)
    BY DEF Call
  <2> QED BY <2>1, EngineType DEF TypeOK
<1>5. ConstraintsHold'
  BY <1>2 DEF ConstraintsHold
<1> QED BY <1>2, <1>3, <1>4, <1>5 DEF TypeOK

\* Empty tables satisfy the constraints.
LEMMA InitialStore == Init => TypeOK /\ ConstraintsHold
<1> SUFFICES ASSUME Init PROVE TypeOK /\ ConstraintsHold
  OBVIOUS
<1>1. db = [t \in Table |-> <<>>]
  BY DEF Init
<1>2. db \in Store
  <2>1. \A S : <<>> \in Seq(S)
    OBVIOUS
  <2>2. db \in [Table -> Seq(Row)]
    BY <1>1, <2>1
  <2>3. \A t \in Table : db[t] \in Seq(RowsOf(t))
    BY <1>1, <2>1
  <2> QED BY <2>2, <2>3 DEF Store
<1>3. \A t \in Table : DOMAIN db[t] = {} /\ RowSet(db, t) = {}
  BY <1>1 DEF RowSet, ToSet
<1>4. Sound(db)
  BY <1>3, ReferenceType DEF Sound, RefIntegrity, IdsUnique, RefsUnique
<1>5. failures \in Engine
  BY RulesAssumption DEF Init, NewEngine, Engine
<1> QED BY <1>2, <1>4, <1>5 DEF Init, TypeOK, ConstraintsHold

\* Every step keeps the type and the constraints, together.
LEMMA EveryStep ==
  ASSUME KeepsId, ~Reinserts
  PROVE  TypeOK /\ ConstraintsHold /\ [Next]_vars => TypeOK' /\ ConstraintsHold'
<1> SUFFICES ASSUME TypeOK, ConstraintsHold, [Next]_vars PROVE TypeOK' /\ ConstraintsHold'
  OBVIOUS
<1>1. db \in Store /\ Sound(db)
  BY DEF TypeOK, ConstraintsHold
<1>2. ASSUME NEW op \in AdmissibleOps, Insert(op) \/ Update(op) \/ Delete(op)
      PROVE  TypeOK' /\ ConstraintsHold'
  <2>1. OneCall(db, op) \in Result /\ Sound(OneCall(db, op).db)
    BY <1>1, CallType, CallSound
  <2>2. Call(op.table, OneCall(db, op))
    BY <1>2 DEF Insert, Update, Delete, OneCall
  <2> QED BY <2>1, <2>2, AfterCall
<1>3. ASSUME NEW ops \in Batches, AdmissibleBatch(db, ops), Commit(ops)
      PROVE  TypeOK' /\ ConstraintsHold'
  <2>1. ops \in Seq(AdmissibleOps) /\ ~Reinserting(db, ops)
    BY <1>3, BatchType DEF AdmissibleBatch
  <2>2. CommitBatch(db, ops) \in Result /\ Sound(CommitBatch(db, ops).db)
    BY <1>1, <2>1, BatchAgrees
  <2>3. Call(ops[1].table, CommitBatch(db, ops))
    BY <1>3 DEF Commit
  <2> QED BY <2>2, <2>3, AfterCall
<1>4. CASE UNCHANGED vars
  BY <1>4 DEF vars, TypeOK, ConstraintsHold
<1> QED BY <1>2, <1>3, <1>4 DEF Next

\* The tables hold rows of their own, the failure engine counts within its range and a call
\* returns one of its outcomes, when updates keep the id of the row they name and no batch
\* brings a row back that it deleted.
THEOREM TypeCorrect == ASSUME KeepsId, ~Reinserts PROVE Spec => []TypeOK
<1>1. TypeOK /\ ConstraintsHold /\ [Next]_vars => TypeOK' /\ ConstraintsHold'
  BY EveryStep
<1> QED BY <1>1, InitialStore, PTL DEF Spec

\* Foreign keys, primary keys and unique columns hold after every call and every batch of the
\* simulated database, although it has no constraints of its own: validate_write and
\* plan_delete keep them.
THEOREM ConstraintsAlwaysHold == ASSUME KeepsId, ~Reinserts PROVE Spec => []ConstraintsHold
<1>1. TypeOK /\ ConstraintsHold /\ [Next]_vars => TypeOK' /\ ConstraintsHold'
  BY EveryStep
<1> QED BY <1>1, InitialStore, PTL DEF Spec

\* In every reachable state db_delete_checked takes away the rows that cascade from the one it
\* is asked for and no other, or refuses because of a restricting reference to one of them,
\* whatever the depth of the schema and however the references branch.
THEOREM DeletesAreClosures == ASSUME KeepsId, ~Reinserts PROVE Spec => []DeleteIsTheClosure
<1>1. TypeOK /\ ConstraintsHold /\ [Next]_vars => TypeOK' /\ ConstraintsHold'
  BY EveryStep
<1>2. TypeOK => DeleteIsTheClosure
  BY DeletedIs DEF TypeOK, DeleteIsTheClosure
<1> QED BY <1>1, <1>2, InitialStore, PTL DEF Spec

\* In every reachable state a batch that commits leaves what its operations would leave one
\* call at a time, of any length and in any order, although commit_batch_checked applies its
\* writes first and its deletes last; a batch that is refused changes nothing.
THEOREM BatchesAreSequential == ASSUME KeepsId, ~Reinserts PROVE Spec => []BatchIsSequential
<1>1. TypeOK /\ ConstraintsHold /\ [Next]_vars => TypeOK' /\ ConstraintsHold'
  BY EveryStep
<1>2. TypeOK /\ ConstraintsHold => BatchIsSequential
  <2> SUFFICES ASSUME TypeOK, ConstraintsHold, NEW ops \in Batches, AdmissibleBatch(db, ops)
               PROVE  IF CommitBatch(db, ops).ok
                      THEN OneAtATime(db, ops).ok /\ CommitBatch(db, ops).db = OneAtATime(db, ops).db
                      ELSE CommitBatch(db, ops).db = db
    BY DEF BatchIsSequential
  <2>1. ops \in Seq(AdmissibleOps) /\ ~Reinserting(db, ops)
    BY BatchType DEF AdmissibleBatch
  <2>2. db \in Store /\ Sound(db)
    BY DEF TypeOK, ConstraintsHold
  <2> QED BY <2>1, <2>2, BatchAgrees
<1> QED BY <1>1, <1>2, InitialStore, PTL DEF Spec
=============================================================================
