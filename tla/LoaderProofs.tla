---------------------------- MODULE LoaderProofs ----------------------------
(***************************************************************************)
(* Theorems about Loader, for any files, imports, compilers and states of  *)
(* the registry cache: each file is spliced once, and a load that ends     *)
(* with a program has spliced what its entry reaches, in order, and has    *)
(* reported a cycle exactly when there is one.                             *)
(***************************************************************************)
EXTENDS Loader, TLAPS

Frame == [key : Key, rest : Seq(Spell)]
Reading == [key : Key, text : Seq(Spell)]

Frames(p) == {stack[p][i].key : i \in DOMAIN stack[p]}
Targets(text) == {Spelling[s] : s \in ToSet(text)}
Distinct(rd) == \A i, j \in DOMAIN rd : rd[i].key = rd[j].key => i = j
Alive(p) == status[p] \in {"loading", "done"}

----------------------------------------------------------------------------
(* The inductive invariant, for one process.                               *)

Once(p) ==
  /\ IsInjective(items[p])
  /\ \A i, j \in DOMAIN stack[p] : stack[p][i].key = stack[p][j].key => i = j
  /\ \A i \in DOMAIN stack[p] : stack[p][i].key \notin loaded[p]
  /\ ToSet(items[p]) = loaded[p]

\* What was read is what is loaded or being resolved; the entry is the first frame, and the
\* last key to be spliced.
Bookkeeping(p) ==
  /\ read[p] # <<>>
  /\ Distinct(read[p])
  /\ Entered(read[p]) = loaded[p] \cup Frames(p)
  /\ status[p] = "loading" => stack[p] # <<>> /\ stack[p][1].key = Head(read[p]).key
  /\ status[p] = "done" => /\ stack[p] = <<>> /\ items[p] # <<>>
                           /\ Last(items[p]) = Head(read[p]).key

\* A frame below another waits for it.
Waiting(p) ==
  \A i \in DOMAIN stack[p] : i + 1 \in DOMAIN stack[p] =>
    stack[p][i].rest # <<>> /\ Spelling[Head(stack[p][i].rest)] = stack[p][i + 1].key

\* The imports of a frame that are not left in it are loaded, but for those that a cycle
\* leads back to; and the frames above it are reached through them.
Progress(p) ==
  /\ \A i \in DOMAIN stack[p] :
       /\ Targets(stack[p][i].rest) \subseteq Edges(read[p], stack[p][i].key)
       /\ Edges(read[p], stack[p][i].key)
            \subseteq Targets(stack[p][i].rest) \cup loaded[p]
                        \cup (IF cycles[p] = {} THEN {} ELSE Frames(p))
  /\ \A i, j \in DOMAIN stack[p] :
       i < j => stack[p][j].key \in ReachableFrom(read[p], Edges(read[p], stack[p][i].key))

\* What is spliced imports only what is spliced before it, as long as there is no cycle, and
\* only what is spliced or being resolved in any case.
Ordered(p) ==
  \A i \in DOMAIN items[p] :
    Edges(read[p], items[p][i]) \subseteq IF cycles[p] = {} THEN {items[p][j] : j \in 1..(i - 1)}
                                    ELSE loaded[p] \cup Frames(p)

Reached(p) == loaded[p] \cup Frames(p) \subseteq Reachable(read[p])
CyclesAreReal(p) == cycles[p] # {} => Cyclic(read[p])

Walk(p) ==
  Bookkeeping(p) /\ Waiting(p) /\ Progress(p) /\ Ordered(p) /\ Reached(p) /\ CyclesAreReal(p)
Inv == TypeOK /\ \A p \in Process : Once(p) /\ (Alive(p) => Walk(p))

----------------------------------------------------------------------------
(* Sequences.                                                              *)

\* A sequence that is not empty is its head and its tail.
LEMMA HeadAndTail ==
  ASSUME NEW S, NEW r \in Seq(S), r # <<>>
  PROVE  Tail(r) \in Seq(S) /\ Head(r) \in S /\ Head(r) \in ToSet(r)
         /\ ToSet(r) = {Head(r)} \cup ToSet(Tail(r))
<1>1. /\ Tail(r) \in Seq(S) /\ Len(r) \in Nat /\ Len(r) # 0 /\ Head(r) = r[1]
      /\ DOMAIN r = 1..Len(r) /\ DOMAIN Tail(r) = 1..(Len(r) - 1)
      /\ \A i \in 1..(Len(r) - 1) : Tail(r)[i] = r[i + 1]
  OBVIOUS
<1>2. ASSUME NEW i \in DOMAIN r PROVE r[i] \in {r[1]} \cup ToSet(Tail(r))
  <2>1. CASE i = 1
    BY <2>1
  <2>2. CASE i # 1
    <3>1. i - 1 \in 1..(Len(r) - 1) /\ (i - 1) + 1 = i
      BY <1>1, <2>2
    <3> QED BY <1>1, <3>1 DEF ToSet
  <2> QED BY <2>1, <2>2
<1>3. ASSUME NEW i \in DOMAIN Tail(r) PROVE Tail(r)[i] \in ToSet(r)
  BY <1>1 DEF ToSet
<1>4. 1 \in DOMAIN r
  BY <1>1
<1> QED BY <1>1, <1>2, <1>3, <1>4 DEF ToSet

\* It is its front and its last element, too.
LEMMA FrontAndLast ==
  ASSUME NEW S, NEW r \in Seq(S), r # <<>>
  PROVE  /\ Front(r) \in Seq(S) /\ Len(Front(r)) = Len(r) - 1 /\ Last(r) = r[Len(r)]
         /\ Len(r) \in DOMAIN r /\ Len(r) \in Nat \ {0} /\ DOMAIN r = 1..Len(r)
         /\ DOMAIN Front(r) = 1..(Len(r) - 1)
         /\ \A i \in 1..(Len(r) - 1) : Front(r)[i] = r[i]
<1>1. /\ Len(r) \in Nat \ {0} /\ DOMAIN r = 1..Len(r) /\ Last(r) = r[Len(r)]
      /\ Len(r) \in DOMAIN r /\ \A i \in 1..Len(r) : r[i] \in S
  BY DEF Last
<1>2. Front(r) = [i \in 1..(Len(r) - 1) |-> r[i]]
  BY <1>1 DEF Front
<1>3. Len(r) - 1 \in Nat /\ \A i \in 1..(Len(r) - 1) : i \in 1..Len(r)
  BY <1>1
<1>4. Front(r) \in Seq(S) /\ Len(Front(r)) = Len(r) - 1
  BY <1>1, <1>2, <1>3
<1> QED BY <1>1, <1>2, <1>4

\* What appending an element does to a sequence and to its set.
LEMMA Appended ==
  ASSUME NEW S, NEW r \in Seq(S), NEW x \in S
  PROVE  /\ Append(r, x) \in Seq(S) /\ Append(r, x) # <<>>
         /\ Len(r) \in Nat /\ DOMAIN r = 1..Len(r)
         /\ Len(Append(r, x)) = Len(r) + 1 /\ DOMAIN Append(r, x) = 1..(Len(r) + 1)
         /\ \A i \in 1..Len(r) : Append(r, x)[i] = r[i]
         /\ Append(r, x)[Len(r) + 1] = x
         /\ Head(Append(r, x)) = IF r = <<>> THEN x ELSE Head(r)
         /\ ToSet(Append(r, x)) = ToSet(r) \cup {x}
<1>1. /\ Append(r, x) \in Seq(S) /\ Append(r, x) # <<>> /\ DOMAIN r = 1..Len(r)
      /\ Len(r) \in Nat /\ Len(Append(r, x)) = Len(r) + 1
      /\ DOMAIN Append(r, x) = 1..(Len(r) + 1)
      /\ \A i \in 1..Len(r) : Append(r, x)[i] = r[i]
      /\ Append(r, x)[Len(r) + 1] = x
  OBVIOUS
<1>2. ToSet(Append(r, x)) = ToSet(r) \cup {x}
  <2>1. ASSUME NEW i \in 1..(Len(r) + 1) PROVE Append(r, x)[i] \in ToSet(r) \cup {x}
    <3>1. CASE i = Len(r) + 1
      BY <1>1, <3>1
    <3>2. CASE i \in 1..Len(r)
      BY <1>1, <3>2 DEF ToSet
    <3> QED BY <1>1, <3>1, <3>2
  <2>2. \A i \in DOMAIN r : r[i] \in ToSet(Append(r, x))
    BY <1>1 DEF ToSet
  <2>3. x \in ToSet(Append(r, x))
    BY <1>1 DEF ToSet
  <2> QED BY <1>1, <2>1, <2>2, <2>3 DEF ToSet
<1>3. Head(Append(r, x)) = IF r = <<>> THEN x ELSE Head(r)
  BY <1>1
<1> QED BY <1>1, <1>2, <1>3

----------------------------------------------------------------------------
(* Reachability.                                                           *)

\* What is entered from is reached.
LEMMA ReachBase ==
  ASSUME NEW rd, NEW S, NEW k \in S, k \in Key \cup {Missing}
  PROVE  k \in ReachableFrom(rd, S)
BY DEF ReachableFrom

\* One import further.
LEMMA ReachStep ==
  ASSUME NEW rd, NEW S, NEW j \in ReachableFrom(rd, S), j \in Entered(rd),
         NEW k \in Edges(rd, j), k \in Key \cup {Missing}
  PROVE  k \in ReachableFrom(rd, S)
BY DEF ReachableFrom, ClosedUnderImports

\* What was read for an entered key.
LEMMA TextAt ==
  ASSUME NEW rd, Distinct(rd), NEW i \in DOMAIN rd
  PROVE  TextOf(rd, rd[i].key) = rd[i].text
<1>1. \A j \in DOMAIN rd : rd[j].key = rd[i].key <=> j = i
  BY DEF Distinct
<1>2. (CHOOSE j \in DOMAIN rd : rd[j].key = rd[i].key) = i
  BY <1>1
<1> QED BY <1>2 DEF TextOf

\* When one more key is entered, the texts of the others stay and no key gets out of reach.
LEMMA EnteredOneMore ==
  ASSUME NEW rd \in Seq(Reading), NEW r \in Reading, r.key \notin Entered(rd), Distinct(rd)
  PROVE  LET more == Append(rd, r)
         IN  /\ Distinct(more)
             /\ Entered(more) = Entered(rd) \cup {r.key}
             /\ \A k \in Entered(rd) : Edges(more, k) = Edges(rd, k)
             /\ Edges(more, r.key) = Targets(r.text)
             /\ \A S : ReachableFrom(rd, S) \subseteq ReachableFrom(more, S)
<1> DEFINE n == Len(rd)
           more == Append(rd, r)
<1>1. /\ n \in Nat /\ DOMAIN rd = 1..n /\ DOMAIN more = 1..(n + 1)
      /\ \A i \in 1..n : more[i] = rd[i]
      /\ more[n + 1] = r
  BY Appended
<1>2. \A i \in 1..(n + 1) : i \in 1..n \/ i = n + 1
  BY <1>1
<1>a. \A i \in 1..n : i \in 1..(n + 1)
  BY <1>1
<1>b. n + 1 \in 1..(n + 1)
  BY <1>1
<1> HIDE DEF more, n
<1>3. Entered(more) = Entered(rd) \cup {r.key}
  BY <1>1, <1>2, <1>a, <1>b DEF Entered
<1>4. Distinct(more)
  BY <1>1, <1>2 DEF Entered, Distinct
<1>7. \A k \in Entered(rd) : Edges(more, k) = Edges(rd, k)
  <2> SUFFICES ASSUME NEW i \in DOMAIN rd
               PROVE  Edges(more, rd[i].key) = Edges(rd, rd[i].key)
    BY DEF Entered
  <2>1. i \in DOMAIN more /\ more[i] = rd[i]
    BY <1>1, <1>a
  <2>2. TextOf(more, more[i].key) = more[i].text
    BY TextAt, <1>4, <2>1
  <2>3. TextOf(rd, rd[i].key) = rd[i].text
    BY TextAt
  <2> QED BY <2>1, <2>2, <2>3 DEF Edges
<1>8. Edges(more, r.key) = Targets(r.text)
  <2>1. n + 1 \in DOMAIN more
    BY <1>1, <1>b
  <2>2. TextOf(more, more[n + 1].key) = more[n + 1].text
    BY TextAt, <1>4, <2>1
  <2> QED BY <1>1, <2>2 DEF Edges, Targets
<1>9. ASSUME NEW T, ClosedUnderImports(more, T) PROVE ClosedUnderImports(rd, T)
  BY <1>3, <1>7, <1>9 DEF ClosedUnderImports
<1>10. \A S : ReachableFrom(rd, S) \subseteq ReachableFrom(more, S)
  BY <1>9 DEF ReachableFrom
<1> QED BY <1>3, <1>4, <1>7, <1>8, <1>10 DEF more

----------------------------------------------------------------------------
(* What a step does to the stack.                                          *)

\* The frame on top goes on behind its import.
LEMMA SkipEffect ==
  ASSUME NEW st \in Seq(Frame), st # <<>>, st[Len(st)].rest # <<>>
  PROVE  LET past == [st EXCEPT ![Len(st)].rest = Tail(@)]
         IN  /\ past \in Seq(Frame) /\ Len(past) = Len(st) /\ DOMAIN past = DOMAIN st
             /\ \A i \in DOMAIN st : /\ past[i].key = st[i].key
                                     /\ i # Len(st) => past[i] = st[i]
             /\ past[Len(st)].rest = Tail(st[Len(st)].rest)
<1> DEFINE n == Len(st)
           top == [st[n] EXCEPT !.rest = Tail(@)]
<1>1. n \in DOMAIN st /\ DOMAIN st = 1..n /\ n \in Nat \ {0} /\ st[n] \in Frame
  BY FrontAndLast
<1>2. st[n].rest \in Seq(Spell) /\ st[n].key \in Key
  BY <1>1 DEF Frame
<1>3. Tail(st[n].rest) \in Seq(Spell)
  BY <1>2, HeadAndTail
<1>4. top \in Frame /\ top.key = st[n].key /\ top.rest = Tail(st[n].rest)
  BY <1>1, <1>2, <1>3 DEF Frame
<1>5. [st EXCEPT ![n].rest = Tail(@)] = [st EXCEPT ![n] = top]
  OBVIOUS
<1> HIDE DEF top
<1>6. /\ [st EXCEPT ![n] = top] \in Seq(Frame)
      /\ Len([st EXCEPT ![n] = top]) = n
      /\ DOMAIN [st EXCEPT ![n] = top] = DOMAIN st
  BY <1>1, <1>4
<1>7. [st EXCEPT ![n] = top][n] = top
  BY <1>1
<1>8. \A i \in DOMAIN st : i # n => [st EXCEPT ![n] = top][i] = st[i]
  OBVIOUS
<1> HIDE DEF n
<1>9. \A i \in DOMAIN st : [st EXCEPT ![n] = top][i].key = st[i].key
  BY <1>4, <1>7, <1>8
<1> QED BY <1>4, <1>5, <1>6, <1>7, <1>8, <1>9 DEF n

\* The frame that resolves the import at hand.
LEMMA AtTop ==
  ASSUME Inv, NEW p \in Process, Importing(p)
  PROVE  /\ Once(p) /\ Walk(p)
         /\ stack[p] \in Seq(Frame) /\ stack[p] # <<>>
         /\ Len(stack[p]) \in DOMAIN stack[p] /\ DOMAIN stack[p] = 1..Len(stack[p])
         /\ Len(stack[p]) \in Nat \ {0}
         /\ Top(p) = stack[p][Len(stack[p])]
         /\ Top(p).rest \in Seq(Spell) /\ Top(p).rest # <<>> /\ Top(p).key \in Key
         /\ Imported(p) \in Key \cup {Missing}
         /\ Imported(p) \in Targets(Top(p).rest)
         /\ Targets(Top(p).rest) = {Imported(p)} \cup Targets(Tail(Top(p).rest))
<1>1. Once(p) /\ Walk(p) /\ stack[p] \in Seq(Frame) /\ status[p] = "loading" /\ Top(p).rest # <<>>
  BY DEF Inv, Importing, Alive, TypeOK, Frame
<1>2. stack[p] # <<>>
  BY <1>1 DEF Walk, Bookkeeping
<1>3. /\ Len(stack[p]) \in DOMAIN stack[p] /\ DOMAIN stack[p] = 1..Len(stack[p])
      /\ Len(stack[p]) \in Nat \ {0} /\ Top(p) = stack[p][Len(stack[p])]
  BY <1>1, <1>2, FrontAndLast DEF Top
<1>4. Top(p) \in Frame
  BY <1>1, <1>3
<1>5. Top(p).rest \in Seq(Spell) /\ Top(p).key \in Key
  BY <1>4 DEF Frame
<1>6. /\ Head(Top(p).rest) \in Spell /\ Head(Top(p).rest) \in ToSet(Top(p).rest)
      /\ ToSet(Top(p).rest) = {Head(Top(p).rest)} \cup ToSet(Tail(Top(p).rest))
  BY <1>1, <1>5, HeadAndTail
<1>7. Imported(p) \in Key \cup {Missing}
  BY <1>6, SpellingAssumption DEF Imported
<1>8. Imported(p) \in Targets(Top(p).rest)
  BY <1>6 DEF Imported, Targets
<1>9. Targets(Top(p).rest) = {Imported(p)} \cup Targets(Tail(Top(p).rest))
  BY <1>6 DEF Imported, Targets
<1> QED BY <1>1, <1>2, <1>3, <1>5, <1>7, <1>8, <1>9

----------------------------------------------------------------------------
(* One lemma for each way a load may go on.                                *)

\* The import at hand is loaded, or is being resolved and its cycle reported.
LEMMA Skipped ==
  ASSUME Inv, NEW p \in Process, Importing(p), Imported(p) \in Key,
         stack'[p] = [stack[p] EXCEPT ![Len(stack[p])].rest = Tail(@)],
         status'[p] = status[p], loaded'[p] = loaded[p], items'[p] = items[p],
         read'[p] = read[p],
         \/ Imported(p) \in loaded[p] /\ cycles'[p] = cycles[p]
         \/ OnStack(p, Imported(p)) /\ cycles'[p] = cycles[p] \cup {Imported(p)}
  PROVE  Once(p)' /\ Walk(p)'
<1> DEFINE n == Len(stack[p])
           st == stack[p]
           rd == read[p]
           k == Imported(p)
<1>0. stack'[p] = [st EXCEPT ![n].rest = Tail(@)] /\ read'[p] = rd
  OBVIOUS
<1>1. /\ Once(p) /\ Walk(p) /\ st \in Seq(Frame) /\ st # <<>>
      /\ n \in DOMAIN st /\ DOMAIN st = 1..n /\ n \in Nat \ {0} /\ Top(p) = st[n]
      /\ st[n].rest # <<>>
      /\ k \in Targets(st[n].rest)
      /\ Targets(st[n].rest) = {k} \cup Targets(Tail(st[n].rest))
  BY AtTop
<1>2. /\ DOMAIN stack'[p] = DOMAIN st
      /\ \A i \in DOMAIN st : stack'[p][i].key = st[i].key
      /\ \A i \in DOMAIN st : i # n => stack'[p][i] = st[i]
      /\ stack'[p][n].rest = Tail(st[n].rest)
  BY <1>0, <1>1, SkipEffect
<1>3. Frames(p)' = Frames(p)
  BY <1>2 DEF Frames
<1>4. k \in loaded[p] \cup Frames(p)
  BY DEF OnStack, Frames
<1>5. /\ cycles[p] # {} => cycles'[p] # {}
      /\ cycles'[p] = {} => k \in loaded[p]
  OBVIOUS
<1> HIDE DEF n, st, rd, k
<1>6. Once(p)'
  BY <1>1, <1>2 DEF Once, st
<1>7. Bookkeeping(p)'
  <2>1. stack'[p] # <<>> /\ stack'[p][1].key = st[1].key
    BY <1>1, <1>2
  <2> QED BY <1>1, <1>3, <2>1 DEF Walk, Bookkeeping, st, Importing
<1>8. Waiting(p)'
  <2> SUFFICES ASSUME NEW i \in DOMAIN stack'[p], i + 1 \in DOMAIN stack'[p]
               PROVE  /\ stack'[p][i].rest # <<>>
                      /\ Spelling[Head(stack'[p][i].rest)] = stack'[p][i + 1].key
    BY DEF Waiting
  <2>1. i # n
    BY <1>1, <1>2
  <2> QED BY <1>1, <1>2, <2>1 DEF Walk, Waiting, st
<1>9. Progress(p)'
  <2>1. ASSUME NEW i \in DOMAIN st
        PROVE  /\ Targets(stack'[p][i].rest) \subseteq Edges(rd, st[i].key)
               /\ Edges(rd, st[i].key)
                    \subseteq Targets(stack'[p][i].rest) \cup loaded[p]
                                \cup (IF cycles'[p] = {} THEN {} ELSE Frames(p))
    <3>1. /\ Targets(st[i].rest) \subseteq Edges(rd, st[i].key)
          /\ Edges(rd, st[i].key)
               \subseteq Targets(st[i].rest) \cup loaded[p]
                           \cup (IF cycles[p] = {} THEN {} ELSE Frames(p))
      BY <1>1 DEF Walk, Progress, st, rd
    <3>2. /\ Targets(stack'[p][i].rest) \subseteq Targets(st[i].rest)
          /\ Targets(st[i].rest) \subseteq Targets(stack'[p][i].rest) \cup {k}
      <4>1. CASE i = n
        BY <1>1, <1>2, <4>1
      <4>2. CASE i # n
        BY <1>2, <4>2
      <4> QED BY <4>1, <4>2
    <3> QED BY <1>4, <1>5, <3>1, <3>2
  <2>2. \A i, j \in DOMAIN st : i < j => st[j].key \in ReachableFrom(rd, Edges(rd, st[i].key))
    BY <1>1 DEF Walk, Progress, st, rd
  <2>3. \A i, j \in DOMAIN st :
          i < j => stack'[p][j].key \in ReachableFrom(rd, Edges(rd, stack'[p][i].key))
    BY <1>2, <2>2
  <2>4. \A i \in DOMAIN st :
          /\ Targets(stack'[p][i].rest) \subseteq Edges(rd, stack'[p][i].key)
          /\ Edges(rd, stack'[p][i].key)
               \subseteq Targets(stack'[p][i].rest) \cup loaded[p]
                           \cup (IF cycles'[p] = {} THEN {} ELSE Frames(p))
    BY <1>2, <2>1
  <2> QED BY <1>0, <1>2, <1>3, <2>3, <2>4 DEF Progress
<1>10. Ordered(p)'
  <2>1. \A i \in DOMAIN items[p] : \A j \in 1..(i - 1) : items[p][j] \in loaded[p]
    <3>1. items[p] \in Seq(Key) /\ ToSet(items[p]) = loaded[p]
      BY <1>1 DEF Inv, TypeOK, Once
    <3>2. \A i \in DOMAIN items[p] : \A j \in 1..(i - 1) : j \in DOMAIN items[p]
      BY <3>1
    <3> QED BY <3>1, <3>2 DEF ToSet
  <2>2. ASSUME NEW i \in DOMAIN items[p]
        PROVE  Edges(rd, items[p][i]) \subseteq IF cycles'[p] = {} THEN {items[p][j] : j \in 1..(i - 1)}
                                                ELSE loaded[p] \cup Frames(p)
    BY <1>1, <1>5, <2>1 DEF Walk, Ordered, rd
  <2> QED BY <1>0, <1>3, <2>2 DEF Ordered
<1>11. Reached(p)'
  BY <1>0, <1>1, <1>3 DEF Walk, Reached, rd
<1>12. CyclesAreReal(p)'
  <2>1. CASE cycles[p] # {} \/ cycles'[p] = {}
    BY <1>0, <1>1, <2>1 DEF Walk, CyclesAreReal, rd
  <2>2. CASE cycles[p] = {} /\ cycles'[p] # {}
    <3>1. OnStack(p, k)
      BY <2>2 DEF k
    <3>2. PICK m \in DOMAIN st : st[m].key = k
      BY <3>1 DEF OnStack, st
    <3>3. k \in Edges(rd, st[n].key)
      BY <1>1 DEF Walk, Progress, st, rd
    <3>4. k \in Entered(rd) /\ st[n].key \in Entered(rd)
      BY <1>1, <3>2 DEF Walk, Bookkeeping, Frames, st, rd
    <3>5. k \in ReachableFrom(rd, Edges(rd, k))
      <4>1. CASE m = n
        BY <3>2, <3>3, <4>1, ReachBase DEF k
      <4>2. CASE m # n
        <5>1. m < n
          BY <1>1, <4>2
        <5>2. st[n].key \in ReachableFrom(rd, Edges(rd, st[m].key))
          BY <1>1, <5>1 DEF Walk, Progress, st, rd
        <5> QED BY <3>2, <3>3, <3>4, <5>2, ReachStep DEF k
      <4> QED BY <4>1, <4>2
    <3> QED BY <1>0, <3>4, <3>5 DEF CyclesAreReal, Cyclic
  <2> QED BY <2>1, <2>2
<1> QED BY <1>6, <1>7, <1>8, <1>9, <1>10, <1>11, <1>12 DEF Walk

\* The import at hand is entered, its text read.
LEMMA Entering ==
  ASSUME Inv, NEW p \in Process, Fresh(p), NEW text \in Seq(Spell),
         Push(p, Imported(p), text),
         status'[p] = status[p], loaded'[p] = loaded[p], items'[p] = items[p],
         cycles'[p] = cycles[p]
  PROVE  Once(p)' /\ Walk(p)'
<1> DEFINE st == stack[p]
           n == Len(st)
           rd == read[p]
           k == Imported(p)
           more == Append(rd, [key |-> k, text |-> text])
           above == Append(st, [key |-> k, rest |-> text])
<1>0. Importing(p) /\ k \in Key /\ k \notin loaded[p] /\ ~OnStack(p, k)
  BY AtTop DEF Fresh, Resolvable
<1>1. /\ Once(p) /\ Walk(p) /\ st \in Seq(Frame) /\ st # <<>>
      /\ n \in DOMAIN st /\ DOMAIN st = 1..n /\ n \in Nat \ {0} /\ Top(p) = st[n]
      /\ st[n].rest # <<>> /\ k \in Targets(st[n].rest)
  BY <1>0, AtTop
<1>2. stack'[p] = above /\ read'[p] = more /\ rd \in Seq(Reading) /\ status[p] = "loading"
  BY <1>0 DEF Push, Inv, TypeOK, Reading, Importing
<1>3. [key |-> k, rest |-> text] \in Frame /\ [key |-> k, text |-> text] \in Reading
  BY <1>0 DEF Frame, Reading
<1>4. /\ above # <<>> /\ DOMAIN above = 1..(n + 1)
      /\ \A i \in 1..n : above[i] = st[i]
      /\ above[n + 1] = [key |-> k, rest |-> text]
  BY <1>1, <1>3, Appended
<1>4a. above[n + 1].key = k /\ above[n + 1].rest = text
  BY <1>4
<1>5. /\ k \notin Frames(p) /\ Entered(rd) = loaded[p] \cup Frames(p)
      /\ Distinct(rd) /\ rd # <<>>
  BY <1>0, <1>1 DEF OnStack, Frames, Walk, Bookkeeping
<1>6. /\ Distinct(more) /\ Entered(more) = Entered(rd) \cup {k}
      /\ \A x \in Entered(rd) : Edges(more, x) = Edges(rd, x)
      /\ Edges(more, k) = Targets(text)
      /\ \A S : ReachableFrom(rd, S) \subseteq ReachableFrom(more, S)
  BY <1>0, <1>2, <1>3, <1>5, EnteredOneMore
<1>7. Head(more) = Head(rd) /\ more # <<>>
  BY <1>2, <1>3, <1>5, Appended
<1>8. \A i \in DOMAIN st : st[i].key \in Frames(p) /\ st[i].key \in Entered(rd)
  BY <1>5 DEF Frames
<1> HIDE DEF st, n, rd, k, more, above
<1>9. \A i \in 1..(n + 1) : i \in 1..n \/ i = n + 1
  BY <1>1
<1>9a. n + 1 \in 1..(n + 1) /\ \A i \in 1..n : i \in 1..(n + 1)
  BY <1>1
<1>10. Frames(p)' = Frames(p) \cup {k}
  <2>1. Frames(p)' = {above[i].key : i \in 1..(n + 1)}
    BY <1>2, <1>4 DEF Frames
  <2>2. Frames(p) = {st[i].key : i \in 1..n}
    BY <1>1 DEF Frames, st
  <2>3. {above[i].key : i \in 1..(n + 1)} \subseteq {st[i].key : i \in 1..n} \cup {k}
    BY <1>4, <1>4a, <1>9
  <2>4. {st[i].key : i \in 1..n} \cup {k} \subseteq {above[i].key : i \in 1..(n + 1)}
    BY <1>4, <1>4a, <1>9a
  <2> QED BY <2>1, <2>2, <2>3, <2>4
<1>11. Once(p)'
  <2>1. \A i, j \in DOMAIN above : above[i].key = above[j].key => i = j
    <3>1. \A i, j \in DOMAIN st : st[i].key = st[j].key => i = j
      BY <1>1 DEF Once, st
    <3>2. \A i \in DOMAIN st : st[i].key # k
      BY <1>5, <1>8
    <3> QED BY <1>1, <1>4, <1>4a, <1>9, <3>1, <3>2
  <2>2. \A i \in DOMAIN above : above[i].key \notin loaded[p]
    BY <1>0, <1>1, <1>4, <1>4a, <1>9 DEF Once, st
  <2> QED BY <1>1, <1>2, <2>1, <2>2 DEF Once
<1>12. Bookkeeping(p)'
  <2>1. above[1] = st[1] /\ st[1].key = Head(rd).key
    BY <1>1, <1>2, <1>4 DEF Walk, Bookkeeping, st, rd
  <2>2. Entered(more) = loaded'[p] \cup Frames(p)'
    BY <1>5, <1>6, <1>10
  <2> QED BY <1>2, <1>4, <1>6, <1>7, <2>1, <2>2 DEF Bookkeeping
<1>13. Waiting(p)'
  <2> SUFFICES ASSUME NEW i \in DOMAIN above, i + 1 \in DOMAIN above
               PROVE  above[i].rest # <<>> /\ Spelling[Head(above[i].rest)] = above[i + 1].key
    BY <1>2 DEF Waiting
  <2>1. CASE i = n
    <3>1. above[i] = st[n] /\ above[i + 1].key = k
      BY <1>1, <1>4, <1>4a, <2>1
    <3>2. k = Spelling[Head(st[n].rest)]
      BY <1>1 DEF Imported, k
    <3> QED BY <1>1, <3>1, <3>2
  <2>2. CASE i # n
    <3>1. i \in 1..n /\ i + 1 \in 1..n
      BY <1>1, <1>4, <2>2
    <3> QED BY <1>1, <1>4, <3>1 DEF Walk, Waiting, st
  <2> QED BY <2>1, <2>2
<1>14. k \in Edges(rd, st[n].key) /\ k \in Edges(more, st[n].key)
  <2>1. k \in Edges(rd, st[n].key)
    BY <1>1 DEF Walk, Progress, st, rd
  <2> QED BY <1>1, <1>6, <1>8, <2>1
<1>15. Progress(p)'
  <2>1. ASSUME NEW i \in DOMAIN above
        PROVE  /\ Targets(above[i].rest) \subseteq Edges(more, above[i].key)
               /\ Edges(more, above[i].key)
                    \subseteq Targets(above[i].rest) \cup loaded[p]
                                \cup (IF cycles[p] = {} THEN {} ELSE Frames(p)')
    <3>1. CASE i = n + 1
      BY <1>4a, <1>6, <3>1
    <3>2. CASE i \in 1..n
      <4>1. /\ Targets(st[i].rest) \subseteq Edges(rd, st[i].key)
            /\ Edges(rd, st[i].key)
                 \subseteq Targets(st[i].rest) \cup loaded[p]
                             \cup (IF cycles[p] = {} THEN {} ELSE Frames(p))
        BY <1>1, <3>2 DEF Walk, Progress, st, rd
      <4>2. above[i] = st[i] /\ Edges(more, st[i].key) = Edges(rd, st[i].key)
        BY <1>1, <1>4, <1>6, <1>8, <3>2
      <4> QED BY <1>10, <4>1, <4>2
    <3> QED BY <1>4, <1>9, <3>1, <3>2
  <2>2. ASSUME NEW i \in DOMAIN above, NEW j \in DOMAIN above, i < j
        PROVE  above[j].key \in ReachableFrom(more, Edges(more, above[i].key))
    <3>1. i \in 1..n /\ above[i] = st[i] /\ Edges(more, st[i].key) = Edges(rd, st[i].key)
      BY <1>1, <1>4, <1>6, <1>8, <2>2
    <3>2. \A m \in 1..n : i < m => st[m].key \in ReachableFrom(rd, Edges(rd, st[i].key))
      BY <1>1, <3>1 DEF Walk, Progress, st, rd
    <3>3. \A m \in 1..n : i < m => st[m].key \in ReachableFrom(more, Edges(more, st[i].key))
      BY <1>6, <3>1, <3>2
    <3>4. CASE j \in 1..n
      BY <1>4, <2>2, <3>1, <3>3, <3>4
    <3>5. CASE j = n + 1
      <4>1. CASE i = n
        BY <1>0, <1>4a, <1>14, <3>1, <3>5, <4>1, ReachBase DEF k
      <4>2. CASE i # n
        <5>1. st[n].key \in ReachableFrom(more, Edges(more, st[i].key))
          BY <1>1, <3>1, <3>3, <4>2
        <5>2. st[n].key \in Entered(more)
          BY <1>1, <1>6, <1>8
        <5>3. k \in ReachableFrom(more, Edges(more, st[i].key))
          BY <1>0, <1>14, <5>1, <5>2, ReachStep DEF k
        <5> QED BY <1>4a, <3>1, <3>5, <5>3
      <4> QED BY <4>1, <4>2
    <3> QED BY <1>4, <1>9, <3>4, <3>5
  <2> QED BY <1>2, <2>1, <2>2 DEF Progress
<1>16. Ordered(p)'
  <2>1. ASSUME NEW i \in DOMAIN items[p]
        PROVE  /\ Edges(rd, items[p][i]) \subseteq IF cycles[p] = {} THEN {items[p][j] : j \in 1..(i - 1)}
                                                   ELSE loaded[p] \cup Frames(p)
               /\ items[p][i] \in Entered(rd)
    BY <1>1, <1>5 DEF Walk, Ordered, Once, ToSet, rd
  <2>2. ASSUME NEW i \in DOMAIN items[p]
        PROVE  Edges(more, items[p][i]) \subseteq IF cycles[p] = {} THEN {items[p][j] : j \in 1..(i - 1)}
                                                  ELSE loaded[p] \cup Frames(p)'
    BY <1>6, <1>10, <2>1
  <2> QED BY <1>2, <2>2 DEF Ordered
<1>17. Reached(p)'
  <2>1. Reachable(rd) \subseteq Reachable(more)
    BY <1>6, <1>7 DEF Reachable
  <2>2. st[n].key \in Reachable(more) /\ loaded[p] \cup Frames(p) \subseteq Reachable(more)
    BY <1>1, <1>8, <2>1 DEF Walk, Reached, rd
  <2>3. st[n].key \in Entered(more)
    BY <1>1, <1>6, <1>8
  <2>4. k \in Reachable(more)
    BY <1>0, <1>14, <2>2, <2>3, ReachStep DEF Reachable, k
  <2> QED BY <1>2, <1>10, <2>2, <2>4 DEF Reached
<1>18. CyclesAreReal(p)'
  <2>1. Cyclic(rd) => Cyclic(more)
    <3> SUFFICES ASSUME NEW x \in Entered(rd), x \in ReachableFrom(rd, Edges(rd, x))
                 PROVE  x \in Entered(more) /\ x \in ReachableFrom(more, Edges(more, x))
      BY DEF Cyclic
    <3> QED BY <1>6
  <2> QED BY <1>1, <1>2, <2>1 DEF Walk, CyclesAreReal, rd
<1> QED BY <1>11, <1>12, <1>13, <1>15, <1>16, <1>17, <1>18 DEF Walk

\* A load begins with its entry.
LEMMA Beginning ==
  ASSUME NEW p \in Process, NEW k \in Key, NEW text \in Seq(Spell),
         stack'[p] = <<[key |-> k, rest |-> text]>>,
         read'[p] = <<[key |-> k, text |-> text]>>,
         status'[p] = "loading", loaded'[p] = {}, items'[p] = <<>>, cycles'[p] = {}
  PROVE  Once(p)' /\ Walk(p)'
<1> DEFINE rd == <<[key |-> k, text |-> text]>>
           st == <<[key |-> k, rest |-> text]>>
<1>1. DOMAIN rd = {1} /\ DOMAIN st = {1} /\ rd # <<>> /\ st # <<>> /\ Head(rd) = rd[1]
      /\ rd[1].key = k /\ rd[1].text = text /\ st[1].key = k /\ st[1].rest = text
      /\ stack'[p] = st /\ read'[p] = rd
  OBVIOUS
<1> HIDE DEF rd, st
<1>2. Distinct(rd) /\ Entered(rd) = {k} /\ Frames(p)' = {k}
  BY <1>1 DEF Distinct, Entered, Frames
<1>3. Edges(rd, k) = Targets(text)
  <2>1. TextOf(rd, rd[1].key) = rd[1].text
    BY <1>1, <1>2, TextAt
  <2> QED BY <1>1, <2>1 DEF Edges, Targets
<1>4. DOMAIN items'[p] = {} /\ ToSet(items'[p]) = {}
  BY DEF ToSet
<1>5. Once(p)'
  BY <1>1, <1>4 DEF Once, IsInjective
<1>6. Bookkeeping(p)'
  BY <1>1, <1>2 DEF Bookkeeping
<1>7. Waiting(p)'
  BY <1>1 DEF Waiting
<1>8. Progress(p)'
  BY <1>1, <1>3 DEF Progress
<1>9. Ordered(p)'
  BY <1>4 DEF Ordered
<1>10. Reached(p)'
  BY <1>1, <1>2, ReachBase DEF Reached, Reachable
<1>11. CyclesAreReal(p)'
  BY DEF CyclesAreReal
<1> QED BY <1>5, <1>6, <1>7, <1>8, <1>9, <1>10, <1>11 DEF Walk

\* The frame on top is spliced and leaves the stack.
LEMMA Returned ==
  ASSUME Inv, NEW p \in Process, Return(p)
  PROVE  Once(p)' /\ Walk(p)' /\ stack'[p] \in Seq(Frame)
         /\ loaded'[p] \subseteq Key /\ items'[p] \in Seq(Key)
         /\ status'[p] \in {"loading", "done"}
<1> DEFINE st == stack[p]
           n == Len(st)
           rd == read[p]
           key == Top(p).key
           its == items[p]
           m == Len(its)
           more == Append(its, key)
           below == Front(st)
<1>1. /\ Once(p) /\ Walk(p) /\ st \in Seq(Frame) /\ status[p] = "loading"
      /\ loaded[p] \subseteq Key /\ its \in Seq(Key) /\ cycles'[p] = cycles[p] /\ read'[p] = rd
  BY DEF Inv, Return, Alive, TypeOK, Frame
<1>2. st # <<>> /\ st[1].key = Head(rd).key
  BY <1>1 DEF Walk, Bookkeeping
<1>3. /\ n \in DOMAIN st /\ DOMAIN st = 1..n /\ n \in Nat \ {0} /\ Top(p) = st[n]
      /\ below \in Seq(Frame) /\ Len(below) = n - 1 /\ DOMAIN below = 1..(n - 1)
      /\ \A i \in 1..(n - 1) : below[i] = st[i]
  BY <1>1, <1>2, FrontAndLast DEF Top
<1>4. st[n] \in Frame /\ key = st[n].key /\ key \in Key /\ st[n].rest = <<>>
  <2>1. st[n] \in Frame
    BY <1>1, <1>3
  <2>2. Top(p).rest = <<>>
    BY DEF Return
  <2> QED BY <1>3, <2>1, <2>2 DEF Frame
<1>5. loaded'[p] = loaded[p] \cup {key} /\ items'[p] = more
  BY <1>1 DEF Inv, TypeOK, Return, Spliced
<1>6. /\ more \in Seq(Key) /\ more # <<>> /\ m \in Nat /\ DOMAIN its = 1..m
      /\ DOMAIN more = 1..(m + 1) /\ \A i \in 1..m : more[i] = its[i]
      /\ more[m + 1] = key /\ ToSet(more) = ToSet(its) \cup {key}
  BY <1>1, <1>4, Appended
<1>7. /\ n = 1 => stack'[p] = <<>> /\ status'[p] = "done"
      /\ n # 1 => /\ stack'[p] = [below EXCEPT ![n - 1].rest = Tail(@)]
                  /\ status'[p] = "loading"
  <2> HIDE DEF below, n
  <2>1. below = <<>> <=> n = 1
    <3>1. below = <<>> => Len(below) = 0
      OBVIOUS
    <3>2. Len(below) = 0 => below = <<>>
      BY <1>3
    <3> QED BY <1>3, <3>1, <3>2
  <2>2. /\ below = <<>> => /\ stack' = [stack EXCEPT ![p] = <<>>]
                           /\ status' = [status EXCEPT ![p] = "done"]
        /\ below # <<>> => /\ stack' = [stack EXCEPT ![p] = [below EXCEPT ![Len(below)].rest = Tail(@)]]
                           /\ status' = status
    BY DEF Return, below
  <2>3. p \in DOMAIN stack /\ p \in DOMAIN status
    BY DEF Inv, TypeOK
  <2> QED BY <1>1, <1>3, <2>1, <2>2, <2>3
<1> HIDE DEF st, n, rd, key, its, m, more, below
<1>8. n # 1 => below # <<>> /\ below[n - 1].rest # <<>> /\ Spelling[Head(below[n - 1].rest)] = key
  <2> SUFFICES ASSUME n # 1
               PROVE  below # <<>> /\ below[n - 1].rest # <<>>
                      /\ Spelling[Head(below[n - 1].rest)] = key
    OBVIOUS
  <2>1. n - 1 \in DOMAIN st /\ (n - 1) + 1 = n /\ below[n - 1] = st[n - 1] /\ Len(below) # 0
    BY <1>3
  <2>2. below # <<>>
    BY <2>1
  <2>3. st[n - 1].rest # <<>> /\ Spelling[Head(st[n - 1].rest)] = st[(n - 1) + 1].key
    BY <1>1, <1>3, <2>1 DEF Walk, Waiting, st
  <2> QED BY <1>4, <2>1, <2>2, <2>3
\* What is left of the stack.
<1>9. /\ stack'[p] \in Seq(Frame) /\ Len(stack'[p]) = n - 1 /\ DOMAIN stack'[p] = 1..(n - 1)
      /\ \A i \in 1..(n - 1) : /\ stack'[p][i].key = st[i].key
                               /\ i # n - 1 => stack'[p][i] = st[i]
      /\ n # 1 => stack'[p][n - 1].rest = Tail(st[n - 1].rest)
  <2>1. CASE n = 1
    <3>1. stack'[p] = <<>> /\ 1..(n - 1) = {}
      BY <1>7, <2>1
    <3>2. <<>> \in Seq(Frame) /\ Len(<<>>) = 0 /\ DOMAIN <<>> = {}
      OBVIOUS
    <3> QED BY <2>1, <3>1, <3>2
  <2>2. CASE n # 1
    <3>0. /\ below # <<>> /\ below \in Seq(Frame) /\ Len(below) = n - 1
          /\ below[Len(below)].rest # <<>>
          /\ stack'[p] = [below EXCEPT ![Len(below)].rest = Tail(@)]
      BY <1>3, <1>7, <1>8, <2>2
    <3>1. /\ stack'[p] \in Seq(Frame) /\ Len(stack'[p]) = n - 1
          /\ DOMAIN stack'[p] = DOMAIN below
          /\ \A i \in DOMAIN below : /\ stack'[p][i].key = below[i].key
                                     /\ i # n - 1 => stack'[p][i] = below[i]
          /\ stack'[p][n - 1].rest = Tail(below[n - 1].rest)
      BY <3>0, SkipEffect
    <3>2. n - 1 \in 1..(n - 1)
      BY <1>3, <2>2
    <3> QED BY <1>3, <3>1, <3>2
  <2> QED BY <2>1, <2>2
<1>10. \A i \in DOMAIN st : i \in 1..(n - 1) \/ i = n
  BY <1>3
<1>10a. \A i \in 1..(n - 1) : i \in DOMAIN st
  BY <1>3
<1>11. Frames(p)' \subseteq Frames(p) /\ Frames(p) = Frames(p)' \cup {key}
  <2>1. Frames(p)' \subseteq Frames(p)
    BY <1>9, <1>10a DEF Frames, st
  <2>2. Frames(p) \subseteq Frames(p)' \cup {key}
    BY <1>4, <1>9, <1>10 DEF Frames, st
  <2>3. key \in Frames(p)
    BY <1>3, <1>4 DEF Frames, st
  <2> QED BY <2>1, <2>2, <2>3
<1>12. loaded'[p] \cup Frames(p)' = loaded[p] \cup Frames(p) /\ ToSet(its) = loaded[p]
  BY <1>1, <1>5, <1>11 DEF Once, its
<1>13. key \notin ToSet(its)
  BY <1>1, <1>3, <1>4, <1>12 DEF Once, st
<1>14. Once(p)'
  <2>1. IsInjective(more)
    <3>1. \A i, j \in 1..m : its[i] = its[j] => i = j
      BY <1>1, <1>6 DEF Once, IsInjective, its
    <3>2. \A i \in 1..m : its[i] # key
      BY <1>6, <1>13 DEF ToSet
    <3>3. \A i \in 1..(m + 1) : i \in 1..m \/ i = m + 1
      BY <1>6
    <3> QED BY <1>6, <3>1, <3>2, <3>3 DEF IsInjective
  <2>2. \A i, j \in DOMAIN stack'[p] : stack'[p][i].key = stack'[p][j].key => i = j
    BY <1>1, <1>9, <1>10a DEF Once, st
  <2>3. \A i \in DOMAIN stack'[p] : stack'[p][i].key \notin loaded'[p]
    <3> SUFFICES ASSUME NEW i \in 1..(n - 1) PROVE st[i].key \notin loaded[p] \cup {key}
      BY <1>5, <1>9
    <3>1. i # n
      BY <1>3
    <3> QED BY <1>1, <1>3, <1>4, <1>10a, <3>1 DEF Once, st
  <2>4. ToSet(more) = loaded'[p]
    BY <1>5, <1>6, <1>12
  <2> QED BY <1>5, <2>1, <2>2, <2>3, <2>4 DEF Once
<1>15. Bookkeeping(p)'
  <2>1. rd # <<>> /\ Distinct(rd) /\ Entered(rd) = loaded'[p] \cup Frames(p)'
    BY <1>1, <1>12 DEF Walk, Bookkeeping, rd
  <2>2. ASSUME n = 1 PROVE Last(more) = Head(rd).key
    <3>1. Last(more) = more[m + 1]
      BY <1>6 DEF Last
    <3> QED BY <1>2, <1>4, <1>6, <2>2, <3>1
  <2>3. ASSUME n # 1 PROVE stack'[p] # <<>> /\ stack'[p][1].key = Head(rd).key
    <3>1. 1 \in 1..(n - 1) /\ n - 1 # 0
      BY <1>3, <2>3
    <3> QED BY <1>2, <1>9, <3>1
  <2> QED BY <1>1, <1>5, <1>6, <1>7, <2>1, <2>2, <2>3 DEF Bookkeeping
<1>16. Waiting(p)'
  <2> SUFFICES ASSUME NEW i \in DOMAIN stack'[p], i + 1 \in DOMAIN stack'[p]
               PROVE  /\ stack'[p][i].rest # <<>>
                      /\ Spelling[Head(stack'[p][i].rest)] = stack'[p][i + 1].key
    BY DEF Waiting
  <2>1. i # n - 1 /\ i \in 1..(n - 1) /\ i + 1 \in 1..(n - 1)
    BY <1>3, <1>9
  <2>2. st[i].rest # <<>> /\ Spelling[Head(st[i].rest)] = st[i + 1].key
    BY <1>1, <1>10a, <2>1 DEF Walk, Waiting, st
  <2> QED BY <1>9, <2>1, <2>2
<1>17. Progress(p)'
  <2>1. ASSUME NEW i \in 1..(n - 1)
        PROVE  /\ Targets(stack'[p][i].rest) \subseteq Edges(rd, st[i].key)
               /\ Edges(rd, st[i].key)
                    \subseteq Targets(stack'[p][i].rest) \cup loaded'[p]
                                \cup (IF cycles[p] = {} THEN {} ELSE Frames(p)')
    <3>1. /\ Targets(st[i].rest) \subseteq Edges(rd, st[i].key)
          /\ Edges(rd, st[i].key)
               \subseteq Targets(st[i].rest) \cup loaded[p]
                           \cup (IF cycles[p] = {} THEN {} ELSE Frames(p))
      BY <1>1, <1>10a DEF Walk, Progress, st, rd
    <3>2. /\ Targets(stack'[p][i].rest) \subseteq Targets(st[i].rest)
          /\ Targets(st[i].rest) \subseteq Targets(stack'[p][i].rest) \cup {key}
      <4>1. CASE i = n - 1
        <5>1. n # 1 /\ st[n - 1] = below[n - 1] /\ st[n - 1] \in Frame
          BY <1>1, <1>3, <1>10a, <4>1
        <5>2. st[n - 1].rest \in Seq(Spell) /\ st[n - 1].rest # <<>>
          BY <1>8, <5>1 DEF Frame
        <5>3. ToSet(st[n - 1].rest) = {Head(st[n - 1].rest)} \cup ToSet(Tail(st[n - 1].rest))
          BY <5>2, HeadAndTail
        <5>4. Targets(st[n - 1].rest) = {key} \cup Targets(Tail(st[n - 1].rest))
          BY <1>8, <5>1, <5>3 DEF Targets
        <5> QED BY <1>9, <4>1, <5>1, <5>4
      <4>2. CASE i # n - 1
        BY <1>9, <4>2
      <4> QED BY <4>1, <4>2
    <3> QED BY <1>5, <1>11, <3>1, <3>2
  <2>2. \A i, j \in 1..(n - 1) : i < j => st[j].key \in ReachableFrom(rd, Edges(rd, st[i].key))
    BY <1>1, <1>10a DEF Walk, Progress, st, rd
  <2> QED BY <1>1, <1>9, <2>1, <2>2 DEF Progress
<1>18. Ordered(p)'
  <2> DEFINE Before(i) == {more[j] : j \in 1..(i - 1)}
  <2> SUFFICES ASSUME NEW i \in 1..(m + 1)
               PROVE  Edges(rd, more[i]) \subseteq IF cycles[p] = {} THEN Before(i)
                                                   ELSE loaded'[p] \cup Frames(p)'
    <3>1. \A i \in DOMAIN more : Edges(rd, more[i]) \subseteq IF cycles[p] = {} THEN Before(i)
                                                            ELSE loaded'[p] \cup Frames(p)'
      BY <1>6
    <3>2. /\ read'[p] = rd /\ cycles'[p] = cycles[p] /\ items'[p] = more
      BY <1>1, <1>5
    <3> QED BY <3>1, <3>2 DEF Ordered
  <2>1. CASE i \in 1..m
    <3>1. Edges(rd, its[i]) \subseteq IF cycles[p] = {} THEN {its[j] : j \in 1..(i - 1)}
                                      ELSE loaded[p] \cup Frames(p)
      BY <1>1, <1>6, <2>1 DEF Walk, Ordered, its, rd
    <3>2. \A j \in 1..(i - 1) : more[j] = its[j]
      BY <1>6, <2>1
    <3> QED BY <1>6, <1>12, <2>1, <3>1, <3>2
  <2>2. CASE i = m + 1
    <3>1. Targets(st[n].rest) = {}
      <4>1. ToSet(<<>>) = {}
        BY DEF ToSet
      <4> QED BY <1>4, <4>1 DEF Targets
    <3>2. Edges(rd, key) \subseteq loaded[p] \cup (IF cycles[p] = {} THEN {} ELSE Frames(p))
      BY <1>1, <1>3, <1>4, <3>1 DEF Walk, Progress, st, rd
    <3>3. loaded[p] = {more[j] : j \in 1..(i - 1)}
      <4>1. i - 1 = m
        BY <1>6, <2>2
      <4> QED BY <1>6, <1>12, <4>1 DEF ToSet
    <3> QED BY <1>6, <1>12, <2>2, <3>2, <3>3
  <2>3. i \in 1..m \/ i = m + 1
    BY <1>6
  <2> QED BY <2>1, <2>2, <2>3
<1>19. Reached(p)'
  BY <1>1, <1>12 DEF Walk, Reached, rd
<1>20. CyclesAreReal(p)'
  BY <1>1 DEF Walk, CyclesAreReal, rd
<1>21. loaded'[p] \subseteq Key /\ items'[p] \in Seq(Key) /\ status'[p] \in {"loading", "done"}
  BY <1>1, <1>4, <1>5, <1>6, <1>7
<1> QED BY <1>9, <1>14, <1>15, <1>16, <1>17, <1>18, <1>19, <1>20, <1>21 DEF Walk

----------------------------------------------------------------------------
(* Every step preserves the invariant.                                     *)

\* A step of another process leaves a load alone.
LEMMA Untouched ==
  ASSUME NEW q \in Process, Once(q), Alive(q) => Walk(q),
         status'[q] = status[q], stack'[q] = stack[q], loaded'[q] = loaded[q],
         items'[q] = items[q], cycles'[q] = cycles[q], read'[q] = read[q]
  PROVE  Once(q)' /\ (Alive(q)' => Walk(q)')
<1>1. Once(q)'
  BY DEF Once
<1>2. Frames(q)' = Frames(q) /\ (Alive(q)' <=> Alive(q))
  BY DEF Frames, Alive
<1>3. Bookkeeping(q) => Bookkeeping(q)'
  BY <1>2 DEF Bookkeeping
<1>4. Waiting(q) => Waiting(q)'
  BY DEF Waiting
<1>5. Progress(q) => Progress(q)'
  BY <1>2 DEF Progress
<1>6. Ordered(q) => Ordered(q)'
  BY <1>2 DEF Ordered
<1>7. Reached(q) => Reached(q)'
  BY <1>2 DEF Reached
<1>8. CyclesAreReal(q) => CyclesAreReal(q)'
  BY DEF CyclesAreReal
<1> QED BY <1>1, <1>2, <1>3, <1>4, <1>5, <1>6, <1>7, <1>8 DEF Walk

\* Of the state of the loads, a step of p changes only p's.
Others(p) ==
  \A q \in Process \ {p} :
    /\ status'[q] = status[q] /\ stack'[q] = stack[q] /\ loaded'[q] = loaded[q]
    /\ items'[q] = items[q] /\ cycles'[q] = cycles[q] /\ read'[q] = read[q]

\* A process's step leaves the other processes where they are.
LEMMA OthersStay ==
  ASSUME Inv, NEW p \in Process, Resolve(p) \/ Crash(p) \/ \E k \in Entry : Start(p, k)
  PROVE  Others(p)
<1> USE DEF Inv, TypeOK, Others
<1>1. CASE Fail(p)
  BY <1>1 DEF Fail
<1>2. CASE SkipLoaded(p)
  BY <1>2 DEF SkipLoaded, Skip
<1>3. CASE ReportCycle(p)
  BY <1>3 DEF ReportCycle, Skip
<1>4. CASE EnterFile(p)
  BY <1>4 DEF EnterFile, Push
<1>5. CASE ReadCache(p)
  BY <1>5 DEF ReadCache, Push
<1>6. CASE Fetch(p)
  BY <1>6 DEF Fetch, Push
<1>7. CASE FetchFails(p)
  BY <1>7 DEF FetchFails
<1>8. CASE CreateCacheFile(p)
  BY <1>8 DEF CreateCacheFile
<1>9. CASE CacheWritten(p)
  BY <1>9 DEF CacheWritten
<1>10. CASE Return(p)
  BY <1>10 DEF Return
<1>11. CASE Crash(p)
  BY <1>11 DEF Crash
<1>12. CASE \E k \in Entry : Start(p, k)
  BY <1>12 DEF Start
<1> QED BY <1>1, <1>2, <1>3, <1>4, <1>5, <1>6, <1>7, <1>8, <1>9, <1>10, <1>11, <1>12 DEF Resolve

\* An import that resolves names a key.
LEMMA ResolvesToKey ==
  ASSUME Inv, NEW p \in Process, Resolvable(p)
  PROVE  Importing(p) /\ Imported(p) \in Key /\ source[Imported(p)] \in Seq(Spell)
<1>1. Importing(p) /\ Imported(p) \in Key
  BY AtTop DEF Resolvable
<1> QED BY <1>1 DEF Inv, TypeOK

\* Entering a key, whatever text is read for it.
LEMMA EnteringStep ==
  ASSUME Inv, NEW p \in Process, Fresh(p), NEW text \in Seq(Spell), Push(p, Imported(p), text),
         UNCHANGED <<source, cache, status, loaded, items, cycles, writing, loads>>,
         fetching' \in [Process -> Registry \cup {Missing}]
  PROVE  TypeOK' /\ Once(p)' /\ Walk(p)'
<1>1. Imported(p) \in Key
  BY ResolvesToKey DEF Fresh
<1>2. Once(p)' /\ Walk(p)'
  BY Entering
<1>3. stack' \in [Process -> Seq([key : Key, rest : Seq(Spell)])]
  <2>1. [key |-> Imported(p), rest |-> text] \in [key : Key, rest : Seq(Spell)]
    BY <1>1
  <2>2. stack[p] \in Seq([key : Key, rest : Seq(Spell)])
    BY DEF Inv, TypeOK
  <2>3. Append(stack[p], [key |-> Imported(p), rest |-> text])
          \in Seq([key : Key, rest : Seq(Spell)])
    BY <2>1, <2>2, Appended
  <2> QED BY <2>3 DEF Push, Inv, TypeOK
<1>4. read' \in [Process -> Seq([key : Key, text : Seq(Spell)])]
  <2>1. [key |-> Imported(p), text |-> text] \in [key : Key, text : Seq(Spell)]
    BY <1>1
  <2>2. read[p] \in Seq([key : Key, text : Seq(Spell)])
    BY DEF Inv, TypeOK
  <2>3. Append(read[p], [key |-> Imported(p), text |-> text])
          \in Seq([key : Key, text : Seq(Spell)])
    BY <2>1, <2>2, Appended
  <2> QED BY <2>3 DEF Push, Inv, TypeOK
<1> QED BY <1>2, <1>3, <1>4 DEF Inv, TypeOK

\* Going on behind an import.
LEMMA SkippingStep ==
  ASSUME Inv, NEW p \in Process, Resolvable(p), stack' = Skip(p),
         UNCHANGED <<source, cache, status, loaded, items, fetching, writing, read, loads>>,
         \/ Imported(p) \in loaded[p] /\ UNCHANGED cycles
         \/ /\ OnStack(p, Imported(p))
            /\ cycles' = [cycles EXCEPT ![p] = @ \cup {Imported(p)}]
  PROVE  TypeOK' /\ Once(p)' /\ Walk(p)'
<1>1. Importing(p) /\ Imported(p) \in Key
  BY ResolvesToKey
<1>2. stack' = [stack EXCEPT ![p] = [stack[p] EXCEPT ![Len(stack[p])].rest = Tail(@)]]
  BY DEF Skip
<1>3. /\ stack[p] \in Seq(Frame) /\ stack[p] # <<>> /\ stack[p][Len(stack[p])].rest # <<>>
      /\ p \in DOMAIN stack /\ p \in DOMAIN cycles
  BY <1>1, AtTop DEF Inv, TypeOK
<1>4. stack'[p] = [stack[p] EXCEPT ![Len(stack[p])].rest = Tail(@)]
  BY <1>2, <1>3
<1>5. stack'[p] \in Seq(Frame)
  BY <1>3, <1>4, SkipEffect
<1>6. stack' \in [Process -> Seq([key : Key, rest : Seq(Spell)])]
  BY <1>2, <1>4, <1>5 DEF Inv, TypeOK, Frame
<1>7. cycles' \in [Process -> SUBSET Key]
  <2>1. cycles \in [Process -> SUBSET Key] /\ cycles[p] \cup {Imported(p)} \in SUBSET Key
    BY <1>1 DEF Inv, TypeOK
  <2> QED BY <2>1
<1>8. TypeOK'
  <2>1. /\ source' = source /\ cache' = cache /\ status' = status /\ loaded' = loaded
        /\ items' = items /\ fetching' = fetching /\ writing' = writing /\ read' = read
        /\ loads' = loads
    OBVIOUS
  <2> QED BY <1>6, <1>7, <2>1 DEF Inv, TypeOK
<1>9. /\ status'[p] = status[p] /\ loaded'[p] = loaded[p] /\ items'[p] = items[p]
      /\ read'[p] = read[p]
      /\ \/ Imported(p) \in loaded[p] /\ cycles'[p] = cycles[p]
         \/ OnStack(p, Imported(p)) /\ cycles'[p] = cycles[p] \cup {Imported(p)}
  BY <1>3
<1>10. Once(p)' /\ Walk(p)'
  BY <1>1, <1>4, <1>9, Skipped
<1> QED BY <1>8, <1>10

\* Nothing is loaded at first.
LEMMA InitInv == Init => Inv
<1> SUFFICES ASSUME Init PROVE Inv
  OBVIOUS
<1>1. TypeOK
  BY SourcesAssumption, LoadsAssumption DEF Init, TypeOK
<1>2. ASSUME NEW p \in Process PROVE Once(p) /\ ~Alive(p)
  <2>1. items[p] = <<>> /\ stack[p] = <<>> /\ loaded[p] = {} /\ status[p] = "idle"
    BY DEF Init
  <2>2. ToSet(<<>>) = {}
    BY DEF ToSet
  <2> QED BY <2>1, <2>2 DEF Once, Alive, IsInjective
<1> QED BY <1>1, <1>2 DEF Inv

\* Every step of every process, and of the cache, keeps the invariant.
LEMMA NextInv == Inv /\ [Next]_vars => Inv'
<1> SUFFICES ASSUME Inv, [Next]_vars PROVE Inv'
  OBVIOUS
<1>1. CASE UNCHANGED vars
  <2>1. TypeOK'
    BY <1>1 DEF Inv, TypeOK, vars
  <2>2. ASSUME NEW q \in Process PROVE Once(q)' /\ (Alive(q)' => Walk(q)')
    BY <1>1, Untouched DEF Inv, vars
  <2> QED BY <2>1, <2>2 DEF Inv
<1>2. CASE Next
  <2> PICK p \in Process : Resolve(p) \/ Crash(p) \/ \E k \in Entry : Start(p, k)
    BY <1>2 DEF Next
  <2>1. Others(p)
    BY OthersStay
  <2>2. \A q \in Process \ {p} : Once(q)' /\ (Alive(q)' => Walk(q)')
    <3> SUFFICES ASSUME NEW q \in Process \ {p} PROVE Once(q)' /\ (Alive(q)' => Walk(q)')
      OBVIOUS
    <3>1. /\ status'[q] = status[q] /\ stack'[q] = stack[q] /\ loaded'[q] = loaded[q]
          /\ items'[q] = items[q] /\ cycles'[q] = cycles[q] /\ read'[q] = read[q]
      BY <2>1 DEF Others
    <3>2. q \in Process /\ Once(q) /\ (Alive(q) => Walk(q))
      BY DEF Inv
    <3> QED BY <3>1, <3>2, Untouched
  <2>3. TypeOK' /\ Once(p)' /\ (Alive(p)' => Walk(p)')
    <3>0. TypeOK /\ Once(p) /\ (Alive(p) => Walk(p))
      BY DEF Inv
    <3>1. CASE Fail(p)
      BY <3>0, <3>1 DEF Fail, TypeOK, Once, Alive
    <3>2. CASE SkipLoaded(p)
      BY <3>2, SkippingStep DEF SkipLoaded
    <3>3. CASE ReportCycle(p)
      BY <3>3, SkippingStep DEF ReportCycle
    <3>4. CASE EnterFile(p)
      <4>1. source[Imported(p)] \in Seq(Spell)
        BY <3>4, ResolvesToKey DEF EnterFile, Fresh
      <4> QED BY <3>0, <3>4, <4>1, EnteringStep DEF EnterFile, TypeOK
    <3>5. CASE ReadCache(p)
      <4>1. source[Imported(p)] \in Seq(Spell)
        BY <3>5, ResolvesToKey DEF ReadCache, Fresh
      <4>2. (IF cache[Imported(p)] = "torn" THEN <<>> ELSE source[Imported(p)]) \in Seq(Spell)
        BY <4>1
      <4> QED BY <3>0, <3>5, <4>2, EnteringStep DEF ReadCache, TypeOK
    <3>6. CASE Fetch(p)
      <4>1. source[Imported(p)] \in Seq(Spell)
        BY <3>6, ResolvesToKey DEF Fetch, Fresh
      <4>2. fetching' \in [Process -> Registry \cup {Missing}]
        BY <3>0, <3>6 DEF Fetch, TypeOK
      <4> QED BY <3>6, <4>1, <4>2, EnteringStep DEF Fetch
    <3>7. CASE FetchFails(p)
      BY <3>0, <3>7 DEF FetchFails, TypeOK, Once, Alive
    <3>8. CASE CreateCacheFile(p)
      <4>1. TypeOK'
        BY <3>0, <3>8 DEF CreateCacheFile, TypeOK
      <4>2. Once(p)' /\ (Alive(p)' => Walk(p)')
        BY <3>0, <3>8, Untouched DEF CreateCacheFile
      <4> QED BY <4>1, <4>2
    <3>9. CASE CacheWritten(p)
      <4>1. TypeOK'
        BY <3>0, <3>9 DEF CacheWritten, TypeOK
      <4>2. Once(p)' /\ (Alive(p)' => Walk(p)')
        BY <3>0, <3>9, Untouched DEF CacheWritten
      <4> QED BY <4>1, <4>2
    <3>10. CASE Return(p)
      <4>1. /\ Once(p)' /\ Walk(p)' /\ stack'[p] \in Seq(Frame)
            /\ loaded'[p] \subseteq Key /\ items'[p] \in Seq(Key)
            /\ status'[p] \in {"loading", "done"}
        BY <3>10, Returned
      <4>2. /\ UNCHANGED <<source, cache, cycles, fetching, writing, read, loads>>
            /\ DOMAIN loaded' = Process /\ DOMAIN items' = Process
            /\ DOMAIN stack' = Process /\ DOMAIN status' = Process
            /\ \A f \in {loaded, items, stack, status} : DOMAIN f = Process
        BY <3>0, <3>10 DEF Return, TypeOK
      <4>3. /\ loaded' = [loaded EXCEPT ![p] = loaded'[p]]
            /\ items' = [items EXCEPT ![p] = items'[p]]
        BY <3>0, <3>10 DEF Return, TypeOK
      <4>4. /\ stack' = [stack EXCEPT ![p] = stack'[p]]
            /\ status' = [status EXCEPT ![p] = status'[p]]
        BY <3>0, <3>10 DEF Return, TypeOK
      <4>5. TypeOK'
        <5>1. /\ stack' \in [Process -> Seq([key : Key, rest : Seq(Spell)])]
              /\ status' \in [Process -> {"idle", "loading", "done", "failed"}]
          BY <3>0, <4>1, <4>4 DEF TypeOK, Frame
        <5>2. loaded' \in [Process -> SUBSET Key] /\ items' \in [Process -> Seq(Key)]
          BY <3>0, <4>1, <4>3 DEF TypeOK
        <5> QED BY <3>0, <4>2, <5>1, <5>2 DEF TypeOK
      <4> QED BY <4>1, <4>5
    <3>11. CASE Crash(p)
      <4>1. TypeOK'
        <5>1. <<>> \in Seq([key : Key, rest : Seq(Spell)])
          OBVIOUS
        <5>2. stack' \in [Process -> Seq([key : Key, rest : Seq(Spell)])]
          BY <3>0, <3>11, <5>1 DEF Crash, TypeOK
        <5>3. /\ status' \in [Process -> {"idle", "loading", "done", "failed"}]
              /\ fetching' \in [Process -> Registry \cup {Missing}]
              /\ writing' \in [Process -> BOOLEAN]
          BY <3>0, <3>11 DEF Crash, TypeOK
        <5> QED BY <3>0, <3>11, <5>2, <5>3 DEF Crash, TypeOK
      <4>2. stack'[p] = <<>> /\ status'[p] = "idle" /\ items' = items /\ loaded' = loaded
        BY <3>0, <3>11 DEF Crash, TypeOK
      <4> QED BY <3>0, <4>1, <4>2 DEF Once, Alive
    <3>12. CASE \E k \in Entry : Start(p, k)
      <4> PICK k \in Entry : Start(p, k)
        BY <3>12
      <4>1. k \in Key /\ source[k] \in Seq(Spell)
        BY <3>0, KindsAssumption DEF TypeOK, Key
      <4>2. /\ [key |-> k, rest |-> source[k]] \in [key : Key, rest : Seq(Spell)]
            /\ [key |-> k, text |-> source[k]] \in [key : Key, text : Seq(Spell)]
        BY <4>1
      <4>3. /\ <<[key |-> k, rest |-> source[k]]>> \in Seq([key : Key, rest : Seq(Spell)])
            /\ <<[key |-> k, text |-> source[k]]>> \in Seq([key : Key, text : Seq(Spell)])
        BY <4>2
      <4>4. TypeOK'
        <5>1. loads' \in 0..MaxLoads
          BY <3>0, LoadsAssumption DEF Start, TypeOK
        <5>2. /\ stack' \in [Process -> Seq([key : Key, rest : Seq(Spell)])]
              /\ read' \in [Process -> Seq([key : Key, text : Seq(Spell)])]
          BY <3>0, <4>3 DEF Start, TypeOK
        <5>3. <<>> \in Seq(Key) /\ {} \subseteq Key
          OBVIOUS
        <5>4. /\ status' \in [Process -> {"idle", "loading", "done", "failed"}]
              /\ loaded' \in [Process -> SUBSET Key] /\ items' \in [Process -> Seq(Key)]
              /\ cycles' \in [Process -> SUBSET Key]
          BY <3>0, <5>3 DEF Start, TypeOK
        <5> QED BY <3>0, <5>1, <5>2, <5>4 DEF Start, TypeOK
      <4>5. /\ stack'[p] = <<[key |-> k, rest |-> source[k]]>>
            /\ read'[p] = <<[key |-> k, text |-> source[k]]>>
            /\ status'[p] = "loading" /\ loaded'[p] = {} /\ items'[p] = <<>> /\ cycles'[p] = {}
        BY <3>0 DEF Start, TypeOK
      <4>6. Once(p)' /\ Walk(p)'
        BY <4>1, <4>5, Beginning
      <4> QED BY <4>4, <4>6
    <3> QED BY <3>1, <3>2, <3>3, <3>4, <3>5, <3>6, <3>7, <3>8, <3>9, <3>10, <3>11, <3>12 DEF Resolve
  <2> QED BY <2>2, <2>3 DEF Inv
<1> QED BY <1>1, <1>2

----------------------------------------------------------------------------
(* What the invariant says of a load that is done.                         *)

\* A load that is done has spliced what is reachable, its entry last and, without a cycle, imports first.
LEMMA DoneIsResolved ==
  ASSUME Inv, NEW p \in Process, Done(p)
  PROVE  /\ ToSet(items[p]) = Reachable(read[p])
         /\ Last(items[p]) = Head(read[p]).key
         /\ (cycles[p] # {}) <=> Cyclic(read[p])
         /\ cycles[p] = {} => \A i, j \in DOMAIN items[p] :
              items[p][j] \in Edges(read[p], items[p][i]) => j < i
<1> DEFINE rd == read[p]
           its == items[p]
<1>1. /\ Once(p) /\ Walk(p) /\ loaded[p] \subseteq Key /\ its \in Seq(Key)
      /\ rd \in Seq(Reading)
  BY DEF Inv, Done, Alive, TypeOK, Reading
<1>2. /\ stack[p] = <<>> /\ rd # <<>> /\ Entered(rd) = loaded[p] \cup Frames(p)
      /\ Last(its) = Head(rd).key
  BY <1>1 DEF Walk, Bookkeeping, Done
<1>3. Frames(p) = {}
  BY <1>2 DEF Frames
<1>4. /\ DOMAIN its = 1..Len(its) /\ Len(its) \in Nat /\ ToSet(its) = loaded[p]
      /\ \A i, j \in DOMAIN its : its[i] = its[j] => i = j
      /\ Entered(rd) = loaded[p]
  BY <1>1, <1>2, <1>3 DEF Once, IsInjective
<1>5. \A i \in DOMAIN its :
        /\ cycles[p] = {} => Edges(rd, its[i]) \subseteq {its[j] : j \in 1..(i - 1)}
        /\ cycles[p] # {} => Edges(rd, its[i]) \subseteq loaded[p]
  BY <1>1, <1>3 DEF Walk, Ordered
<1>6. \A i \in DOMAIN its : \A j \in 1..(i - 1) : j \in DOMAIN its /\ j < i /\ its[j] \in loaded[p]
  <2>1. \A i \in DOMAIN its : \A j \in 1..(i - 1) : j \in DOMAIN its /\ j < i
    BY <1>4
  <2> QED BY <1>4, <2>1 DEF ToSet
<1> HIDE DEF rd, its
<1>7. \A k \in loaded[p] : \E i \in DOMAIN its : its[i] = k
  BY <1>4 DEF ToSet
<1>8. ClosedUnderImports(rd, loaded[p])
  <2> SUFFICES ASSUME NEW k \in loaded[p] PROVE Edges(rd, k) \subseteq loaded[p]
    BY DEF ClosedUnderImports
  <2> PICK i \in DOMAIN its : its[i] = k
    BY <1>7
  <2> QED BY <1>5, <1>6
<1>9. ToSet(its) = Reachable(rd)
  <2>1. loaded[p] \subseteq Reachable(rd)
    BY <1>1 DEF Walk, Reached, rd
  <2>2. Head(rd).key \in loaded[p]
    <3>1. 1 \in DOMAIN rd /\ Head(rd) = rd[1]
      BY <1>1, <1>2
    <3> QED BY <1>4, <3>1 DEF Entered
  <2>3. Reachable(rd) \subseteq loaded[p]
    BY <1>1, <1>8, <2>2 DEF Reachable, ReachableFrom
  <2> QED BY <1>4, <2>1, <2>3
<1>10. Cyclic(rd) => cycles[p] # {}
  <2> SUFFICES ASSUME cycles[p] = {},
                      NEW k \in Entered(rd), k \in ReachableFrom(rd, Edges(rd, k))
               PROVE  FALSE
    BY DEF Cyclic
  <2> PICK i \in DOMAIN its : its[i] = k
    BY <1>4, <1>7
  <2> DEFINE T == {its[j] : j \in 1..(i - 1)}
  <2>1. T \in SUBSET Key
    BY <1>1, <1>6
  <2>2. Edges(rd, k) \subseteq T
    BY <1>5
  <2>3. ClosedUnderImports(rd, T)
    <3> SUFFICES ASSUME NEW j \in 1..(i - 1) PROVE Edges(rd, its[j]) \subseteq T
      BY DEF ClosedUnderImports
    <3>1. j \in DOMAIN its /\ \A h \in 1..(j - 1) : h \in 1..(i - 1)
      BY <1>4
    <3> QED BY <1>5, <3>1
  <2>4. k \in T
    BY <2>1, <2>2, <2>3 DEF ReachableFrom
  <2>5. PICK j \in 1..(i - 1) : its[j] = k
    BY <2>4
  <2> QED BY <1>4, <1>6, <2>5
<1>11. cycles[p] # {} => Cyclic(rd)
  BY <1>1 DEF Walk, CyclesAreReal, rd
<1>12. ASSUME cycles[p] = {}, NEW i \in DOMAIN its, NEW j \in DOMAIN its,
              its[j] \in Edges(rd, its[i])
       PROVE  j < i
  <2> PICK h \in 1..(i - 1) : its[h] = its[j]
    BY <1>5, <1>12
  <2> QED BY <1>4, <1>6
<1> QED BY <1>2, <1>9, <1>10, <1>11, <1>12 DEF rd, its

----------------------------------------------------------------------------
(* The theorems.                                                           *)

\* The invariant holds in every behaviour.
LEMMA SpecInv == Spec => []Inv
<1>1. Init => Inv
  BY InitInv
<1>2. Inv /\ [Next]_vars => Inv'
  BY NextInv
<1> QED BY <1>1, <1>2, PTL DEF Spec

(***************************************************************************)
(* Every variable keeps its type: no step reads the top of an empty stack, *)
(* the rest of a frame that has none, or a source that is not there.       *)
(***************************************************************************)
THEOREM TypeCorrect == Spec => []TypeOK
<1>1. Inv => TypeOK
  BY DEF Inv
<1> QED BY <1>1, SpecInv, PTL

(***************************************************************************)
(* "Diamond imports are loaded exactly once": whatever the imports are and *)
(* however they are spelled, no file is spliced twice or entered while it  *)
(* is being resolved (resolve_file, resolve_std, resolve_registry).        *)
(***************************************************************************)
THEOREM EachFileOnce == Spec => []SplicedOnce
<1>1. Inv => SplicedOnce
  BY DEF Inv, Once, SplicedOnce
<1> QED BY <1>1, SpecInv, PTL

(***************************************************************************)
(* A load that ends with a program has spliced exactly what its entry      *)
(* reaches, imports first unless they are cyclic, and has reported a cycle *)
(* exactly when the imports it read contain one (load, resolve_items).     *)
(***************************************************************************)
THEOREM GraphIsResolved == Spec => []ResolvesTheGraph
<1>1. Inv => ResolvesTheGraph
  BY DoneIsResolved DEF ResolvesTheGraph
<1> QED BY <1>1, SpecInv, PTL
=============================================================================
