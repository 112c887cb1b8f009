------------------------------- MODULE Cycles -------------------------------
(***************************************************************************)
(* The two searches for cycles in what a program declares: the pass's over *)
(* the graph, which stops at the first cycle, and the builder's over the   *)
(* references between records, which goes on and reports each.  Both are   *)
(* depth-first searches with three colours; what the second has on the     *)
(* call stack the first has on a stack of its own.                         *)
(*                                                                         *)
(* A graph is a sequence: out[n] are the successors of node n in the order *)
(* in which they are visited.                                              *)
(***************************************************************************)
EXTENDS Naturals, Sequences, SequencesExt, FiniteSets

\* A search: the node that the loop over the starts is at, the grey nodes from the start on,
\* each with the place of the next successor to look at, the black nodes, the cycles found.
Unsearched == [next |-> 1, stack |-> <<>>, black |-> {}, found |-> <<>>]

Frame(n) == [node |-> n, at |-> 1]
Grey(s)  == {s.stack[i].node : i \in DOMAIN s.stack}

\* An edge back into the path closes the part of the path that begins with its end.
Ring(s, n) ==
  LET from == CHOOSE i \in DOMAIN s.stack : s.stack[i].node = n
  IN  [j \in 1..(Len(s.stack) + 1 - from) |-> s.stack[from + j - 1].node]

Begin(s) ==
  [s EXCEPT !.next = @ + 1, !.stack = IF s.next \in s.black THEN <<>> ELSE <<Frame(s.next)>>]

Leave(s) == [s EXCEPT !.stack = Front(@), !.black = @ \cup {Last(s.stack).node}]

Visit(out, s) ==
  LET top   == Last(s.stack)
      next  == out[top.node][top.at]
      moved == [s.stack EXCEPT ![Len(s.stack)].at = @ + 1]
  IN  IF next \in Grey(s) THEN [s EXCEPT !.stack = moved, !.found = Append(@, Ring(s, next))]
      ELSE IF next \in s.black THEN [s EXCEPT !.stack = moved]
      ELSE [s EXCEPT !.stack = Append(moved, Frame(next))]

Over(out, first, s) ==
  (first /\ s.found # <<>>) \/ (s.stack = <<>> /\ s.next > Len(out))

Move(out, first, s) ==
  IF Over(out, first, s) THEN s
  ELSE IF s.stack = <<>> THEN Begin(s)
  ELSE IF Last(s.stack).at > Len(out[Last(s.stack).node]) THEN Leave(s)
  ELSE Visit(out, s)

\* Every start is passed once, every node entered and left once, every edge followed once.
Edges(out)  == UNION {{n} \X DOMAIN out[n] : n \in DOMAIN out}
Budget(out) == 3 * Len(out) + Cardinality(Edges(out))

\* first: whether the search stops at the first cycle.
Search(out, first) ==
  LET run[k \in 0..Budget(out)] == IF k = 0 THEN Unsearched ELSE Move(out, first, run[k - 1])
  IN  run[Budget(out)]
=============================================================================
