---------------------------- MODULE MCWriteOrder ----------------------------
(* Instances of WriteOrder for TLC: two nodes joined by one edge, one merge *)
(* value, and the bodies callers ask for.                                   *)
EXTENDS WriteOrder, TLC

CONSTANTS n1, n2, e1, h1, h2, p1, w1, w2

MCSource == [e \in {e1} |-> n1]
MCTarget == [e \in {e1} |-> n2]

Emit(h, nodes, edges) ==
  [verb |-> "extend", nodes |-> [n \in NodeId |-> IF n \in nodes THEN h ELSE Absent], edges |-> edges]

PutOne == Emit(h1, {n1}, {})
PutBoth == Emit(h1, {n1, n2}, {e1})
PutOther == Emit(h2, {n1}, {})
BumpOne == [verb |-> "update", node |-> n1, prop |-> p1]
DropOne == [verb |-> "delete", nodes |-> {n1}]

\* A spine, a merge and a drop; every emission of a node has the same content.
SameContent == {PutOne, PutBoth, BumpOne, DropOne}

\* With an emission that disagrees: a unit may land a record that cannot apply.
AnyContent == {PutBoth, PutOther, BumpOne, DropOne}

\* An emission that disagrees with another about a node's content.
TwoContents == {PutOne, PutOther, PutBoth, DropOne}

Symmetric == Permutations(Writer)
=============================================================================
