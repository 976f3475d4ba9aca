------------------------------ MODULE MCReplay ------------------------------
(* Instances of Replay for TLC: a baseline of two nodes and an edge, and the *)
(* gestures a live writer makes after it.                                    *)
EXTENDS Replay, TLC

CONSTANTS n1, n2, e1, h1, h2, p1, p2

MCSource == [e \in {e1} |-> n1]
MCTarget == [e \in {e1} |-> n2]

Emit(h, nodes, edges) ==
  [verb |-> "extend", nodes |-> [n \in NodeId |-> IF n \in nodes THEN h ELSE Absent], edges |-> edges]

PutOne == Emit(h1, {n1}, {})
PutTwo == Emit(h1, {n2}, {})
PutEdge == Emit(h1, {}, {e1})
PutBoth == Emit(h1, {n1, n2}, {e1})
PutOther == Emit(h2, {n1}, {})
Bump(p) == [verb |-> "update", node |-> n1, prop |-> p]
DropOne == [verb |-> "delete", nodes |-> {n1}]

\* A pre-journal db of two nodes and their edge, exported.
Exported == <<PutOne, PutTwo, PutEdge>>
Nothing == <<>>

\* Every emission of a node has the same content.
SameContent == {PutOne, PutBoth, Bump(p1), Bump(p2), DropOne}

\* A replay onto a live db may meet a node's later content, and refuse.
AnyContent == SameContent \cup {PutOther}

\* A node dropped may come back with other content.
TwoContents == {PutOne, PutOther, DropOne}
=============================================================================
