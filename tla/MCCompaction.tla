---------------------------- MODULE MCCompaction ----------------------------
(* Instances of Compaction for TLC: two nodes, their edge, and n1 or both *)
(* retired.                                                               *)
EXTENDS Compaction, TLC

CONSTANTS n1, n2, e1, h1, p1

MCSource == [e \in {e1} |-> n1]
MCTarget == [e \in {e1} |-> n2]

Emit(nodes, edges) ==
  [verb |-> "extend", nodes |-> [n \in NodeId |-> IF n \in nodes THEN h1 ELSE Absent], edges |-> edges]

PutOne == Emit({n1}, {})
PutBoth == Emit({n1, n2}, {e1})
Bump(n) == [verb |-> "update", node |-> n, prop |-> p1]

\* A pipeline's emissions, apart and together, and merges into either node.
Emissions == {PutOne, PutBoth, Bump(n1), Bump(n2)}

\* The same with a drop of n1 and of its edge.
DropOne == [verb  |-> "curate", wires |-> Emit({}, {}), nodes |-> {n1}, edges |-> {e1}]
EmissionsAndDrop == Emissions \cup {DropOne}

\* A curation that brings n1 and drops n2.
Curations == {PutBoth, [verb |-> "curate", wires |-> PutOne, nodes |-> {n2}, edges |-> {}]}

OneNode == {{n1}}
OtherNode == {{n2}}
EitherNode == {{n1}, {n2}}
NoneOrOne == {{}, {n1}}
NoneOrEither == {{}, {n1}, {n2}}
=============================================================================
