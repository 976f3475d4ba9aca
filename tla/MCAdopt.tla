------------------------------- MODULE MCAdopt -------------------------------
(* Instances of Adopt for TLC: three nodes in a row and their two edges.   *)
EXTENDS Adopt, TLC

CONSTANTS n1, n2, n3, e1, e2, h1, p1

MCSource == (e1 :> n1) @@ (e2 :> n2)
MCTarget == (e1 :> n2) @@ (e2 :> n3)

\* The edges' order is not that of their nodes.
MCRank == (n1 :> 1) @@ (n2 :> 2) @@ (n3 :> 3) @@ (e1 :> 2) @@ (e2 :> 1)

Emit(nodes, edges) ==
  [verb |-> "extend", nodes |-> [n \in NodeId |-> IF n \in nodes THEN h1 ELSE Absent], edges |-> edges]
Delete(nodes) == [verb |-> "delete", nodes |-> nodes]
Bump(n) == [verb |-> "update", node |-> n, prop |-> p1]

\* Before the lag's epoch alone, or across it.
MCHistories == {<<[body |-> Emit({n1, n2}, {e1}), ts |-> 2]>>,
                <<[body |-> Emit({n1}, {}), ts |-> 2], [body |-> Emit({n3}, {}), ts |-> 5]>>}
MCLagging == {n1, n3}

\* A delete that was appended and not applied leaves a stamped db with more than its
\* journal builds; the last list drops just that.
MCBodies == {Emit({n1, n2, n3}, {e1, e2}), Bump(n1), Delete({n2})}
MCStrays == {Emit({n2, n3}, {e2}), Delete({n1}), Bump(n1)}
MCDrops == {{}, {n2}, {n3, e2}, {n2, e2}, {n2, e1, e2}}
==============================================================================
