--------------------------- MODULE MCGenesisExport ---------------------------
(* Instances of GenesisExport for TLC: two nodes joined by an edge, a third  *)
(* node that only journaled writes make.                                     *)
EXTENDS GenesisExport, TLC

CONSTANTS n1, n2, n3, e1

MCSource == e1 :> n1
MCTarget == e1 :> n2

Row(hash, prop, made, changed) ==
  [hash |-> hash, prop |-> prop, created |-> made, updated |-> changed]

\* A db whose rows carry times and a merge; one with no edge; one with nothing.
Joined == [node |-> n1 :> Row("h", "p", 1, 3) @@ n2 :> Row("h", NoProp, 2, 2) @@ n3 :> Absent,
           edge |-> e1 :> [created |-> 4]]
MCDbs == {Joined, [Joined EXCEPT !.edge[e1] = Absent], EmptyGraph}

Put(wires) ==
  [verb |-> "extend", edges |-> {},
   nodes |-> [n \in NodeId |-> IF n \in DOMAIN wires THEN wires[n] ELSE Absent]]
SetProp(n) == [verb |-> "update", node |-> n, prop |-> "q"]
Delete(n) == [verb |-> "delete", nodes |-> {n}]

Extends == {Put(n3 :> "h"), SetProp(n1)}
WithDrop == Extends \cup {Delete(n1)}
MCStrays == {SetProp(n2), Delete(n2), Put(n2 :> "k")}

Symmetry == Permutations(Exporter)
=============================================================================
