-------------------------- MODULE CompactionProofs --------------------------
(***************************************************************************)
(* What compact_family keeps, for every family, domain and caller: nothing *)
(* is lost, the db's cursor is found, what has moved is out, and wherever  *)
(* it dies the next writer's heal makes of the db what the family builds.  *)
(* The hypotheses on the callers are stated with the theorems.             *)
(***************************************************************************)
EXTENDS Compaction, GraphStoreProofs

-----------------------------------------------------------------------------
(* What an op brings and what it drops by name. *)

Brings(op) == IF HasWires(op) THEN Wired(Wire(op)) ELSE {}

BringsEdges(op) == IF HasWires(op) THEN Wire(op).edges ELSE {}

Drops(op) == IF op.body.verb \in {"curate", "delete"} THEN op.body.nodes ELSE {}

DropsEdges(op) == IF op.body.verb = "curate" THEN op.body.edges ELSE {}

\* The parts of an op, by its verb.
LEMMA FamilyOpByVerb ==
  ASSUME NEW op \in FamilyOp
  PROVE  /\ op.ts \in Time
         /\ op.body \in Body \cup Curation
         /\ op.body.verb \in {"extend", "update", "delete", "curate"}
         /\ op.body.verb = "extend" => op.body \in Wires /\ op \in Op
         /\ op.body.verb = "update" => op.body.node \in NodeId /\ op.body.prop \in Prop /\ op \in Op
         /\ op.body.verb = "delete" => op.body.nodes \in SUBSET NodeId /\ op \in Op
         /\ op.body.verb = "curate" =>
              /\ op.body \in Curation /\ op.body.wires \in Wires
              /\ op.body.nodes \in SUBSET NodeId /\ op.body.edges \in SUBSET EdgeId
         /\ HasWires(op) => Wire(op) \in Wires
         /\ Brings(op) \in SUBSET NodeId /\ BringsEdges(op) \in SUBSET EdgeId
         /\ Drops(op) \in SUBSET NodeId /\ DropsEdges(op) \in SUBSET EdgeId
<1>1. op.ts \in Time /\ op.body \in Body \cup Curation
  BY DEF FamilyOp
<1>2. CASE op.body \in Body
  <2>1. op \in Op
    BY <1>2 DEF FamilyOp, Op
  <2>2. op.body.verb # "curate"
    BY <2>1, BodyByVerb
  <2>3. op.body.verb \in {"extend", "update", "delete"}
    BY <2>1, BodyByVerb
  <2>4. op.body.verb = "extend" => op.body \in Wires
    BY <2>1, BodyByVerb
  <2>5. op.body.verb = "update" => op.body.node \in NodeId /\ op.body.prop \in Prop
    BY <2>1, BodyByVerb
  <2>6. op.body.verb = "delete" => op.body.nodes \in SUBSET NodeId
    BY <2>1, BodyByVerb
  <2>7. HasWires(op) => Wire(op) \in Wires
    BY <2>2, <2>4 DEF HasWires, Wire
  <2>8. HasWires(op) => Wire(op).edges \in SUBSET EdgeId
    BY <2>7 DEF Wires
  <2>. QED
    BY <1>1, <2>1, <2>2, <2>3, <2>4, <2>5, <2>6, <2>7, <2>8
    DEF Brings, BringsEdges, Drops, DropsEdges, Wired
<1>3. CASE op.body \in Curation
  <2>1. /\ op.body.verb = "curate" /\ op.body.wires \in Wires
        /\ op.body.nodes \in SUBSET NodeId /\ op.body.edges \in SUBSET EdgeId
    BY <1>3 DEF Curation
  <2>2. HasWires(op) /\ Wire(op) = op.body.wires
    BY <2>1 DEF HasWires, Wire
  <2>3. Wire(op).edges \in SUBSET EdgeId
    BY <2>1, <2>2 DEF Wires
  <2>. QED
    BY <1>1, <1>3, <2>1, <2>2, <2>3 DEF Brings, BringsEdges, Drops, DropsEdges, Wired
<1>. QED
  BY <1>1, <1>2, <1>3

\* A node's row and an edge's after an op, by the graph before it.
NodeAfter(g, op, n) ==
  IF n \in Drops(op) THEN Absent
  ELSE IF g.node[n] = Absent /\ n \in Brings(op) THEN StampedNode(Wire(op).nodes[n], op.ts)
  ELSE IF op.body.verb = "update" /\ op.body.node = n /\ g.node[n] # Absent
    THEN MergedRow(g.node[n], op)
  ELSE g.node[n]

\* An edge goes when the op names it, or an end of it that is there or just brought.
CutBy(g, op, e) ==
  \/ e \in DropsEdges(op)
  \/ \E n \in {Source[e], Target[e]} : n \in Drops(op) /\ (g.node[n] # Absent \/ n \in Brings(op))

EdgeAfter(g, op, e) ==
  IF CutBy(g, op, e) THEN Absent
  ELSE IF e \in BringsEdges(op) /\ g.edge[e] = Absent THEN [created |-> op.ts]
  ELSE g.edge[e]

\* What an extend makes of a node's presence.
LEMMA ExtendPresence ==
  ASSUME NEW g \in Graph, NEW w \in Wires, NEW ts \in Time
  PROVE  \A n \in NodeId : Extend(g, w, ts).node[n] # Absent <=> g.node[n] # Absent \/ n \in Wired(w)
<1>. TAKE n \in NodeId
<1>1. Extend(g, w, ts).node[n] =
        IF n \in AbsentNodes(g, w) THEN StampedNode(w.nodes[n], ts) ELSE g.node[n]
  <2>1. ExtendNodes(g, w, ts).node[n] =
          IF n \in AbsentNodes(g, w) THEN StampedNode(w.nodes[n], ts) ELSE g.node[n]
    BY ExtendRows
  <2>2. Extend(g, w, ts).node = ExtendNodes(g, w, ts).node
    BY ExtendRows
  <2>. QED
    BY <2>1, <2>2
<1>2. n \in Wired(w) => StampedNode(w.nodes[n], ts) \in NodeRow
  BY DEF Wired, Wires, StampedNode, NodeRow
<1>3. n \in Wired(w) => StampedNode(w.nodes[n], ts) # Absent
  BY <1>2, AbsentIsNoRow
<1>. QED
  BY <1>1, <1>3 DEF AbsentNodes

\* A curation in its three storage calls, row by row.
LEMMA CurateRows ==
  ASSUME NEW g \in Graph, NEW op \in FamilyOp, op.body.verb = "curate"
  PROVE  /\ Apply(g, op) \in Graph
         /\ \A n \in NodeId : Apply(g, op).node[n] = NodeAfter(g, op, n)
         /\ \A e \in EdgeId : Apply(g, op).edge[e] = EdgeAfter(g, op, e)
<1>. DEFINE w == op.body.wires
            g1 == Extend(g, w, op.ts)
            g2 == DeleteNodes(g1, op.body.nodes)
<1>1. /\ w \in Wires /\ op.ts \in Time /\ op.body.nodes \in SUBSET NodeId
      /\ op.body.edges \in SUBSET EdgeId
      /\ Brings(op) = Wired(w) /\ BringsEdges(op) = w.edges /\ Wire(op) = w
      /\ Drops(op) = op.body.nodes /\ DropsEdges(op) = op.body.edges
  BY FamilyOpByVerb DEF Brings, BringsEdges, Drops, DropsEdges, HasWires, Wire
<1>2. Apply(g, op) = DeleteEdges(g2, op.body.edges)
  BY DEF Apply
<1>3. g1 \in Graph
  <2>1. ExtendNodes(g, w, op.ts) \in Graph
    BY <1>1, ExtendNodesType
  <2>2. AbsentEdges(g, w) \in SUBSET EdgeId
    BY <1>1 DEF AbsentEdges, Wires
  <2>. QED
    BY <1>1, <2>1, <2>2, AddEdgesType DEF Extend
<1>4. \A n \in NodeId :
        /\ g1.node[n] = IF n \in AbsentNodes(g, w) THEN StampedNode(w.nodes[n], op.ts) ELSE g.node[n]
        /\ g1.node[n] # Absent <=> g.node[n] # Absent \/ n \in Wired(w)
  <2>1. \A n \in NodeId : ExtendNodes(g, w, op.ts).node[n] =
          IF n \in AbsentNodes(g, w) THEN StampedNode(w.nodes[n], op.ts) ELSE g.node[n]
    BY ZenonT(60), <1>1, ExtendRows
  <2>2. g1.node = ExtendNodes(g, w, op.ts).node
    BY <1>1, ExtendRows
  <2>3. \A n \in NodeId : g1.node[n] # Absent <=> g.node[n] # Absent \/ n \in Wired(w)
    BY <1>1, ExtendPresence
  <2>. QED
    BY <2>1, <2>2, <2>3
<1>5. \A e \in EdgeId :
        g1.edge[e] = IF e \in AbsentEdges(g, w) THEN [created |-> op.ts] ELSE g.edge[e]
  BY <1>1, ExtendRows
<1>. HIDE DEF g1
<1>6. /\ g2 \in Graph
      /\ \A n \in NodeId : g2.node[n] = IF n \in op.body.nodes THEN Absent ELSE g1.node[n]
      /\ \A e \in EdgeId : g2.edge[e] =
           IF \E n \in {Source[e], Target[e]} : n \in op.body.nodes /\ g1.node[n] # Absent
             THEN Absent ELSE g1.edge[e]
  BY <1>1, <1>3, DeleteNodesType DEF DeleteNodes
<1>. HIDE DEF g2
<1>7. /\ Apply(g, op).node = g2.node
      /\ \A e \in EdgeId : Apply(g, op).edge[e] = IF e \in op.body.edges THEN Absent ELSE g2.edge[e]
      /\ Apply(g, op) \in Graph
  BY <1>2, <1>6 DEF DeleteEdges, Graph
<1>8. ASSUME NEW n \in NodeId
      PROVE  Apply(g, op).node[n] = NodeAfter(g, op, n)
  BY <1>1, <1>4, <1>6, <1>7 DEF NodeAfter, AbsentNodes
<1>9. ASSUME NEW e \in EdgeId
      PROVE  Apply(g, op).edge[e] = EdgeAfter(g, op, e)
  <2>1. Source[e] \in NodeId /\ Target[e] \in NodeId
    BY EdgeEndpoints
  <2>2. CutBy(g, op, e) <=>
          \/ e \in op.body.edges
          \/ \E n \in {Source[e], Target[e]} : n \in op.body.nodes /\ g1.node[n] # Absent
    BY <1>1, <1>4, <2>1 DEF CutBy
  <2>3. g1.edge[e] = IF e \in BringsEdges(op) /\ g.edge[e] = Absent
                       THEN [created |-> op.ts] ELSE g.edge[e]
    BY <1>1, <1>5 DEF AbsentEdges
  <2>. QED
    BY <1>6, <1>7, <2>2, <2>3 DEF EdgeAfter
<1>. QED
  BY <1>7, <1>8, <1>9

\* An op leaves a graph, and goes row by row, but that a drop takes the edges of the
\* nodes it finds.
LEMMA FamilyRows ==
  ASSUME NEW g \in Graph, NEW op \in FamilyOp
  PROVE  /\ Apply(g, op) \in Graph
         /\ \A n \in NodeId : Apply(g, op).node[n] = NodeAfter(g, op, n)
         /\ \A e \in EdgeId : Apply(g, op).edge[e] = EdgeAfter(g, op, e)
<1>1. CASE op.body.verb = "curate"
  BY <1>1, CurateRows
<1>2. CASE op.body.verb # "curate"
  <2>1. op \in Op /\ Apply(g, op) = ApplyOp(g, op)
    BY <1>2, FamilyOpByVerb DEF Apply
  <2>2. /\ \A n : Adds(op, n) <=> n \in Brings(op)
        /\ \A n : Deletes(op, n) <=> n \in Drops(op)
        /\ \A e : Links(op, e) <=> e \in BringsEdges(op)
        /\ DropsEdges(op) = {}
        /\ Drops(op) # {} => Brings(op) = {} /\ BringsEdges(op) = {}
        /\ HasWires(op) => Wire(op) = op.body
    BY <1>2, FamilyOpByVerb
    DEF Adds, Deletes, Links, Brings, BringsEdges, Drops, DropsEdges, HasWires, Wire
  <2>3. ASSUME NEW n \in NodeId
        PROVE  Apply(g, op).node[n] = NodeAfter(g, op, n)
    <3>1. Apply(g, op).node[n] = RowAfter(g.node[n], op, n)
      <4>1. \A m \in NodeId : ApplyOp(g, op).node[m] = RowAfter(g.node[m], op, m)
        BY <2>1, ApplyRows
      <4>. QED
        BY <2>1, <4>1
    <3>2. n \in Brings(op) => HasWires(op) /\ op.body.verb # "update"
      BY DEF Brings, HasWires
    <3>. QED
      BY <2>2, <3>1, <3>2 DEF RowAfter, NodeAfter, Updates
  <2>4. ASSUME NEW e \in EdgeId
        PROVE  Apply(g, op).edge[e] = EdgeAfter(g, op, e)
    <3>1. CASE Cuts(op, e)
      <4>1. ApplyOp(g, op).edge[e] =
                IF \/ Deletes(op, Source[e]) /\ g.node[Source[e]] # Absent
                   \/ Deletes(op, Target[e]) /\ g.node[Target[e]] # Absent
                  THEN Absent ELSE g.edge[e]
        BY <2>1, <3>1, ApplyRows
      <4>2. Brings(op) = {} /\ BringsEdges(op) = {}
        BY <2>2, <3>1 DEF Cuts
      <4>. QED
        BY <2>1, <2>2, <4>1, <4>2 DEF EdgeAfter, CutBy
    <3>2. CASE ~Cuts(op, e)
      <4>1. ApplyOp(g, op).edge[e] = IF Links(op, e) /\ g.edge[e] = Absent
                                         THEN [created |-> op.ts] ELSE g.edge[e]
        BY <2>1, <3>2, ApplyRows
      <4>2. ~CutBy(g, op, e)
        BY <2>2, <3>2 DEF Cuts, CutBy
      <4>. QED
        BY <2>1, <2>2, <4>1, <4>2 DEF EdgeAfter
    <3>. QED
      BY <3>1, <3>2
  <2>. QED
    BY <2>1, <2>3, <2>4, ApplyOpType
<1>. QED
  BY <1>1, <1>2

-----------------------------------------------------------------------------
(* Replays of a family's ops, as folds. *)

\* Apply as the step of a fold.
FamilyStep == [p \in Graph \X FamilyOp |-> Apply(p[1], p[2])]

\* It is one: an op takes a graph to a graph.
LEMMA FamilyStepType == FamilyStep \in [Graph \X FamilyOp -> Graph]
BY FamilyRows DEF FamilyStep

\* The library's fold of the ops is the fold by the graphs after each of them.
LEMMA FoldFamily ==
  ASSUME NEW g \in Graph, NEW s \in Seq(FamilyOp)
  PROVE  FoldLeft(Apply, g, s) = Folded(Graph, g, s, FamilyStep)
<1>. DEFINE n == Len(s)
            P(iter) == iter = [t \in SUBSET (1 .. n) |->
                          IF t = {} THEN g ELSE Apply(iter[t \ {Max(t)}], s[Max(t)])]
            iter == CHOOSE f : P(f)
<1>1. n \in Nat /\ DOMAIN s = 1 .. n /\ \A i \in 1 .. n : s[i] \in FamilyOp
  OBVIOUS
<1>2. FoldLeft(Apply, g, s) = iter[1 .. n]
  <2>1. FoldLeft(Apply, g, s) =
          (CHOOSE f : f = [t \in SUBSET DOMAIN s |->
             IF t = {} THEN g ELSE Apply(f[t \ {Max(t)}], s[Max(t)])])[DOMAIN s]
    BY DEF FoldLeft, MapThenFoldSet
  <2>. QED
    BY <1>1, <2>1
<1>3. Foldable(Graph, FamilyOp, g, s, FamilyStep)
  BY FamilyStepType DEF Foldable
<1>4. PICK f \in [SUBSET (1 .. n) -> Graph] : Recursion(f, g, s, FamilyStep)
  BY <1>3, RecursionExists
<1>5. P(f)
  <2>1. ASSUME NEW t \in SUBSET (1 .. n), t # {}
        PROVE  FamilyStep[<<f[t \ {Max(t)}], s[Max(t)]>>] = Apply(f[t \ {Max(t)}], s[Max(t)])
    <3>1. Max(t) \in 1 .. n
      BY <1>1, <2>1, MaxOfPositions
    <3>2. <<f[t \ {Max(t)}], s[Max(t)]>> \in Graph \X FamilyOp
      BY <1>1, <3>1
    <3>. QED
      BY <3>2 DEF FamilyStep
  <2>. QED
    BY <1>4, <2>1 DEF Recursion
<1>6. P(iter)
  <2>. HIDE DEF P
  <2>. QED
    BY <1>5
<1>. HIDE DEF iter
<1>7. iter[{}] = g
  <2>1. {} \in SUBSET (1 .. n)
    OBVIOUS
  <2>. QED
    BY <1>6, <2>1
<1>8. ASSUME NEW m \in 1 .. n, iter[1 .. (m - 1)] \in Graph
      PROVE  iter[1 .. m] = FamilyStep[<<iter[1 .. (m - 1)], s[m]>>]
  <2>1. /\ (1 .. m) \in SUBSET (1 .. n) /\ (1 .. m) # {}
        /\ Max(1 .. m) = m /\ (1 .. m) \ {m} = 1 .. (m - 1)
    BY <1>1, FirstPositions
  <2>2. iter[1 .. m] = Apply(iter[1 .. (m - 1)], s[m])
    BY <1>6, <2>1
  <2>. QED
    BY <1>1, <1>8, <2>2 DEF FamilyStep
<1>9. iter[1 .. n] = Folded(Graph, g, s, FamilyStep)
  BY <1>3, <1>7, <1>8, FoldedByPositions
<1>. QED
  BY <1>2, <1>9

\* The laws of applying a family's ops: of none, of one more, and in two passes.
LEMMA FamilyLaws ==
  ASSUME NEW g \in Graph, NEW s \in Seq(FamilyOp)
  PROVE  /\ FoldLeft(Apply, g, s) \in Graph
         /\ FoldLeft(Apply, g, <<>>) = g
         /\ \A op \in FamilyOp : FoldLeft(Apply, g, Append(s, op)) = Apply(FoldLeft(Apply, g, s), op)
         /\ \A t \in Seq(FamilyOp) : FoldLeft(Apply, g, s \o t) =
              FoldLeft(Apply, FoldLeft(Apply, g, s), t)
<1>1. \A t \in Seq(FamilyOp) : Foldable(Graph, FamilyOp, g, t, FamilyStep)
  BY FamilyStepType DEF Foldable
<1>2. Folded(Graph, g, s, FamilyStep) \in Graph
  BY <1>1, FoldedRun
<1>3. FoldLeft(Apply, g, <<>>) = g
  <2>1. <<>> \in Seq(FamilyOp) /\ Len(<<>>) = 0
    OBVIOUS
  <2>2. Foldable(Graph, FamilyOp, g, <<>>, FamilyStep)
    BY <1>1, <2>1
  <2>3. Folded(Graph, g, <<>>, FamilyStep) = g
    BY <2>1, <2>2, FoldedEmpty
  <2>. QED
    BY <2>1, <2>3, FoldFamily
<1>4. ASSUME NEW op \in FamilyOp
      PROVE  FoldLeft(Apply, g, Append(s, op)) = Apply(FoldLeft(Apply, g, s), op)
  <2>1. Append(s, op) \in Seq(FamilyOp)
    OBVIOUS
  <2>2. Folded(Graph, g, Append(s, op), FamilyStep) =
          FamilyStep[<<Folded(Graph, g, s, FamilyStep), op>>]
    BY <1>1, FoldedAppend
  <2>3. <<Folded(Graph, g, s, FamilyStep), op>> \in Graph \X FamilyOp
    BY <1>2
  <2>4. FoldLeft(Apply, g, Append(s, op)) = Folded(Graph, g, Append(s, op), FamilyStep)
    BY <2>1, FoldFamily
  <2>5. FoldLeft(Apply, g, s) = Folded(Graph, g, s, FamilyStep)
    BY FoldFamily
  <2>. QED
    BY <2>2, <2>3, <2>4, <2>5 DEF FamilyStep
<1>5. ASSUME NEW t \in Seq(FamilyOp)
      PROVE  FoldLeft(Apply, g, s \o t) = FoldLeft(Apply, FoldLeft(Apply, g, s), t)
  <2>1. s \o t \in Seq(FamilyOp)
    OBVIOUS
  <2>2. Folded(Graph, g, s \o t, FamilyStep) =
          Folded(Graph, Folded(Graph, g, s, FamilyStep), t, FamilyStep)
    BY <1>1, FoldedConcat
  <2>3. FoldLeft(Apply, g, s) = Folded(Graph, g, s, FamilyStep)
    BY FoldFamily
  <2>4. FoldLeft(Apply, g, s \o t) = Folded(Graph, g, s \o t, FamilyStep)
    BY <2>1, FoldFamily
  <2>5. FoldLeft(Apply, FoldLeft(Apply, g, s), t) =
          Folded(Graph, FoldLeft(Apply, g, s), t, FamilyStep)
    BY <1>2, <2>3, FoldFamily
  <2>. QED
    BY <2>2, <2>3, <2>4, <2>5
<1>6. FoldLeft(Apply, g, s) \in Graph
  BY <1>2, FoldFamily
<1>. QED
  BY <1>3, <1>4, <1>5, <1>6

\* What ops have brought and none after has dropped by name.
Outs == [nodes: SUBSET NodeId, edges: SUBSET EdgeId]

NothingOut == [nodes |-> {}, edges |-> {}]

Outstand(out, op) ==
  [nodes |-> (out.nodes \cup Brings(op)) \ Drops(op),
   edges |-> (out.edges \cup BringsEdges(op)) \ DropsEdges(op)]

OutStep == [p \in Outs \X FamilyOp |-> Outstand(p[1], p[2])]

OutAfter(out, s) == Folded(Outs, out, s, OutStep)

Out(s) == OutAfter(NothingOut, s)

\* The laws of that fold, as of a replay.
LEMMA OutLaws ==
  ASSUME NEW out \in Outs, NEW s \in Seq(FamilyOp)
  PROVE  /\ OutAfter(out, s) \in Outs
         /\ OutAfter(out, <<>>) = out
         /\ \A op \in FamilyOp : OutAfter(out, Append(s, op)) = Outstand(OutAfter(out, s), op)
         /\ \A t \in Seq(FamilyOp) : OutAfter(out, s \o t) = OutAfter(OutAfter(out, s), t)
<1>1. \A o \in Outs, op \in FamilyOp : Outstand(o, op) \in Outs
  BY FamilyOpByVerb DEF Outs, Outstand
<1>2. \A t \in Seq(FamilyOp) : Foldable(Outs, FamilyOp, out, t, OutStep)
  BY <1>1 DEF Foldable, OutStep
<1>3. OutAfter(out, s) \in Outs
  BY <1>2, FoldedRun DEF OutAfter
<1>4. OutAfter(out, <<>>) = out
  <2>1. <<>> \in Seq(FamilyOp) /\ Len(<<>>) = 0
    OBVIOUS
  <2>2. Foldable(Outs, FamilyOp, out, <<>>, OutStep)
    BY <1>2, <2>1
  <2>. QED
    BY <2>1, <2>2, FoldedEmpty DEF OutAfter
<1>5. ASSUME NEW op \in FamilyOp
      PROVE  OutAfter(out, Append(s, op)) = Outstand(OutAfter(out, s), op)
  <2>1. OutAfter(out, Append(s, op)) = OutStep[<<OutAfter(out, s), op>>]
    BY <1>2, FoldedAppend DEF OutAfter
  <2>. QED
    BY <1>3, <2>1 DEF OutStep
<1>6. ASSUME NEW t \in Seq(FamilyOp)
      PROVE  OutAfter(out, s \o t) = OutAfter(OutAfter(out, s), t)
  BY <1>2, FoldedConcat DEF OutAfter
<1>. QED
  BY <1>3, <1>4, <1>5, <1>6

\* What a replay leaves there is outstanding, and an outstanding edge is one that some
\* op has brought.
LEMMA PresentIsOut ==
  ASSUME NEW s \in Seq(FamilyOp)
  PROVE  /\ Out(s) \in Outs
         /\ \A n \in NodeId : ReplayOf(s).node[n] # Absent => n \in Out(s).nodes
         /\ \A e \in EdgeId : ReplayOf(s).edge[e] # Absent => e \in Out(s).edges
         /\ \A e \in Out(s).edges : \E i \in 1 .. Len(s) : e \in BringsEdges(s[i])
<1>. DEFINE P(t) == /\ \A n \in NodeId : ReplayOf(t).node[n] # Absent => n \in Out(t).nodes
                    /\ \A e \in EdgeId : ReplayOf(t).edge[e] # Absent => e \in Out(t).edges
                    /\ \A e \in Out(t).edges : \E i \in 1 .. Len(t) : e \in BringsEdges(t[i])
            S == {t \in Seq(FamilyOp) : P(t)}
<1>0. NothingOut \in Outs
  BY DEF NothingOut, Outs
<1>1. <<>> \in S
  <2>1. <<>> \in Seq(FamilyOp)
    OBVIOUS
  <2>2. ReplayOf(<<>>) = EmptyGraph
    BY <2>1, EmptyGraphType, FamilyLaws DEF ReplayOf
  <2>3. Out(<<>>) = NothingOut
    BY <1>0, <2>1, OutLaws DEF Out
  <2>4. P(<<>>)
    BY <2>2, <2>3 DEF EmptyGraph, NothingOut
  <2>. QED
    BY <2>1, <2>4
<1>2. ASSUME NEW t \in Seq(FamilyOp), NEW op \in FamilyOp, t \in S
      PROVE  Append(t, op) \in S
  <2>. DEFINE g == ReplayOf(t)
              o == Out(t)
              more == Append(t, op)
  <2>1. g \in Graph /\ ReplayOf(more) = Apply(g, op)
    BY ZenonT(60), EmptyGraphType, FamilyLaws DEF ReplayOf
  <2>2. o \in Outs /\ Out(more) = Outstand(o, op)
    BY <1>0, OutLaws DEF Out
  <2>3. /\ more \in Seq(FamilyOp) /\ Len(t) \in Nat /\ Len(more) = Len(t) + 1
        /\ \A i \in 1 .. Len(t) : more[i] = t[i]
        /\ more[Len(t) + 1] = op
    OBVIOUS
  <2>4. P(t)
    BY <1>2
  <2>. HIDE DEF more
  <2>5. ASSUME NEW n \in NodeId, ReplayOf(more).node[n] # Absent
        PROVE  n \in Out(more).nodes
    <3>1. NodeAfter(g, op, n) # Absent
      BY <2>1, <2>5, FamilyRows
    <3>2. n \notin Drops(op) /\ (g.node[n] # Absent \/ n \in Brings(op))
      BY <3>1 DEF NodeAfter
    <3>. QED
      BY <2>2, <2>4, <3>2 DEF Outstand
  <2>6. ASSUME NEW e \in EdgeId, ReplayOf(more).edge[e] # Absent
        PROVE  e \in Out(more).edges
    <3>1. EdgeAfter(g, op, e) # Absent
      BY <2>1, <2>6, FamilyRows
    <3>2. e \notin DropsEdges(op) /\ (g.edge[e] # Absent \/ e \in BringsEdges(op))
      BY <3>1 DEF EdgeAfter, CutBy
    <3>. QED
      BY <2>2, <2>4, <3>2 DEF Outstand
  <2>7. ASSUME NEW e \in Out(more).edges
        PROVE  \E i \in 1 .. Len(more) : e \in BringsEdges(more[i])
    <3>1. e \in o.edges \/ e \in BringsEdges(op)
      BY <2>2 DEF Outstand
    <3>2. \A i \in 1 .. Len(t) : i \in 1 .. Len(more)
      BY <2>3
    <3>3. Len(t) + 1 \in 1 .. Len(more)
      BY <2>3
    <3>. QED
      BY <2>3, <2>4, <3>1, <3>2, <3>3
  <2>8. P(more)
    BY <2>5, <2>6, <2>7
  <2>. QED
    BY <2>3, <2>8 DEF more
<1>3. Seq(FamilyOp) \subseteq S
  <2>. HIDE DEF S
  <2>. QED
    BY <1>1, <1>2, SeqInduction
<1>4. Out(s) \in Outs
  BY <1>0, OutLaws DEF Out
<1>5. P(s)
  BY <1>3
<1>. QED
  BY <1>4, <1>5

-----------------------------------------------------------------------------
(* What rewriting changes of a replay: rows of what moves, and nothing else. *)

\* Two graphs are the same but for the nodes of ids and the edges that touch one.
Similar(ids, g, h) ==
  /\ g \in Graph /\ h \in Graph
  /\ \A n \in NodeId \ ids : g.node[n] = h.node[n]
  /\ \A e \in EdgeId : Source[e] \notin ids /\ Target[e] \notin ids => g.edge[e] = h.edge[e]

Less(o, p) == o \in Outs /\ p \in Outs /\ o.nodes \subseteq p.nodes /\ o.edges \subseteq p.edges

\* kept does to the rest what op does, and brings no more.
Reduces(ids, kept, op) ==
  /\ kept \in FamilyOp /\ op \in FamilyOp
  /\ kept.ts = op.ts
  /\ kept.body.verb = op.body.verb
  /\ op.body.verb = "update" => kept = op
  /\ Drops(kept) = Drops(op) /\ DropsEdges(kept) = DropsEdges(op)
  /\ Brings(kept) \subseteq Brings(op) /\ BringsEdges(kept) \subseteq BringsEdges(op)
  /\ \A n \in Brings(op) \ ids : n \in Brings(kept) /\ Wire(kept).nodes[n] = Wire(op).nodes[n]
  /\ \A e \in BringsEdges(op) : Source[e] \notin ids /\ Target[e] \notin ids => e \in BringsEdges(kept)

\* An op on one graph and what is kept of it on a similar one leave similar graphs.
LEMMA ReducedStep ==
  ASSUME NEW ids \in SUBSET NodeId, NEW g, NEW h, Similar(ids, g, h),
         NEW kept, NEW op, Reduces(ids, kept, op), NEW p, NEW o, Less(p, o)
  PROVE  Similar(ids, Apply(g, op), Apply(h, kept)) /\ Less(Outstand(p, kept), Outstand(o, op))
<1>1. /\ g \in Graph /\ h \in Graph /\ op \in FamilyOp /\ kept \in FamilyOp
      /\ p \in Outs /\ o \in Outs
  BY DEF Similar, Reduces, Less
<1>2. ASSUME NEW n \in NodeId \ ids
      PROVE  Apply(g, op).node[n] = Apply(h, kept).node[n]
  <2>1. Apply(g, op).node[n] = NodeAfter(g, op, n) /\ Apply(h, kept).node[n] = NodeAfter(h, kept, n)
    BY <1>1, FamilyRows
  <2>2. g.node[n] = h.node[n]
    BY DEF Similar
  <2>3. /\ n \in Drops(op) <=> n \in Drops(kept)
        /\ n \in Brings(op) <=> n \in Brings(kept)
        /\ n \in Brings(op) => Wire(kept).nodes[n] = Wire(op).nodes[n]
        /\ kept.ts = op.ts /\ kept.body.verb = op.body.verb
        /\ op.body.verb = "update" => kept = op
    BY DEF Reduces
  <2>. QED
    BY <2>1, <2>2, <2>3 DEF NodeAfter
<1>3. ASSUME NEW e \in EdgeId, Source[e] \notin ids, Target[e] \notin ids
      PROVE  Apply(g, op).edge[e] = Apply(h, kept).edge[e]
  <2>1. Apply(g, op).edge[e] = EdgeAfter(g, op, e) /\ Apply(h, kept).edge[e] = EdgeAfter(h, kept, e)
    BY <1>1, FamilyRows
  <2>2. g.edge[e] = h.edge[e]
    BY <1>3 DEF Similar
  <2>3. \A n \in {Source[e], Target[e]} : n \in NodeId \ ids
    BY <1>3, EdgeEndpoints
  <2>4. \A n \in {Source[e], Target[e]} :
          /\ g.node[n] = h.node[n]
          /\ n \in Drops(op) <=> n \in Drops(kept)
          /\ n \in Brings(op) <=> n \in Brings(kept)
    BY <2>3 DEF Similar, Reduces
  <2>5. /\ e \in DropsEdges(op) <=> e \in DropsEdges(kept)
        /\ e \in BringsEdges(op) <=> e \in BringsEdges(kept)
        /\ kept.ts = op.ts
    BY <1>3 DEF Reduces
  <2>6. CutBy(g, op, e) <=> CutBy(h, kept, e)
    BY <2>4, <2>5 DEF CutBy
  <2>. QED
    BY <2>1, <2>2, <2>5, <2>6 DEF EdgeAfter
<1>4. Apply(g, op) \in Graph /\ Apply(h, kept) \in Graph
  BY <1>1, FamilyRows
<1>5. Outstand(p, kept) \in Outs /\ Outstand(o, op) \in Outs
  BY <1>1, FamilyOpByVerb DEF Outs, Outstand
<1>6. /\ Outstand(p, kept).nodes \subseteq Outstand(o, op).nodes
      /\ Outstand(p, kept).edges \subseteq Outstand(o, op).edges
  BY DEF Less, Reduces, Outstand
<1>. QED
  BY <1>2, <1>3, <1>4, <1>5, <1>6 DEF Similar, Less

\* An op that brings or drops, not both.
OneSided(op) ==
  op.body.verb = "curate" => NoWires(op.body.wires) \/ (op.body.nodes = {} /\ op.body.edges = {})

\* The op with a part of its wires is an op, of the same deletes.
LEMMA PartIsOp ==
  ASSUME NEW op \in FamilyOp, HasWires(op), NEW moves \in BOOLEAN
  PROVE  LET part == WithWires(op, PartOf(op, moves))
         IN  /\ part \in FamilyOp /\ PartOf(op, moves) \in Wires
             /\ part.ts = op.ts /\ part.body.verb = op.body.verb
             /\ HasWires(part) /\ Wire(part) = PartOf(op, moves)
             /\ Drops(part) = Drops(op) /\ DropsEdges(part) = DropsEdges(op)
             /\ OneSided(op) => OneSided(part)
<1>. DEFINE w == PartOf(op, moves)
            part == WithWires(op, w)
<1>1. Wire(op) \in Wires
  BY FamilyOpByVerb
<1>2. w \in Wires
  BY <1>1 DEF PartOf, Wires
<1>3. NoWires(Wire(op)) => NoWires(w)
  BY DEF NoWires, Wired, PartOf
<1>4. CASE op.body.verb = "curate"
  <2>. HIDE DEF w
  <2>1. /\ part = [op EXCEPT !.body.wires = w]
        /\ op \in [body: Body \cup Curation, ts: Time]
        /\ op.body \in Curation
    BY <1>4, FamilyOpByVerb DEF WithWires, FamilyOp
  <2>2. /\ part = [body |-> [op.body EXCEPT !.wires = w], ts |-> op.ts]
        /\ [op.body EXCEPT !.wires = w] =
             [verb |-> "curate", wires |-> w, nodes |-> op.body.nodes, edges |-> op.body.edges]
    BY <2>1 DEF Curation
  <2>3. [op.body EXCEPT !.wires = w] \in Curation
    BY <1>2, <2>1, <2>2 DEF Curation
  <2>4. part \in FamilyOp
    BY <2>1, <2>2, <2>3 DEF FamilyOp
  <2>. HIDE DEF part
  <2>5. HasWires(part) /\ Wire(part) = w /\ Wire(op) = op.body.wires
    BY <1>4, <2>2 DEF HasWires, Wire
  <2>6. OneSided(op) => OneSided(part)
    BY <1>3, <1>4, <2>2, <2>5 DEF OneSided, w
  <2>. QED
    BY <1>2, <1>4, <2>2, <2>4, <2>5, <2>6 DEF Drops, DropsEdges, part, w
<1>5. CASE op.body.verb # "curate"
  <2>. HIDE DEF w
  <2>1. op.body.verb = "extend" /\ w.verb = "extend"
    BY <1>2, <1>5 DEF HasWires, Wires
  <2>2. part = [op EXCEPT !.body = w] /\ op \in [body: Body \cup Curation, ts: Time]
    BY <1>5 DEF WithWires, FamilyOp
  <2>3. part = [body |-> w, ts |-> op.ts]
    BY <2>2
  <2>4. part \in FamilyOp
    BY <1>2, <2>2, <2>3 DEF FamilyOp, Body
  <2>. HIDE DEF part
  <2>. QED
    BY <1>2, <2>1, <2>3, <2>4 DEF HasWires, Wire, Drops, DropsEdges, OneSided, part, w
<1>. QED
  BY <1>4, <1>5

\* What rewriting keeps of an op leaves on a similar graph what the op leaves, but for
\* what moves.
LEMMA KeptStep ==
  ASSUME NEW op \in FamilyOp, OneSided(op), Moving \in SUBSET NodeId,
         NEW g, NEW h, Similar(Moving, g, h), NEW p, NEW o, Less(p, o)
  PROVE  /\ KeptOf(op) \in Seq(FamilyOp)
         /\ Similar(Moving, Apply(g, op), FoldLeft(Apply, h, KeptOf(op)))
         /\ Less(OutAfter(p, KeptOf(op)), Outstand(o, op))
<1>0. g \in Graph /\ h \in Graph /\ p \in Outs /\ o \in Outs
  BY DEF Similar, Less
<1>1. CASE MovesWhole(op)
  <2>1. KeptOf(op) = <<>>
    BY <1>1 DEF KeptOf
  <2>2. HasWires(op) /\ ~NoWires(PartOf(op, TRUE)) /\ NoWires(PartOf(op, FALSE)) /\ Wire(op) \in Wires
    BY <1>1, FamilyOpByVerb DEF MovesWhole, Splits
  <2>3. ~NoWires(Wire(op))
    BY <2>2 DEF NoWires, Wired, PartOf
  <2>4. Drops(op) = {} /\ DropsEdges(op) = {}
    BY <2>2, <2>3 DEF OneSided, Drops, DropsEdges, HasWires, Wire
  <2>5. op.body.verb # "update"
    BY <2>2 DEF HasWires
  <2>6. ASSUME NEW n \in NodeId, n \notin Moving
        PROVE  n \notin Brings(op)
    <3>1. PartOf(op, FALSE).nodes[n] = Wire(op).nodes[n]
      BY <2>6 DEF PartOf
    <3>2. PartOf(op, FALSE).nodes[n] = Absent
      BY <2>2 DEF NoWires, Wired
    <3>. QED
      BY <3>1, <3>2 DEF Brings, Wired
  <2>7. ASSUME NEW e \in EdgeId, Source[e] \notin Moving, Target[e] \notin Moving
        PROVE  e \notin BringsEdges(op)
    <3>1. PartOf(op, FALSE).edges = {}
      BY <2>2 DEF NoWires
    <3>2. e \in Wire(op).edges => e \in PartOf(op, FALSE).edges
      BY <2>7 DEF PartOf, Touches
    <3>. QED
      BY <3>1, <3>2 DEF BringsEdges
  <2>8. Similar(Moving, Apply(g, op), h)
    <3>1. ASSUME NEW n \in NodeId \ Moving
          PROVE  Apply(g, op).node[n] = h.node[n]
      <4>1. Apply(g, op).node[n] = NodeAfter(g, op, n)
        BY <1>0, FamilyRows
      <4>2. NodeAfter(g, op, n) = g.node[n]
        BY <2>4, <2>5, <2>6 DEF NodeAfter
      <4>. QED
        BY <4>1, <4>2 DEF Similar
    <3>2. ASSUME NEW e \in EdgeId, Source[e] \notin Moving, Target[e] \notin Moving
          PROVE  Apply(g, op).edge[e] = h.edge[e]
      <4>1. Apply(g, op).edge[e] = EdgeAfter(g, op, e)
        BY <1>0, FamilyRows
      <4>2. EdgeAfter(g, op, e) = g.edge[e]
        BY <2>4, <2>7, <3>2 DEF EdgeAfter, CutBy
      <4>. QED
        BY <3>2, <4>1, <4>2 DEF Similar
    <3>. QED
      BY <1>0, <3>1, <3>2, FamilyRows DEF Similar
  <2>9. Less(p, Outstand(o, op))
    <3>1. Outstand(o, op) \in Outs
      BY <1>0, FamilyOpByVerb DEF Outs, Outstand
    <3>. QED
      BY <2>4, <3>1 DEF Less, Outstand
  <2>10. <<>> \in Seq(FamilyOp)
    OBVIOUS
  <2>11. FoldLeft(Apply, h, <<>>) = h
    BY <1>0, <2>10, FamilyLaws
  <2>12. OutAfter(p, <<>>) = p
    BY <1>0, <2>10, OutLaws
  <2>. QED
    BY <2>1, <2>8, <2>9, <2>10, <2>11, <2>12
<1>2. ASSUME NEW kept, Reduces(Moving, kept, op), KeptOf(op) = <<kept>>
      PROVE  /\ KeptOf(op) \in Seq(FamilyOp)
             /\ Similar(Moving, Apply(g, op), FoldLeft(Apply, h, KeptOf(op)))
             /\ Less(OutAfter(p, KeptOf(op)), Outstand(o, op))
  <2>1. kept \in FamilyOp /\ <<>> \in Seq(FamilyOp) /\ <<kept>> = Append(<<>>, kept)
    BY <1>2 DEF Reduces
  <2>2. <<kept>> \in Seq(FamilyOp)
    BY <2>1
  <2>3. FoldLeft(Apply, h, <<kept>>) = Apply(h, kept)
    <3>1. FoldLeft(Apply, h, Append(<<>>, kept)) = Apply(FoldLeft(Apply, h, <<>>), kept)
      BY ZenonT(60), <1>0, <2>1, FamilyLaws
    <3>2. FoldLeft(Apply, h, <<>>) = h
      BY <1>0, <2>1, FamilyLaws
    <3>. QED
      BY <2>1, <3>1, <3>2
  <2>4. OutAfter(p, <<kept>>) = Outstand(p, kept)
    <3>1. OutAfter(p, Append(<<>>, kept)) = Outstand(OutAfter(p, <<>>), kept)
      BY <1>0, <2>1, OutLaws
    <3>2. OutAfter(p, <<>>) = p
      BY <1>0, <2>1, OutLaws
    <3>. QED
      BY <2>1, <3>1, <3>2
  <2>. QED
    BY <1>2, <2>2, <2>3, <2>4, ReducedStep
<1>3. CASE ~MovesWhole(op) /\ Splits(op)
  <2>. DEFINE kept == WithWires(op, PartOf(op, FALSE))
  <2>1. HasWires(op) /\ KeptOf(op) = <<kept>>
    BY <1>3 DEF KeptOf, Splits
  <2>2. /\ kept \in FamilyOp /\ PartOf(op, FALSE) \in Wires
        /\ kept.ts = op.ts /\ kept.body.verb = op.body.verb
        /\ HasWires(kept) /\ Wire(kept) = PartOf(op, FALSE)
        /\ Drops(kept) = Drops(op) /\ DropsEdges(kept) = DropsEdges(op)
    BY <2>1, PartIsOp
  <2>. HIDE DEF kept
  <2>3. Wire(op) \in Wires /\ op.body.verb # "update"
    BY <2>1, FamilyOpByVerb DEF HasWires
  <2>4. /\ \A n \in NodeId : Wire(kept).nodes[n] = IF n \in Moving THEN Absent ELSE Wire(op).nodes[n]
        /\ Wire(kept).edges = {e \in Wire(op).edges : ~Touches(e)}
    BY <2>2 DEF PartOf
  <2>5. Brings(kept) \subseteq Brings(op) /\ BringsEdges(kept) \subseteq BringsEdges(op)
    BY <2>1, <2>2, <2>4 DEF Brings, BringsEdges, Wired
  <2>6. \A n \in Brings(op) \ Moving : n \in Brings(kept) /\ Wire(kept).nodes[n] = Wire(op).nodes[n]
    BY <2>1, <2>2, <2>4 DEF Brings, Wired
  <2>7. \A e \in BringsEdges(op) :
          Source[e] \notin Moving /\ Target[e] \notin Moving => e \in BringsEdges(kept)
    BY <2>1, <2>2, <2>4 DEF BringsEdges, Touches
  <2>8. Reduces(Moving, kept, op)
    BY <2>2, <2>3, <2>5, <2>6, <2>7 DEF Reduces
  <2>. QED
    BY <1>2, <2>1, <2>8
<1>4. CASE ~MovesWhole(op) /\ ~Splits(op)
  <2>1. KeptOf(op) = <<op>>
    BY <1>4 DEF KeptOf
  <2>2. Reduces(Moving, op, op)
    BY DEF Reduces
  <2>. QED
    BY <1>2, <2>1, <2>2
<1>. QED
  BY <1>1, <1>3, <1>4

\* What rewriting and archiving make of an op are ops.
LEMMA KeptType ==
  ASSUME NEW op \in FamilyOp
  PROVE  KeptOf(op) \in Seq(FamilyOp) /\ MovedOf(op) \in Seq(FamilyOp)
<1>1. <<>> \in Seq(FamilyOp) /\ <<op>> \in Seq(FamilyOp)
  OBVIOUS
<1>2. ASSUME Splits(op), NEW moves \in BOOLEAN
      PROVE  <<WithWires(op, PartOf(op, moves))>> \in Seq(FamilyOp)
  <2>1. WithWires(op, PartOf(op, moves)) \in FamilyOp
    BY <1>2, PartIsOp DEF Splits
  <2>. QED
    BY <2>1
<1>. QED
  BY <1>1, <1>2 DEF KeptOf, MovedOf

\* And of a segment.
LEMMA SegmentType ==
  ASSUME NEW seg \in Seq(FamilyOp)
  PROVE  /\ Kept(seg) \in Seq(FamilyOp) /\ Moved(seg) \in Seq(FamilyOp)
         /\ [i \in 1 .. Len(seg) |-> KeptOf(seg[i])] \in Seq(Seq(FamilyOp))
         /\ [i \in 1 .. Len(seg) |-> MovedOf(seg[i])] \in Seq(Seq(FamilyOp))
<1>1. \A i \in 1 .. Len(seg) : KeptOf(seg[i]) \in Seq(FamilyOp) /\ MovedOf(seg[i]) \in Seq(FamilyOp)
  BY KeptType
<1>2. [i \in 1 .. Len(seg) |-> KeptOf(seg[i])] \in Seq(Seq(FamilyOp))
  BY <1>1
<1>3. [i \in 1 .. Len(seg) |-> MovedOf(seg[i])] \in Seq(Seq(FamilyOp))
  BY <1>1
<1>. QED
  BY <1>2, <1>3, FlattenLaws DEF Kept, Moved

\* A segment is rewritten op by op.
LEMMA KeptAppend ==
  ASSUME NEW seg \in Seq(FamilyOp), NEW op \in FamilyOp
  PROVE  Kept(Append(seg, op)) = Kept(seg) \o KeptOf(op)
<1>. DEFINE parts == [i \in 1 .. Len(seg) |-> KeptOf(seg[i])]
            more == Append(seg, op)
<1>1. [i \in 1 .. Len(more) |-> KeptOf(more[i])] = Append(parts, KeptOf(op))
  <2>1. /\ more \in Seq(FamilyOp) /\ Len(more) = Len(seg) + 1 /\ Len(seg) \in Nat
        /\ \A i \in 1 .. Len(seg) : more[i] = seg[i]
        /\ more[Len(seg) + 1] = op
    OBVIOUS
  <2>2. parts \in Seq(Seq(FamilyOp)) /\ Len(parts) = Len(seg) /\ KeptOf(op) \in Seq(FamilyOp)
    <3>1. Len(parts) = Len(seg)
      OBVIOUS
    <3>. HIDE DEF parts
    <3>2. parts \in Seq(Seq(FamilyOp))
      BY SegmentType DEF parts
    <3>. QED
      BY <3>1, <3>2, KeptType
  <2>3. [i \in 1 .. Len(more) |-> KeptOf(more[i])] \in Seq(Seq(FamilyOp))
    BY <2>1, SegmentType
  <2>4. Append(parts, KeptOf(op)) \in Seq(Seq(FamilyOp)) /\ Len(Append(parts, KeptOf(op))) = Len(seg) + 1
    BY <2>2
  <2>5. ASSUME NEW i \in 1 .. Len(seg) + 1
        PROVE  KeptOf(more[i]) = Append(parts, KeptOf(op))[i]
    BY <2>1, <2>2
  <2>. DEFINE x == [i \in 1 .. Len(more) |-> KeptOf(more[i])]
              y == Append(parts, KeptOf(op))
              n == Len(seg) + 1
  <2>6. /\ x \in Seq(Seq(FamilyOp)) /\ y \in Seq(Seq(FamilyOp)) /\ Len(x) = n /\ Len(y) = n
        /\ \A i \in 1 .. n : x[i] = y[i]
    <3>1. Len(more) = n /\ n \in Nat
      BY <2>1
    <3>. HIDE DEF more, parts, n
    <3>. QED
      BY <2>3, <2>4, <2>5, <3>1 DEF n
  <2>. HIDE DEF x, y, n
  <2>7. x = y
    BY <2>6, SeqEqual
  <2>. QED
    BY <2>7 DEF x, y
<1>2. parts \in Seq(Seq(FamilyOp)) /\ KeptOf(op) \in Seq(FamilyOp)
  BY SegmentType, KeptType
<1>. HIDE DEF parts
<1>3. FlattenSeq(Append(parts, KeptOf(op))) = FlattenSeq(parts) \o KeptOf(op)
  BY <1>2, FlattenLaws
<1>. QED
  BY <1>1, <1>3 DEF Kept, parts

\* So what is kept of a segment leaves what the segment leaves, but for what moves.
LEMMA KeptSegment ==
  ASSUME NEW seg \in Seq(FamilyOp), \A i \in 1 .. Len(seg) : OneSided(seg[i]),
         Moving \in SUBSET NodeId,
         NEW g, NEW h, Similar(Moving, g, h), NEW p, NEW o, Less(p, o)
  PROVE  /\ Similar(Moving, FoldLeft(Apply, g, seg), FoldLeft(Apply, h, Kept(seg)))
         /\ Less(OutAfter(p, Kept(seg)), OutAfter(o, seg))
<1>. DEFINE P(t) == (\A i \in 1 .. Len(t) : OneSided(t[i])) =>
              /\ Similar(Moving, FoldLeft(Apply, g, t), FoldLeft(Apply, h, Kept(t)))
              /\ Less(OutAfter(p, Kept(t)), OutAfter(o, t))
            S == {t \in Seq(FamilyOp) : P(t)}
<1>0. g \in Graph /\ h \in Graph /\ p \in Outs /\ o \in Outs /\ <<>> \in Seq(FamilyOp)
  BY DEF Similar, Less
<1>1. <<>> \in S
  <2>1. Kept(<<>>) = <<>>
    <3>1. [i \in 1 .. Len(<<>>) |-> KeptOf(<<>>[i])] = <<>>
      OBVIOUS
    <3>. QED
      BY <3>1 DEF Kept, FlattenSeq
  <2>2. FoldLeft(Apply, g, <<>>) = g /\ FoldLeft(Apply, h, <<>>) = h
    BY <1>0, FamilyLaws
  <2>3. OutAfter(p, <<>>) = p /\ OutAfter(o, <<>>) = o
    BY <1>0, OutLaws
  <2>. QED
    BY <1>0, <2>1, <2>2, <2>3
<1>2. ASSUME NEW t \in Seq(FamilyOp), NEW op \in FamilyOp, t \in S
      PROVE  Append(t, op) \in S
  <2>. DEFINE more == Append(t, op)
              gt == FoldLeft(Apply, g, t)
              ht == FoldLeft(Apply, h, Kept(t))
              ot == OutAfter(o, t)
              pt == OutAfter(p, Kept(t))
  <2>0. more \in Seq(FamilyOp)
    OBVIOUS
  <2>. SUFFICES ASSUME \A i \in 1 .. Len(more) : OneSided(more[i])
                PROVE  /\ Similar(Moving, FoldLeft(Apply, g, more), FoldLeft(Apply, h, Kept(more)))
                       /\ Less(OutAfter(p, Kept(more)), OutAfter(o, more))
    BY <2>0
  <2>1. /\ more \in Seq(FamilyOp) /\ Len(more) = Len(t) + 1 /\ Len(t) \in Nat
        /\ \A i \in 1 .. Len(t) : more[i] = t[i] /\ i \in 1 .. Len(more)
        /\ more[Len(t) + 1] = op /\ Len(t) + 1 \in 1 .. Len(more)
    OBVIOUS
  <2>2. OneSided(op) /\ \A i \in 1 .. Len(t) : OneSided(t[i])
    BY <2>1
  <2>3. Similar(Moving, gt, ht) /\ Less(pt, ot)
    BY <1>2, <2>2
  <2>4. /\ KeptOf(op) \in Seq(FamilyOp)
        /\ Similar(Moving, Apply(gt, op), FoldLeft(Apply, ht, KeptOf(op)))
        /\ Less(OutAfter(pt, KeptOf(op)), Outstand(ot, op))
    <3>. HIDE DEF gt, ht, pt, ot
    <3>. QED
      BY <2>2, <2>3, KeptStep
  <2>5. Kept(t) \in Seq(FamilyOp) /\ Kept(more) = Kept(t) \o KeptOf(op)
    BY SegmentType, KeptAppend
  <2>6. FoldLeft(Apply, g, more) = Apply(gt, op)
    BY ZenonT(60), <1>0, FamilyLaws
  <2>7. FoldLeft(Apply, h, Kept(more)) = FoldLeft(Apply, ht, KeptOf(op))
    <3>. DEFINE kt == Kept(t)
                ko == KeptOf(op)
    <3>1. kt \in Seq(FamilyOp) /\ ko \in Seq(FamilyOp) /\ Kept(more) = kt \o ko
      BY <2>4, <2>5
    <3>2. ht = FoldLeft(Apply, h, kt)
      OBVIOUS
    <3>. HIDE DEF kt, ko, ht, more
    <3>3. FoldLeft(Apply, h, kt \o ko) = FoldLeft(Apply, FoldLeft(Apply, h, kt), ko)
      <4>1. \A u \in Seq(FamilyOp) : FoldLeft(Apply, h, kt \o u) =
              FoldLeft(Apply, FoldLeft(Apply, h, kt), u)
        BY <1>0, <3>1, FamilyLaws
      <4>. QED
        BY <3>1, <4>1
    <3>. QED
      BY <3>1, <3>2, <3>3 DEF ko
  <2>8. OutAfter(o, more) = Outstand(ot, op)
    BY <1>0, OutLaws
  <2>9. OutAfter(p, Kept(more)) = OutAfter(pt, KeptOf(op))
    <3>. DEFINE kt == Kept(t)
                ko == KeptOf(op)
    <3>1. kt \in Seq(FamilyOp) /\ ko \in Seq(FamilyOp) /\ Kept(more) = kt \o ko
      BY <2>4, <2>5
    <3>2. pt = OutAfter(p, kt)
      OBVIOUS
    <3>. HIDE DEF kt, ko, pt, more
    <3>3. OutAfter(p, kt \o ko) = OutAfter(OutAfter(p, kt), ko)
      BY <1>0, <3>1, OutLaws
    <3>. QED
      BY <3>1, <3>2, <3>3 DEF ko
  <2>. HIDE DEF gt, ht, pt, ot, more
  <2>. QED
    BY <2>4, <2>6, <2>7, <2>8, <2>9
<1>3. Seq(FamilyOp) \subseteq S
  <2>. HIDE DEF S
  <2>. QED
    BY <1>1, <1>2, SeqInduction
<1>4. P(seg)
  BY <1>3
<1>. QED
  BY <1>4

\* The same ops on similar graphs leave similar graphs.
LEMMA SimilarAfter ==
  ASSUME NEW t \in Seq(FamilyOp), NEW ids \in SUBSET NodeId,
         NEW g, NEW h, Similar(ids, g, h), NEW p, NEW o, Less(p, o)
  PROVE  /\ Similar(ids, FoldLeft(Apply, g, t), FoldLeft(Apply, h, t))
         /\ Less(OutAfter(p, t), OutAfter(o, t))
<1>. DEFINE P(u) == /\ Similar(ids, FoldLeft(Apply, g, u), FoldLeft(Apply, h, u))
                    /\ Less(OutAfter(p, u), OutAfter(o, u))
            S == {u \in Seq(FamilyOp) : P(u)}
<1>0. g \in Graph /\ h \in Graph /\ p \in Outs /\ o \in Outs /\ <<>> \in Seq(FamilyOp)
  BY DEF Similar, Less
<1>1. <<>> \in S
  <2>1. FoldLeft(Apply, g, <<>>) = g /\ FoldLeft(Apply, h, <<>>) = h
    BY <1>0, FamilyLaws
  <2>2. OutAfter(p, <<>>) = p /\ OutAfter(o, <<>>) = o
    BY <1>0, OutLaws
  <2>. QED
    BY <1>0, <2>1, <2>2
<1>2. ASSUME NEW u \in Seq(FamilyOp), NEW op \in FamilyOp, u \in S
      PROVE  Append(u, op) \in S
  <2>1. P(u)
    BY <1>2
  <2>2. Reduces(ids, op, op)
    BY DEF Reduces
  <2>3. /\ Similar(ids, Apply(FoldLeft(Apply, g, u), op), Apply(FoldLeft(Apply, h, u), op))
        /\ Less(Outstand(OutAfter(p, u), op), Outstand(OutAfter(o, u), op))
    BY <2>1, <2>2, ReducedStep
  <2>4. /\ FoldLeft(Apply, g, Append(u, op)) = Apply(FoldLeft(Apply, g, u), op)
        /\ FoldLeft(Apply, h, Append(u, op)) = Apply(FoldLeft(Apply, h, u), op)
    <3>1. FoldLeft(Apply, g, Append(u, op)) = Apply(FoldLeft(Apply, g, u), op)
      BY ZenonT(60), <1>0, FamilyLaws
    <3>2. FoldLeft(Apply, h, Append(u, op)) = Apply(FoldLeft(Apply, h, u), op)
      BY ZenonT(60), <1>0, FamilyLaws
    <3>. QED
      BY <3>1, <3>2
  <2>5. /\ OutAfter(p, Append(u, op)) = Outstand(OutAfter(p, u), op)
        /\ OutAfter(o, Append(u, op)) = Outstand(OutAfter(o, u), op)
    BY <1>0, OutLaws
  <2>6. Append(u, op) \in Seq(FamilyOp)
    OBVIOUS
  <2>. QED
    BY <2>3, <2>4, <2>5, <2>6
<1>3. Seq(FamilyOp) \subseteq S
  <2>. HIDE DEF S
  <2>. QED
    BY <1>1, <1>2, SeqInduction
<1>. QED
  BY <1>3

\* No wire of ids stands in the ops but one that a later op drops by name.
Free(ids, s) ==
  /\ Out(s).nodes \cap ids = {}
  /\ \A e \in Out(s).edges : Source[e] \notin ids /\ Target[e] \notin ids

\* A replay of three parts, and what they leave outstanding.
LEMMA ThreeParts ==
  ASSUME NEW a \in Seq(FamilyOp), NEW seg \in Seq(FamilyOp), NEW b \in Seq(FamilyOp)
  PROVE  /\ ReplayOf(a) \in Graph /\ Out(a) \in Outs
         /\ (a \o seg) \o b \in Seq(FamilyOp)
         /\ ReplayOf((a \o seg) \o b) = FoldLeft(Apply, FoldLeft(Apply, ReplayOf(a), seg), b)
         /\ Out((a \o seg) \o b) = OutAfter(OutAfter(Out(a), seg), b)
<1>1. a \o seg \in Seq(FamilyOp) /\ (a \o seg) \o b \in Seq(FamilyOp)
  OBVIOUS
<1>2. FoldLeft(Apply, EmptyGraph, (a \o seg) \o b) =
        FoldLeft(Apply, FoldLeft(Apply, EmptyGraph, a \o seg), b)
  BY ZenonT(60), <1>1, EmptyGraphType, FamilyLaws
<1>3. FoldLeft(Apply, EmptyGraph, a \o seg) = FoldLeft(Apply, FoldLeft(Apply, EmptyGraph, a), seg)
  BY EmptyGraphType, FamilyLaws
<1>4. NothingOut \in Outs
  BY DEF NothingOut, Outs
<1>5. OutAfter(NothingOut, (a \o seg) \o b) = OutAfter(OutAfter(NothingOut, a \o seg), b)
  BY ZenonT(60), <1>1, <1>4, OutLaws
<1>6. OutAfter(NothingOut, a \o seg) = OutAfter(OutAfter(NothingOut, a), seg)
  BY <1>4, OutLaws
<1>7. ReplayOf(a) \in Graph /\ Out(a) \in Outs
  BY <1>4, EmptyGraphType, FamilyLaws, OutLaws DEF ReplayOf, Out
<1>. QED
  BY <1>1, <1>2, <1>3, <1>5, <1>6, <1>7 DEF ReplayOf, Out

\* Where that is so, rewriting a segment changes nothing of the replay.
LEMMA RewrittenReplay ==
  ASSUME NEW fam \in Seq(Seq(FamilyOp)), NEW k \in 1 .. Len(fam), Moving \in SUBSET NodeId,
         \A i \in 1 .. Len(fam[k]) : OneSided(fam[k][i]),
         Free(Moving, FlattenSeq(fam)),
         NEW after, after = [fam EXCEPT ![k] = Kept(@)]
  PROVE  /\ after \in Seq(Seq(FamilyOp)) /\ Len(after) = Len(fam)
         /\ ReplayOf(FlattenSeq(after)) = ReplayOf(FlattenSeq(fam))
         /\ Less(Out(FlattenSeq(after)), Out(FlattenSeq(fam)))
<1>. DEFINE a == FlattenSeq(SubSeq(fam, 1, k - 1))
            b == FlattenSeq(SubSeq(fam, k + 1, Len(fam)))
            seg == fam[k]
            s == FlattenSeq(fam)
            t == FlattenSeq(after)
<1>1. /\ a \in Seq(FamilyOp) /\ b \in Seq(FamilyOp) /\ seg \in Seq(FamilyOp) /\ s \in Seq(FamilyOp)
      /\ s = (a \o seg) \o b
  BY FlattenAround, FlattenLaws
<1>2. Kept(seg) \in Seq(FamilyOp) /\ after = [fam EXCEPT ![k] = Kept(seg)]
  BY <1>1, SegmentType
<1>3. /\ after \in Seq(Seq(FamilyOp)) /\ Len(after) = Len(fam)
      /\ t = (a \o Kept(seg)) \o b
  <2>1. /\ after \in Seq(Seq(FamilyOp)) /\ Len(after) = Len(fam) /\ after[k] = Kept(seg)
        /\ \A i \in 1 .. Len(fam) : i # k => after[i] = fam[i]
    BY <1>2
  <2>2. FlattenSeq(after) = (FlattenSeq(SubSeq(fam, 1, k - 1)) \o after[k])
              \o FlattenSeq(SubSeq(fam, k + 1, Len(fam)))
    BY ZenonT(60), <2>1, FlattenReplaced
  <2>. QED
    BY <2>1, <2>2
<1>4. t \in Seq(FamilyOp)
  BY <1>3, FlattenLaws
<1>5. \A i \in 1 .. Len(seg) : OneSided(seg[i])
  OBVIOUS
<1>6. Free(Moving, s)
  OBVIOUS
<1>. HIDE DEF a, b, s, t, seg
<1>. DEFINE ga == ReplayOf(a)
            oa == Out(a)
            gs == FoldLeft(Apply, ga, seg)
            gt == FoldLeft(Apply, ga, Kept(seg))
            os == OutAfter(oa, seg)
            ot == OutAfter(oa, Kept(seg))
<1>7. /\ ga \in Graph /\ oa \in Outs
      /\ ReplayOf(s) = FoldLeft(Apply, gs, b) /\ ReplayOf(t) = FoldLeft(Apply, gt, b)
      /\ Out(s) = OutAfter(os, b) /\ Out(t) = OutAfter(ot, b)
  BY <1>1, <1>2, <1>3, ThreeParts
<1>8. Similar(Moving, ReplayOf(s), ReplayOf(t)) /\ Less(Out(t), Out(s))
  <2>1. Similar(Moving, ga, ga) /\ Less(oa, oa)
    BY <1>7 DEF Similar, Less
  <2>2. Similar(Moving, gs, gt) /\ Less(ot, os)
    <3>. HIDE DEF ga, oa
    <3>. QED
      BY <1>1, <1>5, <2>1, KeptSegment
  <2>. HIDE DEF gs, gt, os, ot
  <2>3. Similar(Moving, FoldLeft(Apply, gs, b), FoldLeft(Apply, gt, b))
    BY <1>1, <2>2, SimilarAfter
  <2>4. Less(OutAfter(ot, b), OutAfter(os, b))
    BY <1>1, <2>2, SimilarAfter
  <2>. QED
    BY <1>7, <2>3, <2>4
<1>9. ReplayOf(s) = ReplayOf(t)
  <2>. DEFINE x == ReplayOf(s)
              y == ReplayOf(t)
  <2>0. x \in Graph /\ y \in Graph /\ Out(t).nodes \subseteq Out(s).nodes /\ Out(t).edges \subseteq Out(s).edges
    BY <1>8 DEF Similar, Less
  <2>1. /\ \A n \in NodeId : x.node[n] # Absent => n \in Out(s).nodes
        /\ \A n \in NodeId : y.node[n] # Absent => n \in Out(t).nodes
        /\ \A e \in EdgeId : x.edge[e] # Absent => e \in Out(s).edges
        /\ \A e \in EdgeId : y.edge[e] # Absent => e \in Out(t).edges
    BY <1>1, <1>4, PresentIsOut
  <2>2. \A n \in NodeId : x.node[n] = y.node[n]
    BY <1>6, <1>8, <2>0, <2>1 DEF Similar, Free
  <2>3. \A e \in EdgeId : x.edge[e] = y.edge[e]
    BY <1>6, <1>8, <2>0, <2>1 DEF Similar, Free
  <2>. HIDE DEF x, y
  <2>4. x = y
    BY <2>0, <2>2, <2>3, GraphEqual
  <2>. QED
    BY <2>4 DEF x, y
<1>. QED
  BY <1>3, <1>8, <1>9 DEF s, t

-----------------------------------------------------------------------------
(* Places in a family. *)

Families == {fam \in Seq(Seq(FamilyOp)) : fam # <<>>}

Place == [segment: Nat, before: Seq(FamilyOp)]

\* Found and Past, of any family.
FoundIn(fam, place) ==
  \/ place = Origin
  \/ place.segment \in 1 .. Len(fam) /\ IsPrefix(place.before, fam[place.segment])

PastIn(fam, place) ==
  IF place = Origin THEN FlattenSeq(fam)
  ELSE SubSeq(fam[place.segment], Len(place.before) + 1, Len(fam[place.segment]))
         \o FlattenSeq(SubSeq(fam, place.segment + 1, Len(fam)))

\* A family of empty segments has no record.
LEMMA NoRecords ==
  ASSUME NEW fam \in Seq(Seq(FamilyOp)), \A k \in 1 .. Len(fam) : fam[k] = <<>>
  PROVE  FlattenSeq(fam) = <<>>
<1>1. FlattenSeq(fam) \in Seq(FamilyOp)
  BY FlattenLaws
<1>2. \A j \in 1 .. Len(FlattenSeq(fam)) : \E k \in 1 .. Len(fam) : \E i \in 1 .. Len(fam[k]) : TRUE
  BY FlattenElements
<1>3. \A j \in 1 .. Len(FlattenSeq(fam)) : FALSE
  BY <1>2
<1>4. Len(FlattenSeq(fam)) = 0
  BY <1>1, <1>3
<1>. QED
  BY <1>1, <1>4

\* What is after a position of a sequence.
LEMMA RestOfSeq ==
  ASSUME NEW Y, NEW q \in Seq(Y), NEW n \in Nat, Len(q) = n, NEW k \in 0 .. n
  PROVE  /\ SubSeq(q, k + 1, n) \in Seq(Y) /\ Len(SubSeq(q, k + 1, n)) = n - k
         /\ \A i \in 1 .. (n - k) : SubSeq(q, k + 1, n)[i] = q[k + i]
         /\ SubSeq(q, n + 1, n) = <<>>
         /\ n - k \in Nat /\ k + (n - k) = n
         /\ \A i \in 1 .. n - k : k + i \in 1 .. n
         /\ \A i \in 1 .. n - k : i # n - k => i \in 1 .. (n - k) - 1 /\ k + i \in 1 .. n - 1
<1>1. /\ SubSeq(q, k + 1, n) \in Seq(Y) /\ Len(SubSeq(q, k + 1, n)) = n - k
      /\ SubSeq(q, n + 1, n) = <<>>
  OBVIOUS
<1>2. \A i \in 1 .. (n - k) : SubSeq(q, k + 1, n)[i] = q[k + i]
  OBVIOUS
<1>3. /\ n - k \in Nat /\ k + (n - k) = n
      /\ \A i \in 1 .. n - k : k + i \in 1 .. n
      /\ \A i \in 1 .. n - k : i # n - k => i \in 1 .. (n - k) - 1 /\ k + i \in 1 .. n - 1
  OBVIOUS
<1>. QED
  BY <1>1, <1>2, <1>3

\* Landed, in any family.
LandedIn(fam, op) == [fam EXCEPT ![Len(fam)] = Append(@, op)]

\* An op that lands in the tail is the family's last record.
LEMMA LandedRecords ==
  ASSUME NEW fam \in Families, NEW op \in FamilyOp, NEW after, after = LandedIn(fam, op)
  PROVE  /\ after \in Families /\ Len(after) = Len(fam)
         /\ after[Len(fam)] = Append(fam[Len(fam)], op)
         /\ \A k \in 1 .. Len(fam) - 1 : after[k] = fam[k]
         /\ FlattenSeq(after) = Append(FlattenSeq(fam), op)
<1>. DEFINE n == Len(fam)
            x == fam[n]
            front == SubSeq(fam, 1, n - 1)
<1>1. fam \in Seq(Seq(FamilyOp)) /\ n \in Nat /\ n \in 1 .. n
  BY DEF Families
<1>2. x \in Seq(FamilyOp) /\ Append(x, op) \in Seq(FamilyOp)
  BY <1>1
<1>3. /\ after \in Seq(Seq(FamilyOp)) /\ Len(after) = n /\ after[n] = Append(x, op)
      /\ \A k \in 1 .. n : k # n => after[k] = fam[k]
  BY <1>1, <1>2 DEF LandedIn
<1>4. FlattenSeq(fam) = (FlattenSeq(front) \o x) \o FlattenSeq(SubSeq(fam, n + 1, n))
  BY <1>1, FlattenAround
<1>5. FlattenSeq(after) = (FlattenSeq(front) \o Append(x, op)) \o FlattenSeq(SubSeq(fam, n + 1, n))
  <2>. DEFINE k == n
  <2>1. k \in 1 .. Len(fam) /\ k = n /\ Len(fam) = n
    BY <1>1
  <2>. HIDE DEF n, k
  <2>2. \A i \in 1 .. Len(fam) : i # k => after[i] = fam[i]
    BY <1>3, <2>1
  <2>3. FlattenSeq(after) = (FlattenSeq(SubSeq(fam, 1, k - 1)) \o after[k])
                              \o FlattenSeq(SubSeq(fam, k + 1, Len(fam)))
    BY <1>1, <1>3, <2>1, <2>2, FlattenReplaced
  <2>. QED
    BY <1>3, <2>1, <2>3
<1>6. FlattenSeq(SubSeq(fam, n + 1, n)) = <<>>
  <2>1. SubSeq(fam, n + 1, n) = <<>>
    BY <1>1
  <2>. QED
    BY <2>1 DEF FlattenSeq
<1>7. FlattenSeq(front) \in Seq(FamilyOp)
  BY <1>1, FlattenAround, FlattenLaws
<1>. DEFINE f == FlattenSeq(front)
<1>. HIDE DEF x, f
<1>8. (f \o x) \o <<>> = f \o x /\ (f \o Append(x, op)) \o <<>> = Append(f \o x, op)
  <2>1. f \in Seq(FamilyOp)
    BY <1>7 DEF f
  <2>. QED
    BY <1>2, <2>1
<1>9. \A k \in 1 .. n - 1 : k \in 1 .. n /\ k # n
  BY <1>1
<1>10. after # <<>>
  <2>1. Len(<<>>) = 0
    OBVIOUS
  <2>. HIDE DEF n
  <2>. QED
    BY <1>1, <1>3, <2>1
<1>. QED
  BY <1>3, <1>4, <1>5, <1>6, <1>8, <1>9, <1>10 DEF f, x, Families

\* A place that is found stays found, and the op is the last record past it.
LEMMA LandedPast ==
  ASSUME NEW fam \in Families, NEW op \in FamilyOp, NEW after, after = LandedIn(fam, op),
         NEW place \in Place, FoundIn(fam, place)
  PROVE  /\ FoundIn(after, place)
         /\ PastIn(fam, place) \in Seq(FamilyOp)
         /\ PastIn(after, place) = Append(PastIn(fam, place), op)
<1>. DEFINE n == Len(fam)
            k == place.segment
            b == place.before
<1>1. /\ fam \in Seq(Seq(FamilyOp)) /\ n \in Nat /\ n \in 1 .. n /\ b \in Seq(FamilyOp)
      /\ \A i \in 1 .. n : fam[i] \in Seq(FamilyOp)
  BY DEF Families, Place
<1>2. /\ after \in Seq(Seq(FamilyOp)) /\ after \in Families /\ Len(after) = n
      /\ after[n] = Append(fam[n], op)
      /\ \A i \in 1 .. n - 1 : after[i] = fam[i]
      /\ FlattenSeq(after) = Append(FlattenSeq(fam), op)
  <2>1. /\ after \in Families /\ Len(after) = Len(fam)
        /\ after[Len(fam)] = Append(fam[Len(fam)], op)
        /\ \A i \in 1 .. Len(fam) - 1 : after[i] = fam[i]
        /\ FlattenSeq(after) = Append(FlattenSeq(fam), op)
    BY LandedRecords
  <2>. QED
    BY <2>1 DEF Families
<1>3. CASE place = Origin
  BY <1>1, <1>2, <1>3, FlattenLaws DEF FoundIn, PastIn
<1>4. CASE place # Origin /\ k = n
  <2>. DEFINE x == fam[n]
  <2>1. IsPrefix(b, x) /\ x \in Seq(FamilyOp)
    BY <1>1, <1>4 DEF FoundIn
  <2>2. /\ PastIn(fam, place) = SubSeq(x, Len(b) + 1, Len(x)) \o FlattenSeq(SubSeq(fam, n + 1, n))
        /\ PastIn(after, place) = SubSeq(Append(x, op), Len(b) + 1, Len(Append(x, op)))
                                    \o FlattenSeq(SubSeq(after, n + 1, n))
    BY <1>2, <1>4 DEF PastIn
  <2>3. SubSeq(fam, n + 1, n) = <<>> /\ SubSeq(after, n + 1, n) = <<>>
    <3>1. Len(fam) = n /\ Len(after) = n
      BY <1>2
    <3>. HIDE DEF n
    <3>2. n \in 0 .. n
      BY <1>1
    <3>3. SubSeq(fam, n + 1, n) = <<>>
      BY <1>1, <3>1, <3>2, RestOfSeq
    <3>4. SubSeq(after, n + 1, n) = <<>>
      BY <1>1, <1>2, <3>1, <3>2, RestOfSeq
    <3>. QED
      BY <3>3, <3>4
  <2>4. FlattenSeq(<<>>) = <<>>
    BY DEF FlattenSeq
  <2>5. FoundIn(after, place) <=> IsPrefix(b, Append(x, op))
    BY <1>1, <1>2, <1>4 DEF FoundIn
  <2>. HIDE DEF x, b
  <2>6. Len(b) \in Nat /\ Len(b) <= Len(x) /\ SubSeq(b, 1, Len(b)) = SubSeq(x, 1, Len(b))
    BY <1>1, <2>1 DEF IsPrefix
  <2>7. IsPrefix(b, Append(x, op))
    <3>1. SubSeq(Append(x, op), 1, Len(b)) = SubSeq(x, 1, Len(b))
      BY <2>1, <2>6
    <3>2. Len(b) <= Len(Append(x, op))
      BY <2>1, <2>6
    <3>. QED
      BY <2>6, <3>1, <3>2 DEF IsPrefix
  <2>8. /\ SubSeq(x, Len(b) + 1, Len(x)) \in Seq(FamilyOp)
        /\ SubSeq(Append(x, op), Len(b) + 1, Len(Append(x, op))) =
             Append(SubSeq(x, Len(b) + 1, Len(x)), op)
    <3>. DEFINE m == Len(b)
                u == SubSeq(x, m + 1, Len(x))
                v == SubSeq(Append(x, op), m + 1, Len(x) + 1)
    <3>1. m \in Nat /\ Len(x) \in Nat /\ m <= Len(x) /\ Len(Append(x, op)) = Len(x) + 1
      BY <2>1, <2>6
    <3>. HIDE DEF m
    <3>2. /\ u \in Seq(FamilyOp) /\ Len(u) = Len(x) - m
          /\ \A i \in 1 .. Len(x) - m : u[i] = x[m + i]
      BY <2>1, <3>1
    <3>3. /\ v \in Seq(FamilyOp) /\ Len(v) = (Len(x) - m) + 1
          /\ \A i \in 1 .. (Len(x) - m) + 1 : v[i] = Append(x, op)[m + i]
      <4>1. Append(x, op) \in Seq(FamilyOp)
        BY <2>1
      <4>2. m + 1 \in 1 .. Len(Append(x, op)) + 1 /\ Len(x) + 1 \in m .. Len(Append(x, op))
        BY <3>1
      <4>. DEFINE y == Append(x, op)
      <4>3. y \in Seq(FamilyOp) /\ Len(y) = Len(x) + 1
        BY <3>1, <4>1
      <4>. HIDE DEF y
      <4>4. /\ SubSeq(y, m + 1, Len(x) + 1) \in Seq(FamilyOp)
            /\ Len(SubSeq(y, m + 1, Len(x) + 1)) = (Len(x) - m) + 1
            /\ \A i \in 1 .. (Len(x) - m) + 1 : SubSeq(y, m + 1, Len(x) + 1)[i] = y[m + i]
        BY <3>1, <4>3
      <4>. QED
        BY <4>4 DEF y
    <3>. HIDE DEF u, v
    <3>4. Append(u, op) \in Seq(FamilyOp) /\ Len(Append(u, op)) = (Len(x) - m) + 1
      <4>1. Append(u, op) \in Seq(FamilyOp) /\ Len(Append(u, op)) = Len(u) + 1
        BY <3>2
      <4>. QED
        BY <3>2, <4>1
    <3>5. ASSUME NEW i \in 1 .. (Len(x) - m) + 1
          PROVE  v[i] = Append(u, op)[i]
      <4>1. CASE i \in 1 .. Len(x) - m
        <5>1. Append(u, op)[i] = u[i]
          BY <3>1, <3>2, <4>1
        <5>2. Append(x, op)[m + i] = x[m + i]
          BY <2>1, <3>1, <4>1
        <5>. QED
          BY <3>2, <3>3, <4>1, <5>1, <5>2
      <4>2. CASE i = (Len(x) - m) + 1
        <5>1. Append(u, op)[i] = op
          BY <3>1, <3>2, <4>2
        <5>2. m + i = Len(x) + 1 /\ Append(x, op)[Len(x) + 1] = op
          BY <2>1, <3>1, <4>2
        <5>. QED
          BY <3>3, <5>1, <5>2
      <4>3. i \in 1 .. Len(x) - m \/ i = (Len(x) - m) + 1
        BY <3>1
      <4>. QED
        BY <4>1, <4>2, <4>3
    <3>6. v = Append(u, op)
      <4>. DEFINE len == (Len(x) - m) + 1
      <4>1. /\ v \in Seq(FamilyOp) /\ Append(u, op) \in Seq(FamilyOp)
            /\ Len(v) = len /\ Len(Append(u, op)) = len
            /\ \A i \in 1 .. len : v[i] = Append(u, op)[i]
        BY <3>3, <3>4, <3>5
      <4>. HIDE DEF len
      <4>. QED
        BY <4>1, SeqEqual
    <3>. QED
      BY <3>1, <3>2, <3>6 DEF u, v, m
  <2>9. ASSUME NEW r \in Seq(FamilyOp)
        PROVE  r \o <<>> = r /\ Append(r, op) \o <<>> = Append(r, op)
    OBVIOUS
  <2>. QED
    BY <2>2, <2>3, <2>4, <2>5, <2>7, <2>8, <2>9
<1>5. CASE place # Origin /\ k # n
  <2>1. k \in 1 .. n - 1 /\ k \in 1 .. n /\ IsPrefix(b, fam[k]) /\ after[k] = fam[k]
    <3>1. k \in 1 .. n /\ IsPrefix(b, fam[k])
      BY <1>5 DEF FoundIn
    <3>2. k \in 1 .. n - 1
      <4>. HIDE DEF n, k
      <4>. QED
        BY <1>1, <1>5, <3>1
    <3>. QED
      BY <1>2, <3>1, <3>2
  <2>. DEFINE x == fam[k]
              u == SubSeq(fam, k + 1, n)
              v == SubSeq(after, k + 1, n)
  <2>2. /\ PastIn(fam, place) = SubSeq(x, Len(b) + 1, Len(x)) \o FlattenSeq(u)
        /\ PastIn(after, place) = SubSeq(x, Len(b) + 1, Len(x)) \o FlattenSeq(v)
    BY <1>2, <1>5, <2>1 DEF PastIn
  <2>3. k \in 0 .. n /\ Len(fam) = n
    <3>. HIDE DEF k
    <3>. QED
      BY <1>1, <2>1
  <2>4. /\ u \in Seq(Seq(FamilyOp)) /\ Len(u) = n - k /\ \A i \in 1 .. (n - k) : u[i] = fam[k + i]
        /\ v \in Seq(Seq(FamilyOp)) /\ Len(v) = n - k /\ \A i \in 1 .. (n - k) : v[i] = after[k + i]
    <3>. HIDE DEF n, k
    <3>. QED
      BY <1>1, <1>2, <2>3, RestOfSeq
  <2>. HIDE DEF u, v
  <2>5. /\ n - k \in Nat /\ n - k \in 1 .. n - k /\ k + (n - k) = n
        /\ \A i \in 1 .. n - k : i # n - k => i \in 1 .. (n - k) - 1 /\ k + i \in 1 .. n - 1
    <3>. HIDE DEF n, k
    <3>. QED
      BY <1>1, <2>1
  <2>6. u \in Families
    BY <2>4, <2>5 DEF Families
  <2>7. v = LandedIn(u, op)
    <3>. DEFINE w == LandedIn(u, op)
    <3>1. /\ w \in Seq(Seq(FamilyOp)) /\ Len(w) = n - k /\ w[n - k] = Append(u[n - k], op)
          /\ \A i \in 1 .. (n - k) - 1 : w[i] = u[i]
      <4>. HIDE DEF w, n, k
      <4>1. /\ w \in Families /\ Len(w) = Len(u) /\ w[Len(u)] = Append(u[Len(u)], op)
            /\ \A i \in 1 .. Len(u) - 1 : w[i] = u[i]
        BY SMTT(30), <2>6, LandedRecords DEF w
      <4>2. Len(u) = n - k
        BY <2>4
      <4>. QED
        BY <4>1, <4>2 DEF Families
    <3>. HIDE DEF w
    <3>2. ASSUME NEW i \in 1 .. (n - k)
          PROVE  v[i] = w[i]
      <4>1. CASE i = n - k
        <5>1. v[i] = after[n] /\ u[i] = fam[n]
          BY <2>4, <2>5, <4>1
        <5>. QED
          BY <1>2, <3>1, <4>1, <5>1
      <4>2. CASE i # n - k
        <5>1. i \in 1 .. (n - k) - 1 /\ k + i \in 1 .. n - 1
          BY <2>5, <4>2
        <5>. QED
          BY <1>2, <2>4, <3>1, <5>1
      <4>. QED
        BY <4>1, <4>2
    <3>3. v = w
      <4>. DEFINE m == n - k
                  Y == Seq(FamilyOp)
      <4>1. v \in Seq(Y) /\ w \in Seq(Y) /\ Len(v) = m /\ Len(w) = m /\ \A i \in 1 .. m : v[i] = w[i]
        BY <2>4, <3>1, <3>2
      <4>. HIDE DEF m, Y
      <4>. QED
        BY <4>1, SeqEqual
    <3>. QED
      BY <3>3 DEF w
  <2>8. FlattenSeq(v) = Append(FlattenSeq(u), op) /\ FlattenSeq(u) \in Seq(FamilyOp)
    BY <2>4, <2>6, <2>7, LandedRecords, FlattenLaws
  <2>9. SubSeq(x, Len(b) + 1, Len(x)) \in Seq(FamilyOp)
    <3>1. x \in Seq(FamilyOp) /\ Len(b) \in Nat /\ Len(b) <= Len(x)
      BY <1>1, <2>1 DEF IsPrefix
    <3>. HIDE DEF x, b
    <3>. QED
      BY <3>1
  <2>10. ASSUME NEW r \in Seq(FamilyOp), NEW q \in Seq(FamilyOp)
         PROVE  r \o q \in Seq(FamilyOp) /\ r \o Append(q, op) = Append(r \o q, op)
    OBVIOUS
  <2>11. FoundIn(after, place)
    BY <1>2, <2>1 DEF FoundIn
  <2>. QED
    BY <2>2, <2>8, <2>9, <2>10, <2>11
<1>. QED
  BY <1>3, <1>4, <1>5

\* A family of no record has its end at the origin, and another in its last segment
\* that holds one.
LEMMA EndParts ==
  ASSUME NEW fam \in Families
  PROVE  \/ EndOf(fam) = Origin /\ \A k \in 1 .. Len(fam) : fam[k] = <<>>
         \/ \E k \in 1 .. Len(fam) :
              /\ fam[k] # <<>> /\ \A j \in 1 .. Len(fam) : fam[j] # <<>> => j <= k
              /\ EndOf(fam) = [segment |-> k, before |-> fam[k]]
<1>. DEFINE filled == {k \in 1 .. Len(fam) : fam[k] # <<>>}
            last == CHOOSE k \in filled : \A j \in filled : j <= k
<1>1. CASE filled = {}
  <2>1. EndOf(fam) = Origin
    BY <1>1 DEF EndOf
  <2>. QED
    BY <1>1, <2>1
<1>2. CASE filled # {}
  <2>1. EndOf(fam) = [segment |-> last, before |-> fam[last]]
    BY <1>2 DEF EndOf
  <2>2. \E k \in filled : \A j \in filled : j <= k
    <3>1. Len(fam) \in Nat /\ filled \in SUBSET (1 .. Len(fam))
      BY DEF Families
    <3>. HIDE DEF filled
    <3>. QED
      BY <1>2, <3>1, MaxOfPositions
  <2>3. last \in filled /\ \A j \in filled : j <= last
    <3>. HIDE DEF filled
    <3>. QED
      BY <2>2
  <2>. HIDE DEF last
  <2>. QED
    BY <2>1, <2>3
<1>. QED
  BY <1>1, <1>2

\* The end of a family is a place in it with no record past it.
LEMMA EndFound ==
  ASSUME NEW fam \in Families
  PROVE  EndOf(fam) \in Place /\ FoundIn(fam, EndOf(fam)) /\ PastIn(fam, EndOf(fam)) = <<>>
<1>0. fam \in Seq(Seq(FamilyOp)) /\ Len(fam) \in Nat
  BY DEF Families
<1>1. CASE EndOf(fam) = Origin /\ \A k \in 1 .. Len(fam) : fam[k] = <<>>
  <2>1. FlattenSeq(fam) = <<>>
    BY <1>0, <1>1, NoRecords
  <2>. QED
    BY <1>1, <2>1 DEF Origin, Place, FoundIn, PastIn
<1>2. ASSUME NEW k \in 1 .. Len(fam), fam[k] # <<>>,
             \A j \in 1 .. Len(fam) : fam[j] # <<>> => j <= k,
             EndOf(fam) = [segment |-> k, before |-> fam[k]]
      PROVE  EndOf(fam) \in Place /\ FoundIn(fam, EndOf(fam)) /\ PastIn(fam, EndOf(fam)) = <<>>
  <2>. DEFINE n == Len(fam)
              x == fam[k]
              rest == SubSeq(fam, k + 1, n)
  <2>1. x \in Seq(FamilyOp) /\ n \in Nat /\ k \in 1 .. n /\ k \in Nat /\ k # 0
    BY <1>0
  <2>2. EndOf(fam) # Origin /\ EndOf(fam).segment = k /\ EndOf(fam).before = x
    BY <1>2, <2>1 DEF Origin
  <2>3. IsPrefix(x, x)
    BY <2>1 DEF IsPrefix
  <2>4. /\ rest \in Seq(Seq(FamilyOp)) /\ Len(rest) = n - k
        /\ \A i \in 1 .. n - k : rest[i] = fam[k + i] /\ k + i \in 1 .. n /\ ~(k + i <= k)
    <3>1. n \in Nat /\ Len(fam) = n /\ k \in 0 .. n /\ k \in Nat
      BY <2>1
    <3>. HIDE DEF n
    <3>2. /\ SubSeq(fam, k + 1, n) \in Seq(Seq(FamilyOp)) /\ Len(SubSeq(fam, k + 1, n)) = n - k
          /\ \A i \in 1 .. (n - k) : SubSeq(fam, k + 1, n)[i] = fam[k + i]
          /\ \A i \in 1 .. n - k : k + i \in 1 .. n
      BY <1>0, <3>1, RestOfSeq
    <3>3. \A i \in 1 .. n - k : ~(k + i <= k)
      BY <3>1
    <3>. QED
      BY <3>2, <3>3
  <2>5. \A i \in 1 .. Len(rest) : rest[i] = <<>>
    <3>. HIDE DEF rest
    <3>. QED
      BY <1>2, <2>4
  <2>6. FlattenSeq(rest) = <<>>
    <3>. HIDE DEF rest
    <3>. QED
      BY <2>4, <2>5, NoRecords
  <2>7. SubSeq(x, Len(x) + 1, Len(x)) = <<>>
    <3>. HIDE DEF x
    <3>. QED
      BY <2>1
  <2>8. PastIn(fam, EndOf(fam)) = SubSeq(x, Len(x) + 1, Len(x)) \o FlattenSeq(rest)
    BY <2>2 DEF PastIn
  <2>9. <<>> \o <<>> = <<>>
    OBVIOUS
  <2>. QED
    BY <1>2, <2>1, <2>2, <2>3, <2>6, <2>7, <2>8, <2>9 DEF Place, FoundIn
<1>. QED
  BY <1>1, <1>2, EndParts

\* A new tail moves no record and no end.
LEMMA Rotated ==
  ASSUME NEW fam \in Families, NEW after, after = Append(fam, <<>>)
  PROVE  /\ after \in Families /\ Len(after) = Len(fam) + 1 /\ after[Len(after)] = <<>>
         /\ FlattenSeq(after) = FlattenSeq(fam) /\ EndOf(after) = EndOf(fam)
<1>. DEFINE n == Len(fam)
            Y == Seq(FamilyOp)
<1>1. fam \in Seq(Y) /\ n \in Nat /\ <<>> \in Y
  BY DEF Families
<1>2. /\ after \in Seq(Y) /\ Len(after) = n + 1 /\ after[n + 1] = <<>>
      /\ \A k \in 1 .. n : after[k] = fam[k]
  <2>. HIDE DEF Y
  <2>. QED
    BY <1>1
<1>3. after \in Families
  BY <1>1, <1>2 DEF Families
<1>4. FlattenSeq(after) = FlattenSeq(fam)
  <2>1. FlattenSeq(Append(fam, <<>>)) = FlattenSeq(fam) \o <<>> /\ FlattenSeq(fam) \in Y
    BY <1>1, FlattenLaws
  <2>. QED
    BY <2>1
<1>5. EndOf(after) = EndOf(fam)
  <2>1. {k \in 1 .. n + 1 : after[k] # <<>>} = {k \in 1 .. n : fam[k] # <<>>}
    <3>. HIDE DEF n
    <3>1. \A k \in 1 .. n + 1 : k \in 1 .. n \/ k = n + 1
      BY <1>1
    <3>2. \A k \in 1 .. n : k \in 1 .. n + 1
      BY <1>1
    <3>. QED
      BY <1>2, <3>1, <3>2
  <2>. DEFINE filled == {k \in 1 .. n : fam[k] # <<>>}
              last == CHOOSE k \in filled : \A j \in filled : j <= k
  <2>2. CASE filled = {}
    BY <1>2, <2>1, <2>2 DEF EndOf
  <2>3. CASE filled # {}
    <3>1. /\ EndOf(fam) = [segment |-> last, before |-> fam[last]]
          /\ EndOf(after) = [segment |-> last, before |-> after[last]]
      BY <1>2, <2>1, <2>3 DEF EndOf
    <3>2. \E k \in filled : \A j \in filled : j <= k
      <4>1. filled \in SUBSET (1 .. n)
        OBVIOUS
      <4>. HIDE DEF filled
      <4>. QED
        BY <1>1, <2>3, <4>1, MaxOfPositions
    <3>3. last \in filled
      <4>. HIDE DEF filled
      <4>. QED
        BY <3>2
    <3>4. after[last] = fam[last]
      <4>. HIDE DEF last
      <4>. QED
        BY <1>2, <3>3
    <3>. QED
      BY <3>1, <3>4
  <2>. QED
    BY <2>2, <2>3
<1>. QED
  BY <1>2, <1>3, <1>4, <1>5

-----------------------------------------------------------------------------
(* Type correctness. *)

\* What the move takes of a segment has wires.
LEMMA MovedHasWires ==
  ASSUME NEW seg \in Seq(FamilyOp), NEW i \in 1 .. Len(Moved(seg))
  PROVE  Moved(seg)[i] \in FamilyOp /\ HasWires(Moved(seg)[i])
<1>. DEFINE parts == [j \in 1 .. Len(seg) |-> MovedOf(seg[j])]
<1>1. parts \in Seq(Seq(FamilyOp)) /\ Moved(seg) = FlattenSeq(parts) /\ Moved(seg) \in Seq(FamilyOp)
  BY SegmentType DEF Moved
<1>2. Len(parts) = Len(seg) /\ \A k \in 1 .. Len(seg) : parts[k] = MovedOf(seg[k])
  OBVIOUS
<1>. HIDE DEF parts
<1>3. \A j \in 1 .. Len(FlattenSeq(parts)) :
        \E k \in 1 .. Len(parts) : \E m \in 1 .. Len(parts[k]) : FlattenSeq(parts)[j] = parts[k][m]
  BY <1>1, FlattenElements
<1>4. PICK k \in 1 .. Len(parts) : \E m \in 1 .. Len(parts[k]) : Moved(seg)[i] = parts[k][m]
  BY ZenonT(60), <1>1, <1>3
<1>5. PICK m \in 1 .. Len(MovedOf(seg[k])) : Moved(seg)[i] = MovedOf(seg[k])[m]
  BY <1>2, <1>4
<1>. DEFINE op == seg[k]
<1>6. op \in FamilyOp
  BY <1>2
<1>7. Splits(op)
  <2>1. CASE ~Splits(op)
    <3>1. MovedOf(op) = <<>> /\ Len(<<>>) = 0
      BY <2>1 DEF MovedOf, MovesWhole
    <3>. QED
      BY <1>5, <3>1
  <2>. QED
    BY <2>1
<1>8. HasWires(op) /\ HasWires(WithWires(op, PartOf(op, TRUE)))
  <2>1. HasWires(op)
    BY <1>7 DEF Splits
  <2>. HIDE DEF op
  <2>2. HasWires(WithWires(op, PartOf(op, TRUE)))
    BY <1>6, <2>1, PartIsOp
  <2>. QED
    BY <2>1, <2>2
<1>9. MovedOf(op) = <<op>> \/ MovedOf(op) = <<WithWires(op, PartOf(op, TRUE))>>
  BY <1>7 DEF MovedOf
<1>10. HasWires(MovedOf(op)[m])
  <2>1. PICK x : MovedOf(op) = <<x>> /\ HasWires(x)
    BY <1>8, <1>9
  <2>2. Len(<<x>>) = 1 /\ <<x>>[1] = x
    OBVIOUS
  <2>3. m \in 1 .. 1
    BY <1>5, <2>1, <2>2
  <2>. QED
    BY <2>1, <2>2, <2>3
<1>11. Moved(seg)[i] \in FamilyOp
  BY <1>1
<1>. QED
  BY <1>5, <1>10, <1>11

\* The ops that move are ops with wires, each of one cold segment's.
LEMMA MovedOpsHaveWires ==
  ASSUME family \in Families
  PROVE  /\ MovedOps \in Seq(FamilyOp)
         /\ \A i \in 1 .. Len(MovedOps) : HasWires(MovedOps[i])
         /\ \A k \in Cold : \A i \in 1 .. Len(Moved(family[k])) :
              \E j \in 1 .. Len(MovedOps) : MovedOps[j] = Moved(family[k])[i]
         /\ \A j \in 1 .. Len(MovedOps) : \E k \in Cold : Moved(family[k]) # <<>>
<1>. DEFINE n == Len(family) - 1
            segs == [k \in 1 .. n |-> Moved(family[k])]
<1>1. n \in Nat /\ Cold = 1 .. n /\ \A k \in 1 .. n : k \in 1 .. Len(family) /\ family[k] \in Seq(FamilyOp)
  <2>1. family \in Seq(Seq(FamilyOp)) /\ Len(family) \in Nat /\ Len(family) # 0
    BY DEF Families
  <2>. QED
    BY <2>1 DEF Cold
<1>. HIDE DEF n
<1>2. segs \in Seq(Seq(FamilyOp)) /\ Len(segs) = n /\ \A k \in 1 .. n : segs[k] = Moved(family[k])
  <2>1. \A k \in 1 .. n : Moved(family[k]) \in Seq(FamilyOp)
    BY <1>1, SegmentType
  <2>. QED
    BY <1>1, <2>1
<1>3. MovedOps = FlattenSeq(segs)
  BY <1>1 DEF MovedOps
<1>. HIDE DEF segs
<1>4. /\ FlattenSeq(segs) \in Seq(FamilyOp)
      /\ \A k \in 1 .. Len(segs) : \A i \in 1 .. Len(segs[k]) :
              \E j \in 1 .. Len(FlattenSeq(segs)) : FlattenSeq(segs)[j] = segs[k][i]
      /\ \A j \in 1 .. Len(FlattenSeq(segs)) :
              \E k \in 1 .. Len(segs) : \E i \in 1 .. Len(segs[k]) : FlattenSeq(segs)[j] = segs[k][i]
  BY ZenonT(60), <1>2, FlattenLaws, FlattenElements
<1>5. ASSUME NEW j \in 1 .. Len(MovedOps)
      PROVE  HasWires(MovedOps[j]) /\ \E k \in Cold : Moved(family[k]) # <<>>
  <2>0. PICK k \in 1 .. Len(segs) : \E i \in 1 .. Len(segs[k]) : MovedOps[j] = segs[k][i]
    BY <1>3, <1>4
  <2>1. k \in 1 .. n /\ \E i \in 1 .. Len(Moved(family[k])) : MovedOps[j] = Moved(family[k])[i]
    <3>1. k \in 1 .. n /\ segs[k] = Moved(family[k])
      BY <1>2
    <3>. QED
      BY <2>0, <3>1
  <2>2. PICK i \in 1 .. Len(Moved(family[k])) : MovedOps[j] = Moved(family[k])[i]
    BY <2>1
  <2>. DEFINE seg == family[k]
  <2>3. HasWires(Moved(seg)[i])
    <3>1. seg \in Seq(FamilyOp) /\ i \in 1 .. Len(Moved(seg))
      BY <1>1, <2>1
    <3>. HIDE DEF seg
    <3>. QED
      BY <3>1, MovedHasWires
  <2>4. Moved(family[k]) # <<>>
    <3>1. Len(<<>>) = 0
      OBVIOUS
    <3>. QED
      BY <2>2, <3>1
  <2>5. k \in Cold
    BY <1>1, <2>1
  <2>6. HasWires(MovedOps[j])
    BY <2>2, <2>3
  <2>. QED
    BY <2>4, <2>5, <2>6
<1>6. ASSUME NEW k \in Cold, NEW i \in 1 .. Len(Moved(family[k]))
      PROVE  \E j \in 1 .. Len(MovedOps) : MovedOps[j] = Moved(family[k])[i]
  <2>1. k \in 1 .. Len(segs) /\ segs[k] = Moved(family[k])
    BY <1>1, <1>2
  <2>2. \E j \in 1 .. Len(FlattenSeq(segs)) : FlattenSeq(segs)[j] = segs[k][i]
    BY <1>4, <2>1
  <2>3. FlattenSeq(segs) = MovedOps
    BY <1>3
  <2>. QED
    BY <2>1, <2>2, <2>3
<1>. QED
  BY <1>3, <1>4, <1>5, <1>6

\* The op a live gesture lands.
BodyOf(now, b) == IF b.verb = "curate" THEN [b EXCEPT !.wires = Delta(now, @)] ELSE Planned(now, b)

\* What is left to add of wires are wires, and a live op is an op.
LEMMA LiveOpType ==
  ASSUME NEW now \in Graph, NEW b \in Body \cup Curation, NEW ts \in Time
  PROVE  /\ [body |-> BodyOf(now, b), ts |-> ts] \in FamilyOp
         /\ BodyOf(now, b).verb = b.verb
         /\ b.verb = "extend" => b \in Wires /\ BodyOf(now, b) = Delta(now, b)
         /\ b.verb \notin {"extend", "curate"} => BodyOf(now, b) = b
         /\ b.verb = "curate" => /\ b \in Curation /\ BodyOf(now, b).wires = Delta(now, b.wires)
                                 /\ BodyOf(now, b).nodes = b.nodes /\ BodyOf(now, b).edges = b.edges
<1>0. ASSUME NEW w \in Wires
      PROVE  Delta(now, w) \in Wires
  <2>1. [n \in NodeId |-> IF n \in AbsentNodes(now, w) THEN w.nodes[n] ELSE Absent]
          \in [NodeId -> Hash \cup {Absent}]
    BY DEF Wires
  <2>2. AbsentEdges(now, w) \in SUBSET EdgeId
    BY DEF AbsentEdges, Wires
  <2>. QED
    BY <2>1, <2>2 DEF Delta, Wires
<1>1. CASE b.verb = "curate"
  <2>1. b \in Curation
    BY <1>1 DEF Body, Wires, Merge, Drop
  <2>. DEFINE d == Delta(now, b.wires)
  <2>2. BodyOf(now, b) = [b EXCEPT !.wires = d] /\ d \in Wires
    BY <1>0, <1>1, <2>1 DEF BodyOf, Curation
  <2>. HIDE DEF d
  <2>3. BodyOf(now, b) \in Curation /\ BodyOf(now, b).wires = d
        /\ BodyOf(now, b).nodes = b.nodes /\ BodyOf(now, b).edges = b.edges
        /\ BodyOf(now, b).verb = "curate"
    BY <2>1, <2>2 DEF Curation
  <2>. QED
    BY <1>1, <2>1, <2>3 DEF FamilyOp, d
<1>2. CASE b.verb # "curate"
  <2>1. b \in Body
    BY <1>2 DEF Curation
  <2>2. BodyOf(now, b) = Planned(now, b) /\ Planned(now, b) \in Body
    BY <1>2, <2>1, PlannedType DEF BodyOf
  <2>3. b.verb = "extend" => b \in Wires
    BY <2>1 DEF Body, Wires, Merge, Drop
  <2>4. Planned(now, b).verb = b.verb
    BY DEF Planned, Delta
  <2>. QED
    BY <1>2, <2>2, <2>3, <2>4 DEF FamilyOp, Planned
<1>. QED
  BY <1>1, <1>2

\* Where a step starts: the family, its records, and the places in it.
LEMMA Here ==
  ASSUME TypeOK
  PROVE  /\ family \in Families /\ family \in Seq(Seq(FamilyOp)) /\ Len(family) \in Nat \ {0}
         /\ Records = FlattenSeq(family) /\ Records \in Seq(FamilyOp)
         /\ cursor \in Place /\ Moving \in SUBSET NodeId /\ graph \in Graph
         /\ Found(cursor) <=> FoundIn(family, cursor)
         /\ Found(cursor) => /\ Past(cursor) = PastIn(family, cursor)
                             /\ Past(cursor) \in Seq(FamilyOp) /\ Healed \in Graph
         /\ ReplayOf(Records) \in Graph
         /\ Len(log) \in Nat
<1>1. /\ family \in Families /\ family \in Seq(Seq(FamilyOp)) /\ Len(family) \in Nat \ {0}
      /\ cursor \in Place /\ graph \in Graph /\ log \in Seq(FamilyOp) /\ Len(log) \in Nat
      /\ retired \subseteq NodeId /\ pending \subseteq NodeId
  BY DEF TypeOK, Families, Place
<1>2. Records = FlattenSeq(family) /\ Records \in Seq(FamilyOp)
  BY <1>1, FlattenLaws DEF Records
<1>3. Found(cursor) <=> FoundIn(family, cursor)
  BY DEF Found, FoundIn
<1>4. Past(cursor) = PastIn(family, cursor)
  BY <1>2 DEF Past, PastIn
<1>5. ASSUME FoundIn(family, cursor)
      PROVE  PastIn(family, cursor) \in Seq(FamilyOp)
  <2>1. CASE cursor = Origin
    BY <1>2, <2>1 DEF PastIn
  <2>2. CASE cursor # Origin
    <3>. DEFINE k == cursor.segment
                x == family[k]
                m == Len(cursor.before)
    <3>1. k \in 1 .. Len(family) /\ x \in Seq(FamilyOp) /\ m \in Nat /\ m <= Len(x)
      BY <1>1, <1>5, <2>2 DEF FoundIn, Place, IsPrefix
    <3>2. PastIn(family, cursor) =
            SubSeq(x, m + 1, Len(x)) \o FlattenSeq(SubSeq(family, k + 1, Len(family)))
      BY <2>2 DEF PastIn
    <3>. HIDE DEF k, x, m
    <3>3. SubSeq(x, m + 1, Len(x)) \in Seq(FamilyOp)
      BY <3>1
    <3>4. FlattenSeq(SubSeq(family, k + 1, Len(family))) \in Seq(FamilyOp)
      BY <1>1, <3>1, FlattenAround, FlattenLaws
    <3>. QED
      BY <3>2, <3>3, <3>4
  <2>. QED
    BY <2>1, <2>2
<1>6. Found(cursor) => Healed \in Graph
  BY <1>1, <1>3, <1>4, <1>5, FamilyLaws DEF Healed
<1>7. ReplayOf(Records) \in Graph
  BY <1>2, EmptyGraphType, FamilyLaws DEF ReplayOf
<1>. QED
  BY <1>1, <1>2, <1>3, <1>4, <1>5, <1>6, <1>7 DEF Moving

\* The tail's last op is a domain's op.
DropStands ==
  LET tail == family[Len(family)]
  IN  /\ tail # <<>>
      /\ Last(tail).body.verb = "curate" /\ Last(tail).body.wires = NoWire

\* A compaction applies the op that it has landed, rewrites the segments that it found,
\* all of them cold, and moves while there is one left.
ShapeOK ==
  /\ TypeOK
  /\ pc \in {"apply", "advance"} => DropStands
  /\ pc \in {"idle", "open", "scan"} => todo = {}
  /\ pc = "move" => todo # {}
  /\ todo \subseteq Cold

\* A rewrite is of one of those segments, and of no other.
LEMMA RewriteStep ==
  ASSUME ShapeOK, Rewrite
  PROVE  \E k \in todo :
           /\ k \in Cold /\ k \in 1 .. Len(family) /\ k # Len(family)
           /\ family[k] \in Seq(FamilyOp) /\ Kept(family[k]) \in Seq(FamilyOp)
           /\ family' = [family EXCEPT ![k] = Kept(@)]
           /\ family' \in Families /\ Len(family') = Len(family)
           /\ family'[k] = Kept(family[k])
           /\ \A j \in 1 .. Len(family) : j # k => family'[j] = family[j]
           /\ todo' = todo \ {k}
<1>. DEFINE k == CHOOSE j \in todo : \A i \in todo : j <= i
            n == Len(family)
<1>1. /\ family \in Families /\ family \in Seq(Seq(FamilyOp)) /\ n \in Nat \ {0} /\ Cold = 1 .. n - 1
      /\ todo \in SUBSET (1 .. n - 1) /\ todo # {}
  BY Here DEF ShapeOK, Rewrite, Cold
<1>2. \E j \in todo : \A i \in todo : j <= i
  <2>. HIDE DEF n
  <2>1. todo \in SUBSET Nat
    BY <1>1
  <2>. QED
    BY <1>1, <2>1, LeastNatural
<1>3. k \in todo
  BY <1>2
<1>4. family' = [family EXCEPT ![k] = Kept(@)] /\ todo' = todo \ {k}
  BY DEF Rewrite
<1>. HIDE DEF k
<1>5. k \in 1 .. n - 1 /\ k \in 1 .. n /\ k # n
  <2>. HIDE DEF n
  <2>. QED
    BY <1>1, <1>3
<1>. DEFINE seg == family[k]
<1>6. seg \in Seq(FamilyOp)
  BY <1>1, <1>5
<1>7. Kept(seg) \in Seq(FamilyOp) /\ family' = [family EXCEPT ![k] = Kept(seg)]
  <2>1. Kept(seg) \in Seq(FamilyOp)
    <3>. HIDE DEF seg
    <3>. QED
      BY <1>6, SegmentType
  <2>. QED
    BY <1>4, <2>1
<1>. DEFINE ks == Kept(seg)
<1>. HIDE DEF ks
<1>8. ks \in Seq(FamilyOp) /\ family' = [family EXCEPT ![k] = ks]
  BY <1>7 DEF ks
<1>9. /\ family' \in Seq(Seq(FamilyOp)) /\ Len(family') = n /\ family'[k] = ks
      /\ \A j \in 1 .. n : j # k => family'[j] = family[j]
  BY <1>1, <1>5, <1>8
<1>10. family' \in Families
  <2>1. Len(<<>>) = 0
    OBVIOUS
  <2>. HIDE DEF n
  <2>. QED
    BY <1>1, <1>9, <2>1 DEF Families
<1>. QED
  BY <1>1, <1>3, <1>4, <1>5, <1>6, <1>7, <1>9, <1>10 DEF ks

\* The domain's op is a curation that brings nothing.
LEMMA DropOpType ==
  ASSUME TypeOK
  PROVE  /\ DropOp \in FamilyOp /\ DropOp.body.verb = "curate" /\ DropOp.body.wires = NoWire
         /\ HasWires(DropOp) /\ Wire(DropOp) = NoWire /\ NoWires(NoWire)
         /\ Brings(DropOp) = {} /\ BringsEdges(DropOp) = {}
         /\ Drops(DropOp) = retired
         /\ domain = "wires" => DropsEdges(DropOp) =
              UNION {Wire(MovedOps[i]).edges : i \in 1 .. Len(MovedOps)}
<1>. DEFINE named == IF domain = "wires"
                       THEN UNION {Wire(MovedOps[i]).edges : i \in 1 .. Len(MovedOps)} ELSE {}
<1>1. named \in SUBSET EdgeId
  <2>1. MovedOps \in Seq(FamilyOp) /\ \A i \in 1 .. Len(MovedOps) : HasWires(MovedOps[i])
    BY Here, MovedOpsHaveWires
  <2>2. ASSUME NEW i \in 1 .. Len(MovedOps)
        PROVE  Wire(MovedOps[i]).edges \in SUBSET EdgeId
    <3>. DEFINE op == MovedOps[i]
    <3>1. op \in FamilyOp /\ HasWires(op)
      BY <2>1
    <3>. HIDE DEF op
    <3>2. Wire(op) \in Wires
      BY <3>1, FamilyOpByVerb
    <3>3. Wire(op).edges \in SUBSET EdgeId
      BY <3>2 DEF Wires
    <3>. QED
      BY <3>3 DEF op
  <2>. QED
    BY <2>2
<1>2. NoWire \in Wires
  BY DEF NoWire, Wires
<1>3. /\ DropOp = [body |-> [verb |-> "curate", wires |-> NoWire, nodes |-> retired, edges |-> named],
                   ts |-> Len(log) + 1]
      /\ Len(log) + 1 \in Time /\ retired \in SUBSET NodeId
  BY Here DEF DropOp, TypeOK, Time
<1>. HIDE DEF named
<1>4. DropOp.body \in Curation
  BY <1>1, <1>2, <1>3 DEF Curation
<1>5. DropOp \in FamilyOp
  BY <1>3, <1>4 DEF FamilyOp
<1>6. NoWires(NoWire) /\ Wired(NoWire) = {} /\ NoWire.edges = {}
  BY DEF NoWires, NoWire, Wired
<1>7. HasWires(DropOp) /\ Wire(DropOp) = NoWire
  BY <1>3 DEF HasWires, Wire
<1>. QED
  BY <1>3, <1>5, <1>6, <1>7 DEF Brings, BringsEdges, Drops, DropsEdges, named

\* An op that lands in the tail of this family.
LEMMA LandedHere ==
  ASSUME TypeOK, NEW op \in FamilyOp, family' = Landed(op)
  PROVE  /\ family' = LandedIn(family, op) /\ family' \in Families /\ Len(family') = Len(family)
         /\ family'[Len(family)] = Append(family[Len(family)], op)
         /\ \A k \in 1 .. Len(family) - 1 : family'[k] = family[k]
         /\ Records' = Append(Records, op)
<1>1. family \in Families /\ Records = FlattenSeq(family) /\ family' = LandedIn(family, op)
  BY Here DEF Landed, LandedIn
<1>2. Records' = FlattenSeq(family')
  BY DEF Records
<1>. QED
  BY SMTT(30), <1>1, <1>2, LandedRecords

\* It is the tail's last, then.
LEMMA LandedInTail ==
  ASSUME TypeOK, NEW op \in FamilyOp, family' = Landed(op)
  PROVE  /\ family'[Len(family')] \in Seq(FamilyOp) /\ family'[Len(family')] # <<>>
         /\ Last(family'[Len(family')]) = op
<1>1. family'[Len(family')] = Append(family[Len(family)], op)
  BY LandedHere
<1>. DEFINE tail == family[Len(family)]
<1>2. tail \in Seq(FamilyOp)
  BY Here
<1>. HIDE DEF tail
<1>3. Append(tail, op) \in Seq(FamilyOp) /\ Append(tail, op) # <<>> /\ Last(Append(tail, op)) = op
  BY <1>2 DEF Last
<1>. QED
  BY <1>1, <1>3 DEF tail

\* The ids that a standing drop removes are node ids.
LEMMA JournaledAreIds ==
  ASSUME TypeOK
  PROVE  JournaledIds \in SUBSET NodeId
<1>1. Records \in Seq(FamilyOp)
  BY Here
<1>2. ASSUME NEW i \in 1 .. Len(Records), Records[i].body.verb \in {"curate", "delete"}
      PROVE  Records[i].body.nodes \in SUBSET NodeId
  <2>1. Records[i] \in FamilyOp
    BY <1>1
  <2>. QED
    BY <1>2, <2>1, FamilyOpByVerb
<1>. QED
  BY <1>2 DEF JournaledIds

\* That shape is kept.
LEMMA ShapeKept == Spec => []ShapeOK
<1>1. Init => ShapeOK
  <2>. SUFFICES ASSUME Init PROVE ShapeOK
    OBVIOUS
  <2>1. <<>> \in Seq(FamilyOp) /\ <<<<>>>> \in Seq(Seq(FamilyOp)) /\ <<<<>>>> # <<>>
    OBVIOUS
  <2>. QED
    BY <2>1, EmptyGraphType DEF Init, ShapeOK, TypeOK, Origin, DomainKind
<1>2. ShapeOK /\ [Next]_vars => ShapeOK'
  <2>. SUFFICES ASSUME ShapeOK, [Next]_vars PROVE ShapeOK'
    OBVIOUS
  <2>. USE DEF ShapeOK
  <2>1. TypeOK
    OBVIOUS
  <2>0. /\ family \in Families /\ family \in Seq(Seq(FamilyOp)) /\ Len(family) \in Nat \ {0}
        /\ cursor \in Place /\ graph \in Graph /\ ReplayOf(Records) \in Graph
        /\ EndOf(family) \in Place /\ Len(log) \in Nat
        /\ Place = [segment: Nat, before: Seq(FamilyOp)]
        /\ Cold = 1 .. Len(family) - 1 /\ Cold' = 1 .. Len(family') - 1
    BY <2>1, Here, EndFound DEF Place, Cold
  <2>2. ASSUME NEW b \in Bodies, LiveGesture(b)
        PROVE  ShapeOK'
    <3>. DEFINE op == [body |-> BodyOf(Healed, b), ts |-> Len(log) + 1]
    <3>1. Healed \in Graph
      BY <2>1, <2>2, Here DEF LiveGesture
    <3>2. op \in FamilyOp
      <4>1. b \in Body \cup Curation /\ Len(log) + 1 \in Time
        BY <2>0, CompactedBodies DEF Time
      <4>. QED
        BY <3>1, <4>1, LiveOpType
    <3>3. /\ family' = Landed(op) /\ log' = Append(log, op) /\ pc = "idle"
          /\ \/ graph' = Apply(Healed, op) /\ cursor' = EndOf(family')
             \/ graph' = Healed /\ cursor' = EndOf(family)
          /\ UNCHANGED <<archive, pc, run, todo, started, faults>>
      BY <2>2 DEF LiveGesture, BodyOf
    <3>. HIDE DEF op
    <3>4. family' \in Families /\ Len(family') = Len(family)
      BY <2>1, <3>2, <3>3, LandedHere
    <3>5. EndOf(family') \in Place
      BY <3>4, EndFound
    <3>6. graph' \in Graph /\ cursor' \in Place
      BY <2>0, <3>1, <3>2, <3>3, <3>5, FamilyRows
    <3>7. log' \in Seq(FamilyOp)
      BY <3>2, <3>3 DEF TypeOK
    <3>. QED
      BY <2>0, <3>3, <3>4, <3>6, <3>7 DEF TypeOK, run, Families
  <2>3. CASE Rebuild
    BY <2>0, <2>3 DEF Rebuild, TypeOK, run
  <2>4. ASSUME NEW ids \in Retire, NEW kind \in Pending, NEW removes \in Domain,
               Open(ids, kind, removes)
        PROVE  ShapeOK'
    <3>1. Healed \in Graph
      BY <2>1, <2>4, Here DEF Open
    <3>2. PendingIds(kind, Healed) \in SUBSET NodeId
      <4>1. JournaledIds \in SUBSET NodeId
        BY <2>1, JournaledAreIds
      <4>2. kind \in {"none", "removed", "journaled"}
        BY CompactedCallers DEF PendingKind
      <4>3. /\ kind = "none" => PendingIds(kind, Healed) = {}
            /\ kind = "journaled" => PendingIds(kind, Healed) = JournaledIds
            /\ kind = "removed" => PendingIds(kind, Healed) =
                                     {n \in JournaledIds : Healed.node[n] = Absent}
        BY DEF PendingIds
      <4>. QED
        BY <4>1, <4>2, <4>3
    <3>3. ids \in SUBSET NodeId /\ removes \in DomainKind
      BY CompactedCallers
    <3>. QED
      BY SMTT(30), <2>0, <2>4, <3>1, <3>2, <3>3 DEF Open, TypeOK
  <2>5. CASE Rotate
    <3>1. CASE family' = Append(family, <<>>)
      <4>1. family' \in Families /\ Len(family') = Len(family) + 1
        BY <2>0, <3>1, Rotated
      <4>. QED
        BY <2>0, <2>5, <4>1 DEF Rotate, TypeOK, Families, store, run
    <3>2. CASE family' = family
      BY <2>0, <2>5, <3>2 DEF Rotate, TypeOK, store, run
    <3>. QED
      BY <2>5, <3>1, <3>2 DEF Rotate
  <2>6. CASE ScanRefused
    BY <2>0, <2>6 DEF ScanRefused, Release, TypeOK, store, DomainKind
  <2>7. CASE Scan
    BY <2>0, <2>7 DEF Scan, TypeOK, store, run
  <2>8. CASE AppendDrop
    <3>1. DropOp \in FamilyOp
      BY <2>1, DropOpType
    <3>2. family' \in Families /\ Len(family') = Len(family)
      BY <2>1, <2>8, <3>1, LandedHere DEF AppendDrop
    <3>3. log' \in Seq(FamilyOp)
      BY <2>8, <3>1 DEF AppendDrop, TypeOK
    <3>4. DropStands'
      BY <2>1, <2>8, <3>1, LandedInTail, DropOpType DEF AppendDrop, DropStands
    <3>. QED
      BY <2>0, <2>8, <3>2, <3>3, <3>4 DEF AppendDrop, TypeOK, Families, store, run
  <2>9. CASE ApplyDrop
    <3>. DEFINE tail == family[Len(family)]
    <3>1. Last(tail) \in FamilyOp
      <4>1. tail \in Seq(FamilyOp) /\ tail # <<>>
        BY <2>0, <2>9 DEF ApplyDrop, DropStands
      <4>. HIDE DEF tail
      <4>. QED
        BY <4>1 DEF Last
    <3>2. graph' \in Graph
      <4>. HIDE DEF tail
      <4>1. Apply(graph, Last(tail)) \in Graph
        BY <2>0, <3>1, FamilyRows
      <4>. QED
        BY <2>9, <4>1 DEF ApplyDrop, tail
    <3>3. DropStands'
      BY <2>9 DEF ApplyDrop, DropStands
    <3>. QED
      BY <2>0, <2>9, <3>2, <3>3 DEF ApplyDrop, TypeOK, run
  <2>10. CASE AdvanceDrop
    BY <2>0, <2>10 DEF AdvanceDrop, TypeOK, run
  <2>11. CASE Archive
    <3>1. MovedOps \in Seq(FamilyOp)
      BY <2>0, MovedOpsHaveWires
    <3>2. archive' \in Seq(FamilyOp)
      BY <2>11, <3>1 DEF Archive, TypeOK
    <3>. QED
      BY <2>0, <2>11, <3>2 DEF Archive, TypeOK, store, run
  <2>12. CASE NothingToMove
    BY <2>0, <2>12 DEF NothingToMove, Release, TypeOK, store, DomainKind
  <2>13. CASE Rewrite
    <3>1. PICK k \in todo :
            family' \in Families /\ Len(family') = Len(family) /\ todo' = todo \ {k}
      BY <2>13, RewriteStep
    <3>2. pc' = (IF todo' = {} THEN "restamp" ELSE "move")
      BY <2>13 DEF Rewrite
    <3>. QED
      BY <2>0, <2>13, <3>1, <3>2 DEF Rewrite, TypeOK, Families, store, run
  <2>14. CASE Restamp
    BY <2>0, <2>14 DEF Restamp, Release, TypeOK, DomainKind
  <2>15. CASE Crash
    <3>1. archive' \in Seq(FamilyOp)
      <4>1. CASE archive' = archive
        BY <4>1 DEF TypeOK
      <4>2. ASSUME NEW i \in 1 .. Len(MovedOps), archive' = archive \o SubSeq(MovedOps, 1, i)
            PROVE  archive' \in Seq(FamilyOp)
        <5>1. MovedOps \in Seq(FamilyOp)
          BY <2>0, MovedOpsHaveWires
        <5>2. SubSeq(MovedOps, 1, i) \in Seq(FamilyOp)
          BY <5>1
        <5>. QED
          BY <4>2, <5>2 DEF TypeOK
      <4>. QED
        BY <2>15, <4>1, <4>2 DEF Crash
    <3>. QED
      BY <2>0, <2>15, <3>1 DEF Crash, Release, TypeOK, store, DomainKind
  <2>16. CASE UNCHANGED vars
    BY <2>0, <2>16 DEF vars, store, run, TypeOK, DropStands
  <2>. QED
    BY <2>2, <2>3, <2>4, <2>5, <2>6, <2>7, <2>8, <2>9, <2>10, <2>11, <2>12, <2>13, <2>14, <2>15,
       <2>16 DEF Next, Compact
<1>. QED
  BY <1>1, <1>2, PTL DEF Spec

\* TypeOK: the segments and the archive hold ops, the db holds a graph, its cursor is a
\* place, and a compaction moves ids and rewrites segments that are there (compact.py,
\* compact_family).
THEOREM TypeCorrect == Spec => []TypeOK
<1>1. ShapeOK => TypeOK
  BY DEF ShapeOK
<1>. QED
  BY <1>1, ShapeKept, PTL

-----------------------------------------------------------------------------
(* Where the cursor stands. *)

\* Rewriting leaves no more ops than there were.
LEMMA KeptShorter ==
  /\ Kept(<<>>) = <<>>
  /\ \A seg \in Seq(FamilyOp) : Len(Kept(seg)) <= Len(seg)
<1>. DEFINE S == {t \in Seq(FamilyOp) : Len(Kept(t)) <= Len(t)}
<1>1. Kept(<<>>) = <<>>
  <2>1. [i \in 1 .. Len(<<>>) |-> KeptOf(<<>>[i])] = <<>>
    OBVIOUS
  <2>. QED
    BY <2>1 DEF Kept, FlattenSeq
<1>2. <<>> \in S
  <2>1. <<>> \in Seq(FamilyOp) /\ Len(<<>>) = 0
    OBVIOUS
  <2>. QED
    BY <1>1, <2>1
<1>3. ASSUME NEW t \in Seq(FamilyOp), NEW op \in FamilyOp, t \in S
      PROVE  Append(t, op) \in S
  <2>1. Kept(Append(t, op)) = Kept(t) \o KeptOf(op) /\ Kept(t) \in Seq(FamilyOp)
    BY KeptAppend, SegmentType
  <2>2. KeptOf(op) \in Seq(FamilyOp) /\ Len(KeptOf(op)) <= 1
    <3>1. Len(<<>>) = 0 /\ \A x : Len(<<x>>) = 1
      OBVIOUS
    <3>2. \/ KeptOf(op) = <<>> \/ KeptOf(op) = <<op>>
          \/ KeptOf(op) = <<WithWires(op, PartOf(op, FALSE))>>
      BY DEF KeptOf
    <3>3. Len(KeptOf(op)) = 0 \/ Len(KeptOf(op)) = 1
      BY <3>1, <3>2
    <3>4. KeptOf(op) \in Seq(FamilyOp)
      BY KeptType
    <3>. DEFINE m == Len(KeptOf(op))
    <3>5. m = 0 \/ m = 1
      BY <3>3
    <3>. HIDE DEF m
    <3>6. m <= 1
      BY <3>5
    <3>. QED
      BY <3>4, <3>6 DEF m
  <2>3. Len(Kept(t)) <= Len(t)
    BY <1>3
  <2>. DEFINE a == Kept(t)
              b == KeptOf(op)
  <2>4. Len(a \o b) = Len(a) + Len(b) /\ Len(a) \in Nat /\ Len(b) \in Nat /\ Len(b) <= 1
        /\ Len(a) <= Len(t)
    <3>1. a \in Seq(FamilyOp) /\ b \in Seq(FamilyOp) /\ Len(b) <= 1 /\ Len(a) <= Len(t)
      BY <2>1, <2>2, <2>3
    <3>. HIDE DEF a, b
    <3>. QED
      BY <3>1
  <2>. HIDE DEF a, b
  <2>5. Len(Append(t, op)) = Len(t) + 1 /\ Append(t, op) \in Seq(FamilyOp) /\ Len(t) \in Nat
    OBVIOUS
  <2>6. Len(a \o b) <= Len(Append(t, op))
    BY <2>4, <2>5
  <2>. QED
    BY <2>1, <2>5, <2>6 DEF a, b
<1>4. Seq(FamilyOp) \subseteq S
  <2>. HIDE DEF S
  <2>. QED
    BY <1>2, <1>3, SeqInduction
<1>. QED
  BY <1>1, <1>4

\* The last segment that holds a record is the end's.
LEMMA EndIs ==
  ASSUME NEW fam \in Families, NEW k \in 1 .. Len(fam), fam[k] # <<>>,
         \A j \in 1 .. Len(fam) : fam[j] # <<>> => j <= k
  PROVE  EndOf(fam) = [segment |-> k, before |-> fam[k]]
<1>1. PICK m \in 1 .. Len(fam) :
        /\ fam[m] # <<>> /\ \A j \in 1 .. Len(fam) : fam[j] # <<>> => j <= m
        /\ EndOf(fam) = [segment |-> m, before |-> fam[m]]
  BY EndParts
<1>2. m <= k /\ k <= m /\ m \in Int /\ k \in Int
  BY <1>1
<1>3. m = k
  BY <1>2
<1>. QED
  BY <1>1, <1>3

\* The cursor stands at the end of the family while a compaction runs, before its op
\* while that is landed and not yet passed, and nowhere once the segment it stood in
\* has been rewritten.
CursorOK ==
  /\ pc \in {"open", "scan", "append", "archive"} => cursor = EndOf(family)
  /\ pc \in {"apply", "advance"} =>
       Found(cursor) /\ Past(cursor) = <<Last(family[Len(family)])>>
  /\ pc \in {"move", "restamp"} =>
       cursor = EndOf(family) \/ (~Found(cursor) /\ cursor.segment \notin todo)

\* A rewrite leaves it there, or takes its place away.
LEMMA RewriteCursor ==
  ASSUME ShapeOK, CursorOK, Rewrite
  PROVE  cursor = EndOf(family') \/ (~FoundIn(family', cursor) /\ cursor.segment \notin todo')
<1>1. PICK k \in todo :
        /\ k \in Cold /\ k \in 1 .. Len(family) /\ k # Len(family)
        /\ family[k] \in Seq(FamilyOp) /\ Kept(family[k]) \in Seq(FamilyOp)
        /\ family' = [family EXCEPT ![k] = Kept(@)]
        /\ family' \in Families /\ Len(family') = Len(family)
        /\ family'[k] = Kept(family[k])
        /\ \A j \in 1 .. Len(family) : j # k => family'[j] = family[j]
        /\ todo' = todo \ {k}
  BY RewriteStep
<1>. DEFINE seg == family[k]
            n == Len(family)
<1>2. /\ family \in Families /\ family \in Seq(Seq(FamilyOp)) /\ n \in Nat
      /\ cursor \in Place
  BY Here DEF ShapeOK
<1>3. Kept(seg) = seg => family' = family
  <2>1. [family EXCEPT ![k] = family[k]] = family
    BY <1>2
  <2>2. family' = [family EXCEPT ![k] = Kept(seg)]
    BY <1>1
  <2>. QED
    BY <2>1, <2>2
<1>4. seg = <<>> => Kept(seg) = seg
  BY KeptShorter
<1>5. CASE ~Found(cursor) /\ cursor.segment \notin todo
  <2>1. cursor # Origin /\ cursor.segment # k
    BY <1>5 DEF Found
  <2>2. cursor.segment \in 1 .. n => family'[cursor.segment] = family[cursor.segment]
    BY <1>1, <2>1
  <2>. QED
    BY <1>1, <1>5, <2>1, <2>2 DEF Found, FoundIn
<1>6. CASE cursor = EndOf(family)
  <2>1. CASE \A j \in 1 .. n : family[j] = <<>>
    BY <1>1, <1>3, <1>4, <1>6, <2>1
  <2>2. ASSUME NEW m \in 1 .. n, family[m] # <<>>,
               \A j \in 1 .. n : family[j] # <<>> => j <= m,
               EndOf(family) = [segment |-> m, before |-> family[m]]
        PROVE  cursor = EndOf(family') \/ (~FoundIn(family', cursor) /\ cursor.segment \notin todo')
    <3>1. CASE m # k
      <4>1. family'[m] = family[m]
        BY <1>1, <3>1
      <4>2. ASSUME NEW j \in 1 .. n, family'[j] # <<>>
            PROVE  j <= m
        <5>1. family[j] # <<>>
          BY <1>1, <1>4, <4>2
        <5>. QED
          BY <2>2, <5>1
      <4>3. EndOf(family') = [segment |-> m, before |-> family'[m]]
        BY <1>1, <2>2, <4>1, <4>2, EndIs
      <4>. QED
        BY <1>6, <2>2, <4>1, <4>3
    <3>2. CASE m = k
      <4>1. cursor.segment = k /\ cursor.before = seg /\ cursor # Origin
        <5>1. k # 0
          <6>1. k \in 1 .. n /\ n \in Nat
            BY <1>1, <1>2
          <6>. HIDE DEF n
          <6>. QED
            BY <6>1
        <5>. QED
          BY <1>6, <2>2, <3>2, <5>1 DEF Origin
      <4>2. CASE IsPrefix(seg, Kept(seg))
        <5>. DEFINE ks == Kept(seg)
        <5>1. /\ seg \in Seq(FamilyOp) /\ ks \in Seq(FamilyOp) /\ Len(ks) <= Len(seg)
              /\ Len(seg) <= Len(ks) /\ SubSeq(seg, 1, Len(seg)) = SubSeq(ks, 1, Len(seg))
          BY <1>1, <4>2, KeptShorter DEF IsPrefix
        <5>. HIDE DEF ks, seg
        <5>2. Len(ks) = Len(seg)
          BY <5>1
        <5>3. SubSeq(seg, 1, Len(seg)) = seg /\ SubSeq(ks, 1, Len(ks)) = ks
          BY <5>1
        <5>4. ks = seg
          BY <5>1, <5>2, <5>3
        <5>. QED
          BY <1>3, <1>6, <5>4 DEF ks, seg
      <4>3. CASE ~IsPrefix(seg, Kept(seg))
        BY <1>1, <4>1, <4>3 DEF FoundIn
      <4>. QED
        BY <4>2, <4>3
    <3>. QED
      BY <3>1, <3>2
  <2>. QED
    BY <1>2, <2>1, <2>2, EndParts
<1>. QED
  BY <1>5, <1>6 DEF CursorOK, Rewrite

\* The cursor is placed so at every step.
LEMMA CursorPlaced == Spec => []CursorOK
<1>1. Init => CursorOK
  BY DEF Init, CursorOK
<1>2. ShapeOK /\ ShapeOK' /\ CursorOK /\ [Next]_vars => CursorOK'
  <2>. SUFFICES ASSUME ShapeOK, ShapeOK', CursorOK, [Next]_vars PROVE CursorOK'
    OBVIOUS
  <2>1. TypeOK /\ TypeOK' /\ family \in Families
    BY Here DEF ShapeOK
  <2>2. ASSUME NEW b \in Bodies, LiveGesture(b)
        PROVE  CursorOK'
    BY <2>2 DEF LiveGesture, CursorOK
  <2>3. CASE Rebuild
    BY <2>3 DEF Rebuild, CursorOK
  <2>4. ASSUME NEW ids \in Retire, NEW kind \in Pending, NEW removes \in Domain,
               Open(ids, kind, removes)
        PROVE  CursorOK'
    <3>1. EndOf(family)' = EndOf(family)
      BY <2>4 DEF Open
    <3>. QED
      BY <2>4, <3>1 DEF Open, CursorOK
  <2>5. CASE Rotate
    <3>1. EndOf(family') = EndOf(family)
      BY <2>1, <2>5, Rotated DEF Rotate
    <3>. QED
      BY <2>5, <3>1 DEF Rotate, CursorOK, store
  <2>6. CASE ScanRefused
    BY <2>6 DEF ScanRefused, Release, CursorOK
  <2>7. CASE Scan
    BY <2>7 DEF Scan, CursorOK, store
  <2>8. CASE AppendDrop
    <3>1. DropOp \in FamilyOp /\ family' = Landed(DropOp) /\ cursor = EndOf(family)
          /\ cursor' = cursor /\ pc' = "apply"
      BY <2>1, <2>8, DropOpType DEF AppendDrop, CursorOK, store
    <3>2. Last(family'[Len(family')]) = DropOp /\ family' = LandedIn(family, DropOp)
      BY <2>1, <3>1, LandedInTail, LandedHere
    <3>3. EndOf(family) \in Place /\ FoundIn(family, EndOf(family)) /\ PastIn(family, EndOf(family)) = <<>>
      BY <2>1, EndFound
    <3>4. FoundIn(family', EndOf(family))
          /\ PastIn(family', EndOf(family)) = Append(PastIn(family, EndOf(family)), DropOp)
      BY <2>1, <3>1, <3>2, <3>3, LandedPast
    <3>5. Append(<<>>, DropOp) = <<DropOp>>
      OBVIOUS
    <3>6. /\ Found(cursor)' <=> FoundIn(family', cursor')
          /\ Past(cursor)' = PastIn(family', cursor')
      BY DEF Found, FoundIn, Past, PastIn, Records
    <3>7. Found(cursor)' /\ Past(cursor)' = <<Last(family[Len(family)])>>'
      BY <3>1, <3>2, <3>3, <3>4, <3>5, <3>6
    <3>. QED
      BY <3>1, <3>7 DEF CursorOK
  <2>9. CASE ApplyDrop
    <3>1. Found(cursor)' = Found(cursor) /\ Past(cursor)' = Past(cursor)
      BY <2>9 DEF ApplyDrop, Found, Past, Records
    <3>. QED
      BY <2>9, <3>1 DEF ApplyDrop, CursorOK
  <2>10. CASE AdvanceDrop
    <3>1. EndOf(family)' = EndOf(family)
      BY <2>10 DEF AdvanceDrop
    <3>. QED
      BY <2>10, <3>1 DEF AdvanceDrop, CursorOK
  <2>11. CASE Archive
    BY <2>11 DEF Archive, CursorOK, store
  <2>12. CASE NothingToMove
    BY <2>12 DEF NothingToMove, Release, CursorOK
  <2>13. CASE Rewrite
    <3>1. cursor = EndOf(family') \/ (~FoundIn(family', cursor) /\ cursor.segment \notin todo')
      BY <2>13, RewriteCursor
    <3>2. Found(cursor)' <=> FoundIn(family', cursor')
      BY DEF Found, FoundIn
    <3>3. cursor' = cursor /\ pc' \in {"move", "restamp"}
      BY <2>13 DEF Rewrite, store
    <3>. QED
      BY <3>1, <3>2, <3>3 DEF CursorOK
  <2>14. CASE Restamp
    BY <2>14 DEF Restamp, Release, CursorOK
  <2>15. CASE Crash
    BY <2>15 DEF Crash, Release, CursorOK
  <2>16. CASE UNCHANGED vars
    <3>1. Found(cursor)' = Found(cursor) /\ Past(cursor)' = Past(cursor)
      BY <2>16 DEF vars, store, Found, Past, Records
    <3>. QED
      BY <2>16, <3>1 DEF vars, store, CursorOK
  <2>. QED
    BY <2>2, <2>3, <2>4, <2>5, <2>6, <2>7, <2>8, <2>9, <2>10, <2>11, <2>12, <2>13, <2>14, <2>15,
       <2>16 DEF Next, Compact
<1>. QED
  BY <1>1, <1>2, ShapeKept, PTL DEF Spec

\* The cursor's place stays where every move has its op: what is rewritten is not the tail
\* that the op stands in.
FoundOK ==
  /\ Found(cursor) /\ pending = {}
  /\ pc = "archive" /\ todo # {} => family[Len(family)] # <<>>
  /\ pc \in {"move", "restamp"} => cursor = EndOf(family) /\ family[Len(family)] # <<>>

\* The end of a family whose tail holds a record is the tail's.
LEMMA EndInTail ==
  ASSUME NEW fam \in Families, fam[Len(fam)] # <<>>
  PROVE  EndOf(fam) = [segment |-> Len(fam), before |-> fam[Len(fam)]]
<1>. DEFINE n == Len(fam)
<1>1. n \in Nat /\ n # 0
  BY DEF Families
<1>2. n \in 1 .. n /\ \A j \in 1 .. n : j <= n
  <2>. HIDE DEF n
  <2>. QED
    BY <1>1
<1>. QED
  BY <1>2, EndIs

\* CursorFinds: where callers name no ids of removed nodes, the db's cursor is a place in
\* the family at every step, so no crash leaves a db that its next writer cannot open
\* (compact.py, compact_family).
THEOREM CursorAlwaysFinds ==
  ASSUME Pending \subseteq {"none"}
  PROVE  Spec => []CursorFinds
<1>1. Init => FoundOK
  BY DEF Init, FoundOK, Found
<1>2. ShapeOK /\ ShapeOK' /\ CursorOK /\ CursorOK' /\ FoundOK /\ [Next]_vars => FoundOK'
  <2>. SUFFICES ASSUME ShapeOK, ShapeOK', CursorOK, CursorOK', FoundOK, [Next]_vars PROVE FoundOK'
    OBVIOUS
  <2>1. /\ TypeOK /\ TypeOK' /\ family \in Families /\ family' \in Families /\ cursor \in Place
        /\ Found(cursor) <=> FoundIn(family, cursor)
        /\ Found(cursor)' <=> FoundIn(family', cursor')
    BY Here DEF ShapeOK, TypeOK, Families, Found, FoundIn
  <2>2. /\ FoundIn(family, EndOf(family)) /\ EndOf(family) \in Place
        /\ FoundIn(family', EndOf(family'))
    BY <2>1, EndFound
  <2>3. ASSUME NEW b \in Bodies, LiveGesture(b)
        PROVE  FoundOK'
    <3>. DEFINE op == [body |-> BodyOf(Healed, b), ts |-> Len(log) + 1]
    <3>1. Healed \in Graph /\ Len(log) + 1 \in Time
      BY <2>1, <2>3, Here DEF LiveGesture, Time
    <3>2. op \in FamilyOp
      <4>1. b \in Body \cup Curation
        BY CompactedBodies
      <4>. QED
        BY <3>1, <4>1, LiveOpType
    <3>3. /\ family' = Landed(op) /\ pc = "idle" /\ pc' = pc /\ pending' = pending
          /\ cursor' = EndOf(family') \/ cursor' = EndOf(family)
      BY <2>3 DEF LiveGesture, BodyOf, run
    <3>. HIDE DEF op
    <3>4. FoundIn(family', EndOf(family))
      <4>1. family' = LandedIn(family, op)
        BY <3>3 DEF Landed, LandedIn
      <4>. QED
        BY <2>1, <2>2, <3>2, <4>1, LandedPast
    <3>. QED
      BY <2>1, <2>2, <3>3, <3>4 DEF FoundOK
  <2>4. CASE Rebuild
    BY <2>4 DEF Rebuild, FoundOK
  <2>5. ASSUME NEW ids \in Retire, NEW kind \in Pending, NEW removes \in Domain,
               Open(ids, kind, removes)
        PROVE  FoundOK'
    <3>1. PendingIds(kind, Healed) = {}
      BY DEF PendingIds
    <3>2. /\ cursor' = EndOf(family) /\ family' = family /\ pc' = "open"
          /\ pending' = PendingIds(kind, Healed) \ ids
      BY <2>5 DEF Open
    <3>. QED
      BY <2>1, <2>2, <3>1, <3>2 DEF FoundOK
  <2>6. CASE Rotate
    <3>1. cursor' = EndOf(family')
      <4>1. family' = Append(family, <<>>) \/ family' = family
        BY <2>6 DEF Rotate
      <4>2. EndOf(family') = EndOf(family)
        BY <2>1, <4>1, Rotated
      <4>. QED
        BY <2>6, <4>2 DEF Rotate, CursorOK, store
    <3>. QED
      BY <2>1, <2>2, <2>6, <3>1 DEF Rotate, FoundOK, run
  <2>7. CASE ScanRefused
    BY <2>1, <2>7 DEF ScanRefused, Release, FoundOK, store
  <2>8. CASE Scan
    <3>1. ASSUME ~PlansOp
          PROVE  todo' = {}
      <4>1. MovedOps = <<>>
        BY <2>8, <3>1 DEF Scan, Opless, FoundOK
      <4>2. ASSUME NEW k \in Cold, Moved(family[k]) # <<>>
            PROVE  FALSE
        <5>. DEFINE seg == family[k]
        <5>1. seg \in Seq(FamilyOp)
          BY <2>1, Here DEF Cold
        <5>. HIDE DEF seg
        <5>2. Moved(seg) \in Seq(FamilyOp) /\ Moved(seg) # <<>>
          BY <4>2, <5>1, SegmentType DEF seg
        <5>3. 1 \in 1 .. Len(Moved(seg))
          BY <5>2
        <5>4. \E j \in 1 .. Len(MovedOps) : TRUE
          BY <2>1, <5>3, MovedOpsHaveWires DEF seg
        <5>5. Len(<<>>) = 0
          OBVIOUS
        <5>. QED
          BY <4>1, <5>4, <5>5
      <4>. QED
        BY <2>8, <4>2 DEF Scan
    <3>2. pc' = "archive" => todo' = {}
      BY <2>8, <3>1 DEF Scan
    <3>. QED
      BY <2>1, <2>8, <3>2 DEF Scan, FoundOK, store, run
  <2>9. CASE AppendDrop
    BY <2>9 DEF AppendDrop, CursorOK, FoundOK, run
  <2>10. CASE ApplyDrop
    BY <2>1, <2>10 DEF ApplyDrop, FoundOK, run
  <2>11. CASE AdvanceDrop
    BY <2>1, <2>2, <2>11 DEF AdvanceDrop, ShapeOK, DropStands, FoundOK, run
  <2>12. CASE Archive
    BY <2>1, <2>12 DEF Archive, CursorOK, FoundOK, store, run
  <2>13. CASE NothingToMove
    BY <2>1, <2>13 DEF NothingToMove, Release, FoundOK, store
  <2>14. CASE Rewrite
    <3>1. PICK k \in todo :
            /\ k # Len(family) /\ Len(family') = Len(family)
            /\ \A j \in 1 .. Len(family) : j # k => family'[j] = family[j]
      BY <2>14, RewriteStep
    <3>2. family'[Len(family')] = family[Len(family)]
      <4>1. Len(family) \in 1 .. Len(family)
        <5>. DEFINE n == Len(family)
        <5>1. n \in Nat \ {0}
          BY <2>1, Here
        <5>. HIDE DEF n
        <5>2. n \in 1 .. n
          BY <5>1
        <5>. QED
          BY <5>2 DEF n
      <4>. QED
        BY <3>1, <4>1
    <3>3. cursor = EndOf(family) /\ family[Len(family)] # <<>> /\ cursor' = cursor
          /\ pc' \in {"move", "restamp"} /\ pending' = pending
      BY <2>14 DEF Rewrite, FoundOK, store, run
    <3>4. EndOf(family') = EndOf(family)
      BY <2>1, <3>1, <3>2, <3>3, EndInTail
    <3>. QED
      BY <2>1, <2>2, <3>2, <3>3, <3>4 DEF FoundOK
  <2>15. CASE Restamp
    BY <2>1, <2>2, <2>15 DEF Restamp, Release, FoundOK
  <2>16. CASE Crash
    BY <2>1, <2>16 DEF Crash, Release, FoundOK, store
  <2>17. CASE UNCHANGED vars
    BY <2>1, <2>17 DEF vars, store, run, FoundOK
  <2>. QED
    BY <2>3, <2>4, <2>5, <2>6, <2>7, <2>8, <2>9, <2>10, <2>11, <2>12, <2>13, <2>14, <2>15, <2>16,
       <2>17 DEF Next, Compact
<1>3. FoundOK => CursorFinds
  BY DEF FoundOK, CursorFinds
<1>. QED
  BY <1>1, <1>2, <1>3, ShapeKept, CursorPlaced, PTL DEF Spec

-----------------------------------------------------------------------------
(* Nothing is lost. *)

\* The ops hold an op: its wires in records of it, or the op itself.
HeldBy(ops, op) ==
  IF HasWires(op)
    THEN /\ \A n \in Wired(Wire(op)) : \E r \in ops :
              r.ts = op.ts /\ HasWires(r) /\ Wire(r).nodes[n] = Wire(op).nodes[n]
         /\ \A e \in Wire(op).edges : \E r \in ops :
              r.ts = op.ts /\ HasWires(r) /\ e \in Wire(r).edges
    ELSE op \in ops

\* What holds the ops that hold an op holds it.
LEMMA HeldThrough ==
  ASSUME NEW S, NEW T, NEW op, HeldBy(S, op), \A r \in S : HeldBy(T, r)
  PROVE  HeldBy(T, op)
<1>1. CASE ~HasWires(op)
  BY <1>1 DEF HeldBy
<1>2. CASE HasWires(op)
  <2>1. ASSUME NEW n \in Wired(Wire(op))
        PROVE  \E r \in T : r.ts = op.ts /\ HasWires(r) /\ Wire(r).nodes[n] = Wire(op).nodes[n]
    <3>1. PICK r \in S : r.ts = op.ts /\ HasWires(r) /\ Wire(r).nodes[n] = Wire(op).nodes[n]
      BY <1>2, <2>1 DEF HeldBy
    <3>2. n \in Wired(Wire(r))
      BY <2>1, <3>1 DEF Wired
    <3>3. PICK q \in T : q.ts = r.ts /\ HasWires(q) /\ Wire(q).nodes[n] = Wire(r).nodes[n]
      BY <3>1, <3>2 DEF HeldBy
    <3>. QED
      BY <3>1, <3>3
  <2>2. ASSUME NEW e \in Wire(op).edges
        PROVE  \E r \in T : r.ts = op.ts /\ HasWires(r) /\ e \in Wire(r).edges
    <3>1. PICK r \in S : r.ts = op.ts /\ HasWires(r) /\ e \in Wire(r).edges
      BY <1>2, <2>2 DEF HeldBy
    <3>2. PICK q \in T : q.ts = r.ts /\ HasWires(q) /\ e \in Wire(q).edges
      BY <3>1 DEF HeldBy
    <3>. QED
      BY <3>1, <3>2
  <2>. QED
    BY <1>2, <2>1, <2>2 DEF HeldBy
<1>. QED
  BY <1>1, <1>2

\* Ops hold their own.
LEMMA HeldOwn ==
  ASSUME NEW S, NEW op \in S
  PROVE  HeldBy(S, op)
BY DEF HeldBy

\* What is kept of an op and what is archived of it hold it together.
LEMMA HeldByParts ==
  ASSUME NEW op \in FamilyOp, NEW T, ToSet(KeptOf(op)) \subseteq T, ToSet(MovedOf(op)) \subseteq T
  PROVE  HeldBy(T, op)
<1>0. \A x : ToSet(<<x>>) = {x}
  BY DEF ToSet
<1>1. CASE MovesWhole(op)
  <2>1. MovedOf(op) = <<op>>
    BY <1>1 DEF MovedOf
  <2>2. op \in T
    BY <1>0, <2>1
  <2>. QED
    BY <2>2, HeldOwn
<1>2. CASE ~MovesWhole(op) /\ Splits(op)
  <2>. DEFINE keep == WithWires(op, PartOf(op, FALSE))
              move == WithWires(op, PartOf(op, TRUE))
  <2>1. KeptOf(op) = <<keep>> /\ MovedOf(op) = <<move>> /\ HasWires(op)
    BY <1>2 DEF KeptOf, MovedOf, Splits
  <2>2. keep \in T /\ move \in T
    <3>. HIDE DEF keep, move
    <3>. QED
      BY <1>0, <2>1
  <2>3. /\ keep.ts = op.ts /\ HasWires(keep) /\ Wire(keep) = PartOf(op, FALSE)
        /\ move.ts = op.ts /\ HasWires(move) /\ Wire(move) = PartOf(op, TRUE)
    BY <2>1, PartIsOp
  <2>. HIDE DEF keep, move
  <2>4. ASSUME NEW n \in Wired(Wire(op))
        PROVE  \E r \in T : r.ts = op.ts /\ HasWires(r) /\ Wire(r).nodes[n] = Wire(op).nodes[n]
    <3>1. n \in NodeId
      BY <2>4 DEF Wired
    <3>2. CASE n \in Moving
      <4>1. Wire(move).nodes[n] = Wire(op).nodes[n]
        BY <2>3, <3>1, <3>2 DEF PartOf
      <4>. QED
        BY <2>2, <2>3, <4>1
    <3>3. CASE n \notin Moving
      <4>1. Wire(keep).nodes[n] = Wire(op).nodes[n]
        BY <2>3, <3>1, <3>3 DEF PartOf
      <4>. QED
        BY <2>2, <2>3, <4>1
    <3>. QED
      BY <3>2, <3>3
  <2>5. ASSUME NEW e \in Wire(op).edges
        PROVE  \E r \in T : r.ts = op.ts /\ HasWires(r) /\ e \in Wire(r).edges
    <3>1. CASE Touches(e)
      <4>1. e \in Wire(move).edges
        BY <2>3, <3>1 DEF PartOf
      <4>. QED
        BY <2>2, <2>3, <4>1
    <3>2. CASE ~Touches(e)
      <4>1. e \in Wire(keep).edges
        BY <2>3, <3>2 DEF PartOf
      <4>. QED
        BY <2>2, <2>3, <4>1
    <3>. QED
      BY <3>1, <3>2
  <2>. QED
    BY <2>1, <2>4, <2>5 DEF HeldBy
<1>3. CASE ~MovesWhole(op) /\ ~Splits(op)
  <2>1. KeptOf(op) = <<op>>
    BY <1>3 DEF KeptOf
  <2>2. op \in T
    BY <1>0, <2>1
  <2>. QED
    BY <2>2, HeldOwn
<1>. QED
  BY <1>1, <1>2, <1>3

\* The sets of a concatenation, of an append and of a flattened sequence.
LEMMA SetOfSeqs ==
  ASSUME NEW X
  PROVE  /\ \A s \in Seq(X) : \A t \in Seq(X) : ToSet(s \o t) = ToSet(s) \cup ToSet(t)
         /\ \A s \in Seq(X) : \A x \in X : ToSet(Append(s, x)) = ToSet(s) \cup {x}
         /\ \A ss \in Seq(Seq(X)) : ToSet(FlattenSeq(ss)) = UNION {ToSet(ss[k]) : k \in 1 .. Len(ss)}
<1>0. ASSUME NEW s \in Seq(X)
      PROVE  ToSet(s) = {s[i] : i \in 1 .. Len(s)}
  BY DEF ToSet
<1>1. ASSUME NEW s \in Seq(X), NEW t \in Seq(X)
      PROVE  ToSet(s \o t) = ToSet(s) \cup ToSet(t)
  <2>1. /\ s \o t \in Seq(X) /\ Len(s \o t) = Len(s) + Len(t) /\ Len(s) \in Nat /\ Len(t) \in Nat
        /\ \A i \in 1 .. Len(s) : (s \o t)[i] = s[i]
        /\ \A i \in 1 .. Len(t) : (s \o t)[Len(s) + i] = t[i]
    OBVIOUS
  <2>. DEFINE st == s \o t
              m == Len(s)
              n == Len(t)
  <2>2. st \in Seq(X) /\ Len(st) = m + n /\ m \in Nat /\ n \in Nat
        /\ (\A i \in 1 .. m : st[i] = s[i]) /\ (\A i \in 1 .. n : st[m + i] = t[i])
    BY <2>1
  <2>3. ToSet(st) = {st[i] : i \in 1 .. m + n} /\ ToSet(s) = {s[i] : i \in 1 .. m}
        /\ ToSet(t) = {t[i] : i \in 1 .. n}
    <3>1. ToSet(st) = {st[i] : i \in 1 .. Len(st)}
      <4>. HIDE DEF st
      <4>. QED
        BY <1>0, <2>2
    <3>. QED
      BY <1>0, <2>2, <3>1
  <2>. HIDE DEF st, m, n
  <2>4. ASSUME NEW i \in 1 .. m + n
        PROVE  st[i] \in {s[j] : j \in 1 .. m} \cup {t[j] : j \in 1 .. n}
    <3>1. CASE i <= m
      <4>1. i \in 1 .. m
        BY <2>2, <3>1
      <4>. QED
        BY <2>2, <4>1
    <3>2. CASE ~(i <= m)
      <4>1. i - m \in 1 .. n /\ m + (i - m) = i
        BY <2>2, <3>2
      <4>2. st[i] = t[i - m]
        BY <2>2, <4>1
      <4>. QED
        BY <4>1, <4>2
    <3>. QED
      BY <3>1, <3>2
  <2>5. ASSUME NEW j \in 1 .. m
        PROVE  s[j] \in {st[i] : i \in 1 .. m + n}
    <3>1. j \in 1 .. m + n
      BY <2>2
    <3>. QED
      BY <2>2, <3>1
  <2>6. ASSUME NEW j \in 1 .. n
        PROVE  t[j] \in {st[i] : i \in 1 .. m + n}
    <3>1. m + j \in 1 .. m + n
      BY <2>2
    <3>. QED
      BY <2>2, <3>1
  <2>7. ToSet(st) = ToSet(s) \cup ToSet(t)
    BY <2>3, <2>4, <2>5, <2>6
  <2>. QED
    BY <2>7 DEF st
<1>2. ASSUME NEW s \in Seq(X), NEW x \in X
      PROVE  ToSet(Append(s, x)) = ToSet(s) \cup {x}
  <2>1. <<x>> \in Seq(X) /\ Append(s, x) = s \o <<x>> /\ ToSet(<<x>>) = {x}
    BY DEF ToSet
  <2>. QED
    BY <1>1, <2>1
<1>3. ASSUME NEW ss \in Seq(Seq(X))
      PROVE  ToSet(FlattenSeq(ss)) = UNION {ToSet(ss[k]) : k \in 1 .. Len(ss)}
  <2>. DEFINE f == FlattenSeq(ss)
  <2>1. /\ f \in Seq(X)
        /\ \A k \in 1 .. Len(ss) : \A i \in 1 .. Len(ss[k]) : \E j \in 1 .. Len(f) : f[j] = ss[k][i]
        /\ \A j \in 1 .. Len(f) : \E k \in 1 .. Len(ss) : \E i \in 1 .. Len(ss[k]) : f[j] = ss[k][i]
    BY ZenonT(60), FlattenLaws, FlattenElements
  <2>. HIDE DEF f
  <2>2. ToSet(f) = {f[j] : j \in 1 .. Len(f)}
    BY <1>0, <2>1
  <2>3. ASSUME NEW k \in 1 .. Len(ss)
        PROVE  ToSet(ss[k]) = {ss[k][i] : i \in 1 .. Len(ss[k])}
    <3>. DEFINE s == ss[k]
    <3>1. s \in Seq(X)
      OBVIOUS
    <3>. HIDE DEF s
    <3>2. ToSet(s) = {s[i] : i \in 1 .. Len(s)}
      BY <1>0, <3>1
    <3>. QED
      BY <3>2 DEF s
  <2>4. ASSUME NEW x \in ToSet(f)
        PROVE  x \in UNION {ToSet(ss[k]) : k \in 1 .. Len(ss)}
    <3>1. PICK j \in 1 .. Len(f) : x = f[j]
      BY <2>2
    <3>2. PICK k \in 1 .. Len(ss) : \E i \in 1 .. Len(ss[k]) : f[j] = ss[k][i]
      BY <2>1
    <3>3. x \in ToSet(ss[k])
      BY <2>3, <3>1, <3>2
    <3>. QED
      BY <3>3
  <2>5. ASSUME NEW k \in 1 .. Len(ss), NEW x \in ToSet(ss[k])
        PROVE  x \in ToSet(f)
    <3>1. PICK i \in 1 .. Len(ss[k]) : x = ss[k][i]
      BY <2>3
    <3>2. PICK j \in 1 .. Len(f) : f[j] = ss[k][i]
      BY <2>1
    <3>. QED
      BY <2>2, <3>1, <3>2
  <2>6. ToSet(f) = UNION {ToSet(ss[k]) : k \in 1 .. Len(ss)}
    BY <2>4, <2>5
  <2>. QED
    BY <2>6 DEF f
<1>. QED
  BY <1>1, <1>2, <1>3

\* What is kept of a segment and what is archived of it hold its ops together.
LEMMA HeldSegment ==
  ASSUME NEW seg \in Seq(FamilyOp), NEW T, ToSet(Kept(seg)) \subseteq T, ToSet(Moved(seg)) \subseteq T,
         NEW op \in ToSet(seg)
  PROVE  HeldBy(T, op)
<1>. DEFINE keeps == [j \in 1 .. Len(seg) |-> KeptOf(seg[j])]
            moves == [j \in 1 .. Len(seg) |-> MovedOf(seg[j])]
<1>1. PICK i \in 1 .. Len(seg) : op = seg[i]
  BY DEF ToSet
<1>2. op \in FamilyOp
  BY <1>1
<1>3. /\ keeps \in Seq(Seq(FamilyOp)) /\ Kept(seg) = FlattenSeq(keeps)
      /\ moves \in Seq(Seq(FamilyOp)) /\ Moved(seg) = FlattenSeq(moves)
  BY SegmentType DEF Kept, Moved
<1>4. /\ Len(keeps) = Len(seg) /\ keeps[i] = KeptOf(op)
      /\ Len(moves) = Len(seg) /\ moves[i] = MovedOf(op)
  BY <1>1
<1>. HIDE DEF keeps, moves
<1>5. /\ ToSet(FlattenSeq(keeps)) = UNION {ToSet(keeps[k]) : k \in 1 .. Len(keeps)}
      /\ ToSet(FlattenSeq(moves)) = UNION {ToSet(moves[k]) : k \in 1 .. Len(moves)}
  BY <1>3, SetOfSeqs
<1>6. i \in 1 .. Len(keeps) /\ i \in 1 .. Len(moves)
  BY <1>4
<1>7. ToSet(KeptOf(op)) \subseteq T
  <2>1. ToSet(keeps[i]) \subseteq T
    BY <1>3, <1>5, <1>6
  <2>. QED
    BY <1>4, <2>1
<1>8. ToSet(MovedOf(op)) \subseteq T
  <2>1. ToSet(moves[i]) \subseteq T
    BY <1>3, <1>5, <1>6
  <2>. QED
    BY <1>4, <2>1
<1>. QED
  BY <1>2, <1>7, <1>8, HeldByParts

\* What stands in the family and the archive.
Held == ToSet(Records) \cup ToSet(archive)

\* Nothing is lost, then, when that holds every op journaled.
LEMMA LostNothing ==
  ASSUME TypeOK
  PROVE  NothingLost <=> \A i \in 1 .. Len(log) : HeldBy(Held, log[i])
<1>. DEFINE held == Records \o archive
<1>1. Records \in Seq(FamilyOp) /\ archive \in Seq(FamilyOp) /\ held \in Seq(FamilyOp)
  <2>1. Records \in Seq(FamilyOp) /\ archive \in Seq(FamilyOp)
    BY Here DEF TypeOK
  <2>. QED
    BY <2>1
<1>2. Held = ToSet(held)
  BY <1>1, SetOfSeqs DEF Held
<1>3. ToSet(held) = {held[i] : i \in 1 .. Len(held)}
  <2>. HIDE DEF held
  <2>. QED
    BY <1>1 DEF ToSet
<1>4. NothingLost <=>
        \A i \in 1 .. Len(log) :
          IF HasWires(log[i])
            THEN /\ \A n \in Wired(Wire(log[i])) : Holds(held, log[i], n)
                 /\ \A e \in Wire(log[i]).edges : HoldsEdge(held, log[i], e)
            ELSE \E j \in 1 .. Len(held) : held[j] = log[i]
  BY DEF NothingLost
<1>. HIDE DEF held
<1>5. ASSUME NEW op, NEW n
      PROVE  Holds(held, op, n) <=> \E r \in Held :
               r.ts = op.ts /\ HasWires(r) /\ Wire(r).nodes[n] = Wire(op).nodes[n]
  BY <1>2, <1>3 DEF Holds
<1>6. ASSUME NEW op, NEW e
      PROVE  HoldsEdge(held, op, e) <=> \E r \in Held :
               r.ts = op.ts /\ HasWires(r) /\ e \in Wire(r).edges
  BY <1>2, <1>3 DEF HoldsEdge
<1>7. ASSUME NEW op
      PROVE  (\E j \in 1 .. Len(held) : held[j] = op) <=> op \in Held
  BY <1>2, <1>3
<1>. DEFINE Standing(op) ==
              IF HasWires(op)
                THEN /\ \A n \in Wired(Wire(op)) : Holds(held, op, n)
                     /\ \A e \in Wire(op).edges : HoldsEdge(held, op, e)
                ELSE \E j \in 1 .. Len(held) : held[j] = op
<1>8. ASSUME NEW op
      PROVE  Standing(op) <=> HeldBy(Held, op)
  <2>1. CASE HasWires(op)
    BY <1>5, <1>6, <2>1 DEF HeldBy
  <2>2. CASE ~HasWires(op)
    BY <1>7, <2>2 DEF HeldBy
  <2>. QED
    BY <2>1, <2>2
<1>9. NothingLost <=> \A i \in 1 .. Len(log) : Standing(log[i])
  BY <1>4
<1>. HIDE DEF Standing
<1>. QED
  BY <1>8, <1>9

\* While a compaction moves, the archive holds what it takes of the segments left.
LostOK ==
  /\ \A i \in 1 .. Len(log) : HeldBy(Held, log[i])
  /\ pc = "move" => \A k \in todo : ToSet(Moved(family[k])) \subseteq ToSet(archive)

\* What moves is what moves, as long as its ids are.
LEMMA MovedStays ==
  ASSUME retired' = retired, pending' = pending
  PROVE  /\ Moving' = Moving
         /\ \A op : Splits(op)' = Splits(op) /\ MovedOf(op)' = MovedOf(op) /\ KeptOf(op)' = KeptOf(op)
         /\ \A seg : Moved(seg)' = Moved(seg) /\ Kept(seg)' = Kept(seg)
<1>1. Moving' = Moving
  BY DEF Moving
<1>2. \A op, moves : PartOf(op, moves)' = PartOf(op, moves)
  BY <1>1 DEF PartOf, Touches
<1>3. \A op : Splits(op)' = Splits(op)
  BY <1>2 DEF Splits
<1>4. \A op : MovedOf(op)' = MovedOf(op) /\ KeptOf(op)' = KeptOf(op)
  BY <1>2, <1>3 DEF MovedOf, KeptOf, MovesWhole
<1>5. \A seg : Moved(seg)' = Moved(seg) /\ Kept(seg)' = Kept(seg)
  BY <1>4 DEF Moved, Kept
<1>. QED
  BY <1>1, <1>3, <1>4, <1>5

\* Where no op goes but into the log, what held all holds all.
LEMMA HeldLonger ==
  ASSUME TypeOK, TypeOK', NEW op \in FamilyOp,
         \A i \in 1 .. Len(log) : HeldBy(Held, log[i]),
         Records' = Append(Records, op), archive' = archive, log' = Append(log, op)
  PROVE  \A i \in 1 .. Len(log') : HeldBy(Held', log'[i])
<1>1. Records \in Seq(FamilyOp) /\ log \in Seq(FamilyOp)
  BY Here DEF TypeOK
<1>2. Held' = Held \cup {op}
  <2>1. ToSet(Append(Records, op)) = ToSet(Records) \cup {op}
    BY <1>1, SetOfSeqs
  <2>. QED
    BY <2>1 DEF Held
<1>. TAKE i \in 1 .. Len(log')
<1>3. CASE i \in 1 .. Len(log)
  <2>1. log'[i] = log[i] /\ HeldBy(Held, log[i])
    BY <1>1, <1>3
  <2>2. \A r \in Held : HeldBy(Held', r)
    BY <1>2, HeldOwn
  <2>. QED
    BY <2>1, <2>2, HeldThrough
<1>4. CASE i \notin 1 .. Len(log)
  <2>1. log'[i] = op
    BY <1>1, <1>4
  <2>2. op \in Held'
    BY <1>2
  <2>. QED
    BY <2>1, <2>2, HeldOwn
<1>. QED
  BY <1>3, <1>4

\* A rewrite leaves in the family what it keeps, and the archive has the rest.
LEMMA RewriteHeld ==
  ASSUME ShapeOK, TypeOK', LostOK, Rewrite
  PROVE  LostOK'
<1>1. PICK k \in todo :
        /\ k \in Cold /\ k \in 1 .. Len(family) /\ k # Len(family)
        /\ family[k] \in Seq(FamilyOp) /\ Kept(family[k]) \in Seq(FamilyOp)
        /\ family' = [family EXCEPT ![k] = Kept(@)]
        /\ family' \in Families /\ Len(family') = Len(family)
        /\ family'[k] = Kept(family[k])
        /\ \A j \in 1 .. Len(family) : j # k => family'[j] = family[j]
        /\ todo' = todo \ {k}
  BY RewriteStep
<1>2. /\ retired' = retired /\ pending' = pending /\ archive' = archive /\ log' = log /\ pc = "move"
      /\ family \in Seq(Seq(FamilyOp)) /\ family' \in Seq(Seq(FamilyOp)) /\ TypeOK
      /\ todo \subseteq 1 .. Len(family)
  BY Here DEF Rewrite, run, ShapeOK, TypeOK
<1>3. /\ ToSet(Records) = UNION {ToSet(family[j]) : j \in 1 .. Len(family)}
      /\ ToSet(Records') = UNION {ToSet(family'[j]) : j \in 1 .. Len(family')}
  BY <1>2, SetOfSeqs DEF Records
<1>4. ToSet(Kept(family[k])) \subseteq Held' /\ ToSet(Moved(family[k])) \subseteq Held'
  <2>1. ToSet(family'[k]) \subseteq ToSet(Records')
    BY <1>1, <1>3
  <2>2. ToSet(Moved(family[k])) \subseteq ToSet(archive)
    BY <1>1, <1>2 DEF LostOK
  <2>. QED
    BY <1>1, <1>2, <2>1, <2>2 DEF Held
<1>5. ASSUME NEW r \in Held
      PROVE  HeldBy(Held', r)
  <2>1. CASE r \in ToSet(archive)
    <3>1. r \in Held'
      BY <1>2, <2>1 DEF Held
    <3>. QED
      BY <3>1, HeldOwn
  <2>2. ASSUME NEW j \in 1 .. Len(family), r \in ToSet(family[j]), j # k
        PROVE  HeldBy(Held', r)
    <3>1. r \in ToSet(family'[j]) /\ j \in 1 .. Len(family')
      BY <1>1, <2>2
    <3>2. r \in Held'
      BY <1>3, <3>1 DEF Held
    <3>. QED
      BY <3>2, HeldOwn
  <2>3. CASE r \in ToSet(family[k])
    <3>. DEFINE seg == family[k]
                T == Held'
    <3>1. seg \in Seq(FamilyOp) /\ ToSet(Kept(seg)) \subseteq T /\ ToSet(Moved(seg)) \subseteq T
          /\ r \in ToSet(seg)
      BY <1>1, <1>4, <2>3
    <3>. HIDE DEF seg, T
    <3>2. HeldBy(T, r)
      BY <3>1, HeldSegment
    <3>. QED
      BY <3>2 DEF T
  <2>. QED
    BY <1>3, <2>1, <2>2, <2>3 DEF Held
<1>6. \A i \in 1 .. Len(log) : HeldBy(Held', log[i])
  BY <1>5, HeldThrough DEF LostOK
<1>7. ASSUME NEW j \in todo'
      PROVE  ToSet(Moved(family[j]))' \subseteq ToSet(archive')
  <2>1. j \in todo /\ j # k /\ family'[j] = family[j]
    BY <1>1, <1>2, <1>7
  <2>2. Moved(family[j])' = Moved(family[j])
    <3>. DEFINE seg == family[j]
    <3>1. \A s : Moved(s)' = Moved(s)
      BY <1>2, MovedStays
    <3>. QED
      BY <2>1, <3>1
  <2>3. ToSet(Moved(family[j])) \subseteq ToSet(archive)
    BY <1>2, <2>1 DEF LostOK
  <2>. QED
    BY <1>2, <2>2, <2>3
<1>. QED
  BY <1>2, <1>6, <1>7 DEF LostOK

\* NothingLost: every wire ever journaled is in the family or in the archive at every
\* step, whatever died, for any bodies, domains and callers (compact.py, kept and archived
\* together are the original, op by op).
THEOREM MoveLosesNothing == Spec => []NothingLost
<1>1. Init => LostOK
  <2>1. Len(<<>>) = 0
    OBVIOUS
  <2>. QED
    BY <2>1 DEF Init, LostOK
<1>2. ShapeOK /\ ShapeOK' /\ LostOK /\ [Next]_vars => LostOK'
  <2>. SUFFICES ASSUME ShapeOK, ShapeOK', LostOK, [Next]_vars PROVE LostOK'
    OBVIOUS
  <2>1. /\ TypeOK /\ TypeOK' /\ family \in Families
        /\ Records \in Seq(FamilyOp) /\ archive \in Seq(FamilyOp) /\ MovedOps \in Seq(FamilyOp)
    BY Here, MovedOpsHaveWires DEF ShapeOK, TypeOK
  <2>2. ASSUME Records' = Records, NEW s \in Seq(FamilyOp), archive' = archive \o s, log' = log,
               pc' # "move"
        PROVE  LostOK'
    <3>1. ToSet(archive') = ToSet(archive) \cup ToSet(s)
      BY <2>1, <2>2, SetOfSeqs
    <3>2. \A r \in Held : HeldBy(Held', r)
      BY <2>2, <3>1, HeldOwn DEF Held
    <3>. QED
      BY <2>2, <3>2, HeldThrough DEF LostOK
  <2>3. ASSUME Records' = Records, archive' = archive, log' = log, pc' # "move"
        PROVE  LostOK'
    BY <2>3 DEF LostOK, Held
  <2>4. ASSUME NEW b \in Bodies, LiveGesture(b)
        PROVE  LostOK'
    <3>. DEFINE op == [body |-> BodyOf(Healed, b), ts |-> Len(log) + 1]
    <3>1. Healed \in Graph /\ Len(log) + 1 \in Time
      BY <2>1, <2>4, Here DEF LiveGesture, Time
    <3>2. op \in FamilyOp
      <4>1. b \in Body \cup Curation
        BY CompactedBodies
      <4>. QED
        BY <3>1, <4>1, LiveOpType
    <3>3. /\ family' = Landed(op) /\ log' = Append(log, op) /\ archive' = archive
          /\ pc' = "idle"
      BY <2>4 DEF LiveGesture, BodyOf
    <3>. HIDE DEF op
    <3>4. Records' = Append(Records, op)
      BY <2>1, <3>2, <3>3, LandedHere
    <3>5. \A i \in 1 .. Len(log') : HeldBy(Held', log'[i])
      BY <2>1, <3>2, <3>3, <3>4, HeldLonger DEF LostOK
    <3>. QED
      BY <3>3, <3>5 DEF LostOK
  <2>5. CASE Rebuild
    BY <2>3, <2>5 DEF Rebuild, Records
  <2>6. ASSUME NEW ids \in Retire, NEW kind \in Pending, NEW removes \in Domain,
               Open(ids, kind, removes)
        PROVE  LostOK'
    BY <2>3, <2>6 DEF Open, Records
  <2>7. CASE Rotate
    <3>1. family' = Append(family, <<>>) \/ family' = family
      BY <2>7 DEF Rotate
    <3>2. Records' = Records
      BY <2>1, <3>1, Rotated DEF Records
    <3>. QED
      BY <2>3, <2>7, <3>2 DEF Rotate
  <2>8. CASE ScanRefused
    BY <2>3, <2>8 DEF ScanRefused, Release, Records
  <2>9. CASE Scan
    BY <2>3, <2>9 DEF Scan, Records
  <2>10. CASE AppendDrop
    <3>1. DropOp \in FamilyOp
      BY <2>1, DropOpType
    <3>2. Records' = Append(Records, DropOp)
      BY <2>1, <2>10, <3>1, LandedHere DEF AppendDrop
    <3>3. \A i \in 1 .. Len(log') : HeldBy(Held', log'[i])
      BY <2>1, <2>10, <3>1, <3>2, HeldLonger DEF LostOK, AppendDrop
    <3>. QED
      BY <2>10, <3>3 DEF LostOK, AppendDrop
  <2>11. CASE ApplyDrop
    BY <2>3, <2>11 DEF ApplyDrop, Records
  <2>12. CASE AdvanceDrop
    BY <2>3, <2>12 DEF AdvanceDrop, Records
  <2>13. CASE Archive
    <3>1. /\ archive' = archive \o MovedOps /\ family' = family /\ todo' = todo
          /\ retired' = retired /\ pending' = pending /\ log' = log
      BY <2>13 DEF Archive, run
    <3>2. ToSet(archive') = ToSet(archive) \cup ToSet(MovedOps)
      BY <2>1, <3>1, SetOfSeqs
    <3>3. \A i \in 1 .. Len(log) : HeldBy(Held', log[i])
      <4>1. Records' = Records
        BY <3>1 DEF Records
      <4>2. \A r \in Held : HeldBy(Held', r)
        BY <3>2, <4>1, HeldOwn DEF Held
      <4>. QED
        BY <4>2, HeldThrough DEF LostOK
    <3>4. ASSUME NEW k \in todo, NEW x \in ToSet(Moved(family[k]))
          PROVE  x \in ToSet(MovedOps)
      <4>1. k \in Cold
        BY DEF ShapeOK
      <4>. DEFINE seg == family[k]
      <4>2. seg \in Seq(FamilyOp)
        BY <2>1, <4>1, Here DEF Cold
      <4>. HIDE DEF seg
      <4>3. Moved(seg) \in Seq(FamilyOp)
        BY <4>2, SegmentType
      <4>4. PICK i \in 1 .. Len(Moved(seg)) : x = Moved(seg)[i]
        BY <3>4, <4>3 DEF ToSet, seg
      <4>5. PICK j \in 1 .. Len(MovedOps) : MovedOps[j] = Moved(seg)[i]
        BY <2>1, <4>1, <4>4, MovedOpsHaveWires DEF seg
      <4>. QED
        BY <2>1, <4>4, <4>5 DEF ToSet
    <3>5. \A seg : Moved(seg)' = Moved(seg)
      BY <3>1, MovedStays
    <3>. QED
      BY <3>1, <3>2, <3>3, <3>4, <3>5 DEF LostOK
  <2>14. CASE NothingToMove
    BY <2>3, <2>14 DEF NothingToMove, Release, Records
  <2>15. CASE Rewrite
    BY <2>1, <2>15, RewriteHeld
  <2>16. CASE Restamp
    BY <2>3, <2>16 DEF Restamp, Release, Records
  <2>17. CASE Crash
    <3>1. Records' = Records /\ log' = log /\ pc' # "move"
      BY <2>17 DEF Crash, Release, Records
    <3>2. CASE archive' = archive
      BY <2>3, <3>1, <3>2
    <3>3. ASSUME NEW i \in 1 .. Len(MovedOps), archive' = archive \o SubSeq(MovedOps, 1, i)
          PROVE  LostOK'
      <4>1. SubSeq(MovedOps, 1, i) \in Seq(FamilyOp)
        BY <2>1
      <4>. QED
        BY <2>2, <3>1, <3>3, <4>1
    <3>. QED
      BY <2>17, <3>2, <3>3 DEF Crash
  <2>18. CASE UNCHANGED vars
    <3>1. \A seg : Moved(seg)' = Moved(seg)
      BY <2>18, MovedStays DEF vars, run
    <3>. QED
      BY <2>18, <3>1 DEF vars, LostOK, Held, Records
  <2>. QED
    BY <2>4, <2>5, <2>6, <2>7, <2>8, <2>9, <2>10, <2>11, <2>12, <2>13, <2>14, <2>15, <2>16,
       <2>17, <2>18 DEF Next, Compact
<1>3. ShapeOK /\ LostOK => NothingLost
  BY LostNothing DEF ShapeOK, LostOK
<1>. QED
  BY <1>1, <1>2, <1>3, ShapeKept, PTL DEF Spec

-----------------------------------------------------------------------------
(* What has moved is out. *)

\* Op by op, what is kept of a segment and what moves of it.
LEMMA SegmentParts ==
  ASSUME NEW seg \in Seq(FamilyOp)
  PROVE  /\ ToSet(Kept(seg)) = UNION {ToSet(KeptOf(op)) : op \in ToSet(seg)}
         /\ ToSet(Moved(seg)) = UNION {ToSet(MovedOf(op)) : op \in ToSet(seg)}
<1>. DEFINE n == Len(seg)
            keeps == [j \in 1 .. n |-> KeptOf(seg[j])]
            moves == [j \in 1 .. n |-> MovedOf(seg[j])]
<1>1. /\ keeps \in Seq(Seq(FamilyOp)) /\ Kept(seg) = FlattenSeq(keeps)
      /\ moves \in Seq(Seq(FamilyOp)) /\ Moved(seg) = FlattenSeq(moves)
  BY SegmentType DEF Kept, Moved
<1>2. /\ Len(keeps) = n /\ \A i \in 1 .. n : keeps[i] = KeptOf(seg[i])
      /\ Len(moves) = n /\ \A i \in 1 .. n : moves[i] = MovedOf(seg[i])
  OBVIOUS
<1>3. ToSet(seg) = {seg[i] : i \in 1 .. n}
  BY DEF ToSet
<1>. HIDE DEF keeps, moves, n
<1>4. /\ ToSet(Kept(seg)) = UNION {ToSet(keeps[k]) : k \in 1 .. n}
      /\ ToSet(Moved(seg)) = UNION {ToSet(moves[k]) : k \in 1 .. n}
  BY ZenonT(60), <1>1, <1>2, SetOfSeqs
<1>5. /\ UNION {ToSet(keeps[k]) : k \in 1 .. n} = UNION {ToSet(KeptOf(seg[k])) : k \in 1 .. n}
      /\ UNION {ToSet(moves[k]) : k \in 1 .. n} = UNION {ToSet(MovedOf(seg[k])) : k \in 1 .. n}
  BY <1>2
<1>6. /\ UNION {ToSet(KeptOf(seg[k])) : k \in 1 .. n} = UNION {ToSet(KeptOf(op)) : op \in ToSet(seg)}
      /\ UNION {ToSet(MovedOf(seg[k])) : k \in 1 .. n} = UNION {ToSet(MovedOf(op)) : op \in ToSet(seg)}
  BY <1>3
<1>. QED
  BY <1>4, <1>5, <1>6

\* An op that splits moves something, nothing splits where no id moves, and nothing
\* that is kept splits again.
LEMMA SplitParts ==
  ASSUME NEW op \in FamilyOp
  PROVE  /\ Splits(op) <=> MovedOf(op) # <<>>
         /\ Splits(op) => \E x \in FamilyOp : MovedOf(op) = <<x>> /\ ToSet(MovedOf(op)) = {x}
              /\ HasWires(x) /\ \A e \in Wire(op).edges : Touches(e) => e \in Wire(x).edges
         /\ Moving = {} => ~Splits(op)
         /\ \A x \in ToSet(KeptOf(op)) :
              x \in FamilyOp /\ ~Splits(x) /\ (x.body.verb = "update" => x = op)
<1>0. (\A x : <<x>> # <<>> /\ ToSet(<<x>>) = {x}) /\ ToSet(<<>>) = {}
  BY DEF ToSet
<1>1. ASSUME Splits(op)
      PROVE  \E x \in FamilyOp : MovedOf(op) = <<x>> /\ ToSet(MovedOf(op)) = {x}
               /\ HasWires(x) /\ \A e \in Wire(op).edges : Touches(e) => e \in Wire(x).edges
  <2>0. HasWires(op)
    BY <1>1 DEF Splits
  <2>1. CASE MovesWhole(op)
    BY <1>0, <2>0, <2>1 DEF MovedOf
  <2>2. CASE ~MovesWhole(op)
    <3>. DEFINE move == WithWires(op, PartOf(op, TRUE))
    <3>1. MovedOf(op) = <<move>>
      BY <1>1, <2>2 DEF MovedOf
    <3>2. move \in FamilyOp /\ HasWires(move) /\ Wire(move) = PartOf(op, TRUE)
      BY <2>0, PartIsOp
    <3>. HIDE DEF move
    <3>3. \A e \in Wire(op).edges : Touches(e) => e \in Wire(move).edges
      BY <3>2 DEF PartOf
    <3>. QED
      BY <1>0, <3>1, <3>2, <3>3
  <2>. QED
    BY <2>1, <2>2
<1>2. MovedOf(op) # <<>> => Splits(op)
  BY DEF MovedOf, MovesWhole
<1>3. ASSUME Moving = {}
      PROVE  ~Splits(op)
  <2>1. SUFFICES ASSUME HasWires(op) PROVE NoWires(PartOf(op, TRUE))
    BY DEF Splits
  <2>2. \A e \in Wire(op).edges : ~Touches(e)
    BY <1>3 DEF Touches
  <2>. QED
    BY <1>3, <2>2 DEF NoWires, Wired, PartOf
<1>4. ASSUME NEW x \in ToSet(KeptOf(op))
      PROVE  x \in FamilyOp /\ ~Splits(x) /\ (x.body.verb = "update" => x = op)
  <2>1. ~MovesWhole(op)
    BY <1>0, <1>4 DEF KeptOf
  <2>2. CASE Splits(op)
    <3>. DEFINE keep == WithWires(op, PartOf(op, FALSE))
    <3>1. HasWires(op) /\ KeptOf(op) = <<keep>>
      BY <2>1, <2>2 DEF KeptOf, Splits
    <3>2. /\ keep \in FamilyOp /\ HasWires(keep) /\ Wire(keep) = PartOf(op, FALSE)
          /\ keep.body.verb = op.body.verb
      BY <3>1, PartIsOp
    <3>. HIDE DEF keep
    <3>3. NoWires(PartOf(keep, TRUE))
      <4>1. \A n \in NodeId : PartOf(keep, TRUE).nodes[n] = Absent
        <5>1. \A n \in NodeId : n \in Moving => Wire(keep).nodes[n] = Absent
          BY <3>2 DEF PartOf
        <5>2. \A n \in NodeId :
                PartOf(keep, TRUE).nodes[n] = IF n \in Moving THEN Wire(keep).nodes[n] ELSE Absent
          BY DEF PartOf
        <5>. QED
          BY <5>1, <5>2
      <4>2. PartOf(keep, TRUE).edges = {}
        <5>1. \A e \in Wire(keep).edges : ~Touches(e)
          BY <3>2 DEF PartOf
        <5>2. PartOf(keep, TRUE).edges = {e \in Wire(keep).edges : Touches(e)}
          BY DEF PartOf
        <5>. QED
          BY <5>1, <5>2
      <4>. QED
        BY <4>1, <4>2 DEF NoWires, Wired
    <3>4. x = keep
      BY <1>0, <1>4, <3>1
    <3>. QED
      BY <3>1, <3>2, <3>3, <3>4 DEF Splits, HasWires
  <2>3. CASE ~Splits(op)
    <3>1. KeptOf(op) = <<op>>
      BY <2>1, <2>3 DEF KeptOf
    <3>2. x = op
      BY <1>0, <1>4, <3>1
    <3>. QED
      BY <2>3, <3>2
  <2>. QED
    BY <2>2, <2>3
<1>5. Splits(op) => MovedOf(op) # <<>>
  BY <1>0, <1>1
<1>. QED
  BY <1>1, <1>2, <1>3, <1>4, <1>5

\* From the scan on, no op merges into an id that moves, and outside the segments left
\* to rewrite no wire of one stands; the tail that was rotated is empty.
CleanOK ==
  /\ pc \in {"scan", "append"} /\ Moving # {} => family[Len(family)] = <<>>
  /\ pc = "restamp" => todo = {}
  /\ pc \in {"append", "apply", "advance", "archive", "move", "restamp"} =>
       \A k \in 1 .. Len(family) : \A op \in ToSet(family[k]) :
         /\ op.body.verb = "update" => op.body.node \notin Moving
         /\ k \notin todo => ~Splits(op)

\* A segment of which nothing moves splits nowhere.
LEMMA NothingSplits ==
  ASSUME NEW seg \in Seq(FamilyOp), Moved(seg) = <<>>, NEW op \in ToSet(seg)
  PROVE  ~Splits(op)
<1>. SUFFICES ASSUME Splits(op) PROVE FALSE
  OBVIOUS
<1>1. op \in FamilyOp
  BY DEF ToSet
<1>2. PICK x : x \in ToSet(MovedOf(op))
  BY SMTT(30), <1>1, SplitParts
<1>3. x \in ToSet(Moved(seg))
  BY <1>2, SegmentParts
<1>4. ToSet(<<>>) = {}
  BY DEF ToSet
<1>. QED
  BY <1>3, <1>4

\* It is so at every step.
LEMMA CleanKept == Spec => []CleanOK
<1>1. Init => CleanOK
  BY DEF Init, CleanOK
<1>2. ShapeOK /\ ShapeOK' /\ CleanOK /\ [Next]_vars => CleanOK'
  <2>. SUFFICES ASSUME ShapeOK, ShapeOK', CleanOK, [Next]_vars PROVE CleanOK'
    OBVIOUS
  <2>1. /\ TypeOK /\ TypeOK' /\ family \in Families /\ family \in Seq(Seq(FamilyOp))
        /\ Len(family) \in Nat \ {0} /\ Cold = 1 .. Len(family) - 1 /\ ToSet(<<>>) = {}
    BY Here DEF ShapeOK, Cold, ToSet
  <2>2. ASSUME pc' \in {"idle", "open"}
        PROVE  CleanOK'
    BY <2>2 DEF CleanOK
  <2>3. ASSUME family' = family, todo' = todo, retired' = retired, pending' = pending, pc' = pc
        PROVE  CleanOK'
    BY <2>3, MovedStays DEF CleanOK
  <2>4. ASSUME NEW b \in Bodies, LiveGesture(b)
        PROVE  CleanOK'
    BY <2>2, <2>4 DEF LiveGesture
  <2>5. CASE Rebuild
    BY <2>2, <2>5 DEF Rebuild
  <2>6. ASSUME NEW ids \in Retire, NEW kind \in Pending, NEW removes \in Domain,
               Open(ids, kind, removes)
        PROVE  CleanOK'
    BY <2>2, <2>6 DEF Open
  <2>7. CASE Rotate
    <3>1. pc' = "scan" /\ Moving' = Moving
      BY <2>7, MovedStays DEF Rotate, run
    <3>2. Moving # {} => family'[Len(family')] = <<>>
      <4>1. Moving # {} /\ family[Len(family)] # <<>> => family' = Append(family, <<>>)
        BY <2>7 DEF Rotate
      <4>2. Moving # {} /\ family[Len(family)] = <<>> => family' = family
        BY <2>7 DEF Rotate
      <4>. QED
        BY <2>1, <4>1, <4>2, Rotated
    <3>. QED
      BY <3>1, <3>2 DEF CleanOK
  <2>8. CASE ScanRefused
    BY <2>2, <2>8 DEF ScanRefused, Release
  <2>9. CASE Scan
    <3>1. /\ pc = "scan" /\ pc' \in {"append", "archive"} /\ family' = family /\ ~Dangling
          /\ todo' = {k \in Cold : Moved(family[k]) # <<>>}
          /\ Moving' = Moving /\ \A op : Splits(op)' = Splits(op)
      BY <2>9, MovedStays DEF Scan, run
    <3>2. ASSUME NEW k \in 1 .. Len(family), NEW op \in ToSet(family[k])
          PROVE  /\ op.body.verb = "update" => op.body.node \notin Moving
                 /\ k \notin todo' => ~Splits(op)
      <4>1. CASE k \in Cold
        <5>. DEFINE seg == family[k]
        <5>1. seg \in Seq(FamilyOp) /\ op \in ToSet(seg)
          BY <2>1
        <5>2. PICK i \in 1 .. Len(seg) : op = seg[i]
          BY <5>1 DEF ToSet
        <5>3. op.body.verb = "update" => op.body.node \notin Moving
          BY <3>1, <4>1, <5>2 DEF Dangling
        <5>4. k \notin todo' => Moved(seg) = <<>>
          BY <3>1, <4>1
        <5>. HIDE DEF seg
        <5>. QED
          BY <5>1, <5>3, <5>4, NothingSplits
      <4>2. CASE k \notin Cold
        <5>1. k = Len(family)
          <6>. DEFINE n == Len(family)
          <6>1. n \in Nat \ {0} /\ k \in 1 .. n /\ k \notin 1 .. n - 1
            BY <2>1, <4>2
          <6>. HIDE DEF n
          <6>2. k = n
            BY <6>1
          <6>. QED
            BY <6>2 DEF n
        <5>2. CASE Moving = {}
          <6>. DEFINE seg == family[k]
          <6>1. seg \in Seq(FamilyOp) /\ op \in ToSet(seg)
            BY <2>1
          <6>. HIDE DEF seg
          <6>2. op \in FamilyOp
            BY <6>1 DEF ToSet
          <6>. QED
            BY <5>2, <6>2, SplitParts
        <5>3. CASE Moving # {}
          BY <2>1, <3>1, <5>1, <5>3 DEF CleanOK
        <5>. QED
          BY <5>2, <5>3
      <4>. QED
        BY <4>1, <4>2
    <3>. QED
      BY <3>1, <3>2 DEF CleanOK
  <2>10. CASE AppendDrop
    <3>1. /\ DropOp \in FamilyOp /\ DropOp.body.verb = "curate" /\ HasWires(DropOp)
          /\ Wire(DropOp) = NoWire
      BY <2>1, DropOpType
    <3>2. ~Splits(DropOp)
      <4>1. Wired(PartOf(DropOp, TRUE)) = {} /\ PartOf(DropOp, TRUE).edges = {}
        BY <3>1 DEF PartOf, Wired, NoWire
      <4>. QED
        BY <4>1 DEF Splits, NoWires
    <3>3. /\ family' = Landed(DropOp) /\ pc = "append" /\ pc' = "apply" /\ todo' = todo
          /\ Moving' = Moving /\ \A op : Splits(op)' = Splits(op)
      BY <2>10, MovedStays DEF AppendDrop, run
    <3>4. /\ Len(family') = Len(family)
          /\ family'[Len(family)] = Append(family[Len(family)], DropOp)
          /\ \A k \in 1 .. Len(family) - 1 : family'[k] = family[k]
      BY <2>1, <3>1, <3>3, LandedHere
    <3>5. ASSUME NEW k \in 1 .. Len(family), NEW op \in ToSet(family'[k])
          PROVE  op \in ToSet(family[k]) \/ op = DropOp
      <4>1. CASE k \in 1 .. Len(family) - 1
        BY <3>4, <3>5, <4>1
      <4>2. CASE k = Len(family)
        <5>. DEFINE tail == family[k]
        <5>1. tail \in Seq(FamilyOp) /\ family'[k] = Append(tail, DropOp)
          BY <2>1, <3>4, <4>2
        <5>. HIDE DEF tail
        <5>2. ToSet(Append(tail, DropOp)) = ToSet(tail) \cup {DropOp}
          BY <3>1, <5>1, SetOfSeqs
        <5>. QED
          BY <3>5, <5>1, <5>2 DEF tail
      <4>3. k \in 1 .. Len(family) - 1 \/ k = Len(family)
        <5>. DEFINE n == Len(family)
        <5>1. n \in Nat \ {0} /\ k \in 1 .. n
          BY <2>1
        <5>. HIDE DEF n
        <5>2. k \in 1 .. n - 1 \/ k = n
          BY <5>1
        <5>. QED
          BY <5>2 DEF n
      <4>. QED
        BY <4>1, <4>2, <4>3
    <3>6. ASSUME NEW k \in 1 .. Len(family), NEW op \in ToSet(family'[k])
          PROVE  /\ op.body.verb = "update" => op.body.node \notin Moving
                 /\ k \notin todo => ~Splits(op)
      BY <3>1, <3>2, <3>3, <3>5 DEF CleanOK
    <3>. QED
      BY <3>3, <3>4, <3>6 DEF CleanOK
  <2>11. CASE ApplyDrop
    BY <2>11, MovedStays DEF ApplyDrop, CleanOK, run
  <2>12. CASE AdvanceDrop
    BY <2>12, MovedStays DEF AdvanceDrop, CleanOK, run
  <2>13. CASE Archive
    BY <2>13, MovedStays DEF Archive, CleanOK, run
  <2>14. CASE NothingToMove
    BY <2>2, <2>14 DEF NothingToMove, Release
  <2>15. CASE Rewrite
    <3>1. PICK k \in todo :
            /\ k \in 1 .. Len(family) /\ Len(family') = Len(family)
            /\ family[k] \in Seq(FamilyOp)
            /\ family'[k] = Kept(family[k])
            /\ \A j \in 1 .. Len(family) : j # k => family'[j] = family[j]
            /\ todo' = todo \ {k}
      BY <2>15, RewriteStep
    <3>2. /\ pc = "move" /\ pc' = (IF todo' = {} THEN "restamp" ELSE "move")
          /\ Moving' = Moving /\ \A op : Splits(op)' = Splits(op)
      BY <2>15, MovedStays DEF Rewrite, run
    <3>3. ASSUME NEW op \in ToSet(family'[k])
          PROVE  ~Splits(op) /\ (op.body.verb = "update" => op.body.node \notin Moving)
      <4>. DEFINE seg == family[k]
      <4>1. seg \in Seq(FamilyOp) /\ op \in ToSet(Kept(seg))
        BY <3>1
      <4>2. \A o \in ToSet(seg) : o.body.verb = "update" => o.body.node \notin Moving
        BY <3>1, <3>2 DEF CleanOK
      <4>. HIDE DEF seg
      <4>3. PICK o \in ToSet(seg) : op \in ToSet(KeptOf(o))
        BY <4>1, SegmentParts
      <4>4. o \in FamilyOp
        BY <4>1 DEF ToSet
      <4>. QED
        BY <4>2, <4>3, <4>4, SplitParts
    <3>4. ASSUME NEW j \in 1 .. Len(family), NEW op \in ToSet(family'[j])
          PROVE  /\ op.body.verb = "update" => op.body.node \notin Moving
                 /\ j \notin todo' => ~Splits(op)
      <4>1. CASE j = k
        BY <3>3, <3>4, <4>1
      <4>2. CASE j # k
        <5>1. op \in ToSet(family[j]) /\ (j \in todo <=> j \in todo')
          BY <3>1, <3>4, <4>2
        <5>. QED
          BY <3>2, <5>1 DEF CleanOK
      <4>. QED
        BY <4>1, <4>2
    <3>. QED
      BY <3>1, <3>2, <3>4 DEF CleanOK
  <2>16. CASE Restamp
    BY <2>2, <2>16 DEF Restamp, Release
  <2>17. CASE Crash
    BY <2>2, <2>17 DEF Crash, Release
  <2>18. CASE UNCHANGED vars
    BY <2>3, <2>18 DEF vars, run
  <2>. QED
    BY <2>4, <2>5, <2>6, <2>7, <2>8, <2>9, <2>10, <2>11, <2>12, <2>13, <2>14, <2>15, <2>16,
       <2>17, <2>18 DEF Next, Compact
<1>. QED
  BY <1>1, <1>2, ShapeKept, PTL DEF Spec

\* MovedOut: once a compaction has run to its end, nothing outside the archive holds a
\* wire of a node it moved, or merges into one (compact.py, invariant 1 and
\* scan_references).
THEOREM MovedIsOut == Spec => MovedOut
<1>1. ShapeOK /\ CleanOK /\ [Next]_vars =>
        [pc = "restamp" /\ faults' = faults =>
           \A i \in 1 .. Len(Records') :
             LET op == Records'[i]
             IN  /\ HasWires(op) => /\ Wired(Wire(op)) \cap Moving = {}
                                    /\ \A e \in Wire(op).edges : {Source[e], Target[e]} \cap Moving = {}
                 /\ op.body.verb = "update" => op.body.node \notin Moving]_vars
  <2>. SUFFICES ASSUME ShapeOK, CleanOK, [Next]_vars, pc = "restamp", faults' = faults,
                       NEW i \in 1 .. Len(Records')
                PROVE  LET op == Records'[i]
                       IN  /\ HasWires(op) => /\ Wired(Wire(op)) \cap Moving = {}
                                              /\ \A e \in Wire(op).edges :
                                                   {Source[e], Target[e]} \cap Moving = {}
                           /\ op.body.verb = "update" => op.body.node \notin Moving
    OBVIOUS
  <2>1. family' = family
    <3>1. CASE Crash
      BY <3>1 DEF Crash
    <3>2. CASE Restamp
      BY <3>2 DEF Restamp
    <3>3. CASE UNCHANGED vars
      BY <3>3 DEF vars
    <3>. QED
      BY <3>1, <3>2, <3>3 DEF Next, Compact, LiveGesture, Rebuild, Open, Rotate, ScanRefused, Scan,
         AppendDrop, ApplyDrop, AdvanceDrop, Archive, NothingToMove, Rewrite
  <2>2. family \in Seq(Seq(FamilyOp)) /\ Records \in Seq(FamilyOp) /\ Records' = Records
    BY <2>1, Here DEF ShapeOK, Records
  <2>. DEFINE op == Records[i]
  <2>3. op \in ToSet(Records) /\ op \in FamilyOp
    BY <2>2 DEF ToSet
  <2>. HIDE DEF op
  <2>4. ToSet(Records) = UNION {ToSet(family[k]) : k \in 1 .. Len(family)}
    BY <2>2, SetOfSeqs DEF Records
  <2>5. PICK k \in 1 .. Len(family) : op \in ToSet(family[k])
    BY <2>3, <2>4
  <2>6. ~Splits(op) /\ (op.body.verb = "update" => op.body.node \notin Moving)
    BY <2>5 DEF CleanOK
  <2>7. ASSUME HasWires(op)
        PROVE  /\ Wired(Wire(op)) \cap Moving = {}
               /\ \A e \in Wire(op).edges : {Source[e], Target[e]} \cap Moving = {}
    <3>1. NoWires(PartOf(op, TRUE))
      BY <2>6, <2>7 DEF Splits
    <3>2. \A n \in NodeId : PartOf(op, TRUE).nodes[n] = IF n \in Moving THEN Wire(op).nodes[n] ELSE Absent
      BY DEF PartOf
    <3>3. PartOf(op, TRUE).edges = {e \in Wire(op).edges : Touches(e)}
      BY DEF PartOf
    <3>4. Wired(Wire(op)) \cap Moving = {}
      BY <3>1, <3>2 DEF NoWires, Wired
    <3>5. \A e \in Wire(op).edges : ~Touches(e)
      BY <3>1, <3>3 DEF NoWires
    <3>. QED
      BY <3>4, <3>5 DEF Touches
  <2>. QED
    BY <2>2, <2>6, <2>7 DEF op
<1>. QED
  BY <1>1, ShapeKept, CleanKept, PTL DEF Spec, MovedOut

-----------------------------------------------------------------------------
(* What the family builds. *)

\* A body that leaves no edge standing at a node the family drops: it wires both ends of
\* its edges, and it names the edges of the nodes it deletes.
Tidy(b) ==
  /\ b.verb # "delete"
  /\ b.verb \in {"extend", "curate"} =>
       LET w == IF b.verb = "curate" THEN b.wires ELSE b
       IN  \A e \in w.edges : Source[e] \in Wired(w) /\ Target[e] \in Wired(w)
  /\ b.verb = "curate" =>
       \A e \in EdgeId : Source[e] \in b.nodes \/ Target[e] \in b.nodes => e \in b.edges

\* How domains and callers use a move that no crash shows in a replay: a domain's op
\* names the edges that go, a curation brings or drops and not both, and pending ids are
\* of nodes the db lacks, of a family that is tidy, beside no move without an op.
MovesSafely ==
  /\ "nodes" \notin Domain /\ "journaled" \notin Pending
  /\ \A b \in Bodies : b.verb = "curate" => NoWires(b.wires) \/ (b.nodes = {} /\ b.edges = {})
  /\ "removed" \in Pending => "none" \notin Domain /\ \A b \in Bodies : Tidy(b)

\* The ids of the nodes a graph lacks.
Lacks(g) == {n \in NodeId : g.node[n] = Absent}

\* What an op makes of them.
LEMMA LacksAfter ==
  ASSUME NEW g \in Graph, NEW op \in FamilyOp
  PROVE  Lacks(Apply(g, op)) = (Lacks(g) \ Brings(op)) \cup Drops(op)
<1>1. ASSUME NEW n \in NodeId
      PROVE  Apply(g, op).node[n] = Absent <=>
               n \in Drops(op) \/ (g.node[n] = Absent /\ n \notin Brings(op))
  <2>1. Apply(g, op).node[n] = NodeAfter(g, op, n)
    BY FamilyRows
  <2>2. ASSUME n \in Brings(op)
        PROVE  StampedNode(Wire(op).nodes[n], op.ts) # Absent
    <3>1. HasWires(op) /\ Wire(op) \in Wires /\ op.ts \in Time /\ n \in Wired(Wire(op))
      BY <2>2, FamilyOpByVerb DEF Brings
    <3>2. Wire(op).nodes[n] \in Hash
      BY <3>1 DEF Wires, Wired
    <3>3. StampedNode(Wire(op).nodes[n], op.ts) \in NodeRow
      BY <3>1, <3>2 DEF StampedNode, NodeRow
    <3>. QED
      BY <3>3, AbsentIsNoRow
  <2>3. ASSUME op.body.verb = "update", g.node[n] # Absent
        PROVE  MergedRow(g.node[n], op) # Absent
    <3>1. op.body.prop \in Prop /\ op.ts \in Time /\ g.node[n] \in NodeRow
      BY <2>3, FamilyOpByVerb DEF Graph
    <3>2. MergedRow(g.node[n], op) \in NodeRow
      BY <3>1 DEF MergedRow, NodeRow
    <3>. QED
      BY <3>2, AbsentIsNoRow
  <2>. QED
    BY <2>1, <2>2, <2>3 DEF NodeAfter
<1>2. Drops(op) \in SUBSET NodeId
  BY FamilyOpByVerb
<1>. QED
  BY <1>1, <1>2 DEF Lacks

\* A replay of one op more, and what it leaves outstanding.
LEMMA OneMore ==
  ASSUME NEW s \in Seq(FamilyOp), NEW op \in FamilyOp
  PROVE  /\ ReplayOf(s) \in Graph /\ Out(s) \in Outs
         /\ ReplayOf(Append(s, op)) = Apply(ReplayOf(s), op)
         /\ Out(Append(s, op)) = Outstand(Out(s), op)
<1>1. NothingOut \in Outs
  BY DEF NothingOut, Outs
<1>. QED
  BY ZenonT(60), <1>1, EmptyGraphType, FamilyLaws, OutLaws DEF ReplayOf, Out

\* A deletion that brings nothing is done once.
LEMMA DropsOnce ==
  ASSUME NEW g \in Graph, NEW op \in FamilyOp, op.body.verb = "curate", NoWires(op.body.wires)
  PROVE  Apply(Apply(g, op), op) = Apply(g, op)
<1>. DEFINE once == Apply(g, op)
            twice == Apply(once, op)
<1>1. Brings(op) = {} /\ BringsEdges(op) = {}
  BY DEF Brings, BringsEdges, Wire, HasWires, NoWires
<1>2. /\ once \in Graph
      /\ \A n \in NodeId : once.node[n] = NodeAfter(g, op, n)
      /\ \A e \in EdgeId : once.edge[e] = EdgeAfter(g, op, e)
  BY FamilyRows
<1>. HIDE DEF once
<1>3. /\ twice \in Graph
      /\ \A n \in NodeId : twice.node[n] = NodeAfter(once, op, n)
      /\ \A e \in EdgeId : twice.edge[e] = EdgeAfter(once, op, e)
  BY <1>2, FamilyRows
<1>. HIDE DEF twice
<1>4. \A n \in NodeId : twice.node[n] = once.node[n]
  BY <1>1, <1>2, <1>3 DEF NodeAfter
<1>5. ASSUME NEW e \in EdgeId
      PROVE  twice.edge[e] = once.edge[e]
  <2>1. \A n \in NodeId : n \in Drops(op) => once.node[n] = Absent
    BY <1>2 DEF NodeAfter
  <2>2. Source[e] \in NodeId /\ Target[e] \in NodeId
    BY EdgeEndpoints
  <2>3. CutBy(once, op, e) => e \in DropsEdges(op)
    BY <1>1, <2>1, <2>2 DEF CutBy
  <2>4. e \in DropsEdges(op) => CutBy(g, op, e)
    BY DEF CutBy
  <2>. QED
    BY <1>1, <1>2, <1>3, <2>3, <2>4 DEF EdgeAfter
<1>6. twice = once
  BY <1>2, <1>3, <1>4, <1>5, GraphEqual
<1>. QED
  BY <1>6 DEF once, twice

\* SelfConsistent, of any family, db and cursor.
ConsistentIn(fam, g, place) ==
  ReplayOf(FlattenSeq(fam)) = IF FoundIn(fam, place) THEN FoldLeft(Apply, g, PastIn(fam, place)) ELSE g

\* It is that of this family, db and cursor, before a step and after.
LEMMA ConsistentHere ==
  /\ SelfConsistent <=> ConsistentIn(family, graph, cursor)
  /\ SelfConsistent' <=> ConsistentIn(family', graph', cursor')
BY DEF SelfConsistent, ConsistentIn, FoundIn, PastIn, Found, Past, Healed, Records

\* A db that stands at the end is consistent when it is the replay, and so is one that
\* stands before a last record still to apply, or at no place.
LEMMA ConsistentAt ==
  ASSUME NEW fam \in Families, NEW g \in Graph
  PROVE  /\ FoldLeft(Apply, g, PastIn(fam, EndOf(fam))) = g
         /\ ReplayOf(FlattenSeq(fam)) = g => ConsistentIn(fam, g, EndOf(fam))
         /\ \A place \in Place : ReplayOf(FlattenSeq(fam)) = g /\ ~FoundIn(fam, place) =>
              ConsistentIn(fam, g, place)
         /\ \A op \in FamilyOp, place \in Place :
              ReplayOf(FlattenSeq(fam)) = Apply(g, op) /\ FoundIn(fam, place)
                /\ PastIn(fam, place) = <<op>> => ConsistentIn(fam, g, place)
<1>1. FoundIn(fam, EndOf(fam)) /\ PastIn(fam, EndOf(fam)) = <<>>
  BY EndFound
<1>2. FoldLeft(Apply, g, <<>>) = g
  <2>1. <<>> \in Seq(FamilyOp)
    OBVIOUS
  <2>. QED
    BY <2>1, FamilyLaws
<1>3. ASSUME NEW op \in FamilyOp
      PROVE  FoldLeft(Apply, g, <<op>>) = Apply(g, op)
  <2>1. <<>> \in Seq(FamilyOp) /\ <<op>> = Append(<<>>, op)
    OBVIOUS
  <2>2. FoldLeft(Apply, g, Append(<<>>, op)) = Apply(FoldLeft(Apply, g, <<>>), op)
    BY <2>1, FamilyLaws
  <2>. QED
    BY <1>2, <2>1, <2>2
<1>. QED
  BY <1>1, <1>2, <1>3 DEF ConsistentIn

\* No op of the family both brings and drops.
OneSidedOK == \A op \in ToSet(Records) : OneSided(op)

\* While a compaction runs the db is the replay of the family, but for the op it has
\* landed and not yet applied.
GraphOK ==
  /\ pc = "idle" => SelfConsistent
  /\ pc \in {"open", "scan", "append", "advance", "archive", "move", "restamp"} =>
       graph = ReplayOf(Records)
  /\ pc = "apply" => ReplayOf(Records) = Apply(graph, Last(family[Len(family)]))
  /\ pc = "advance" => Apply(graph, Last(family[Len(family)])) = graph

\* What it was asked to do, and the pending ids are of nodes the replay lacks.
CallerOK ==
  /\ pc # "idle" => domain \in Domain
  /\ pc = "append" => PlansOp
  /\ "removed" \notin Pending => pending = {}
  /\ pc \in {"open", "scan", "append"} => pending \subseteq Lacks(ReplayOf(Records))

\* What moves is out of the replay before the first rewrite, edges included.
FreeOK ==
  pc \in {"apply", "advance"} \/ (pc \in {"archive", "move"} /\ todo # {}) => Free(Moving, Records)

\* No edge of a node the family has dropped is still to come, where ids may be pending.
TidyOK == "removed" \in Pending => Free(Lacks(ReplayOf(Records)), Records)

JournalOK == OneSidedOK /\ GraphOK /\ CallerOK /\ FreeOK /\ TidyOK

\* A live gesture's op, on what its heal has made of the db.
LEMMA LiveStep ==
  ASSUME ShapeOK, NEW b \in Bodies, LiveGesture(b)
  PROVE  /\ Healed \in Graph /\ Found(cursor) /\ family \in Families /\ b \in Body \cup Curation
         /\ \E op \in FamilyOp :
              /\ op.body = BodyOf(Healed, b)
              /\ family' = LandedIn(family, op) /\ family' \in Families
              /\ Records \in Seq(FamilyOp) /\ Records' = Append(Records, op)
              /\ \/ graph' = Apply(Healed, op) /\ cursor' = EndOf(family')
                 \/ graph' = Healed /\ cursor' = EndOf(family)
         /\ pc = "idle" /\ pc' = "idle" /\ retired' = retired /\ pending' = pending
<1>. DEFINE op == [body |-> BodyOf(Healed, b), ts |-> Len(log) + 1]
<1>1. /\ TypeOK /\ Healed \in Graph /\ Found(cursor) /\ family \in Families
      /\ Len(log) + 1 \in Time /\ Records \in Seq(FamilyOp)
  BY Here DEF LiveGesture, ShapeOK, Time
<1>2. b \in Body \cup Curation
  BY CompactedBodies
<1>3. op \in FamilyOp /\ op.body = BodyOf(Healed, b)
  BY <1>1, <1>2, LiveOpType
<1>4. /\ family' = Landed(op) /\ pc = "idle" /\ pc' = pc /\ retired' = retired /\ pending' = pending
      /\ \/ graph' = Apply(Healed, op) /\ cursor' = EndOf(family')
         \/ graph' = Healed /\ cursor' = EndOf(family)
  BY DEF LiveGesture, BodyOf, run
<1>. HIDE DEF op
<1>5. family' = LandedIn(family, op) /\ family' \in Families /\ Records' = Append(Records, op)
  BY <1>1, <1>3, <1>4, LandedHere
<1>. QED
  BY <1>1, <1>2, <1>3, <1>4, <1>5

\* The other steps but a rewrite and the domain's op leave the records what they are.
LEMMA RecordsStay ==
  ASSUME ShapeOK, [Next]_vars, ~AppendDrop, ~Rewrite, \A b \in Bodies : ~LiveGesture(b)
  PROVE  Records' = Records
<1>1. CASE Rotate
  <2>1. family \in Families
    BY Here DEF ShapeOK
  <2>2. family' = family \/ family' = Append(family, <<>>)
    BY <1>1 DEF Rotate
  <2>. QED
    BY <2>1, <2>2, Rotated DEF Records
<1>2. CASE ~Rotate
  <2>1. family' = family
    BY <1>2 DEF Next, Compact, vars, Rebuild, Open, ScanRefused, Scan, ApplyDrop, AdvanceDrop,
       Archive, NothingToMove, Restamp, Crash
  <2>. QED
    BY <2>1 DEF Records
<1>. QED
  BY <1>1, <1>2

\* Fewer wires outstanding leave no more to find.
LEMMA FreeOfLess ==
  ASSUME NEW ids, NEW s, NEW t, Less(Out(t), Out(s)), Free(ids, s)
  PROVE  Free(ids, t)
BY DEF Less, Free

\* A rewrite changes nothing of the replay, and leaves one-sided what is so.
LEMMA RewriteReplay ==
  ASSUME ShapeOK, JournalOK, Rewrite
  PROVE  /\ ReplayOf(Records') = ReplayOf(Records) /\ Less(Out(Records'), Out(Records))
         /\ OneSidedOK'
<1>1. PICK k \in todo :
        /\ k \in 1 .. Len(family) /\ Len(family') = Len(family)
        /\ family[k] \in Seq(FamilyOp)
        /\ family' = [family EXCEPT ![k] = Kept(@)]
        /\ family' \in Families
        /\ family'[k] = Kept(family[k])
        /\ \A j \in 1 .. Len(family) : j # k => family'[j] = family[j]
  BY RewriteStep
<1>2. /\ family \in Seq(Seq(FamilyOp)) /\ family' \in Seq(Seq(FamilyOp)) /\ Moving \in SUBSET NodeId
      /\ Records = FlattenSeq(family) /\ Records' = FlattenSeq(family')
  BY <1>1, Here DEF ShapeOK, Families, Records
<1>3. /\ ToSet(Records) = UNION {ToSet(family[j]) : j \in 1 .. Len(family)}
      /\ ToSet(Records') = UNION {ToSet(family'[j]) : j \in 1 .. Len(family)}
  <2>1. \A ss \in Seq(Seq(FamilyOp)) :
          ToSet(FlattenSeq(ss)) = UNION {ToSet(ss[j]) : j \in 1 .. Len(ss)}
    BY SetOfSeqs
  <2>2. ToSet(FlattenSeq(family)) = UNION {ToSet(family[j]) : j \in 1 .. Len(family)}
    BY <1>2, <2>1
  <2>3. ToSet(FlattenSeq(family')) = UNION {ToSet(family'[j]) : j \in 1 .. Len(family')}
    BY <1>2, <2>1
  <2>. QED
    BY <1>1, <1>2, <2>2, <2>3
<1>4. \A j \in 1 .. Len(family) : \A op \in ToSet(family[j]) : OneSided(op)
  BY <1>3 DEF JournalOK, OneSidedOK
<1>5. Free(Moving, FlattenSeq(family))
  BY <1>2 DEF JournalOK, FreeOK, ShapeOK, Rewrite
<1>6. ReplayOf(Records') = ReplayOf(Records) /\ Less(Out(Records'), Out(Records))
  <2>. DEFINE seg == family[k]
  <2>1. ToSet(seg) = {seg[i] : i \in 1 .. Len(seg)}
    BY <1>1 DEF ToSet
  <2>2. \A i \in 1 .. Len(family[k]) : OneSided(family[k][i])
    BY <1>1, <1>4, <2>1
  <2>. HIDE DEF seg
  <2>. QED
    BY <1>1, <1>2, <1>5, <2>2, RewrittenReplay
<1>7. ASSUME NEW op \in ToSet(family'[k])
      PROVE  OneSided(op)
  <2>. DEFINE seg == family[k]
  <2>1. seg \in Seq(FamilyOp) /\ op \in ToSet(Kept(seg)) /\ \A o \in ToSet(seg) : OneSided(o)
    BY <1>1, <1>4, <1>7
  <2>. HIDE DEF seg
  <2>2. PICK o \in ToSet(seg) : op \in ToSet(KeptOf(o))
    BY <2>1, SegmentParts
  <2>3. o \in FamilyOp /\ OneSided(o)
    BY <2>1 DEF ToSet
  <2>4. (\A x : ToSet(<<x>>) = {x}) /\ ToSet(<<>>) = {}
    BY DEF ToSet
  <2>5. op = o \/ (Splits(o) /\ op = WithWires(o, PartOf(o, FALSE)))
    BY <2>2, <2>4 DEF KeptOf
  <2>6. Splits(o) => HasWires(o)
    BY DEF Splits
  <2>. QED
    BY <2>3, <2>5, <2>6, PartIsOp
<1>8. OneSidedOK'
  <2>1. ASSUME NEW op \in ToSet(Records')
        PROVE  OneSided(op)
    <3>1. PICK j \in 1 .. Len(family) : op \in ToSet(family'[j])
      BY <1>3, <2>1
    <3>. QED
      BY <1>1, <1>4, <1>7, <3>1
  <2>. QED
    BY <2>1 DEF OneSidedOK
<1>. QED
  BY <1>6, <1>8

\* Wherever a compaction stands, the next writer's heal gives the replay.
LEMMA ConsistentNow ==
  ASSUME ShapeOK, CursorOK, GraphOK
  PROVE  SelfConsistent
<1>1. /\ family \in Families /\ graph \in Graph /\ cursor \in Place /\ Records = FlattenSeq(family)
      /\ Found(cursor) <=> FoundIn(family, cursor)
      /\ Found(cursor) => Past(cursor) = PastIn(family, cursor)
  BY Here DEF ShapeOK
<1>2. CASE pc = "idle"
  BY <1>2 DEF GraphOK
<1>3. CASE pc \in {"open", "scan", "append", "archive"}
  <2>1. cursor = EndOf(family) /\ graph = ReplayOf(Records)
    BY <1>3 DEF CursorOK, GraphOK
  <2>. QED
    BY <1>1, <2>1, ConsistentAt, ConsistentHere
<1>4. CASE pc \in {"apply", "advance"}
  <2>. DEFINE tail == family[Len(family)]
              op == Last(tail)
  <2>1. Found(cursor) /\ Past(cursor) = <<op>>
    BY <1>4 DEF CursorOK
  <2>2. op \in FamilyOp
    <3>1. tail \in Seq(FamilyOp) /\ tail # <<>>
      BY <1>4, Here DEF ShapeOK, DropStands
    <3>. HIDE DEF tail
    <3>. QED
      BY <3>1 DEF Last
  <2>3. ReplayOf(Records) = Apply(graph, op)
    BY <1>4 DEF GraphOK
  <2>. HIDE DEF op
  <2>. QED
    BY <1>1, <2>1, <2>2, <2>3, ConsistentAt, ConsistentHere
<1>5. CASE pc \in {"move", "restamp"}
  <2>1. graph = ReplayOf(Records) /\ (cursor = EndOf(family) \/ ~Found(cursor))
    BY <1>5 DEF CursorOK, GraphOK
  <2>2. ReplayOf(FlattenSeq(family)) = graph
    BY <1>1, <2>1
  <2>3. cursor = EndOf(family) => ConsistentIn(family, graph, cursor)
    BY <1>1, <2>2, ConsistentAt
  <2>4. ~FoundIn(family, cursor) => ConsistentIn(family, graph, cursor)
    BY <2>2 DEF ConsistentIn
  <2>. QED
    BY <1>1, <2>1, <2>3, <2>4, ConsistentHere
<1>6. pc \in {"idle", "open", "scan", "append", "apply", "advance", "archive", "move", "restamp"}
  BY DEF ShapeOK, TypeOK
<1>. QED
  BY <1>2, <1>3, <1>4, <1>5, <1>6

\* Callers and domains journal no op that brings and drops, and a move makes none.
LEMMA OneSidedStep ==
  ASSUME MovesSafely, ShapeOK, JournalOK, [Next]_vars
  PROVE  OneSidedOK'
<1>1. Records \in Seq(FamilyOp) /\ OneSidedOK
  BY Here DEF ShapeOK, JournalOK
<1>2. ASSUME NEW op \in FamilyOp, OneSided(op), Records' = Append(Records, op)
      PROVE  OneSidedOK'
  <2>1. ToSet(Append(Records, op)) = ToSet(Records) \cup {op}
    <3>1. \A s \in Seq(FamilyOp) : \A x \in FamilyOp : ToSet(Append(s, x)) = ToSet(s) \cup {x}
      BY SetOfSeqs
    <3>. QED
      BY <1>1, <3>1
  <2>. QED
    BY <1>1, <1>2, <2>1 DEF OneSidedOK
<1>3. ASSUME NEW b \in Bodies, LiveGesture(b)
      PROVE  OneSidedOK'
  <2>1. Healed \in Graph /\ b \in Body \cup Curation
    BY <1>3, LiveStep
  <2>2. PICK op \in FamilyOp : op.body = BodyOf(Healed, b) /\ Records' = Append(Records, op)
    BY <1>3, LiveStep
  <2>3. OneSided(op)
    <3>1. /\ BodyOf(Healed, b).verb = b.verb
          /\ b.verb = "curate" => /\ BodyOf(Healed, b).wires = Delta(Healed, b.wires)
                                  /\ BodyOf(Healed, b).nodes = b.nodes
                                  /\ BodyOf(Healed, b).edges = b.edges
      <4>1. 0 \in Time
        BY DEF Time
      <4>. QED
        BY <2>1, <4>1, LiveOpType
    <3>2. NoWires(b.wires) => NoWires(Delta(Healed, b.wires))
      <4>1. ASSUME NoWires(b.wires)
            PROVE  Wired(Delta(Healed, b.wires)) = {} /\ Delta(Healed, b.wires).edges = {}
        <5>1. AbsentNodes(Healed, b.wires) = {} /\ AbsentEdges(Healed, b.wires) = {}
          BY <4>1 DEF NoWires, AbsentNodes, AbsentEdges
        <5>. QED
          BY <5>1 DEF Delta, Wired
      <4>. QED
        BY <4>1 DEF NoWires
    <3>. QED
      BY <2>2, <3>1, <3>2 DEF OneSided, MovesSafely
  <2>. QED
    BY <1>2, <2>2, <2>3
<1>4. CASE AppendDrop
  <2>1. DropOp \in FamilyOp /\ OneSided(DropOp) /\ family' = Landed(DropOp)
    BY <1>4, DropOpType DEF ShapeOK, OneSided, AppendDrop
  <2>2. Records' = Append(Records, DropOp)
    BY <2>1, LandedHere DEF ShapeOK
  <2>. QED
    BY <1>2, <2>1, <2>2
<1>5. CASE Rewrite
  BY <1>5, RewriteReplay
<1>6. CASE Records' = Records
  BY <1>1, <1>6 DEF OneSidedOK
<1>. QED
  BY <1>3, <1>4, <1>5, <1>6, RecordsStay

\* What the db holds follows the family at every step.
LEMMA GraphStep ==
  ASSUME ShapeOK, ShapeOK', CursorOK, JournalOK, [Next]_vars
  PROVE  GraphOK'
<1>1. /\ family \in Families /\ family' \in Families /\ graph \in Graph /\ graph' \in Graph
      /\ Records = FlattenSeq(family) /\ Records' = FlattenSeq(family')
      /\ Records \in Seq(FamilyOp) /\ GraphOK
  BY Here DEF ShapeOK, TypeOK, Families, Records, JournalOK
<1>2. SelfConsistent
  BY ConsistentNow, <1>1
<1>3. ASSUME pc' = "idle", family' = family, graph' = graph, cursor' = cursor
      PROVE  GraphOK'
  <2>1. SelfConsistent'
    BY <1>2, <1>3, ConsistentHere
  <2>. QED
    BY <1>3, <2>1 DEF GraphOK
<1>4. ASSUME pc' \in {"open", "scan", "append", "archive", "move", "restamp"},
             graph' = ReplayOf(Records')
      PROVE  GraphOK'
  BY <1>4 DEF GraphOK
<1>5. ASSUME NEW b \in Bodies, LiveGesture(b)
      PROVE  GraphOK'
  <2>1. /\ Healed \in Graph /\ Found(cursor) /\ pc' = "idle"
        /\ ReplayOf(Records) = Healed
    BY <1>2, <1>5, LiveStep DEF SelfConsistent
  <2>2. PICK op \in FamilyOp :
          /\ family' = LandedIn(family, op) /\ Records' = Append(Records, op)
          /\ \/ graph' = Apply(Healed, op) /\ cursor' = EndOf(family')
             \/ graph' = Healed /\ cursor' = EndOf(family)
    BY <1>5, LiveStep
  <2>3. ReplayOf(Records') = Apply(Healed, op)
    BY <1>1, <2>1, <2>2, OneMore
  <2>4. ASSUME graph' = Apply(Healed, op), cursor' = EndOf(family')
        PROVE  ConsistentIn(family', graph', cursor')
    BY <1>1, <2>3, <2>4, ConsistentAt
  <2>5. ASSUME graph' = Healed, cursor' = EndOf(family)
        PROVE  ConsistentIn(family', graph', cursor')
    <3>1. EndOf(family) \in Place /\ FoundIn(family, EndOf(family)) /\ PastIn(family, EndOf(family)) = <<>>
      BY <1>1, EndFound
    <3>2. /\ FoundIn(family', EndOf(family))
          /\ PastIn(family', EndOf(family)) = Append(PastIn(family, EndOf(family)), op)
      BY <1>1, <2>2, <3>1, LandedPast
    <3>3. Append(<<>>, op) = <<op>>
      OBVIOUS
    <3>4. PastIn(family', EndOf(family)) = <<op>>
      BY <3>1, <3>2, <3>3
    <3>5. ReplayOf(FlattenSeq(family')) = Apply(graph', op)
      BY <1>1, <2>3, <2>5
    <3>. QED
      BY <1>1, <2>5, <3>1, <3>2, <3>4, <3>5, ConsistentAt
  <2>6. ConsistentIn(family', graph', cursor')
    BY <2>2, <2>4, <2>5
  <2>7. SelfConsistent'
    BY <2>6, ConsistentHere
  <2>. QED
    BY <2>1, <2>7 DEF GraphOK
<1>6. CASE Rebuild
  <2>1. ConsistentIn(family', graph', cursor')
    BY <1>1, <1>6, ConsistentAt DEF Rebuild
  <2>2. SelfConsistent'
    BY <2>1, ConsistentHere
  <2>. QED
    BY <1>6, <2>2 DEF Rebuild, GraphOK
<1>7. ASSUME NEW ids \in Retire, NEW kind \in Pending, NEW removes \in Domain,
             Open(ids, kind, removes)
      PROVE  GraphOK'
  <2>1. Records' = Records /\ graph' = Healed /\ Found(cursor) /\ pc' = "open"
    BY <1>7 DEF Open, Records
  <2>2. graph' = ReplayOf(Records')
    BY <1>2, <2>1 DEF SelfConsistent
  <2>. QED
    BY <1>4, <2>1, <2>2
<1>8. CASE Rotate
  <2>1. Records' = Records
    <3>1. family' = family \/ family' = Append(family, <<>>)
      BY <1>8 DEF Rotate
    <3>. QED
      BY <1>1, <3>1, Rotated
  <2>. QED
    BY <1>1, <1>4, <1>8, <2>1 DEF Rotate, GraphOK, store
<1>9. CASE ScanRefused
  BY <1>3, <1>9 DEF ScanRefused, Release, store
<1>10. CASE Scan
  <2>1. Records' = Records
    BY <1>10 DEF Scan, Records
  <2>. QED
    BY <1>1, <1>4, <1>10, <2>1 DEF Scan, GraphOK, store
<1>11. CASE AppendDrop
  <2>1. /\ DropOp \in FamilyOp /\ family' = Landed(DropOp) /\ graph' = graph
        /\ pc' = "apply" /\ graph = ReplayOf(Records)
    BY <1>1, <1>11, DropOpType DEF AppendDrop, ShapeOK, GraphOK, store
  <2>2. Records' = Append(Records, DropOp) /\ Last(family'[Len(family')]) = DropOp
    BY <2>1, LandedHere, LandedInTail DEF ShapeOK
  <2>3. ReplayOf(Records') = Apply(graph', Last(family'[Len(family')]))
    BY <1>1, <2>1, <2>2, OneMore
  <2>. QED
    BY <2>1, <2>3 DEF GraphOK
<1>12. CASE ApplyDrop
  <2>. DEFINE tail == family[Len(family)]
              op == Last(tail)
  <2>1. /\ pc' = "advance" /\ family' = family /\ Records' = Records
        /\ graph' = Apply(graph, op) /\ ReplayOf(Records) = Apply(graph, op)
    BY <1>1, <1>12 DEF ApplyDrop, GraphOK, Records
  <2>2. op \in FamilyOp /\ op.body.verb = "curate" /\ NoWires(op.body.wires)
    <3>1. tail \in Seq(FamilyOp) /\ tail # <<>> /\ op.body.verb = "curate" /\ op.body.wires = NoWire
      BY <1>12, Here DEF ApplyDrop, ShapeOK, DropStands
    <3>2. NoWires(NoWire)
      BY DropOpType DEF ShapeOK
    <3>. HIDE DEF tail
    <3>3. Last(tail) \in FamilyOp
      BY <3>1 DEF Last
    <3>. QED
      BY <3>1, <3>2, <3>3
  <2>. HIDE DEF op
  <2>3. Apply(graph', op) = graph'
    BY <1>1, <2>1, <2>2, DropsOnce
  <2>. QED
    BY <2>1, <2>3 DEF GraphOK, op
<1>13. CASE AdvanceDrop
  <2>1. Records' = Records
    BY <1>13 DEF AdvanceDrop, Records
  <2>. QED
    BY <1>1, <1>4, <1>13, <2>1 DEF AdvanceDrop, GraphOK
<1>14. CASE Archive
  <2>1. Records' = Records
    BY <1>14 DEF Archive, Records
  <2>. QED
    BY <1>1, <1>4, <1>14, <2>1 DEF Archive, GraphOK, store
<1>15. CASE NothingToMove
  BY <1>3, <1>15 DEF NothingToMove, Release, store
<1>16. CASE Rewrite
  <2>1. ReplayOf(Records') = ReplayOf(Records)
    BY <1>16, RewriteReplay
  <2>2. graph' = ReplayOf(Records') /\ pc' \in {"move", "restamp"}
    BY <1>1, <1>16, <2>1 DEF Rewrite, GraphOK, store
  <2>. QED
    BY <1>4, <2>2
<1>17. CASE Restamp
  <2>1. pc' = "idle" /\ family' = family /\ graph' = graph /\ graph = ReplayOf(Records)
        /\ cursor' = EndOf(family)
    BY <1>1, <1>17 DEF Restamp, Release, GraphOK
  <2>2. ConsistentIn(family', graph', cursor')
    BY <1>1, <2>1, ConsistentAt
  <2>3. SelfConsistent'
    BY <2>2, ConsistentHere
  <2>. QED
    BY <2>1, <2>3 DEF GraphOK
<1>18. CASE Crash
  BY <1>3, <1>18 DEF Crash, Release, store
<1>19. CASE UNCHANGED vars
  <2>1. SelfConsistent' <=> SelfConsistent
    BY <1>19 DEF vars, SelfConsistent, Healed, Found, Past, Records
  <2>2. Records' = Records
    BY <1>19 DEF vars, Records
  <2>. QED
    BY <1>1, <1>19, <2>1, <2>2 DEF vars, GraphOK
<1>. QED
  BY <1>5, <1>6, <1>7, <1>8, <1>9, <1>10, <1>11, <1>12, <1>13, <1>14, <1>15, <1>16, <1>17, <1>18,
     <1>19 DEF Next, Compact

\* A compaction moves for the domains and callers it was opened for.
LEMMA CallerStep ==
  ASSUME MovesSafely, ShapeOK, JournalOK, GraphOK', [Next]_vars
  PROVE  CallerOK'
<1>1. CallerOK
  BY DEF JournalOK
<1>2. ASSUME pc' \notin {"open", "scan", "append"}, pc' # "idle" => pc # "idle",
             domain' = domain \/ pc' = "idle", pending' = pending \/ pending' = {}
      PROVE  CallerOK'
  BY <1>1, <1>2 DEF CallerOK
<1>3. ASSUME NEW b \in Bodies, LiveGesture(b)
      PROVE  CallerOK'
  BY <1>2, <1>3 DEF LiveGesture, run
<1>4. CASE Rebuild
  BY <1>2, <1>4 DEF Rebuild, run
<1>5. ASSUME NEW ids \in Retire, NEW kind \in Pending, NEW removes \in Domain,
             Open(ids, kind, removes)
      PROVE  CallerOK'
  <2>1. /\ pc' = "open" /\ domain' = removes /\ pending' = PendingIds(kind, Healed) \ ids
        /\ graph' = Healed /\ graph' = ReplayOf(Records')
    BY <1>5 DEF Open, GraphOK
  <2>2. kind \in {"none", "removed"}
    BY CompactedCallers DEF PendingKind, MovesSafely
  <2>3. kind = "none" => PendingIds(kind, Healed) = {}
    BY DEF PendingIds
  <2>4. kind = "removed" => PendingIds(kind, Healed) \subseteq Lacks(Healed)
    <3>1. JournaledIds \in SUBSET NodeId
      BY JournaledAreIds DEF ShapeOK
    <3>2. kind = "removed" => PendingIds(kind, Healed) = {n \in JournaledIds : Healed.node[n] = Absent}
      BY DEF PendingIds
    <3>. QED
      BY <3>1, <3>2 DEF Lacks
  <2>. QED
    BY <2>1, <2>2, <2>3, <2>4 DEF CallerOK
<1>6. CASE Rotate
  <2>1. Records' = Records
    BY <1>6, RecordsStay DEF Rotate, AppendDrop, Rewrite, LiveGesture
  <2>. QED
    BY <1>1, <1>6, <2>1 DEF Rotate, CallerOK, run
<1>7. CASE ScanRefused
  BY <1>2, <1>7 DEF ScanRefused, Release
<1>8. CASE Scan
  <2>1. Records' = Records /\ PlansOp' = PlansOp
    BY <1>8 DEF Scan, Records, PlansOp, run
  <2>. QED
    BY <1>1, <1>8, <2>1 DEF Scan, CallerOK, run
<1>9. CASE AppendDrop
  BY <1>2, <1>9 DEF AppendDrop, run
<1>10. CASE ApplyDrop
  BY <1>2, <1>10 DEF ApplyDrop, run
<1>11. CASE AdvanceDrop
  BY <1>2, <1>11 DEF AdvanceDrop, run
<1>12. CASE Archive
  BY <1>2, <1>12 DEF Archive, run
<1>13. CASE NothingToMove
  BY <1>2, <1>13 DEF NothingToMove, Release
<1>14. CASE Rewrite
  BY <1>2, <1>14 DEF Rewrite, run
<1>15. CASE Restamp
  BY <1>2, <1>15 DEF Restamp, Release
<1>16. CASE Crash
  BY <1>2, <1>16 DEF Crash, Release
<1>17. CASE UNCHANGED vars
  <2>1. Records' = Records /\ PlansOp' = PlansOp
    BY <1>17 DEF vars, Records, PlansOp, run
  <2>. QED
    BY <1>1, <1>17, <2>1 DEF vars, CallerOK, run
<1>. QED
  BY <1>3, <1>4, <1>5, <1>6, <1>7, <1>8, <1>9, <1>10, <1>11, <1>12, <1>13, <1>14, <1>15, <1>16,
     <1>17 DEF Next, Compact

\* What moves of a cold segment is among the ops that move.
LEMMA MovedAmong ==
  ASSUME ShapeOK, NEW k \in Cold
  PROVE  /\ family[k] \in Seq(FamilyOp) /\ Moved(family[k]) \in Seq(FamilyOp)
         /\ ToSet(Moved(family[k])) \subseteq ToSet(MovedOps)
         /\ Moved(family[k]) # <<>> => MovedOps # <<>>
<1>1. family \in Families /\ family \in Seq(Seq(FamilyOp)) /\ Cold = 1 .. Len(family) - 1
  BY Here DEF ShapeOK, Cold
<1>. DEFINE seg == family[k]
<1>2. seg \in Seq(FamilyOp)
  BY <1>1
<1>3. /\ MovedOps \in Seq(FamilyOp)
      /\ \A i \in 1 .. Len(Moved(seg)) : \E j \in 1 .. Len(MovedOps) : MovedOps[j] = Moved(seg)[i]
  BY <1>1, MovedOpsHaveWires
<1>. HIDE DEF seg
<1>4. Moved(seg) \in Seq(FamilyOp)
  BY <1>2, SegmentType
<1>5. ToSet(Moved(seg)) \subseteq ToSet(MovedOps)
  BY <1>3, <1>4 DEF ToSet
<1>6. ASSUME Moved(seg) # <<>>, MovedOps = <<>>
      PROVE  FALSE
  <2>1. 1 \in 1 .. Len(Moved(seg)) /\ Len(<<>>) = 0
    BY <1>4, <1>6
  <2>. QED
    BY <1>3, <1>6, <2>1
<1>. QED
  BY <1>2, <1>4, <1>5, <1>6 DEF seg

\* The domain's op is there to delete nodes and names every edge of theirs that stands.
LEMMA DropNamesAll ==
  ASSUME MovesSafely, ShapeOK, CleanOK, JournalOK, pc = "append"
  PROVE  /\ retired # {}
         /\ \A e \in Out(Records).edges : Touches(e) => e \in DropsEdges(DropOp)
<1>1. retired # {} /\ domain = "wires"
  <2>1. retired # {} /\ domain # "none" /\ domain \in Domain
    BY DEF JournalOK, CallerOK, PlansOp
  <2>. QED
    BY <2>1, CompactedCallers DEF DomainKind, MovesSafely
<1>2. /\ family \in Seq(Seq(FamilyOp)) /\ Records = FlattenSeq(family) /\ Records \in Seq(FamilyOp)
      /\ Len(family) \in Nat \ {0} /\ Cold = 1 .. Len(family) - 1
  BY Here DEF ShapeOK, Cold
<1>3. family[Len(family)] = <<>>
  BY <1>1 DEF CleanOK, Moving
<1>4. ASSUME NEW e \in Out(Records).edges, Touches(e)
      PROVE  e \in DropsEdges(DropOp)
  <2>1. PICK i \in 1 .. Len(Records) : e \in BringsEdges(Records[i])
    BY <1>2, PresentIsOut
  <2>. DEFINE op == Records[i]
  <2>2. op \in FamilyOp /\ op \in ToSet(Records) /\ HasWires(op) /\ e \in Wire(op).edges
    BY <1>2, <2>1 DEF ToSet, BringsEdges
  <2>. HIDE DEF op
  <2>3. PICK k \in 1 .. Len(family) : op \in ToSet(family[k])
    <3>1. \A ss \in Seq(Seq(FamilyOp)) :
            ToSet(FlattenSeq(ss)) = UNION {ToSet(ss[j]) : j \in 1 .. Len(ss)}
      BY SetOfSeqs
    <3>2. ToSet(Records) = UNION {ToSet(family[j]) : j \in 1 .. Len(family)}
      BY <1>2, <3>1
    <3>. QED
      BY <2>2, <3>2
  <2>4. k \in Cold
    <3>1. k # Len(family)
      <4>1. ToSet(<<>>) = {}
        BY DEF ToSet
      <4>. QED
        BY <1>3, <2>3, <4>1
    <3>. DEFINE n == Len(family)
    <3>2. n \in Nat \ {0} /\ k \in 1 .. n /\ k # n
      BY <1>2, <3>1
    <3>. HIDE DEF n
    <3>3. k \in 1 .. n - 1
      BY <3>2
    <3>. QED
      BY <1>2, <3>3 DEF n
  <2>5. Splits(op)
    <3>1. e \in PartOf(op, TRUE).edges
      BY <1>4, <2>2 DEF PartOf
    <3>. QED
      BY <2>2, <3>1 DEF Splits, NoWires
  <2>6. PICK x \in FamilyOp : x \in ToSet(MovedOf(op)) /\ e \in Wire(x).edges
    BY <1>4, <2>2, <2>5, SplitParts
  <2>7. x \in ToSet(MovedOps)
    <3>. DEFINE seg == family[k]
    <3>1. seg \in Seq(FamilyOp) /\ op \in ToSet(seg) /\ ToSet(Moved(seg)) \subseteq ToSet(MovedOps)
      BY <2>3, <2>4, MovedAmong
    <3>. HIDE DEF seg
    <3>2. x \in ToSet(Moved(seg))
      BY <2>6, <3>1, SegmentParts
    <3>. QED
      BY <3>1, <3>2
  <2>8. MovedOps \in Seq(FamilyOp)
    BY Here, MovedOpsHaveWires DEF ShapeOK
  <2>9. PICK j \in 1 .. Len(MovedOps) : x = MovedOps[j]
    BY <2>7, <2>8 DEF ToSet
  <2>10. DropsEdges(DropOp) = UNION {Wire(MovedOps[m]).edges : m \in 1 .. Len(MovedOps)}
    BY <1>1, DropOpType DEF ShapeOK
  <2>. QED
    BY <2>6, <2>9, <2>10
<1>. QED
  BY <1>1, <1>4

\* What moves is out of the replay when a rewrite begins: by the domain's op, or because
\* the family had dropped it.
LEMMA FreeStep ==
  ASSUME MovesSafely, ShapeOK, CleanOK, JournalOK, [Next]_vars
  PROVE  FreeOK'
<1>1. /\ Records \in Seq(FamilyOp) /\ FreeOK /\ TidyOK /\ CallerOK
  BY Here DEF ShapeOK, JournalOK
<1>2. ASSUME pc' \notin {"apply", "advance", "archive", "move"} \/ (pc' = "archive" /\ todo' = {})
      PROVE  FreeOK'
  BY <1>2 DEF FreeOK
<1>3. ASSUME retired' = retired, pending' = pending, Records' = Records, Free(Moving, Records)
      PROVE  FreeOK'
  <2>1. Moving' = Moving
    BY <1>3 DEF Moving
  <2>. QED
    BY <1>3, <2>1 DEF FreeOK
<1>4. ASSUME pending # {}, pending \subseteq Lacks(ReplayOf(Records))
      PROVE  "removed" \in Pending /\ Free(pending, Records)
  <2>1. "removed" \in Pending
    BY <1>1, <1>4 DEF CallerOK
  <2>2. Free(Lacks(ReplayOf(Records)), Records)
    BY <1>1, <2>1 DEF TidyOK
  <2>. QED
    BY <1>4, <2>1, <2>2 DEF Free
<1>5. ASSUME NEW b \in Bodies, LiveGesture(b)
      PROVE  FreeOK'
  BY <1>2, <1>5 DEF LiveGesture
<1>6. CASE Rebuild
  BY <1>2, <1>6 DEF Rebuild
<1>7. ASSUME NEW ids \in Retire, NEW kind \in Pending, NEW removes \in Domain,
             Open(ids, kind, removes)
      PROVE  FreeOK'
  BY <1>2, <1>7 DEF Open
<1>8. CASE Rotate
  BY <1>2, <1>8 DEF Rotate
<1>9. CASE ScanRefused
  BY <1>2, <1>9 DEF ScanRefused, Release
<1>10. CASE Scan
  <2>1. /\ pc = "scan" /\ Records' = Records /\ retired' = retired /\ pending' = pending
        /\ pc' = (IF PlansOp THEN "append" ELSE "archive") /\ ~Opless
        /\ todo' = {k \in Cold : Moved(family[k]) # <<>>}
    BY <1>10 DEF Scan, Records, run
  <2>2. ASSUME ~PlansOp, todo' # {}
        PROVE  Free(Moving, Records)
    <3>1. MovedOps # <<>>
      BY <2>1, <2>2, MovedAmong
    <3>2. pending # {} /\ pending \subseteq Lacks(ReplayOf(Records))
      BY <1>1, <2>1, <2>2, <3>1 DEF Opless, CallerOK
    <3>3. "removed" \in Pending /\ Free(pending, Records)
      BY <1>4, <3>2
    <3>4. retired = {}
      BY <1>1, <2>1, <2>2, <3>3 DEF CallerOK, PlansOp, MovesSafely
    <3>5. Moving = pending
      BY <3>4 DEF Moving
    <3>. QED
      BY <3>3, <3>5
  <2>3. CASE PlansOp
    BY <1>2, <2>1, <2>3
  <2>4. CASE ~PlansOp /\ todo' = {}
    BY <1>2, <2>1, <2>4
  <2>5. CASE ~PlansOp /\ todo' # {}
    BY <1>3, <2>1, <2>2, <2>5
  <2>. QED
    BY <2>3, <2>4, <2>5
<1>11. CASE AppendDrop
  <2>1. /\ pc = "append" /\ family' = Landed(DropOp) /\ DropOp \in FamilyOp
        /\ retired' = retired /\ pending' = pending
        /\ Brings(DropOp) = {} /\ BringsEdges(DropOp) = {} /\ Drops(DropOp) = retired
    BY <1>11, DropOpType DEF AppendDrop, ShapeOK, run
  <2>2. Records' = Append(Records, DropOp)
    BY <2>1, LandedHere DEF ShapeOK
  <2>3. /\ Out(Records') = Outstand(Out(Records), DropOp)
        /\ Out(Records) \in Outs
    BY <1>1, <2>1, <2>2, OneMore
  <2>4. /\ Out(Records').nodes = Out(Records).nodes \ retired
        /\ Out(Records').edges = Out(Records).edges \ DropsEdges(DropOp)
    BY <2>1, <2>3 DEF Outstand
  <2>5. \A e \in Out(Records').edges : ~Touches(e)
    BY <2>1, <2>4, DropNamesAll
  <2>6. Out(Records').nodes \cap pending = {}
    <3>1. CASE pending = {}
      BY <3>1
    <3>2. CASE pending # {}
      <4>1. Free(pending, Records)
        BY <1>1, <1>4, <2>1, <3>2 DEF CallerOK
      <4>. QED
        BY <2>4, <4>1 DEF Free
    <3>. QED
      BY <3>1, <3>2
  <2>7. Free(Moving, Records')
    BY <2>4, <2>5, <2>6 DEF Free, Moving, Touches
  <2>8. Moving' = Moving
    BY <2>1 DEF Moving
  <2>. QED
    BY <2>7, <2>8 DEF FreeOK
<1>12. CASE ApplyDrop
  BY <1>1, <1>3, <1>12 DEF ApplyDrop, FreeOK, Records, run
<1>13. CASE AdvanceDrop
  BY <1>1, <1>3, <1>13 DEF AdvanceDrop, FreeOK, Records, run
<1>14. CASE Archive
  BY <1>1, <1>3, <1>14 DEF Archive, FreeOK, Records, run
<1>15. CASE NothingToMove
  BY <1>2, <1>15 DEF NothingToMove, Release
<1>16. CASE Rewrite
  <2>1. Free(Moving, Records) /\ Moving' = Moving
    BY <1>1, <1>16 DEF Rewrite, ShapeOK, FreeOK, Moving, run
  <2>2. Less(Out(Records'), Out(Records))
    BY <1>16, RewriteReplay
  <2>3. Free(Moving, Records')
    BY <2>1, <2>2, FreeOfLess
  <2>. QED
    BY <2>1, <2>3 DEF FreeOK
<1>17. CASE Restamp
  BY <1>2, <1>17 DEF Restamp, Release
<1>18. CASE Crash
  BY <1>2, <1>18 DEF Crash, Release
<1>19. CASE UNCHANGED vars
  <2>1. Records' = Records /\ Moving' = Moving
    BY <1>19 DEF vars, Records, Moving, run
  <2>. QED
    BY <1>1, <1>19, <2>1 DEF vars, FreeOK
<1>. QED
  BY <1>5, <1>6, <1>7, <1>8, <1>9, <1>10, <1>11, <1>12, <1>13, <1>14, <1>15, <1>16, <1>17, <1>18,
     <1>19 DEF Next, Compact

\* A tidy op leaves no edge standing at a node that the graph lacks after it.
LEMMA TidyOp ==
  ASSUME NEW g \in Graph, NEW b \in Body \cup Curation, Tidy(b),
         NEW op \in FamilyOp, op.body = BodyOf(g, b),
         NEW out \in Outs, out.nodes \cap Lacks(g) = {},
         \A e \in out.edges : Source[e] \notin Lacks(g) /\ Target[e] \notin Lacks(g)
  PROVE  LET after == Outstand(out, op)
             lost  == Lacks(Apply(g, op))
         IN  /\ after.nodes \cap lost = {}
             /\ \A e \in after.edges : Source[e] \notin lost /\ Target[e] \notin lost
<1>1. Lacks(Apply(g, op)) = (Lacks(g) \ Brings(op)) \cup Drops(op)
  BY LacksAfter
<1>2. /\ op.body.verb = b.verb /\ b.verb # "delete"
      /\ b.verb = "extend" => b \in Wires /\ op.body = Delta(g, b)
      /\ b.verb = "curate" => /\ b \in Curation /\ op.body.wires = Delta(g, b.wires)
                              /\ op.body.nodes = b.nodes /\ op.body.edges = b.edges
  <2>1. 0 \in Time
    BY DEF Time
  <2>2. b.verb # "delete"
    BY DEF Tidy
  <2>3. /\ BodyOf(g, b).verb = b.verb
        /\ b.verb = "extend" => b \in Wires /\ BodyOf(g, b) = Delta(g, b)
        /\ b.verb = "curate" => /\ b \in Curation /\ BodyOf(g, b).wires = Delta(g, b.wires)
                                /\ BodyOf(g, b).nodes = b.nodes /\ BodyOf(g, b).edges = b.edges
    BY <2>1, LiveOpType
  <2>. QED
    BY <2>2, <2>3
<1>3. \A e \in EdgeId : Source[e] \in Drops(op) \/ Target[e] \in Drops(op) => e \in DropsEdges(op)
  BY <1>2 DEF Drops, DropsEdges, Tidy
<1>4. ASSUME NEW e \in BringsEdges(op), NEW n \in {Source[e], Target[e]}
      PROVE  n \notin Lacks(g) \/ n \in Brings(op)
  <2>1. ASSUME NEW w \in Wires, Wire(op) = Delta(g, w), e \in w.edges => n \in Wired(w)
        PROVE  n \notin Lacks(g) \/ n \in Wired(Wire(op))
    <3>1. e \in w.edges
      BY <1>4, <2>1 DEF BringsEdges, Delta, AbsentEdges
    <3>2. n \in Wired(w) /\ n \in NodeId /\ w.nodes[n] # Absent
      BY <2>1, <3>1 DEF Wired
    <3>3. g.node[n] = Absent => Delta(g, w).nodes[n] # Absent
      BY <3>2 DEF Delta, AbsentNodes
    <3>. QED
      BY <2>1, <3>2, <3>3 DEF Lacks, Wired
  <2>2. HasWires(op)
    BY <1>4 DEF BringsEdges
  <2>3. CASE b.verb = "extend"
    <3>1. b \in Wires /\ Wire(op) = Delta(g, b) /\ (e \in b.edges => n \in Wired(b))
      BY <1>2, <1>4, <2>3 DEF Wire, Tidy
    <3>. QED
      BY <2>1, <2>2, <3>1 DEF Brings
  <2>4. CASE b.verb = "curate"
    <3>1. b.wires \in Wires /\ Wire(op) = Delta(g, b.wires) /\ (e \in b.wires.edges => n \in Wired(b.wires))
      BY <1>2, <1>4, <2>4 DEF Wire, Tidy, Curation
    <3>. QED
      BY <2>1, <2>2, <3>1 DEF Brings
  <2>. QED
    BY <1>2, <2>2, <2>3, <2>4 DEF HasWires
<1>5. Outstand(out, op).nodes \cap Lacks(Apply(g, op)) = {}
  BY <1>1 DEF Outstand
<1>6. ASSUME NEW e \in Outstand(out, op).edges, NEW n \in {Source[e], Target[e]}
      PROVE  n \notin Lacks(Apply(g, op))
  <2>1. e \in EdgeId /\ e \notin DropsEdges(op) /\ (e \in out.edges \/ e \in BringsEdges(op))
    BY <1>6, FamilyOpByVerb DEF Outstand, Outs
  <2>2. n \notin Drops(op)
    BY <1>3, <1>6, <2>1
  <2>3. n \notin Lacks(g) \/ n \in Brings(op)
    BY <1>4, <1>6, <2>1
  <2>. QED
    BY <1>1, <2>2, <2>3
<1>. QED
  BY <1>5, <1>6

\* A family whose callers are tidy stays so.
LEMMA TidyStep ==
  ASSUME MovesSafely, ShapeOK, CleanOK, JournalOK, [Next]_vars
  PROVE  TidyOK'
<1>. DEFINE g == ReplayOf(Records)
<1>1. Records \in Seq(FamilyOp) /\ g \in Graph /\ Out(Records) \in Outs
  BY Here, PresentIsOut DEF ShapeOK
<1>2. SUFFICES ASSUME "removed" \in Pending
               PROVE  Free(Lacks(ReplayOf(Records')), Records')
  BY DEF TidyOK
<1>3. Free(Lacks(g), Records)
  BY <1>2 DEF JournalOK, TidyOK
<1>4. ASSUME NEW b \in Bodies, LiveGesture(b)
      PROVE  Free(Lacks(ReplayOf(Records')), Records')
  <2>1. b \in Body \cup Curation /\ Tidy(b)
    BY <1>2, <1>4, LiveStep DEF MovesSafely
  <2>2. Healed = g
    BY <1>4, LiveStep DEF JournalOK, GraphOK, SelfConsistent
  <2>3. PICK op \in FamilyOp : op.body = BodyOf(g, b) /\ Records' = Append(Records, op)
    BY <1>4, <2>2, LiveStep
  <2>4. ReplayOf(Records') = Apply(g, op) /\ Out(Records') = Outstand(Out(Records), op)
    BY <1>1, <2>3, OneMore
  <2>. HIDE DEF g
  <2>5. LET after == Outstand(Out(Records), op)
            lost  == Lacks(Apply(g, op))
        IN  /\ after.nodes \cap lost = {}
            /\ \A e \in after.edges : Source[e] \notin lost /\ Target[e] \notin lost
    BY <1>1, <1>3, <2>1, <2>3, TidyOp DEF Free
  <2>. QED
    BY <2>4, <2>5 DEF Free
<1>5. CASE AppendDrop
  <2>1. /\ pc = "append" /\ family' = Landed(DropOp) /\ DropOp \in FamilyOp
        /\ Brings(DropOp) = {} /\ BringsEdges(DropOp) = {} /\ Drops(DropOp) = retired
    BY <1>5, DropOpType DEF AppendDrop, ShapeOK
  <2>2. Records' = Append(Records, DropOp)
    BY <2>1, LandedHere DEF ShapeOK
  <2>3. ReplayOf(Records') = Apply(g, DropOp) /\ Out(Records') = Outstand(Out(Records), DropOp)
    BY <1>1, <2>1, <2>2, OneMore
  <2>. HIDE DEF g
  <2>4. Lacks(Apply(g, DropOp)) = Lacks(g) \cup retired
    <3>1. Lacks(Apply(g, DropOp)) = (Lacks(g) \ Brings(DropOp)) \cup Drops(DropOp)
      BY <1>1, <2>1, LacksAfter
    <3>. QED
      BY <2>1, <3>1
  <2>5. /\ Out(Records').nodes = Out(Records).nodes \ retired
        /\ Out(Records').edges = Out(Records).edges \ DropsEdges(DropOp)
    BY <2>1, <2>3 DEF Outstand
  <2>6. \A e \in Out(Records').edges : Source[e] \notin retired /\ Target[e] \notin retired
    <3>1. \A e \in Out(Records').edges : ~Touches(e)
      BY <2>1, <2>5, DropNamesAll
    <3>. QED
      BY <3>1 DEF Touches, Moving
  <2>. QED
    BY <1>3, <2>3, <2>4, <2>5, <2>6 DEF Free
<1>6. CASE Rewrite
  <2>1. ReplayOf(Records') = g /\ Less(Out(Records'), Out(Records))
    BY <1>6, RewriteReplay
  <2>2. Free(Lacks(g), Records')
    BY <1>3, <2>1, FreeOfLess
  <2>. QED
    BY <2>1, <2>2
<1>7. CASE Records' = Records
  BY <1>3, <1>7
<1>. QED
  BY <1>4, <1>5, <1>6, <1>7, RecordsStay

\* SelfConsistent: wherever a compaction dies, what the next writer's heal makes of the db
\* is what a replay of the family builds, when domains and callers use the move so
\* (compact.py, compact_family: the journal is self-consistent at every crash point).
THEOREM JournalIsConsistent ==
  ASSUME MovesSafely
  PROVE  Spec => []SelfConsistent
<1>1. Init => JournalOK
  <2>. SUFFICES ASSUME Init PROVE JournalOK
    OBVIOUS
  <2>1. Records = <<>>
    <3>1. <<<<>>>> \in Seq(Seq(FamilyOp)) /\ \A k \in 1 .. Len(<<<<>>>>) : <<<<>>>>[k] = <<>>
      OBVIOUS
    <3>. QED
      BY <3>1, NoRecords DEF Init, Records
  <2>2. <<>> \in Seq(FamilyOp) /\ ToSet(<<>>) = {} /\ NothingOut \in Outs
    BY DEF ToSet, NothingOut, Outs
  <2>3. ReplayOf(<<>>) = EmptyGraph /\ Out(<<>>) = NothingOut
    BY <2>2, EmptyGraphType, FamilyLaws, OutLaws DEF ReplayOf, Out
  <2>4. SelfConsistent
    <3>1. Found(cursor) /\ Past(cursor) = <<>> /\ graph = EmptyGraph
      BY <2>1 DEF Init, Found, Past
    <3>2. Healed = EmptyGraph
      BY <2>2, <2>3, <3>1 DEF Healed, ReplayOf
    <3>. QED
      BY <2>1, <2>3, <3>1, <3>2 DEF SelfConsistent
  <2>5. Free(Lacks(ReplayOf(Records)), Records)
    BY <2>1, <2>3 DEF Free, NothingOut
  <2>. QED
    BY <2>1, <2>2, <2>4, <2>5
    DEF Init, JournalOK, OneSidedOK, GraphOK, CallerOK, FreeOK, TidyOK
<1>2. ShapeOK /\ ShapeOK' /\ CursorOK /\ CleanOK /\ JournalOK /\ [Next]_vars => JournalOK'
  <2>. SUFFICES ASSUME ShapeOK, ShapeOK', CursorOK, CleanOK, JournalOK, [Next]_vars PROVE JournalOK'
    OBVIOUS
  <2>1. GraphOK'
    BY GraphStep
  <2>2. OneSidedOK'
    BY OneSidedStep
  <2>3. CallerOK'
    BY <2>1, CallerStep
  <2>4. FreeOK'
    BY FreeStep
  <2>5. TidyOK'
    BY TidyStep
  <2>. QED
    BY <2>1, <2>2, <2>3, <2>4, <2>5 DEF JournalOK
<1>3. ShapeOK /\ CursorOK /\ JournalOK => SelfConsistent
  BY ConsistentNow DEF JournalOK
<1>. QED
  BY <1>1, <1>2, <1>3, ShapeKept, CursorPlaced, CleanKept, PTL DEF Spec

\* CrashSafe: used so, a compaction that dies anywhere leaves a journal that builds what
\* the next heal makes of the db, and no wire ever journaled is lost (compact.py,
\* compact_family).
THEOREM DyingIsSafe ==
  ASSUME MovesSafely
  PROVE  Spec => []CrashSafe
<1>1. SelfConsistent /\ NothingLost => CrashSafe
  BY DEF CrashSafe
<1>. QED
  BY <1>1, JournalIsConsistent, MoveLosesNothing, PTL

=============================================================================
