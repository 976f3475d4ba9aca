---------------------------- MODULE ReplayProofs ----------------------------
(***************************************************************************)
(* Proofs about Replay: what it keeps to for every journal, every baseline *)
(* and every interleaving of replays, deaths and live writes.              *)
(***************************************************************************)
EXTENDS Replay, GraphStoreProofs

-----------------------------------------------------------------------------
(* One extend over a batch. *)

\* Records that extend.
WireOp == {op \in Op : op.body.verb = "extend"}

\* FlushedNodes as the step of a fold.
FlushStep(base) ==
  [p \in Graph \X WireOp |-> AddNodes(p[1], p[2].body.nodes, AbsentNodes(base, p[2].body), p[2].ts)]

\* It is one, whatever the graph the plan read.
LEMMA FlushStepType == ASSUME NEW base PROVE FlushStep(base) \in [Graph \X WireOp -> Graph]
<1>1. ASSUME NEW g \in Graph, NEW op \in WireOp
      PROVE  AddNodes(g, op.body.nodes, AbsentNodes(base, op.body), op.ts) \in Graph
  <2>1. op \in Op /\ op.body \in Wires /\ op.ts \in Time
    BY BodyByVerb DEF WireOp
  <2>2. \A n \in AbsentNodes(base, op.body) : op.body.nodes[n] \in Hash
    BY <2>1 DEF AbsentNodes, Wired, Wires
  <2>3. \A n \in AbsentNodes(base, op.body) : StampedNode(op.body.nodes[n], op.ts) \in NodeRow
    BY <2>1, <2>2 DEF StampedNode, NodeRow
  <2>. QED
    BY <2>3 DEF AddNodes, Graph
<1>. QED
  BY <1>1 DEF FlushStep

\* The library's fold of a batch is the fold by the graphs after each record.
LEMMA FoldFlush ==
  ASSUME NEW base \in Graph, NEW s \in Seq(WireOp)
  PROVE  FlushedNodes(base, s) = Folded(Graph, base, s, FlushStep(base))
<1>. DEFINE n == Len(s)
            Put(g, op) == AddNodes(g, op.body.nodes, AbsentNodes(base, op.body), op.ts)
            P(iter) == iter = [t \in SUBSET (1 .. n) |->
                          IF t = {} THEN base ELSE Put(iter[t \ {Max(t)}], s[Max(t)])]
            iter == CHOOSE f : P(f)
<1>1. n \in Nat /\ DOMAIN s = 1 .. n /\ \A i \in 1 .. n : s[i] \in WireOp
  OBVIOUS
<1>2. FlushedNodes(base, s) = iter[1 .. n]
  <2>1. FlushedNodes(base, s) =
          (CHOOSE f : f = [t \in SUBSET DOMAIN s |->
             IF t = {} THEN base ELSE Put(f[t \ {Max(t)}], s[Max(t)])])[DOMAIN s]
    BY DEF FlushedNodes, FoldLeft, MapThenFoldSet
  <2>. QED
    BY <1>1, <2>1
<1>3. Foldable(Graph, WireOp, base, s, FlushStep(base))
  BY FlushStepType DEF Foldable
<1>4. PICK f \in [SUBSET (1 .. n) -> Graph] : Recursion(f, base, s, FlushStep(base))
  BY <1>3, RecursionExists
<1>. HIDE DEF Put
<1>5. \A g \in Graph, op \in WireOp : FlushStep(base)[<<g, op>>] = Put(g, op)
  BY DEF FlushStep, Put
<1>6. P(f)
  <2>1. ASSUME NEW t \in SUBSET (1 .. n), t # {}
        PROVE  FlushStep(base)[<<f[t \ {Max(t)}], s[Max(t)]>>] = Put(f[t \ {Max(t)}], s[Max(t)])
    <3>1. Max(t) \in 1 .. n
      BY <1>1, <2>1, MaxOfPositions
    <3>2. f[t \ {Max(t)}] \in Graph /\ s[Max(t)] \in WireOp
      BY <1>1, <3>1
    <3>. QED
      BY <1>5, <3>2
  <2>. QED
    BY <1>4, <2>1 DEF Recursion
<1>7. P(iter)
  <2>. HIDE DEF P
  <2>. QED
    BY <1>6
<1>. HIDE DEF iter
<1>8. iter[{}] = base
  <2>1. {} \in SUBSET (1 .. n)
    OBVIOUS
  <2>. QED
    BY <1>7, <2>1
<1>9. ASSUME NEW m \in 1 .. n, iter[1 .. (m - 1)] \in Graph
      PROVE  iter[1 .. m] = FlushStep(base)[<<iter[1 .. (m - 1)], s[m]>>]
  <2>1. /\ (1 .. m) \in SUBSET (1 .. n) /\ (1 .. m) # {}
        /\ Max(1 .. m) = m /\ (1 .. m) \ {m} = 1 .. (m - 1)
    BY <1>1, FirstPositions
  <2>2. iter[1 .. m] = Put(iter[1 .. (m - 1)], s[m])
    BY <1>7, <2>1
  <2>. QED
    BY <1>1, <1>5, <1>9, <2>2
<1>10. iter[1 .. n] = Folded(Graph, base, s, FlushStep(base))
  BY <1>3, <1>8, <1>9, FoldedByPositions
<1>. QED
  BY <1>2, <1>10

\* A flush leaves a graph, and what is then due are edges with times.
LEMMA FlushType ==
  ASSUME NEW base \in Graph, NEW s \in Seq(WireOp)
  PROVE  /\ FlushedNodes(base, s) \in Graph
         /\ DueEdges(base, s) \in SUBSET [edge: EdgeId, ts: Time]
<1>1. FlushedNodes(base, s) \in Graph
  <2>1. Foldable(Graph, WireOp, base, s, FlushStep(base))
    BY FlushStepType DEF Foldable
  <2>. QED
    BY <2>1, FoldFlush, FoldedRun
<1>2. ASSUME NEW i \in 1 .. Len(s), NEW e \in AbsentEdges(base, s[i].body)
      PROVE  [edge |-> e, ts |-> s[i].ts] \in [edge: EdgeId, ts: Time]
  <2>1. s[i] \in Op /\ s[i].body.verb = "extend"
    BY DEF WireOp
  <2>2. s[i].body \in Wires /\ s[i].ts \in Time
    BY <2>1, BodyByVerb
  <2>. QED
    BY <2>2 DEF AbsentEdges, Wires
<1>. QED
  BY <1>1, <1>2 DEF DueEdges

\* Adding them does too.
LEMMA WithEdgesType ==
  ASSUME NEW g \in Graph, NEW due \in SUBSET [edge: EdgeId, ts: Time]
  PROVE  WithEdges(g, due) \in Graph
<1>1. ASSUME NEW e \in EdgeId, \E d \in due : d.edge = e
      PROVE  [created |-> (CHOOSE d \in due : d.edge = e).ts] \in EdgeRow
  <2>1. (CHOOSE d \in due : d.edge = e) \in due
    BY <1>1
  <2>. QED
    BY <2>1 DEF EdgeRow
<1>. QED
  BY <1>1 DEF WithEdges, Graph

\* A flush, one record after another.
LEMMA FlushLaws ==
  ASSUME NEW base \in Graph, NEW s \in Seq(WireOp)
  PROVE  /\ s = <<>> => FlushedNodes(base, s) = base
         /\ \A op \in WireOp : FlushedNodes(base, Append(s, op)) =
              AddNodes(FlushedNodes(base, s), op.body.nodes, AbsentNodes(base, op.body), op.ts)
<1>1. Foldable(Graph, WireOp, base, s, FlushStep(base))
  BY FlushStepType DEF Foldable
<1>2. ASSUME s = <<>>
      PROVE  FlushedNodes(base, s) = base
  <2>1. Len(s) = 0
    BY <1>2
  <2>2. Folded(Graph, base, s, FlushStep(base)) = base
    BY <1>1, <2>1, FoldedEmpty
  <2>. QED
    BY <2>2, FoldFlush
<1>3. ASSUME NEW op \in WireOp
      PROVE  FlushedNodes(base, Append(s, op)) =
              AddNodes(FlushedNodes(base, s), op.body.nodes, AbsentNodes(base, op.body), op.ts)
  <2>1. Append(s, op) \in Seq(WireOp)
    OBVIOUS
  <2>2. Folded(Graph, base, Append(s, op), FlushStep(base)) =
          FlushStep(base)[<<Folded(Graph, base, s, FlushStep(base)), op>>]
    BY <1>1, FoldedAppend
  <2>3. FlushedNodes(base, s) = Folded(Graph, base, s, FlushStep(base))
    BY FoldFlush
  <2>4. FlushedNodes(base, Append(s, op)) = Folded(Graph, base, Append(s, op), FlushStep(base))
    BY <2>1, FoldFlush
  <2>5. <<FlushedNodes(base, s), op>> \in Graph \X WireOp
    BY FlushType
  <2>. QED
    BY <2>2, <2>3, <2>4, <2>5 DEF FlushStep
<1>. QED
  BY <1>2, <1>3

\* No two records of a batch emit the same row.
Disjoint(s) ==
  \A i, j \in 1 .. Len(s) : i # j =>
    /\ Wired(s[i].body) \cap Wired(s[j].body) = {}
    /\ s[i].body.edges \cap s[j].body.edges = {}

\* A batch of records that emit different rows is its records one by one: its
\* nodes are theirs, and its edges bring the rest.
LEMMA FlushIsReplay ==
  ASSUME NEW base \in Graph, NEW s \in Seq(WireOp), Disjoint(s)
  PROVE  /\ FoldLeft(ApplyOp, base, s) \in Graph
         /\ FlushedNodes(base, s).node = FoldLeft(ApplyOp, base, s).node
         /\ FlushedNodes(base, s).edge = base.edge
         /\ \A n \in NodeId : base.node[n] # Absent => FlushedNodes(base, s).node[n] = base.node[n]
         /\ WithEdges(FlushedNodes(base, s), DueEdges(base, s)) = FoldLeft(ApplyOp, base, s)
<1>. DEFINE r(m) == FoldLeft(ApplyOp, base, SubSeq(s, 1, m))
            f(m) == FlushedNodes(base, SubSeq(s, 1, m))
            Agree(m) ==
              /\ r(m) \in Graph
              /\ f(m).node = r(m).node /\ f(m).edge = base.edge
              /\ \A n \in NodeId : base.node[n] # Absent \/ (\A i \in 1 .. m : n \notin Wired(s[i].body)) =>
                   r(m).node[n] = base.node[n]
              /\ \A e \in EdgeId : (\A i \in 1 .. m : e \notin s[i].body.edges) =>
                   r(m).edge[e] = base.edge[e]
              /\ \A i \in 1 .. m, e \in EdgeId : e \in s[i].body.edges =>
                   r(m).edge[e] = IF base.edge[e] = Absent THEN [created |-> s[i].ts] ELSE base.edge[e]
            P(m) == m <= Len(s) => Agree(m)
<1>1. /\ Len(s) \in Nat /\ s \in Seq(Op)
      /\ \A i \in 1 .. Len(s) : s[i] \in WireOp
  BY DEF WireOp
<1>2. \A i \in 1 .. Len(s) :
        /\ s[i] \in Op /\ s[i].body.verb = "extend" /\ s[i].body \in Wires /\ s[i].ts \in Time
  BY <1>1, BodyByVerb DEF WireOp
<1>3. Agree(0)
  <2>1. SubSeq(s, 1, 0) = <<>> /\ SubSeq(s, 1, 0) \in Seq(Op) /\ SubSeq(s, 1, 0) \in Seq(WireOp)
    BY <1>1
  <2>2. r(0) = base
    BY <2>1, ReplayLaws
  <2>3. f(0) = base
    BY <2>1, FlushLaws
  <2>. HIDE DEF r, f
  <2>. QED
    BY <2>2, <2>3
<1>4. ASSUME NEW m \in Nat, m + 1 <= Len(s), Agree(m)
      PROVE  Agree(m + 1)
  <2>. DEFINE op == s[m + 1]
              past == SubSeq(s, 1, m)
  <2>1. /\ m + 1 \in 1 .. Len(s) /\ \A i \in 1 .. m : i \in 1 .. Len(s) /\ i # m + 1
        /\ \A i \in 1 .. (m + 1) : i = m + 1 \/ i \in 1 .. m
        /\ \A i \in 1 .. m : i \in 1 .. (m + 1)
        /\ m + 1 \in 1 .. (m + 1)
    BY <1>1, <1>4
  <2>2. op \in Op /\ op \in WireOp /\ op.body.verb = "extend" /\ op.body \in Wires /\ op.ts \in Time
    BY <1>1, <1>2, <2>1
  <2>3. past \in Seq(Op) /\ past \in Seq(WireOp) /\ SubSeq(s, 1, m + 1) = Append(past, op)
    BY <1>1, <2>1
  <2>4. r(m + 1) = ApplyOp(r(m), op)
    <3>. HIDE DEF past, op
    <3>1. FoldLeft(ApplyOp, base, Append(past, op)) = ApplyOp(FoldLeft(ApplyOp, base, past), op)
      BY <2>2, <2>3, ReplayLaws
    <3>. QED
      BY <2>3, <3>1 DEF past
  <2>5. f(m + 1) = AddNodes(f(m), op.body.nodes, AbsentNodes(base, op.body), op.ts)
    <3>. HIDE DEF past, op
    <3>1. FlushedNodes(base, Append(past, op)) =
            AddNodes(FlushedNodes(base, past), op.body.nodes, AbsentNodes(base, op.body), op.ts)
      BY <2>2, <2>3, FlushLaws
    <3>. QED
      BY <2>3, <3>1 DEF past
  <2>6. /\ \A n \in Wired(op.body) : \A i \in 1 .. m : n \notin Wired(s[i].body)
        /\ \A e \in op.body.edges : \A i \in 1 .. m : e \notin s[i].body.edges
    BY <2>1 DEF Disjoint
  <2>. HIDE DEF op, past, r, f
  <2>7. r(m + 1) \in Graph /\ r(m) \in Graph
    BY <1>4, <2>2, <2>4, ApplyOpType
  <2>8. r(m + 1) = Extend(r(m), op.body, op.ts)
    BY <2>2, <2>4, ApplyByVerb
  <2>9. Wired(op.body) \subseteq NodeId /\ op.body.edges \subseteq EdgeId
    BY <2>2 DEF Wired, Wires
  <2>10. /\ \A n \in Wired(op.body) : r(m).node[n] = base.node[n]
         /\ \A e \in op.body.edges : r(m).edge[e] = base.edge[e]
    BY <1>4, <2>6, <2>9
  <2>11. AbsentNodes(r(m), op.body) = AbsentNodes(base, op.body)
    BY <2>10 DEF AbsentNodes
  <2>12. /\ r(m + 1).node = [n \in NodeId |-> IF n \in AbsentNodes(base, op.body)
                                                THEN StampedNode(op.body.nodes[n], op.ts) ELSE r(m).node[n]]
         /\ \A e \in EdgeId : r(m + 1).edge[e] =
              IF e \in op.body.edges /\ r(m).edge[e] = Absent THEN [created |-> op.ts] ELSE r(m).edge[e]
    BY <2>8, <2>11 DEF Extend, AddEdges, ExtendNodes, AddNodes, AbsentEdges
  <2>13. f(m + 1).node = r(m + 1).node /\ f(m + 1).edge = base.edge
    BY <1>4, <2>5, <2>12 DEF AddNodes
  <2>14. ASSUME NEW n \in NodeId,
                base.node[n] # Absent \/ \A i \in 1 .. (m + 1) : n \notin Wired(s[i].body)
         PROVE  r(m + 1).node[n] = base.node[n]
    <3>1. /\ base.node[n] # Absent \/ n \notin Wired(op.body)
          /\ base.node[n] # Absent \/ \A i \in 1 .. m : n \notin Wired(s[i].body)
      BY <2>1, <2>14 DEF op
    <3>2. r(m).node[n] = base.node[n]
      BY <1>4, <3>1
    <3>. QED
      BY <2>12, <3>1, <3>2 DEF AbsentNodes
  <2>15. ASSUME NEW e \in EdgeId, \A i \in 1 .. (m + 1) : e \notin s[i].body.edges
         PROVE  r(m + 1).edge[e] = base.edge[e]
    <3>1. e \notin op.body.edges /\ \A i \in 1 .. m : e \notin s[i].body.edges
      BY <2>1, <2>15 DEF op
    <3>2. r(m).edge[e] = base.edge[e]
      BY <1>4, <3>1
    <3>. QED
      BY <2>12, <3>1, <3>2
  <2>16. ASSUME NEW i \in 1 .. (m + 1), NEW e \in EdgeId, e \in s[i].body.edges
         PROVE  r(m + 1).edge[e] = IF base.edge[e] = Absent THEN [created |-> s[i].ts] ELSE base.edge[e]
    <3>1. CASE i = m + 1
      <4>1. s[i] = op /\ e \in op.body.edges
        BY <2>16, <3>1 DEF op
      <4>2. r(m).edge[e] = base.edge[e]
        BY <2>10, <4>1
      <4>. QED
        BY <2>12, <4>1, <4>2
    <3>2. CASE i \in 1 .. m
      <4>1. r(m).edge[e] = IF base.edge[e] = Absent THEN [created |-> s[i].ts] ELSE base.edge[e]
        BY <1>4, <2>16, <3>2
      <4>2. e \notin op.body.edges
        BY <2>6, <2>16, <3>2
      <4>. QED
        BY <2>12, <4>1, <4>2
    <3>. QED
      BY <2>1, <3>1, <3>2
  <2>. QED
    BY <2>7, <2>13, <2>14, <2>15, <2>16
<1>5. Agree(Len(s))
  <2>. HIDE DEF Agree
  <2>1. P(0) /\ \A m \in Nat : P(m) => P(m + 1)
    BY <1>1, <1>3, <1>4
  <2>. DEFINE S == {m \in Nat : P(m)}
  <2>2. 0 \in S /\ \A m \in Nat : m \in S => m + 1 \in S
    <3>. HIDE DEF P
    <3>. QED
      BY <2>1
  <2>3. Len(s) \in S
    <3>. HIDE DEF S
    <3>. QED
      BY <1>1, <2>2, SetInduction
  <2>. QED
    BY <1>1, <2>3
<1>. DEFINE whole == FoldLeft(ApplyOp, base, s)
            flushed == FlushedNodes(base, s)
            due == DueEdges(base, s)
            done == WithEdges(flushed, due)
<1>6. r(Len(s)) = whole /\ f(Len(s)) = flushed
  <2>1. SubSeq(s, 1, Len(s)) = s
    BY <1>1
  <2>. QED
    BY <2>1
<1>7. /\ whole \in Graph /\ flushed.node = whole.node /\ flushed.edge = base.edge
      /\ \A n \in NodeId : base.node[n] # Absent => whole.node[n] = base.node[n]
      /\ \A e \in EdgeId : (\A i \in 1 .. Len(s) : e \notin s[i].body.edges) =>
                   whole.edge[e] = base.edge[e]
      /\ \A i \in 1 .. Len(s), e \in EdgeId : e \in s[i].body.edges =>
           whole.edge[e] = IF base.edge[e] = Absent THEN [created |-> s[i].ts] ELSE base.edge[e]
  <2>. HIDE DEF r, f
  <2>. QED
    BY <1>5, <1>6
<1>8. done \in Graph
  BY FlushType, WithEdgesType
<1>9. ASSUME NEW e \in EdgeId
      PROVE  done.edge[e] = whole.edge[e]
  <2>. HIDE DEF whole, flushed, due
  <2>1. done.edge[e] = IF \E d \in due : d.edge = e
                         THEN [created |-> (CHOOSE d \in due : d.edge = e).ts] ELSE flushed.edge[e]
    BY DEF WithEdges
  <2>2. ASSUME NEW d
        PROVE  d \in due <=> \E i \in 1 .. Len(s) : \E a \in AbsentEdges(base, s[i].body) :
                                d = [edge |-> a, ts |-> s[i].ts]
    BY DEF due, DueEdges
  <2>3. CASE \E d \in due : d.edge = e
    <3>. DEFINE d == CHOOSE x \in due : x.edge = e
    <3>1. d \in due /\ d.edge = e
      BY <2>3
    <3>. HIDE DEF d
    <3>2. PICK i \in 1 .. Len(s) : \E a \in AbsentEdges(base, s[i].body) : d = [edge |-> a, ts |-> s[i].ts]
      BY <2>2, <3>1
    <3>3. d.ts = s[i].ts /\ e \in AbsentEdges(base, s[i].body)
      BY <3>1, <3>2
    <3>4. e \in s[i].body.edges /\ base.edge[e] = Absent
      BY <3>3 DEF AbsentEdges
    <3>5. whole.edge[e] = [created |-> s[i].ts]
      BY <1>7, <3>4
    <3>. QED
      BY <2>1, <2>3, <3>3, <3>5 DEF d
  <2>4. CASE ~ \E d \in due : d.edge = e
    <3>1. \A i \in 1 .. Len(s) : e \in s[i].body.edges => base.edge[e] # Absent
      <4>1. SUFFICES ASSUME NEW i \in 1 .. Len(s), e \in s[i].body.edges, base.edge[e] = Absent
                     PROVE  FALSE
        OBVIOUS
      <4>2. e \in AbsentEdges(base, s[i].body)
        BY <4>1 DEF AbsentEdges
      <4>3. [edge |-> e, ts |-> s[i].ts] \in due
        BY <2>2, <4>2
      <4>. QED
        BY <2>4, <4>3
    <3>2. whole.edge[e] = base.edge[e]
      BY <1>7, <3>1
    <3>. QED
      BY <1>7, <2>1, <2>4, <3>2
  <2>. QED
    BY <2>3, <2>4
<1>10. done.node = whole.node
  BY <1>7 DEF WithEdges
<1>11. done = whole
  <2>. HIDE DEF done, whole
  <2>. QED
    BY <1>7, <1>8, <1>9, <1>10, GraphEqual
<1>. QED
  BY <1>7, <1>11

-----------------------------------------------------------------------------
(* Types, the lock, and the family a replay has read. *)

\* What is pending is to extend.
WiresPending == \A i \in 1 .. Len(pending) : pending[i].body.verb = "extend"

\* Where each part of a call has come to.  A db that writers write has a cursor,
\* a call onto one that had a cursor holds the lock from its entry to its end, and
\* so its one read of the family is the family until then.
PhaseInv ==
  /\ live => cursor # Unstamped
  /\ pc = "idle" => held = Unstamped
  /\ pc \in {"idle", "locking"} => ~locked
  /\ pc \in {"reading", "applying", "edges"} => locked = (held # Unstamped)
  /\ pc # "idle" => (held = Unstamped <=> cursor = Unstamped)
  /\ held <= cursor /\ cursor <= Len(journal)
  /\ pc \notin {"applying", "edges"} => pending = <<>> /\ edgesDue = {}
  /\ pc \in {"applying", "edges"} => cursor <= end /\ end <= Len(journal)
  /\ ReadIsCurrent

IInv == TypeOK /\ WiresPending /\ PhaseInv

\* The exported records are ops.
LEMMA GenesisType ==
  /\ GenesisRecords \in Seq(WireOp) /\ GenesisRecords \in Seq(Op)
  /\ Len(GenesisRecords) = Len(Baseline) /\ Len(Baseline) \in Nat
  /\ \A i \in 1 .. Len(Baseline) : /\ GenesisRecords[i] = [body |-> Baseline[i], ts |-> i]
                                   /\ Baseline[i] \in Wires
                                   /\ GenesisRecords[i].body = Baseline[i]
                                   /\ Baseline[i].verb = "extend"
<1>1. Len(Baseline) \in Nat /\ \A i \in 1 .. Len(Baseline) : Baseline[i] \in Wires
  BY ReplayBodies
<1>2. \A i \in 1 .. Len(Baseline) : [body |-> Baseline[i], ts |-> i] \in WireOp
  BY <1>1 DEF WireOp, Op, Body, Time, Wires
<1>3. GenesisRecords \in Seq(WireOp) /\ Len(GenesisRecords) = Len(Baseline)
  BY <1>1, <1>2 DEF GenesisRecords
<1>4. GenesisRecords \in Seq(Op)
  BY <1>3 DEF WireOp
<1>5. \A i \in 1 .. Len(Baseline) : GenesisRecords[i] = [body |-> Baseline[i], ts |-> i]
  BY <1>1 DEF GenesisRecords
<1>6. ASSUME NEW i \in 1 .. Len(Baseline)
      PROVE  GenesisRecords[i].body = Baseline[i]
  <2>. DEFINE record == GenesisRecords[i]
              body == Baseline[i]
  <2>1. record = [body |-> body, ts |-> i]
    BY <1>5
  <2>. HIDE DEF record, body
  <2>2. record.body = body
    BY <2>1
  <2>. QED
    BY <2>2 DEF record, body
<1>7. \A i \in 1 .. Len(Baseline) : Baseline[i].verb = "extend"
  BY <1>1 DEF Wires
<1>. QED
  BY <1>1, <1>3, <1>4, <1>5, <1>6, <1>7

\* It holds at the start.
LEMMA InitInvariant == Init => IInv
<1>. SUFFICES ASSUME Init PROVE IInv
  OBVIOUS
<1>1. journal \in Seq(Op) /\ Len(journal) = Len(Baseline) /\ Len(Baseline) \in Nat
  BY GenesisType DEF Init
<1>2. graph \in Graph
  BY GenesisType, EmptyGraphType, ReplayLaws DEF Init, ReplayOf
<1>3. TypeOK
  <2>1. pending \in Seq(Op) /\ edgesDue \in SUBSET [edge: EdgeId, ts: Time]
    BY DEF Init
  <2>2. cursor \in Nat \cup {Unstamped} /\ held \in Nat \cup {Unstamped}
    BY <1>1 DEF Init
  <2>. QED
    BY <1>1, <1>2, <2>1, <2>2 DEF Init, TypeOK
<1>4. WiresPending
  BY DEF Init, WiresPending
<1>5. PhaseInv
  BY <1>1 DEF Init, PhaseInv, ReadIsCurrent, Unstamped
<1>. QED
  BY <1>3, <1>4, <1>5 DEF IInv

\* The db a live gesture plans against is one.
LEMMA HealedType == ASSUME IInv PROVE Healed \in Graph
<1>1. CASE live
  <2>. DEFINE rest == SubSeq(journal, cursor + 1, Len(journal))
  <2>1. cursor \in Nat /\ journal \in Seq(Op) /\ graph \in Graph
    BY <1>1 DEF IInv, TypeOK, PhaseInv
  <2>2. rest \in Seq(Op)
    BY <2>1
  <2>. HIDE DEF rest
  <2>3. FoldLeft(ApplyOp, graph, rest) \in Graph
    BY <2>1, <2>2, ReplayLaws
  <2>. QED
    BY <1>1, <2>3 DEF Healed, rest
<1>2. CASE ~live
  BY <1>2, EmptyGraphType, ReplayLaws DEF Healed, ReplayOf, IInv, TypeOK
<1>. QED
  BY <1>1, <1>2

\* What a live gesture lands, and what it does to the db.
LEMMA GestureFacts ==
  ASSUME IInv, NEW b \in Bodies, LiveGesture(b)
  PROVE  \E op \in Op :
           /\ op.body = Planned(Healed, b) /\ b \in Body
           /\ journal' = Append(journal, op)
           /\ journal' \in Seq(Op) /\ Len(journal') = Len(journal) + 1 /\ Len(journal) \in Nat
           /\ journal'[Len(journal) + 1] = op
           /\ \A i \in 1 .. Len(journal) : journal'[i] = journal[i]
           /\ IF live
                THEN \/ graph' = ApplyOp(Healed, op) /\ cursor' = Len(journal) + 1
                     \/ graph' = Healed /\ cursor' = Len(journal)
                     \/ /\ op.body.verb = "extend"
                        /\ graph' = ExtendNodes(Healed, op.body, op.ts)
                        /\ cursor' = Len(journal)
                ELSE graph' = graph /\ cursor' = cursor
<1>. DEFINE op == [body |-> Planned(Healed, b), ts |-> Len(journal) + 1]
<1>1. journal \in Seq(Op) /\ Len(journal) \in Nat /\ b \in Body /\ Healed \in Graph
  BY HealedType, ReplayBodies DEF IInv, TypeOK
<1>2. op \in Op /\ op.body = Planned(Healed, b)
  BY <1>1, PlannedType DEF Op, Time
<1>3. /\ journal' = Append(journal, op)
      /\ IF live
                THEN \/ graph' = ApplyOp(Healed, op) /\ cursor' = Len(journal')
                     \/ graph' = Healed /\ cursor' = Len(journal)
                     \/ /\ op.body.verb = "extend"
                        /\ graph' = ExtendNodes(Healed, op.body, op.ts)
                        /\ cursor' = Len(journal)
                ELSE graph' = graph /\ cursor' = cursor
  BY DEF LiveGesture, store
<1>. HIDE DEF op
<1>4. /\ journal' \in Seq(Op) /\ Len(journal') = Len(journal) + 1
      /\ journal'[Len(journal) + 1] = op
      /\ \A i \in 1 .. Len(journal) : journal'[i] = journal[i]
  BY <1>1, <1>2, <1>3
<1>5. IF live
                THEN \/ graph' = ApplyOp(Healed, op) /\ cursor' = Len(journal) + 1
                     \/ graph' = Healed /\ cursor' = Len(journal)
                     \/ /\ op.body.verb = "extend"
                        /\ graph' = ExtendNodes(Healed, op.body, op.ts)
                        /\ cursor' = Len(journal)
                ELSE graph' = graph /\ cursor' = cursor
  BY <1>3, <1>4
<1>. QED
  BY <1>1, <1>2, <1>3, <1>4, <1>5

\* A live gesture keeps it.
LEMMA GestureInvariant ==
  ASSUME IInv, NEW b \in Bodies, LiveGesture(b)
  PROVE  IInv'
<1>1. PICK op \in Op :
           /\ op.body = Planned(Healed, b) /\ b \in Body
           /\ journal' = Append(journal, op)
           /\ journal' \in Seq(Op) /\ Len(journal') = Len(journal) + 1 /\ Len(journal) \in Nat
           /\ journal'[Len(journal) + 1] = op
           /\ \A i \in 1 .. Len(journal) : journal'[i] = journal[i]
           /\ IF live
                THEN \/ graph' = ApplyOp(Healed, op) /\ cursor' = Len(journal) + 1
                     \/ graph' = Healed /\ cursor' = Len(journal)
                     \/ /\ op.body.verb = "extend"
                        /\ graph' = ExtendNodes(Healed, op.body, op.ts)
                        /\ cursor' = Len(journal)
                ELSE graph' = graph /\ cursor' = cursor
  BY GestureFacts
<1>2. /\ ~locked
      /\ UNCHANGED <<live, locked, pc, held, offset, size, end, pos, pending, edgesDue, runs, refused, clean>>
  BY DEF LiveGesture, call, pass
<1>3. graph' \in Graph
  <2>1. Healed \in Graph /\ graph \in Graph
    BY HealedType DEF IInv, TypeOK
  <2>2. op.body.verb = "extend" => op.body \in Wires /\ op.ts \in Time
    BY BodyByVerb
  <2>3. ApplyOp(Healed, op) \in Graph
    BY <2>1, ApplyOpType
  <2>4. op.body.verb = "extend" => ExtendNodes(Healed, op.body, op.ts) \in Graph
    BY <2>1, <2>2, ExtendNodesType
  <2>. QED
    BY <1>1, <2>1, <2>3, <2>4
<1>4. /\ cursor' \in Nat \cup {Unstamped} /\ cursor <= cursor' /\ cursor' <= Len(journal')
      /\ live => cursor' # Unstamped
      /\ cursor' = Unstamped <=> cursor = Unstamped
  BY <1>1 DEF IInv, TypeOK, PhaseInv, Unstamped
<1>5. TypeOK'
  BY <1>1, <1>2, <1>3, <1>4 DEF IInv, TypeOK
<1>6. WiresPending'
  BY <1>2 DEF IInv, WiresPending
<1>7. PhaseInv'
  <2>1. held' <= cursor'
    BY <1>2, <1>4 DEF IInv, TypeOK, PhaseInv, Unstamped
  <2>2. pc \in {"applying", "edges"} => cursor' <= end' /\ end' <= Len(journal')
    <3>1. pc \in {"applying", "edges"} => cursor' = cursor
      BY <1>1, <1>2 DEF IInv, PhaseInv
    <3>. QED
      BY <1>1, <1>2, <3>1 DEF IInv, TypeOK, PhaseInv
  <2>3. live' => ~(pc' \in {"applying", "edges"})
    BY <1>2 DEF IInv, PhaseInv
  <2>. QED
    BY <1>2, <1>4, <2>1, <2>2, <2>3 DEF IInv, PhaseInv, ReadIsCurrent
<1>. QED
  BY <1>5, <1>6, <1>7 DEF IInv

\* Every step does.
LEMMA StepInvariant == ASSUME IInv, [Next]_vars PROVE IInv'
<1>. USE DEF IInv
<1>1. ASSUME NEW b \in Bodies, LiveGesture(b)
      PROVE  IInv'
  BY <1>1, GestureInvariant
<1>2. CASE PutInPlace
  BY <1>2 DEF PutInPlace, store, call, pass, TypeOK, PhaseInv, WiresPending, ReadIsCurrent
<1>3. ASSUME NEW o \in FreshOffsets \cup HeldOffsets, NEW n \in BatchSizes, Start(o, n)
      PROVE  IInv'
  <2>1. o \in Nat /\ n \in Nat
    BY ReplayOffsets, ReplayBounds
  <2>2. TypeOK'
    <3>1. runs' \in Nat /\ offset' \in Nat /\ size' \in Nat /\ refused' = FALSE /\ pc' = "locking"
      BY <1>3, <2>1 DEF Start, TypeOK
    <3>2. UNCHANGED <<journal, live, graph, cursor, locked, end, pos, pending, edgesDue, clean>> /\ held' = cursor
      BY <1>3 DEF Start, store, pass
    <3>. QED
      BY <3>1, <3>2 DEF TypeOK
  <2>3. PhaseInv' /\ WiresPending'
    BY <1>3 DEF Start, store, pass, TypeOK, PhaseInv, WiresPending, ReadIsCurrent
  <2>. QED
    BY <2>2, <2>3
<1>4. CASE Enter
  BY <1>4 DEF Enter, store, call, pass, TypeOK, PhaseInv, WiresPending, ReadIsCurrent
<1>5. CASE ReadFamily
  BY <1>5 DEF ReadFamily, store, call, TypeOK, PhaseInv, WiresPending, ReadIsCurrent
<1>6. ASSUME Finish, UNCHANGED <<journal, live, graph, runs>>,
             refused' \in BOOLEAN, clean' \in BOOLEAN,
             cursor' = cursor \/ (cursor' \in Nat /\ cursor' <= Len(journal))
      PROVE  IInv'
  <2>1. TypeOK'
    <3>1. pending' \in Seq(Op) /\ edgesDue' \in SUBSET [edge: EdgeId, ts: Time]
      BY <1>6 DEF Finish
    <3>2. /\ pc' = "idle" /\ locked' = FALSE /\ held' = Unstamped /\ offset' = 0 /\ size' = 1
          /\ end' = 0 /\ pos' = 0 /\ cursor' \in Nat \cup {Unstamped}
      BY <1>6 DEF Finish, TypeOK
    <3>. QED
      BY <1>6, <3>1, <3>2 DEF TypeOK
  <2>2. WiresPending'
    BY <1>6 DEF Finish, WiresPending
  <2>3. PhaseInv'
    BY <1>6 DEF Finish, TypeOK, PhaseInv, ReadIsCurrent, Unstamped
  <2>. QED
    BY <2>1, <2>2, <2>3
<1>7. CASE OffsetRefused \/ ReplayRefused \/ Die
  <2>1. /\ Finish /\ UNCHANGED <<journal, live, graph, runs>> /\ cursor' = cursor
        /\ refused' \in {refused, TRUE} /\ clean' \in {clean, clean /\ held = Unstamped}
    BY <1>7 DEF OffsetRefused, ReplayRefused, Die, store
  <2>2. refused' \in BOOLEAN /\ clean' \in BOOLEAN
    BY <2>1 DEF TypeOK
  <2>. QED
    BY <1>6, <2>1, <2>2
<1>8. CASE Stamp
  <2>1. Finish /\ UNCHANGED <<journal, live, graph, runs, refused, clean>> /\ cursor' = end
    BY <1>8 DEF Stamp
  <2>2. end \in Nat /\ end <= Len(journal) /\ refused \in BOOLEAN /\ clean \in BOOLEAN
    BY <1>8 DEF Stamp, TypeOK, PhaseInv
  <2>. QED
    BY <1>6, <2>1, <2>2
<1>9. CASE TakeWires
  <2>1. journal[pos + 1] \in Op /\ journal[pos + 1].body.verb = "extend"
    BY <1>9 DEF TakeWires, TypeOK, PhaseInv
  <2>2. TypeOK'
    BY <1>9, <2>1 DEF TakeWires, store, call, TypeOK
  <2>3. WiresPending'
    <3>1. pending' = Append(pending, journal[pos + 1]) /\ pending \in Seq(Op)
      BY <1>9 DEF TakeWires, TypeOK
    <3>2. \A i \in 1 .. Len(pending) : pending[i].body.verb = "extend"
      BY DEF WiresPending
    <3>3. \A i \in 1 .. Len(pending') :
            (i \in 1 .. Len(pending) /\ pending'[i] = pending[i]) \/ pending'[i] = journal[pos + 1]
      BY <2>1, <3>1
    <3>. QED
      BY <2>1, <3>2, <3>3 DEF WiresPending
  <2>4. PhaseInv'
    BY <1>9 DEF TakeWires, store, call, PhaseInv, ReadIsCurrent
  <2>. QED
    BY <2>2, <2>3, <2>4
<1>10. CASE ApplyDomain
  <2>1. journal[pos + 1] \in Op
    BY <1>10 DEF ApplyDomain, TypeOK, PhaseInv
  <2>2. graph' \in Graph
    BY <1>10, <2>1, ApplyOpType DEF ApplyDomain, TypeOK
  <2>3. TypeOK'
    BY <1>10, <2>2 DEF ApplyDomain, call, TypeOK
  <2>4. PhaseInv' /\ WiresPending'
    BY <1>10 DEF ApplyDomain, call, PhaseInv, WiresPending, ReadIsCurrent
  <2>. QED
    BY <2>3, <2>4
<1>11. CASE FlushNodes
  <2>1. pending \in Seq(WireOp)
    BY DEF TypeOK, WiresPending, WireOp
  <2>2. graph' \in Graph /\ edgesDue' \in SUBSET [edge: EdgeId, ts: Time]
    BY <1>11, <2>1, FlushType DEF FlushNodes, TypeOK
  <2>3. TypeOK'
    BY <1>11, <2>2 DEF FlushNodes, call, TypeOK
  <2>4. PhaseInv' /\ WiresPending'
    BY <1>11 DEF FlushNodes, call, PhaseInv, WiresPending, ReadIsCurrent
  <2>. QED
    BY <2>3, <2>4
<1>12. CASE FlushEdges
  <2>1. graph' \in Graph
    BY <1>12, WithEdgesType DEF FlushEdges, TypeOK
  <2>2. pending' = <<>> /\ pending' \in Seq(Op) /\ edgesDue' = {}
    BY <1>12 DEF FlushEdges
  <2>3. TypeOK'
    BY <1>12, <2>1, <2>2 DEF FlushEdges, call, TypeOK
  <2>4. WiresPending'
    BY <2>2 DEF WiresPending
  <2>5. PhaseInv'
    BY <1>12 DEF FlushEdges, call, PhaseInv, ReadIsCurrent
  <2>. QED
    BY <2>3, <2>4, <2>5
<1>13. CASE UNCHANGED vars
  BY <1>13 DEF vars, TypeOK, PhaseInv, WiresPending, ReadIsCurrent
<1>. QED
  BY <1>1, <1>2, <1>3, <1>4, <1>5, <1>7, <1>8, <1>9, <1>10, <1>11, <1>12, <1>13 DEF Next, Replaying

\* So it holds in every reachable state.
LEMMA Invariant == Spec => []IInv
BY InitInvariant, StepInvariant, PTL DEF Spec

\* The journal, the db and each call keep to their types.
THEOREM TypeOKHolds == Spec => []TypeOK
<1>1. IInv => TypeOK
  BY DEF IInv
<1>. QED
  BY Invariant, <1>1, PTL

\* No live write lands while a replay runs on the db that writers write, though
\* the replay reads that db's cursor before it takes the lock.
THEOREM ReadIsCurrentHolds == Spec => []ReadIsCurrent
<1>1. IInv => ReadIsCurrent
  BY DEF IInv, PhaseInv
<1>. QED
  BY Invariant, <1>1, PTL

-----------------------------------------------------------------------------
(* What the guard on the offset keeps from being skipped. *)

\* Builds of a db that holds no cursor take the family from its start, as
\* rebuild_db and adopt_journal call them.
WholeBuilds == FreshOffsets \subseteq {0}

\* The baseline has a record, so that no db stands at 0: the guard passes every
\* offset over a cursor that is 0.
SomethingExported == Baseline # <<>>

\* The family begins with the baseline, every cursor lies past it, and a read
\* that got past the guard is of all of it.
GuardInv ==
  /\ Len(Baseline) <= Len(journal)
  /\ \A i \in 1 .. Len(Baseline) : journal[i] = GenesisRecords[i]
  /\ cursor # Unstamped => Len(Baseline) <= cursor
  /\ held # Unstamped => Len(Baseline) <= held
  /\ pc # "idle" /\ held = Unstamped => offset \in FreshOffsets
  /\ pc \in {"applying", "edges"} => ~GuardRefuses /\ Len(Baseline) <= end

\* It holds at the start.
LEMMA InitGuard == Init => GuardInv
<1>. SUFFICES ASSUME Init PROVE GuardInv
  OBVIOUS
<1>1. Len(journal) = Len(Baseline) /\ Len(Baseline) \in Nat
  BY GenesisType DEF Init
<1>. QED
  BY <1>1 DEF Init, GuardInv

\* And every step keeps it.
LEMMA StepGuard == ASSUME IInv, GuardInv, [Next]_vars PROVE GuardInv'
<1>0. Len(Baseline) \in Nat /\ Len(journal) \in Nat
  BY GenesisType DEF IInv, TypeOK
<1>1. ASSUME NEW b \in Bodies, LiveGesture(b)
      PROVE  GuardInv'
  <2>1. /\ Len(journal') = Len(journal) + 1
        /\ \A i \in 1 .. Len(journal) : journal'[i] = journal[i]
        /\ cursor' = cursor \/ (cursor # Unstamped /\ Len(journal) <= cursor' /\ cursor' \in Nat)
    BY <1>1, GestureFacts DEF IInv, PhaseInv
  <2>2. UNCHANGED <<pc, held, offset, end>>
    BY <1>1 DEF LiveGesture, call, pass
  <2>3. \A i \in 1 .. Len(Baseline) : journal'[i] = GenesisRecords[i]
    <3>1. \A i \in 1 .. Len(Baseline) : i \in 1 .. Len(journal)
      BY <1>0 DEF GuardInv
    <3>. QED
      BY <2>1, <3>1 DEF GuardInv
  <2>4. cursor' # Unstamped => Len(Baseline) <= cursor'
    BY <1>0, <2>1 DEF GuardInv
  <2>. QED
    BY <1>0, <2>1, <2>2, <2>3, <2>4 DEF GuardInv, GuardRefuses
<1>2. ASSUME NEW o \in FreshOffsets \cup HeldOffsets, NEW n \in BatchSizes, Start(o, n)
      PROVE  GuardInv'
  BY <1>2 DEF Start, store, pass, GuardInv
<1>3. CASE Finish /\ journal' = journal /\ (cursor' = cursor \/ (cursor' = end /\ pc = "applying"))
  BY <1>3 DEF Finish, GuardInv
<1>4. CASE OffsetRefused \/ ReplayRefused \/ Die \/ Stamp
  <2>1. Finish /\ journal' = journal /\ (cursor' = cursor \/ (cursor' = end /\ pc = "applying"))
    BY <1>4 DEF OffsetRefused, ReplayRefused, Die, Stamp, store
  <2>. QED
    BY <1>3, <2>1
<1>5. CASE ReadFamily
  BY <1>0, <1>5 DEF ReadFamily, store, call, GuardInv, GuardRefuses
<1>6. CASE PutInPlace \/ Enter
  BY <1>6 DEF PutInPlace, Enter, store, call, pass, GuardInv
<1>7. CASE TakeWires \/ ApplyDomain \/ FlushNodes \/ FlushEdges \/ UNCHANGED vars
  <2>1. /\ UNCHANGED <<journal, cursor, held, offset, end>>
        /\ pc' = pc \/ (pc = "applying" /\ pc' = "edges") \/ (pc = "edges" /\ pc' = "applying")
    BY <1>7 DEF TakeWires, ApplyDomain, FlushNodes, FlushEdges, vars, store, call
  <2>. QED
    BY <2>1 DEF GuardInv, GuardRefuses
<1>. QED
  BY <1>1, <1>2, <1>4, <1>5, <1>6, <1>7 DEF Next, Replaying

\* So it holds in every reachable state.
LEMMA GuardInvariant == Spec => []GuardInv
BY Invariant, InitGuard, StepGuard, PTL DEF Spec

\* What it says of a call that gets past the guard.
LEMMA NotSkipped ==
  ASSUME WholeBuilds, SomethingExported, IInv, GuardInv, pc # "idle", ~GuardRefuses
  PROVE  /\ offset <= IF cursor = Unstamped THEN 0 ELSE cursor
         /\ held = Unstamped => offset = 0
         /\ offset <= Len(journal)
<1>1. Len(Baseline) \in Nat /\ Len(Baseline) # 0
  <2>1. Baseline \in Seq(Wires)
    BY ReplayBodies
  <2>. QED
    BY <2>1, EmptySeq DEF SomethingExported
<1>2. /\ offset \in Nat /\ cursor \in Nat \cup {Unstamped} /\ held \in Nat \cup {Unstamped}
      /\ Len(journal) \in Nat
      /\ held <= cursor /\ cursor <= Len(journal) /\ (held = Unstamped <=> cursor = Unstamped)
  BY DEF IInv, TypeOK, PhaseInv
<1>3. CASE held = Unstamped
  BY <1>2, <1>3 DEF GuardInv, WholeBuilds
<1>4. CASE held # Unstamped
  <2>1. offset <= held /\ held \in Nat /\ cursor \in Nat /\ cursor # Unstamped
    BY <1>1, <1>2, <1>4 DEF GuardInv, GuardRefuses
  <2>. QED
    BY <1>2, <1>4, <2>1
<1>. QED
  BY <1>3, <1>4

\* Onto a db that was built whole, a replay past its guard skips no record that
\* the db has not applied, however far behind the cursor it read lies.
THEOREM NothingSkippedHolds ==
  ASSUME WholeBuilds, SomethingExported PROVE Spec => []NothingSkipped
<1>1. IInv /\ GuardInv => NothingSkipped
  BY NotSkipped DEF NothingSkipped, GuardInv
<1>. QED
  BY Invariant, GuardInvariant, <1>1, PTL

-----------------------------------------------------------------------------
(* The records a call has taken. *)

\* The records that are in the db: those taken, but for what is pending.
Applied == pos - Len(pending)

\* What is pending are the last records taken: one domain op, or a part of the
\* baseline.
BatchInv ==
  pc \in {"applying", "edges"} =>
    /\ offset <= Applied /\ Len(pending) <= pos /\ pos <= end
    /\ pending = SubSeq(journal, Applied + 1, pos)
    /\ Len(pending) <= 1 \/ pos <= Len(Baseline)

\* A record that is no extend is taken when nothing is pending.
LEMMA DomainAlone ==
  ASSUME IInv, GuardInv, BatchInv, pc = "applying", ~FlushDue, pos < end,
         journal[pos + 1].body.verb # "extend"
  PROVE  pending = <<>>
<1>. SUFFICES ASSUME pending # <<>> PROVE FALSE
  OBVIOUS
<1>1. IsGenesis(pos + 1) /\ pos \in Nat /\ Len(Baseline) \in Nat
  BY GenesisType DEF FlushDue, IInv, TypeOK
<1>2. pos + 1 \in 1 .. Len(Baseline)
  BY <1>1 DEF IsGenesis
<1>3. journal[pos + 1] = [body |-> Baseline[pos + 1], ts |-> pos + 1] /\ Baseline[pos + 1] \in Wires
  BY <1>2, GenesisType DEF GuardInv
<1>. QED
  BY <1>3 DEF Wires

\* Every step keeps what is pending so.
LEMMA StepBatch ==
  ASSUME WholeBuilds, SomethingExported, IInv, GuardInv, BatchInv, [Next]_vars
  PROVE  BatchInv'
<1>0. /\ Len(Baseline) \in Nat /\ Len(journal) \in Nat /\ journal \in Seq(Op)
      /\ pos \in Nat /\ end \in Nat /\ offset \in Nat /\ Len(pending) \in Nat
      /\ pc \in {"applying", "edges"} => end <= Len(journal)
  BY GenesisType DEF IInv, TypeOK, PhaseInv
<1>1. ASSUME NEW b \in Bodies, LiveGesture(b)
      PROVE  BatchInv'
  <2>1. /\ Len(journal') = Len(journal) + 1
        /\ \A i \in 1 .. Len(journal) : journal'[i] = journal[i]
    BY <1>1, GestureFacts
  <2>2. UNCHANGED <<pc, offset, end, pos, pending>>
    BY <1>1 DEF LiveGesture, call, pass
  <2>. SUFFICES ASSUME pc \in {"applying", "edges"}
                PROVE  SubSeq(journal', Applied + 1, pos) = SubSeq(journal, Applied + 1, pos)
    BY <2>2 DEF BatchInv, Applied
  <2>3. Applied \in Nat /\ pos <= Len(journal)
    BY <1>0 DEF BatchInv, Applied
  <2>4. \A i \in 1 .. (pos - (Applied + 1) + 1) : i + (Applied + 1) - 1 \in 1 .. Len(journal)
    BY <1>0, <2>3
  <2>. QED
    BY <1>0, <2>1, <2>3, <2>4
<1>2. CASE ReadFamily
  <2>1. /\ pc = "reading" /\ ~GuardRefuses /\ end' = Len(journal) /\ pos' = offset
        /\ UNCHANGED <<journal, offset, pending>> /\ pc' = "applying"
    BY <1>2 DEF ReadFamily, call
  <2>2. pending = <<>> /\ offset <= Len(journal)
    BY <2>1, NotSkipped DEF IInv, PhaseInv
  <2>3. SubSeq(journal, offset + 1, offset) = <<>>
    BY <1>0
  <2>. QED
    BY <1>0, <2>1, <2>2, <2>3 DEF BatchInv, Applied
<1>3. CASE TakeWires
  <2>. DEFINE op == journal[pos + 1]
  <2>1. /\ pc = "applying" /\ ~FlushDue /\ pos < end /\ pending' = Append(pending, op) /\ pos' = pos + 1
        /\ UNCHANGED <<journal, pc, offset, end>>
    BY <1>3 DEF TakeWires, call
  <2>2. /\ pending = SubSeq(journal, Applied + 1, pos) /\ Applied \in Nat /\ Applied <= pos
        /\ op \in Op /\ pos + 1 <= Len(journal) /\ Applied + 1 \in 1 .. Len(journal)
    BY <1>0, <2>1 DEF BatchInv, Applied
  <2>3. SubSeq(journal, Applied + 1, pos + 1) = Append(SubSeq(journal, Applied + 1, pos), op)
    <3>. DEFINE past == SubSeq(journal, Applied + 1, pos)
                all == SubSeq(journal, Applied + 1, pos + 1)
    <3>1. past \in Seq(Op) /\ all \in Seq(Op)
      BY <1>0, <2>2
    <3>2. /\ Len(past) = pos - Applied /\ Len(all) = Len(past) + 1
          /\ all[Len(all)] = op
          /\ \A i \in 1 .. Len(past) : all[i] = past[i]
      BY <1>0, <2>2
    <3>3. op \in Op
      BY <2>2
    <3>. HIDE DEF past, all, op
    <3>4. all = Append(past, op)
      BY <3>1, <3>2, <3>3
    <3>. QED
      BY <3>4 DEF past, all
  <2>4. Len(pending') = Len(pending) + 1 /\ Applied' = Applied
    <3>1. pending \in Seq(Op)
      BY DEF IInv, TypeOK
    <3>2. Len(pending') = Len(pending) + 1
      BY <2>1, <2>2, <3>1
    <3>. QED
      BY <1>0, <2>1, <3>2 DEF Applied
  <2>5. Len(pending) = 0 \/ pos + 1 <= Len(Baseline)
    <3>1. CASE pending = <<>>
      BY <3>1
    <3>2. CASE pending # <<>>
      BY <2>1, <3>2 DEF FlushDue, IsGenesis
    <3>. QED
      BY <3>1, <3>2
  <2>6. offset <= Applied
    BY <2>1 DEF BatchInv
  <2>. HIDE DEF op
  <2>. QED
    BY <1>0, <2>1, <2>2, <2>3, <2>4, <2>5, <2>6 DEF BatchInv
<1>4. CASE ApplyDomain
  <2>1. /\ pc = "applying" /\ ~FlushDue /\ pos < end /\ journal[pos + 1].body.verb # "extend"
        /\ pos' = pos + 1 /\ UNCHANGED <<journal, pc, offset, end, pending>>
    BY <1>4 DEF ApplyDomain, call
  <2>2. pending = <<>> /\ offset <= Applied
    BY <2>1, DomainAlone DEF BatchInv
  <2>3. SubSeq(journal, (pos + 1) + 1, pos + 1) = <<>>
    BY <1>0
  <2>. QED
    BY <1>0, <2>1, <2>2, <2>3 DEF BatchInv, Applied
<1>5. CASE FlushEdges
  <2>1. pc = "edges" /\ pending' = <<>> /\ UNCHANGED <<journal, offset, end, pos>>
    BY <1>5 DEF FlushEdges, call
  <2>2. offset <= pos /\ pos <= end
    BY <1>0, <2>1 DEF BatchInv, Applied
  <2>3. SubSeq(journal, pos + 1, pos) = <<>>
    BY <1>0
  <2>. QED
    BY <1>0, <2>1, <2>2, <2>3 DEF BatchInv, Applied
<1>6. CASE FlushNodes
  BY <1>6 DEF FlushNodes, call, BatchInv, Applied
<1>7. ASSUME pc' \notin {"applying", "edges"} \/ UNCHANGED vars
      PROVE  BatchInv'
  BY <1>7 DEF BatchInv, Applied, vars
<1>8. CASE OffsetRefused \/ ReplayRefused \/ Die \/ Stamp \/ Enter \/ PutInPlace \/ UNCHANGED vars
  <2>1. pc' \notin {"applying", "edges"} \/ UNCHANGED vars
    BY <1>8 DEF OffsetRefused, ReplayRefused, Die, Stamp, Enter, PutInPlace, Finish
  <2>. QED
    BY <1>7, <2>1
<1>9. ASSUME NEW o \in FreshOffsets \cup HeldOffsets, NEW n \in BatchSizes, Start(o, n)
      PROVE  BatchInv'
  BY <1>7, <1>9 DEF Start
<1>. QED
  BY <1>1, <1>2, <1>3, <1>4, <1>5, <1>6, <1>8, <1>9 DEF Next, Replaying

\* So it is so in every reachable state.
LEMMA BatchInvariant ==
  ASSUME WholeBuilds, SomethingExported PROVE Spec => []BatchInv
<1>1. Init => BatchInv
  BY DEF Init, BatchInv
<1>2. IInv /\ GuardInv /\ BatchInv /\ [Next]_vars => BatchInv'
  BY StepBatch
<1>. QED
  BY Invariant, GuardInvariant, <1>1, <1>2, PTL DEF Spec

-----------------------------------------------------------------------------
(* The baseline as a journal. *)

\* No two exported records emit the same row: a record is one node or one edge of
\* the db, listed once.
EachOnce ==
  \A i, j \in 1 .. Len(Baseline) : i # j =>
    /\ Wired(Baseline[i]) \cap Wired(Baseline[j]) = {}
    /\ Baseline[i].edges \cap Baseline[j].edges = {}

\* The nodes an exported edge joins were exported before it.
NodesFirst ==
  \A i \in 1 .. Len(Baseline) : \A e \in Baseline[i].edges :
    {Source[e], Target[e]} \subseteq UNION {Wired(Baseline[j]) : j \in 1 .. i}

\* What the first records leave are the rows they emit.
LEMMA GenesisRows ==
  ASSUME NEW i \in 0 .. Len(Baseline)
  PROVE  /\ \A n \in NodeId : Upto(GenesisRecords, i).node[n] # Absent <=>
                                \E j \in 1 .. i : n \in Wired(Baseline[j])
         /\ \A e \in EdgeId : Upto(GenesisRecords, i).edge[e] # Absent =>
                                \E j \in 1 .. i : e \in Baseline[j].edges
<1>. DEFINE G == GenesisRecords
            Emitted(m) ==
              /\ \A n \in NodeId : Upto(G, m).node[n] # Absent <=> \E j \in 1 .. m : n \in Wired(Baseline[j])
              /\ \A e \in EdgeId : Upto(G, m).edge[e] # Absent => \E j \in 1 .. m : e \in Baseline[j].edges
            P(m) == m <= Len(Baseline) => Emitted(m)
<1>1. G \in Seq(Op) /\ Len(G) = Len(Baseline) /\ Len(Baseline) \in Nat
  BY GenesisType
<1>2. Emitted(0)
  <2>1. Upto(G, 0) = EmptyGraph
    BY <1>1, UptoSteps
  <2>. QED
    BY <2>1 DEF EmptyGraph
<1>3. ASSUME NEW m \in Nat, m + 1 <= Len(Baseline), Emitted(m)
      PROVE  Emitted(m + 1)
  <2>. DEFINE op == G[m + 1]
              g == Upto(G, m)
              g2 == Upto(G, m + 1)
  <2>1. /\ m \in 0 .. Len(G) /\ m + 1 \in 1 .. Len(G) /\ (m + 1) - 1 = m
        /\ m + 1 \in 1 .. Len(Baseline)
        /\ \A j \in 1 .. (m + 1) : j = m + 1 \/ j \in 1 .. m
        /\ \A j \in 1 .. m : j \in 1 .. (m + 1)
        /\ m + 1 \in 1 .. (m + 1)
    BY <1>1, <1>3
  <2>2. op \in Op /\ g \in Graph /\ g2 = ApplyOp(g, op)
    BY <1>1, <2>1, UptoSteps
  <2>3. op.body = Baseline[m + 1] /\ op.body.verb = "extend"
    BY <2>1, GenesisType
  <2>4. /\ \A n : ~Deletes(op, n) /\ (Adds(op, n) <=> n \in Wired(Baseline[m + 1]))
        /\ \A e : ~Cuts(op, e) /\ (Links(op, e) <=> e \in Baseline[m + 1].edges)
    BY <2>3 DEF Deletes, Adds, Cuts, Links
  <2>. HIDE DEF op, g, g2
  <2>5. ASSUME NEW n \in NodeId
        PROVE  g2.node[n] # Absent <=> \E j \in 1 .. (m + 1) : n \in Wired(Baseline[j])
    <3>1. g.node[n] \in NodeRow \cup {Absent}
      BY <2>2 DEF Graph
    <3>2. g2.node[n] = RowAfter(g.node[n], op, n)
      BY <2>2, ApplyRows
    <3>3. g2.node[n] # Absent <=> g.node[n] # Absent \/ n \in Wired(Baseline[m + 1])
      BY <2>2, <2>4, <3>1, <3>2, RowPresence
    <3>4. g.node[n] # Absent <=> \E j \in 1 .. m : n \in Wired(Baseline[j])
      BY <1>3 DEF g
    <3>. QED
      BY <2>1, <3>3, <3>4
  <2>6. ASSUME NEW e \in EdgeId, g2.edge[e] # Absent
        PROVE  \E j \in 1 .. (m + 1) : e \in Baseline[j].edges
    <3>1. g2.edge[e] = IF Links(op, e) /\ g.edge[e] = Absent THEN [created |-> op.ts] ELSE g.edge[e]
      BY <2>2, <2>4, ApplyRows
    <3>2. e \in Baseline[m + 1].edges \/ g.edge[e] # Absent
      BY <2>4, <2>6, <3>1
    <3>3. g.edge[e] # Absent => \E j \in 1 .. m : e \in Baseline[j].edges
      BY <1>3 DEF g
    <3>. QED
      BY <2>1, <3>2, <3>3
  <2>. QED
    BY <2>5, <2>6 DEF g2
<1>4. Emitted(i)
  <2>. HIDE DEF Emitted
  <2>1. P(0) /\ \A m \in Nat : P(m) => P(m + 1)
    BY <1>1, <1>2, <1>3
  <2>. DEFINE S == {m \in Nat : P(m)}
  <2>2. 0 \in S /\ \A m \in Nat : m \in S => m + 1 \in S
    <3>. HIDE DEF P
    <3>. QED
      BY <2>1
  <2>3. i \in Nat /\ i <= Len(Baseline)
    BY <1>1
  <2>4. i \in S
    <3>. HIDE DEF S
    <3>. QED
      BY <2>2, <2>3, SetInduction
  <2>. QED
    BY <2>3, <2>4
<1>. QED
  BY <1>4

\* The baseline is sound: an edge comes after its ends, and nothing is dropped.
LEMMA GenesisSound == ASSUME NodesFirst PROVE Sound(GenesisRecords)
<1>1. ASSUME NEW i \in 1 .. Len(Baseline), NEW e \in EdgeId,
             Upto(GenesisRecords, i).edge[e] # Absent, NEW n \in {Source[e], Target[e]}
      PROVE  Upto(GenesisRecords, i).node[n] # Absent
  <2>1. i \in 0 .. Len(Baseline) /\ \A j \in 1 .. i : j \in 1 .. Len(Baseline)
    BY GenesisType
  <2>2. PICK j \in 1 .. i : e \in Baseline[j].edges
    BY <1>1, <2>1, GenesisRows
  <2>3. n \in UNION {Wired(Baseline[m]) : m \in 1 .. j}
    BY <1>1, <2>1, <2>2 DEF NodesFirst
  <2>4. \A m \in 1 .. j : m \in 1 .. i
    BY <2>2
  <2>5. \E m \in 1 .. i : n \in Wired(Baseline[m])
    BY <2>3, <2>4
  <2>6. n \in NodeId
    BY <2>5 DEF Wired
  <2>. QED
    BY <2>1, <2>5, <2>6, GenesisRows
<1>2. \A i \in 1 .. Len(Baseline) : GenesisRecords[i].body.verb = "extend"
  BY GenesisType
<1>. QED
  BY <1>1, <1>2, GenesisType DEF Sound, Linked

\* Every exported record is a delta of those before it.
LEMMA GenesisDeltas ==
  ASSUME EachOnce, NEW i \in 1 .. Len(Baseline)
  PROVE  IsDelta(Upto(GenesisRecords, i - 1), GenesisRecords[i])
<1>0. GenesisRecords[i].body = Baseline[i] /\ Baseline[i] \in Wires /\ Len(Baseline) \in Nat
  BY GenesisType
<1>1. i - 1 \in 0 .. Len(Baseline) /\ \A j \in 1 .. (i - 1) : j \in 1 .. Len(Baseline) /\ i # j
  BY <1>0
<1>. DEFINE g == Upto(GenesisRecords, i - 1)
<1>2. \A n \in Wired(Baseline[i]) : g.node[n] = Absent
  <2>1. ASSUME NEW n \in Wired(Baseline[i]), g.node[n] # Absent
        PROVE  FALSE
    <3>1. n \in NodeId
      BY DEF Wired
    <3>2. PICK j \in 1 .. (i - 1) : n \in Wired(Baseline[j])
      BY <1>1, <2>1, <3>1, GenesisRows
    <3>. QED
      BY <1>1, <2>1, <3>2 DEF EachOnce
  <2>. QED
    BY <2>1
<1>3. \A e \in Baseline[i].edges : g.edge[e] = Absent
  <2>1. ASSUME NEW e \in Baseline[i].edges, g.edge[e] # Absent
        PROVE  FALSE
    <3>1. e \in EdgeId
      BY <1>0, <2>1 DEF Wires
    <3>2. PICK j \in 1 .. (i - 1) : e \in Baseline[j].edges
      BY <1>1, <2>1, <3>1, GenesisRows
    <3>. QED
      BY <1>1, <2>1, <3>2 DEF EachOnce
  <2>. QED
    BY <2>1
<1>. QED
  BY <1>0, <1>2, <1>3 DEF IsDelta, AbsentNodes, AbsentEdges, Wired

-----------------------------------------------------------------------------
(* What a replay does to the db: it converges on what its journal builds. *)

\* What a call has read of the family.
Read == SubSeq(journal, 1, end)

\* A call from the start has come so far over what it found; one from an offset
\* stands where its records have brought it.
OnBase(base) == IF offset = 0 THEN Taken(Read, Applied, base) ELSE Stands(journal, Applied, base)

\* Between calls: the journal is sound, a db with a cursor stands at it, and one
\* with none holds what its dead builds left.
StandInv ==
  /\ cursor = Unstamped => clean
  /\ clean => Sound(journal)
  /\ clean /\ pc \notin {"applying", "edges"} =>
       IF cursor = Unstamped THEN Leftover(journal, graph) ELSE Stands(journal, cursor, graph)

\* Within one: the records applied are in the db, and of those pending the nodes
\* when an extend is half done.
BuildInv ==
  clean /\ pc \in {"applying", "edges"} =>
    /\ offset # 0 => offset = cursor
    /\ pc = "applying" => OnBase(graph)
    /\ pc = "edges" => \E base \in Graph :
         OnBase(base) /\ graph = FlushedNodes(base, pending) /\ edgesDue = DueEdges(base, pending)

\* An emission wires the ends of its edges (compact.py: a dangling edge can never
\* be replayed onto an absent node).
EndsEmitted ==
  \A b \in Bodies : b.verb = "extend" =>
    \A e \in b.edges : {Source[e], Target[e]} \subseteq Wired(b)

\* A call's read is the journal's beginning.
LEMMA ReadFacts ==
  ASSUME IInv, end <= Len(journal)
  PROVE  /\ Read \in Seq(Op) /\ Len(Read) = end /\ end \in Nat /\ journal \in Seq(Op)
         /\ \A i \in 1 .. end : Read[i] = journal[i]
         /\ \A i \in 0 .. end : Upto(Read, i) = Upto(journal, i)
         /\ Sound(journal) => Sound(Read)
         /\ \A g : Leftover(Read, g) => Leftover(journal, g)
<1>1. journal \in Seq(Op) /\ end \in Nat /\ Len(journal) \in Nat
  BY DEF IInv, TypeOK
<1>2. Read \in Seq(Op) /\ Len(Read) = end /\ \A i \in 1 .. end : Read[i] = journal[i]
  BY <1>1 DEF Read
<1>. HIDE DEF Read
<1>. QED
  BY <1>1, <1>2, LongerJournal

\* Every prefix of a sound journal leaves a linked graph.
LEMMA SoundLinked ==
  ASSUME NEW s \in Seq(Op), Sound(s), NEW k \in 0 .. Len(s) PROVE Linked(Upto(s, k))
<1>1. CASE k = 0
  BY <1>1, UptoSteps DEF Linked, EmptyGraph
<1>2. CASE k # 0
  BY <1>2 DEF Sound
<1>. QED
  BY <1>1, <1>2

\* A db goes on standing where it stood as the journal grows.
LEMMA LongerStands ==
  ASSUME NEW s \in Seq(Op), NEW t \in Seq(Op), Len(s) <= Len(t),
         \A i \in 1 .. Len(s) : t[i] = s[i], NEW k \in 0 .. Len(s), NEW g, Stands(s, k, g)
  PROVE  Stands(t, k, g)
<1>1. Upto(t, k) = Upto(s, k)
  BY LongerJournal
<1>2. k < Len(s) => k < Len(t) /\ t[k + 1] = s[k + 1]
  OBVIOUS
<1>. QED
  BY <1>1, <1>2 DEF Stands

\* It holds at the start.
LEMMA InitStand == ASSUME NodesFirst, Init PROVE StandInv /\ BuildInv
<1>1. Sound(journal) /\ journal = GenesisRecords /\ clean /\ pc = "idle" /\ journal \in Seq(Op)
  BY GenesisSound, GenesisType DEF Init
<1>2. CASE live
  <2>1. cursor = Len(journal) /\ graph = FoldLeft(ApplyOp, EmptyGraph, journal) /\ cursor # Unstamped
    BY <1>2, GenesisType DEF Init, ReplayOf, Unstamped
  <2>2. SubSeq(journal, 1, Len(journal)) = journal
    BY <1>1
  <2>3. graph = Upto(journal, cursor)
    BY <2>1, <2>2 DEF Upto
  <2>. QED
    BY <1>1, <2>1, <2>3 DEF StandInv, BuildInv, Stands
<1>3. CASE ~live
  <2>1. graph = EmptyGraph /\ cursor = Unstamped
    BY <1>3 DEF Init
  <2>. QED
    BY <1>1, <2>1, EmptyLeftover DEF StandInv, BuildInv
<1>. QED
  BY <1>2, <1>3 DEF Init

\* The db a live gesture plans against is what the journal builds.
LEMMA HealedIsReplay ==
  ASSUME IInv, StandInv, clean, NEW b \in Bodies, LiveGesture(b)
  PROVE  Healed = Upto(journal, Len(journal))
<1>1. journal \in Seq(Op) /\ SubSeq(journal, 1, Len(journal)) = journal
  BY DEF IInv, TypeOK
<1>2. CASE live
  <2>1. pc \notin {"applying", "edges"} /\ cursor \in Nat /\ cursor # Unstamped /\ cursor \in 0 .. Len(journal)
    BY <1>1, <1>2 DEF LiveGesture, IInv, TypeOK, PhaseInv
  <2>2. Stands(journal, cursor, graph)
    BY <2>1 DEF StandInv
  <2>3. FoldLeft(ApplyOp, graph, SubSeq(journal, cursor + 1, Len(journal))) = FoldLeft(ApplyOp, EmptyGraph, journal)
    BY <1>1, <2>1, <2>2, StandsHeals
  <2>. QED
    BY <1>1, <1>2, <2>3 DEF Healed, Upto
<1>3. CASE ~live
  BY <1>1, <1>3 DEF Healed, ReplayOf, Upto
<1>. QED
  BY <1>2, <1>3

\* A live gesture lands a sound op and leaves every db standing as its cursor says.
LEMMA GestureStand ==
  ASSUME EndsEmitted, IInv, StandInv, BuildInv, NEW b \in Bodies, LiveGesture(b)
  PROVE  StandInv' /\ BuildInv'
<1>1. PICK op \in Op :
           /\ op.body = Planned(Healed, b) /\ b \in Body
           /\ journal' = Append(journal, op)
           /\ journal' \in Seq(Op) /\ Len(journal') = Len(journal) + 1 /\ Len(journal) \in Nat
           /\ journal'[Len(journal) + 1] = op
           /\ \A i \in 1 .. Len(journal) : journal'[i] = journal[i]
           /\ IF live
                THEN \/ graph' = ApplyOp(Healed, op) /\ cursor' = Len(journal) + 1
                     \/ graph' = Healed /\ cursor' = Len(journal)
                     \/ /\ op.body.verb = "extend"
                        /\ graph' = ExtendNodes(Healed, op.body, op.ts)
                        /\ cursor' = Len(journal)
                ELSE graph' = graph /\ cursor' = cursor
  BY GestureFacts
<1>2. ~locked /\ UNCHANGED <<live, pc, held, offset, end, pos, pending, edgesDue, clean>>
  BY DEF LiveGesture, call, pass
<1>3. /\ journal \in Seq(Op) /\ cursor \in Nat \cup {Unstamped} /\ end \in Nat
      /\ cursor <= Len(journal)
      /\ live => cursor # Unstamped
      /\ pc \in {"applying", "edges"} => cursor = Unstamped /\ end <= Len(journal)
  BY <1>2 DEF IInv, TypeOK, PhaseInv
<1>4. /\ cursor' = Unstamped <=> cursor = Unstamped
      /\ live => cursor' # Unstamped
      /\ cursor # Unstamped => cursor \in 0 .. Len(journal)
  <2>1. /\ live => cursor' \in Nat
        /\ ~live => cursor' = cursor
        /\ Len(journal) \in Nat
    BY <1>1
  <2>2. cursor # Unstamped => cursor \in Nat /\ cursor <= Len(journal)
    BY <1>3
  <2>. QED
    BY <1>3, <2>1, <2>2 DEF Unstamped
<1>5. /\ journal' \in Seq(Op) /\ Len(journal) <= Len(journal')
      /\ \A i \in 1 .. Len(journal) : journal'[i] = journal[i]
      /\ Len(journal) \in 0 .. Len(journal)
  BY <1>1
<1>6. CASE ~clean
  BY <1>2, <1>4, <1>6 DEF StandInv, BuildInv
<1>7. CASE clean
  <2>. DEFINE now == Upto(journal, Len(journal))
  <2>1. Healed = now /\ now \in Graph /\ Linked(now) /\ Sound(journal) /\ Len(journal) \in 0 .. Len(journal)
    BY <1>1, <1>3, <1>7, HealedIsReplay, UptoSteps, SoundLinked DEF StandInv
  <2>. HIDE DEF now
  <2>2. Linked(ApplyOp(now, op))
    BY <1>1, <2>1, PlannedLinked DEF EndsEmitted
  <2>3. op.body.verb = "update" => now.node[op.body.node] # Absent
    <3>1. Planned(now, b).verb = "update" => Planned(now, b) = b /\ b.verb = "update"
      BY DEF Planned, Delta
    <3>2. b.verb = "update" => now.node[b.node] # Absent
      BY <2>1 DEF LiveGesture, Asks
    <3>. QED
      BY <1>1, <2>1, <3>1, <3>2
  <2>4. /\ Sound(journal') /\ Upto(journal', Len(journal) + 1) = ApplyOp(now, op)
        /\ Upto(journal', Len(journal)) = now
    <3>1. /\ Sound(Append(journal, op))
          /\ Upto(Append(journal, op), Len(journal) + 1) = ApplyOp(Upto(journal, Len(journal)), op)
      BY <1>3, <2>1, <2>2, <2>3, SoundAppended DEF now
    <3>2. Upto(journal', Len(journal)) = Upto(journal, Len(journal))
      BY <1>3, <1>5, LongerJournal
    <3>. QED
      BY <1>1, <3>1, <3>2 DEF now
  <2>5. ASSUME pc \notin {"applying", "edges"}
        PROVE  IF cursor' = Unstamped THEN Leftover(journal', graph') ELSE Stands(journal', cursor', graph')
    <3>1. CASE live
      <4>1. cursor' # Unstamped
        BY <1>4, <3>1
      <4>2. Stands(journal', cursor', graph')
        BY <1>1, <2>1, <2>4, <3>1 DEF Stands
      <4>. QED
        BY <4>1, <4>2
    <3>2. CASE ~live /\ cursor = Unstamped
      <4>1. Leftover(journal, graph)
        BY <1>7, <2>5, <3>2 DEF StandInv
      <4>2. Leftover(journal', graph)
        BY <1>3, <1>5, <4>1, LongerJournal
      <4>. QED
        BY <1>1, <3>2, <4>2
    <3>3. CASE ~live /\ cursor # Unstamped
      <4>1. Stands(journal, cursor, graph) /\ cursor \in 0 .. Len(journal)
        BY <1>4, <1>7, <2>5, <3>3 DEF StandInv
      <4>2. Stands(journal', cursor, graph)
        BY <1>3, <1>5, <4>1, LongerStands
      <4>. QED
        BY <1>1, <3>3, <4>2
    <3>. QED
      BY <3>1, <3>2, <3>3
  <2>6. StandInv'
    BY <1>2, <1>7, <2>4, <2>5 DEF StandInv
  <2>7. BuildInv'
    <3>. SUFFICES ASSUME pc \in {"applying", "edges"} PROVE BuildInv'
      BY <1>2 DEF BuildInv
    <3>1. offset = 0 /\ graph' = graph
      BY <1>1, <1>3, <1>7 DEF BuildInv, IInv, TypeOK, Unstamped
    <3>2. Read' = Read /\ Applied' = Applied
      <4>1. SubSeq(journal', 1, end) = SubSeq(journal, 1, end)
        BY <1>1, <1>3
      <4>. QED
        BY <1>2, <4>1 DEF Read, Applied
    <3>3. ASSUME NEW base, OnBase(base)
          PROVE  OnBase(base)'
      BY <1>2, <3>1, <3>2, <3>3 DEF OnBase
    <3>4. offset' = 0 /\ (pc = "applying" => OnBase(graph)')
      BY <1>2, <1>7, <3>1, <3>3 DEF BuildInv
    <3>5. pc = "edges" => \E base \in Graph :
            OnBase(base)' /\ graph' = FlushedNodes(base, pending') /\ edgesDue' = DueEdges(base, pending')
      BY <1>2, <1>7, <3>1, <3>3 DEF BuildInv
    <3>. QED
      BY <1>2, <3>4, <3>5 DEF BuildInv
  <2>. QED
    BY <2>6, <2>7
<1>. QED
  BY <1>6, <1>7 DEF IInv, TypeOK

\* A call begins over what earlier ones left, or where its cursor says.
LEMMA ReadStand ==
  ASSUME WholeBuilds, SomethingExported, IInv, GuardInv, StandInv, ReadFamily
  PROVE  StandInv' /\ BuildInv'
<1>1. /\ pc = "reading" /\ ~GuardRefuses /\ end' = Len(journal) /\ pos' = offset /\ pc' = "applying"
      /\ clean' = (clean /\ (offset = 0 \/ cursor <= offset))
      /\ UNCHANGED <<journal, graph, cursor, offset, pending>>
  BY DEF ReadFamily, store, call
<1>2. /\ journal \in Seq(Op) /\ cursor \in Nat \cup {Unstamped} /\ offset \in Nat /\ clean \in BOOLEAN
      /\ cursor <= Len(journal) /\ pending = <<>>
      /\ offset <= IF cursor = Unstamped THEN 0 ELSE cursor
  BY <1>1, NotSkipped DEF IInv, TypeOK, PhaseInv
<1>3. cursor = Unstamped => offset = 0
  BY <1>2
<1>4. cursor # Unstamped => cursor \in 0 .. Len(journal)
  BY <1>2 DEF Unstamped
<1>5. StandInv'
  BY <1>1, <1>3 DEF StandInv
<1>6. ASSUME clean'
      PROVE  /\ offset # 0 => offset = cursor
             /\ OnBase(graph)'
  <2>1. clean /\ (offset # 0 => offset = cursor)
    <3>1. clean /\ (offset = 0 \/ cursor <= offset)
      BY <1>1, <1>6, Zenon
    <3>2. cursor # Unstamped => cursor \in Nat /\ offset <= cursor
      BY <1>2
    <3>. QED
      BY <1>2, <1>3, <3>1, <3>2
  <2>2. Applied' = offset
    <3>1. Len(pending') = 0
      BY <1>1, <1>2
    <3>. QED
      BY <1>1, <1>2, <3>1 DEF Applied
  <2>3. CASE offset = 0
    <3>1. Leftover(journal, graph)
      <4>1. CASE cursor = Unstamped
        BY <1>1, <2>1, <4>1 DEF StandInv
      <4>2. CASE cursor # Unstamped
        <5>1. Sound(journal) /\ Stands(journal, cursor, graph)
          BY <1>1, <2>1, <4>2 DEF StandInv
        <5>. QED
          BY <1>2, <1>4, <4>2, <5>1, StandsLeftover
      <4>. QED
        BY <4>1, <4>2
    <3>2. Taken(journal, 0, graph)
      BY <1>2, <3>1, LeftoverTaken
    <3>3. Read' = journal
      BY <1>1, <1>2 DEF Read
    <3>. QED
      BY <1>1, <2>2, <2>3, <3>2, <3>3 DEF OnBase
  <2>4. CASE offset # 0
    <3>1. Stands(journal, cursor, graph)
      BY <1>1, <1>3, <2>1, <2>4 DEF StandInv
    <3>. QED
      BY <1>1, <2>1, <2>2, <2>4, <3>1 DEF OnBase
  <2>. QED
    BY <2>1, <2>3, <2>4
<1>7. BuildInv'
  BY <1>1, <1>6 DEF BuildInv
<1>. QED
  BY <1>5, <1>7

\* A merge or a drop applied is one op more.
LEMMA DomainStand ==
  ASSUME IInv, GuardInv, BatchInv, StandInv, BuildInv, ApplyDomain
  PROVE  StandInv' /\ BuildInv'
<1>. DEFINE op == journal[pos + 1]
<1>1. /\ pc = "applying" /\ ~FlushDue /\ pos < end /\ op.body.verb # "extend"
      /\ graph' = ApplyOp(graph, op) /\ pos' = pos + 1
      /\ UNCHANGED <<journal, cursor, pc, offset, end, pending, edgesDue, clean>>
  BY DEF ApplyDomain, call
<1>2. pending = <<>> /\ Applied = pos /\ Applied' = pos + 1 /\ pos \in Nat /\ end \in Nat /\ end <= Len(journal)
  <2>1. pending = <<>> /\ pos \in Nat /\ end \in Nat /\ end <= Len(journal)
    BY <1>1, DomainAlone DEF IInv, TypeOK, PhaseInv
  <2>2. Len(pending) = 0
    BY <2>1
  <2>. QED
    BY <1>1, <2>1, <2>2 DEF Applied
<1>3. StandInv'
  BY <1>1 DEF StandInv
<1>4. ASSUME clean
      PROVE  /\ offset # 0 => offset = cursor
             /\ OnBase(graph)'
  <2>1. Read' = Read
    BY <1>1 DEF Read
  <2>2. /\ Read \in Seq(Op) /\ Len(Read) = end /\ Sound(Read) /\ journal \in Seq(Op)
        /\ \A i \in 1 .. end : Read[i] = journal[i]
    BY <1>2, <1>4, ReadFacts DEF StandInv
  <2>3. pos \in 0 .. end /\ pos + 1 \in 1 .. end /\ pos \in 0 .. Len(journal) /\ pos < Len(journal)
    BY <1>1, <1>2, <2>2
  <2>4. OnBase(graph) /\ (offset # 0 => offset = cursor)
    BY <1>1, <1>4 DEF BuildInv
  <2>5. CASE offset = 0
    <3>1. Taken(Read, pos, graph)
      BY <1>2, <2>4, <2>5 DEF OnBase
    <3>2. Read[pos + 1] = op
      BY <2>2, <2>3
    <3>. HIDE DEF op
    <3>3. Taken(Read, pos + 1, ApplyOp(graph, op))
      BY <1>1, <2>2, <2>3, <3>1, <3>2, TakenStep
    <3>. QED
      BY <1>1, <1>2, <2>1, <2>5, <3>3 DEF OnBase
  <2>6. CASE offset # 0
    <3>1. Stands(journal, pos, graph)
      BY <1>2, <2>4, <2>6 DEF OnBase
    <3>2. ApplyOp(graph, op) = Upto(journal, pos + 1)
      BY <2>2, <2>3, <3>1, StandsStep
    <3>3. Stands(journal, pos + 1, graph')
      BY <1>1, <3>2 DEF Stands
    <3>. QED
      BY <1>1, <1>2, <2>4, <2>6, <3>3 DEF OnBase
  <2>. QED
    BY <2>4, <2>5, <2>6
<1>5. BuildInv'
  BY <1>1, <1>4 DEF BuildInv
<1>. QED
  BY <1>3, <1>5

\* An element of a part of a sequence.
LEMMA SubSeqAt ==
  ASSUME NEW S, NEW s \in Seq(S), NEW a \in Nat, NEW b \in Nat, b <= Len(s), NEW k \in 1 .. (b - a)
  PROVE  SubSeq(s, a + 1, b)[k] = s[a + k]
OBVIOUS

\* The records of a batch emit different rows.
LEMMA PendingDisjoint ==
  ASSUME EachOnce, IInv, GuardInv, BatchInv, pc \in {"applying", "edges"}
  PROVE  Disjoint(pending) /\ pending \in Seq(WireOp)
<1>1. /\ pending = SubSeq(journal, Applied + 1, pos) /\ journal \in Seq(Op)
      /\ Applied \in Nat /\ pos \in Nat /\ pos <= Len(journal) /\ Len(pending) = pos - Applied
      /\ Len(pending) \in Nat /\ pending \in Seq(Op)
      /\ Len(pending) <= 1 \/ pos <= Len(Baseline)
  BY DEF BatchInv, Applied, IInv, TypeOK, PhaseInv
<1>2. pending \in Seq(WireOp)
  BY DEF IInv, TypeOK, WiresPending, WireOp
<1>. HIDE DEF Applied
<1>3. ASSUME NEW i \in 1 .. Len(pending), NEW j \in 1 .. Len(pending), i # j
      PROVE  /\ Wired(pending[i].body) \cap Wired(pending[j].body) = {}
             /\ pending[i].body.edges \cap pending[j].body.edges = {}
  <2>1. pos <= Len(Baseline) /\ Len(Baseline) \in Nat
    BY <1>1, <1>3, GenesisType
  <2>2. /\ Applied + i \in 1 .. Len(Baseline) /\ Applied + j \in 1 .. Len(Baseline)
        /\ Applied + i # Applied + j
    BY <1>1, <1>3, <2>1
  <2>3. ASSUME NEW m \in 1 .. Len(pending), Applied + m \in 1 .. Len(Baseline)
        PROVE  pending[m].body = Baseline[Applied + m]
    <3>1. \A k \in 1 .. (pos - Applied) : SubSeq(journal, Applied + 1, pos)[k] = journal[Applied + k]
      BY <1>1, SubSeqAt
    <3>2. m \in 1 .. (pos - Applied)
      BY <1>1
    <3>3. pending[m] = journal[Applied + m]
      BY <1>1, <3>1, <3>2
    <3>4. journal[Applied + m] = GenesisRecords[Applied + m]
      BY <2>3 DEF GuardInv
    <3>5. GenesisRecords[Applied + m].body = Baseline[Applied + m]
      BY <2>3, GenesisType
    <3>. QED
      BY <3>3, <3>4, <3>5
  <2>4. pending[i].body = Baseline[Applied + i] /\ pending[j].body = Baseline[Applied + j]
    BY <2>2, <2>3
  <2>. QED
    BY <2>2, <2>4 DEF EachOnce
<1>. QED
  BY <1>2, <1>3 DEF Disjoint

\* What a flush's base and its records come to.
LEMMA BatchTaken ==
  ASSUME EachOnce, SomethingExported, IInv, GuardInv, BatchInv, StandInv, clean,
         pc \in {"applying", "edges"}, NEW base \in Graph, OnBase(base),
         offset # 0 => offset = cursor
  PROVE  /\ offset = 0 => Taken(Read, pos, FoldLeft(ApplyOp, base, pending))
         /\ offset # 0 => Stands(journal, pos, FoldLeft(ApplyOp, base, pending))
<1>1. /\ pending = SubSeq(journal, Applied + 1, pos) /\ journal \in Seq(Op)
      /\ Applied \in Nat /\ pos \in Nat /\ pos <= end /\ end <= Len(journal)
      /\ Len(pending) = pos - Applied /\ Applied <= pos /\ offset <= Applied /\ Len(pending) \in Nat
      /\ Len(pending) <= 1 \/ pos <= Len(Baseline)
  BY DEF BatchInv, Applied, IInv, TypeOK, PhaseInv
<1>. HIDE DEF Applied
<1>2. CASE offset = 0
  <2>1. Read \in Seq(Op) /\ Len(Read) = end /\ Sound(Read) /\ \A i \in 1 .. end : Read[i] = journal[i]
    BY <1>1, ReadFacts DEF StandInv
  <2>2. SubSeq(Read, Applied + 1, pos) = pending
    <3>. HIDE DEF Read
    <3>. QED
      BY <1>1, <2>1
  <2>3. Applied \in 0 .. Len(Read) /\ pos \in Applied .. Len(Read)
    BY <1>1, <2>1
  <2>4. Taken(Read, Applied, base)
    BY <1>2 DEF OnBase
  <2>. HIDE DEF Read
  <2>5. Taken(Read, pos, FoldLeft(ApplyOp, base, SubSeq(Read, Applied + 1, pos)))
    BY <2>1, <2>3, <2>4, TakenBatch
  <2>. QED
    BY <1>2, <2>2, <2>5
<1>3. CASE offset # 0
  <2>1. Len(pending) <= 1
    <3>1. cursor # Unstamped
      BY <1>3 DEF IInv, TypeOK, Unstamped
    <3>2. Len(Baseline) <= offset /\ Len(Baseline) \in Nat /\ offset \in Nat
      BY <1>3, <3>1, GenesisType DEF GuardInv, IInv, TypeOK
    <3>. QED
      BY <1>1, <3>2
  <2>2. Stands(journal, Applied, base) /\ Applied \in 0 .. Len(journal)
    <3>1. Stands(journal, Applied, base)
      BY <1>3 DEF OnBase
    <3>2. Len(journal) \in Nat /\ end \in Nat
      BY DEF IInv, TypeOK
    <3>. QED
      BY <1>1, <3>1, <3>2
  <2>3. CASE Len(pending) = 0
    <3>1. pos = Applied
      BY <1>1, <2>3
    <3>2. FoldLeft(ApplyOp, base, SubSeq(journal, Applied + 1, Applied)) = base
      BY <1>1, <2>2, RunOfOps
    <3>. QED
      BY <1>1, <1>3, <2>2, <3>1, <3>2
  <2>4. CASE Len(pending) = 1
    <3>0. Len(journal) \in Nat /\ end \in Nat
      BY DEF IInv, TypeOK
    <3>1. pos = Applied + 1 /\ Applied < Len(journal) /\ pos \in (Applied + 1) .. Len(journal) /\ pos - 1 = Applied
      BY <1>1, <2>4, <3>0
    <3>2. FoldLeft(ApplyOp, base, SubSeq(journal, Applied + 1, pos)) =
            ApplyOp(FoldLeft(ApplyOp, base, SubSeq(journal, Applied + 1, pos - 1)), journal[pos])
      BY <1>1, <2>2, <3>1, RunOfOps
    <3>3. FoldLeft(ApplyOp, base, SubSeq(journal, Applied + 1, pos - 1)) = base
      <4>1. FoldLeft(ApplyOp, base, SubSeq(journal, Applied + 1, Applied)) = base
        BY <1>1, <2>2, RunOfOps
      <4>. QED
        BY <3>1, <4>1
    <3>4. ApplyOp(base, journal[Applied + 1]) = Upto(journal, Applied + 1)
      BY <1>1, <2>2, <3>1, StandsStep
    <3>5. FoldLeft(ApplyOp, base, pending) = Upto(journal, pos)
      BY <1>1, <3>1, <3>2, <3>3, <3>4
    <3>. QED
      BY <1>3, <3>5 DEF Stands
  <2>. QED
    BY <1>1, <2>1, <2>3, <2>4
<1>. QED
  BY <1>2, <1>3

\* A batch flushed is its records taken.
LEMMA FlushStand ==
  ASSUME EachOnce, SomethingExported, IInv, GuardInv, BatchInv, StandInv, BuildInv, FlushEdges
  PROVE  StandInv' /\ BuildInv'
<1>1. /\ pc = "edges" /\ graph' = WithEdges(graph, edgesDue) /\ pending' = <<>> /\ pc' = "applying"
      /\ UNCHANGED <<journal, cursor, offset, end, pos, clean>>
  BY DEF FlushEdges, call
<1>2. StandInv'
  BY <1>1 DEF StandInv
<1>3. ASSUME clean
      PROVE  (offset # 0 => offset = cursor) /\ OnBase(graph)'
  <2>1. PICK base \in Graph :
          OnBase(base) /\ graph = FlushedNodes(base, pending) /\ edgesDue = DueEdges(base, pending)
    BY <1>1, <1>3 DEF BuildInv
  <2>2. offset # 0 => offset = cursor
    BY <1>1, <1>3 DEF BuildInv
  <2>3. graph' = FoldLeft(ApplyOp, base, pending)
    BY <1>1, <2>1, PendingDisjoint, FlushIsReplay
  <2>4. /\ offset = 0 => Taken(Read, pos, graph')
        /\ offset # 0 => Stands(journal, pos, graph')
    BY <1>1, <1>3, <2>1, <2>2, <2>3, BatchTaken
  <2>5. Read' = Read /\ Applied' = pos
    <3>1. Len(pending') = 0 /\ pos \in Nat
      BY <1>1 DEF IInv, TypeOK
    <3>. QED
      BY <1>1, <3>1 DEF Read, Applied
  <2>. QED
    BY <1>1, <2>2, <2>4, <2>5 DEF OnBase
<1>4. BuildInv'
  BY <1>1, <1>3 DEF BuildInv
<1>. QED
  BY <1>2, <1>4

\* A build that ends short of its stamp leaves what the next one may start from.
LEMMA EndedLeftover ==
  ASSUME WholeBuilds, SomethingExported, EachOnce, IInv, GuardInv, BatchInv, StandInv, BuildInv,
         clean, pc # "idle", cursor = Unstamped
  PROVE  Leftover(journal, graph)
<1>1. CASE pc \notin {"applying", "edges"}
  BY <1>1 DEF StandInv
<1>2. CASE pc \in {"applying", "edges"}
  <2>1. end <= Len(journal) /\ pos \in Nat /\ graph \in Graph /\ Applied \in Nat
    BY <1>2 DEF IInv, TypeOK, PhaseInv, BatchInv, Applied
  <2>2. offset = 0
    <3>1. held = Unstamped
      BY DEF IInv, PhaseInv
    <3>. QED
      BY <3>1 DEF GuardInv, WholeBuilds
  <2>3. SUFFICES Leftover(Read, graph)
    BY <2>1, ReadFacts
  <2>4. CASE pc = "applying"
    <3>1. Taken(Read, Applied, graph)
      BY <2>2, <2>4 DEF BuildInv, OnBase
    <3>. QED
      BY <3>1 DEF Taken
  <2>5. CASE pc = "edges"
    <3>1. PICK base \in Graph : OnBase(base) /\ graph = FlushedNodes(base, pending)
      BY <2>5 DEF BuildInv
    <3>. DEFINE whole == FoldLeft(ApplyOp, base, pending)
    <3>2. Leftover(Read, base)
      BY <2>2, <3>1 DEF OnBase, Taken
    <3>3. Leftover(Read, whole)
      <4>1. Taken(Read, pos, whole)
        BY <1>2, <2>2, <3>1, BatchTaken
      <4>. QED
        BY <4>1 DEF Taken
    <3>4. /\ graph.node = whole.node /\ graph.edge = base.edge
          /\ \A n \in NodeId : base.node[n] # Absent => graph.node[n] = base.node[n]
      BY <1>2, <3>1, PendingDisjoint, FlushIsReplay
    <3>. HIDE DEF whole, Read
    <3>5. \A n \in NodeId : base.node[n] # Absent => whole.node[n] # Absent
      BY <3>4
    <3>6. Read \in Seq(Op)
      BY <2>1, ReadFacts
    <3>. QED
      BY <2>1, <3>2, <3>3, <3>4, <3>5, <3>6, HalfLeftover
  <2>. QED
    BY <1>2, <2>4, <2>5
<1>. QED
  BY <1>1, <1>2

\* A call that reaches the end of what it read leaves the db standing there.
LEMMA StampStand ==
  ASSUME IInv, GuardInv, BatchInv, StandInv, BuildInv, Stamp
  PROVE  StandInv' /\ BuildInv'
<1>1. /\ pc = "applying" /\ pos >= end /\ pending = <<>> /\ cursor' = end /\ pc' = "idle"
      /\ UNCHANGED <<journal, graph, clean>>
  BY DEF Stamp, Finish
<1>2. Applied = end /\ end \in Nat /\ end <= Len(journal) /\ cursor' # Unstamped
  <2>1. Len(pending) = 0 /\ pos <= end /\ pos \in Nat /\ end \in Nat /\ end <= Len(journal)
    BY <1>1 DEF BatchInv, IInv, TypeOK, PhaseInv
  <2>. QED
    BY <1>1, <2>1 DEF Applied, Unstamped
<1>3. ASSUME clean
      PROVE  Stands(journal, end, graph)
  <2>1. OnBase(graph)
    BY <1>1, <1>3 DEF BuildInv
  <2>2. CASE offset = 0
    <3>1. Read \in Seq(Op) /\ Len(Read) = end /\ Upto(Read, end) = Upto(journal, end)
      BY <1>2, ReadFacts
    <3>2. Taken(Read, Len(Read), graph)
      BY <1>2, <2>1, <2>2, <3>1 DEF OnBase
    <3>3. graph = Upto(Read, Len(Read))
      BY <3>1, <3>2, TakenEnds
    <3>. QED
      BY <3>1, <3>3 DEF Stands
  <2>3. CASE offset # 0
    BY <1>2, <2>1, <2>3 DEF OnBase
  <2>. QED
    BY <2>2, <2>3
<1>. QED
  BY <1>1, <1>2, <1>3 DEF StandInv, BuildInv

\* Every step keeps it so.
LEMMA StepStand ==
  ASSUME WholeBuilds, SomethingExported, EachOnce, EndsEmitted,
         IInv, GuardInv, BatchInv, StandInv, BuildInv, [Next]_vars
  PROVE  StandInv' /\ BuildInv'
<1>1. ASSUME NEW b \in Bodies, LiveGesture(b)
      PROVE  StandInv' /\ BuildInv'
  BY <1>1, GestureStand
<1>2. ASSUME pc' \notin {"applying", "edges"}, pc \notin {"applying", "edges"},
             UNCHANGED <<journal, graph, cursor, clean>>
      PROVE  StandInv' /\ BuildInv'
  BY <1>2 DEF StandInv, BuildInv
<1>3. CASE PutInPlace \/ Enter \/ OffsetRefused
  <2>1. /\ pc' \notin {"applying", "edges"} /\ pc \notin {"applying", "edges"}
        /\ UNCHANGED <<journal, graph, cursor, clean>>
    BY <1>3 DEF PutInPlace, Enter, OffsetRefused, Finish, store
  <2>. QED
    BY <1>2, <2>1
<1>4. ASSUME NEW o \in FreshOffsets \cup HeldOffsets, NEW n \in BatchSizes, Start(o, n)
      PROVE  StandInv' /\ BuildInv'
  <2>1. /\ pc' \notin {"applying", "edges"} /\ pc \notin {"applying", "edges"}
        /\ UNCHANGED <<journal, graph, cursor, clean>>
    BY <1>4 DEF Start, store
  <2>. QED
    BY <1>2, <2>1
<1>5. CASE ReadFamily
  BY <1>5, ReadStand
<1>6. CASE TakeWires
  <2>1. /\ pc = "applying"
        /\ pending' = Append(pending, journal[pos + 1]) /\ pos' = pos + 1
        /\ UNCHANGED <<journal, graph, cursor, pc, offset, end, clean>>
    BY <1>6 DEF TakeWires, store, call
  <2>2. Read' = Read /\ Applied' = Applied
    <3>1. pending \in Seq(Op) /\ pos \in Nat
      BY DEF IInv, TypeOK
    <3>2. Len(pending') = Len(pending) + 1 /\ Len(pending) \in Nat
      BY <2>1, <3>1
    <3>. QED
      BY <2>1, <3>1, <3>2 DEF Read, Applied
  <2>3. StandInv'
    BY <2>1 DEF StandInv
  <2>4. BuildInv'
    BY <2>1, <2>2 DEF BuildInv, OnBase
  <2>. QED
    BY <2>3, <2>4
<1>7. CASE ApplyDomain
  BY <1>7, DomainStand
<1>8. CASE FlushNodes
  <2>1. /\ pc = "applying" /\ pc' = "edges"
        /\ graph' = FlushedNodes(graph, pending) /\ edgesDue' = DueEdges(graph, pending)
        /\ UNCHANGED <<journal, cursor, offset, end, pos, pending, clean>>
    BY <1>8 DEF FlushNodes, call
  <2>2. StandInv'
    BY <2>1 DEF StandInv
  <2>3. BuildInv'
    <3>. SUFFICES ASSUME clean PROVE BuildInv'
      BY <2>1 DEF BuildInv
    <3>1. OnBase(graph) /\ graph \in Graph /\ (offset # 0 => offset = cursor)
      BY <2>1 DEF BuildInv, IInv, TypeOK
    <3>2. ASSUME NEW base, OnBase(base)
          PROVE  OnBase(base)'
      BY <2>1, <3>2 DEF OnBase, Read, Applied
    <3>3. \E base \in Graph :
            OnBase(base)' /\ graph' = FlushedNodes(base, pending') /\ edgesDue' = DueEdges(base, pending')
      BY <2>1, <3>1, <3>2
    <3>. QED
      BY <2>1, <3>1, <3>3 DEF BuildInv
  <2>. QED
    BY <2>2, <2>3
<1>9. CASE FlushEdges
  BY <1>9, FlushStand
<1>10. CASE ReplayRefused \/ Die
  <2>1. /\ pc # "idle" /\ pc' = "idle" /\ clean' = (clean /\ held = Unstamped)
        /\ UNCHANGED <<journal, graph, cursor>>
    BY <1>10 DEF ReplayRefused, Die, Finish, store
  <2>2. cursor = Unstamped => clean' /\ held = Unstamped
    BY <2>1 DEF StandInv, IInv, PhaseInv
  <2>3. clean' => clean /\ cursor = Unstamped
    <3>1. held = Unstamped <=> cursor = Unstamped
      BY <2>1 DEF IInv, PhaseInv
    <3>. QED
      BY <2>1, <3>1
  <2>4. clean' => Leftover(journal, graph)
    BY <2>1, <2>3, EndedLeftover
  <2>. QED
    BY <2>1, <2>2, <2>3, <2>4 DEF StandInv, BuildInv
<1>11. CASE Stamp
  BY <1>11, StampStand
<1>12. CASE UNCHANGED vars
  BY <1>12 DEF vars, store, StandInv, BuildInv, OnBase, Read, Applied, call, pass
<1>. QED
  BY <1>1, <1>3, <1>4, <1>5, <1>6, <1>7, <1>8, <1>9, <1>10, <1>11, <1>12 DEF Next, Replaying

\* A db holds what its cursor says: no build and no replay from the start leaves it
\* standing past a record it did not apply, whatever raced with it and whatever
\* builds died before it.
THEOREM StampIsAppliedHolds ==
  ASSUME WholeBuilds, SomethingExported, EachOnce, NodesFirst, EndsEmitted
  PROVE  Spec => []StampIsApplied
<1>1. Init => StandInv /\ BuildInv
  BY InitStand
<1>2. IInv /\ GuardInv /\ BatchInv /\ StandInv /\ BuildInv /\ [Next]_vars => StandInv' /\ BuildInv'
  BY StepStand
<1>3. IInv /\ StandInv => StampIsApplied
  BY DEF StandInv, StampIsApplied, StandsAtCursor, Stands, Upto, ReplayOf
<1>. QED
  BY Invariant, GuardInvariant, BatchInvariant, <1>1, <1>2, <1>3, PTL DEF Spec

-----------------------------------------------------------------------------
(* The first build of a fresh db. *)

\* Every record of the family is a delta of those before it.
Deltas == \A i \in 1 .. Len(journal) : IsDelta(Upto(journal, i - 1), journal[i])

\* A first build has in its db what its records leave from nothing, of those
\* pending the nodes when an extend is half done.
FirstBuild ==
  /\ ~refused
  /\ runs = 0 => pc = "idle" /\ graph = EmptyGraph
  /\ pc \in {"locking", "reading"} => graph = EmptyGraph
  /\ pc = "applying" => graph = Upto(journal, Applied)
  /\ pc = "edges" => /\ graph = FlushedNodes(Upto(journal, Applied), pending)
                     /\ edgesDue = DueEdges(Upto(journal, Applied), pending)

FirstInv == cursor = Unstamped => Deltas /\ (runs <= 1 => FirstBuild)

\* The ops between two places of a journal lead from the one to the other.
LEMMA UptoRun ==
  ASSUME NEW s \in Seq(Op), NEW j \in Nat, NEW k \in Nat, j <= k, k <= Len(s)
  PROVE  FoldLeft(ApplyOp, Upto(s, j), SubSeq(s, j + 1, k)) = Upto(s, k)
<1>. DEFINE past == SubSeq(s, 1, j)
            run == SubSeq(s, j + 1, k)
<1>1. /\ j \in 1 - 1 .. Len(s) /\ k \in j .. Len(s) /\ 1 \in 1 .. Len(s) + 1
      /\ past \in Seq(Op) /\ run \in Seq(Op)
  OBVIOUS
<1>2. past \o run = SubSeq(s, 1, k)
  BY <1>1, ConcatAdjacentSubSeq
<1>. HIDE DEF past, run
<1>3. FoldLeft(ApplyOp, EmptyGraph, past \o run) = FoldLeft(ApplyOp, FoldLeft(ApplyOp, EmptyGraph, past), run)
  BY <1>1, EmptyGraphType, ReplayLaws
<1>. QED
  BY <1>2, <1>3 DEF Upto, past, run

\* It holds at the start.
LEMMA InitFirst == ASSUME EachOnce, Init PROVE FirstInv
<1>1. journal = GenesisRecords /\ pc = "idle" /\ runs = 0 /\ ~refused
  BY DEF Init
<1>2. cursor = Unstamped => graph = EmptyGraph
  BY GenesisType DEF Init, Unstamped
<1>3. Deltas
  BY <1>1, GenesisDeltas, GenesisType DEF Deltas
<1>. QED
  BY <1>1, <1>2, <1>3 DEF FirstInv, FirstBuild

\* What is pending in a first build finds none of its nodes there.
LEMMA PendingApplies ==
  ASSUME EachOnce, IInv, GuardInv, BatchInv, FirstInv,
         cursor = Unstamped, runs <= 1, pc = "applying"
  PROVE  ~PendingRefuses
<1>1. /\ pending = SubSeq(journal, Applied + 1, pos) /\ journal \in Seq(Op)
      /\ Applied \in Nat /\ pos \in Nat /\ pos <= Len(journal) /\ Len(journal) \in Nat
      /\ Len(pending) = pos - Applied
      /\ Len(pending) \in Nat
      /\ Len(pending) <= 1 \/ pos <= Len(Baseline)
  BY DEF BatchInv, Applied, IInv, TypeOK, PhaseInv
<1>2. graph = Upto(journal, Applied) /\ Deltas
  BY DEF FirstInv, FirstBuild
<1>. HIDE DEF Applied
<1>3. SUFFICES ASSUME NEW i \in 1 .. Len(pending), Refuses(graph, pending[i])
               PROVE  FALSE
  BY DEF PendingRefuses
<1>4. PICK n \in Wired(pending[i].body) : graph.node[n] # Absent
  BY <1>3 DEF Refuses, Mismatch
<1>5. pending[i] = journal[Applied + i]
  <2>1. \A k \in 1 .. (pos - Applied) : SubSeq(journal, Applied + 1, pos)[k] = journal[Applied + k]
    BY <1>1, SubSeqAt
  <2>. QED
    BY <1>1, <2>1
<1>6. n \in NodeId
  BY <1>4 DEF Wired
<1>7. CASE i = 1
  <2>1. Applied + 1 \in 1 .. Len(journal) /\ (Applied + 1) - 1 = Applied
    BY <1>1, <1>7
  <2>2. IsDelta(graph, pending[i])
    BY <1>2, <1>5, <1>7, <2>1 DEF Deltas
  <2>3. pending[i].body.verb = "extend"
    BY <1>3 DEF Refuses
  <2>. QED
    BY <1>4, <2>2, <2>3 DEF IsDelta, AbsentNodes
<1>8. CASE i # 1
  <2>1. /\ Applied \in 0 .. Len(Baseline) /\ Applied + i \in 1 .. Len(Baseline) /\ Len(Baseline) \in Nat
        /\ \A j \in 1 .. Applied : j \in 1 .. Len(Baseline) /\ Applied + i # j
    BY <1>1, <1>8, GenesisType
  <2>2. pending[i].body = Baseline[Applied + i]
    <3>1. journal[Applied + i] = GenesisRecords[Applied + i]
      BY <2>1 DEF GuardInv
    <3>2. GenesisRecords[Applied + i].body = Baseline[Applied + i]
      BY <2>1, GenesisType
    <3>. QED
      BY <1>5, <3>1, <3>2
  <2>3. Upto(journal, Applied) = Upto(GenesisRecords, Applied)
    <3>1. /\ GenesisRecords \in Seq(Op) /\ Len(GenesisRecords) <= Len(journal)
          /\ \A j \in 1 .. Len(GenesisRecords) : journal[j] = GenesisRecords[j]
          /\ Applied \in 0 .. Len(GenesisRecords)
      BY <2>1, GenesisType DEF GuardInv
    <3>. QED
      BY <1>1, <3>1, LongerJournal
  <2>4. PICK j \in 1 .. Applied : n \in Wired(Baseline[j])
    BY <1>2, <1>4, <1>6, <2>1, <2>3, GenesisRows
  <2>. QED
    BY <1>4, <2>1, <2>2, <2>4 DEF EachOnce
<1>. QED
  BY <1>7, <1>8

\* Every step keeps a first build so.
LEMMA StepFirst ==
  ASSUME WholeBuilds, SomethingExported, EachOnce, IInv, GuardInv, BatchInv, FirstInv, [Next]_vars
  PROVE  FirstInv'
<1>. SUFFICES ASSUME cursor' = Unstamped PROVE Deltas' /\ (runs' <= 1 => FirstBuild')
  BY DEF FirstInv
<1>0. /\ journal \in Seq(Op) /\ Len(journal) \in Nat /\ runs \in Nat
      /\ pos \in Nat /\ offset \in Nat /\ pending \in Seq(Op) /\ Len(pending) \in Nat
  BY DEF IInv, TypeOK
<1>1. ASSUME NEW b \in Bodies, LiveGesture(b)
      PROVE  Deltas' /\ (runs' <= 1 => FirstBuild')
  <2>1. PICK op \in Op :
           /\ op.body = Planned(Healed, b) /\ b \in Body
           /\ journal' \in Seq(Op) /\ Len(journal') = Len(journal) + 1
           /\ journal'[Len(journal) + 1] = op
           /\ \A i \in 1 .. Len(journal) : journal'[i] = journal[i]
           /\ IF live THEN cursor' \in Nat ELSE graph' = graph /\ cursor' = cursor
    <3>1. IF live THEN cursor' \in {Len(journal), Len(journal) + 1} ELSE graph' = graph /\ cursor' = cursor
      BY <1>1, GestureFacts
    <3>. QED
      BY <1>0, <1>1, <3>1, GestureFacts
  <2>2. ~live /\ graph' = graph /\ cursor = Unstamped
    BY <2>1 DEF Unstamped
  <2>3. UNCHANGED <<pc, pos, pending, edgesDue, runs, refused>>
    BY <1>1 DEF LiveGesture, pass
  <2>4. Healed = Upto(journal, Len(journal))
    <3>1. SubSeq(journal, 1, Len(journal)) = journal
      BY <1>0
    <3>. QED
      BY <2>2, <3>1 DEF Healed, ReplayOf, Upto
  <2>5. \A i \in 0 .. Len(journal) : Upto(journal', i) = Upto(journal, i)
    <3>1. Len(journal) <= Len(journal')
      BY <1>0, <2>1
    <3>. QED
      BY <1>0, <2>1, <3>1, LongerJournal
  <2>6. Deltas'
    <3>. SUFFICES ASSUME NEW i \in 1 .. Len(journal')
                  PROVE  IsDelta(Upto(journal', i - 1), journal'[i])
      BY DEF Deltas
    <3>1. CASE i = Len(journal) + 1
      <4>1. Upto(journal', i - 1) = Healed /\ journal'[i] = op
        BY <1>0, <2>1, <2>4, <2>5, <3>1
      <4>2. IsDelta(Healed, op)
        BY <2>1, PlannedIsDelta
      <4>. QED
        BY <4>1, <4>2
    <3>2. CASE i # Len(journal) + 1
      <4>1. i \in 1 .. Len(journal) /\ i - 1 \in 0 .. Len(journal)
        BY <1>0, <2>1, <3>2
      <4>2. IsDelta(Upto(journal, i - 1), journal[i])
        BY <2>2, <4>1 DEF FirstInv, Deltas
      <4>. QED
        BY <2>1, <2>5, <4>1, <4>2
    <3>. QED
      BY <3>1, <3>2
  <2>7. ASSUME runs <= 1 PROVE FirstBuild'
    <3>1. FirstBuild
      BY <2>2, <2>7 DEF FirstInv
    <3>2. pc \in {"applying", "edges"} => Upto(journal', Applied) = Upto(journal, Applied)
      <4>1. pc \in {"applying", "edges"} => Applied \in 0 .. Len(journal)
        BY <1>0 DEF IInv, TypeOK, PhaseInv, BatchInv, Applied
      <4>. QED
        BY <2>5, <4>1
    <3>3. Applied' = Applied
      BY <2>3 DEF Applied
    <3>. QED
      BY <2>2, <2>3, <3>1, <3>2, <3>3 DEF FirstBuild
  <2>. QED
    BY <2>3, <2>6, <2>7
<1>2. ASSUME UNCHANGED journal, cursor = Unstamped, runs' <= 1 => FirstBuild'
      PROVE  Deltas' /\ (runs' <= 1 => FirstBuild')
  BY <1>2 DEF FirstInv, Deltas, Upto
<1>3. ASSUME NEW o \in FreshOffsets \cup HeldOffsets, NEW n \in BatchSizes, Start(o, n)
      PROVE  Deltas' /\ (runs' <= 1 => FirstBuild')
  <2>1. /\ UNCHANGED <<journal, cursor, graph>> /\ runs' = runs + 1 /\ pc' = "locking" /\ refused' = FALSE
    BY <1>3 DEF Start, store
  <2>2. runs' <= 1 => runs = 0
    BY <1>0, <2>1
  <2>3. runs' <= 1 => graph = EmptyGraph
    BY <2>1, <2>2 DEF FirstInv, FirstBuild
  <2>. QED
    BY <1>0, <1>2, <2>1, <2>3 DEF FirstBuild
<1>4. CASE PutInPlace \/ Enter \/ OffsetRefused \/ Die
  <2>1. /\ UNCHANGED <<journal, cursor, graph, runs, refused>>
        /\ \/ pc' = pc /\ pc = "idle"
           \/ pc = "locking" /\ pc' = "reading"
           \/ pc # "idle" /\ pc' = "idle"
    BY <1>4 DEF PutInPlace, Enter, OffsetRefused, Die, Finish, store
  <2>2. runs' <= 1 => FirstBuild'
    BY <2>1 DEF FirstInv, FirstBuild
  <2>. QED
    BY <1>2, <2>1, <2>2
<1>5. CASE ReadFamily
  <2>1. /\ pc = "reading" /\ pos' = offset /\ pc' = "applying"
        /\ UNCHANGED <<journal, graph, cursor, pending, runs, refused>>
    BY <1>5 DEF ReadFamily, store
  <2>2. pending = <<>> /\ offset = 0
    <3>1. held = Unstamped /\ pending = <<>>
      BY <2>1 DEF IInv, PhaseInv
    <3>. QED
      BY <2>1, <3>1 DEF GuardInv, WholeBuilds
  <2>3. Applied' = 0
    <3>1. Len(pending') = 0
      BY <2>1, <2>2
    <3>2. pos' = 0
      BY <2>1, <2>2
    <3>. QED
      BY <3>1, <3>2 DEF Applied
  <2>4. runs <= 1 => graph = Upto(journal, 0) /\ runs # 0 /\ ~refused
    BY <1>0, <2>1, UptoSteps DEF FirstInv, FirstBuild
  <2>. QED
    BY <1>2, <2>1, <2>3, <2>4 DEF FirstBuild
<1>6. CASE TakeWires
  <2>1. /\ pc = "applying" /\ pending' = Append(pending, journal[pos + 1]) /\ pos' = pos + 1
        /\ UNCHANGED <<journal, graph, cursor, pc, edgesDue, runs, refused>>
    BY <1>6 DEF TakeWires, store
  <2>2. Applied' = Applied
    <3>1. Len(pending') = Len(pending) + 1
      BY <1>0, <2>1
    <3>. QED
      BY <1>0, <2>1, <3>1 DEF Applied
  <2>3. runs' <= 1 => FirstBuild'
    BY <2>1, <2>2 DEF FirstInv, FirstBuild
  <2>. QED
    BY <1>2, <2>1, <2>3
<1>7. CASE ApplyDomain
  <2>1. /\ pc = "applying" /\ ~FlushDue /\ pos < end /\ journal[pos + 1].body.verb # "extend"
        /\ graph' = ApplyOp(graph, journal[pos + 1]) /\ pos' = pos + 1
        /\ UNCHANGED <<journal, cursor, pc, pending, runs, refused>>
    BY <1>7 DEF ApplyDomain
  <2>2. Applied = pos /\ Applied' = pos + 1
    <3>1. Len(pending) = 0
      BY <2>1, DomainAlone
    <3>. QED
      BY <1>0, <2>1, <3>1 DEF Applied
  <2>3. pos + 1 \in 1 .. Len(journal) /\ (pos + 1) - 1 = pos
    BY <1>0, <2>1 DEF IInv, TypeOK, PhaseInv
  <2>4. Upto(journal, pos + 1) = ApplyOp(Upto(journal, pos), journal[pos + 1])
    BY <1>0, <2>3, UptoSteps
  <2>5. runs' <= 1 => FirstBuild'
    BY <2>1, <2>2, <2>4 DEF FirstInv, FirstBuild
  <2>. QED
    BY <1>2, <2>1, <2>5
<1>8. CASE FlushNodes
  <2>1. /\ pc = "applying" /\ pc' = "edges"
        /\ graph' = FlushedNodes(graph, pending) /\ edgesDue' = DueEdges(graph, pending)
        /\ UNCHANGED <<journal, cursor, pos, pending, runs, refused>>
    BY <1>8 DEF FlushNodes
  <2>2. Applied' = Applied
    BY <2>1 DEF Applied
  <2>3. runs' <= 1 => FirstBuild'
    BY <2>1, <2>2 DEF FirstInv, FirstBuild
  <2>. QED
    BY <1>2, <2>1, <2>3
<1>9. CASE FlushEdges
  <2>1. /\ pc = "edges" /\ pc' = "applying" /\ graph' = WithEdges(graph, edgesDue) /\ pending' = <<>>
        /\ UNCHANGED <<journal, cursor, pos, runs, refused>>
    BY <1>9 DEF FlushEdges
  <2>2. Applied' = pos
    <3>1. Len(pending') = 0
      BY <2>1
    <3>. QED
      BY <1>0, <2>1, <3>1 DEF Applied
  <2>3. /\ pending = SubSeq(journal, Applied + 1, pos) /\ Applied \in Nat /\ Applied <= pos
        /\ pos <= Len(journal)
    BY <1>0, <2>1 DEF BatchInv, IInv, TypeOK, PhaseInv, Applied
  <2>4. Upto(journal, Applied) \in Graph
    <3>1. Applied \in 0 .. Len(journal)
      BY <1>0, <2>3
    <3>. QED
      BY <1>0, <3>1, UptoSteps
  <2>. HIDE DEF Applied
  <2>5. ASSUME runs <= 1 PROVE graph' = Upto(journal, pos) /\ runs # 0 /\ ~refused
    <3>1. /\ graph = FlushedNodes(Upto(journal, Applied), pending) /\ runs # 0 /\ ~refused
          /\ edgesDue = DueEdges(Upto(journal, Applied), pending)
      BY <2>1, <2>5 DEF FirstInv, FirstBuild
    <3>2. graph' = FoldLeft(ApplyOp, Upto(journal, Applied), pending)
      BY <2>1, <2>4, <3>1, PendingDisjoint, FlushIsReplay
    <3>3. FoldLeft(ApplyOp, Upto(journal, Applied), SubSeq(journal, Applied + 1, pos)) = Upto(journal, pos)
      BY <1>0, <2>3, UptoRun
    <3>. QED
      BY <2>3, <3>1, <3>2, <3>3
  <2>6. runs' <= 1 => FirstBuild'
    BY <2>1, <2>2, <2>5 DEF FirstBuild
  <2>. QED
    BY <1>2, <2>1, <2>6
<1>10. CASE ReplayRefused
  <2>1. /\ pc = "applying" /\ PendingRefuses /\ UNCHANGED <<journal, cursor, runs>>
    BY <1>10 DEF ReplayRefused, store
  <2>2. ~(runs <= 1)
    BY <2>1, PendingApplies
  <2>. QED
    BY <1>2, <2>1, <2>2
<1>11. CASE Stamp
  <2>1. cursor' = end /\ end \in Nat
    BY <1>11 DEF Stamp, IInv, TypeOK
  <2>. QED
    BY <2>1 DEF Unstamped
<1>12. CASE UNCHANGED vars
  <2>1. UNCHANGED <<journal, graph, cursor, pc, pos, pending, edgesDue, runs, refused>>
    BY <1>12 DEF vars, store, pass
  <2>2. runs' <= 1 => FirstBuild'
    BY <2>1 DEF FirstInv, FirstBuild, Applied
  <2>. QED
    BY <1>2, <2>1, <2>2
<1>. QED
  BY <1>1, <1>3, <1>4, <1>5, <1>6, <1>7, <1>8, <1>9, <1>10, <1>11, <1>12 DEF Next, Replaying

\* The first build of a fresh db takes every record, whatever its batch size and
\* whatever lands while it runs.
THEOREM FreshBuildsTakeAllHolds ==
  ASSUME WholeBuilds, SomethingExported, EachOnce
  PROVE  Spec => []FreshBuildsTakeAll
<1>1. Init => FirstInv
  BY InitFirst
<1>2. IInv /\ GuardInv /\ BatchInv /\ FirstInv /\ [Next]_vars => FirstInv'
  BY StepFirst
<1>3. IInv /\ FirstInv => FreshBuildsTakeAll
  <2>1. IInv => runs \in Nat
    BY DEF IInv, TypeOK
  <2>. QED
    BY <2>1 DEF FirstInv, FirstBuild, FreshBuildsTakeAll
<1>. QED
  BY Invariant, GuardInvariant, BatchInvariant, <1>1, <1>2, <1>3, PTL DEF Spec

=============================================================================
