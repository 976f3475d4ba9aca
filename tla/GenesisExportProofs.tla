------------------------- MODULE GenesisExportProofs -------------------------
(***************************************************************************)
(* What an export leaves behind, for every db, every number of exporters,  *)
(* of journaled ops and of unjournaled writes: a stamped db is the replay  *)
(* of its journal, an export that ran to its end over a db nothing else    *)
(* wrote has journaled all of it, and where no journaled op deletes, what  *)
(* a late export appends changes nothing.                                  *)
(***************************************************************************)
EXTENDS GenesisExport, GraphStoreProofs

(* Records and what one of them does. *)

\* A genesis record is told from an op by its fields.
LEMMA RecordKinds ==
  /\ \A r \in GenesisNode : IsGenesis(r) /\ "node" \in DOMAIN r /\ r.node \in NodeId /\ r.row \in NodeRow
  /\ \A r \in GenesisEdge : IsGenesis(r) /\ "node" \notin DOMAIN r /\ r.edge \in EdgeId /\ r.row \in EdgeRow
  /\ \A r \in Op : ~IsGenesis(r)
<1>1. ASSUME NEW r \in GenesisNode
      PROVE  DOMAIN r = {"node", "row"} /\ r.node \in NodeId /\ r.row \in NodeRow
  BY DEF GenesisNode
<1>2. ASSUME NEW r \in GenesisEdge
      PROVE  DOMAIN r = {"edge", "row"} /\ r.edge \in EdgeId /\ r.row \in EdgeRow
  BY DEF GenesisEdge
<1>3. ASSUME NEW r \in Op
      PROVE  DOMAIN r = {"body", "ts"}
  BY DEF Op
<1>4. {"node", "row"} # {"body", "ts"} /\ {"edge", "row"} # {"body", "ts"} /\ "node" \notin {"edge", "row"}
  OBVIOUS
<1>. QED
  BY <1>1, <1>2, <1>3, <1>4 DEF IsGenesis

\* Applying a record keeps the store well formed.
LEMMA ApplyType ==
  ASSUME NEW g \in Graph, NEW r \in Record
  PROVE  Apply(g, r) \in Graph
<1>1. CASE r \in GenesisNode
  <2>1. Apply(g, r) = IF g.node[r.node] = Absent THEN [g EXCEPT !.node[r.node] = r.row] ELSE g
    BY <1>1, RecordKinds DEF Apply, ApplyGenesis
  <2>. QED
    BY <1>1, <2>1, RecordKinds DEF Graph
<1>2. CASE r \in GenesisEdge
  <2>1. Apply(g, r) = IF g.edge[r.edge] = Absent THEN [g EXCEPT !.edge[r.edge] = r.row] ELSE g
    BY <1>2, RecordKinds DEF Apply, ApplyGenesis
  <2>. QED
    BY <1>2, <2>1, RecordKinds DEF Graph
<1>3. CASE r \in Op
  BY <1>3, RecordKinds, ApplyOpType DEF Apply
<1>. QED
  BY <1>1, <1>2, <1>3 DEF Record, Genesis

-----------------------------------------------------------------------------
(* Records applied in their order. *)

\* Apply as the step of a fold.
RecordStep == [p \in Graph \X Record |-> Apply(p[1], p[2])]

\* It is one: a record takes a graph to a graph.
LEMMA RecordStepType == RecordStep \in [Graph \X Record -> Graph]
BY ApplyType DEF RecordStep

\* The library's fold of the records is the fold by the graphs after each of them.
LEMMA FoldRecords ==
  ASSUME NEW g \in Graph, NEW s \in Seq(Record)
  PROVE  Applied(g, s) = Folded(Graph, g, s, RecordStep)
<1>. DEFINE n == Len(s)
            P(iter) == iter = [t \in SUBSET (1 .. n) |->
                          IF t = {} THEN g ELSE Apply(iter[t \ {Max(t)}], s[Max(t)])]
            iter == CHOOSE f : P(f)
<1>1. n \in Nat /\ DOMAIN s = 1 .. n /\ \A i \in 1 .. n : s[i] \in Record
  OBVIOUS
<1>2. Applied(g, s) = iter[1 .. n]
  <2>1. Applied(g, s) =
          (CHOOSE f : f = [t \in SUBSET DOMAIN s |->
             IF t = {} THEN g ELSE Apply(f[t \ {Max(t)}], s[Max(t)])])[DOMAIN s]
    BY DEF Applied, FoldLeft, MapThenFoldSet
  <2>. QED
    BY <1>1, <2>1
<1>3. Foldable(Graph, Record, g, s, RecordStep)
  BY RecordStepType DEF Foldable
<1>4. PICK f \in [SUBSET (1 .. n) -> Graph] : Recursion(f, g, s, RecordStep)
  BY <1>3, RecursionExists
<1>5. P(f)
  <2>1. ASSUME NEW t \in SUBSET (1 .. n), t # {}
        PROVE  RecordStep[<<f[t \ {Max(t)}], s[Max(t)]>>] = Apply(f[t \ {Max(t)}], s[Max(t)])
    <3>1. Max(t) \in 1 .. n
      BY <1>1, <2>1, MaxOfPositions
    <3>2. <<f[t \ {Max(t)}], s[Max(t)]>> \in Graph \X Record
      BY <1>1, <3>1
    <3>. QED
      BY <3>2 DEF RecordStep
  <2>. QED
    BY <1>4, <2>1 DEF Recursion
<1>6. P(iter)
  <2>. HIDE DEF P
  <2>. QED
    BY <1>5
<1>. HIDE DEF iter
<1>7. iter[{}] = g
  <2>1. {} \in SUBSET (1 .. n)
    OBVIOUS
  <2>. QED
    BY <1>6, <2>1
<1>8. ASSUME NEW m \in 1 .. n, iter[1 .. (m - 1)] \in Graph
      PROVE  iter[1 .. m] = RecordStep[<<iter[1 .. (m - 1)], s[m]>>]
  <2>1. /\ (1 .. m) \in SUBSET (1 .. n) /\ (1 .. m) # {}
        /\ Max(1 .. m) = m /\ (1 .. m) \ {m} = 1 .. (m - 1)
    BY <1>1, FirstPositions
  <2>2. iter[1 .. m] = Apply(iter[1 .. (m - 1)], s[m])
    BY <1>6, <2>1
  <2>. QED
    BY <1>1, <1>8, <2>2 DEF RecordStep
<1>9. iter[1 .. n] = Folded(Graph, g, s, RecordStep)
  BY <1>3, <1>7, <1>8, FoldedByPositions
<1>. QED
  BY <1>2, <1>9

\* The laws of applying a sequence of records: what is applied to a graph leaves a
\* graph, a record more is an application more, and a concatenation is applied in
\* two passes.
LEMMA AppliedLaws ==
  ASSUME NEW g \in Graph, NEW s \in Seq(Record)
  PROVE  /\ Applied(g, s) \in Graph
         /\ s = <<>> => Applied(g, s) = g
         /\ \A r \in Record : Applied(g, Append(s, r)) = Apply(Applied(g, s), r)
         /\ \A t \in Seq(Record) : Applied(g, s \o t) =
              Applied(Applied(g, s), t)
<1>1. Foldable(Graph, Record, g, s, RecordStep)
  BY RecordStepType DEF Foldable
<1>2. Applied(g, s) \in Graph
  BY <1>1, FoldRecords, FoldedRun
<1>3. ASSUME s = <<>>
      PROVE  Applied(g, s) = g
  <2>1. Len(s) = 0
    BY <1>3
  <2>2. Folded(Graph, g, s, RecordStep) = g
    BY <1>1, <2>1, FoldedEmpty
  <2>. QED
    BY <2>2, FoldRecords
<1>4. ASSUME NEW r \in Record
      PROVE  Applied(g, Append(s, r)) = Apply(Applied(g, s), r)
  <2>1. Append(s, r) \in Seq(Record)
    OBVIOUS
  <2>2. Folded(Graph, g, Append(s, r), RecordStep) = RecordStep[<<Folded(Graph, g, s, RecordStep), r>>]
    BY <1>1, FoldedAppend
  <2>3. <<Folded(Graph, g, s, RecordStep), r>> \in Graph \X Record
    BY <1>2, FoldRecords
  <2>. QED
    BY <2>1, <2>2, <2>3, FoldRecords DEF RecordStep
<1>5. ASSUME NEW t \in Seq(Record)
      PROVE  Applied(g, s \o t) = Applied(Applied(g, s), t)
  <2>1. s \o t \in Seq(Record)
    OBVIOUS
  <2>2. Folded(Graph, g, s \o t, RecordStep) =
          Folded(Graph, Folded(Graph, g, s, RecordStep), t, RecordStep)
    BY <1>1, FoldedConcat
  <2>3. Applied(g, s) = Folded(Graph, g, s, RecordStep)
    BY FoldRecords
  <2>4. Applied(g, s \o t) = Folded(Graph, g, s \o t, RecordStep)
    BY <2>1, FoldRecords
  <2>5. Applied(Applied(g, s), t) =
          Folded(Graph, Applied(g, s), t, RecordStep)
    BY <1>2, FoldRecords
  <2>. QED
    BY <2>2, <2>3, <2>4, <2>5
<1>. QED
  BY <1>2, <1>3, <1>4, <1>5


\* The graphs after each record of a sequence are the folds of its prefixes.
LEMMA PrefixesApplied ==
  ASSUME NEW g \in Graph, NEW s \in Seq(Record), NEW r, r[1] = g,
         \A i \in 1 .. Len(s) : r[i + 1] = Apply(r[i], s[i])
  PROVE  \A i \in 0 .. Len(s) : Applied(g, SubSeq(s, 1, i)) = r[i + 1]
<1>. DEFINE P(i) == i <= Len(s) => Applied(g, SubSeq(s, 1, i)) = r[i + 1]
<1>1. P(0)
  <2>1. SubSeq(s, 1, 0) = <<>> /\ SubSeq(s, 1, 0) \in Seq(Record)
    OBVIOUS
  <2>2. Applied(g, SubSeq(s, 1, 0)) = g
    BY <2>1, AppliedLaws
  <2>. QED
    BY <2>2
<1>2. ASSUME NEW i \in Nat, P(i)
      PROVE  P(i + 1)
  <2>. SUFFICES ASSUME i + 1 <= Len(s)
                PROVE  Applied(g, SubSeq(s, 1, i + 1)) = r[(i + 1) + 1]
    OBVIOUS
  <2>. DEFINE past == SubSeq(s, 1, i)
              rec == s[i + 1]
  <2>1. past \in Seq(Record) /\ rec \in Record /\ SubSeq(s, 1, i + 1) = Append(past, rec)
    OBVIOUS
  <2>2. Applied(g, past) = r[i + 1]
    <3>1. i <= Len(s)
      OBVIOUS
    <3>. QED
      BY <1>2, <3>1
  <2>3. r[(i + 1) + 1] = Apply(r[i + 1], rec)
    <3>1. i + 1 \in 1 .. Len(s)
      OBVIOUS
    <3>. QED
      BY <3>1
  <2>. HIDE DEF past, rec
  <2>4. Applied(g, Append(past, rec)) = Apply(Applied(g, past), rec)
    BY <2>1, AppliedLaws
  <2>. QED
    BY <2>1, <2>2, <2>3, <2>4
<1>3. \A i \in Nat : P(i)
  <2>. DEFINE S == {i \in Nat : P(i)}
  <2>. HIDE DEF P
  <2>1. 0 \in S /\ \A i \in Nat : i \in S => i + 1 \in S
    BY <1>1, <1>2
  <2>2. Nat \subseteq S
    <3>. HIDE DEF S
    <3>. QED
      BY <2>1, SetInduction
  <2>. QED
    BY <2>2
<1>. QED
  BY <1>3


-----------------------------------------------------------------------------
(* The invariant. *)

\* The element a genesis record carries is there, a node with that content:
\* the record applies and adds nothing.
IdleIn(g, r) ==
  IF "node" \in DOMAIN r
    THEN g.node[r.node] # Absent /\ g.node[r.node].hash = r.row.hash
    ELSE g.edge[r.edge] # Absent

\* It is there as the record has it, times included.
ExactIn(g, r) ==
  IF "node" \in DOMAIN r THEN g.node[r.node] = r.row ELSE g.edge[r.edge] = r.row

\* The records a scan of the db's nodes makes, and of its edges.
NodeRecords(g) == {[node |-> n, row |-> g.node[n]] : n \in {m \in NodeId : g.node[m] # Absent}}
EdgeRecords(g) == {[edge |-> e, row |-> g.edge[e]] : e \in {f \in EdgeId : g.edge[f] # Absent}}

\* The cursor is a place in the journal, past every op, and no adoption has
\* counted more unjournaled writes than there were.
CursorInv ==
  /\ cursor # Unstamped => cursor \in 0 .. Len(journal)
  /\ proven <= strays
  /\ \A i \in 1 .. Len(journal) : cursor = Unstamped \/ i > cursor => IsGenesis(journal[i])

\* While nothing else writes a db that has no cursor, what was scanned of it is
\* what it holds, and an export past a scan has the rest of it still to append.
BaselineInv ==
  cursor = Unstamped /\ strays = 0 =>
    /\ \A i \in 1 .. Len(journal) : ExactIn(graph, journal[i])
    /\ \A x \in Exporter :
         /\ \A r \in due[x] : ExactIn(graph, r)
         /\ pc[x] = "nodes" => NodeRecords(graph) \subseteq due[x] \cup Range(journal)
         /\ pc[x] = "edges" => /\ NodeRecords(graph) \subseteq Range(journal)
                               /\ EdgeRecords(graph) \subseteq due[x] \cup Range(journal)

\* While nothing unjournaled writes the db, every element scanned stays in it.
IdleInv ==
  strays = 0 =>
    /\ \A i \in 1 .. Len(journal) : IsGenesis(journal[i]) => IdleIn(graph, journal[i])
    /\ \A x \in Exporter : \A r \in due[x] : IdleIn(graph, r)

IInv == TypeOK /\ CursorInv /\ StampedIsWhole /\ BaselineInv

-----------------------------------------------------------------------------
(* Facts the steps use. *)

\* What a scan finds are genesis records.
LEMMA Scanned ==
  ASSUME NEW g \in Graph
  PROVE  NodeRecords(g) \subseteq GenesisNode /\ EdgeRecords(g) \subseteq GenesisEdge
BY DEF NodeRecords, EdgeRecords, GenesisNode, GenesisEdge, Graph

\* One record more at the end of a sequence.
LEMMA AppendRange ==
  ASSUME NEW s \in Seq(Record), NEW r \in Record
  PROVE  /\ Append(s, r) \in Seq(Record)
         /\ Len(Append(s, r)) = Len(s) + 1
         /\ \A i \in 1 .. Len(s) : Append(s, r)[i] = s[i]
         /\ Append(s, r)[Len(s) + 1] = r
         /\ Range(Append(s, r)) = Range(s) \cup {r}
<1>. DEFINE t == Append(s, r)
<1>1. /\ t \in Seq(Record) /\ Len(t) = Len(s) + 1 /\ Len(s) \in Nat
      /\ \A i \in 1 .. Len(s) : t[i] = s[i]
      /\ t[Len(s) + 1] = r
  BY AppendProperties
<1>. HIDE DEF t
<1>2. Range(t) = Range(s) \cup {r}
  <2>1. DOMAIN t = 1 .. Len(s) + 1 /\ DOMAIN s = 1 .. Len(s)
    BY <1>1
  <2>2. DOMAIN t = DOMAIN s \cup {Len(s) + 1}
    BY <1>1, <2>1
  <2>. QED
    BY <1>1, <2>1, <2>2 DEF Range
<1>. QED
  BY <1>1, <1>2 DEF t

\* The records past the cursor, and the journal in two.
LEMMA BehindFacts ==
  ASSUME TypeOK, CursorInv
  PROVE  /\ Behind \in Seq(Record) /\ Healed \in Graph
         /\ \A i \in 1 .. Len(Behind) : \E j \in 1 .. Len(journal) :
              Behind[i] = journal[j] /\ j > cursor
         /\ cursor # Unstamped => journal = SubSeq(journal, 1, cursor) \o Behind
<1>. USE DEF Unstamped
<1>1. CASE cursor = Unstamped
  <2>1. Behind = <<>> /\ <<>> \in Seq(Record)
    BY <1>1 DEF Behind
  <2>2. Healed \in Graph
    BY <2>1, AppliedLaws DEF Healed, TypeOK
  <2>. QED
    BY <1>1, <2>1, <2>2
<1>2. CASE cursor # Unstamped
  <2>1. journal \in Seq(Record) /\ cursor \in 0 .. Len(journal) /\ Len(journal) \in Nat
    BY <1>2 DEF TypeOK, CursorInv
  <2>2. Behind = SubSeq(journal, cursor + 1, Len(journal))
    BY <1>2 DEF Behind
  <2>3. Behind \in Seq(Record) /\ Len(Behind) = Len(journal) - cursor
    BY <2>1, <2>2, SubSeqProperties
  <2>4. \A i \in 1 .. Len(Behind) : Behind[i] = journal[cursor + i]
    BY <2>1, <2>2, <2>3
  <2>5. \A i \in 1 .. Len(Behind) : cursor + i \in 1 .. Len(journal) /\ cursor + i > cursor
    BY <2>1, <2>3
  <2>6. journal = SubSeq(journal, 1, cursor) \o Behind
    <3>1. 1 \in 1 .. Len(journal) + 1 /\ cursor \in (1 - 1) .. Len(journal) /\ Len(journal) \in cursor .. Len(journal)
      BY <2>1
    <3>2. SubSeq(journal, 1, cursor) \o SubSeq(journal, cursor + 1, Len(journal)) = SubSeq(journal, 1, Len(journal))
      BY <2>1, <3>1, ConcatAdjacentSubSeq
    <3>. QED
      BY <2>1, <2>2, <3>2, SubSeqFull
  <2>7. Healed \in Graph
    BY <2>3, AppliedLaws DEF Healed, TypeOK
  <2>. HIDE DEF Behind
  <2>. QED
    BY <2>3, <2>4, <2>5, <2>6, <2>7
<1>. QED
  BY <1>1, <1>2

\* A stamped db that nothing unjournaled wrote since is healed to the replay of
\* the whole journal.
LEMMA HealedIsReplay ==
  ASSUME TypeOK, CursorInv, StampedIsWhole, cursor # Unstamped, strays = proven
  PROVE  Healed = ReplayOf(journal)
<1>1. /\ SubSeq(journal, 1, cursor) \in Seq(Record) /\ Behind \in Seq(Record)
      /\ journal = SubSeq(journal, 1, cursor) \o Behind
      /\ graph = ReplayOf(SubSeq(journal, 1, cursor))
  BY BehindFacts, SubSeqProperties DEF TypeOK, CursorInv, StampedIsWhole
<1>. DEFINE past == SubSeq(journal, 1, cursor)
<1>. HIDE DEF past
<1>2. Applied(EmptyGraph, past \o Behind) = Applied(Applied(EmptyGraph, past), Behind)
  BY <1>1, EmptyGraphType, AppliedLaws DEF past
<1>. QED
  BY <1>1, <1>2 DEF past, Healed, ReplayOf

-----------------------------------------------------------------------------
(* The initial state and the steps. *)

\* The invariants hold at the start.
LEMMA InitInvariant == Init => IInv /\ IdleInv
<1>. SUFFICES ASSUME Init PROVE IInv /\ IdleInv
  OBVIOUS
<1>1. Len(<<>>) = 0 /\ journal = <<>> /\ cursor = Unstamped /\ Unstamped = -1
  BY DEF Init, Unstamped
<1>2. TypeOK
  BY ExportedDbs DEF Init, TypeOK
<1>3. CursorInv /\ StampedIsWhole
  BY <1>1 DEF Init, CursorInv, StampedIsWhole
<1>4. BaselineInv /\ IdleInv
  BY <1>1 DEF Init, BaselineInv, IdleInv
<1>. QED
  BY <1>2, <1>3, <1>4 DEF IInv

\* What a step of a journaled write does.
LEMMA GestureFacts ==
  ASSUME TypeOK, CursorInv, NEW b \in Bodies, Gesture(b)
  PROVE  \E op \in Op :
           /\ op.body = Planned(Healed, b)
           /\ journal' = Append(journal, op) /\ graph' = ApplyOp(Healed, op)
           /\ cursor' = Len(journal) + 1 /\ cursor # Unstamped
           /\ UNCHANGED <<pc, due, strays, proven>>
<1>. DEFINE op == [body |-> Planned(Healed, b), ts |-> Now]
<1>1. Planned(Healed, b) \in Body
  BY ExportedDbs, BehindFacts, PlannedType
<1>2. Now \in Nat
  BY DEF Now, TypeOK
<1>3. op \in Op /\ op.body = Planned(Healed, b)
  BY <1>1, <1>2 DEF Op, Time
<1>4. /\ journal' = Append(journal, op) /\ graph' = ApplyOp(Healed, op)
      /\ cursor' = Len(journal') /\ cursor # Unstamped
      /\ UNCHANGED <<pc, due, strays, proven>>
  BY DEF Gesture
<1>. HIDE DEF op
<1>5. Len(journal') = Len(journal) + 1
  BY <1>3, <1>4, AppendProperties DEF TypeOK, Record
<1>. QED
  BY <1>3, <1>4, <1>5

\* What a step of an export's append does.
LEMMA AppendFacts ==
  ASSUME TypeOK, NEW x \in Exporter, AppendRecord(x)
  PROVE  \E r \in due[x] :
           /\ r \in Genesis /\ r \in Record /\ IsGenesis(r)
           /\ journal' = Append(journal, r) /\ due' = [due EXCEPT ![x] = @ \ {r}]
           /\ UNCHANGED <<graph, cursor, pc, strays, proven>>
<1>1. PICK r \in due[x] : journal' = Append(journal, r) /\ due' = [due EXCEPT ![x] = @ \ {r}]
  BY DEF AppendRecord
<1>2. r \in Genesis
  BY DEF TypeOK
<1>. QED
  BY <1>1, <1>2, RecordKinds DEF AppendRecord, db, Genesis, Record

\* What a step of an unjournaled write does.
LEMMA UnjournaledFacts ==
  ASSUME TypeOK, NEW b \in Strays, Unjournaled(b)
  PROVE  graph' \in Graph /\ strays' = strays + 1 /\ UNCHANGED <<journal, cursor, pc, due, proven>>
<1>1. Now \in Nat /\ b \in Body
  BY ExportedDbs DEF Now, TypeOK
<1>2. [body |-> b, ts |-> Now] \in Op
  BY <1>1 DEF Op, Time
<1>. QED
  BY <1>2, ApplyOpType DEF Unjournaled, TypeOK

\* The steps that leave the db and its journal alone.
LEMMA QuietFacts ==
  ASSUME TypeOK, NEW x \in Exporter,
         \/ Start(x) \/ ScanNodes(x) \/ ScanEdges(x) \/ Finish(x) \/ Die(x)
  PROVE  /\ UNCHANGED <<journal, graph, cursor, strays, proven>>
         /\ pc' \in [Exporter -> {"idle", "checked", "nodes", "edges"}]
         /\ due' \in [Exporter -> SUBSET Genesis]
         /\ \A y \in Exporter : y # x => pc'[y] = pc[y] /\ due'[y] = due[y]
         /\ \/ pc'[x] \in {"idle", "checked"} /\ due'[x] \in {due[x], {}}
            \/ pc'[x] = "nodes" /\ due'[x] = NodeRecords(graph)
            \/ pc[x] = "nodes" /\ due[x] = {} /\ pc'[x] = "edges" /\ due'[x] = EdgeRecords(graph)
<1>1. NodeRecords(graph) \in SUBSET Genesis /\ EdgeRecords(graph) \in SUBSET Genesis
  BY Scanned DEF TypeOK, Genesis
<1>2. CASE ScanNodes(x)
  <2>1. /\ due' = [due EXCEPT ![x] = NodeRecords(graph)] /\ pc' = [pc EXCEPT ![x] = "nodes"]
        /\ UNCHANGED <<journal, graph, cursor, strays, proven>>
    BY <1>2 DEF ScanNodes, NodeRecords, db
  <2>. QED
    BY <1>1, <2>1 DEF TypeOK
<1>3. CASE ScanEdges(x)
  <2>1. /\ due' = [due EXCEPT ![x] = EdgeRecords(graph)] /\ pc' = [pc EXCEPT ![x] = "edges"]
        /\ UNCHANGED <<journal, graph, cursor, strays, proven>>
        /\ pc[x] = "nodes" /\ due[x] = {}
    BY <1>3 DEF ScanEdges, EdgeRecords, db
  <2>. QED
    BY <1>1, <2>1 DEF TypeOK
<1>4. CASE Start(x) \/ Finish(x) \/ Die(x)
  BY <1>4 DEF Start, Finish, Die, db, TypeOK
<1>. QED
  BY <1>2, <1>3, <1>4

\* What an adoption does.
LEMMA AdoptFacts ==
  ASSUME TypeOK, Adopt
  PROVE  /\ cursor' = Len(journal) /\ cursor' \in Nat /\ graph = ReplayOf(journal) /\ proven' = strays
         /\ UNCHANGED <<journal, graph, pc, due, strays>>
BY DEF Adopt, TypeOK

\* Every step keeps to the types.
LEMMA TypeStep ==
  ASSUME TypeOK, CursorInv, [Next]_vars
  PROVE  TypeOK'
<1>1. ASSUME NEW x \in Exporter, AppendRecord(x)
      PROVE  TypeOK'
  <2>1. PICK r \in due[x] : /\ r \in Record
                            /\ journal' = Append(journal, r) /\ due' = [due EXCEPT ![x] = @ \ {r}]
                            /\ UNCHANGED <<graph, cursor, pc, strays, proven>>
    BY <1>1, AppendFacts
  <2>2. journal' \in Seq(Record)
    BY <2>1, AppendProperties DEF TypeOK
  <2>. QED
    BY <2>1, <2>2 DEF TypeOK
<1>2. ASSUME NEW x \in Exporter, \/ Start(x) \/ ScanNodes(x) \/ ScanEdges(x) \/ Finish(x) \/ Die(x)
      PROVE  TypeOK'
  BY <1>2, QuietFacts DEF TypeOK
<1>3. ASSUME NEW b \in Strays, Unjournaled(b)
      PROVE  TypeOK'
  BY <1>3, UnjournaledFacts DEF TypeOK
<1>4. CASE Adopt
  BY <1>4, AdoptFacts DEF TypeOK
<1>5. ASSUME NEW b \in Bodies, Gesture(b)
      PROVE  TypeOK'
  <2>1. PICK op \in Op : /\ journal' = Append(journal, op) /\ graph' = ApplyOp(Healed, op)
                         /\ cursor' = Len(journal) + 1
                         /\ UNCHANGED <<pc, due, strays, proven>>
    BY <1>5, GestureFacts
  <2>2. graph' \in Graph /\ op \in Record
    BY <2>1, BehindFacts, ApplyOpType DEF Record
  <2>. QED
    BY <2>1, <2>2, AppendProperties DEF TypeOK
<1>6. CASE UNCHANGED vars
  BY <1>6 DEF vars, db, TypeOK
<1>. QED
  BY <1>1, <1>2, <1>3, <1>4, <1>5, <1>6 DEF Next

\* Every step keeps the cursor a place past every op.
LEMMA CursorStep ==
  ASSUME TypeOK, CursorInv, [Next]_vars
  PROVE  CursorInv'
<1>. USE DEF Unstamped
<1>1. ASSUME NEW x \in Exporter, AppendRecord(x)
      PROVE  CursorInv'
  <2>1. PICK r \in Record : /\ IsGenesis(r) /\ journal' = Append(journal, r)
                            /\ UNCHANGED <<cursor, strays, proven>>
    BY <1>1, AppendFacts
  <2>2. /\ Len(journal) \in Nat /\ Len(journal') = Len(journal) + 1
        /\ \A i \in 1 .. Len(journal) : journal'[i] = journal[i]
        /\ journal'[Len(journal) + 1] = r
    BY <2>1, AppendRange DEF TypeOK
  <2>. QED
    BY <2>1, <2>2 DEF CursorInv
<1>2. ASSUME NEW x \in Exporter, \/ Start(x) \/ ScanNodes(x) \/ ScanEdges(x) \/ Finish(x) \/ Die(x)
      PROVE  CursorInv'
  BY <1>2, QuietFacts DEF CursorInv
<1>3. ASSUME NEW b \in Strays, Unjournaled(b)
      PROVE  CursorInv'
  BY <1>3, UnjournaledFacts DEF CursorInv, TypeOK
<1>4. CASE Adopt
  BY <1>4, AdoptFacts DEF CursorInv, TypeOK
<1>5. ASSUME NEW b \in Bodies, Gesture(b)
      PROVE  CursorInv'
  <2>1. PICK op \in Op : /\ journal' = Append(journal, op) /\ cursor' = Len(journal) + 1
                         /\ UNCHANGED <<strays, proven>>
    BY <1>5, GestureFacts
  <2>2. Len(journal) \in Nat /\ Len(journal') = Len(journal) + 1
    BY <2>1, AppendRange DEF TypeOK, Record
  <2>. QED
    BY <2>1, <2>2 DEF CursorInv
<1>6. CASE UNCHANGED vars
  BY <1>6 DEF vars, db, CursorInv
<1>. QED
  BY <1>1, <1>2, <1>3, <1>4, <1>5, <1>6 DEF Next

\* A journaled write takes the replay of the journal one record further; an
\* adoption stamps what it found to be the replay; an unjournaled write puts
\* the count of them past the adoption's.
LEMMA StampedStep ==
  ASSUME TypeOK, CursorInv, StampedIsWhole, [Next]_vars
  PROVE  StampedIsWhole'
<1>. USE DEF Unstamped
<1>1. ASSUME NEW x \in Exporter, AppendRecord(x)
      PROVE  StampedIsWhole'
  <2>1. PICK r \in Record : /\ journal' = Append(journal, r)
                            /\ UNCHANGED <<graph, cursor, strays, proven>>
    BY <1>1, AppendFacts
  <2>2. ASSUME cursor # Unstamped
        PROVE  SubSeq(journal', 1, cursor) = SubSeq(journal, 1, cursor)
    BY <2>1, <2>2 DEF TypeOK, CursorInv
  <2>. QED
    BY <2>1, <2>2 DEF StampedIsWhole, ReplayOf
<1>2. ASSUME NEW x \in Exporter, \/ Start(x) \/ ScanNodes(x) \/ ScanEdges(x) \/ Finish(x) \/ Die(x)
      PROVE  StampedIsWhole'
  BY <1>2, QuietFacts DEF StampedIsWhole, ReplayOf
<1>3. ASSUME NEW b \in Strays, Unjournaled(b)
      PROVE  StampedIsWhole'
  BY <1>3, UnjournaledFacts DEF StampedIsWhole, CursorInv, TypeOK
<1>4. CASE Adopt
  <2>1. SubSeq(journal, 1, Len(journal)) = journal
    BY SubSeqFull DEF TypeOK
  <2>. QED
    BY <1>4, <2>1, AdoptFacts DEF StampedIsWhole, ReplayOf
<1>5. ASSUME NEW b \in Bodies, Gesture(b), strays' = proven'
      PROVE  graph' = ReplayOf(SubSeq(journal', 1, cursor'))
  <2>1. PICK op \in Op : /\ journal' = Append(journal, op) /\ graph' = ApplyOp(Healed, op)
                         /\ cursor' = Len(journal) + 1 /\ cursor # Unstamped
                         /\ UNCHANGED <<strays, proven>>
    BY <1>5, GestureFacts
  <2>2. op \in Record /\ Apply(Healed, op) = ApplyOp(Healed, op)
    BY RecordKinds DEF Record, Apply
  <2>3. Healed = Applied(EmptyGraph, journal)
    BY <1>5, <2>1, HealedIsReplay DEF ReplayOf
  <2>4. Applied(EmptyGraph, journal') = graph'
    BY <2>1, <2>2, <2>3, EmptyGraphType, AppliedLaws DEF TypeOK
  <2>5. SubSeq(journal', 1, cursor') = journal'
    BY <2>1, <2>2, AppendProperties, SubSeqFull DEF TypeOK
  <2>. QED
    BY <2>4, <2>5 DEF ReplayOf
<1>6. CASE UNCHANGED vars
  BY <1>6 DEF vars, db, StampedIsWhole, ReplayOf
<1>7. ASSUME NEW b \in Bodies, Gesture(b)
      PROVE  StampedIsWhole'
  BY <1>5, <1>7 DEF StampedIsWhole, ReplayOf
<1>. QED
  BY <1>1, <1>2, <1>3, <1>4, <1>6, <1>7 DEF Next

\* Every step keeps the baseline one of the db it was scanned from.
LEMMA BaselineStep ==
  ASSUME TypeOK, CursorInv, BaselineInv, [Next]_vars
  PROVE  BaselineInv'
<1>. USE DEF Unstamped
<1>1. ASSUME NEW x \in Exporter, AppendRecord(x), cursor = Unstamped, strays = 0
      PROVE  BaselineInv'
  <2>1. PICK r \in due[x] : /\ r \in Record /\ journal' = Append(journal, r)
                            /\ due' = [due EXCEPT ![x] = @ \ {r}]
                            /\ UNCHANGED <<graph, cursor, pc, strays, proven>>
    BY <1>1, AppendFacts
  <2>2. /\ Len(journal) \in Nat /\ Len(journal') = Len(journal) + 1
        /\ \A i \in 1 .. Len(journal) : journal'[i] = journal[i]
        /\ journal'[Len(journal) + 1] = r
        /\ Range(journal') = Range(journal) \cup {r}
    BY <2>1, AppendRange DEF TypeOK
  <2>3. ExactIn(graph, r)
    BY <1>1, <2>1 DEF BaselineInv
  <2>4. \A i \in 1 .. Len(journal') : ExactIn(graph, journal'[i])
    BY <1>1, <2>2, <2>3 DEF BaselineInv
  <2>5. \A y \in Exporter : due'[y] \subseteq due[y] /\ due[y] \subseteq due'[y] \cup {r}
    BY <2>1 DEF TypeOK
  <2>6. ASSUME NEW y \in Exporter
        PROVE  /\ \A q \in due'[y] : ExactIn(graph, q)
               /\ pc[y] = "nodes" => NodeRecords(graph) \subseteq due'[y] \cup Range(journal')
               /\ pc[y] = "edges" => /\ NodeRecords(graph) \subseteq Range(journal')
                                     /\ EdgeRecords(graph) \subseteq due'[y] \cup Range(journal')
    BY <1>1, <2>2, <2>5 DEF BaselineInv
  <2>. QED
    BY <2>1, <2>4, <2>6 DEF BaselineInv
<1>2. ASSUME NEW x \in Exporter, \/ Start(x) \/ ScanNodes(x) \/ ScanEdges(x) \/ Finish(x) \/ Die(x),
             cursor = Unstamped, strays = 0
      PROVE  BaselineInv'
  <2>1. /\ UNCHANGED <<journal, graph, cursor, strays, proven>>
        /\ \A y \in Exporter : y # x => pc'[y] = pc[y] /\ due'[y] = due[y]
        /\ \/ pc'[x] \in {"idle", "checked"} /\ due'[x] \in {due[x], {}}
           \/ pc'[x] = "nodes" /\ due'[x] = NodeRecords(graph)
           \/ pc[x] = "nodes" /\ due[x] = {} /\ pc'[x] = "edges" /\ due'[x] = EdgeRecords(graph)
    BY <1>2, QuietFacts
  <2>2. /\ \A r \in NodeRecords(graph) : ExactIn(graph, r)
        /\ \A r \in EdgeRecords(graph) : ExactIn(graph, r)
    BY DEF NodeRecords, EdgeRecords, ExactIn
  <2>3. ASSUME NEW y \in Exporter
        PROVE  /\ \A r \in due'[y] : ExactIn(graph, r)
               /\ pc'[y] = "nodes" => NodeRecords(graph) \subseteq due'[y] \cup Range(journal)
               /\ pc'[y] = "edges" => /\ NodeRecords(graph) \subseteq Range(journal)
                                      /\ EdgeRecords(graph) \subseteq due'[y] \cup Range(journal)
    <3>1. CASE y # x
      BY <1>2, <2>1, <3>1 DEF BaselineInv
    <3>2. CASE y = x
      BY <1>2, <2>1, <2>2, <3>2 DEF BaselineInv
    <3>. QED
      BY <3>1, <3>2
  <2>. QED
    BY <1>2, <2>1, <2>3 DEF BaselineInv
<1>3. ASSUME NEW b \in Strays, Unjournaled(b)
      PROVE  BaselineInv'
  BY <1>3, UnjournaledFacts DEF BaselineInv, TypeOK
<1>4. CASE Adopt
  BY <1>4, AdoptFacts DEF BaselineInv, TypeOK
<1>5. ASSUME NEW b \in Bodies, Gesture(b)
      PROVE  BaselineInv'
  <2>1. cursor' = Len(journal) + 1 /\ Len(journal) \in Nat
    BY <1>5, GestureFacts DEF TypeOK
  <2>. QED
    BY <2>1 DEF BaselineInv
<1>6. CASE UNCHANGED vars
  BY <1>6 DEF vars, db, BaselineInv
<1>7. ASSUME NEW x \in Exporter,
             \/ AppendRecord(x) \/ Start(x) \/ ScanNodes(x) \/ ScanEdges(x) \/ Finish(x) \/ Die(x),
             cursor # Unstamped \/ strays # 0
      PROVE  BaselineInv'
  BY <1>7, AppendFacts, QuietFacts DEF BaselineInv
<1>. QED
  BY <1>1, <1>2, <1>3, <1>4, <1>5, <1>6, <1>7 DEF Next

\* So they hold in every reachable state.
LEMMA Invariant == Spec => []IInv
<1>1. IInv /\ [Next]_vars => IInv'
  BY TypeStep, CursorStep, StampedStep, BaselineStep DEF IInv
<1>. QED
  BY InitInvariant, <1>1, PTL DEF Spec

-----------------------------------------------------------------------------
(* What every reachable state keeps. *)

\* Every variable keeps its type.
THEOREM TypeOKHolds == Spec => []TypeOK
<1>1. IInv => TypeOK
  BY DEF IInv
<1>. QED
  BY Invariant, <1>1, PTL

\* A db with a cursor that nothing unjournaled wrote since its adoption is what
\* its journal builds up to the cursor: no interleaving of exports, deaths and
\* journaled writes stamps a db its journal does not rebuild.
THEOREM StampedIsWholeHolds == Spec => []StampedIsWhole
<1>1. IInv => StampedIsWhole
  BY DEF IInv
<1>. QED
  BY Invariant, <1>1, PTL

\* What applying a genesis record leaves, row by row.
LEMMA GenesisRows ==
  ASSUME NEW g \in Graph, NEW r \in Genesis
  PROVE  /\ \A n \in NodeId : Apply(g, r).node[n] =
              IF r \in GenesisNode /\ r.node = n /\ g.node[n] = Absent THEN r.row ELSE g.node[n]
         /\ \A e \in EdgeId : Apply(g, r).edge[e] =
              IF r \in GenesisEdge /\ r.edge = e /\ g.edge[e] = Absent THEN r.row ELSE g.edge[e]
<1>1. CASE r \in GenesisNode
  <2>1. Apply(g, r) = IF g.node[r.node] = Absent THEN [g EXCEPT !.node[r.node] = r.row] ELSE g
    BY <1>1, RecordKinds DEF Apply, ApplyGenesis
  <2>2. r \notin GenesisEdge /\ r.node \in NodeId
    BY <1>1, RecordKinds
  <2>. QED
    BY <1>1, <2>1, <2>2 DEF Graph
<1>2. CASE r \in GenesisEdge
  <2>1. Apply(g, r) = IF g.edge[r.edge] = Absent THEN [g EXCEPT !.edge[r.edge] = r.row] ELSE g
    BY <1>2, RecordKinds DEF Apply, ApplyGenesis
  <2>2. r \notin GenesisNode /\ r.edge \in EdgeId
    BY <1>2, RecordKinds
  <2>. QED
    BY <1>2, <2>1, <2>2 DEF Graph
<1>. QED
  BY <1>1, <1>2 DEF Genesis

\* A replay of genesis records that are each exactly what a db holds, and that
\* are among them all it holds, is that db.
LEMMA ExactReplay ==
  ASSUME NEW g \in Graph, NEW s \in Seq(Genesis),
         \A i \in 1 .. Len(s) : ExactIn(g, s[i]),
         NodeRecords(g) \subseteq Range(s), EdgeRecords(g) \subseteq Range(s)
  PROVE  Applied(EmptyGraph, s) = g
<1>. DEFINE NodeBy(i, n) == \E j \in 1 .. i : s[j] \in GenesisNode /\ s[j].node = n
            EdgeBy(i, e) == \E j \in 1 .. i : s[j] \in GenesisEdge /\ s[j].edge = e
            Part(i) == [node |-> [n \in NodeId |-> IF NodeBy(i, n) THEN g.node[n] ELSE Absent],
                        edge |-> [e \in EdgeId |-> IF EdgeBy(i, e) THEN g.edge[e] ELSE Absent]]
            parts == [i \in 1 .. Len(s) + 1 |-> Part(i - 1)]
<1>1. s \in Seq(Record) /\ Len(s) \in Nat /\ \A i \in 1 .. Len(s) : s[i] \in Genesis
  BY DEF Record
<1>2. \A i \in Nat : Part(i) \in Graph
  BY DEF Graph
<1>3. parts[1] = EmptyGraph
  <2>1. parts[1] = Part(0) /\ 1 .. 0 = {}
    BY <1>1
  <2>. QED
    BY <2>1 DEF EmptyGraph
<1>4. ASSUME NEW i \in 1 .. Len(s)
      PROVE  Part(i) = Apply(Part(i - 1), s[i])
  <2>. DEFINE h == Part(i - 1)
              r == s[i]
  <2>1. i \in Nat /\ i - 1 \in Nat /\ 1 .. i = (1 .. (i - 1)) \cup {i} /\ r \in Genesis /\ r \in Record
    BY <1>1 DEF Record
  <2>2. h \in Graph /\ Part(i) \in Graph
    <3>. HIDE DEF Part
    <3>. QED
      BY <1>2, <2>1
  <2>3. Apply(h, r) \in Graph
    <3>. HIDE DEF h, r
    <3>. QED
      BY <2>1, <2>2, ApplyType
  <2>4. /\ r \in GenesisNode => r.row = g.node[r.node]
        /\ r \in GenesisEdge => r.row = g.edge[r.edge]
    BY RecordKinds DEF ExactIn
  <2>5. /\ \A n \in NodeId : NodeBy(i, n) <=> NodeBy(i - 1, n) \/ (r \in GenesisNode /\ r.node = n)
        /\ \A e \in EdgeId : EdgeBy(i, e) <=> EdgeBy(i - 1, e) \/ (r \in GenesisEdge /\ r.edge = e)
    BY <2>1
  <2>6. /\ \A n \in NodeId : h.node[n] = IF NodeBy(i - 1, n) THEN g.node[n] ELSE Absent
        /\ \A n \in NodeId : Part(i).node[n] = IF NodeBy(i, n) THEN g.node[n] ELSE Absent
        /\ \A e \in EdgeId : h.edge[e] = IF EdgeBy(i - 1, e) THEN g.edge[e] ELSE Absent
        /\ \A e \in EdgeId : Part(i).edge[e] = IF EdgeBy(i, e) THEN g.edge[e] ELSE Absent
    <3>. HIDE DEF NodeBy, EdgeBy
    <3>. QED
      OBVIOUS
  <2>. HIDE DEF NodeBy, EdgeBy, Part, h, r
  <2>7. /\ \A n \in NodeId : Apply(h, r).node[n] =
              IF r \in GenesisNode /\ r.node = n /\ h.node[n] = Absent THEN r.row ELSE h.node[n]
        /\ \A e \in EdgeId : Apply(h, r).edge[e] =
              IF r \in GenesisEdge /\ r.edge = e /\ h.edge[e] = Absent THEN r.row ELSE h.edge[e]
    BY <2>1, <2>2, GenesisRows
  <2>8. ASSUME NEW n \in NodeId
        PROVE  Part(i).node[n] = Apply(h, r).node[n]
    <3>1. CASE r \in GenesisNode /\ r.node = n
      BY <2>4, <2>5, <2>6, <2>7, <3>1
    <3>2. CASE ~(r \in GenesisNode /\ r.node = n)
      BY <2>5, <2>6, <2>7, <3>2
    <3>. QED
      BY <3>1, <3>2
  <2>9. ASSUME NEW e \in EdgeId
        PROVE  Part(i).edge[e] = Apply(h, r).edge[e]
    <3>1. CASE r \in GenesisEdge /\ r.edge = e
      BY <2>4, <2>5, <2>6, <2>7, <3>1
    <3>2. CASE ~(r \in GenesisEdge /\ r.edge = e)
      BY <2>5, <2>6, <2>7, <3>2
    <3>. QED
      BY <3>1, <3>2
  <2>10. Part(i) = Apply(h, r)
    BY <2>2, <2>3, <2>8, <2>9, GraphEqual
  <2>. QED
    BY <2>10 DEF h, r
<1>5. Part(Len(s)) = g
  <2>1. DOMAIN s = 1 .. Len(s)
    BY <1>1
  <2>2. ASSUME NEW n \in NodeId, g.node[n] # Absent
        PROVE  NodeBy(Len(s), n)
    <3>. DEFINE r == [node |-> n, row |-> g.node[n]]
    <3>1. r \in NodeRecords(g) /\ r \in GenesisNode /\ r.node = n
      BY <2>2, Scanned DEF NodeRecords
    <3>. HIDE DEF r
    <3>. QED
      BY <2>1, <3>1 DEF Range
  <2>3. ASSUME NEW e \in EdgeId, g.edge[e] # Absent
        PROVE  EdgeBy(Len(s), e)
    <3>. DEFINE r == [edge |-> e, row |-> g.edge[e]]
    <3>1. r \in EdgeRecords(g) /\ r \in GenesisEdge /\ r.edge = e
      BY <2>3, Scanned DEF EdgeRecords
    <3>. HIDE DEF r
    <3>. QED
      BY <2>1, <3>1 DEF Range
  <2>4. /\ \A n \in NodeId : Part(Len(s)).node[n] = g.node[n]
        /\ \A e \in EdgeId : Part(Len(s)).edge[e] = g.edge[e]
    <3>. HIDE DEF NodeBy, EdgeBy
    <3>. QED
      BY <2>2, <2>3
  <2>5. Part(Len(s)) \in Graph
    BY <1>1, <1>2
  <2>. HIDE DEF Part
  <2>. QED
    BY <2>4, <2>5, GraphEqual
<1>6. \A i \in 1 .. Len(s) : parts[i + 1] = Apply(parts[i], s[i])
  <2>. HIDE DEF Part
  <2>. QED
    BY <1>1, <1>4
<1>7. parts[Len(s) + 1] = g
  <2>. HIDE DEF Part
  <2>. QED
    BY <1>1, <1>5
<1>. HIDE DEF parts
<1>8. Applied(EmptyGraph, SubSeq(s, 1, Len(s))) = parts[Len(s) + 1]
  <2>1. Len(s) \in 0 .. Len(s)
    BY <1>1
  <2>. QED
    BY <1>1, <1>3, <1>6, <2>1, EmptyGraphType, PrefixesApplied
<1>. QED
  BY <1>1, <1>7, <1>8, SubSeqFull

\* An export that runs to its end over a db nothing else wrote leaves a journal
\* whose replay is that db.
THEOREM ExportIsWholeHolds == Spec => ExportIsWhole
<1>. DEFINE Whole == \A x \in Exporter :
                       pc[x] = "edges" /\ pc'[x] = "idle" /\ due[x] = {} /\ strays = 0 =>
                         ReplayOf(journal) = Healed
<1>1. ASSUME IInv, NEW x \in Exporter, pc[x] = "edges", due[x] = {}, strays = 0
      PROVE  ReplayOf(journal) = Healed
  <2>1. CASE cursor = Unstamped
    <3>1. \A i \in 1 .. Len(journal) : ExactIn(graph, journal[i]) /\ journal[i] \in Genesis
      BY <1>1, <2>1, RecordKinds DEF IInv, BaselineInv, CursorInv, TypeOK, Record
    <3>2. journal \in Seq(Genesis)
      BY <1>1, <3>1 DEF IInv, TypeOK
    <3>3. NodeRecords(graph) \subseteq Range(journal) /\ EdgeRecords(graph) \subseteq Range(journal)
      BY <1>1, <2>1 DEF IInv, BaselineInv
    <3>4. Applied(EmptyGraph, journal) = graph
      BY <1>1, <3>1, <3>2, <3>3, ExactReplay DEF IInv, TypeOK
    <3>5. Behind = <<>> /\ Applied(graph, <<>>) = graph
      <4>1. <<>> \in Seq(Record)
        OBVIOUS
      <4>. QED
        BY <1>1, <2>1, <4>1, AppliedLaws DEF Behind, IInv, TypeOK
    <3>. QED
      BY <3>4, <3>5 DEF ReplayOf, Healed
  <2>2. CASE cursor # Unstamped
    <3>1. strays = proven
      BY <1>1 DEF IInv, CursorInv, TypeOK
    <3>. QED
      BY <1>1, <2>2, <3>1, HealedIsReplay DEF IInv
  <2>. QED
    BY <2>1, <2>2
<1>2. ASSUME IInv, [Next]_vars PROVE [Whole]_vars
  BY <1>1, <1>2
<1>. QED
  BY Invariant, <1>2, PTL DEF Spec, ExportIsWhole

-----------------------------------------------------------------------------
(* Without journaled deletes, late records change nothing. *)

\* Records of elements that are there apply and leave the graph as it is.
LEMMA IdleReplay ==
  ASSUME NEW g \in Graph, NEW s \in Seq(Record),
         \A i \in 1 .. Len(s) : IsGenesis(s[i]) /\ IdleIn(g, s[i])
  PROVE  Applied(g, s) = g /\ AllApply(g, s)
<1>. DEFINE same == [i \in 1 .. Len(s) + 1 |-> g]
<1>1. Len(s) \in Nat /\ DOMAIN s = 1 .. Len(s) /\ same[1] = g
  OBVIOUS
<1>2. \A i \in 1 .. Len(s) : Apply(g, s[i]) = g
  BY DEF Apply, ApplyGenesis, IdleIn
<1>3. \A i \in 1 .. Len(s) : same[i + 1] = Apply(same[i], s[i])
  BY <1>1, <1>2
<1>4. \A i \in 0 .. Len(s) : same[i + 1] = g
  BY <1>1
<1>. HIDE DEF same
<1>5. \A i \in 0 .. Len(s) : Applied(g, SubSeq(s, 1, i)) = g
  BY <1>1, <1>3, <1>4, PrefixesApplied
<1>6. Applied(g, s) = g
  <2>1. Len(s) \in 0 .. Len(s)
    BY <1>1
  <2>. QED
    BY <1>5, <2>1, SubSeqFull
<1>7. ASSUME NEW i \in DOMAIN s
      PROVE  ~RefusesRecord(Applied(g, SubSeq(s, 1, i - 1)), s[i])
  <2>1. i \in 1 .. Len(s) /\ i - 1 \in 0 .. Len(s)
    BY <1>1
  <2>. QED
    BY <1>5, <2>1 DEF RefusesRecord, IdleIn
<1>. QED
  BY <1>6, <1>7 DEF AllApply

\* An op that deletes nothing leaves what is there there, with its content.
LEMMA KeptByOp ==
  ASSUME NEW g \in Graph, NEW op \in Op, op.body.verb # "delete",
         NEW r \in Genesis, IdleIn(g, r)
  PROVE  IdleIn(ApplyOp(g, op), r)
<1>. DEFINE h == ApplyOp(g, op)
<1>1. h \in Graph /\ op.ts \in Time
  BY ApplyOpType, BodyByVerb
<1>2. CASE op.body.verb = "extend"
  <2>1. op.body \in Wires /\ h = Extend(g, op.body, op.ts)
    BY <1>2, BodyByVerb, ApplyByVerb
  <2>. HIDE DEF h
  <2>2. \A n \in NodeId : g.node[n] # Absent => h.node[n] = g.node[n]
    BY <1>1, <2>1, ExtendKeeps
  <2>3. \A e \in EdgeId : g.edge[e] # Absent => h.edge[e] = g.edge[e]
    BY <1>1, <2>1, ExtendKeeps
  <2>. QED
    BY <2>2, <2>3, RecordKinds DEF IdleIn, Genesis, h
<1>3. CASE op.body.verb = "update"
  <2>1. h = UpdateNode(g, op.body.node, op.body.prop, op.ts)
    BY <1>3, ApplyByVerb
  <2>2. ASSUME NEW n \in NodeId, g.node[n] # Absent
        PROVE  h.node[n] # Absent /\ h.node[n].hash = g.node[n].hash
    <3>. DEFINE row == [hash |-> g.node[n].hash, prop |-> op.body.prop,
                        created |-> g.node[n].created, updated |-> op.ts]
    <3>1. row \in NodeRow
      BY <1>1, <1>3, <2>2, BodyByVerb DEF Graph, NodeRow
    <3>2. h.node[n] \in {row, g.node[n]}
      BY <2>1, <2>2 DEF UpdateNode
    <3>3. row # Absent
      <4>. HIDE DEF row
      <4>. QED
        BY <3>1, AbsentIsNoRow
    <3>. QED
      BY <2>2, <3>2, <3>3
  <2>3. h.edge = g.edge
    BY <2>1 DEF UpdateNode
  <2>. HIDE DEF h
  <2>. QED
    BY <2>2, <2>3, RecordKinds DEF IdleIn, Genesis, h
<1>. QED
  BY <1>2, <1>3, BodyByVerb

\* So while nothing unjournaled writes, a heal finds nothing to do.
LEMMA HealIdles ==
  ASSUME TypeOK, CursorInv, IdleInv, strays = 0, cursor # Unstamped
  PROVE  AllApply(graph, Behind) /\ Healed = graph
<1>1. \A i \in 1 .. Len(Behind) : IsGenesis(Behind[i]) /\ IdleIn(graph, Behind[i])
  <2>1. ASSUME NEW i \in 1 .. Len(Behind)
        PROVE  IsGenesis(Behind[i]) /\ IdleIn(graph, Behind[i])
    <3>1. PICK j \in 1 .. Len(journal) : Behind[i] = journal[j] /\ j > cursor
      BY BehindFacts
    <3>2. IsGenesis(journal[j])
      BY <3>1 DEF CursorInv
    <3>. QED
      BY <3>1, <3>2 DEF IdleInv
  <2>. QED
    BY <2>1
<1>. QED
  BY <1>1, BehindFacts, IdleReplay DEF Healed, TypeOK

\* Every step keeps late records idle, as long as nothing is dropped.
LEMMA IdleStep ==
  ASSUME \A b \in Bodies : b.verb # "delete", TypeOK, CursorInv, IdleInv, [Next]_vars
  PROVE  IdleInv'
<1>1. ASSUME NEW x \in Exporter, AppendRecord(x), strays = 0
      PROVE  IdleInv'
  <2>1. PICK r \in due[x] : /\ r \in Record /\ journal' = Append(journal, r)
                            /\ due' = [due EXCEPT ![x] = @ \ {r}]
                            /\ UNCHANGED <<graph, cursor, pc, strays, proven>>
    BY <1>1, AppendFacts
  <2>2. /\ Len(journal) \in Nat /\ Len(journal') = Len(journal) + 1
        /\ \A i \in 1 .. Len(journal) : journal'[i] = journal[i]
        /\ journal'[Len(journal) + 1] = r
    BY <2>1, AppendRange DEF TypeOK
  <2>3. IdleIn(graph, r)
    BY <1>1, <2>1 DEF IdleInv
  <2>4. \A i \in 1 .. Len(journal') : IsGenesis(journal'[i]) => IdleIn(graph, journal'[i])
    BY <1>1, <2>2, <2>3 DEF IdleInv
  <2>5. \A y \in Exporter : due'[y] \subseteq due[y]
    BY <2>1 DEF TypeOK
  <2>. QED
    BY <1>1, <2>1, <2>4, <2>5 DEF IdleInv
<1>2. ASSUME NEW x \in Exporter, \/ Start(x) \/ ScanNodes(x) \/ ScanEdges(x) \/ Finish(x) \/ Die(x),
             strays = 0
      PROVE  IdleInv'
  <2>1. /\ UNCHANGED <<journal, graph, strays>>
        /\ \A y \in Exporter : y # x => due'[y] = due[y]
        /\ due'[x] \in {due[x], {}, NodeRecords(graph), EdgeRecords(graph)}
    BY <1>2, QuietFacts
  <2>2. /\ \A r \in NodeRecords(graph) : IdleIn(graph, r)
        /\ \A r \in EdgeRecords(graph) : IdleIn(graph, r)
    BY DEF NodeRecords, EdgeRecords, IdleIn
  <2>3. \A y \in Exporter : \A r \in due'[y] : IdleIn(graph, r)
    BY <1>2, <2>1, <2>2 DEF IdleInv
  <2>. QED
    BY <1>2, <2>1, <2>3 DEF IdleInv
<1>3. ASSUME NEW b \in Strays, Unjournaled(b)
      PROVE  IdleInv'
  BY <1>3, UnjournaledFacts DEF IdleInv, TypeOK
<1>4. CASE Adopt
  BY <1>4, AdoptFacts DEF IdleInv
<1>5. ASSUME NEW b \in Bodies, Gesture(b), strays = 0
      PROVE  IdleInv'
  <2>1. PICK op \in Op : /\ op.body = Planned(Healed, b)
                         /\ journal' = Append(journal, op) /\ graph' = ApplyOp(Healed, op)
                         /\ cursor # Unstamped
                         /\ UNCHANGED <<pc, due, strays, proven>>
    BY <1>5, GestureFacts
  <2>2. Healed = graph /\ graph \in Graph
    BY <1>5, <2>1, HealIdles DEF TypeOK
  <2>3. op.body.verb # "delete"
    BY <2>1 DEF Planned, Delta
  <2>4. ~IsGenesis(op) /\ op \in Record
    BY RecordKinds DEF Record
  <2>5. \A r \in Genesis : IdleIn(graph, r) => IdleIn(graph', r)
    BY <2>1, <2>2, <2>3, KeptByOp
  <2>6. /\ Len(journal) \in Nat /\ Len(journal') = Len(journal) + 1
        /\ \A i \in 1 .. Len(journal) : journal'[i] = journal[i]
        /\ journal'[Len(journal) + 1] = op
    BY <2>1, <2>4, AppendRange DEF TypeOK
  <2>7. \A i \in 1 .. Len(journal) : IsGenesis(journal[i]) => journal[i] \in Genesis
    BY RecordKinds DEF TypeOK, Record
  <2>8. \A i \in 1 .. Len(journal') : IsGenesis(journal'[i]) => IdleIn(graph', journal'[i])
    BY <1>5, <2>4, <2>5, <2>6, <2>7 DEF IdleInv
  <2>9. \A y \in Exporter : \A r \in due[y] : IdleIn(graph', r)
    BY <1>5, <2>5 DEF IdleInv, TypeOK
  <2>. QED
    BY <2>1, <2>8, <2>9 DEF IdleInv
<1>6. CASE UNCHANGED vars
  BY <1>6 DEF vars, db, IdleInv
<1>7. ASSUME NEW x \in Exporter,
             \/ AppendRecord(x) \/ Start(x) \/ ScanNodes(x) \/ ScanEdges(x) \/ Finish(x) \/ Die(x),
             strays # 0
      PROVE  IdleInv'
  BY <1>7, AppendFacts, QuietFacts DEF IdleInv
<1>8. ASSUME NEW b \in Bodies, Gesture(b), strays # 0
      PROVE  IdleInv'
  BY <1>8, GestureFacts DEF IdleInv
<1>. QED
  BY <1>1, <1>2, <1>3, <1>4, <1>5, <1>6, <1>7, <1>8 DEF Next

\* Where journaled writes delete nothing, what an export that lost the race
\* appends past the cursor applies in every heal and changes nothing there.
THEOREM LateRecordsIdleHolds ==
  ASSUME \A b \in Bodies : b.verb # "delete"
  PROVE  Spec => []LateRecordsIdle
<1>1. IInv /\ IdleInv /\ [Next]_vars => IdleInv'
  BY IdleStep DEF IInv
<1>2. IInv /\ IdleInv => LateRecordsIdle
  BY HealIdles DEF IInv, LateRecordsIdle
<1>3. Init => IdleInv
  BY InitInvariant
<1>. QED
  BY Invariant, <1>1, <1>2, <1>3, PTL DEF Spec

=============================================================================
