---------------------------- MODULE GenesisExport ----------------------------
(***************************************************************************)
(* genesis_export (journal.py): the state of a db that has no journal yet  *)
(* becomes a journal's baseline, one record per node and edge, appended    *)
(* one by one after each of two whole scans.                               *)
(*                                                                         *)
(* An export takes no lock and may die between any two steps.  It refuses a *)
(* journal that already holds a baseline, but only looks once, before its  *)
(* scans: exports may run side by side.  The db it read takes journaled    *)
(* writes once an adoption (Adopt, here one step) has compared it with the *)
(* journal's replay.                                                       *)
(***************************************************************************)
EXTENDS GraphStore, Sequences, SequencesExt

CONSTANTS
  Exporter,   \* processes that export
  Dbs,        \* graphs a db without a journal may hold
  Bodies,     \* what journaling callers ask for, once the db has a cursor
  Strays,     \* bodies that unjournaled callers apply
  MaxOps,     \* bound on the domain ops journaled
  MaxStrays   \* bound on the unjournaled writes

Unstamped == -1  \* the cursor of a db that holds none

ASSUME ExportedDbs == Dbs \subseteq Graph /\ Bodies \cup Strays \subseteq Body
ASSUME ExportBounds == MaxOps \in Nat /\ MaxStrays \in Nat

VARIABLES
  journal,    \* landed records: genesis records and domain ops
  graph,      \* what the db stores
  cursor,     \* its applied cursor
  pc,         \* exporter -> where its export stands
  due,        \* exporter -> genesis records it has scanned and not appended
  strays,     \* unjournaled writes so far
  proven      \* history variable: how many there were at the last adoption

db == <<graph, cursor>>
vars == <<journal, graph, cursor, pc, due, strays, proven>>

\* A genesis record carries the element as it was scanned, times included.
GenesisNode == [node: NodeId, row: NodeRow]
GenesisEdge == [edge: EdgeId, row: EdgeRow]
Genesis == GenesisNode \cup GenesisEdge
Record == Genesis \cup Op

IsGenesis(r) == DOMAIN r # {"body", "ts"}

Ops == SelectSeq(journal, LAMBDA r : ~IsGenesis(r))

\* Mutant: a record is taken to be the row's last word.
ApplyGenesisOver(g, r) ==
  IF "node" \in DOMAIN r THEN [g EXCEPT !.node[r.node] = r.row]
                         ELSE [g EXCEPT !.edge[r.edge] = r.row]

\* A genesis record extends the graph by its element, carried times kept; an
\* element that is there is verified.
ApplyGenesis(g, r) ==
  IF "node" \in DOMAIN r
    THEN IF g.node[r.node] = Absent THEN [g EXCEPT !.node[r.node] = r.row] ELSE g
    ELSE IF g.edge[r.edge] = Absent THEN [g EXCEPT !.edge[r.edge] = r.row] ELSE g

Apply(g, r) == IF IsGenesis(r) THEN ApplyGenesis(g, r) ELSE ApplyOp(g, r)

\* Records applied in their order, and whether every one of them applies: none
\* comes to a node of other content.
Applied(g, records) == FoldLeft(Apply, g, records)

RefusesRecord(g, r) ==
  IF IsGenesis(r)
    THEN "node" \in DOMAIN r /\ g.node[r.node] # Absent /\ g.node[r.node].hash # r.row.hash
    ELSE Refuses(g, r)

AllApply(g, records) ==
  \A i \in DOMAIN records : ~RefusesRecord(Applied(g, SubSeq(records, 1, i - 1)), records[i])

ReplayOf(records) == Applied(EmptyGraph, records)

Init ==
  /\ journal = <<>>
  /\ graph \in Dbs
  /\ cursor = Unstamped
  /\ pc = [x \in Exporter |-> "idle"]
  /\ due = [x \in Exporter |-> {}]
  /\ strays = 0 /\ proven = 0

-----------------------------------------------------------------------------
(* One export. *)

\* It reads the journal, which holds no baseline.
Start(x) ==
  /\ pc[x] = "idle"
  /\ \A i \in DOMAIN journal : ~IsGenesis(journal[i])
  /\ pc' = [pc EXCEPT ![x] = "checked"]
  /\ UNCHANGED <<journal, db, due, strays, proven>>

\* Mutant: what is scanned is written as a wire without its properties.
ScanNodesBare(x) ==
  /\ pc[x] = "checked"
  /\ due' = [due EXCEPT ![x] = {[node |-> n, row |-> [graph.node[n] EXCEPT !.prop = NoProp]] :
                                n \in {m \in NodeId : graph.node[m] # Absent}}]
  /\ pc' = [pc EXCEPT ![x] = "nodes"]
  /\ UNCHANGED <<journal, db, strays, proven>>

ScanNodes(x) ==
  /\ pc[x] = "checked"
  /\ due' = [due EXCEPT ![x] = {[node |-> n, row |-> graph.node[n]] :
                                n \in {m \in NodeId : graph.node[m] # Absent}}]
  /\ pc' = [pc EXCEPT ![x] = "nodes"]
  /\ UNCHANGED <<journal, db, strays, proven>>

\* The next scanned element, in the store's order.
AppendRecord(x) ==
  /\ \E r \in due[x] :
       /\ journal' = Append(journal, r)
       /\ due' = [due EXCEPT ![x] = @ \ {r}]
  /\ UNCHANGED <<db, pc, strays, proven>>

ScanEdges(x) ==
  /\ pc[x] = "nodes"
  /\ due[x] = {}
  /\ due' = [due EXCEPT ![x] = {[edge |-> e, row |-> graph.edge[e]] :
                                e \in {f \in EdgeId : graph.edge[f] # Absent}}]
  /\ pc' = [pc EXCEPT ![x] = "edges"]
  /\ UNCHANGED <<journal, db, strays, proven>>

\* The export returns its counts.
Finish(x) ==
  /\ pc[x] = "edges"
  /\ due[x] = {}
  /\ pc' = [pc EXCEPT ![x] = "idle"]
  /\ UNCHANGED <<journal, db, due, strays, proven>>

\* It dies, or a scan does not complete: what it appended stays.
Die(x) ==
  /\ pc[x] # "idle"
  /\ pc' = [pc EXCEPT ![x] = "idle"]
  /\ due' = [due EXCEPT ![x] = {}]
  /\ UNCHANGED <<journal, db, strays, proven>>

-----------------------------------------------------------------------------
(* The db the exports read. *)

\* Above every time a row of the db carries.
Now == Len(journal) + strays + 5

\* The records a writer's heal applies, and the db it leaves.
Behind == IF cursor = Unstamped THEN <<>> ELSE SubSeq(journal, cursor + 1, Len(journal))

Healed == Applied(graph, Behind)

Unjournaled(b) ==
  /\ strays < MaxStrays
  /\ ~PlanRefuses(graph, b)
  /\ graph' = ApplyOp(graph, [body |-> b, ts |-> Now])
  /\ graph' # graph
  /\ strays' = strays + 1
  /\ UNCHANGED <<journal, cursor, pc, due, proven>>

\* Mutant: a replay that adds nothing the db lacks is proof enough.
AdoptSubset ==
  LET scratch == ReplayOf(journal)
  IN  /\ journal # <<>>
      /\ \A n \in NodeId : scratch.node[n] \in {Absent, graph.node[n]}
      /\ \A e \in EdgeId : scratch.edge[e] \in {Absent, graph.edge[e]}
      /\ cursor' = Len(journal)
      /\ proven' = strays
      /\ UNCHANGED <<journal, graph, pc, due, strays>>

\* The journal's end becomes the db's cursor: its replay has reproduced the db.
Adopt ==
  /\ journal # <<>>
  /\ AllApply(EmptyGraph, journal)
  /\ graph = ReplayOf(journal)
  /\ cursor' = Len(journal)
  /\ proven' = strays
  /\ UNCHANGED <<journal, graph, pc, due, strays>>

\* A journaled write: its writer heals the db, plans, and lands its op.
Gesture(b) ==
  LET op == [body |-> Planned(Healed, b), ts |-> Now]
  IN  /\ cursor # Unstamped
      /\ AllApply(graph, Behind)
      /\ Len(Ops) < MaxOps
      /\ b.verb = "update" => Healed.node[b.node] # Absent
      /\ ~PlanRefuses(Healed, b)
      /\ ~PlanIsEmpty(Healed, b)
      /\ journal' = Append(journal, op)
      /\ graph' = ApplyOp(Healed, op)
      /\ cursor' = Len(journal')
      /\ UNCHANGED <<pc, due, strays, proven>>

Next ==
  \/ \E x \in Exporter :
       \/ Start(x)
       \/ ScanNodes(x)
       \/ AppendRecord(x)
       \/ ScanEdges(x)
       \/ Finish(x)
       \/ Die(x)
  \/ \E b \in Strays : Unjournaled(b)
  \/ Adopt
  \/ \E b \in Bodies : Gesture(b)

Spec == Init /\ [][Next]_vars

-----------------------------------------------------------------------------
(* Properties. *)

TypeOK ==
  /\ journal \in Seq(Record)
  /\ graph \in Graph
  /\ cursor \in Nat \cup {Unstamped}
  /\ pc \in [Exporter -> {"idle", "checked", "nodes", "edges"}]
  /\ due \in [Exporter -> SUBSET Genesis]
  /\ strays \in Nat /\ proven \in Nat

\* Once some export has run to its end over a db nothing else wrote, the journal
\* rebuilds that db, properties and times included, whatever other exports have
\* appended before, between and after its records, and died of (journal.py,
\* genesis_export: from here on replay_journal alone reconstructs it).
ExportIsWhole ==
  [][\A x \in Exporter :
       pc[x] = "edges" /\ pc'[x] = "idle" /\ due[x] = {} /\ strays = 0 =>
         ReplayOf(journal) = Healed]_vars

\* A db with a cursor is what its journal builds up to there: a baseline that an
\* export left half written, or that an unjournaled write has left behind, is
\* never stamped as whole (journal.py, genesis_export; rebuild.py, adopt_db).
StampedIsWhole ==
  cursor # Unstamped /\ strays = proven => graph = ReplayOf(SubSeq(journal, 1, cursor))

\* What an export that lost the race appends past the cursor applies in every
\* heal and changes nothing there, neither rows nor times (journal.py,
\* genesis_export: a re-export would double the log, and no more).
LateRecordsIdle ==
  cursor # Unstamped /\ strays = 0 => AllApply(graph, Behind) /\ Healed = graph

\* A journal that an export refuses holds its db's baseline (journal.py,
\* genesis_export: the baseline is one-time).
RefusedIsBaseline ==
  /\ cursor = Unstamped /\ strays = 0
  /\ journal # <<>>
  /\ \A x \in Exporter : pc[x] = "idle"
  => ReplayOf(journal) = graph

=============================================================================
