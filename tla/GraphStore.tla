----------------------------- MODULE GraphStore -----------------------------
(***************************************************************************)
(* The graph a context-graph db holds, and what one journaled op does to   *)
(* it: the storage methods the write order calls (testing.py, MemGraph),   *)
(* the idempotent extend (ops.py, plan_extend and extend_graph) and the op *)
(* clock's stamps (ops.py, stamp_op_time and graph_task).                  *)
(*                                                                         *)
(* Only constant-level operators: the modules of the write order, of       *)
(* replay and of compaction share them.  Labels, properties and source     *)
(* references are data; what the code compares of a node is its identity   *)
(* content (label and source content hashes), here one value of Hash.      *)
(***************************************************************************)
EXTENDS Integers

CONSTANTS
  NodeId,     \* node ids (deterministic: the same emission has the same id)
  EdgeId,     \* edge ids
  Source,     \* edge id -> the node it leaves
  Target,     \* edge id -> the node it enters
  Hash,       \* identity contents a node may be emitted with
  Prop,       \* values a property merge may write
  NoProp,     \* the property before any merge
  Absent      \* in place of a row or of a wire: not there

ASSUME EdgeEndpoints == Source \in [EdgeId -> NodeId] /\ Target \in [EdgeId -> NodeId]
ASSUME AbsentIsNoHash == Absent \notin Hash
ASSUME NoPropIsNoProp == NoProp \notin Prop

-----------------------------------------------------------------------------
(* What is stored: a row per node and per edge, Absent where there is none. *)

Time == Nat

NodeRow == [hash: Hash, prop: Prop \cup {NoProp}, created: Time, updated: Time]

EdgeRow == [created: Time]

\* The stored nodes and edges of one db.
Graph == [node: [NodeId -> NodeRow \cup {Absent}], edge: [EdgeId -> EdgeRow \cup {Absent}]]

EmptyGraph == [node |-> [n \in NodeId |-> Absent], edge |-> [e \in EdgeId |-> Absent]]

\* Absent as a row: it is no record of either kind.
ASSUME AbsentIsNoRow == Absent \notin NodeRow \cup EdgeRow

-----------------------------------------------------------------------------
(* What is asked of the store.  A wires op emits nodes and edges; a merge   *)
(* updates one node's property; a drop deletes nodes.                       *)

Wires == [verb: {"extend"}, nodes: [NodeId -> Hash \cup {Absent}], edges: SUBSET EdgeId]

Merge == [verb: {"update"}, node: NodeId, prop: Prop]

Drop == [verb: {"delete"}, nodes: SUBSET NodeId]

Body == Wires \cup Merge \cup Drop

\* A journaled op: what it asks and the op clock's one reading.
Op == [body: Body, ts: Time]

Wired(w) == {n \in NodeId : w.nodes[n] # Absent}

-----------------------------------------------------------------------------
(* The storage methods. *)

\* Mutant: the wire is stored with no time on it.
StampedNodeUntimed(hash, ts) ==
  [hash |-> hash, prop |-> NoProp, created |-> Absent, updated |-> Absent]

\* stamp_op_time on a wire that carries no time of its own.
StampedNode(hash, ts) == [hash |-> hash, prop |-> NoProp, created |-> ts, updated |-> ts]

\* add_nodes stores each wire it is given, over a row that is already there.
AddNodes(g, wires, ids, ts) ==
  [node |-> [n \in NodeId |-> IF n \in ids THEN StampedNode(wires[n], ts) ELSE g.node[n]],
   edge |-> g.edge]

AddEdges(g, ids, ts) ==
  [node |-> g.node,
   edge |-> [e \in EdgeId |-> IF e \in ids THEN [created |-> ts] ELSE g.edge[e]]]

\* update_node merges into a row that is there and answers False for one that
\* is not; inside a window the merge carries the op clock's updated_at.
UpdateNode(g, n, prop, ts) ==
  [node |-> [m \in NodeId |->
               IF m = n /\ g.node[m] # Absent
                 THEN [hash    |-> g.node[m].hash,
                       prop    |-> prop,
                       created |-> g.node[m].created,
                       updated |-> ts]
                 ELSE g.node[m]],
   edge |-> g.edge]

\* delete_nodes removes the rows that are there and the edges that touch one
\* of them: an edge of an id that had no row stays.
DeleteNodes(g, ids) ==
  LET gone == {n \in ids : g.node[n] # Absent}
  IN  [node |-> [n \in NodeId |-> IF n \in gone THEN Absent ELSE g.node[n]],
       edge |-> [e \in EdgeId |-> IF Source[e] \in gone \/ Target[e] \in gone
                                  THEN Absent ELSE g.edge[e]]]

-----------------------------------------------------------------------------
(* The idempotent extend: plan by presence, then add what is absent. *)

\* A present node emitted with other identity content: GraphIntegrityError.
Mismatch(g, w) ==
  \E n \in Wired(w) : g.node[n] # Absent /\ g.node[n].hash # w.nodes[n]

AbsentNodes(g, w) == {n \in Wired(w) : g.node[n] = Absent}

AbsentEdges(g, w) == {e \in w.edges : g.edge[e] = Absent}

\* Mutant: every wire is journaled, the present ones too.
DeltaWhole(g, w) == w

\* The wires plan_extend leaves to add, which are those journal_extend journals.
Delta(g, w) ==
  [verb  |-> "extend",
   nodes |-> [n \in NodeId |-> IF n \in AbsentNodes(g, w) THEN w.nodes[n] ELSE Absent],
   edges |-> AbsentEdges(g, w)]

\* What the caller's body becomes when it is planned against the db: an extend
\* keeps its absent wires, a planned op is journaled as it is.
Planned(g, b) == IF b.verb = "extend" THEN Delta(g, b) ELSE b

\* Whether the plan raises, and whether it leaves nothing to journal.
PlanRefuses(g, b) == b.verb = "extend" /\ Mismatch(g, b)
PlanIsEmpty(g, b) == b.verb = "extend" /\ AbsentNodes(g, b) = {} /\ AbsentEdges(g, b) = {}

\* extend_graph's first storage write, and both of them.
ExtendNodes(g, w, ts) == AddNodes(g, w.nodes, AbsentNodes(g, w), ts)

Extend(g, w, ts) == AddEdges(ExtendNodes(g, w, ts), AbsentEdges(g, w), ts)

-----------------------------------------------------------------------------
(* One applier, live and on replay. *)

\* Whether applying the op raises: a wires op over a node of other content.
Refuses(g, op) == op.body.verb = "extend" /\ Mismatch(g, op.body)

\* What applying the op leaves, every stamp the op's own time.
ApplyOp(g, op) ==
  CASE op.body.verb = "extend" -> Extend(g, op.body, op.ts)
    [] op.body.verb = "update" -> UpdateNode(g, op.body.node, op.body.prop, op.ts)
    [] op.body.verb = "delete" -> DeleteNodes(g, op.body.nodes)

=============================================================================
