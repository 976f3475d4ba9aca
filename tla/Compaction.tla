----------------------------- MODULE Compaction -----------------------------
(***************************************************************************)
(* A journal family's compaction (compact.py, compact_family): the wires   *)
(* of retired nodes leave the family's cold segments for an archive, after *)
(* an op that drops the nodes from the db has landed in the live tail.     *)
(*                                                                         *)
(* The db's cursor is a place in a segment, known by what stands before it *)
(* there (its offset and digest): rewriting that segment can take the      *)
(* place away, which is why the last step stamps the cursor anew.          *)
(* Everything runs under the family's lock; a crash, a storage call that   *)
(* fails or a segment found changed underfoot ends it at any step.  Writers *)
(* between compactions are whole gestures of one op, or die after their    *)
(* append: WriteOrder models what lies between.                            *)
(***************************************************************************)
EXTENDS GraphStore, Sequences, SequencesExt

CONSTANTS
  Bodies,        \* what live callers ask for: bodies of ops, and curations
  Retire,        \* the sets of node ids a domain compacts
  Pending,       \* how a caller makes its journaled_ids: of PendingKind
  Domain,        \* what the domain's ops remove of what moves: of DomainKind
  MaxOps,        \* bound on the ops ever journaled
  MaxFaults,     \* bound on the crashes
  MaxCompactions \* bound on the compactions started

PendingKind == {"none", "removed", "journaled"}

\* No op; an op that deletes the nodes; one that deletes the moved edges as well.
DomainKind == {"none", "nodes", "wires"}

\* A curation carries wires and deletes in one op; its handler is a core's.
Curation == [verb: {"curate"}, wires: Wires, nodes: SUBSET NodeId, edges: SUBSET EdgeId]

FamilyOp == [body: Body \cup Curation, ts: Time]

ASSUME CompactedBodies == Bodies \subseteq Body \cup Curation
ASSUME CompactedCallers ==
  Retire \subseteq SUBSET NodeId /\ Pending \subseteq PendingKind /\ Domain \subseteq DomainKind
ASSUME CompactedBounds == MaxOps \in Nat /\ MaxFaults \in Nat /\ MaxCompactions \in Nat

VARIABLES
  family,    \* its segments in order, the live tail last
  archive,   \* the archive segments' ops
  graph,     \* what the db stores
  cursor,    \* the db's applied cursor: a place in a segment
  pc,        \* where the compaction stands
  retired,   \* the ids whose wires it moves: its own
  pending,   \* and those whose removing op already stands
  domain,    \* what its domain's op removes
  todo,      \* segments it has still to rewrite
  started,   \* compactions started
  faults,    \* crashes so far
  log        \* history variable: every op ever journaled

store == <<graph, cursor>>
run == <<retired, pending, domain>>
vars == <<family, archive, graph, cursor, pc, retired, pending, domain, todo,
          started, faults, log>>

-----------------------------------------------------------------------------
(* The family and the places in it. *)

Records == FlattenSeq(family)

DeleteEdges(g, ids) ==
  [node |-> g.node, edge |-> [e \in EdgeId |-> IF e \in ids THEN Absent ELSE g.edge[e]]]

Apply(g, op) ==
  IF op.body.verb = "curate"
    THEN DeleteEdges(DeleteNodes(Extend(g, op.body.wires, op.ts), op.body.nodes), op.body.edges)
    ELSE ApplyOp(g, op)

ReplayOf(ops) == FoldLeft(Apply, EmptyGraph, ops)

Origin == [segment |-> 0, before |-> <<>>]

\* Some record of the family ends at the place.
Found(place) ==
  \/ place = Origin
  \/ /\ place.segment \in 1 .. Len(family)
     /\ IsPrefix(place.before, family[place.segment])

\* The records after a place that is found.
Past(place) ==
  IF place = Origin THEN Records
  ELSE SubSeq(family[place.segment], Len(place.before) + 1, Len(family[place.segment]))
         \o FlattenSeq(SubSeq(family, place.segment + 1, Len(family)))

\* Just past a family's last record.
EndOf(fam) ==
  LET filled == {k \in 1 .. Len(fam) : fam[k] # <<>>}
  IN  IF filled = {} THEN Origin
      ELSE LET last == CHOOSE k \in filled : \A j \in filled : j <= k
           IN  [segment |-> last, before |-> fam[last]]

\* What a writer's heal makes of the db when it opens.
Healed == FoldLeft(Apply, graph, Past(cursor))

Landed(op) == [family EXCEPT ![Len(family)] = Append(@, op)]

Init ==
  /\ family = <<<<>>>>
  /\ archive = <<>>
  /\ graph = EmptyGraph
  /\ cursor = Origin
  /\ pc = "idle"
  /\ retired = {} /\ pending = {} /\ domain = "none"
  /\ todo = {}
  /\ started = 0
  /\ faults = 0
  /\ log = <<>>

TypeOK ==
  /\ family \in Seq(Seq(FamilyOp)) /\ family # <<>>
  /\ archive \in Seq(FamilyOp) /\ log \in Seq(FamilyOp)
  /\ graph \in Graph
  /\ cursor \in [segment: Nat, before: Seq(FamilyOp)]
  /\ pc \in {"idle", "open", "scan", "append", "apply", "advance", "archive", "move", "restamp"}
  /\ retired \subseteq NodeId /\ pending \subseteq NodeId /\ domain \in DomainKind
  /\ todo \subseteq 1 .. Len(family)
  /\ started \in Nat /\ faults \in Nat

-----------------------------------------------------------------------------
(* The writers between compactions. *)

\* A gesture of one op: its writer finds the cursor, heals, and lands the op or
\* dies once it has appended it.  A merge goes to a node its verb has read.
LiveGesture(b) ==
  LET now == Healed
      op  == [body |-> IF b.verb = "curate" THEN [b EXCEPT !.wires = Delta(now, @)]
                         ELSE Planned(now, b),
              ts   |-> Len(log) + 1]
  IN  /\ pc = "idle"
      /\ Found(cursor)
      /\ Len(log) < MaxOps
      /\ b.verb = "update" => now.node[b.node] # Absent
      /\ ~PlanRefuses(now, b)
      /\ ~PlanIsEmpty(now, b)
      /\ family' = Landed(op)
      /\ log' = Append(log, op)
      /\ \/ graph' = Apply(now, op) /\ cursor' = EndOf(family')
         \/ graph' = now /\ cursor' = EndOf(family)
      /\ UNCHANGED <<archive, pc, run, todo, started, faults>>

\* No record ends where the cursor stands: writers refuse until a rebuild.
Rebuild ==
  /\ pc = "idle"
  /\ ~Found(cursor)
  /\ graph' = ReplayOf(Records)
  /\ cursor' = EndOf(family)
  /\ UNCHANGED <<family, archive, pc, run, todo, started, faults, log>>

-----------------------------------------------------------------------------
(* The scan: what moves, what stays, what refuses. *)

Moving == retired \cup pending

\* Mutant: an edge moves only with the node it leaves.
TouchesSource(e) == Source[e] \in Moving

Touches(e) == Source[e] \in Moving \/ Target[e] \in Moving

Wire(op) == IF op.body.verb = "curate" THEN op.body.wires ELSE op.body

HasWires(op) == op.body.verb \in {"extend", "curate"}

WithWires(op, w) ==
  IF op.body.verb = "curate" THEN [op EXCEPT !.body.wires = w] ELSE [op EXCEPT !.body = w]

\* The wires of an op that move with the retired nodes, or those that stay.
PartOf(op, moves) ==
  LET w == Wire(op)
  IN  [verb  |-> "extend",
       nodes |-> [n \in NodeId |-> IF (n \in Moving) = moves THEN w.nodes[n] ELSE Absent],
       edges |-> {e \in w.edges : Touches(e) = moves}]

NoWires(w) == Wired(w) = {} /\ w.edges = {}

Splits(op) == HasWires(op) /\ ~NoWires(PartOf(op, TRUE))

\* All its wires move: the op moves, as it stands.
MovesWhole(op) == Splits(op) /\ NoWires(PartOf(op, FALSE))

\* What rewriting leaves of an op, and what the archive takes of it.
KeptOf(op) ==
  IF MovesWhole(op) THEN <<>>
  ELSE IF Splits(op) THEN <<WithWires(op, PartOf(op, FALSE))>> ELSE <<op>>

MovedOf(op) ==
  IF MovesWhole(op) THEN <<op>>
  ELSE IF Splits(op) THEN <<WithWires(op, PartOf(op, TRUE))>> ELSE <<>>

Kept(segment) == FlattenSeq([i \in 1 .. Len(segment) |-> KeptOf(segment[i])])

Moved(segment) == FlattenSeq([i \in 1 .. Len(segment) |-> MovedOf(segment[i])])

Cold == 1 .. Len(family) - 1

MovedOps == FlattenSeq([k \in Cold |-> Moved(family[k])])

\* A kept op names a retired node elsewhere than among its deletes.
Dangling ==
  \E k \in Cold : \E i \in 1 .. Len(family[k]) :
    family[k][i].body.verb = "update" /\ family[k][i].body.node \in Moving

-----------------------------------------------------------------------------
(* One compaction. *)

\* Ids that a drop standing in the family removes.
JournaledIds ==
  UNION {Records[i].body.nodes :
           i \in {j \in 1 .. Len(Records) : Records[j].body.verb \in {"curate", "delete"}}}

PendingIds(kind, g) ==
  CASE kind = "none"      -> {}
    [] kind = "journaled" -> JournaledIds
    [] kind = "removed"   -> {n \in JournaledIds : g.node[n] = Absent}

\* The writer opens: it takes the lock, finds the cursor and heals.
Open(ids, kind, removes) ==
  /\ pc = "idle"
  /\ Found(cursor)
  /\ started < MaxCompactions
  /\ graph' = Healed
  /\ cursor' = EndOf(family)
  /\ retired' = ids
  /\ pending' = PendingIds(kind, Healed) \ ids
  /\ domain' = removes
  /\ started' = started + 1
  /\ pc' = "open"
  /\ UNCHANGED <<family, archive, todo, faults, log>>

\* The tail becomes a cold segment: every target sits in one.
Rotate ==
  /\ pc = "open"
  /\ family' = IF Moving # {} /\ family[Len(family)] # <<>> THEN Append(family, <<>>) ELSE family
  /\ pc' = "scan"
  /\ UNCHANGED <<archive, store, run, todo, started, faults, log>>

Release ==
  /\ pc' = "idle"
  /\ retired' = {} /\ pending' = {} /\ domain' = "none"
  /\ todo' = {}

\* Mutant: no move is refused for want of an op.
OplessNever == FALSE

PlansOp == domain # "none" /\ retired # {}

\* The move would take wires with no op to remove them from the db.
Opless == MovedOps # <<>> /\ ~PlansOp /\ pending = {}

ScanRefused ==
  /\ pc = "scan"
  /\ Dangling \/ Opless
  /\ Release
  /\ UNCHANGED <<family, archive, store, started, faults, log>>

\* The scan is through: the domain's op is next, when it plans one.
Scan ==
  /\ pc = "scan"
  /\ ~Dangling
  /\ ~Opless
  /\ pc' = IF PlansOp THEN "append" ELSE "archive"
  /\ todo' = {k \in Cold : Moved(family[k]) # <<>>}
  /\ UNCHANGED <<family, archive, store, run, started, faults, log>>

NoWire == [verb |-> "extend", nodes |-> [n \in NodeId |-> Absent], edges |-> {}]

\* The domain's op: it deletes the retired nodes, and it may name their edges.
DropOp ==
  [body |-> [verb  |-> "curate",
             wires |-> NoWire,
             nodes |-> retired,
             edges |-> IF domain = "wires"
                         THEN UNION {Wire(MovedOps[i]).edges : i \in 1 .. Len(MovedOps)} ELSE {}],
   ts   |-> Len(log) + 1]

\* The op lands in the tail, which no move rewrites.
AppendDrop ==
  /\ pc = "append"
  /\ Len(log) < MaxOps
  /\ family' = Landed(DropOp)
  /\ log' = Append(log, DropOp)
  /\ pc' = "apply"
  /\ UNCHANGED <<archive, store, run, todo, started, faults>>

ApplyDrop ==
  /\ pc = "apply"
  /\ graph' = Apply(graph, Last(family[Len(family)]))
  /\ pc' = "advance"
  /\ UNCHANGED <<family, archive, cursor, run, todo, started, faults, log>>

\* Mutant: the cursor is left to the last step.
AdvanceLater ==
  /\ pc = "advance"
  /\ pc' = "archive"
  /\ UNCHANGED <<family, archive, store, run, todo, started, faults, log>>

AdvanceDrop ==
  /\ pc = "advance"
  /\ cursor' = EndOf(family)
  /\ pc' = "archive"
  /\ UNCHANGED <<family, archive, graph, run, todo, started, faults, log>>

\* Mutant: the rewrites begin before the archive is written.
ArchiveUnwritten ==
  /\ pc = "archive"
  /\ todo # {}
  /\ pc' = "move"
  /\ UNCHANGED <<family, archive, store, run, todo, started, faults, log>>

\* The move begins: the archive segment is written before any rewrite.
Archive ==
  /\ pc = "archive"
  /\ todo # {}
  /\ archive' = archive \o MovedOps
  /\ pc' = "move"
  /\ UNCHANGED <<family, store, run, todo, started, faults, log>>

NothingToMove ==
  /\ pc = "archive"
  /\ todo = {}
  /\ Release
  /\ UNCHANGED <<family, archive, store, started, faults, log>>

\* Mutant: one segment is rewritten and the rest are left.
RewriteOne ==
  /\ pc = "move"
  /\ LET k == CHOOSE j \in todo : \A i \in todo : j <= i
     IN  family' = [family EXCEPT ![k] = Kept(@)]
  /\ todo' = {}
  /\ pc' = "restamp"
  /\ UNCHANGED <<archive, store, run, started, faults, log>>

\* The next changed segment is replaced in one step.
Rewrite ==
  /\ pc = "move"
  /\ LET k == CHOOSE j \in todo : \A i \in todo : j <= i
     IN  /\ family' = [family EXCEPT ![k] = Kept(@)]
         /\ todo' = todo \ {k}
  /\ pc' = IF todo' = {} THEN "restamp" ELSE "move"
  /\ UNCHANGED <<archive, store, run, started, faults, log>>

Restamp ==
  /\ pc = "restamp"
  /\ cursor' = EndOf(family)
  /\ Release
  /\ UNCHANGED <<family, archive, graph, started, faults, log>>

\* The compaction ends where it stands: it dies, its storage call fails, or the
\* segment to rewrite has changed underfoot.  The archive may be cut short.
Crash ==
  /\ pc # "idle"
  /\ faults < MaxFaults
  /\ faults' = faults + 1
  /\ \/ UNCHANGED archive
     \/ /\ pc = "archive"
        /\ \E i \in 1 .. Len(MovedOps) : archive' = archive \o SubSeq(MovedOps, 1, i)
  /\ Release
  /\ UNCHANGED <<family, store, started, log>>

Compact ==
  \/ Rotate
  \/ ScanRefused
  \/ Scan
  \/ AppendDrop
  \/ ApplyDrop
  \/ AdvanceDrop
  \/ Archive
  \/ NothingToMove
  \/ Rewrite
  \/ Restamp

Next ==
  \/ \E b \in Bodies : LiveGesture(b)
  \/ Rebuild
  \/ \E ids \in Retire, kind \in Pending, removes \in Domain : Open(ids, kind, removes)
  \/ Compact
  \/ Crash

Spec == Init /\ [][Next]_vars

-----------------------------------------------------------------------------
(* Properties. *)

\* The journal is self-consistent at every crash point: what the next writer's
\* heal makes of the db is what a replay of the family builds, and where no
\* heal can begin, the db is that already (compact.py, compact_family).
SelfConsistent ==
  ReplayOf(Records) = IF Found(cursor) THEN Healed ELSE graph

\* A wire of an op is held by a record of that op.
Holds(ops, op, n) == \E i \in 1 .. Len(ops) :
  ops[i].ts = op.ts /\ HasWires(ops[i]) /\ Wire(ops[i]).nodes[n] = Wire(op).nodes[n]
HoldsEdge(ops, op, e) == \E i \in 1 .. Len(ops) :
  ops[i].ts = op.ts /\ HasWires(ops[i]) /\ e \in Wire(ops[i]).edges

\* The move is a move: every wire ever journaled is in the family or in the
\* archive at every step, whatever died (compact.py, kept and archived together
\* are the original, op by op; a crash leaves duplicates, never a loss).
NothingLost ==
  LET held == Records \o archive
  IN  \A i \in 1 .. Len(log) :
        IF HasWires(log[i])
          THEN /\ \A n \in Wired(Wire(log[i])) : Holds(held, log[i], n)
               /\ \A e \in Wire(log[i]).edges : HoldsEdge(held, log[i], e)
          ELSE \E j \in 1 .. Len(held) : held[j] = log[i]

\* Both of them, asked together of the runs with pending ids.
CrashSafe == SelfConsistent /\ NothingLost

\* A compaction that ended, however it ended, leaves a db that takes writes:
\* some record ends where its cursor stands (compact.py, compact_family: a
\* re-run completes the move from every boundary).
CursorFinds == pc = "idle" => Found(cursor)

\* Nothing outside the archive holds a wire of a retired node, or names one
\* outside deletes, once its compaction has run to its end (compact.py,
\* invariant 1 and scan_references).
MovedOut ==
  [][pc = "restamp" /\ faults' = faults =>
       \A i \in 1 .. Len(Records') :
         LET op == Records'[i]
         IN  /\ HasWires(op) => /\ Wired(Wire(op)) \cap Moving = {}
                                /\ \A e \in Wire(op).edges : {Source[e], Target[e]} \cap Moving = {}
             /\ op.body.verb = "update" => op.body.node \notin Moving]_vars

=============================================================================
