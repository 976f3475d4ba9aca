-------------------------------- MODULE Adopt --------------------------------
(***************************************************************************)
(* adopt_db (rebuild.py) and the comparison it decides by (graphdiff.py,   *)
(* diff_stores): a db whose applied cursor is missing or useless takes its *)
(* journal's end once a replay of the journal has reproduced it, element   *)
(* for element, but for those its caller names to drop.                    *)
(*                                                                         *)
(* The live db is read page by page, in id order, and merged with the      *)
(* scratch db the journal was replayed into.  The family's lock keeps      *)
(* journaling writers out; unjournaled writes take no lock and may fall    *)
(* between any two pages, and between the last page and the stamp.  The    *)
(* replay is one step here: Replay models it.                              *)
(***************************************************************************)
EXTENDS GraphStore, Sequences, SequencesExt

CONSTANTS
  Histories,  \* journals a db without a cursor may have: sequences of ops
  Lagging,    \* nodes the old writers may have stamped one tick before the op
  Bodies,     \* what journaling callers ask for
  Strays,     \* bodies that unjournaled callers apply
  Drops,      \* drop lists an adoption is called with: sets of ids
  Rank,       \* the place of an id in the stores' id order, of each kind
  Page,       \* elements per keyset page
  MaxLag,     \* LagAttribution: the lag it admits is below this
  Epoch,      \* LagAttribution: on what was stamped before this
  MaxOps,     \* bound on the journal's length
  MaxStrays,  \* bound on the unjournaled writes
  MaxRuns     \* bound on the adoptions started

Unstamped == -1  \* no cursor, or one at which no record ends

ElementId == NodeId \cup EdgeId

ASSUME AdoptedHistories ==
  /\ Histories \subseteq Seq(Op) /\ Lagging \subseteq NodeId
  /\ \A h \in Histories : \A i \in 1 .. Len(h) : h[i].ts > 0
ASSUME AdoptedBodies == Bodies \cup Strays \subseteq Body
ASSUME AdoptedDrops == Drops \subseteq SUBSET ElementId /\ NodeId \cap EdgeId = {}
ASSUME AdoptedStores == IsFiniteSet(ElementId)
ASSUME RankOrders ==
  /\ Rank \in [ElementId -> Nat \ {0}]
  /\ \A k \in {NodeId, EdgeId} : \A x, y \in k : Rank[x] = Rank[y] => x = y
ASSUME AdoptedBounds ==
  /\ Page \in Nat \ {0} /\ MaxLag \in Nat /\ Epoch \in Nat
  /\ MaxOps \in Nat /\ MaxStrays \in Nat /\ MaxRuns \in Nat

VARIABLES
  journal,  \* the family's landed records
  graph,    \* what the live db stores
  cursor,   \* its applied cursor
  pc,       \* where the adoption stands
  drop,     \* its argument: the ids it may delete
  scratch,  \* the graph its replay built
  end,      \* and the cursor that replay stamped
  kind,     \* the element kind it compares
  after,    \* the rank of the last live element it has read
  last,     \* whether the page just read was the last one
  left,     \* live elements read and not merged
  right,    \* scratch elements not merged
  found,    \* the differences so far
  strays,   \* unjournaled writes so far
  opened,   \* history variable: how many there were when the adoption began
  proven,   \* history variable: how many when the last stamped one began
  runs      \* adoptions started

store == <<graph, cursor>>
proof == <<scratch, end>>
merge == <<kind, after, last, left, right, found>>
vars == <<journal, graph, cursor, pc, drop, scratch, end, kind, after, last,
          left, right, found, strays, opened, proven, runs>>

ReplayOf(ops) == FoldLeft(ApplyOp, EmptyGraph, ops)

\* What the writers before the op clock made of a node's row.
Lagged(row) == [row EXCEPT !.created = @ - 1, !.updated = @ - 1]

LaggedGraph(g, ids) ==
  [g EXCEPT !.node = [n \in NodeId |-> IF n \in ids /\ @[n] # Absent THEN Lagged(@[n]) ELSE @[n]]]

Nothing == [live |-> {}, lacking |-> {}, differing |-> {}]

Init ==
  /\ journal \in Histories
  /\ \E ids \in SUBSET Lagging : graph = LaggedGraph(ReplayOf(journal), ids)
  /\ cursor = Unstamped
  /\ pc = "idle"
  /\ drop = {} /\ scratch = EmptyGraph /\ end = 0
  /\ kind = "node" /\ after = 0 /\ last = FALSE
  /\ left = <<>> /\ right = <<>> /\ found = Nothing
  /\ strays = 0 /\ opened = 0 /\ proven = 0
  /\ runs = 0

TypeOK ==
  /\ journal \in Seq(Op)
  /\ graph \in Graph /\ scratch \in Graph
  /\ cursor \in Nat \cup {Unstamped} /\ end \in Nat
  /\ pc \in {"idle", "compare", "decide", "edges", "nodes", "stamp"}
  /\ drop \subseteq ElementId
  /\ kind \in {"node", "edge"} /\ after \in Nat /\ last \in BOOLEAN
  /\ left \in Seq([id: ElementId, row: NodeRow \cup EdgeRow]) /\ right \in Seq(ElementId)
  /\ found \in [live: SUBSET ElementId, lacking: SUBSET ElementId, differing: SUBSET ElementId]
  /\ strays \in Nat /\ opened \in Nat /\ proven \in Nat /\ runs \in Nat

-----------------------------------------------------------------------------
(* The other writers. *)

Now == 2 * Len(journal) + strays + 2

Healed == FoldLeft(ApplyOp, graph, SubSeq(journal, cursor + 1, Len(journal)))

\* A gesture of one op under the family's lock, which an adoption holds: it lands
\* its op, or dies once it has appended it.  No writer opens without a cursor.
Gesture(b) ==
  LET now == Healed
      op  == [body |-> Planned(now, b), ts |-> Now]
  IN  /\ pc = "idle"
      /\ cursor # Unstamped
      /\ Len(journal) < MaxOps
      /\ b.verb = "update" => now.node[b.node] # Absent
      /\ ~PlanRefuses(now, b)
      /\ ~PlanIsEmpty(now, b)
      /\ journal' = Append(journal, op)
      /\ \/ graph' = ApplyOp(now, op) /\ cursor' = Len(journal')
         \/ graph' = now /\ cursor' = Len(journal)
      /\ UNCHANGED <<pc, drop, proof, merge, strays, opened, proven, runs>>

\* A write with no op and no lock: unjournaled=True, or another program's.
Unjournaled(b) ==
  /\ strays < MaxStrays
  /\ ~PlanRefuses(graph, b)
  /\ graph' = ApplyOp(graph, [body |-> b, ts |-> Now])
  /\ graph' # graph
  /\ strays' = strays + 1
  /\ UNCHANGED <<journal, cursor, pc, drop, proof, merge, opened, proven, runs>>

-----------------------------------------------------------------------------
(* The two streams. *)

Rows(g, k) == IF k = "node" THEN g.node ELSE g.edge

\* The ids of a store past a rank.
Past(g, k, rank) == {x \in DOMAIN Rows(g, k) : Rows(g, k)[x] # Absent /\ Rank[x] > rank}

\* They in id order.
Stream(g, k, rank) ==
  LET ids == Past(g, k, rank)
  IN  CHOOSE s \in [1 .. Cardinality(ids) -> ids] :
        \A i, j \in DOMAIN s : i < j => Rank[s[i]] < Rank[s[j]]

NextPage ==
  LET ids == Stream(graph, kind, after)
  IN  SubSeq(ids, 1, IF Len(ids) < Page THEN Len(ids) ELSE Page)

\* Mutant: a full page is taken for the last one.
IsLastEarly(ids) == Len(ids) <= Page

\* A page short of its size is the last.
IsLast(ids) == Len(ids) < Page

\* The next live page is read while the one before it is merged.
FetchPage ==
  /\ pc = "compare"
  /\ ~last
  /\ Len(left) <= Page
  /\ left' = left \o [i \in 1 .. Len(NextPage) |->
                        [id |-> NextPage[i], row |-> Rows(graph, kind)[NextPage[i]]]]
  /\ after' = IF NextPage = <<>> THEN after ELSE Rank[NextPage[Len(NextPage)]]
  /\ last' = IsLast(NextPage)
  /\ UNCHANGED <<journal, store, pc, drop, proof, kind, right, found, strays, opened, proven, runs>>

\* LagAttribution: the live time precedes the journal's by less than the lag.
LagAdmits(va, vb) == 0 < vb - va /\ vb - va < MaxLag /\ va < Epoch

SameTime(va, vb) == va = vb \/ LagAdmits(va, vb)

\* Some field differs that no cause accounts for.
Drifts(k, a, b) ==
  IF k = "edge" THEN ~SameTime(a.created, b.created)
  ELSE \/ a.hash # b.hash
       \/ a.prop # b.prop
       \/ ~SameTime(a.created, b.created)
       \/ ~SameTime(a.updated, b.updated)

\* Both streams have an element at their head, or have ended.
HeadsKnown == pc = "compare" /\ (left # <<>> \/ last)

OnlyLive ==
  /\ HeadsKnown
  /\ left # <<>>
  /\ right # <<>> => Rank[left[1].id] < Rank[right[1]]
  /\ found' = [found EXCEPT !.live = @ \cup {left[1].id}]
  /\ left' = Tail(left)
  /\ UNCHANGED <<journal, store, pc, drop, proof, kind, after, last, right, strays, opened, proven, runs>>

OnlyScratch ==
  /\ HeadsKnown
  /\ right # <<>>
  /\ left # <<>> => Rank[right[1]] < Rank[left[1].id]
  /\ found' = [found EXCEPT !.lacking = @ \cup {right[1]}]
  /\ right' = Tail(right)
  /\ UNCHANGED <<journal, store, pc, drop, proof, kind, after, last, left, strays, opened, proven, runs>>

InBoth ==
  /\ HeadsKnown
  /\ left # <<>> /\ right # <<>>
  /\ left[1].id = right[1]
  /\ found' = IF Drifts(kind, left[1].row, Rows(scratch, kind)[right[1]])
                THEN [found EXCEPT !.differing = @ \cup {right[1]}] ELSE found
  /\ left' = Tail(left)
  /\ right' = Tail(right)
  /\ UNCHANGED <<journal, store, pc, drop, proof, kind, after, last, strays, opened, proven, runs>>

\* Both streams of a kind have ended: the edges follow the nodes.
KindCompared ==
  /\ HeadsKnown
  /\ left = <<>> /\ right = <<>>
  /\ IF kind = "node"
       THEN /\ kind' = "edge" /\ after' = 0 /\ last' = FALSE
            /\ right' = Stream(scratch, "edge", 0)
            /\ UNCHANGED pc
       ELSE /\ pc' = "decide"
            /\ UNCHANGED <<kind, after, last, right>>
  /\ UNCHANGED <<journal, store, drop, proof, left, found, strays, opened, proven, runs>>

-----------------------------------------------------------------------------
(* One adoption. *)

\* It takes the lock and replays the journal into the scratch db.
Open(ids) ==
  /\ pc = "idle"
  /\ runs < MaxRuns
  /\ runs' = runs + 1
  /\ drop' = ids
  /\ scratch' = ReplayOf(journal)
  /\ end' = Len(journal)
  /\ right' = Stream(ReplayOf(journal), "node", 0)
  /\ opened' = strays
  /\ pc' = "compare"
  /\ UNCHANGED <<journal, store, kind, after, last, left, found, strays, proven>>

\* The lock is released and the scratch db removed.
Close ==
  /\ pc' = "idle"
  /\ drop' = {} /\ scratch' = EmptyGraph /\ end' = 0
  /\ kind' = "node" /\ after' = 0 /\ last' = FALSE
  /\ left' = <<>> /\ right' = <<>> /\ found' = Nothing
  /\ opened' = 0

\* Mutant: what the live db lacks or holds otherwise is let pass.
NotProjectionNever == FALSE

\* Differences beyond elements only the live db holds.
NotProjection == found.lacking \cup found.differing # {}

\* Mutant: a list that names some of them will do.
ListMatchesPart == drop \subseteq found.live

\* The drop list names exactly the elements only the live db holds.
ListMatches == drop = found.live

Refuse ==
  /\ pc = "decide"
  /\ NotProjection \/ ~ListMatches
  /\ Close
  /\ UNCHANGED <<journal, store, strays, proven, runs>>

Accept ==
  /\ pc = "decide"
  /\ ~NotProjection
  /\ ListMatches
  /\ pc' = "edges"
  /\ UNCHANGED <<journal, store, drop, proof, merge, strays, opened, proven, runs>>

DropEdges ==
  /\ pc = "edges"
  /\ graph' = [graph EXCEPT !.edge = [e \in EdgeId |-> IF e \in found.live THEN Absent ELSE @[e]]]
  /\ pc' = "nodes"
  /\ UNCHANGED <<journal, cursor, drop, proof, merge, strays, opened, proven, runs>>

\* With no cascade: an edge that stays in the journal's graph stays here.
DropNodes ==
  /\ pc = "nodes"
  /\ graph' = [graph EXCEPT !.node = [n \in NodeId |-> IF n \in found.live THEN Absent ELSE @[n]]]
  /\ pc' = "stamp"
  /\ UNCHANGED <<journal, cursor, drop, proof, merge, strays, opened, proven, runs>>

\* The replay's end becomes the live cursor.
Stamp ==
  /\ pc = "stamp"
  /\ cursor' = end
  /\ proven' = opened
  /\ Close
  /\ UNCHANGED <<journal, graph, strays, runs>>

\* It dies, or a storage call of it does not complete.
Crash ==
  /\ pc # "idle"
  /\ Close
  /\ UNCHANGED <<journal, store, strays, proven, runs>>

Adopting ==
  \/ FetchPage
  \/ OnlyLive
  \/ OnlyScratch
  \/ InBoth
  \/ KindCompared
  \/ Refuse
  \/ Accept
  \/ DropEdges
  \/ DropNodes
  \/ Stamp

Next ==
  \/ \E b \in Bodies : Gesture(b)
  \/ \E b \in Strays : Unjournaled(b)
  \/ \E ids \in Drops : Open(ids)
  \/ Adopting
  \/ Crash

Spec == Init /\ [][Next]_vars

-----------------------------------------------------------------------------
(* Properties. *)

\* What a live graph holds beyond, without and otherwise than another.
Beyond(g, h) ==
  {n \in NodeId : g.node[n] # Absent /\ h.node[n] = Absent}
    \cup {e \in EdgeId : g.edge[e] # Absent /\ h.edge[e] = Absent}

Otherwise(g, h) ==
  {n \in NodeId : g.node[n] # Absent /\ h.node[n] # Absent /\ Drifts("node", g.node[n], h.node[n])}
    \cup {e \in EdgeId : g.edge[e] # Absent /\ h.edge[e] # Absent /\ Drifts("edge", g.edge[e], h.edge[e])}

Agrees(g, h) == Beyond(g, h) = {} /\ Beyond(h, g) = {} /\ Otherwise(g, h) = {}

\* A db that takes journaled writes is, once healed, its journal's projection,
\* apart from attributed times, as long as no unjournaled write has been made since
\* the adoption that stamped it began, even where a second adoption deletes what
\* an op that is not applied yet will delete (rebuild.py, adopt_db).
CursorIsProven ==
  cursor # Unstamped /\ strays = proven => Agrees(Healed, ReplayOf(journal))

\* The paged merge puts every difference in its bucket and nothing else in any,
\* when nothing was written meanwhile (graphdiff.py, merge_sorted, KindDiff.add).
DiffIsExact ==
  pc = "decide" /\ strays = opened =>
    found = [live      |-> Beyond(graph, scratch),
             lacking   |-> Beyond(scratch, graph),
             differing |-> Otherwise(graph, scratch)]

\* An adoption deletes what its caller named and no element that the journal
\* builds, whatever was written unjournaled while it ran (rebuild.py, adopt_db).
OnlyNamedDropped ==
  [][strays' = strays /\ pc \in {"edges", "nodes"} =>
       Beyond(graph, graph') \subseteq drop \cap Beyond(graph, ReplayOf(journal))]_vars

\* A stamp is a proof: at the step that stamps, the db is what the journal
\* builds (rebuild.py, adopt_db: only once a replay reproduces it).
StampIsProof ==
  [][pc = "stamp" /\ pc' = "idle" /\ cursor' = end => Agrees(graph', ReplayOf(journal))]_vars

=============================================================================
