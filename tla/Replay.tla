------------------------------- MODULE Replay -------------------------------
(***************************************************************************)
(* replay_journal (journal.py): a journal family applied to a db, record   *)
(* by record, from an offset, the db's applied cursor stamped at the close. *)
(*                                                                         *)
(* The db is a fresh one being built beside the live writers, or one that  *)
(* already holds a cursor, which a live writer may be writing: then the    *)
(* replay takes the family's lock, but only after it has read that cursor. *)
(* The family is read once; genesis records collect into batches that are  *)
(* flushed before any other record is applied.  Live gestures are those of *)
(* SerialGestures, one op each, and a writer may die after its append.     *)
(***************************************************************************)
EXTENDS GraphStore, Sequences, SequencesExt

CONSTANTS
  Baseline,      \* the genesis records' bodies: one node or one edge each
  Bodies,        \* what live callers ask for
  FreshOffsets,  \* offsets a replay into a db with no cursor is called with
  HeldOffsets,   \* offsets a replay onto a db with a cursor is called with
  BatchSizes,    \* genesis flush sizes
  LiveFirst,     \* records the live db stands after before any replay starts
  MaxOps,        \* bound on the journal's length
  MaxRuns        \* bound on the replays started

Unstamped == -1  \* the cursor of a db that holds none

ASSUME ReplayBodies == Bodies \subseteq Body /\ Baseline \in Seq(Wires)
ASSUME ReplayOffsets == FreshOffsets \subseteq Nat /\ HeldOffsets \subseteq Nat
ASSUME ReplayBounds ==
  BatchSizes \subseteq Nat \ {0} /\ LiveFirst \in Nat /\ MaxOps \in Nat /\ MaxRuns \in Nat

VARIABLES
  journal,   \* the family's landed records
  live,      \* whether the db is the one live writers write, or a fresh build
  graph,     \* what the db stores
  cursor,    \* its applied cursor
  locked,    \* whether the replay holds the family's lock
  pc,        \* where the replay stands
  held,      \* the cursor it read before the lock
  offset,    \* its argument: records to skip
  size,      \* its argument: the genesis flush size
  end,       \* how many records its one read of the family found
  pos,       \* how many of them it has taken
  pending,   \* records taken whose extend has not run
  edgesDue,  \* edges its running extend has still to add, with their times
  runs,      \* replays started
  refused,   \* whether a record of this replay refused to apply
  clean      \* history variable: no replay onto a db with a cursor has ended short
             \* of its stamp, nor taken again a part of what the db holds

store == <<graph, cursor>>
call == <<held, offset, size>>
pass == <<end, pos, pending, edgesDue>>
vars == <<journal, live, graph, cursor, locked, pc, held, offset, size,
          end, pos, pending, edgesDue, runs, refused, clean>>

ReplayOf(ops) == FoldLeft(ApplyOp, EmptyGraph, ops)

\* genesis_export: the whole db as it stood, each record with its carried time.
GenesisRecords == [i \in 1 .. Len(Baseline) |-> [body |-> Baseline[i], ts |-> i]]

IsGenesis(i) == i <= Len(Baseline)

\* A live db stamped at its baseline's end, or a fresh one.
Init ==
  /\ journal = GenesisRecords
  /\ live \in BOOLEAN
  /\ graph = IF live THEN ReplayOf(GenesisRecords) ELSE EmptyGraph
  /\ cursor = IF live THEN Len(Baseline) ELSE Unstamped
  /\ locked = FALSE
  /\ pc = "idle"
  /\ held = Unstamped /\ offset = 0 /\ size = 1
  /\ end = 0 /\ pos = 0 /\ pending = <<>> /\ edgesDue = {}
  /\ runs = 0
  /\ refused = FALSE /\ clean = TRUE

TypeOK ==
  /\ journal \in Seq(Op)
  /\ live \in BOOLEAN /\ locked \in BOOLEAN /\ refused \in BOOLEAN /\ clean \in BOOLEAN
  /\ graph \in Graph
  /\ cursor \in Nat \cup {Unstamped} /\ held \in Nat \cup {Unstamped}
  /\ pc \in {"idle", "locking", "reading", "applying", "edges"}
  /\ offset \in Nat /\ size \in Nat /\ end \in Nat /\ pos \in Nat /\ runs \in Nat
  /\ pending \in Seq(Op)
  /\ edgesDue \in SUBSET [edge: EdgeId, ts: Time]

-----------------------------------------------------------------------------
(* The live writers. *)

\* The db a live gesture plans against: healed, whether it is this one or the
\* live one a fresh build is made beside.
Healed ==
  IF live THEN FoldLeft(ApplyOp, graph, SubSeq(journal, cursor + 1, Len(journal)))
          ELSE ReplayOf(journal)

\* The cores' verbs, in other packages: a merge goes to a node its verb has read.
Asks(now, b) == b.verb = "update" => now.node[b.node] # Absent

\* A gesture of one op.  Its writer heals the db it writes, and either lands its
\* op or dies once it has appended it, before or after its first storage write.
LiveGesture(b) ==
  LET now == Healed
      op  == [body |-> Planned(now, b), ts |-> Len(journal) + 1]
  IN  /\ ~locked
      /\ Len(journal) < MaxOps
      /\ Asks(now, b)
      /\ ~PlanRefuses(now, b)
      /\ ~PlanIsEmpty(now, b)
      /\ journal' = Append(journal, op)
      /\ IF live
           THEN \/ graph' = ApplyOp(now, op) /\ cursor' = Len(journal')
                \/ graph' = now /\ cursor' = Len(journal)
                \/ /\ op.body.verb = "extend"
                   /\ graph' = ExtendNodes(now, op.body, op.ts)
                   /\ cursor' = Len(journal)
           ELSE UNCHANGED store
      /\ UNCHANGED <<live, locked, pc, call, pass, runs, refused, clean>>

\* A built db is put in the live one's place: it takes writes from its cursor on.
PutInPlace ==
  /\ pc = "idle"
  /\ ~live
  /\ cursor # Unstamped
  /\ live' = TRUE
  /\ UNCHANGED <<journal, store, locked, pc, call, pass, runs, refused, clean>>

-----------------------------------------------------------------------------
(* One call of replay_journal. *)

\* The call reads the db's cursor; the lock comes after.
Start(o, n) ==
  /\ pc = "idle"
  /\ runs < MaxRuns
  /\ live => Len(journal) >= LiveFirst
  /\ o \in IF cursor = Unstamped THEN FreshOffsets ELSE HeldOffsets
  /\ held' = cursor
  /\ offset' = o
  /\ size' = n
  /\ runs' = runs + 1
  /\ refused' = FALSE
  /\ pc' = "locking"
  /\ UNCHANGED <<journal, live, store, locked, pass, clean>>

\* Mutant: no replay takes the family's lock.
EnterUnlocked ==
  /\ pc = "locking"
  /\ locked' = FALSE
  /\ pc' = "reading"
  /\ UNCHANGED <<journal, live, store, call, pass, runs, refused, clean>>

\* Only a db that held a cursor takes the lock: writes never wait on a build.
Enter ==
  /\ pc = "locking"
  /\ locked' = (held # Unstamped)
  /\ pc' = "reading"
  /\ UNCHANGED <<journal, live, store, call, pass, runs, refused, clean>>

\* Mutant: no offset is refused.
GuardRefusesNever == FALSE

\* Whether the guard refuses: the cursor's true place lies before the offset.
GuardRefuses == held # Unstamped /\ held # 0 /\ held < offset

\* The one read of the family, and the guard on what would be skipped.  A tail
\* may begin before the place the db stands at, by the call or since it read the
\* cursor: records the db holds are then taken again without what they followed.
ReadFamily ==
  /\ pc = "reading"
  /\ ~GuardRefuses
  /\ end' = Len(journal)
  /\ pos' = offset
  /\ pc' = "applying"
  /\ clean' = (clean /\ (offset = 0 \/ cursor <= offset))
  /\ UNCHANGED <<journal, live, store, locked, call, pending, edgesDue, runs, refused>>

\* The call ends, and with it what it collected and the lock.
Finish ==
  /\ pc' = "idle"
  /\ locked' = FALSE
  /\ held' = Unstamped /\ offset' = 0 /\ size' = 1
  /\ end' = 0 /\ pos' = 0 /\ pending' = <<>> /\ edgesDue' = {}

OffsetRefused ==
  /\ pc = "reading"
  /\ GuardRefuses
  /\ Finish
  /\ UNCHANGED <<journal, live, store, runs, refused, clean>>

\* Mutant: a domain record is applied before the genesis records collected.
FlushDueLate ==
  /\ pending # <<>>
  /\ \/ Len(pending) >= size
     \/ pos >= end
     \/ ~IsGenesis(pos)

\* What has been collected is to be applied now: the batch is full, or a domain
\* record comes next or has been taken, or the records are at their end.
FlushDue ==
  /\ pending # <<>>
  /\ \/ Len(pending) >= size
     \/ pos >= end
     \/ ~IsGenesis(pos)
     \/ ~IsGenesis(pos + 1)

\* The next record is taken to extend with: a genesis record into the batch, a
\* domain op's wires alone.
TakeWires ==
  /\ pc = "applying"
  /\ ~FlushDue
  /\ pos < end
  /\ journal[pos + 1].body.verb = "extend"
  /\ pending' = Append(pending, journal[pos + 1])
  /\ pos' = pos + 1
  /\ UNCHANGED <<journal, live, store, locked, pc, call, end, edgesDue, runs, refused, clean>>

\* A merge or a drop: its handler's one storage write.
ApplyDomain ==
  /\ pc = "applying"
  /\ ~FlushDue
  /\ pos < end
  /\ journal[pos + 1].body.verb # "extend"
  /\ graph' = ApplyOp(graph, journal[pos + 1])
  /\ pos' = pos + 1
  /\ UNCHANGED <<journal, live, cursor, locked, pc, call, end, pending, edgesDue, runs, refused, clean>>

PendingRefuses == \E i \in 1 .. Len(pending) : Refuses(graph, pending[i])

\* One extend over a whole batch onto what the db holds: its plan reads what is
\* absent of all of it, then the nodes are stored in their order.
FlushedNodes(base, ops) ==
  FoldLeft(LAMBDA g, op : AddNodes(g, op.body.nodes, AbsentNodes(base, op.body), op.ts), base, ops)

DueEdges(base, ops) ==
  UNION {{[edge |-> e, ts |-> ops[i].ts] : e \in AbsentEdges(base, ops[i].body)} : i \in 1 .. Len(ops)}

\* The batch's edges: each was emitted by one record.
WithEdges(g, due) ==
  [node |-> g.node,
   edge |-> [e \in EdgeId |-> IF \E d \in due : d.edge = e
               THEN [created |-> (CHOOSE d \in due : d.edge = e).ts]
               ELSE g.edge[e]]]

FlushNodes ==
  /\ pc = "applying"
  /\ FlushDue
  /\ ~PendingRefuses
  /\ graph' = FlushedNodes(graph, pending)
  /\ edgesDue' = DueEdges(graph, pending)
  /\ pc' = "edges"
  /\ UNCHANGED <<journal, live, cursor, locked, call, end, pos, pending, runs, refused, clean>>

FlushEdges ==
  /\ pc = "edges"
  /\ graph' = WithEdges(graph, edgesDue)
  /\ edgesDue' = {}
  /\ pending' = <<>>
  /\ pc' = "applying"
  /\ UNCHANGED <<journal, live, cursor, locked, call, end, pos, runs, refused, clean>>

\* A record over a node of other content: the extend raises out of the replay.
ReplayRefused ==
  /\ pc = "applying"
  /\ FlushDue
  /\ PendingRefuses
  /\ refused' = TRUE
  /\ clean' = (clean /\ held = Unstamped)
  /\ Finish
  /\ UNCHANGED <<journal, live, store, runs>>

\* Mutant: the cursor is stamped at the family's end as it is by now.
StampLatest ==
  /\ pc = "applying"
  /\ pos >= end
  /\ pending = <<>>
  /\ cursor' = Len(journal)
  /\ Finish
  /\ UNCHANGED <<journal, live, graph, runs, refused, clean>>

\* The cursor is stamped at the last record read.
Stamp ==
  /\ pc = "applying"
  /\ pos >= end
  /\ pending = <<>>
  /\ cursor' = end
  /\ Finish
  /\ UNCHANGED <<journal, live, graph, runs, refused, clean>>

\* The replay dies, or a storage call of it ends without completing.
Die ==
  /\ pc # "idle"
  /\ clean' = (clean /\ held = Unstamped)
  /\ Finish
  /\ UNCHANGED <<journal, live, store, runs, refused>>

Replaying ==
  \/ Enter
  \/ ReadFamily
  \/ OffsetRefused
  \/ TakeWires
  \/ ApplyDomain
  \/ FlushNodes
  \/ FlushEdges
  \/ ReplayRefused
  \/ Stamp

Next ==
  \/ \E b \in Bodies : LiveGesture(b)
  \/ PutInPlace
  \/ \E o \in FreshOffsets \cup HeldOffsets, n \in BatchSizes : Start(o, n)
  \/ Replaying
  \/ Die

Spec == Init /\ [][Next]_vars

-----------------------------------------------------------------------------
(* Properties. *)

\* What replaying the records before the cursor builds, up to the nodes of the
\* one record a dead writer left half applied.
StandsAtCursor ==
  LET upto == ReplayOf(SubSeq(journal, 1, cursor))
  IN  \/ graph = upto
      \/ /\ cursor < Len(journal)
         /\ journal[cursor + 1].body.verb = "extend"
         /\ graph = ExtendNodes(upto, journal[cursor + 1].body, journal[cursor + 1].ts)

\* A db holds what its cursor says: no build and no replay from the start leaves
\* it standing past a record it did not apply, whatever it raced with, and
\* whatever builds died before it (journal.py, replay_journal).
StampIsApplied == pc = "idle" /\ cursor # Unstamped /\ clean => StandsAtCursor

\* The same of every replay, one that died over a live db or took a tail again
\* included (journal.py, replay_journal: a delta replay is idempotent).
AnyReplayConverges == pc = "idle" /\ cursor # Unstamped => StandsAtCursor

\* A replay that got past its guard skips no record the db has not applied,
\* however far its read of the cursor lies behind (journal.py, replay_journal:
\* an offset past the cursor's true place refuses).
NothingSkipped ==
  pc \in {"applying", "edges"} => offset <= IF cursor = Unstamped THEN 0 ELSE cursor

\* A replay's refusal is a divergence of the journal: onto a db its own
\* journal made, every record applies (journal.py, apply_wires: replay onto any
\* db state converges).
ReplayConverges == ~refused

\* The first build of a fresh db takes every record, whatever the batch size and
\* whatever came back with other content after a drop; a second one over what a
\* dead one left may not (rebuild.py, rebuild_db; journal.py, _replay_records).
FreshBuildsTakeAll == refused /\ cursor = Unstamped => runs > 1

\* While a replay runs on a db that live writers write, they land nothing: what
\* it read of the family is the whole family to the stamp.
ReadIsCurrent ==
  (live /\ pc \in {"applying", "edges"}) => end = Len(journal)

=============================================================================
