-------------------------- MODULE WriteOrderProofs --------------------------
(***************************************************************************)
(* The write order keeps its types, and the db it writes is the replay of  *)
(* its journal up to the cursor, with at most one record under way; its    *)
(* journal is one that serial gestures write; and where no unit buffers, a *)
(* record carries what was missing and never refuses to apply: for every   *)
(* set of writers, of nodes and edges, of callers' bodies, and any number  *)
(* of ops and of crashes.  At the end, the harness that kills the write    *)
(* order at its boundaries: a suite that passes has come to all of them.   *)
(***************************************************************************)
EXTENDS WriteOrder, CrashProof, GraphStoreProofs, SequenceTheorems, FiniteSetTheorems

Held == PC \ {"idle", "opening"}

\* The family's lock excludes: the one writer past the opening holds it.
LockInv == \A w \in Writer : pc[w] \in Held <=> lock = w

\* Ops wait in the batch only under the lock and never while records apply,
\* and a holder has sealed the file's end.
QuietInv ==
  /\ lock = NoWriter => batch = <<>>
  /\ lock # NoWriter => torn = <<>>
  /\ \A w \in Writer : pc[w] \in {"catchup", "edges", "advance"} => batch = <<>>

\* The history variable runs the journal and the batch through the applier.
HistoryInv ==
  /\ Len(replayed) = Len(journal) + Len(batch) + 1
  /\ replayed[1] = EmptyGraph
  /\ \A i \in 1 .. Len(journal) + Len(batch) :
       replayed[i + 1] = ApplyOp(replayed[i], (journal \o batch)[i])

\* How far the record past the cursor is, where the holder stands.
StandInv ==
  \A w \in Writer :
    /\ pc[w] = "edges" => /\ cursor < Len(journal)
                          /\ NextOp.body.verb = "extend"
                          /\ AddEdges(graph, edgesDue, NextOp.ts) = replayed[cursor + 2]
    /\ pc[w] = "advance" => cursor < Len(journal) /\ graph = replayed[cursor + 2]
    /\ pc[w] \in {"ready", "append"} => cursor = Len(journal) /\ graph = replayed[cursor + 1]

IInv == TypeOK /\ LockInv /\ QuietInv /\ HistoryInv /\ StandInv /\ LiveIsReplay

-----------------------------------------------------------------------------
(* The initial state. *)

\* The invariant holds at the start.
LEMMA InitInvariant == Init => IInv
<1>. SUFFICES ASSUME Init PROVE IInv
  OBVIOUS
<1>1. TypeOK
  BY EmptyGraphType, WriterAssumption DEF Init, TypeOK, PC, WindowKind, Time
<1>2. LockInv /\ QuietInv /\ StandInv
  BY WriterAssumption DEF Init, LockInv, QuietInv, StandInv, Held, PC
<1>3. HistoryInv /\ LiveIsReplay
  BY DEF Init, HistoryInv, LiveIsReplay, Boundaries
<1>. QED
  BY <1>1, <1>2, <1>3 DEF IInv

-----------------------------------------------------------------------------
(* Facts every step uses. *)

\* Lengths, places and elements of the sequences.
LEMMA Lengths ==
  ASSUME IInv
  PROVE  /\ Len(journal) \in Nat /\ Len(torn) \in Nat /\ Len(batch) \in Nat
         /\ Len(replayed) \in Nat /\ cursor \in Nat
         /\ cursor < Len(journal) => cursor + 1 \in 1 .. Len(journal)
         /\ \A i \in 1 .. Len(replayed) : replayed[i] \in Graph
         /\ \A i \in 1 .. Len(journal) : journal[i] \in Op
         /\ cursor < Len(journal) => NextOp \in Op
BY DEF IInv, TypeOK, NextOp

\* The record after the cursor takes the replay one graph further.
LEMMA NextReplayed ==
  ASSUME IInv, cursor < Len(journal)
  PROVE  /\ replayed[cursor + 1] \in Graph
         /\ replayed[cursor + 2] = ApplyOp(replayed[cursor + 1], NextOp)
<1>1. cursor + 1 \in 1 .. Len(journal) + Len(batch) /\ cursor + 1 \in 1 .. Len(replayed)
  BY Lengths DEF IInv, HistoryInv
<1>2. (journal \o batch)[cursor + 1] = NextOp
  BY <1>1, Lengths, ConcatProperties DEF IInv, TypeOK, NextOp
<1>3. replayed[(cursor + 1) + 1] = ApplyOp(replayed[cursor + 1], (journal \o batch)[cursor + 1])
  BY <1>1 DEF IInv, HistoryInv
<1>4. (cursor + 1) + 1 = cursor + 2
  BY Lengths
<1>. QED
  BY <1>1, <1>2, <1>3, <1>4, Lengths

\* Only the writer that holds the lock stands past the opening.
LEMMA OthersOutside ==
  ASSUME IInv, NEW w \in Writer, pc[w] \in Held
  PROVE  lock = w /\ \A v \in Writer : v # w => pc[v] \in {"idle", "opening"}
BY DEF IInv, LockInv, TypeOK, Held

-----------------------------------------------------------------------------
(* The steps. *)

\* Ending a window, whatever ended it.
LEMMA ReleaseStep ==
  ASSUME IInv, NEW w \in Writer, lock = w, Release(w),
         journal' = journal, cursor' = cursor, graph' = graph,
         torn' \in Seq(Op), clock' \in Time, faults' \in Nat
  PROVE  IInv'
<1>. DEFINE kept == Len(journal) + 1
<1>1. /\ replayed' \in Seq(Graph)
      /\ Len(replayed') = kept
      /\ \A i \in 1 .. kept : replayed'[i] = replayed[i]
  <2>1. kept \in Nat /\ kept <= Len(replayed) /\ \A i \in 1 .. kept : replayed[i] \in Graph
    <3>1. Len(replayed) = Len(journal) + Len(batch) + 1
      BY DEF IInv, HistoryInv
    <3>2. kept \in Nat /\ kept <= Len(replayed)
      BY <3>1, Lengths
    <3>. QED
      BY <3>2, Lengths
  <2>2. replayed' = SubSeq(replayed, 1, kept)
    BY DEF Release
  <2>. QED
    BY <2>1, <2>2, SubSeqProperties
<1>2. TypeOK'
  BY <1>1 DEF IInv, TypeOK, Release, PC, WindowKind, Time
<1>3. LockInv'
  BY WriterAssumption, OthersOutside DEF IInv, LockInv, TypeOK, Release, Held, PC
<1>4. QuietInv'
  BY DEF IInv, QuietInv, Release
<1>5. HistoryInv'
  <2>1. batch' = <<>> /\ Len(batch') = 0
    BY DEF Release
  <2>2. Len(replayed') = Len(journal') + Len(batch') + 1 /\ replayed'[1] = EmptyGraph
    BY <1>1, <2>1, Lengths DEF IInv, HistoryInv
  <2>3. ASSUME NEW i \in 1 .. Len(journal)
        PROVE  replayed'[i + 1] = ApplyOp(replayed'[i], (journal' \o batch')[i])
    <3>1. (journal \o batch)[i] = journal[i] /\ (journal' \o batch')[i] = journal[i]
      <4>1. journal \in Seq(Op) /\ batch \in Seq(Op) /\ i \in 1 .. Len(journal) + Len(batch)
        BY Lengths DEF IInv, TypeOK
      <4>2. (journal \o batch)[i] = journal[i]
        BY <4>1, ConcatProperties
      <4>3. journal' \o batch' = journal
        BY <2>1, <4>1, ConcatEmptySeq
      <4>. QED
        BY <4>2, <4>3
    <3>2. replayed[i + 1] = ApplyOp(replayed[i], (journal \o batch)[i])
      <4>1. i \in 1 .. Len(journal) + Len(batch)
        BY Lengths
      <4>. QED
        BY <4>1 DEF IInv, HistoryInv
    <3>3. i \in 1 .. kept /\ i + 1 \in 1 .. kept
      BY Lengths
    <3>. QED
      BY <1>1, <3>1, <3>2, <3>3
  <2>4. Len(journal') + Len(batch') = Len(journal)
    BY <2>1, Lengths
  <2>. QED
    BY <2>2, <2>3, <2>4 DEF HistoryInv
<1>6. StandInv'
  BY <1>3 DEF IInv, LockInv, TypeOK, StandInv, Release, Held, PC
<1>7. LiveIsReplay'
  <2>1. cursor + 1 \in 1 .. kept /\ cursor < Len(journal) => cursor + 2 \in 1 .. kept
    BY Lengths DEF IInv, LiveIsReplay
  <2>2. replayed'[cursor + 1] = replayed[cursor + 1]
    BY <1>1, Lengths DEF IInv, LiveIsReplay
  <2>3. cursor < Len(journal) => replayed'[cursor + 2] = replayed[cursor + 2]
    BY <1>1, Lengths
  <2>. QED
    BY <2>2, <2>3 DEF IInv, LiveIsReplay, Boundaries, NextOp
<1>. QED
  BY <1>2, <1>3, <1>4, <1>5, <1>6, <1>7 DEF IInv

\* A step that leaves the journal, the batch, the db and the history alone
\* keeps what is said of them.
LEMMA DbUntouched ==
  ASSUME IInv, UNCHANGED <<journal, batch, cursor, graph, replayed>>
  PROVE  HistoryInv' /\ LiveIsReplay'
BY DEF IInv, HistoryInv, LiveIsReplay, Boundaries, NextOp

\* A verb opens its window.
LEMMA OpenWindowStep ==
  ASSUME IInv, NEW w \in Writer, NEW kind \in Windows, OpenWindow(w, kind)
  PROVE  IInv'
<1>1. TypeOK'
  BY WindowsAssumption DEF IInv, TypeOK, OpenWindow, file, db, holder, PC, WindowKind, Time
<1>2. LockInv' /\ QuietInv' /\ StandInv'
  BY DEF IInv, TypeOK, LockInv, QuietInv, StandInv, OpenWindow, file, db, holder, Held, PC, NextOp
<1>3. HistoryInv' /\ LiveIsReplay'
  BY DbUntouched DEF OpenWindow, file, db, holder
<1>. QED
  BY <1>1, <1>2, <1>3 DEF IInv

\* The lock is taken and what was torn is sealed off: the heal begins.
LEMMA OpenWriterStep ==
  ASSUME IInv, NEW w \in Writer, OpenWriter(w)
  PROVE  IInv'
<1>1. TypeOK'
  BY DEF IInv, TypeOK, OpenWriter, db, holder, PC
<1>2. LockInv' /\ QuietInv' /\ StandInv'
  BY WriterAssumption
  DEF IInv, TypeOK, LockInv, QuietInv, StandInv, OpenWriter, db, holder, Held, PC, NextOp
<1>3. HistoryInv' /\ LiveIsReplay'
  BY DbUntouched DEF OpenWriter, db, holder
<1>. QED
  BY <1>1, <1>2, <1>3 DEF IInv

\* A window is left with nothing to land.
LEMMA LeaveStep ==
  ASSUME IInv, NEW w \in Writer, Leave(w)
  PROVE  IInv'
<1>1. lock = w
  BY OthersOutside DEF Leave, Held, PC
<1>. QED
  BY <1>1, ReleaseStep DEF Leave, file, db, IInv, TypeOK

\* A unit opens.
LEMMA OpenUnitStep ==
  ASSUME IInv, NEW w \in Writer, OpenUnit(w)
  PROVE  IInv'
<1>1. TypeOK'
  BY DEF IInv, TypeOK, OpenUnit, file, db, holder, WindowKind
<1>2. LockInv' /\ QuietInv' /\ StandInv'
  BY DEF IInv, LockInv, QuietInv, StandInv, OpenUnit, file, db, holder, Held, PC, NextOp
<1>3. HistoryInv' /\ LiveIsReplay'
  BY DbUntouched DEF OpenUnit, file, db, holder
<1>. QED
  BY <1>1, <1>2, <1>3 DEF IInv

\* A record refuses.
LEMMA ApplyRefusedStep ==
  ASSUME IInv, NEW w \in Writer, ApplyRefused(w)
  PROVE  IInv'
<1>1. lock = w
  BY OthersOutside DEF ApplyRefused, Held, PC
<1>. QED
  BY <1>1, ReleaseStep DEF ApplyRefused, file, db, IInv, TypeOK

\* A window closes over what it landed.
LEMMA CloseLandedStep ==
  ASSUME IInv, NEW w \in Writer, CloseLanded(w)
  PROVE  IInv'
<1>1. lock = w
  BY OthersOutside DEF CloseLanded, Held, PC
<1>. QED
  BY <1>1, ReleaseStep DEF CloseLanded, file, db, IInv, TypeOK

\* A process dies.
LEMMA CrashStep ==
  ASSUME IInv, NEW w \in Writer, Crash(w)
  PROVE  IInv'
<1>1. torn' \in Seq(Op)
  <2>1. CASE UNCHANGED torn
    BY <2>1 DEF IInv, TypeOK
  <2>2. ASSUME NEW i \in 1 .. Len(batch) - 1, torn' = SubSeq(batch, 1, i)
        PROVE  torn' \in Seq(Op)
    <3>1. \A j \in 1 .. i : batch[j] \in Op
      BY Lengths DEF IInv, TypeOK
    <3>. QED
      BY <2>2, <3>1, SubSeqProperties
  <2>. QED
    BY <2>1, <2>2 DEF Crash
<1>2. clock' \in Time /\ faults' \in Nat
  BY DEF Crash, IInv, TypeOK
<1>. QED
  BY <1>1, <1>2, ReleaseStep DEF Crash, db

\* Time passes.
LEMMA TickStep ==
  ASSUME IInv, Tick
  PROVE  IInv'
<1>1. TypeOK'
  BY DEF IInv, TypeOK, Tick, file, db, holder, Time
<1>2. LockInv' /\ QuietInv' /\ StandInv'
  BY DEF IInv, LockInv, QuietInv, StandInv, Tick, file, db, holder, Held, PC, NextOp
<1>3. HistoryInv' /\ LiveIsReplay'
  BY DbUntouched DEF Tick, file, db, holder
<1>. QED
  BY <1>1, <1>2, <1>3 DEF IInv

\* A heal is done.
LEMMA CaughtUpStep ==
  ASSUME IInv, NEW w \in Writer, CaughtUp(w)
  PROVE  IInv'
<1>1. TypeOK'
  BY DEF IInv, TypeOK, CaughtUp, file, db, holder, PC
<1>2. LockInv' /\ QuietInv'
  BY DEF IInv, TypeOK, LockInv, QuietInv, CaughtUp, file, db, holder, Held, PC
<1>3. StandInv'
  <2>1. graph = replayed[cursor + 1]
    BY Lengths DEF CaughtUp, IInv, LiveIsReplay, Boundaries
  <2>. QED
    BY <2>1 DEF CaughtUp, IInv, TypeOK, StandInv, file, db, holder, NextOp
<1>4. HistoryInv' /\ LiveIsReplay'
  BY DbUntouched DEF CaughtUp, file, db, holder
<1>. QED
  BY <1>1, <1>2, <1>3, <1>4 DEF IInv

\* A unit closes: what it planned is to be appended.
LEMMA CloseUnitStep ==
  ASSUME IInv, NEW w \in Writer, CloseUnit(w)
  PROVE  IInv'
<1>1. TypeOK'
  BY DEF IInv, TypeOK, CloseUnit, file, db, holder, PC
<1>2. LockInv' /\ QuietInv' /\ StandInv'
  BY DEF IInv, TypeOK, LockInv, QuietInv, StandInv, CloseUnit, file, db, holder, Held, PC, NextOp
<1>3. HistoryInv' /\ LiveIsReplay'
  BY DbUntouched DEF CloseUnit, file, db, holder
<1>. QED
  BY <1>1, <1>2, <1>3 DEF IInv

\* Applying the record after the cursor, from wherever a crash left it: the
\* first write leaves the db on a boundary, and what an extend still owes
\* brings it to the next replayed graph.
LEMMA ApplyWriteStep ==
  ASSUME IInv, NEW w \in Writer, ApplyWrite(w)
  PROVE  IInv'
<1>. DEFINE before == replayed[cursor + 1]
            after == replayed[cursor + 2]
            part == ExtendNodes(before, NextOp.body, NextOp.ts)
            extends == NextOp.body.verb = "extend"
<1>1. /\ cursor < Len(journal) /\ NextOp \in Op /\ NextOp' = NextOp
      /\ before \in Graph /\ after = ApplyOp(before, NextOp) /\ after \in Graph
  <2>1. cursor < Len(journal) /\ NextOp' = NextOp
    BY DEF ApplyWrite, NextOp, file
  <2>. QED
    BY <2>1, Lengths, NextReplayed, ApplyOpType
<1>2. graph \in {before, after} \/ (extends /\ graph = part)
  BY <1>1 DEF IInv, LiveIsReplay, Boundaries
<1>3. /\ extends => /\ graph' \in {part, after}
                    /\ graph' \in Graph
                    /\ edgesDue' \in SUBSET EdgeId
                    /\ AddEdges(graph', edgesDue', NextOp.ts) = after
                    /\ edgesDue' = {} => graph' = after
      /\ ~extends => graph' = after /\ edgesDue' = edgesDue
  <2>1. CASE extends
    <3>1. NextOp.body \in Wires /\ NextOp.ts \in Time
      BY <1>1, <2>1, BodyByVerb
    <3>2. after = Extend(before, NextOp.body, NextOp.ts)
      BY <1>1, <2>1, ApplyByVerb
    <3>3. graph \in {before, part, Extend(before, NextOp.body, NextOp.ts)}
      BY <1>2, <3>2
    <3>4. graph' = ExtendNodes(graph, NextOp.body, NextOp.ts)
          /\ edgesDue' = AbsentEdges(graph, NextOp.body)
      BY <2>1 DEF ApplyWrite
    <3>5. /\ graph' \in {part, after}
          /\ edgesDue' \in SUBSET EdgeId
          /\ AddEdges(graph', edgesDue', NextOp.ts) = after
          /\ graph \in Graph
      BY <1>1, <3>1, <3>2, <3>3, <3>4, ExtendResumes
    <3>6. graph' \in Graph
      BY <3>1, <3>4, <3>5, ExtendNodesType
    <3>7. edgesDue' = {} => graph' = after
      BY <3>1, <3>5, <3>6, AddNothing
    <3>. QED
      BY <2>1, <3>5, <3>6, <3>7
  <2>2. CASE ~extends
    <3>1. graph' = ApplyOp(graph, NextOp) /\ edgesDue' = edgesDue
      BY <2>2 DEF ApplyWrite
    <3>2. ApplyOp(after, NextOp) = after
      BY <1>1, <2>2, SingleWriteIdempotent
    <3>. QED
      BY <1>1, <1>2, <2>2, <3>1, <3>2
  <2>. QED
    BY <2>1, <2>2
<1>4. /\ pc[w] = "catchup" /\ pc' \in [Writer -> PC]
      /\ pc'[w] \in {"edges", "advance"}
      /\ pc'[w] = "edges" => extends
      /\ pc'[w] = "advance" /\ extends => edgesDue' = {}
      /\ \A v \in Writer : v # w => pc'[v] = pc[v]
  BY DEF ApplyWrite, IInv, TypeOK, PC
<1>5. UNCHANGED <<journal, torn, cursor, lock, window, clk, batch, clock, faults, replayed>>
  BY DEF ApplyWrite, file
<1>6. TypeOK'
  BY <1>1, <1>3, <1>4, <1>5 DEF IInv, TypeOK
<1>7. LockInv' /\ QuietInv'
  BY <1>4, <1>5 DEF IInv, LockInv, QuietInv, Held, PC
<1>8. HistoryInv'
  BY <1>5 DEF IInv, HistoryInv
<1>9. StandInv'
  <2>1. \A v \in Writer : v # w => pc'[v] \in {"idle", "opening"}
    BY <1>4, OthersOutside DEF Held, PC
  <2>2. replayed'[cursor' + 2] = after
    BY <1>5
  <2>. QED
    BY <1>1, <1>3, <1>4, <1>5, <2>1, <2>2 DEF StandInv
<1>10. LiveIsReplay'
  BY <1>1, <1>3, <1>5 DEF IInv, LiveIsReplay, Boundaries
<1>. QED
  BY <1>6, <1>7, <1>8, <1>9, <1>10 DEF IInv

\* The second storage write of an extend.
LEMMA ApplyEdgesStep ==
  ASSUME IInv, NEW w \in Writer, ApplyEdges(w)
  PROVE  IInv'
<1>1. /\ cursor < Len(journal) /\ NextOp \in Op /\ NextOp' = NextOp
      /\ graph' = replayed[cursor + 2] /\ replayed[cursor + 2] \in Graph
  <2>1. cursor < Len(journal) /\ graph' = replayed[cursor + 2] /\ NextOp' = NextOp
    BY DEF ApplyEdges, IInv, StandInv, NextOp, file
  <2>. QED
    BY <2>1, Lengths, NextReplayed, ApplyOpType
<1>2. UNCHANGED <<journal, torn, cursor, lock, window, clk, batch, clock, faults, replayed>>
  BY DEF ApplyEdges, file
<1>3. /\ pc[w] = "edges" /\ pc' = [pc EXCEPT ![w] = "advance"] /\ edgesDue' = {}
  BY DEF ApplyEdges
<1>4. TypeOK'
  BY <1>1, <1>2, <1>3 DEF IInv, TypeOK, PC
<1>5. LockInv' /\ QuietInv'
  BY <1>2, <1>3 DEF IInv, TypeOK, LockInv, QuietInv, Held, PC
<1>6. HistoryInv'
  BY <1>2 DEF IInv, HistoryInv
<1>7. StandInv'
  <2>1. \A v \in Writer : v # w => pc[v] \in {"idle", "opening"}
    BY <1>3, OthersOutside DEF Held, PC
  <2>. QED
    BY <1>1, <1>2, <1>3, <2>1 DEF IInv, TypeOK, StandInv
<1>8. LiveIsReplay'
  BY <1>1, <1>2 DEF IInv, LiveIsReplay, Boundaries
<1>. QED
  BY <1>4, <1>5, <1>6, <1>7, <1>8 DEF IInv

\* The cursor advances.
LEMMA AdvanceStep ==
  ASSUME IInv, NEW w \in Writer, Advance(w)
  PROVE  IInv'
<1>1. /\ cursor < Len(journal) /\ graph = replayed[cursor + 2]
      /\ pc[w] = "advance" /\ pc' = [pc EXCEPT ![w] = "catchup"]
      /\ cursor' = cursor + 1
  BY DEF Advance, IInv, StandInv
<1>2. UNCHANGED <<journal, torn, graph, lock, window, clk, batch, edgesDue, clock, faults, replayed>>
  BY DEF Advance, file, holder
<1>3. TypeOK'
  BY <1>1, <1>2 DEF IInv, TypeOK, PC
<1>4. LockInv' /\ QuietInv'
  BY <1>1, <1>2 DEF IInv, TypeOK, LockInv, QuietInv, Held, PC
<1>5. HistoryInv'
  BY <1>2 DEF IInv, HistoryInv
<1>6. StandInv'
  <2>1. \A v \in Writer : v # w => pc[v] \in {"idle", "opening"}
    BY <1>1, OthersOutside DEF Held, PC
  <2>. QED
    BY <1>1, <1>2, <2>1 DEF IInv, TypeOK, StandInv
<1>7. LiveIsReplay'
  <2>1. cursor' + 1 = cursor + 2 /\ cursor' <= Len(journal')
    BY <1>1, <1>2, Lengths
  <2>. QED
    BY <1>1, <1>2, <2>1 DEF LiveIsReplay, Boundaries
<1>. QED
  BY <1>3, <1>4, <1>5, <1>6, <1>7 DEF IInv

\* A verb plans: an op to append, or one more of its unit.
LEMMA PlanStep ==
  ASSUME IInv, NEW w \in Writer, NEW b \in Bodies, Plan(w, b)
  PROVE  IInv'
<1>. DEFINE op == [body |-> Planned(graph, b),
                   ts   |-> IF window[w] = "call" THEN clk[w] ELSE clock]
            last == replayed[Len(replayed)]
            n == Len(journal) + Len(batch)
<1>1. op \in Op
  <2>1. Planned(graph, b) \in Body
    BY BodiesAssumption, PlannedType DEF IInv, TypeOK
  <2>. QED
    BY <2>1 DEF IInv, TypeOK, Op
<1>2. Len(replayed) = n + 1 /\ n \in Nat /\ last \in Graph
  BY Lengths DEF IInv, HistoryInv
<1>3. /\ pc[w] = "ready"
      /\ batch' = Append(batch, op)
      /\ replayed' = Append(replayed, ApplyOp(last, op))
      /\ pc' = [pc EXCEPT ![w] = IF Buffering(w) THEN "ready" ELSE "append"]
  BY DEF Plan
<1>4. UNCHANGED <<journal, torn, cursor, graph, lock, window, clk, edgesDue, clock, faults>>
  BY DEF Plan, file, db
<1>5. ApplyOp(last, op) \in Graph
  BY <1>1, <1>2, ApplyOpType
<1>6. /\ replayed' \in Seq(Graph)
      /\ Len(replayed') = n + 2
      /\ \A i \in 1 .. n + 1 : replayed'[i] = replayed[i]
      /\ replayed'[n + 2] = ApplyOp(last, op)
  BY <1>2, <1>3, <1>5, AppendProperties DEF IInv, TypeOK
<1>7. /\ batch' \in Seq(Op) /\ Len(batch') = Len(batch) + 1
      /\ \A i \in 1 .. Len(batch) : batch'[i] = batch[i]
      /\ batch'[Len(batch) + 1] = op
  BY <1>1, <1>3, AppendProperties DEF IInv, TypeOK
<1>8. TypeOK'
  BY <1>3, <1>4, <1>6, <1>7 DEF IInv, TypeOK, PC
<1>9. lock = w /\ \A v \in Writer : v # w => pc[v] \in {"idle", "opening"}
  BY <1>3, OthersOutside DEF Held, PC
<1>10. LockInv' /\ QuietInv'
  BY <1>3, <1>4, <1>9, WriterAssumption DEF IInv, TypeOK, LockInv, QuietInv, Held, PC
<1>11. HistoryInv'
  <2>1. Len(replayed') = Len(journal') + Len(batch') + 1
    BY <1>2, <1>4, <1>6, <1>7, Lengths
  <2>2. replayed'[1] = EmptyGraph
    BY <1>2, <1>6 DEF IInv, HistoryInv
  <2>3. ASSUME NEW i \in 1 .. n
        PROVE  replayed'[i + 1] = ApplyOp(replayed'[i], (journal' \o batch')[i])
    <3>1. (journal' \o batch')[i] = (journal \o batch)[i]
      <4>1. (journal \o batch)[i] =
              IF i <= Len(journal) THEN journal[i] ELSE batch[i - Len(journal)]
        BY Lengths, ConcatProperties DEF IInv, TypeOK
      <4>2. i \in 1 .. Len(journal) + Len(batch')
        BY <1>7, Lengths
      <4>3. (journal \o batch')[i] =
              IF i <= Len(journal) THEN journal[i] ELSE batch'[i - Len(journal)]
        BY <1>7, <4>2, Lengths, ConcatProperties DEF IInv, TypeOK
      <4>4. i > Len(journal) => i - Len(journal) \in 1 .. Len(batch)
        BY Lengths
      <4>0. journal' \o batch' = journal \o batch'
        BY <1>4
      <4>5. CASE i <= Len(journal)
        BY <4>0, <4>1, <4>3, <4>5
      <4>6. CASE i > Len(journal)
        <5>1. batch'[i - Len(journal)] = batch[i - Len(journal)]
          BY <1>7, <4>4, <4>6
        <5>2. ~ (i <= Len(journal))
          BY <4>6, Lengths
        <5>3. (journal \o batch)[i] = batch[i - Len(journal)]
          BY <4>1, <5>2
        <5>4. (journal \o batch')[i] = batch'[i - Len(journal)]
          BY <4>3, <5>2
        <5>. QED
          BY <4>0, <5>1, <5>3, <5>4
      <4>7. i <= Len(journal) \/ i > Len(journal)
        BY Lengths
      <4>. QED
        BY <4>5, <4>6, <4>7
    <3>2. replayed[i + 1] = ApplyOp(replayed[i], (journal \o batch)[i])
      BY DEF IInv, HistoryInv
    <3>. QED
      BY <1>2, <1>6, <3>1, <3>2
  <2>4. replayed'[(n + 1) + 1] = ApplyOp(replayed'[n + 1], (journal' \o batch')[n + 1])
    <3>1. (journal' \o batch')[n + 1] = op
      BY <1>4, <1>7, Lengths, ConcatProperties DEF IInv, TypeOK
    <3>2. (n + 1) + 1 = n + 2 /\ replayed'[n + 1] = last
      BY <1>2, <1>6
    <3>. QED
      BY <1>6, <3>1, <3>2
  <2>5. Len(journal') + Len(batch') = n + 1
    BY <1>4, <1>7, Lengths
  <2>6. \A i \in 1 .. n + 1 : i \in 1 .. n \/ i = n + 1
    BY <1>2
  <2>7. \A i \in 1 .. n + 1 : replayed'[i + 1] = ApplyOp(replayed'[i], (journal' \o batch')[i])
    BY <2>3, <2>4, <2>6
  <2>. QED
    BY <2>1, <2>2, <2>5, <2>7 DEF HistoryInv
<1>12. cursor = Len(journal) /\ graph = replayed[cursor + 1] /\ cursor + 1 \in 1 .. n + 1
  BY <1>3, Lengths DEF IInv, StandInv
<1>13. StandInv'
  BY <1>3, <1>4, <1>6, <1>9, <1>12 DEF IInv, TypeOK, StandInv
<1>14. LiveIsReplay'
  <2>1. graph' = replayed'[cursor' + 1]
    BY <1>4, <1>6, <1>12
  <2>2. cursor' <= Len(journal')
    BY <1>4, <1>12, Lengths
  <2>. QED
    BY <2>1, <2>2 DEF LiveIsReplay, Boundaries
<1>. QED
  BY <1>8, <1>10, <1>11, <1>13, <1>14 DEF IInv

\* What is planned is appended.
LEMMA AppendOpsStep ==
  ASSUME IInv, NEW w \in Writer, AppendOps(w)
  PROVE  IInv'
<1>1. lock = w /\ \A v \in Writer : v # w => pc[v] \in {"idle", "opening"}
  BY OthersOutside DEF AppendOps, Held, PC
<1>2. torn = <<>>
  BY <1>1, WriterAssumption DEF IInv, QuietInv
<1>3. journal' = journal \o batch /\ batch' = <<>> /\ torn' = <<>>
  <2>1. journal \o torn = journal
    BY <1>2, ConcatEmptySeq DEF IInv, TypeOK
  <2>. QED
    BY <2>1 DEF AppendOps
<1>4. /\ pc[w] = "append" /\ pc' = [pc EXCEPT ![w] = "catchup"]
      /\ window' = [window EXCEPT ![w] =
                      IF window[w] \in {"plain", "nested"} THEN "plain" ELSE "closing"]
  BY DEF AppendOps
<1>5. UNCHANGED <<cursor, graph, lock, clk, edgesDue, clock, faults, replayed>>
  BY DEF AppendOps, db
<1>6. journal' \in Seq(Op) /\ Len(journal') = Len(journal) + Len(batch)
  BY <1>3, ConcatProperties DEF IInv, TypeOK
<1>7. TypeOK'
  BY <1>3, <1>4, <1>5, <1>6 DEF IInv, TypeOK, PC, WindowKind
<1>8. LockInv' /\ QuietInv'
  BY <1>1, <1>3, <1>4, <1>5 DEF IInv, TypeOK, LockInv, QuietInv, Held, PC
<1>9. HistoryInv'
  <2>1. journal' \o batch' = journal \o batch /\ Len(batch') = 0
    BY <1>3, <1>6, ConcatEmptySeq
  <2>. QED
    BY <1>5, <1>6, <2>1, Lengths DEF IInv, HistoryInv
<1>10. StandInv'
  BY <1>1, <1>4 DEF IInv, TypeOK, StandInv
<1>11. LiveIsReplay'
  <2>1. cursor = Len(journal) /\ graph = replayed[cursor + 1]
    BY <1>4 DEF IInv, StandInv
  <2>. QED
    BY <1>5, <1>6, <2>1, Lengths DEF LiveIsReplay, Boundaries
<1>. QED
  BY <1>7, <1>8, <1>9, <1>10, <1>11 DEF IInv

-----------------------------------------------------------------------------
(* The results. *)

\* Every step of a writer, of the faults and of time keeps the invariant.
LEMMA NextInvariant == IInv /\ [Next]_vars => IInv'
<1>. SUFFICES ASSUME IInv, [Next]_vars PROVE IInv'
  OBVIOUS
<1>1. ASSUME NEW w \in Writer, WriterStep(w) PROVE IInv'
  BY <1>1, ApplyWriteStep, ApplyEdgesStep, ApplyRefusedStep, AdvanceStep, CaughtUpStep,
     CloseLandedStep, CloseUnitStep, AppendOpsStep, LeaveStep DEF WriterStep
<1>2. CASE UNCHANGED vars
  BY <1>2 DEF IInv, TypeOK, LockInv, QuietInv, HistoryInv, StandInv, LiveIsReplay,
              Boundaries, NextOp, vars
<1>. QED
  BY <1>1, <1>2, OpenWindowStep, OpenWriterStep, OpenUnitStep, PlanStep, CrashStep, TickStep
  DEF Next

\* The inductive invariant holds of the write order.
THEOREM Invariant == Spec => []IInv
BY InitInvariant, NextInvariant, PTL DEF Spec

\* The write order keeps its types.
THEOREM TypeCorrect == Spec => []TypeOK
<1>1. IInv => TypeOK
  BY DEF IInv
<1>. QED
  BY Invariant, <1>1, PTL

\* Whatever writers interleave and whatever crashes, the db is the replay of
\* its journal up to the cursor, or has the one record past it under way.
THEOREM LiveIsReplayHolds == Spec => []LiveIsReplay
<1>1. IInv => LiveIsReplay
  BY DEF IInv
<1>. QED
  BY Invariant, <1>1, PTL

\* A verb that may plan stands on the whole journal: no record of it, whoever
\* landed it and whoever died since, is missing from the db it reads.
THEOREM PlanSeesJournalHolds == Spec => []PlanSeesJournal
<1>1. IInv => PlanSeesJournal
  BY DEF IInv, StandInv, PlanSeesJournal
<1>. QED
  BY Invariant, <1>1, PTL

\* The journal changes by an append of the holder's whole batch, or not at all.
LEMMA JournalGrows ==
  ASSUME IInv, [Next]_vars, journal' # journal
  PROVE  \E w \in Writer : pc[w] = "append" /\ journal' = journal \o batch
<1>1. ASSUME NEW w \in Writer, AppendOps(w)
      PROVE  pc[w] = "append" /\ journal' = journal \o batch
  <2>1. pc[w] = "append" /\ lock = w
    BY <1>1, OthersOutside DEF AppendOps, Held, PC
  <2>2. torn = <<>>
    BY <2>1, WriterAssumption DEF IInv, QuietInv
  <2>3. journal \o torn = journal
    BY <2>2, ConcatEmptySeq DEF IInv, TypeOK
  <2>. QED
    BY <1>1, <2>1, <2>3 DEF AppendOps
<1>2. ASSUME NEW w \in Writer, WriterStep(w), ~AppendOps(w) PROVE journal' = journal
  BY <1>2 DEF WriterStep, ApplyWrite, ApplyEdges, ApplyRefused, Advance, CaughtUp,
              CloseLanded, CloseUnit, Leave, file
<1>3. ASSUME NEW w \in Writer,
             \/ \E kind \in Windows : OpenWindow(w, kind)
             \/ OpenWriter(w)
             \/ OpenUnit(w)
             \/ \E b \in Bodies : Plan(w, b)
             \/ Crash(w)
      PROVE  journal' = journal
  BY <1>3 DEF OpenWindow, OpenWriter, OpenUnit, Plan, Crash, file
<1>4. CASE Tick \/ UNCHANGED vars
  BY <1>4 DEF Tick, file, vars
<1>. QED
  BY <1>1, <1>2, <1>3, <1>4 DEF Next

\* The journal changes by whole batches only: whatever a crash cut short of an
\* append is sealed off before the next one.
THEOREM WholeOrNoneHolds == Spec => WholeOrNone
<1>. DEFINE Whole == journal' # journal =>
                       \E w \in Writer : pc[w] = "append" /\ journal' = journal \o batch
<1>1. ASSUME IInv, [Next]_vars PROVE [Whole]_vars
  BY <1>1, JournalGrows
<1>. QED
  BY Invariant, <1>1, PTL DEF Spec, WholeOrNone

-----------------------------------------------------------------------------
(* The history variable is the replay. *)

\* The history variable at the landed records is the replay of each prefix.
LEMMA HistoryReplays ==
  ASSUME IInv
  PROVE  \A i \in 0 .. Len(journal) : replayed[i + 1] = ReplayOf(SubSeq(journal, 1, i))
<1>1. ASSUME NEW i \in 1 .. Len(journal)
      PROVE  replayed[i + 1] = ApplyOp(replayed[i], journal[i])
  <2>1. (journal \o batch)[i] = journal[i]
    BY Lengths, ConcatProperties DEF IInv, TypeOK
  <2>2. i \in 1 .. Len(journal) + Len(batch)
    BY Lengths
  <2>. QED
    BY <2>1, <2>2 DEF IInv, HistoryInv
<1>2. EmptyGraph \in Graph /\ journal \in Seq(Op) /\ replayed[1] = EmptyGraph
  BY EmptyGraphType DEF IInv, TypeOK, HistoryInv
<1>3. \A i \in 0 .. Len(journal) : FoldLeft(ApplyOp, EmptyGraph, SubSeq(journal, 1, i)) = replayed[i + 1]
  BY <1>1, <1>2, PrefixReplays
<1>. QED
  BY <1>3 DEF ReplayOf

\* In every reachable state the history variable is the replay of each prefix of
\* the journal, so that what is proved of it is proved of replay_journal.
THEOREM ReplayedIsReplayHolds == Spec => []ReplayedIsReplay
<1>1. IInv => ReplayedIsReplay
  BY HistoryReplays DEF ReplayedIsReplay
<1>. QED
  BY Invariant, <1>1, PTL

-----------------------------------------------------------------------------
(* The write order implements serial gestures. *)

\* The serial specification's operators on the store are this module's.
LEMMA SameStore ==
  /\ Serial!EmptyGraph = EmptyGraph
  /\ \A g, s : Serial!FoldLeft(Serial!ApplyOp, g, s) = FoldLeft(ApplyOp, g, s)
  /\ \A g, op : Serial!PlannedOn(g, op) <=>
       \E b \in Bodies : ~PlanRefuses(g, b) /\ ~PlanIsEmpty(g, b) /\ op.body = Planned(g, b)
<1>1. Serial!EmptyGraph = EmptyGraph
  BY DEF Serial!EmptyGraph, EmptyGraph
<1>2. ASSUME NEW g, NEW s
      PROVE  Serial!FoldLeft(Serial!ApplyOp, g, s) = FoldLeft(ApplyOp, g, s)
  BY DEF Serial!FoldLeft, Serial!MapThenFoldSet, Serial!ApplyOp, Serial!Max, Serial!Extend, Serial!ExtendNodes,
     Serial!AddNodes, Serial!AddEdges, Serial!StampedNode, Serial!AbsentNodes, Serial!AbsentEdges, Serial!Wired,
     Serial!UpdateNode, Serial!DeleteNodes,
     FoldLeft, MapThenFoldSet, ApplyOp, Max, Extend, ExtendNodes,
     AddNodes, AddEdges, StampedNode, AbsentNodes, AbsentEdges, Wired,
     UpdateNode, DeleteNodes
<1>3. ASSUME NEW g, NEW op
      PROVE  Serial!PlannedOn(g, op) <=>
       \E b \in Bodies : ~PlanRefuses(g, b) /\ ~PlanIsEmpty(g, b) /\ op.body = Planned(g, b)
  BY DEF Serial!PlannedOn, Serial!PlanRefuses, Serial!PlanIsEmpty, Serial!Planned, Serial!Mismatch, Serial!Delta,
     Serial!AbsentNodes, Serial!AbsentEdges, Serial!Wired,
     PlanRefuses, PlanIsEmpty, Planned, Mismatch, Delta, AbsentNodes, AbsentEdges, Wired
<1>. QED
  BY <1>1, <1>2, <1>3

\* What the holder has planned and not appended is planned against the replay
\* of the journal, and an append is never empty.
PlannedInv ==
  /\ \A i \in 1 .. Len(batch) : Serial!PlannedOn(ReplayOf(journal), batch[i])
  /\ \A w \in Writer : pc[w] = "append" => batch # <<>>

\* Dropping the batch, or leaving it, keeps it planned.
LEMMA PlannedKept ==
  ASSUME PlannedInv, journal' = journal, batch' \in {batch, <<>>},
         \A v \in Writer : pc'[v] = "append" => batch' # <<>>
  PROVE  PlannedInv'
<1>1. ReplayOf(journal)' = ReplayOf(journal)
  BY DEF ReplayOf
<1>2. Len(<<>>) = 0
  OBVIOUS
<1>3. ASSUME NEW i \in 1 .. Len(batch')
      PROVE  Serial!PlannedOn(ReplayOf(journal), batch'[i])
  BY <1>2 DEF PlannedInv
<1>4. ASSUME NEW i \in 1 .. Len(batch')
      PROVE  (Serial!PlannedOn(ReplayOf(journal), batch[i]))'
  BY <1>1, <1>3, SameStore DEF PlannedInv
<1>. QED
  BY <1>4 DEF PlannedInv

\* Ending a window drops what was not appended.
LEMMA PlannedReleased ==
  ASSUME IInv, PlannedInv, NEW w \in Writer, lock = w, Release(w), journal' = journal
  PROVE  PlannedInv'
<1>1. batch' = <<>> /\ pc' = [pc EXCEPT ![w] = "idle"]
  BY DEF Release
<1>2. pc[w] \in Held /\ pc \in [Writer -> PC]
  BY DEF IInv, LockInv, TypeOK
<1>3. \A v \in Writer : pc'[v] # "append"
  BY <1>1, <1>2, OthersOutside
<1>. QED
  BY <1>1, <1>3, PlannedKept

\* Every step keeps what is batched planned on the whole journal.
LEMMA PlannedStep ==
  ASSUME IInv, PlannedInv, [Next]_vars
  PROVE  PlannedInv'
<1>1. pc \in [Writer -> PC]
  BY DEF IInv, TypeOK
<1>2. ASSUME NEW w \in Writer, \/ ApplyRefused(w)
                               \/ CloseLanded(w)
                               \/ Leave(w)
                               \/ Crash(w)
      PROVE  PlannedInv'
  <2>1. Release(w) /\ journal' = journal
    BY <1>2 DEF ApplyRefused, CloseLanded, Leave, Crash, file
  <2>2. lock = w
    BY <1>2, OthersOutside DEF ApplyRefused, CloseLanded, Leave, Crash, Held, PC
  <2>. QED
    BY <2>1, <2>2, PlannedReleased
<1>3. ASSUME NEW w \in Writer, \/ \E kind \in Windows : OpenWindow(w, kind)
                               \/ OpenWriter(w)
                               \/ OpenUnit(w)
                               \/ ApplyWrite(w)
                               \/ ApplyEdges(w)
                               \/ Advance(w)
                               \/ CaughtUp(w)
      PROVE  PlannedInv'
  <2>1. journal' = journal /\ batch' = batch
    BY <1>3 DEF OpenWindow, OpenWriter, OpenUnit, ApplyWrite, ApplyEdges, Advance, CaughtUp,
                file, holder
  <2>2. \A v \in Writer : pc'[v] = "append" => pc[v] = "append"
    BY <1>1, <1>3 DEF OpenWindow, OpenWriter, OpenUnit, ApplyWrite, ApplyEdges, Advance, CaughtUp
  <2>. QED
    BY <2>1, <2>2, PlannedKept DEF PlannedInv
<1>4. ASSUME NEW w \in Writer, CloseUnit(w)
      PROVE  PlannedInv'
  BY <1>4, PlannedKept DEF CloseUnit, file, holder
<1>5. ASSUME NEW w \in Writer, NEW b \in Bodies, Plan(w, b)
      PROVE  PlannedInv'
  <2>. DEFINE op == [body |-> Planned(graph, b),
                     ts   |-> IF window[w] = "call" THEN clk[w] ELSE clock]
  <2>1. /\ pc[w] = "ready" /\ batch' = Append(batch, op) /\ journal' = journal
        /\ ~PlanRefuses(graph, b) /\ ~PlanIsEmpty(graph, b)
    BY <1>5 DEF Plan, file
  <2>2. graph = ReplayOf(journal)
    <3>1. graph = replayed[Len(journal) + 1]
      BY <2>1 DEF IInv, StandInv
    <3>2. Len(journal) \in 0 .. Len(journal) /\ SubSeq(journal, 1, Len(journal)) = journal
      BY DEF IInv, TypeOK
    <3>. QED
      BY <3>1, <3>2, HistoryReplays
  <2>3. Serial!PlannedOn(ReplayOf(journal), op)
    <3>1. op.body = Planned(graph, b)
      OBVIOUS
    <3>. HIDE DEF op
    <3>. QED
      BY <2>1, <2>2, <3>1, SameStore
  <2>4. /\ batch \in Seq(Op) /\ Len(batch') = Len(batch) + 1 /\ batch' # <<>>
        /\ \A i \in 1 .. Len(batch) : batch'[i] = batch[i]
        /\ batch'[Len(batch) + 1] = op
    <3>1. op \in Op
      <4>1. Planned(graph, b) \in Body
        BY BodiesAssumption, PlannedType DEF IInv, TypeOK
      <4>. QED
        BY <4>1 DEF IInv, TypeOK, Op
    <3>2. batch \in Seq(Op)
      BY DEF IInv, TypeOK
    <3>. HIDE DEF op
    <3>3. /\ Len(batch') = Len(batch) + 1
          /\ \A i \in 1 .. Len(batch) : batch'[i] = batch[i]
          /\ batch'[Len(batch) + 1] = op
      BY <2>1, <3>1, <3>2, AppendProperties
    <3>4. Len(batch') # 0
      BY <3>2, <3>3
    <3>. QED
      BY <3>2, <3>3, <3>4
  <2>. HIDE DEF op
  <2>5. \A i \in 1 .. Len(batch') : Serial!PlannedOn(ReplayOf(journal), batch'[i])
    BY <2>3, <2>4 DEF PlannedInv
  <2>6. ReplayOf(journal)' = ReplayOf(journal)
    BY <2>1 DEF ReplayOf
  <2>7. \A i \in 1 .. Len(batch') : (Serial!PlannedOn(ReplayOf(journal), batch[i]))'
    BY <2>5, <2>6, SameStore
  <2>. QED
    BY <2>4, <2>7 DEF PlannedInv
<1>6. ASSUME NEW w \in Writer, AppendOps(w)
      PROVE  PlannedInv'
  <2>1. batch' = <<>> /\ Len(<<>>) = 0
    BY <1>6 DEF AppendOps
  <2>2. \A v \in Writer : pc'[v] # "append"
    <3>1. \A v \in Writer : v # w => pc[v] \in {"idle", "opening"}
      BY <1>6, OthersOutside DEF AppendOps, Held, PC
    <3>. QED
      BY <1>1, <1>6, <3>1 DEF AppendOps
  <2>. QED
    BY <2>1, <2>2 DEF PlannedInv
<1>7. CASE Tick \/ UNCHANGED vars
  BY <1>7, PlannedKept DEF Tick, vars, file, holder, PlannedInv
<1>. QED
  BY <1>2, <1>3, <1>4, <1>5, <1>6, <1>7 DEF Next, WriterStep

\* So it holds in every reachable state.
LEMMA PlannedInvariant == Spec => []PlannedInv
<1>1. Init => PlannedInv
  <2>1. Len(<<>>) = 0
    OBVIOUS
  <2>. QED
    BY <2>1 DEF Init, PlannedInv
<1>. QED
  BY Invariant, <1>1, PlannedStep, PTL DEF Spec

\* An append is a gesture: its batch is not empty, every op of it is planned
\* against the replay of the journal, and the longer journal's replay is the
\* shorter one's taken through the batch.
LEMMA SerialStep ==
  ASSUME IInv, PlannedInv, [Next]_vars
  PROVE  [Serial!Next]_<<journal, ReplayOf(journal)>>
<1>1. CASE journal' = journal
  <2>1. ReplayOf(journal)' = ReplayOf(journal)
    BY <1>1 DEF ReplayOf
  <2>. QED
    BY <1>1, <2>1
<1>2. CASE journal' # journal
  <2>1. PICK w \in Writer : pc[w] = "append" /\ journal' = journal \o batch
    BY <1>2, JournalGrows
  <2>2. journal \in Seq(Op) /\ batch \in Seq(Op) /\ batch # <<>>
    BY <2>1 DEF IInv, TypeOK, PlannedInv
  <2>3. SubSeq(journal', Len(journal) + 1, Len(journal')) = batch
    BY <2>1, <2>2
  <2>4. FoldLeft(ApplyOp, ReplayOf(journal), batch) = ReplayOf(journal')
    BY <2>1, <2>2, EmptyGraphType, ReplayLaws DEF ReplayOf
  <2>5. ReplayOf(journal)' = ReplayOf(journal')
    BY DEF ReplayOf
  <2>6. Serial!Gesture(batch)
    BY <2>1, <2>2, <2>4, <2>5, SameStore DEF Serial!Gesture, PlannedInv
  <2>. QED
    BY <2>3, <2>6 DEF Serial!Next
<1>. QED
  BY <1>1, <1>2

\* Refinement: whatever writers interleave and whatever crashes, the journal is
\* one that gestures made one after another, each of them planned against the
\* replay of all that landed before it.
THEOREM ImplementsSerialHolds == Spec => ImplementsSerial
<1>1. Init => Serial!Init
  <2>1. ASSUME Init
        PROVE  ReplayOf(journal) = EmptyGraph
    <3>1. journal = <<>> /\ journal \in Seq(Op)
      BY <2>1 DEF Init
    <3>. QED
      BY <3>1, EmptyGraphType, ReplayLaws DEF ReplayOf
  <2>. QED
    BY <2>1, SameStore DEF Init, Serial!Init
<1>2. IInv /\ PlannedInv /\ [Next]_vars => [Serial!Next]_<<journal, ReplayOf(journal)>>
  BY SerialStep
<1>. QED
  BY Invariant, PlannedInvariant, <1>1, <1>2, PTL DEF Spec, ImplementsSerial, Serial!Spec

-----------------------------------------------------------------------------
(* Without unit windows, what is journaled is what was missing. *)

\* No window buffers, so that a batch is one op, planned on the whole journal.
DeltaInv ==
  /\ \A w \in Writer : ~Buffering(w) /\ (pc[w] = "ready" => batch = <<>>)
  /\ batch # <<>> => Len(batch) = 1 /\ IsDelta(ReplayOf(journal), batch[1])
  /\ DeltaOnly

\* What leaves the journal alone and opens no unit keeps the invariant.
LEMMA DeltaKept ==
  ASSUME IInv, DeltaInv, journal' = journal, batch' \in {batch, <<>>},
         \A v \in Writer : window'[v] \notin {"unit", "nested"},
         \A v \in Writer : pc'[v] = "ready" => batch' = <<>>
  PROVE  DeltaInv'
<1>1. ReplayOf(journal)' = ReplayOf(journal) /\ DeltaOnly' = DeltaOnly
  BY DEF ReplayOf, DeltaOnly
<1>2. batch' # <<>> => Len(batch') = 1 /\ IsDelta(ReplayOf(journal), batch'[1])
  BY DEF DeltaInv
<1>3. batch' # <<>> => (Len(batch) = 1 /\ IsDelta(ReplayOf(journal), batch[1]))'
  BY <1>1, <1>2 DEF IsDelta
<1>. QED
  BY <1>1, <1>3 DEF DeltaInv, Buffering

\* The append of a batch of one delta.
LEMMA DeltaAppended ==
  ASSUME IInv, DeltaInv, journal' = journal \o batch, batch # <<>>
  PROVE  DeltaOnly'
<1>1. /\ journal \in Seq(Op) /\ batch \in Seq(Op) /\ Len(batch) = 1
      /\ Len(journal) \in Nat
  BY DEF IInv, TypeOK, DeltaInv
<1>2. /\ Len(journal') = Len(journal) + 1 /\ journal'[Len(journal) + 1] = batch[1]
      /\ \A i \in 1 .. Len(journal) : journal'[i] = journal[i]
  BY <1>1, ConcatProperties
<1>3. ASSUME NEW i \in 1 .. Len(journal')
      PROVE  IsDelta(ReplayOf(SubSeq(journal', 1, i - 1)), journal'[i])
  <2>1. SubSeq(journal', 1, i - 1) = SubSeq(journal, 1, i - 1)
    BY <1>1, <1>2
  <2>2. CASE i \in 1 .. Len(journal)
    <3>1. IsDelta(ReplayOf(SubSeq(journal, 1, i - 1)), journal[i])
      BY <2>2 DEF DeltaInv, DeltaOnly, IsDelta
    <3>. QED
      BY <1>2, <2>1, <2>2, <3>1
  <2>3. CASE i = Len(journal) + 1
    <3>1. SubSeq(journal, 1, i - 1) = journal
      BY <1>1, <2>3
    <3>2. IsDelta(ReplayOf(journal), batch[1])
      BY DEF DeltaInv
    <3>. QED
      BY <1>2, <2>1, <2>3, <3>1, <3>2
  <2>. QED
    BY <1>1, <1>2, <2>2, <2>3
<1>4. ASSUME NEW i \in 1 .. Len(journal')
      PROVE  journal'[i].body.verb = "extend" =>
        /\ AbsentNodes(ReplayOf(SubSeq(journal', 1, i - 1)), journal'[i].body) = Wired(journal'[i].body)
        /\ AbsentEdges(ReplayOf(SubSeq(journal', 1, i - 1)), journal'[i].body) = journal'[i].body.edges
  BY <1>3 DEF IsDelta
<1>. QED
  BY <1>4 DEF DeltaOnly, ReplayOf

\* Without unit windows every step keeps it.
LEMMA DeltaStep ==
  ASSUME "unit" \notin Windows, IInv, PlannedInv, DeltaInv, [Next]_vars
  PROVE  DeltaInv'
<1>1. /\ pc \in [Writer -> PC] /\ window \in [Writer -> WindowKind]
      /\ \A v \in Writer : window[v] \notin {"unit", "nested"}
  BY DEF IInv, TypeOK, DeltaInv, Buffering
<1>2. ASSUME NEW w \in Writer, \/ ApplyRefused(w)
                               \/ CloseLanded(w)
                               \/ Leave(w)
                               \/ Crash(w)
      PROVE  DeltaInv'
  <2>1. Release(w) /\ journal' = journal
    BY <1>2 DEF ApplyRefused, CloseLanded, Leave, Crash, file
  <2>. QED
    BY <1>1, <2>1, DeltaKept DEF Release
<1>3. ASSUME NEW w \in Writer, \/ \E kind \in Windows : OpenWindow(w, kind)
                               \/ OpenWriter(w)
                               \/ OpenUnit(w)
                               \/ ApplyWrite(w)
                               \/ ApplyEdges(w)
                               \/ Advance(w)
                               \/ CaughtUp(w)
                               \/ CloseUnit(w)
      PROVE  DeltaInv'
  <2>1. journal' = journal /\ batch' = batch
    BY <1>3 DEF OpenWindow, OpenWriter, OpenUnit, ApplyWrite, ApplyEdges, Advance, CaughtUp,
                CloseUnit, file, holder
  <2>2. \A v \in Writer : window'[v] \notin {"unit", "nested"}
    BY <1>1, <1>3, WindowsAssumption
    DEF OpenWindow, OpenWriter, OpenUnit, ApplyWrite, ApplyEdges, Advance, CaughtUp, CloseUnit
  <2>3. \A v \in Writer : pc'[v] = "ready" => pc[v] = "ready" \/ (v = w /\ pc[w] = "catchup")
    BY <1>1, <1>3
    DEF OpenWindow, OpenWriter, OpenUnit, ApplyWrite, ApplyEdges, Advance, CaughtUp, CloseUnit
  <2>4. \A v \in Writer : pc'[v] = "ready" => batch' = <<>>
    BY <2>1, <2>3 DEF DeltaInv, IInv, QuietInv
  <2>. QED
    BY <2>1, <2>2, <2>4, DeltaKept
<1>4. ASSUME NEW w \in Writer, NEW b \in Bodies, Plan(w, b)
      PROVE  DeltaInv'
  <2>. DEFINE op == [body |-> Planned(graph, b),
                     ts   |-> IF window[w] = "call" THEN clk[w] ELSE clock]
  <2>1. /\ pc[w] = "ready" /\ batch' = Append(batch, op) /\ journal' = journal
        /\ window' = window /\ pc' = [pc EXCEPT ![w] = "append"]
    BY <1>1, <1>4 DEF Plan, file, Buffering
  <2>2. batch = <<>>
    BY <2>1 DEF DeltaInv
  <2>3. graph = ReplayOf(journal)
    <3>1. graph = replayed[Len(journal) + 1]
      BY <2>1 DEF IInv, StandInv
    <3>2. Len(journal) \in 0 .. Len(journal) /\ SubSeq(journal, 1, Len(journal)) = journal
      BY DEF IInv, TypeOK
    <3>. QED
      BY <3>1, <3>2, HistoryReplays
  <2>4. op.body = Planned(graph, b) /\ b \in Body
    BY BodiesAssumption
  <2>. HIDE DEF op
  <2>5. batch' = <<op>> /\ Len(batch') = 1 /\ batch'[1] = op
    BY <2>1, <2>2
  <2>6. IsDelta(ReplayOf(journal), op)
    BY <2>3, <2>4, PlannedIsDelta
  <2>7. ReplayOf(journal)' = ReplayOf(journal) /\ DeltaOnly' = DeltaOnly
    BY <2>1 DEF ReplayOf, DeltaOnly
  <2>8. (Len(batch) = 1 /\ IsDelta(ReplayOf(journal), batch[1]))'
    BY <2>5, <2>6, <2>7 DEF IsDelta
  <2>9. \A v \in Writer : pc'[v] # "ready"
    BY <1>1, <2>1, OthersOutside DEF Held, PC
  <2>. QED
    BY <1>1, <2>1, <2>7, <2>8, <2>9 DEF DeltaInv, Buffering
<1>5. ASSUME NEW w \in Writer, AppendOps(w)
      PROVE  DeltaInv'
  <2>1. journal \o torn = journal
    <3>1. lock = w
      BY <1>5, OthersOutside DEF AppendOps, Held, PC
    <3>2. torn = <<>>
      BY <3>1, WriterAssumption DEF IInv, QuietInv
    <3>. QED
      BY <3>2, ConcatEmptySeq DEF IInv, TypeOK
  <2>2. journal' = journal \o batch /\ batch # <<>>
    BY <1>5, <2>1 DEF AppendOps, PlannedInv
  <2>3. DeltaOnly'
    BY <2>2, DeltaAppended
  <2>4. batch' = <<>> /\ \A v \in Writer : window'[v] \notin {"unit", "nested"}
    BY <1>1, <1>5 DEF AppendOps
  <2>. QED
    BY <2>3, <2>4 DEF DeltaInv, Buffering
<1>6. CASE Tick \/ UNCHANGED vars
  BY <1>1, <1>6, DeltaKept DEF Tick, vars, file, holder, DeltaInv
<1>. QED
  BY <1>2, <1>3, <1>4, <1>5, <1>6 DEF Next, WriterStep

\* So it holds in every reachable state.
LEMMA DeltaInvariant == ASSUME "unit" \notin Windows PROVE Spec => []DeltaInv
<1>1. Init => DeltaInv
  <2>1. Len(<<>>) = 0
    OBVIOUS
  <2>. QED
    BY <2>1 DEF Init, DeltaInv, DeltaOnly, Buffering
<1>2. IInv /\ PlannedInv /\ DeltaInv /\ [Next]_vars => DeltaInv'
  BY DeltaStep
<1>. QED
  BY Invariant, PlannedInvariant, <1>1, <1>2, PTL DEF Spec

\* Without unit windows, a record that extends the graph carries only wires
\* that no record before it put there.
THEOREM DeltaOnlyHolds == ASSUME "unit" \notin Windows PROVE Spec => []DeltaOnly
<1>1. DeltaInv => DeltaOnly
  BY DEF DeltaInv
<1>. QED
  BY DeltaInvariant, <1>1, PTL

\* Without unit windows, no heal and no apply ever raises over a landed record.
THEOREM ApplyNeverRefusesHolds ==
  ASSUME "unit" \notin Windows PROVE Spec => []ApplyNeverRefuses
<1>1. ASSUME IInv, DeltaInv, cursor < Len(journal), NextOp.body.verb = "extend"
      PROVE  ~Refuses(graph, NextOp)
  <2>. DEFINE before == replayed[cursor + 1]
  <2>1. /\ before \in Graph /\ NextOp \in Op
        /\ replayed[cursor + 2] = Extend(before, NextOp.body, NextOp.ts)
    BY <1>1, NextReplayed, Lengths, ApplyByVerb
  <2>2. graph \in {before, ExtendNodes(before, NextOp.body, NextOp.ts), Extend(before, NextOp.body, NextOp.ts)}
    BY <1>1, <2>1 DEF IInv, LiveIsReplay, Boundaries
  <2>3. IsDelta(before, NextOp)
    <3>1. cursor + 1 \in 1 .. Len(journal) /\ cursor \in 0 .. Len(journal) /\ (cursor + 1) - 1 = cursor
      BY <1>1, Lengths
    <3>2. before = ReplayOf(SubSeq(journal, 1, (cursor + 1) - 1))
      BY <1>1, <3>1, HistoryReplays
    <3>3. journal[cursor + 1].body.verb = "extend"
      BY <1>1 DEF NextOp
    <3>. HIDE DEF before
    <3>. QED
      BY <1>1, <3>1, <3>2, <3>3 DEF DeltaInv, DeltaOnly, IsDelta, NextOp
  <2>. HIDE DEF before
  <2>. QED
    BY <1>1, <2>1, <2>2, <2>3, DeltaNeverRefuses
<1>2. IInv /\ DeltaInv => ApplyNeverRefuses
  BY <1>1 DEF ApplyNeverRefuses, Refuses
<1>. QED
  BY Invariant, DeltaInvariant, <1>2, PTL

-----------------------------------------------------------------------------
(* The crash proof, which kills the write order at its boundaries.           *)

\* The most of some numbers, one for each step.
LEMMA MostIsMost ==
  ASSUME NEW n \in Nat, NEW f \in [1 .. n -> Nat]
  PROVE  LET m == Most({f[i] : i \in 1 .. n})
         IN  m \in Nat /\ \A i \in 1 .. n : f[i] <= m
<1>. DEFINE S == {f[i] : i \in 1 .. n}
            all == {1} \cup S
            bounded == {k \in Nat : k <= n => \E b \in Nat : \A i \in 1 .. k : f[i] <= b}
<1>1. 0 \in bounded
  OBVIOUS
<1>2. ASSUME NEW k \in Nat, k \in bounded
      PROVE  k + 1 \in bounded
  <2>1. ASSUME k + 1 <= n
        PROVE  \E b \in Nat : \A i \in 1 .. k + 1 : f[i] <= b
    <3>1. PICK b \in Nat : \A i \in 1 .. k : f[i] <= b
      BY <1>2, <2>1
    <3>2. f[k + 1] \in Nat
      BY <2>1
    <3>3. \A i \in 1 .. k + 1 : i \in 1 .. k \/ i = k + 1
      OBVIOUS
    <3>4. \A i \in 1 .. k : f[i] \in Nat
      BY <2>1
    <3>5. \A i \in 1 .. k + 1 : f[i] <= b + f[k + 1]
      BY <3>1, <3>2, <3>3, <3>4
    <3>. QED
      BY <3>2, <3>5
  <2>. QED
    BY <2>1
<1>3. n \in bounded
  <2>. HIDE DEF bounded
  <2>. QED
    BY <1>1, <1>2, SetInduction
<1>4. PICK b \in Nat : \A i \in 1 .. n : f[i] <= b
  BY <1>3
<1>5. b + 1 \in Nat /\ all \in SUBSET (0 .. b + 1) /\ all # {}
  BY <1>4
<1>6. Max(all) \in all /\ \A k \in all : k <= Max(all)
  <2>. DEFINE c == b + 1
  <2>1. c \in Nat /\ all \in SUBSET (0 .. c) /\ all # {}
    BY <1>5
  <2>. HIDE DEF all, c
  <2>. QED
    BY <2>1, MaxUpTo
<1>7. Most(S) = Max(all)
  BY DEF Most
<1>8. \A i \in 1 .. n : f[i] \in all
  OBVIOUS
<1>9. Max(all) \in Nat
  BY <1>5, <1>6
<1>. HIDE DEF all
<1>. QED
  BY <1>6, <1>7, <1>8, <1>9

\* The smaller of two numbers.
LEMMA MinOfTwo ==
  ASSUME NEW a \in Nat, NEW b \in Nat
  PROVE  Min({a, b}) = IF a <= b THEN a ELSE b
<1>. DEFINE x == IF a <= b THEN a ELSE b
<1>1. x \in {a, b} /\ \A y \in {a, b} : x <= y
  OBVIOUS
<1>2. \A z \in {a, b} : (\A y \in {a, b} : z <= y) => z = x
  OBVIOUS
<1>. QED
  BY <1>1, <1>2 DEF Min

\* Two sequences end to end.
LEMMA TwoParts ==
  ASSUME NEW X, NEW a \in Seq(X), NEW b \in Seq(X)
  PROVE  /\ a \o b \in Seq(X) /\ Len(a) \in Nat /\ Len(b) \in Nat
         /\ Len(a \o b) = Len(a) + Len(b)
         /\ \A k \in 1 .. Len(a) : (a \o b)[k] = a[k]
         /\ \A k \in 1 .. Len(b) : (a \o b)[Len(a) + k] = b[k]
OBVIOUS

\* And three.
LEMMA ThreeParts ==
  ASSUME NEW X, NEW a \in Seq(X), NEW b \in Seq(X), NEW c \in Seq(X)
  PROVE  LET s == (a \o b) \o c
         IN  /\ s \in Seq(X) /\ Len(a) \in Nat /\ Len(b) \in Nat /\ Len(c) \in Nat
             /\ Len(s) = Len(a) + Len(b) + Len(c)
             /\ \A k \in 1 .. Len(a) : s[k] = a[k]
             /\ \A k \in 1 .. Len(b) : s[Len(a) + k] = b[k]
             /\ \A k \in 1 .. Len(c) : s[Len(a) + Len(b) + k] = c[k]
<1>1. PICK d \in Seq(X) : d = a \o b
  BY TwoParts
<1>2. PICK s \in Seq(X) : s = d \o c
  BY TwoParts
<1>3. /\ Len(d) = Len(a) + Len(b) /\ Len(a) \in Nat /\ Len(b) \in Nat /\ Len(c) \in Nat
      /\ \A k \in 1 .. Len(a) : d[k] = a[k]
      /\ \A k \in 1 .. Len(b) : d[Len(a) + k] = b[k]
  BY <1>1, TwoParts
<1>4. /\ Len(s) = Len(d) + Len(c)
      /\ \A k \in 1 .. Len(d) : s[k] = d[k]
      /\ \A k \in 1 .. Len(c) : s[Len(d) + k] = c[k]
  BY <1>2, TwoParts
<1>5. \A k \in 1 .. Len(a) : s[k] = a[k]
  BY <1>3, <1>4
<1>6. \A k \in 1 .. Len(b) : s[Len(a) + k] = b[k]
  BY <1>3, <1>4
<1>7. s = (a \o b) \o c
  BY <1>1, <1>2
<1>. QED
  BY <1>3, <1>4, <1>5, <1>6, <1>7

\* Where a child may die.
Boundary == [point: {"torn_append", "after_append", "after_apply"}, arrival: Nat \ {0}]

\* The arrivals at one point, in a run each.
LEMMA ArrivalsAre ==
  ASSUME NEW p \in {"torn_append", "after_append", "after_apply"}, NEW m \in Nat
  PROVE  /\ Arrivals(p, m) \in Seq(Boundary) /\ Len(Arrivals(p, m)) = m
         /\ \A k \in 1 .. m : Arrivals(p, m)[k] = [point |-> p, arrival |-> k]
<1>1. Arrivals(p, m) = [k \in 1 .. m |-> [point |-> p, arrival |-> k]]
  BY DEF Arrivals
<1>2. \A k \in 1 .. m : [point |-> p, arrival |-> k] \in Boundary
  BY DEF Boundary
<1>. QED
  BY <1>1, <1>2

\* A step's appends.
LEMMA GroupsCounted ==
  ASSUME NEW s \in Step
  PROVE  /\ Groups(s) \in Seq(Nat) /\ Len(Groups(s)) \in Nat
         /\ s.ops # 0 => Len(Groups(s)) # 0
         /\ s.ops = 0 /\ s.units = <<>> => Len(Groups(s)) = 0
<1>1. s.ops \in Nat /\ s.units \in Seq(Nat) /\ s.unit \in BOOLEAN
  BY DEF Step
<1>2. CASE s.units # <<>>
  BY <1>1, <1>2 DEF Groups
<1>3. CASE s.units = <<>> /\ s.unit /\ s.ops > 0
  <2>1. Groups(s) = <<s.ops>>
    BY <1>3 DEF Groups
  <2>. QED
    BY <1>1, <1>3, <2>1
<1>4. CASE s.units = <<>> /\ ~ (s.unit /\ s.ops > 0)
  <2>1. Groups(s) = [i \in 1 .. s.ops |-> 1]
    BY <1>4 DEF Groups
  <2>2. Groups(s) \in Seq(Nat) /\ Len(Groups(s)) = s.ops
    BY <1>1, <2>1
  <2>. QED
    BY <1>1, <2>2
<1>. QED
  BY <1>2, <1>3, <1>4

\* The crash variants of a scenario: every boundary of every step is among them.
LEMMA VariantsAre ==
  ASSUME NEW steps \in Seq(Step)
  PROVE  LET V == CrashVariants(steps)
             has(b) == \E v \in 1 .. Len(V) : V[v] = b
         IN  /\ V \in Seq(Boundary)
             /\ \A i \in 1 .. Len(steps) :
                  /\ \A k \in 1 .. Len(Groups(steps[i])) : has([point |-> "after_append", arrival |-> k])
                  /\ \A k \in 1 .. steps[i].ops : has([point |-> "after_apply", arrival |-> k])
                  /\ Tearable(steps[i]) => has([point |-> "torn_append", arrival |-> 1])
<1>. DEFINE n == Len(steps)
            fa == [i \in 1 .. n |-> Len(Groups(steps[i]))]
            fb == [i \in 1 .. n |-> steps[i].ops]
            ma == Most({Len(Groups(steps[i])) : i \in DOMAIN steps})
            mb == Most({steps[i].ops : i \in DOMAIN steps})
            T == IF \E i \in DOMAIN steps : Tearable(steps[i]) THEN Arrivals("torn_append", 1) ELSE <<>>
            A == Arrivals("after_append", ma)
            B == Arrivals("after_apply", mb)
            V == CrashVariants(steps)
<1>1. n \in Nat /\ DOMAIN steps = 1 .. n /\ \A i \in 1 .. n : steps[i] \in Step
  OBVIOUS
<1>2. fa \in [1 .. n -> Nat] /\ fb \in [1 .. n -> Nat]
  BY <1>1, GroupsCounted DEF Step
<1>3. ma \in Nat /\ \A i \in 1 .. n : Len(Groups(steps[i])) <= ma
  <2>1. {fa[i] : i \in 1 .. n} = {Len(Groups(steps[i])) : i \in DOMAIN steps}
    BY <1>1
  <2>2. \A i \in 1 .. n : fa[i] = Len(Groups(steps[i]))
    OBVIOUS
  <2>. HIDE DEF n, fa
  <2>3. Most({fa[i] : i \in 1 .. n}) \in Nat /\ \A j \in 1 .. n : fa[j] <= Most({fa[i] : i \in 1 .. n})
    BY <1>1, <1>2, MostIsMost
  <2>. QED
    BY <2>1, <2>2, <2>3
<1>4. mb \in Nat /\ \A i \in 1 .. n : steps[i].ops <= mb
  <2>1. {fb[i] : i \in 1 .. n} = {steps[i].ops : i \in DOMAIN steps}
    BY <1>1
  <2>2. \A i \in 1 .. n : fb[i] = steps[i].ops
    OBVIOUS
  <2>. HIDE DEF n, fb
  <2>3. Most({fb[i] : i \in 1 .. n}) \in Nat /\ \A j \in 1 .. n : fb[j] <= Most({fb[i] : i \in 1 .. n})
    BY <1>1, <1>2, MostIsMost
  <2>. QED
    BY <2>1, <2>2, <2>3
<1>5. V = (T \o A) \o B
  BY DEF CrashVariants
<1>. HIDE DEF V, ma, mb
<1>6. /\ A \in Seq(Boundary) /\ Len(A) = ma
      /\ \A k \in 1 .. ma : A[k] = [point |-> "after_append", arrival |-> k]
  BY <1>3, ArrivalsAre
<1>7. /\ B \in Seq(Boundary) /\ Len(B) = mb
      /\ \A k \in 1 .. mb : B[k] = [point |-> "after_apply", arrival |-> k]
  BY <1>4, ArrivalsAre
<1>8. /\ T \in Seq(Boundary)
      /\ \A i \in 1 .. n : Tearable(steps[i]) => Len(T) = 1 /\ T[1] = [point |-> "torn_append", arrival |-> 1]
  <2>. DEFINE p == "torn_append"
              one == 1
  <2>1. /\ Arrivals(p, one) \in Seq(Boundary) /\ Len(Arrivals(p, one)) = one
        /\ Arrivals(p, one)[one] = [point |-> p, arrival |-> one]
    <3>1. p \in {"torn_append", "after_append", "after_apply"} /\ one \in Nat /\ one \in 1 .. one
      OBVIOUS
    <3>. HIDE DEF p, one
    <3>. QED
      BY <3>1, ArrivalsAre
  <2>. QED
    BY <1>1, <2>1
<1>. HIDE DEF T, A, B
<1>9. /\ V \in Seq(Boundary) /\ Len(T) \in Nat /\ Len(A) \in Nat /\ Len(B) \in Nat
      /\ Len(V) = Len(T) + Len(A) + Len(B)
      /\ \A k \in 1 .. Len(T) : V[k] = T[k]
      /\ \A k \in 1 .. Len(A) : V[Len(T) + k] = A[k]
      /\ \A k \in 1 .. Len(B) : V[Len(T) + Len(A) + k] = B[k]
  <2>1. T \in Seq(Boundary) /\ A \in Seq(Boundary) /\ B \in Seq(Boundary)
    BY <1>6, <1>7, <1>8
  <2>. HIDE DEF Boundary
  <2>2. PICK t \in Seq(Boundary), a \in Seq(Boundary), b \in Seq(Boundary) : t = T /\ a = A /\ b = B
    BY <2>1
  <2>3. V = (t \o a) \o b
    BY <1>5, <2>2
  <2>4. /\ V \in Seq(Boundary) /\ Len(t) \in Nat /\ Len(a) \in Nat /\ Len(b) \in Nat
        /\ Len(V) = Len(t) + Len(a) + Len(b)
        /\ \A k \in 1 .. Len(t) : V[k] = t[k]
        /\ \A k \in 1 .. Len(a) : V[Len(t) + k] = a[k]
        /\ \A k \in 1 .. Len(b) : V[Len(t) + Len(a) + k] = b[k]
    BY <2>3, ThreeParts
  <2>. QED
    BY <2>2, <2>4
<1>10. ASSUME NEW i \in 1 .. n, NEW k \in 1 .. Len(Groups(steps[i]))
       PROVE  \E v \in 1 .. Len(V) : V[v] = [point |-> "after_append", arrival |-> k]
  <2>1. k \in 1 .. Len(A) /\ Len(T) + k \in 1 .. Len(V)
    BY <1>1, <1>3, <1>6, <1>9, GroupsCounted
  <2>. QED
    BY <1>6, <1>9, <2>1
<1>11. ASSUME NEW i \in 1 .. n, NEW k \in 1 .. steps[i].ops
       PROVE  \E v \in 1 .. Len(V) : V[v] = [point |-> "after_apply", arrival |-> k]
  <2>1. steps[i].ops \in Nat
    BY <1>1 DEF Step
  <2>2. k \in 1 .. Len(B) /\ Len(T) + Len(A) + k \in 1 .. Len(V)
    BY <1>4, <1>7, <1>9, <2>1
  <2>. QED
    BY <1>7, <1>9, <2>2
<1>12. ASSUME NEW i \in 1 .. n, Tearable(steps[i])
       PROVE  \E v \in 1 .. Len(V) : V[v] = [point |-> "torn_append", arrival |-> 1]
  <2>1. Len(T) = 1 /\ T[1] = [point |-> "torn_append", arrival |-> 1]
    BY <1>8, <1>12
  <2>2. 1 \in 1 .. Len(V) /\ 1 \in 1 .. Len(T)
    BY <1>9, <2>1
  <2>. QED
    BY <1>9, <2>1, <2>2
<1>. HIDE DEF n
<1>. QED
  BY <1>9, <1>10, <1>11, <1>12 DEF V, n

\* What a step takes of a run's crash: none, or a boundary it has.
LEMMA CrashIsBoundary ==
  ASSUME NEW s \in Step, NEW v \in Boundary
  PROVE  LET f == CrashOf(s, v)
         IN  \/ f = NoFault
             \/ /\ f \in Boundary /\ f.point = v.point
                /\ f.point = "after_append" => f.arrival \in 1 .. Len(Groups(s))
                /\ f.point = "after_apply" => f.arrival \in 1 .. s.ops
<1>. DEFINE f == CrashOf(s, v)
<1>1. CASE s.ops = 0
  BY <1>1 DEF CrashOf
<1>2. CASE s.ops # 0 /\ v.point = "torn_append"
  <2>1. f = IF Tearable(s) THEN v ELSE NoFault
    BY <1>2 DEF CrashOf
  <2>. HIDE DEF f
  <2>. QED
    BY <1>2, <2>1 DEF f
<1>3. CASE s.ops # 0 /\ v.point = "after_append"
  <2>1. f = [v EXCEPT !.arrival = Min({v.arrival, Len(Groups(s))})]
    BY <1>3 DEF CrashOf
  <2>2. Len(Groups(s)) \in Nat /\ Len(Groups(s)) # 0 /\ v.arrival \in Nat /\ v.arrival # 0
    BY <1>3, GroupsCounted DEF Boundary
  <2>3. Min({v.arrival, Len(Groups(s))}) \in 1 .. Len(Groups(s))
    BY <2>2, MinOfTwo
  <2>4. f \in Boundary /\ f.point = "after_append" /\ f.arrival \in 1 .. Len(Groups(s))
    BY <1>3, <2>1, <2>2, <2>3 DEF Boundary
  <2>. QED
    BY <1>3, <2>4
<1>4. CASE s.ops # 0 /\ v.point = "after_apply"
  <2>1. f = [v EXCEPT !.arrival = Min({v.arrival, s.ops})]
    BY <1>4 DEF CrashOf
  <2>2. s.ops \in Nat /\ s.ops # 0 /\ v.arrival \in Nat /\ v.arrival # 0
    BY <1>4 DEF Boundary, Step
  <2>3. Min({v.arrival, s.ops}) \in 1 .. s.ops
    BY <2>2, MinOfTwo
  <2>4. f \in Boundary /\ f.point = "after_apply" /\ f.arrival \in 1 .. s.ops
    BY <1>4, <2>1, <2>2, <2>3 DEF Boundary
  <2>. QED
    BY <1>4, <2>4
<1>. QED
  BY <1>1, <1>2, <1>3, <1>4 DEF Boundary

\* And all of a boundary it has.
LEMMA CrashOfOwn ==
  ASSUME NEW s \in Step, s.ops # 0
  PROVE  /\ \A k \in 1 .. Len(Groups(s)) :
              CrashOf(s, [point |-> "after_append", arrival |-> k]) = [point |-> "after_append", arrival |-> k]
         /\ \A k \in 1 .. s.ops :
              CrashOf(s, [point |-> "after_apply", arrival |-> k]) = [point |-> "after_apply", arrival |-> k]
         /\ Tearable(s) => CrashOf(s, [point |-> "torn_append", arrival |-> 1]) = [point |-> "torn_append", arrival |-> 1]
<1>1. s.ops \in Nat /\ Len(Groups(s)) \in Nat
  BY GroupsCounted DEF Step
<1>2. ASSUME NEW k \in 1 .. Len(Groups(s))
      PROVE  CrashOf(s, [point |-> "after_append", arrival |-> k]) = [point |-> "after_append", arrival |-> k]
  <2>1. Min({k, Len(Groups(s))}) = k
    BY <1>1, MinOfTwo
  <2>. QED
    BY <2>1 DEF CrashOf
<1>3. ASSUME NEW k \in 1 .. s.ops
      PROVE  CrashOf(s, [point |-> "after_apply", arrival |-> k]) = [point |-> "after_apply", arrival |-> k]
  <2>1. Min({k, s.ops}) = k
    BY <1>1, MinOfTwo
  <2>. QED
    BY <2>1 DEF CrashOf
<1>4. Tearable(s) => CrashOf(s, [point |-> "torn_append", arrival |-> 1]) = [point |-> "torn_append", arrival |-> 1]
  BY DEF CrashOf
<1>. QED
  BY <1>2, <1>3, <1>4
-----------------------------------------------------------------------------
(* Every boundary of every step is struck in a suite that passes.            *)

\* A step that appends nothing declares no units of appends.
UnitsHaveOps == \A s \in Scenarios : \A i \in DOMAIN s : s[i].units # <<>> => s[i].ops > 0

Variants == CrashVariants(scenario)

\* In run v, step i has died where it was to, if anywhere.
HasStruck(v, i) ==
  LET f == CrashOf(scenario[i], Variants[v])
  IN  \/ f = NoFault
      \/ \E b \in struck :
           /\ b.step = i /\ b.point = f.point
           /\ b.point # "torn_append" => b.arrival = f.arrival

InSuite ==
  /\ scenario \in Scenarios
  /\ variant \in 0 .. Len(Variants)
  /\ at \in 1 .. Len(scenario) + 1

\* A child is armed for its step alone, and what heals it comes after its death.
ChildArmed ==
  /\ child = "call" => at \in 1 .. Len(scenario) /\ fault = IF variant = 0 THEN NoFault ELSE CrashOf(Now, Variants[variant])
  /\ child # "call" => fault = NoFault
  /\ child = "call" /\ variant # 0 /\ ended = "died" => HasStruck(variant, at)
  /\ child \in {"again", "heal"} /\ variant # 0 => HasStruck(variant, at)

\* Where children have died are boundaries that their steps have.
StruckAtOwn ==
  \A b \in struck :
    /\ b.step \in 1 .. Len(scenario)
    /\ b.point = "after_append" => b.arrival \in 1 .. Len(Groups(scenario[b.step]))
    /\ b.point = "after_apply" => b.arrival \in 1 .. scenario[b.step].ops

\* The suite leaves no step of a run behind before it has died as it was to.
StruckSoFar ==
  \A v \in 1 .. Len(Variants) : \A i \in 1 .. Len(scenario) :
    \/ verdict = "passed"
    \/ verdict = "open" /\ (v < variant \/ (v = variant /\ i < at))
    => HasStruck(v, i)

StruckInv == InSuite /\ ChildArmed /\ StruckAtOwn /\ StruckSoFar

\* What is run of a suite: its steps are steps, and its variants name boundaries.
LEMMA InSuiteSteps ==
  ASSUME InSuite
  PROVE  /\ scenario \in Seq(Step) /\ Len(scenario) \in Nat
         /\ Variants \in Seq(Boundary) /\ Len(Variants) \in Nat
         /\ \A i \in 1 .. Len(scenario) : scenario[i] \in Step
         /\ \A v \in 1 .. Len(Variants) : Variants[v] \in Boundary
<1>1. scenario \in Seq(Step)
  BY ScenariosOfSteps DEF InSuite
<1>2. Variants \in Seq(Boundary)
  BY <1>1, VariantsAre DEF Variants
<1>. HIDE DEF Variants
<1>. QED
  BY <1>1, <1>2

\* The start.
LEMMA StruckInit == SuiteInit => StruckInv
<1>. SUFFICES ASSUME SuiteInit PROVE StruckInv
  OBVIOUS
<1>1. scenario \in Seq(Step)
  BY ScenariosOfSteps DEF SuiteInit
<1>2. Variants \in Seq(Boundary)
  BY <1>1, VariantsAre DEF Variants
<1>3. Len(scenario) \in Nat /\ Len(Variants) \in Nat
  BY <1>1, <1>2
<1>4. InSuite
  BY <1>3 DEF SuiteInit, InSuite
<1>5. ChildArmed /\ StruckAtOwn
  BY DEF SuiteInit, ChildArmed, StruckAtOwn
<1>6. StruckSoFar
  BY <1>3 DEF SuiteInit, StruckSoFar
<1>. QED
  BY <1>4, <1>5, <1>6 DEF StruckInv

\* What has struck stays struck.
LEMMA StrikesStay ==
  ASSUME UNCHANGED scenario, struck \subseteq struck', NEW v, NEW i, HasStruck(v, i)
  PROVE  HasStruck(v, i)'
BY DEF HasStruck, Variants

\* A step that takes neither the suite nor its verdict further, and forgets no death.
LEMMA SameRun ==
  ASSUME StruckInv, UNCHANGED <<suite, verdict>>, struck \subseteq struck'
  PROVE  InSuite' /\ StruckSoFar'
<1>1. UNCHANGED <<scenario, variant, at, Variants>>
  BY DEF suite, Variants
<1>2. InSuite'
  BY <1>1 DEF StruckInv, InSuite
<1>3. StruckSoFar'
  <2>. SUFFICES ASSUME NEW v \in 1 .. Len(Variants), NEW i \in 1 .. Len(scenario),
                       \/ verdict = "passed"
                       \/ verdict = "open" /\ (v < variant \/ (v = variant /\ i < at))
                PROVE  HasStruck(v, i)'
    BY <1>1 DEF StruckSoFar
  <2>1. HasStruck(v, i)
    BY DEF StruckInv, StruckSoFar
  <2>. QED
    BY <1>1, <2>1, StrikesStay
<1>. QED
  BY <1>2, <1>3

\* The suite gives up.
LEMMA FailStruck ==
  ASSUME StruckInv, Fail
  PROVE  StruckInv'
<1>1. UNCHANGED <<scenario, variant, at, struck>> /\ verdict' = "failed" /\ child' = "none" /\ fault' = NoFault
  BY DEF Fail, suite, NoChild
<1>2. UNCHANGED Variants
  BY <1>1 DEF Variants
<1>3. InSuite' /\ StruckAtOwn' /\ ChildArmed' /\ StruckSoFar'
  BY <1>1, <1>2 DEF StruckInv, InSuite, StruckAtOwn, ChildArmed, StruckSoFar
<1>. QED
  BY <1>3 DEF StruckInv

\* A child begins.
LEMMA SpawnStruck ==
  ASSUME StruckInv, NEW c \in {"call", "again", "heal"}, NEW f, Spawn(c, f), Stepping,
         c = "call" => f = IF variant = 0 THEN NoFault ELSE CrashOf(Now, Variants[variant]),
         c # "call" => f = NoFault,
         c # "call" /\ variant # 0 => HasStruck(variant, at)
  PROVE  StruckInv'
<1>1. /\ UNCHANGED <<scenario, variant, at, struck, verdict>>
      /\ child' = c /\ ended' = "no" /\ fault' = f
  BY DEF Spawn, suite
<1>2. UNCHANGED <<Variants, Now>>
  BY <1>1 DEF Variants, Now
<1>3. InSuite' /\ StruckSoFar'
  BY <1>1, SameRun DEF suite
<1>4. StruckAtOwn'
  BY <1>1 DEF StruckInv, StruckAtOwn
<1>5. at \in 1 .. Len(scenario)
  BY InSuiteSteps DEF StruckInv, InSuite, Stepping
<1>6. HasStruck(variant, at) => HasStruck(variant, at)'
  BY <1>1, StrikesStay
<1>7. ChildArmed'
  BY <1>1, <1>2, <1>5, <1>6 DEF ChildArmed
<1>. QED
  BY <1>3, <1>4, <1>7 DEF StruckInv

\* A child's own step, at which it goes on or dies where it was armed to.
LEMMA ChildStepStruck ==
  ASSUME StruckInv, Running, UNCHANGED <<suite, child, fault, verdict>>,
         \/ ended' \in {"no", "exited"} /\ UNCHANGED struck
         \/ \E p \in {"torn_append", "after_append", "after_apply"} : \E w :
              /\ Dies(p, w)
              /\ fault.point = p
              /\ p # "torn_append" => fault.arrival = w
  PROVE  StruckInv'
<1>1. UNCHANGED <<scenario, variant, at, child, fault, verdict, Variants, Now>>
  BY DEF suite, Variants, Now
<1>2. struck \subseteq struck'
  BY DEF Dies
<1>3. InSuite' /\ StruckSoFar'
  BY <1>2, SameRun
<1>4. CASE ended' \in {"no", "exited"} /\ UNCHANGED struck
  <2>1. StruckAtOwn'
    BY <1>1, <1>4 DEF StruckInv, StruckAtOwn
  <2>2. HasStruck(variant, at) => HasStruck(variant, at)'
    BY <1>1, <1>4, StrikesStay
  <2>3. ChildArmed'
    BY <1>1, <1>4, <2>2 DEF StruckInv, ChildArmed
  <2>. QED
    BY <1>3, <2>1, <2>3 DEF StruckInv
<1>5. ASSUME NEW p \in {"torn_append", "after_append", "after_apply"}, NEW w,
             Dies(p, w), fault.point = p, p # "torn_append" => fault.arrival = w
      PROVE  StruckInv'
  <2>. DEFINE b == [step |-> at, point |-> p, arrival |-> w]
  <2>1. fault # NoFault
    BY <1>5 DEF NoFault
  <2>2. child = "call" /\ variant # 0 /\ fault = CrashOf(Now, Variants[variant]) /\ at \in 1 .. Len(scenario)
    BY <2>1 DEF StruckInv, ChildArmed
  <2>3. Now \in Step /\ Variants[variant] \in Boundary
    BY <2>2, InSuiteSteps DEF StruckInv, InSuite, Now
  <2>4. /\ fault.point = "after_append" => fault.arrival \in 1 .. Len(Groups(Now))
        /\ fault.point = "after_apply" => fault.arrival \in 1 .. Now.ops
    BY <2>1, <2>2, <2>3, CrashIsBoundary
  <2>5. struck' = struck \cup {b} /\ ended' = "died"
    BY <1>5 DEF Dies
  <2>6. StruckAtOwn'
    <3>1. ASSUME NEW c \in struck'
          PROVE  /\ c.step \in 1 .. Len(scenario)
                 /\ c.point = "after_append" => c.arrival \in 1 .. Len(Groups(scenario[c.step]))
                 /\ c.point = "after_apply" => c.arrival \in 1 .. scenario[c.step].ops
      <4>1. CASE c \in struck
        BY <4>1 DEF StruckInv, StruckAtOwn
      <4>2. CASE c = b
        BY <1>5, <2>2, <2>4, <4>2 DEF Now
      <4>. QED
        BY <2>5, <4>1, <4>2
    <3>. QED
      BY <1>1, <3>1 DEF StruckAtOwn
  <2>7. HasStruck(variant, at)'
    <3>1. b \in struck' /\ b.step = at /\ b.point = fault.point /\ (b.point # "torn_append" => b.arrival = fault.arrival)
      BY <1>5, <2>5
    <3>. QED
      BY <1>1, <2>2, <3>1 DEF HasStruck, Now
  <2>8. ChildArmed'
    BY <1>1, <2>2, <2>7 DEF StruckInv, ChildArmed
  <2>. QED
    BY <1>3, <2>6, <2>8 DEF StruckInv
<1>. QED
  BY <1>4, <1>5

\* A record is applied.
LEMMA ApplyStruck ==
  ASSUME StruckInv, Apply
  PROVE  StruckInv'
<1>. DEFINE k == arrivals.apply + 1
<1>1. Running /\ UNCHANGED <<suite, child, fault, verdict>>
  BY DEF Apply
<1>2. CASE ArmedAt("after_apply", k)
  <2>1. Dies("after_apply", k)
    BY <1>2 DEF Apply
  <2>2. fault.point = "after_apply" /\ fault.arrival = k
    BY <1>2 DEF ArmedAt
  <2>. QED
    BY <1>1, <2>1, <2>2, ChildStepStruck
<1>3. CASE ~ ArmedAt("after_apply", k)
  <2>1. ended' = ended /\ UNCHANGED struck
    BY <1>3 DEF Apply, Lives
  <2>. QED
    BY <1>1, <2>1, ChildStepStruck DEF Running
<1>. QED
  BY <1>2, <1>3

\* An append lands, or is cut short.
LEMMA LandStruck ==
  ASSUME StruckInv, Land
  PROVE  StruckInv'
<1>. DEFINE k == arrivals.append + 1
<1>1. Running /\ UNCHANGED <<suite, child, fault, verdict>>
  BY DEF Land, Calling
<1>2. CASE Dies("torn_append", group) /\ fault.point = "torn_append"
  BY <1>1, <1>2, ChildStepStruck
<1>3. CASE Dies("after_append", k) /\ ArmedAt("after_append", k)
  <2>1. fault.point = "after_append" /\ fault.arrival = k
    BY <1>3 DEF ArmedAt
  <2>. QED
    BY <1>1, <1>3, <2>1, ChildStepStruck
<1>4. CASE Lives
  BY <1>1, <1>4, ChildStepStruck DEF Lives, Running
<1>5. \/ Dies("torn_append", group) /\ fault.point = "torn_append"
      \/ Dies("after_append", k) /\ ArmedAt("after_append", k)
      \/ Lives
  BY DEF Land
<1>. QED
  BY <1>2, <1>3, <1>4, <1>5

\* A plan appends nothing, or a child exits.
LEMMA QuietStruck ==
  ASSUME StruckInv, PlanEmpty \/ Exit
  PROVE  StruckInv'
<1>1. Running /\ UNCHANGED <<suite, child, fault, verdict, struck>> /\ ended' \in {"no", "exited"}
  BY DEF PlanEmpty, Exit, Calling, Running
<1>. QED
  BY <1>1, ChildStepStruck

\* The step's children are begun.
LEMMA SpawnsStruck ==
  ASSUME StruckInv, SpawnStep \/ SpawnAgain \/ SpawnHeal
  PROVE  StruckInv'
<1>1. CASE SpawnStep
  BY <1>1, SpawnStruck DEF SpawnStep, Variants
<1>2. ASSUME NEW c \in {"again", "heal"}, Spawn(c, NoFault), Ran("call"), ended = "died"
      PROVE  StruckInv'
  <2>1. variant # 0 => HasStruck(variant, at)
    BY <1>2 DEF StruckInv, ChildArmed, Ran
  <2>. QED
    BY <1>2, <2>1, SpawnStruck DEF Ran
<1>3. CASE SpawnAgain
  BY <1>2, <1>3 DEF SpawnAgain
<1>4. CASE SpawnHeal
  BY <1>2, <1>4 DEF SpawnHeal
<1>. QED
  BY <1>1, <1>3, <1>4

\* The step is done: it has died as it was to, in a run that crashes it.
LEMMA StepDoneStruck ==
  ASSUME StruckInv, StepDone
  PROVE  StruckInv'
<1>1. /\ UNCHANGED <<scenario, variant, struck, verdict, Variants>> /\ verdict = "open"
      /\ at' = at + 1 /\ at <= Len(scenario)
      /\ child' = "none" /\ ended' = "no" /\ fault' = NoFault
  BY DEF StepDone, NoChild, Variants, LastChildRan, Ran, Stepping
<1>2. Len(scenario) \in Nat /\ Len(Variants) \in Nat /\ at \in 1 .. Len(scenario)
      /\ variant \in 0 .. Len(Variants)
  BY <1>1, InSuiteSteps DEF StruckInv, InSuite
<1>3. InSuite'
  BY <1>1, <1>2 DEF StruckInv, InSuite
<1>4. StruckAtOwn' /\ ChildArmed'
  BY <1>1 DEF StruckInv, StruckAtOwn, ChildArmed
<1>5. variant # 0 => HasStruck(variant, at)
  <2>1. PICK c \in {"call", "again", "heal"} : child = c /\ ~ (c = "call" /\ fault # NoFault)
    BY DEF StepDone, LastChildRan, Ran
  <2>2. CASE c = "call"
    BY <2>1, <2>2 DEF StruckInv, ChildArmed, HasStruck, Now
  <2>3. CASE c # "call"
    BY <2>1, <2>3 DEF StruckInv, ChildArmed
  <2>. QED
    BY <2>2, <2>3
<1>6. StruckSoFar'
  <2>. SUFFICES ASSUME NEW v \in 1 .. Len(Variants), NEW i \in 1 .. Len(scenario),
                       v < variant \/ (v = variant /\ i < at + 1)
                PROVE  HasStruck(v, i)'
    BY <1>1 DEF StruckSoFar
  <2>1. v < variant \/ (v = variant /\ i < at) \/ (v = variant /\ i = at /\ variant # 0)
    BY <1>2
  <2>2. HasStruck(v, i)
    BY <1>1, <1>5, <2>1 DEF StruckInv, StruckSoFar
  <2>. QED
    BY <1>1, <2>2, StrikesStay
<1>. QED
  BY <1>3, <1>4, <1>6 DEF StruckInv

\* The run is done, and the suite with its last.
LEMMA RunDoneStruck ==
  ASSUME StruckInv, RunDone
  PROVE  StruckInv'
<1>1. /\ UNCHANGED <<scenario, struck, Variants>> /\ verdict = "open" /\ at > Len(scenario)
      /\ at' = 1 /\ child' = "none" /\ ended' = "no" /\ fault' = NoFault
  BY DEF RunDone, NoChild, Variants, AllSteps
<1>2. /\ Len(scenario) \in Nat /\ Len(Variants) \in Nat /\ variant \in 0 .. Len(Variants)
      /\ at \in 1 .. Len(scenario) + 1
  BY InSuiteSteps DEF StruckInv, InSuite
<1>3. \/ variant < Len(Variants) /\ variant' = variant + 1 /\ verdict' = "open"
      \/ variant = Len(Variants) /\ variant' = variant /\ verdict' = "passed"
  BY <1>1, <1>2 DEF RunDone, Variants
<1>4. InSuite'
  BY <1>1, <1>2, <1>3 DEF StruckInv, InSuite
<1>5. StruckAtOwn' /\ ChildArmed'
  BY <1>1 DEF StruckInv, StruckAtOwn, ChildArmed
<1>6. StruckSoFar'
  <2>. SUFFICES ASSUME NEW v \in 1 .. Len(Variants), NEW i \in 1 .. Len(scenario),
                       \/ verdict' = "passed"
                       \/ verdict' = "open" /\ (v < variant' \/ (v = variant' /\ i < 1))
                PROVE  HasStruck(v, i)'
    BY <1>1 DEF StruckSoFar
  <2>1. v < variant \/ (v = variant /\ i < at)
    BY <1>1, <1>2, <1>3
  <2>2. HasStruck(v, i)
    BY <1>1, <2>1 DEF StruckInv, StruckSoFar
  <2>. QED
    BY <1>1, <2>2, StrikesStay
<1>. QED
  BY <1>4, <1>5, <1>6 DEF StruckInv

\* Nothing happens.
LEMMA StillStruck ==
  ASSUME StruckInv, UNCHANGED suiteVars
  PROVE  StruckInv'
<1>1. UNCHANGED <<scenario, variant, at, child, ended, fault, struck, verdict>>
  BY DEF suiteVars
<1>2. UNCHANGED <<Variants, Now>>
  BY <1>1 DEF Variants, Now
<1>3. InSuite' /\ StruckSoFar'
  BY <1>1, SameRun DEF suite
<1>4. HasStruck(variant, at) => HasStruck(variant, at)'
  BY <1>1, StrikesStay
<1>5. StruckAtOwn' /\ ChildArmed'
  BY <1>1, <1>2, <1>4 DEF StruckInv, StruckAtOwn, ChildArmed
<1>. QED
  BY <1>3, <1>5 DEF StruckInv

\* What is so of every state of a suite: all its steps have died in the runs behind.
LEMMA StruckHolds == SuiteSpec => []StruckInv
<1>1. SuiteInit => StruckInv
  BY StruckInit
<1>2. StruckInv /\ [SuiteNext]_suiteVars => StruckInv'
  <2>. SUFFICES ASSUME StruckInv, [SuiteNext]_suiteVars
                PROVE  StruckInv'
    OBVIOUS
  <2>1. CASE SpawnStep \/ SpawnAgain \/ SpawnHeal
    BY <2>1, SpawnsStruck
  <2>2. CASE NotCrashed \/ StepFails \/ RunFails
    BY <2>2, FailStruck DEF NotCrashed, StepFails, RunFails
  <2>3. CASE Apply
    BY <2>3, ApplyStruck
  <2>4. CASE Land
    BY <2>4, LandStruck
  <2>5. CASE PlanEmpty \/ Exit
    BY <2>5, QuietStruck
  <2>6. CASE StepDone
    BY <2>6, StepDoneStruck
  <2>7. CASE RunDone
    BY <2>7, RunDoneStruck
  <2>8. CASE UNCHANGED suiteVars
    BY <2>8, StillStruck
  <2>. QED
    BY <2>1, <2>2, <2>3, <2>4, <2>5, <2>6, <2>7, <2>8 DEF SuiteNext
<1>. QED
  BY <1>1, <1>2, PTL DEF SuiteSpec

\* A suite that has passed has struck every boundary of every step.
LEMMA PassedStruckAll ==
  ASSUME StruckInv, UnitsHaveOps
  PROVE  EveryBoundaryStruck
<1>. SUFFICES ASSUME verdict = "passed", NEW i \in 1 .. Len(scenario)
              PROVE  LET hit(p) == {b.arrival : b \in {c \in struck : c.step = i /\ c.point = p}}
                     IN  /\ hit("after_append") = 1 .. Len(Groups(scenario[i]))
                         /\ hit("after_apply") = 1 .. scenario[i].ops
                         /\ Tearable(scenario[i]) => hit("torn_append") # {}
  <2>1. DOMAIN scenario = 1 .. Len(scenario)
    BY InSuiteSteps DEF StruckInv
  <2>. QED
    BY <2>1 DEF EveryBoundaryStruck
<1>. DEFINE s == scenario[i]
            hit(p) == {b.arrival : b \in {c \in struck : c.step = i /\ c.point = p}}
<1>1. /\ scenario \in Seq(Step) /\ s \in Step /\ s.ops \in Nat /\ Len(Groups(s)) \in Nat
      /\ Len(Variants) \in Nat /\ i \in DOMAIN scenario
  <2>1. scenario \in Seq(Step) /\ Len(Variants) \in Nat /\ s \in Step
    BY InSuiteSteps DEF StruckInv
  <2>2. i \in DOMAIN scenario
    BY <2>1
  <2>3. s.ops \in Nat
    BY <2>1 DEF Step
  <2>. QED
    BY <2>1, <2>2, <2>3, GroupsCounted
<1>2. \A v \in 1 .. Len(Variants) : HasStruck(v, i)
  BY DEF StruckInv, StruckSoFar
<1>3. s.ops = 0 => Len(Groups(s)) = 0 /\ 1 .. Len(Groups(s)) = {} /\ 1 .. s.ops = {}
  <2>1. s.ops = 0 => s.units = <<>>
    BY <1>1 DEF StruckInv, InSuite, UnitsHaveOps
  <2>. QED
    BY <1>1, <2>1, GroupsCounted
<1>4. ASSUME NEW k \in 1 .. Len(Groups(s))
      PROVE  k \in hit("after_append")
  <2>. DEFINE f == [point |-> "after_append", arrival |-> k]
  <2>1. PICK v \in 1 .. Len(Variants) : Variants[v] = f
    BY <1>1, VariantsAre DEF Variants
  <2>2. CrashOf(s, f) = f
    BY <1>1, <1>3, CrashOfOwn
  <2>3. PICK b \in struck : b.step = i /\ b.point = "after_append" /\ b.arrival = k
    BY <1>2, <2>1, <2>2 DEF HasStruck, NoFault
  <2>. QED
    BY <2>3
<1>5. ASSUME NEW k \in 1 .. s.ops
      PROVE  k \in hit("after_apply")
  <2>. DEFINE f == [point |-> "after_apply", arrival |-> k]
  <2>1. PICK v \in 1 .. Len(Variants) : Variants[v] = f
    BY <1>1, VariantsAre DEF Variants
  <2>2. CrashOf(s, f) = f
    BY <1>1, CrashOfOwn
  <2>3. PICK b \in struck : b.step = i /\ b.point = "after_apply" /\ b.arrival = k
    BY <1>2, <2>1, <2>2 DEF HasStruck, NoFault
  <2>. QED
    BY <2>3
<1>6. ASSUME Tearable(s)
      PROVE  hit("torn_append") # {}
  <2>. DEFINE f == [point |-> "torn_append", arrival |-> 1]
  <2>1. PICK v \in 1 .. Len(Variants) : Variants[v] = f
    BY <1>1, <1>6, VariantsAre DEF Variants
  <2>2. Len(Groups(s)) # 0
    BY <1>1, <1>6, GroupsCounted DEF Tearable
  <2>3. CrashOf(s, f) = f
    BY <1>1, <1>3, <1>6, <2>2, CrashOfOwn
  <2>4. PICK b \in struck : b.step = i /\ b.point = "torn_append"
    BY <1>2, <2>1, <2>3 DEF HasStruck, NoFault
  <2>. QED
    BY <2>4
<1>7. hit("after_append") \subseteq 1 .. Len(Groups(s)) /\ hit("after_apply") \subseteq 1 .. s.ops
  BY DEF StruckInv, StruckAtOwn
<1>. QED
  BY <1>4, <1>5, <1>6, <1>7

\* In a suite that passes, every step has died after each append, after each
\* apply and inside its first unit, in some run (testing.py, crash_variants),
\* however many steps and ops there are.
THEOREM EveryBoundary ==
  ASSUME UnitsHaveOps
  PROVE  SuiteSpec => []EveryBoundaryStruck
<1>1. StruckInv => EveryBoundaryStruck
  BY PassedStruckAll
<1>. QED
  BY <1>1, StruckHolds, PTL
-----------------------------------------------------------------------------
(* The types of the crash proof.                                             *)

\* Addition as the step of a fold.
PlusStep == [p \in Nat \X Nat |-> p[1] + p[2]]

\* A sum of numbers is a number.
LEMMA TotalIsNat ==
  ASSUME NEW s \in Seq(Nat)
  PROVE  Total(s) \in Nat
<1>. DEFINE n == Len(s)
            P(iter) == iter = [t \in SUBSET (1 .. n) |->
                          IF t = {} THEN 0 ELSE iter[t \ {Max(t)}] + s[Max(t)]]
            iter == CHOOSE f : P(f)
<1>1. n \in Nat /\ DOMAIN s = 1 .. n /\ \A i \in 1 .. n : s[i] \in Nat
  OBVIOUS
<1>2. Total(s) = iter[1 .. n]
  <2>1. Total(s) =
          (CHOOSE f : f = [t \in SUBSET DOMAIN s |->
             IF t = {} THEN 0 ELSE f[t \ {Max(t)}] + s[Max(t)]])[DOMAIN s]
    BY DEF Total, FoldLeft, MapThenFoldSet
  <2>. QED
    BY <1>1, <2>1
<1>3. Foldable(Nat, Nat, 0, s, PlusStep)
  BY DEF Foldable, PlusStep
<1>4. PICK f \in [SUBSET (1 .. n) -> Nat] : Recursion(f, 0, s, PlusStep)
  BY <1>3, RecursionExists
<1>5. P(f)
  <2>1. ASSUME NEW t \in SUBSET (1 .. n), t # {}
        PROVE  PlusStep[<<f[t \ {Max(t)}], s[Max(t)]>>] = f[t \ {Max(t)}] + s[Max(t)]
    <3>1. Max(t) \in 1 .. n
      BY <1>1, <2>1, MaxOfPositions
    <3>2. <<f[t \ {Max(t)}], s[Max(t)]>> \in Nat \X Nat
      BY <1>1, <3>1
    <3>. QED
      BY <3>2 DEF PlusStep
  <2>. QED
    BY <1>4, <2>1 DEF Recursion
<1>6. P(iter)
  <2>. HIDE DEF P
  <2>. QED
    BY <1>5
<1>. HIDE DEF iter
<1>7. iter[{}] = 0
  <2>1. {} \in SUBSET (1 .. n)
    OBVIOUS
  <2>. QED
    BY <1>6, <2>1
<1>8. ASSUME NEW m \in 1 .. n, iter[1 .. (m - 1)] \in Nat
      PROVE  iter[1 .. m] = PlusStep[<<iter[1 .. (m - 1)], s[m]>>]
  <2>1. /\ (1 .. m) \in SUBSET (1 .. n) /\ (1 .. m) # {}
        /\ Max(1 .. m) = m /\ (1 .. m) \ {m} = 1 .. (m - 1)
    BY <1>1, FirstPositions
  <2>2. iter[1 .. m] = iter[1 .. (m - 1)] + s[m]
    BY <1>6, <2>1
  <2>. QED
    BY <1>1, <1>8, <2>2 DEF PlusStep
<1>9. iter[1 .. n] = Folded(Nat, 0, s, PlusStep)
  <2>. DEFINE N == Nat
              z == 0
  <2>1. /\ Foldable(N, N, z, s, PlusStep) /\ iter[{}] = z
        /\ \A m \in 1 .. Len(s) : iter[1 .. (m - 1)] \in N =>
             iter[1 .. m] = PlusStep[<<iter[1 .. (m - 1)], s[m]>>]
    BY <1>3, <1>7, <1>8
  <2>2. iter[1 .. Len(s)] = Folded(N, z, s, PlusStep)
    <3>. HIDE DEF N, z
    <3>. QED
      BY <2>1, FoldedByPositions
  <2>. QED
    BY <2>2
<1>10. Folded(Nat, 0, s, PlusStep) \in Nat
  BY <1>3, FoldedRun
<1>. QED
  BY <1>2, <1>9, <1>10

\* The ops of an append are numbers, and finitely many.
LEMMA OpsOfAreNat ==
  ASSUME NEW s \in Seq(Nat), NEW g \in 1 .. Len(s)
  PROVE  OpsOf(s, g) \subseteq Nat /\ IsFiniteSet(OpsOf(s, g))
<1>. DEFINE before == Total(SubSeq(s, 1, g - 1))
<1>1. SubSeq(s, 1, g - 1) \in Seq(Nat) /\ s[g] \in Nat
  OBVIOUS
<1>2. before \in Nat
  BY <1>1, TotalIsNat
<1>3. OpsOf(s, g) = before + 1 .. before + s[g]
  BY DEF OpsOf
<1>. HIDE DEF before
<1>4. before + 1 \in Int /\ before + s[g] \in Int
  BY <1>1, <1>2
<1>5. IsFiniteSet(before + 1 .. before + s[g])
  BY <1>4, FS_Interval
<1>6. before + 1 .. before + s[g] \subseteq Nat
  BY <1>1, <1>2
<1>. QED
  BY <1>3, <1>5, <1>6

\* Every place among numbers is that of one of them.
LEMMA PlacesTaken ==
  ASSUME NEW n \in Nat, NEW S \in SUBSET (1 .. n)
  PROVE  /\ Cardinality(S) \in Nat
         /\ \A i \in 1 .. Cardinality(S) : \E x \in S : Cardinality({y \in S : y < x}) = i - 1
<1>. DEFINE full(T) == /\ IsFiniteSet(T) /\ Cardinality(T) \in Nat
                       /\ \A i \in 1 .. Cardinality(T) : \E x \in T : Cardinality({y \in T : y < x}) = i - 1
            done == {m \in Nat : \A T \in SUBSET (1 .. m) : full(T)}
<1>1. 0 \in done
  <2>. SUFFICES ASSUME NEW T \in SUBSET (1 .. 0) PROVE full(T)
    OBVIOUS
  <2>1. T = {}
    OBVIOUS
  <2>2. IsFiniteSet(T) /\ Cardinality(T) = 0
    BY <2>1, FS_EmptySet
  <2>. QED
    BY <2>2
<1>2. ASSUME NEW m \in Nat, m \in done
      PROVE  m + 1 \in done
  <2>. SUFFICES ASSUME NEW T \in SUBSET (1 .. m + 1) PROVE full(T)
    OBVIOUS
  <2>. DEFINE U == T \ {m + 1}
  <2>1. U \in SUBSET (1 .. m)
    OBVIOUS
  <2>2. full(U)
    BY <1>2, <2>1
  <2>3. CASE m + 1 \notin T
    <3>1. T = U
      BY <2>3
    <3>. HIDE DEF U
    <3>. QED
      BY <2>2, <3>1
  <2>4. CASE m + 1 \in T
    <3>1. T = U \cup {m + 1} /\ m + 1 \notin U
      BY <2>4
    <3>2. \A x \in U : {y \in T : y < x} = {y \in U : y < x}
      BY <2>1
    <3>3. {y \in T : y < m + 1} = U
      <4>1. \A y \in T : y < m + 1 <=> y \in U
        BY <2>1
      <4>2. U \subseteq T
        OBVIOUS
      <4>. HIDE DEF U
      <4>. QED
        BY <4>1, <4>2
    <3>. HIDE DEF U
    <3>4. IsFiniteSet(T) /\ Cardinality(T) = Cardinality(U) + 1
      BY <2>2, <3>1, FS_AddElement
    <3>5. ASSUME NEW i \in 1 .. Cardinality(T)
          PROVE  \E x \in T : Cardinality({y \in T : y < x}) = i - 1
      <4>1. CASE i <= Cardinality(U)
        <5>0. i \in 1 .. Cardinality(U)
          BY <2>2, <4>1
        <5>1. PICK x \in U : Cardinality({y \in U : y < x}) = i - 1
          BY <2>2, <5>0
        <5>2. x \in T /\ {y \in T : y < x} = {y \in U : y < x}
          BY <3>1, <3>2
        <5>. QED
          BY <5>1, <5>2
      <4>2. CASE i > Cardinality(U)
        <5>1. i - 1 = Cardinality(U)
          BY <2>2, <3>4, <4>2
        <5>2. m + 1 \in T
          BY <2>4
        <5>. QED
          BY <3>3, <5>1, <5>2
      <4>. QED
        BY <2>2, <4>1, <4>2
    <3>. QED
      BY <2>2, <3>4, <3>5
  <2>. QED
    BY <2>3, <2>4
<1>3. n \in done
  <2>. HIDE DEF done
  <2>. QED
    BY <1>1, <1>2, SetInduction
<1>. QED
  BY <1>3

\* So an append's ops in their order are its ops.
LEMMA InOrderOfOps ==
  ASSUME NEW s \in Seq(Nat), NEW g \in 1 .. Len(s), NEW T \in SUBSET OpsOf(s, g)
  PROVE  InOrder(T) \in Seq(Nat)
<1>. DEFINE before == Total(SubSeq(s, 1, g - 1))
            n == before + s[g]
<1>1. SubSeq(s, 1, g - 1) \in Seq(Nat) /\ s[g] \in Nat
  OBVIOUS
<1>2. before \in Nat
  BY <1>1, TotalIsNat
<1>3. OpsOf(s, g) = before + 1 .. n
  BY DEF OpsOf
<1>. HIDE DEF before
<1>4. n \in Nat /\ before + 1 .. n \subseteq 1 .. n
  BY <1>1, <1>2
<1>. HIDE DEF n
<1>5. T \in SUBSET (1 .. n) /\ \A x \in T : x \in Nat
  BY <1>3, <1>4
<1>6. /\ Cardinality(T) \in Nat
      /\ \A i \in 1 .. Cardinality(T) : \E x \in T : Cardinality({y \in T : y < x}) = i - 1
  BY <1>4, <1>5, PlacesTaken
<1>7. \A i \in 1 .. Cardinality(T) : (CHOOSE x \in T : Cardinality({y \in T : y < x}) = i - 1) \in Nat
  BY <1>5, <1>6
<1>8. InOrder(T) = [i \in 1 .. Cardinality(T) |-> CHOOSE x \in T : Cardinality({y \in T : y < x}) = i - 1]
  BY DEF InOrder
<1>. DEFINE c == Cardinality(T)
            nth(i) == CHOOSE x \in T : Cardinality({y \in T : y < x}) = i - 1
<1>9. c \in Nat /\ InOrder(T) = [i \in 1 .. c |-> nth(i)] /\ \A i \in 1 .. c : nth(i) \in Nat
  BY <1>6, <1>7, <1>8
<1>. HIDE DEF c, nth
<1>10. [i \in 1 .. c |-> nth(i)] \in [1 .. c -> Nat]
  BY <1>9
<1>11. [1 .. c -> Nat] \subseteq Seq(Nat)
  BY <1>9
<1>. QED
  BY <1>9, <1>10, <1>11

\* What a child can be armed with, or is not.
Fault == [point: Points, arrival: Nat]

\* The append a call makes next is its first, or a later one.
Typed == SuiteTypeOK /\ group # 0

\* A crash is one a child can be armed with.
LEMMA CrashTyped ==
  ASSUME StruckInv, Stepping, variant # 0
  PROVE  CrashOf(Now, Variants[variant]) \in Fault
<1>1. Now \in Step /\ Variants[variant] \in Boundary
  BY InSuiteSteps DEF StruckInv, InSuite, Stepping, Now
<1>2. NoFault \in Fault /\ Boundary \subseteq Fault
  BY DEF NoFault, Fault, Boundary, Points
<1>. QED
  BY <1>1, <1>2, CrashIsBoundary

\* A call's plan is of numbers, and can be put in order.
LEMMA PlanTyped ==
  ASSUME StruckInv, Typed, Calling
  PROVE  ToAppend \subseteq Nat /\ InOrder(ToAppend) \in Seq(Nat)
<1>1. Now \in Step /\ Now.lands \in Seq(Nat)
  <2>1. InSuite /\ at \in 1 .. Len(scenario) + 1
    BY DEF StruckInv, InSuite
  <2>2. at <= Len(scenario)
    BY DEF Calling, Running, Stepping
  <2>3. Len(scenario) \in Nat /\ \A i \in 1 .. Len(scenario) : scenario[i] \in Step
    BY <2>1, InSuiteSteps
  <2>4. scenario[at] \in Step
    BY <2>1, <2>2, <2>3
  <2>5. \A s \in Step : s.lands \in Seq(Nat)
    BY DEF Step
  <2>. QED
    BY <2>4, <2>5 DEF Now
<1>2. group \in 1 .. Len(Now.lands)
  <2>1. group \in Nat /\ group # 0
    BY DEF Typed, SuiteTypeOK
  <2>2. Len(Now.lands) \in Nat
    BY <1>1
  <2>3. group <= Len(Now.lands)
    BY DEF Calling
  <2>. QED
    BY <2>1, <2>2, <2>3
<1>3. ToAppend \in SUBSET OpsOf(Now.lands, group)
  BY DEF ToAppend
<1>. QED
  BY <1>1, <1>2, <1>3, OpsOfAreNat, InOrderOfOps

\* The start.
LEMMA TypedInit == SuiteInit => Typed
<1>. SUFFICES ASSUME SuiteInit PROVE Typed
  OBVIOUS
<1>1. count = [f \in {} |-> 0] /\ landed = <<>> /\ struck = {} /\ added = {}
  BY DEF SuiteInit
<1>2. DOMAIN count = {} /\ landed \in Seq([step: Nat, op: Nat, unit: Nat])
      /\ added \subseteq Nat /\ struck \subseteq [step: Nat, point: Points, arrival: Nat]
  BY <1>1
<1>3. fault \in [point: Points, arrival: Nat] /\ arrivals \in [append: Nat, apply: Nat]
  BY DEF SuiteInit, NoFault, Points
<1>4. verdict \in {"open", "passed", "failed"}
  BY DEF SuiteInit
<1>5. cut \in BOOLEAN /\ sealed \in BOOLEAN
  <2>1. cut = FALSE /\ sealed = FALSE
    BY DEF SuiteInit
  <2>. QED
    BY <2>1, Zenon
<1>. QED
  BY <1>2, <1>3, <1>4, <1>5 DEF SuiteInit, Typed, SuiteTypeOK

\* No child is of the right types.
LEMMA NoChildTyped ==
  ASSUME NoChild
  PROVE  /\ child' \in {"none", "call", "again", "heal"} /\ ended' \in {"no", "died", "exited"}
         /\ fault' \in Fault /\ group' \in Nat /\ group' # 0 /\ added' \subseteq Nat
         /\ arrivals' \in [append: Nat, apply: Nat] /\ healed' \in Nat /\ sealed' \in BOOLEAN
<1>1. fault' \in Fault
  BY DEF NoChild, NoFault, Fault, Points
<1>2. arrivals' \in [append: Nat, apply: Nat]
  BY DEF NoChild
<1>3. sealed' \in BOOLEAN
  <2>1. sealed' = FALSE
    BY DEF NoChild
  <2>. QED
    BY <2>1, Zenon
<1>. QED
  BY <1>1, <1>2, <1>3 DEF NoChild

\* A child begins.
LEMMA SpawnTyped ==
  ASSUME Typed, NEW c \in {"call", "again", "heal"}, NEW f \in Fault, Spawn(c, f)
  PROVE  Typed'
<1>1. /\ child' = c /\ ended' = "no" /\ fault' \in Fault /\ group' = 1 /\ added' = {} /\ healed' = 0
      /\ arrivals' = [append |-> 0, apply |-> 0] /\ sealed' = cut /\ cut' = FALSE
  BY DEF Spawn
<1>2. UNCHANGED <<variant, at, landed, count, applied, struck, verdict>>
  BY DEF Spawn, suite, store
<1>3. arrivals' \in [append: Nat, apply: Nat] /\ added' \subseteq Nat /\ sealed' \in BOOLEAN
  BY <1>1 DEF Typed, SuiteTypeOK
<1>4. cut' \in BOOLEAN
  BY <1>1, Zenon
<1>5. /\ variant \in Nat /\ at \in Nat \ {0}
      /\ landed \in Seq([step: Nat, op: Nat, unit: Nat])
      /\ \A x \in DOMAIN count : count[x] \in Nat
      /\ applied \in Nat
      /\ struck \subseteq [step: Nat, point: Points, arrival: Nat]
      /\ verdict \in {"open", "passed", "failed"}
  BY DEF Typed, SuiteTypeOK
<1>. QED
  BY <1>1, <1>2, <1>3, <1>4, <1>5 DEF Typed, SuiteTypeOK, Fault

\* Counting one more keeps counts numbers.
LEMMA CountTyped ==
  ASSUME NEW c, NEW x \in DOMAIN c, \A y \in DOMAIN c : c[y] \in Nat
  PROVE  \A y \in DOMAIN [c EXCEPT ![x] = c[x] + 1] : [c EXCEPT ![x] = c[x] + 1][y] \in Nat
<1>. DEFINE d == [c EXCEPT ![x] = c[x] + 1]
<1>1. DOMAIN d = DOMAIN c /\ \A y \in DOMAIN c : d[y] = IF y = x THEN c[x] + 1 ELSE c[y]
  OBVIOUS
<1>. HIDE DEF d
<1>2. \A y \in DOMAIN d : d[y] \in Nat
  BY <1>1
<1>. QED
  BY <1>2 DEF d

\* A record is applied.
LEMMA ApplyTyped ==
  ASSUME StruckInv, Typed, Apply
  PROVE  Typed'
<1>. DEFINE r == landed[applied + 1]
            f == <<r.step, r.op>>
            k == arrivals.apply + 1
<1>0. arrivals \in [append: Nat, apply: Nat] /\ healed \in Nat
  BY DEF Typed, SuiteTypeOK
<1>1. k \in Nat /\ arrivals' \in [append: Nat, apply: Nat] /\ healed' \in Nat
  <2>1. arrivals' = [arrivals EXCEPT !.apply = k]
    BY DEF Apply
  <2>2. healed' = healed + 1 \/ healed' = healed
    BY DEF Apply
  <2>. QED
    BY <1>0, <2>1, <2>2
<1>2. \A g \in DOMAIN count' : count'[g] \in Nat
  <2>. HIDE DEF f
  <2>1. CASE f \notin DOMAIN count
    <3>1. count' = [g \in DOMAIN count \cup {f} |-> IF g = f THEN 1 ELSE count[g]]
      BY <2>1 DEF Apply, f
    <3>. QED
      BY <3>1 DEF Typed, SuiteTypeOK
  <2>2. CASE f \in DOMAIN count /\ r.op \in scenario[r.step].fragile
    <3>1. count' = [count EXCEPT ![f] = count[f] + 1]
      BY <2>2 DEF Apply, f
    <3>2. \A g \in DOMAIN count : count[g] \in Nat
      BY DEF Typed, SuiteTypeOK
    <3>. QED
      BY <2>2, <3>1, <3>2, CountTyped
  <2>3. CASE f \in DOMAIN count /\ r.op \notin scenario[r.step].fragile
    <3>1. count' = count
      BY <2>3 DEF Apply, f
    <3>. QED
      BY <3>1 DEF Typed, SuiteTypeOK
  <2>. QED
    BY <2>1, <2>2, <2>3
<1>3. /\ applied' \in Nat
      /\ ended' \in {"no", "died", "exited"}
      /\ struck' \subseteq [step: Nat, point: Points, arrival: Nat]
  <2>1. CASE ArmedAt("after_apply", k)
    <3>1. applied' = applied /\ Dies("after_apply", k)
      BY <2>1 DEF Apply
    <3>. QED
      BY <1>1, <3>1 DEF Dies, Typed, SuiteTypeOK, Points
  <2>2. CASE ~ ArmedAt("after_apply", k)
    <3>1. applied' = applied + 1 /\ Lives
      BY <2>2 DEF Apply
    <3>. QED
      BY <3>1 DEF Lives, Typed, SuiteTypeOK
  <2>. QED
    BY <2>1, <2>2
<1>4. UNCHANGED <<variant, at, child, fault, group, added, sealed, landed, cut, verdict>>
  BY DEF Apply, suite, files
<1>. QED
  BY <1>1, <1>2, <1>3, <1>4 DEF Typed, SuiteTypeOK

\* An append lands, or is cut short.
LEMMA LandTyped ==
  ASSUME StruckInv, Typed, Land
  PROVE  Typed'
<1>. DEFINE k    == arrivals.append + 1
            unit == IF Cardinality(ToAppend) > 1 THEN Len(landed) + 1 ELSE 0
            ops  == InOrder(ToAppend)
            new  == [i \in DOMAIN ops |-> [step |-> at, op |-> ops[i], unit |-> unit]]
            Record == [step: Nat, op: Nat, unit: Nat]
<1>1. ToAppend \subseteq Nat /\ ops \in Seq(Nat)
  BY PlanTyped DEF Land
<1>2. k \in Nat /\ unit \in Nat /\ at \in Nat /\ group \in Nat /\ group + 1 \in Nat /\ group + 1 # 0
      /\ landed \in Seq(Record)
  BY DEF Typed, SuiteTypeOK
<1>3. new \in Seq(Record)
  <2>. DEFINE n == Len(ops)
  <2>1. DOMAIN ops = 1 .. n /\ n \in Nat /\ \A i \in 1 .. n : ops[i] \in Nat
    BY <1>1
  <2>2. new = [i \in 1 .. n |-> [step |-> at, op |-> ops[i], unit |-> unit]]
    BY <2>1
  <2>. HIDE DEF ops, unit, new, n
  <2>3. \A i \in 1 .. n : [step |-> at, op |-> ops[i], unit |-> unit] \in Record
    BY <1>2, <2>1
  <2>. HIDE DEF Record
  <2>. QED
    BY <2>1, <2>2, <2>3
<1>4. landed \o new \in Seq(Record)
  <2>. HIDE DEF new, Record
  <2>. QED
    BY <1>2, <1>3
<1>5. UNCHANGED <<variant, at, child, fault, healed, sealed, count, applied, verdict>>
  BY DEF Land, suite, store
<1>6. CASE /\ Dies("torn_append", group) /\ cut' = TRUE
           /\ UNCHANGED <<group, added, arrivals, landed>>
  <2>1. ended' = "died" /\ struck' \subseteq [step: Nat, point: Points, arrival: Nat]
    BY <1>2, <1>6 DEF Dies, Typed, SuiteTypeOK, Points
  <2>. QED
    BY <1>5, <1>6, <2>1 DEF Typed, SuiteTypeOK
<1>7. CASE /\ landed' = landed \o new
           /\ added' = added \cup ToAppend
           /\ arrivals' = [arrivals EXCEPT !.append = k]
           /\ group' = group + 1
           /\ Dies("after_append", k) \/ Lives
           /\ UNCHANGED cut
  <2>1. ended' \in {"no", "died", "exited"} /\ struck' \subseteq [step: Nat, point: Points, arrival: Nat]
    BY <1>2, <1>7 DEF Dies, Lives, Typed, SuiteTypeOK, Points
  <2>2. arrivals' \in [append: Nat, apply: Nat] /\ added' \subseteq Nat
    BY <1>1, <1>2, <1>7 DEF Typed, SuiteTypeOK
  <2>3. landed' \in Seq(Record)
    BY <1>4, <1>7
  <2>. HIDE DEF k, new
  <2>. QED
    BY <1>2, <1>5, <1>7, <2>1, <2>2, <2>3 DEF Typed, SuiteTypeOK
<1>8. \/ /\ Dies("torn_append", group) /\ cut' = TRUE
         /\ UNCHANGED <<group, added, arrivals, landed>>
      \/ /\ landed' = landed \o new
         /\ added' = added \cup ToAppend
         /\ arrivals' = [arrivals EXCEPT !.append = k]
         /\ group' = group + 1
         /\ Dies("after_append", k) \/ Lives
         /\ UNCHANGED cut
  BY DEF Land
<1>. QED
  BY <1>6, <1>7, <1>8

\* A plan appends nothing, or a child exits.
LEMMA QuietTyped ==
  ASSUME Typed, PlanEmpty \/ Exit
  PROVE  Typed'
<1>1. /\ UNCHANGED <<variant, at, child, fault, added, arrivals, healed, sealed, landed, cut,
                      count, applied, struck, verdict>>
      /\ group' = group + 1 \/ group' = group
      /\ ended' = "exited" \/ ended' = ended
  BY DEF PlanEmpty, Exit, suite, files, store
<1>2. group \in Nat /\ group # 0 => group + 1 \in Nat /\ group + 1 # 0
  OBVIOUS
<1>3. SuiteTypeOK /\ group \in Nat /\ group # 0 /\ ended \in {"no", "died", "exited"}
  BY DEF Typed, SuiteTypeOK
<1>4. group' \in Nat /\ group' # 0 /\ ended' \in {"no", "died", "exited"}
  BY <1>1, <1>2, <1>3
<1>. QED
  BY <1>1, <1>3, <1>4 DEF Typed, SuiteTypeOK

\* The suite goes on to the next step or run, or stops.
LEMMA SuiteTyped ==
  ASSUME StruckInv, Typed, Fail \/ StepDone \/ RunDone
  PROVE  Typed'
<1>1. NoChild
  BY DEF Fail, StepDone, RunDone
<1>2. CASE Fail
  BY <1>1, <1>2, NoChildTyped DEF Fail, suite, files, store, Typed, SuiteTypeOK, Fault
<1>3. CASE StepDone
  BY <1>1, <1>3, NoChildTyped DEF StepDone, files, store, Typed, SuiteTypeOK, Fault
<1>4. CASE RunDone
  <2>1. landed' \in Seq([step: Nat, op: Nat, unit: Nat]) /\ cut' \in BOOLEAN
        /\ DOMAIN count' = {} /\ applied' \in Nat
    <3>1. landed' = <<>> /\ cut' = FALSE /\ count' = [f \in {} |-> 0] /\ applied' = 0
      BY <1>4 DEF RunDone, FreshRun
    <3>2. cut' \in BOOLEAN
      BY <3>1, Zenon
    <3>. QED
      BY <3>1, <3>2
  <2>2. variant' \in Nat /\ at' \in Nat \ {0} /\ verdict' \in {"open", "passed", "failed"} /\ struck' = struck
    BY <1>4 DEF RunDone, Typed, SuiteTypeOK
  <2>. QED
    BY <1>1, <2>1, <2>2, NoChildTyped DEF Typed, SuiteTypeOK, Fault
<1>. QED
  BY <1>2, <1>3, <1>4

\* Every variable has its type, in the suite of every scenario.
THEOREM SuiteTypeCorrect == SuiteSpec => []SuiteTypeOK
<1>1. SuiteInit => Typed
  BY TypedInit
<1>2. StruckInv /\ Typed /\ [SuiteNext]_suiteVars => Typed'
  <2>. SUFFICES ASSUME StruckInv, Typed, [SuiteNext]_suiteVars
                PROVE  Typed'
    OBVIOUS
  <2>0. NoFault \in Fault
    BY DEF NoFault, Fault, Points
  <2>1. CASE SpawnStep
    <3>1. (IF variant = 0 THEN NoFault ELSE CrashOf(Now, CrashVariants(scenario)[variant])) \in Fault
      BY <2>0, <2>1, CrashTyped DEF SpawnStep, Variants
    <3>. QED
      BY <2>1, <3>1, SpawnTyped DEF SpawnStep
  <2>2. CASE SpawnAgain \/ SpawnHeal
    BY <2>0, <2>2, SpawnTyped DEF SpawnAgain, SpawnHeal
  <2>3. CASE NotCrashed \/ StepFails \/ RunFails \/ StepDone \/ RunDone
    BY <2>3, SuiteTyped DEF NotCrashed, StepFails, RunFails
  <2>4. CASE Apply
    BY <2>4, ApplyTyped
  <2>5. CASE Land
    BY <2>5, LandTyped
  <2>6. CASE PlanEmpty \/ Exit
    BY <2>6, QuietTyped
  <2>7. CASE UNCHANGED suiteVars
    BY <2>7 DEF suiteVars, Typed, SuiteTypeOK
  <2>. QED
    BY <2>1, <2>2, <2>3, <2>4, <2>5, <2>6, <2>7 DEF SuiteNext
<1>3. Typed => SuiteTypeOK
  BY DEF Typed
<1>. QED
  BY <1>1, <1>2, <1>3, StruckHolds, PTL DEF SuiteSpec

=============================================================================
