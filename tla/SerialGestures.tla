--------------------------- MODULE SerialGestures ---------------------------
(***************************************************************************)
(* What the write order promises its callers, with no lock, no cursor, no  *)
(* crash and no partial apply: gestures happen one at a time.  A gesture   *)
(* plans every write it makes against the graph all earlier gestures left, *)
(* and all its ops land at once (journal.py, write_window; a call and each *)
(* write of a plain window are gestures of one op).                        *)
(***************************************************************************)
EXTENDS GraphStore, Sequences, SequencesExt

CONSTANT Bodies      \* what callers ask for: a set of bodies of ops

VARIABLES
  log,               \* every op landed, in order
  committed          \* the graph they make

Init == log = <<>> /\ committed = EmptyGraph

\* The op is some caller's request, planned against this graph and not refused.
PlannedOn(g, op) ==
  \E b \in Bodies : /\ ~PlanRefuses(g, b)
                    /\ ~PlanIsEmpty(g, b)
                    /\ op.body = Planned(g, b)

Gesture(ops) ==
  /\ ops # <<>>
  /\ \A i \in 1 .. Len(ops) : PlannedOn(committed, ops[i])
  /\ log' = log \o ops
  /\ committed' = FoldLeft(ApplyOp, committed, ops)

Next == Gesture(SubSeq(log', Len(log) + 1, Len(log')))

Spec == Init /\ [][Next]_<<log, committed>>

=============================================================================
