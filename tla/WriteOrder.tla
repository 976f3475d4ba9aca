----------------------------- MODULE WriteOrder -----------------------------
(***************************************************************************)
(* The write order on a workflow graph (journal.py): every write is        *)
(* APPENDED to the graph's journal, then APPLIED to the db through the     *)
(* applier replay uses, then the db's applied cursor ADVANCES, all under   *)
(* the journal family's lock; a writer that opens first seals a torn end   *)
(* and applies whatever the journal holds past the cursor.                 *)
(*                                                                         *)
(* Several processes open windows on one family.  A window is              *)
(*   "call"   one journal_extend or journal_op, its op clock read before   *)
(*            the writer opens;                                            *)
(*   "plain"  a write_window: each write inside lands as it is made;       *)
(*   "unit"   a unit window: its writes are buffered and land whole when   *)
(*            it closes;                                                   *)
(*   "nested" a unit window opened inside a plain one.                     *)
(* Two storage writes of one extend are two steps, and a writer may die    *)
(* before every step.  JournalWriter itself lives in another package: its  *)
(* steps are modelled from how journal.py uses it.                         *)
(***************************************************************************)
EXTENDS GraphStore, Sequences, SequencesExt

CONSTANTS
  Writer,      \* processes that write the graph
  NoWriter,    \* the family's lock is free
  Bodies,      \* what callers ask for: a set of bodies of ops
  Windows,     \* kinds of window the callers open
  MaxOps,      \* bound on the journal's length
  MaxTime,     \* bound on the wall clock
  MaxFaults    \* bound on the crashes and failed storage calls

ASSUME BodiesAssumption == Bodies \subseteq Body
ASSUME WindowsAssumption == Windows \subseteq {"call", "plain", "unit"}
ASSUME WriterAssumption == NoWriter \notin Writer
ASSUME BoundsAssumption == MaxOps \in Nat /\ MaxTime \in Nat /\ MaxFaults \in Nat

VARIABLES
  journal,     \* the family's landed records, in append order
  torn,        \* what an append cut short left past the last landed record
  cursor,      \* the db's applied cursor: how many records it stands after
  graph,       \* what the db stores
  lock,        \* the writer that holds the family's lock, or NoWriter
  pc,          \* where each writer stands
  window,      \* the kind of window each writer is in
  clk,         \* the op clock a "call" read when it was made
  batch,       \* the holder's planned ops, not yet appended
  edgesDue,    \* edges the holder's running extend has still to add
  clock,       \* the wall clock
  faults,      \* crashes and failed storage calls so far
  replayed     \* history variable: replayed[i + 1] is the graph a replay into a
               \* fresh db holds after the first i ops of journal \o batch

db == <<cursor, graph>>
file == <<journal, torn>>
holder == <<batch, edgesDue>>
vars == <<journal, torn, cursor, graph, lock, pc, window, clk,
          batch, edgesDue, clock, faults, replayed>>

PC == {"idle", "opening", "catchup", "edges", "advance", "ready", "append"}

WindowKind == {"none", "call", "plain", "unit", "nested", "closing"}

Init ==
  /\ journal = <<>>
  /\ torn = <<>>
  /\ cursor = 0
  /\ graph = EmptyGraph
  /\ lock = NoWriter
  /\ pc = [w \in Writer |-> "idle"]
  /\ window = [w \in Writer |-> "none"]
  /\ clk = [w \in Writer |-> 0]
  /\ batch = <<>>
  /\ edgesDue = {}
  /\ clock = 0
  /\ faults = 0
  /\ replayed = <<EmptyGraph>>

TypeOK ==
  /\ journal \in Seq(Op)
  /\ torn \in Seq(Op)
  /\ cursor \in Nat
  /\ graph \in Graph
  /\ lock \in Writer \cup {NoWriter}
  /\ pc \in [Writer -> PC]
  /\ window \in [Writer -> WindowKind]
  /\ clk \in [Writer -> Time]
  /\ batch \in Seq(Op)
  /\ edgesDue \in SUBSET EdgeId
  /\ clock \in Time
  /\ faults \in Nat
  /\ replayed \in Seq(Graph)

-----------------------------------------------------------------------------
(* Opening and leaving a window. *)

Buffering(w) == window[w] \in {"unit", "nested"}

\* A verb opens its window; journal_extend and journal_op read the op clock
\* before their writer opens, a write inside a window when it is made.
OpenWindow(w, kind) ==
  /\ pc[w] = "idle"
  /\ pc' = [pc EXCEPT ![w] = "opening"]
  /\ window' = [window EXCEPT ![w] = kind]
  /\ clk' = [clk EXCEPT ![w] = IF kind = "call" THEN clock ELSE 0]
  /\ UNCHANGED <<file, db, lock, holder, clock, faults, replayed>>

\* Mutant: a torn end is not sealed off.
OpenWriterUnsealed(w) ==
  /\ pc[w] = "opening"
  /\ lock = NoWriter
  /\ lock' = w
  /\ pc' = [pc EXCEPT ![w] = "catchup"]
  /\ UNCHANGED <<file, db, window, clk, holder, clock, faults, replayed>>

\* Mutant: the verb runs at once, what the journal holds past the cursor left.
OpenWriterUnhealed(w) ==
  /\ pc[w] = "opening"
  /\ lock = NoWriter
  /\ lock' = w
  /\ torn' = <<>>
  /\ pc' = [pc EXCEPT ![w] = "ready"]
  /\ UNCHANGED <<journal, db, window, clk, holder, clock, faults, replayed>>

\* The writer takes the family's lock and seals a torn end off.
OpenWriter(w) ==
  /\ pc[w] = "opening"
  /\ lock = NoWriter
  /\ lock' = w
  /\ torn' = <<>>
  /\ pc' = [pc EXCEPT ![w] = "catchup"]
  /\ UNCHANGED <<journal, db, window, clk, holder, clock, faults, replayed>>

\* The window ends, however it ends: the lock is let go and ops not appended
\* are gone.
Release(w) ==
  /\ lock' = NoWriter
  /\ pc' = [pc EXCEPT ![w] = "idle"]
  /\ window' = [window EXCEPT ![w] = "none"]
  /\ clk' = [clk EXCEPT ![w] = 0]
  /\ batch' = <<>>
  /\ edgesDue' = {}
  /\ replayed' = SubSeq(replayed, 1, Len(journal) + 1)

\* The window closes with nothing to land: every wire was present, or the verb
\* raised (an emission of other content, a failed read, its own refusal) and
\* what a unit buffered is discarded.
Leave(w) ==
  /\ pc[w] = "ready"
  /\ Release(w)
  /\ UNCHANGED <<file, db, clock, faults>>

\* A unit window opened inside a plain writer: it lands at its own close.
OpenUnit(w) ==
  /\ pc[w] = "ready"
  /\ window[w] = "plain"
  /\ "unit" \in Windows
  /\ window' = [window EXCEPT ![w] = "nested"]
  /\ UNCHANGED <<file, db, lock, pc, clk, holder, clock, faults, replayed>>

-----------------------------------------------------------------------------
(* Applying the records past the cursor: a heal, and a landed write. *)

NextOp == journal[cursor + 1]

\* The first storage write of the next record's apply; for a merge or a drop,
\* the only one.  An extend has read what is absent of both kinds by now.
ApplyWrite(w) ==
  /\ pc[w] = "catchup"
  /\ cursor < Len(journal)
  /\ ~Refuses(graph, NextOp)
  /\ IF NextOp.body.verb = "extend"
       THEN /\ graph' = ExtendNodes(graph, NextOp.body, NextOp.ts)
            /\ edgesDue' = AbsentEdges(graph, NextOp.body)
            /\ pc' = [pc EXCEPT ![w] = IF edgesDue' = {} THEN "advance" ELSE "edges"]
       ELSE /\ graph' = ApplyOp(graph, NextOp)
            /\ pc' = [pc EXCEPT ![w] = "advance"]
            /\ UNCHANGED edgesDue
  /\ UNCHANGED <<file, cursor, lock, window, clk, batch, clock, faults, replayed>>

\* Mutant: the edges are stamped with the time they are applied at.
ApplyEdgesNow(w) ==
  /\ pc[w] = "edges"
  /\ graph' = AddEdges(graph, edgesDue, clock)
  /\ edgesDue' = {}
  /\ pc' = [pc EXCEPT ![w] = "advance"]
  /\ UNCHANGED <<file, cursor, lock, window, clk, batch, clock, faults, replayed>>

\* An extend's second storage write.
ApplyEdges(w) ==
  /\ pc[w] = "edges"
  /\ graph' = AddEdges(graph, edgesDue, NextOp.ts)
  /\ edgesDue' = {}
  /\ pc' = [pc EXCEPT ![w] = "advance"]
  /\ UNCHANGED <<file, cursor, lock, window, clk, batch, clock, faults, replayed>>

\* A record over a node of other content: the applier raises and the writer closes.
ApplyRefused(w) ==
  /\ pc[w] = "catchup"
  /\ cursor < Len(journal)
  /\ Refuses(graph, NextOp)
  /\ Release(w)
  /\ UNCHANGED <<file, db, clock, faults>>

\* Mutant: the cursor moves to the journal's end with the first record applied.
AdvanceToEnd(w) ==
  /\ pc[w] = "advance"
  /\ cursor' = Len(journal)
  /\ pc' = [pc EXCEPT ![w] = "catchup"]
  /\ UNCHANGED <<file, graph, lock, window, clk, holder, clock, faults, replayed>>

\* The db's cursor moves past the record just applied.
Advance(w) ==
  /\ pc[w] = "advance"
  /\ cursor' = cursor + 1
  /\ pc' = [pc EXCEPT ![w] = "catchup"]
  /\ UNCHANGED <<file, graph, lock, window, clk, holder, clock, faults, replayed>>

\* Mutant: the verb may plan while records are left past the cursor.
CaughtUpAnyway(w) ==
  /\ pc[w] = "catchup"
  /\ window[w] # "closing"
  /\ pc' = [pc EXCEPT ![w] = "ready"]
  /\ UNCHANGED <<file, db, lock, window, clk, holder, clock, faults, replayed>>

\* Nothing is left past the cursor: the verb may plan, or the landed window closes.
CaughtUp(w) ==
  /\ pc[w] = "catchup"
  /\ cursor = Len(journal)
  /\ window[w] # "closing"
  /\ pc' = [pc EXCEPT ![w] = "ready"]
  /\ UNCHANGED <<file, db, lock, window, clk, holder, clock, faults, replayed>>

CloseLanded(w) ==
  /\ pc[w] = "catchup"
  /\ cursor = Len(journal)
  /\ window[w] = "closing"
  /\ Release(w)
  /\ UNCHANGED <<file, db, clock, faults>>

-----------------------------------------------------------------------------
(* Planning and landing. *)

\* One journal_extend or journal_op in the holder's window, up to its append;
\* in a unit it is buffered and the window goes on.
Plan(w, b) ==
  LET op == [body |-> Planned(graph, b),
             ts   |-> IF window[w] = "call" THEN clk[w] ELSE clock]
  IN  /\ pc[w] = "ready"
      /\ Len(journal) + Len(batch) < MaxOps
      /\ ~PlanRefuses(graph, b)
      /\ ~PlanIsEmpty(graph, b)
      /\ batch' = Append(batch, op)
      /\ replayed' = Append(replayed, ApplyOp(replayed[Len(replayed)], op))
      /\ pc' = [pc EXCEPT ![w] = IF Buffering(w) THEN "ready" ELSE "append"]
      /\ UNCHANGED <<file, db, lock, window, clk, edgesDue, clock, faults>>

\* The unit window closes: what it buffered is to land.
CloseUnit(w) ==
  /\ pc[w] = "ready"
  /\ Buffering(w)
  /\ batch # <<>>
  /\ pc' = [pc EXCEPT ![w] = "append"]
  /\ UNCHANGED <<file, db, lock, window, clk, holder, clock, faults, replayed>>

\* One write to the live tail, after whatever the file's end holds.  A nested
\* unit hands back to its plain window, a call or a unit has only to apply.
AppendOps(w) ==
  /\ pc[w] = "append"
  /\ journal' = journal \o torn \o batch
  /\ torn' = <<>>
  /\ batch' = <<>>
  /\ window' = [window EXCEPT ![w] = IF @ \in {"plain", "nested"} THEN "plain" ELSE "closing"]
  /\ pc' = [pc EXCEPT ![w] = "catchup"]
  /\ UNCHANGED <<db, lock, clk, edgesDue, clock, faults, replayed>>

-----------------------------------------------------------------------------
(* Faults and time. *)

\* The holder dies before its next step, or the storage call it waits on ends
\* without completing and graph_task raises.  An append of two ops or more can
\* leave some of them behind.
Crash(w) ==
  /\ lock = w
  /\ faults < MaxFaults
  /\ faults' = faults + 1
  /\ \/ UNCHANGED torn
     \/ /\ pc[w] = "append"
        /\ \E i \in 1 .. Len(batch) - 1 : torn' = SubSeq(batch, 1, i)
  /\ Release(w)
  /\ UNCHANGED <<journal, db, clock>>

Tick ==
  /\ clock < MaxTime
  /\ clock' = clock + 1
  /\ UNCHANGED <<file, db, lock, pc, window, clk, holder, faults, replayed>>

-----------------------------------------------------------------------------

\* What an open writer does by itself once its caller stops asking for writes.
WriterStep(w) ==
  \/ ApplyWrite(w)
  \/ ApplyEdges(w)
  \/ ApplyRefused(w)
  \/ Advance(w)
  \/ CaughtUp(w)
  \/ CloseLanded(w)
  \/ CloseUnit(w)
  \/ AppendOps(w)
  \/ Leave(w)

Next ==
  \/ \E w \in Writer :
       \/ \E kind \in Windows : OpenWindow(w, kind)
       \/ OpenWriter(w)
       \/ OpenUnit(w)
       \/ \E b \in Bodies : Plan(w, b)
       \/ WriterStep(w)
       \/ Crash(w)
  \/ Tick

Spec == Init /\ [][Next]_vars

\* The code of an open window runs on: nothing in it waits but on the storage
\* queue, whose jobs end.  That a process opens a window is nobody's duty.
Fairness == \A w \in Writer : WF_vars(WriterStep(w))

FairSpec == Spec /\ Fairness

-----------------------------------------------------------------------------
(* Properties. *)

\* A replay of a family into a fresh db: every record applied in append order.
ReplayOf(ops) == FoldLeft(ApplyOp, EmptyGraph, ops)

\* The history variable is what it is said to be: at every landed record, the
\* graph a replay of the journal up to it builds (journal.py, replay_journal).
ReplayedIsReplay ==
  \A i \in 0 .. Len(journal) : replayed[i + 1] = ReplayOf(SubSeq(journal, 1, i))

\* Every window a gesture on the whole journal: see SerialGestures.
Serial == INSTANCE SerialGestures WITH log <- journal, committed <- ReplayOf(journal)

\* Whatever the interleaving and the crashes, the journal is that of gestures
\* made one after another, each planned against the replay of all before it
\* (journal.py, write_window: the verb plans against a db that holds its whole
\* journal).
ImplementsSerial == Serial!Spec

\* The record after the cursor, when there is one, is applied not at all, in
\* its nodes only, or whole.
Boundaries ==
  {replayed[cursor + 1]} \cup
  IF cursor < Len(journal)
    THEN {replayed[cursor + 2]} \cup
         IF NextOp.body.verb = "extend"
           THEN {ExtendNodes(replayed[cursor + 1], NextOp.body, NextOp.ts)} ELSE {}
    ELSE {}

\* The db is never away from its journal by more than the one record a writer
\* was applying, stamps included, whatever crashed and whoever wrote: the
\* cursor stands after applied records only, and nothing past the next one is
\* in the db (journal.py, journal_extend: append, apply, advance).
LiveIsReplay == cursor <= Len(journal) /\ graph \in Boundaries

\* A verb plans against a db that holds its whole journal: the heal before it
\* left nothing behind (journal.py, write_window).
PlanSeesJournal ==
  \A w \in Writer : pc[w] = "ready" =>
    cursor = Len(journal) /\ graph = replayed[Len(journal) + 1]

\* A landed record never refuses to apply: what the plan let through, the apply
\* and every heal after it take (journal.py, journal_op: a planned op is total).
ApplyNeverRefuses ==
  cursor < Len(journal) => ~Refuses(graph, NextOp)

\* No wire is journaled that the records before it already put there: a
\* re-run after any crash journals what is missing and no more (plan_extend).
DeltaOnly ==
  \A i \in 1 .. Len(journal) : journal[i].body.verb = "extend" =>
    LET before == ReplayOf(SubSeq(journal, 1, i - 1))
    IN  /\ AbsentNodes(before, journal[i].body) = Wired(journal[i].body)
        /\ AbsentEdges(before, journal[i].body) = journal[i].body.edges

\* The journal grows only by all the ops of one window's batch, in their order,
\* and nothing landed is ever changed: a crash leaves the whole unit or none of
\* it (write_window with unit=True).
WholeOrNone ==
  [][journal' # journal => \E w \in Writer : pc[w] = "append" /\ journal' = journal \o batch]_vars

\* What a crash left unapplied reaches the db as soon as a writer opens that
\* does not crash in its turn.
HealConverges ==
  \A k \in 1 .. MaxOps :
    (Len(journal) >= k /\ lock # NoWriter /\ faults = MaxFaults) ~> cursor >= k

=============================================================================
