----------------------------- MODULE SpineEdits -----------------------------
(***************************************************************************)
(* Spine edits (edits.py): decisions that prune positions of a text spine, *)
(* replace their text or move words across a boundary, superseded by later *)
(* decisions and never changed, and the effective view that the projection *)
(* reads off the spine and the active ones.                                *)
(*                                                                         *)
(* Deciders work at their own clocks, so a decision may reach the log after *)
(* one that bears a later time.  A text is a sequence of characters, Gap   *)
(* among them: the projection compares characters, not words, and trims.   *)
(***************************************************************************)
EXTENDS Integers, Sequences, SequencesExt

CONSTANTS
  Spine,      \* the unit ids in order
  Original,   \* unit id -> its text in layer 0
  Letter,     \* the characters words are made of
  Gap,        \* the character between words
  NoText,     \* a payload that carries no text
  NoUnit,     \* an id no unit of the spine has
  Contents,   \* what a decision may be: members of Content
  EditId,     \* ids of decisions, random against their order
  MaxTime     \* bound on the deciders' clocks

Unit == {Spine[i] : i \in 1 .. Len(Spine)}

Text == Seq(Letter \cup {Gap})

\* One decision's payload; what its op does not use holds a default.
Content ==
  [op:        {"prune", "replace_text", "boundary_shift"},
   targets:   SUBSET (Unit \cup {NoUnit}),
   text:      Text \cup {NoText},
   left:      Unit \cup {NoUnit},
   direction: {"push", "pull", "unknown"}]

\* A content decided on under an id at a time.
Edit(c, id, at) ==
  [op |-> c.op, targets |-> c.targets, text |-> c.text, left |-> c.left,
   direction |-> c.direction, id |-> id, at |-> at]

ASSUME SpineUnits == Spine \in Seq(Unit) /\ IsInjective(Spine) /\ NoUnit \notin Unit
ASSUME SpineTexts == Original \in [Unit -> Text] /\ Gap \notin Letter /\ NoText \notin Text
ASSUME SpineDecisions ==
  /\ \A c \in Contents : c \in Content
  /\ EditId \subseteq Nat /\ MaxTime \in Nat

VARIABLES
  log,        \* the decisions, in the order they reached the graph
  supersedes, \* <<superseder, superseded>> edges between them
  shown       \* history variable: what a projection of them gives

vars == <<log, supersedes, shown>>

-----------------------------------------------------------------------------
(* Strings. *)

RStrip(t) == SubSeq(t, 1, Max({0} \cup {i \in DOMAIN t : t[i] # Gap}))
LStrip(t) == SubSeq(t, Min({Len(t) + 1} \cup {i \in DOMAIN t : t[i] # Gap}), Len(t))
Strip(t) == LStrip(RStrip(t))

\* Mutant: the junction is a plain concatenation.
JoinedPlain(s, t) == s \o t

\* Two sides of a junction, one space between them unless one is empty.
Joined(s, t) == IF s = <<>> \/ t = <<>> THEN s \o t ELSE s \o <<Gap>> \o t

-----------------------------------------------------------------------------
(* Which decisions stand. *)

\* An id is superseded by being the target of any edge, whatever its source is.
ResolveActive(ids, pairs) == {e \in ids : \A p \in pairs : p[2] # e}

\* Mutant: ids, which are random, come before times.
BeforeById(e, f) == e.id < f.id \/ (e.id = f.id /\ e.at < f.at)

\* The order of application: time, then id.
Before(e, f) == e.at < f.at \/ (e.at = f.at /\ e.id < f.id)

-----------------------------------------------------------------------------
(* The projection: a fold over the active decisions in their order. *)

Place(u) == CHOOSE i \in 1 .. Len(Spine) : Spine[i] = u

\* The layer-0 spine, nothing pruned, no decision refused.
Untouched == [text |-> Original, pruned |-> {}, refused |-> FALSE]

\* Mutant: a replacement without a text stores none.
NewTextBare(e) == e.text

NewText(e) == IF e.text = NoText THEN <<>> ELSE e.text

\* Mutant: a pruned position is emptied when its decision's turn comes.
PruneNow(p, e) ==
  [p EXCEPT !.pruned = @ \cup e.targets,
            !.text = [u \in Unit |-> IF u \in e.targets THEN <<>> ELSE @[u]]]

\* Prunes are collected; the positions drop out at the end.
Prune(p, e) == [p EXCEPT !.pruned = @ \cup e.targets]

\* A target that is no unit of the spine is passed over.
ReplaceText(p, e) ==
  [p EXCEPT !.text = [u \in Unit |-> IF u \in e.targets THEN NewText(e) ELSE @[u]]]

Moved(e) == Strip(NewText(e))

\* Whether a shift names a boundary of the spine, words to move over it and a way.
NamesBoundary(e) ==
  /\ Moved(e) # <<>>
  /\ e.left # NoUnit /\ Place(e.left) < Len(Spine)
  /\ e.direction \in {"push", "pull"}

RightOf(e) == Spine[Place(e.left) + 1]

\* The moved words stand at the boundary, on the side they leave.
Carried(p, e) ==
  IF e.direction = "pull"
    THEN IsPrefix(Moved(e), LStrip(p.text[RightOf(e)]))
    ELSE IsSuffix(Moved(e), RStrip(p.text[e.left]))

\* From the end of the left unit to the start of the right one.
Push(p, e) ==
  LET base == RStrip(p.text[e.left])
  IN  [p EXCEPT !.text[e.left] = RStrip(SubSeq(base, 1, Len(base) - Len(Moved(e)))),
                !.text[RightOf(e)] = Joined(Moved(e), LStrip(@))]

\* Mutant: the words land at the front of the left unit.
PullToFront(p, e) ==
  LET base == LStrip(p.text[RightOf(e)])
  IN  [p EXCEPT !.text[RightOf(e)] = LStrip(SubSeq(base, Len(Moved(e)) + 1, Len(base))),
                !.text[e.left] = Joined(Moved(e), RStrip(@))]

\* The mirror.
Pull(p, e) ==
  LET base == LStrip(p.text[RightOf(e)])
  IN  [p EXCEPT !.text[RightOf(e)] = LStrip(SubSeq(base, Len(Moved(e)) + 1, Len(base))),
                !.text[e.left] = Joined(RStrip(@), Moved(e))]

\* A shift that names no boundary or way, or whose words are not there, raises out
\* of the whole projection.
BoundaryShift(p, e) ==
  IF ~(NamesBoundary(e) /\ Carried(p, e)) THEN [p EXCEPT !.refused = TRUE]
  ELSE IF e.direction = "pull" THEN Pull(p, e) ELSE Push(p, e)

ApplyEdit(p, e) ==
  IF p.refused THEN p
  ELSE CASE e.op = "prune"          -> Prune(p, e)
         [] e.op = "replace_text"   -> ReplaceText(p, e)
         [] e.op = "boundary_shift" -> BoundaryShift(p, e)

\* The decisions among edits that stand.
Active(edits, pairs) == {e \in edits : e.id \in ResolveActive({f.id : f \in edits}, pairs)}

\* Decisions in the order of application.
InOrder(edits) ==
  CHOOSE q \in SetToSeqs(edits) : \A i, j \in DOMAIN q : i < j => Before(q[i], q[j])

Project(edits) == FoldLeft(ApplyEdit, Untouched, InOrder(edits))

\* The positions left, with their texts; their order is the spine's.
View(p) == [u \in Unit \ p.pruned |-> p.text[u]]

-----------------------------------------------------------------------------
(* Deciding. *)

Init ==
  /\ log = <<>>
  /\ supersedes = {}
  /\ shown = Untouched

\* A decision reaches the log, alone or in place of an earlier one.
Decide(c, id, at, replaced) ==
  /\ \A i \in DOMAIN log : log[i].id # id
  /\ replaced \subseteq {log[i].id : i \in DOMAIN log}
  /\ log' = Append(log, Edit(c, id, at))
  /\ supersedes' = supersedes \cup {<<id, r>> : r \in replaced}
  /\ shown' = Project(Active(ToSet(log'), supersedes'))

Next ==
  \E c \in Contents, id \in EditId, at \in 1 .. MaxTime :
    \/ Decide(c, id, at, {})
    \/ \E i \in DOMAIN log : Decide(c, id, at, {log[i].id})

Spec == Init /\ [][Next]_vars

-----------------------------------------------------------------------------
(* Properties. *)

\* Decisions have ids of their own, supersede only what was there before them,
\* and project to texts: a replacement without a text leaves an empty one.
TypeOK ==
  /\ log \in Seq({Edit(c, id, at) : c \in Contents, id \in EditId, at \in 1 .. MaxTime})
  /\ \A i, j \in DOMAIN log : log[i].id = log[j].id => i = j
  /\ \A s \in supersedes : \E i, j \in DOMAIN log : i < j /\ s = <<log[j].id, log[i].id>>
  /\ shown.text \in [Unit -> Text]

\* A character read: a gap counts after a word only, and once.
Read(w, c) == IF c = Gap /\ (w = <<>> \/ Last(w) = Gap) THEN w ELSE Append(w, c)

\* The words of a text, one gap between two of them.
Words(t) == RStrip(FoldLeft(Read, <<>>, t))

\* The word stream of a view.
Stream(view) ==
  Words(FlattenSeq([i \in DOMAIN Spine |->
          IF Spine[i] \in DOMAIN view THEN <<Gap>> \o view[Spine[i]] ELSE <<>>]))

\* The moved words are words of the side they leave, not the end of one.
Whole(p, e) ==
  /\ NamesBoundary(e)
  /\ Carried(p, e)
  /\ IF e.direction = "pull"
       THEN LET base == LStrip(p.text[RightOf(e)])
                rest == SubSeq(base, Len(Moved(e)) + 1, Len(base))
            IN  rest = <<>> \/ Head(rest) = Gap
       ELSE LET base == RStrip(p.text[e.left])
                rest == SubSeq(base, 1, Len(base) - Len(Moved(e)))
            IN  rest = <<>> \/ Last(rest) = Gap

\* Whether both sides of a shift are in the view, or neither.
SidesTogether(p, e) == e.left \in p.pruned <=> RightOf(e) \in p.pruned

\* The step lets one more decision stand, the last in the order of application.
DecidesLast(e) ==
  /\ log' = Append(log, e)
  /\ supersedes' = supersedes
  /\ \A i \in DOMAIN log : Before(log[i], e)

\* A shift decided last moves words and neither loses, repeats, joins nor
\* reorders one: the view reads the same before and after it, as long as the
\* words are whole and the two positions are in the view (edits.py,
\* project_effective_spine: junctions normalize, word-stream invariance).
ShiftKeepsWords ==
  [][LET e == Last(log') IN
     DecidesLast(e) /\ e.op = "boundary_shift" /\ ~shown.refused /\ ~shown'.refused
       /\ Whole(shown, e) /\ SidesTogether(shown, e)
       => Stream(View(shown')) = Stream(View(shown))]_vars

\* The same of every shift the projection accepts, as SpineEdit says: whole
\* words, word-stream alignment, count and positions never change.
WordStreamKept ==
  [][LET e == Last(log') IN
     DecidesLast(e) /\ e.op = "boundary_shift" /\ ~shown.refused /\ ~shown'.refused
       => Stream(View(shown')) = Stream(View(shown))]_vars

\* A shift the other way.
Mirror(e) == [e EXCEPT !.direction = IF @ = "push" THEN "pull" ELSE "push"]

\* Whatever else has been decided, words pushed over a boundary can be pulled
\* back and pulled ones pushed: every position has its words again
\* (edits.py, project_effective_spine: the mirror).
ShiftUndoes ==
  ~shown.refused =>
    \A c \in Contents :
      c.op = "boundary_shift" /\ Whole(shown, c) =>
        LET there == ApplyEdit(shown, c)
            back  == ApplyEdit(there, Mirror(c))
        IN  /\ ~back.refused
            /\ \A u \in Unit : Words(back.text[u]) = Words(shown.text[u])

\* The decisions of one kind on a position that nothing has superseded.
Standing(op, u) ==
  {i \in DOMAIN log : log[i].op = op /\ u \in log[i].targets
                       /\ \A s \in supersedes : s[2] # log[i].id}

\* The latest of some decisions: the last time, and of one time the last id.
Latest(is) ==
  CHOOSE i \in is : \A j \in is :
    log[j].at < log[i].at \/ (log[j].at = log[i].at /\ log[j].id <= log[i].id)

LatestText(u) ==
  LET overrides == Standing("replace_text", u)
  IN  IF overrides = {} THEN Original[u] ELSE NewText(log[Latest(overrides)])

LatestView == [u \in {v \in Unit : Standing("prune", v) = {}} |-> LatestText(u)]

\* Where no shift stands the view needs no fold: every position that no standing
\* prune names, with its latest standing replacement, in whatever order the
\* decisions reached the log; of a chain of superseding ones only the last
\* stands (edits.py, project_effective_spine: replace_text latest-wins emerges
\* from ordering; resolve_active: chains resolve naturally).
LatestWins ==
  (\A i \in DOMAIN log : log[i].op = "boundary_shift" => \E s \in supersedes : s[2] = log[i].id)
    => View(shown) = LatestView

\* A prune drops its positions from the view and changes no other one, whatever
\* its time: a shift or a replacement before or after it still applies as it did
\* (edits.py, project_effective_spine: prunes drop positions at the end).
PruneOnlyDrops ==
  [][LET e == Last(log') IN
     supersedes' = supersedes /\ e.op = "prune" /\ ~shown.refused
       => /\ ~shown'.refused
          /\ View(shown') = Restrict(View(shown), (DOMAIN View(shown)) \ e.targets)]_vars

=============================================================================
