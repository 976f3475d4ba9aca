----------------------------- MODULE CrashProof -----------------------------
(***************************************************************************)
(* The per-verb crash proof (testing.py): a core's scenario is run once    *)
(* uncrashed and once per crash boundary; in each run every step dies at   *)
(* that boundary in a child process and is healed or run again, and what   *)
(* it left is asserted on.                                                 *)
(*                                                                         *)
(* A step is what its core declares of it, and what its verb really does:  *)
(* the proof exists to tell the two apart.  A child is a process that      *)
(* writes through the write order: WriteOrder models it beside others, here *)
(* it is alone and its storage calls are whole.                            *)
(***************************************************************************)
EXTENDS Integers, Sequences, SequencesExt, FiniteSetsExt

CONSTANTS Scenarios  \* sequences of steps

NoFault == [point |-> "none", arrival |-> 0]

\* A step's declaration (ops, unit, retried, units) and its verb: the appends it
\* makes, whether it plans by presence, the ops it plans from the adds of the op
\* before, and the ops whose handler adds again when applied again.
Step == [ops: Nat, unit: BOOLEAN, retried: BOOLEAN, units: Seq(Nat),
         lands: Seq(Nat), presence: BOOLEAN, derived: SUBSET Nat, fragile: SUBSET Nat]

ASSUME ScenariosOfSteps == Scenarios \subseteq Seq(Step)

VARIABLES
  scenario,  \* the steps
  variant,   \* which run of the suite: 0 uncrashed, then one per crash variant
  at,        \* the step it has come to
  child,     \* the child process under way, or "none"
  ended,     \* how that child has ended, if it has
  fault,     \* the crash it is armed with
  group,     \* the append its call makes next
  added,     \* the ops its call has planned
  arrivals,  \* how many appends and applies it has made
  healed,    \* how many records its first writer applied
  sealed,    \* whether it found a torn end, and sealed it off
  landed,    \* the run's journal: its landed records
  cut,       \* whether an append cut short left something past them
  count,     \* the db: step and op -> how often it was applied
  applied,   \* its applied cursor
  struck,    \* history variable: where children have died, in all runs
  verdict    \* "open", "passed", or "failed" at an assertion

suite == <<scenario, variant, at>>
process == <<child, ended, fault, group, added, arrivals, healed, sealed>>
files == <<landed, cut>>
store == <<count, applied>>
suiteVars == <<scenario, variant, at, child, ended, fault, group, added, arrivals,
               healed, sealed, landed, cut, count, applied, struck, verdict>>

-----------------------------------------------------------------------------
(* What a step declares. *)

\* ProofStep.groups: each append's op count.
Groups(s) ==
  IF s.units # <<>> THEN s.units
  ELSE IF s.unit /\ s.ops > 0 THEN <<s.ops>>
  ELSE [i \in 1 .. s.ops |-> 1]

Tearable(s) == \E i \in DOMAIN Groups(s) : Groups(s)[i] > 1

Total(sizes) == FoldLeft(LAMBDA a, b : a + b, 0, sizes)

\* The ops of one append among several.
OpsOf(sizes, g) ==
  LET before == Total(SubSeq(sizes, 1, g - 1)) IN before + 1 .. before + sizes[g]

\* What run_proof asserts of a scenario before it runs anything.
Admitted(s) ==
  /\ s.unit \/ s.retried \/ s.ops <= 1
  /\ Total(Groups(s)) = s.ops
  /\ s.retried \/ s.units = <<>>

Most(sizes) == Max({1} \cup sizes)

Arrivals(point, most) == [k \in 1 .. most |-> [point |-> point, arrival |-> k]]

\* crash_variants: a torn unit, after the k-th append, after the k-th apply.
CrashVariants(steps) ==
  (IF \E i \in DOMAIN steps : Tearable(steps[i]) THEN Arrivals("torn_append", 1) ELSE <<>>)
    \o Arrivals("after_append", Most({Len(Groups(steps[i])) : i \in DOMAIN steps}))
    \o Arrivals("after_apply", Most({steps[i].ops : i \in DOMAIN steps}))

\* Mutant: a step with fewer boundaries is not crashed.
CrashOfExact(s, v) ==
  LET most == CASE v.point = "torn_append" -> IF Tearable(s) THEN 1 ELSE 0
                [] v.point = "after_append" -> Len(Groups(s))
                [] v.point = "after_apply" -> s.ops - 1
  IN  IF v.arrival <= most THEN v ELSE NoFault

\* _crash_of: a step with fewer boundaries than k is crashed at its last.
CrashOf(s, v) ==
  IF s.ops = 0 THEN NoFault
  ELSE CASE v.point = "torn_append" -> IF Tearable(s) THEN v ELSE NoFault
         [] v.point = "after_append" -> [v EXCEPT !.arrival = Min({@, Len(Groups(s))})]
         [] v.point = "after_apply" -> [v EXCEPT !.arrival = Min({@, s.ops})]

\* Mutant: the op that was applied and not counted is forgotten.
WantPast(s, f) == IF s.unit THEN s.ops - (IF f.point = "after_append" THEN 0 ELSE f.arrival) ELSE 1

\* How many records a crashed human step leaves the next writer to apply.
Want(s, f) ==
  IF ~s.unit THEN 1
  ELSE IF f.point = "after_append" THEN s.ops ELSE s.ops - f.arrival + 1

-----------------------------------------------------------------------------
(* The suite. *)

NoChild ==
  /\ child' = "none" /\ ended' = "no" /\ fault' = NoFault
  /\ group' = 1 /\ added' = {} /\ arrivals' = [append |-> 0, apply |-> 0]
  /\ healed' = 0 /\ sealed' = FALSE

FreshRun == landed' = <<>> /\ cut' = FALSE /\ count' = [f \in {} |-> 0] /\ applied' = 0

SuiteInit ==
  /\ scenario \in Scenarios
  /\ variant = 0 /\ at = 1
  /\ child = "none" /\ ended = "no" /\ fault = NoFault
  /\ group = 1 /\ added = {} /\ arrivals = [append |-> 0, apply |-> 0]
  /\ healed = 0 /\ sealed = FALSE
  /\ landed = <<>> /\ cut = FALSE /\ count = [f \in {} |-> 0] /\ applied = 0
  /\ struck = {}
  /\ verdict = IF \A i \in DOMAIN scenario : Admitted(scenario[i]) THEN "open" ELSE "failed"

Now == scenario[at]
Stepping == verdict = "open" /\ at <= Len(scenario)
Ran(c) == Stepping /\ child = c /\ ended # "no"

Fail ==
  /\ verdict' = "failed"
  /\ NoChild
  /\ UNCHANGED <<suite, files, store, struck>>

\* A child process: the step's call, armed or not, or the next writer's heal.
\* It opens a writer, which seals off what an append cut short has left.
Spawn(c, f) ==
  /\ child' = c /\ ended' = "no" /\ fault' = f
  /\ group' = 1 /\ added' = {} /\ arrivals' = [append |-> 0, apply |-> 0]
  /\ healed' = 0 /\ sealed' = cut
  /\ cut' = FALSE
  /\ UNCHANGED <<suite, landed, store, struck, verdict>>

SpawnStep ==
  /\ Stepping
  /\ child = "none"
  /\ Spawn("call", IF variant = 0 THEN NoFault ELSE CrashOf(Now, CrashVariants(scenario)[variant]))

\* Its pipeline step is run again, and so is a torn unit: the user's redo.
SpawnAgain ==
  /\ Ran("call")
  /\ fault # NoFault /\ ended = "died"
  /\ Now.retried \/ fault.point = "torn_append"
  /\ Spawn("again", NoFault)

SpawnHeal ==
  /\ Ran("call")
  /\ fault # NoFault /\ ended = "died"
  /\ ~Now.retried /\ fault.point # "torn_append"
  /\ Spawn("heal", NoFault)

\* The child was to die and did not.
NotCrashed ==
  /\ Ran("call")
  /\ fault # NoFault /\ ended = "exited"
  /\ Fail

-----------------------------------------------------------------------------
(* A child. *)

Running == Stepping /\ child # "none" /\ ended = "no"
Behind == applied < Len(landed)

\* The child dies where it was armed to; its files and the db stay.
Dies(point, where) ==
  /\ ended' = "died"
  /\ struck' = struck \cup {[step |-> at, point |-> point, arrival |-> where]}

Lives == ended' = ended /\ UNCHANGED struck

ArmedAt(point, k) == fault = [point |-> point, arrival |-> k]

\* The next record past the cursor is applied, in the heal or in the call; then
\* the cursor advances.
Apply ==
  /\ Running
  /\ Behind
  /\ LET r == landed[applied + 1]
         f == <<r.step, r.op>>
         k == arrivals.apply + 1
     IN  /\ count' = IF f \notin DOMAIN count THEN [g \in DOMAIN count \cup {f} |-> IF g = f THEN 1 ELSE count[g]]
                     ELSE IF r.op \in scenario[r.step].fragile THEN [count EXCEPT ![f] = @ + 1]
                     ELSE count
         /\ arrivals' = [arrivals EXCEPT !.apply = k]
         /\ healed' = IF arrivals.append = 0 THEN healed + 1 ELSE healed
         /\ IF ArmedAt("after_apply", k)
              THEN Dies("after_apply", k) /\ UNCHANGED applied
              ELSE Lives /\ applied' = applied + 1
  /\ UNCHANGED <<suite, child, fault, group, added, sealed, files, verdict>>

Calling == Running /\ ~Behind /\ child # "heal" /\ group <= Len(Now.lands)

Present(i) == <<at, i>> \in DOMAIN count

\* What the call plans for its next append: a pipeline leaves out what is there,
\* and derives from what it has added itself.
ToAppend ==
  LET mine  == OpsOf(Now.lands, group)
      fresh == {i \in mine \ Now.derived : Now.presence => ~Present(i)}
  IN  fresh \cup {i \in mine \cap Now.derived : i - 1 \in added \cup fresh}

\* The ops of an append, in the order of their numbers.
InOrder(ops) ==
  [i \in 1 .. Cardinality(ops) |-> CHOOSE o \in ops : Cardinality({p \in ops : p < o}) = i - 1]

\* The append of one unit, or of one op.  Armed to tear, it is cut short.
Land ==
  /\ Calling
  /\ ToAppend # {}
  /\ LET k    == arrivals.append + 1
         unit == IF Cardinality(ToAppend) > 1 THEN Len(landed) + 1 ELSE 0
         ops  == InOrder(ToAppend)
     IN  IF unit # 0 /\ fault.point = "torn_append"
           THEN /\ Dies("torn_append", group)
                /\ cut' = TRUE
                /\ UNCHANGED <<group, added, arrivals, landed>>
           ELSE /\ landed' = landed \o [i \in DOMAIN ops |-> [step |-> at, op |-> ops[i], unit |-> unit]]
                /\ added' = added \cup ToAppend
                /\ arrivals' = [arrivals EXCEPT !.append = k]
                /\ group' = group + 1
                /\ IF ArmedAt("after_append", k) THEN Dies("after_append", k) ELSE Lives
                /\ UNCHANGED cut
  /\ UNCHANGED <<suite, child, fault, healed, sealed, store, verdict>>

\* A plan that leaves nothing to add appends nothing.
PlanEmpty ==
  /\ Calling
  /\ ToAppend = {}
  /\ group' = group + 1
  /\ UNCHANGED <<suite, child, ended, fault, added, arrivals, healed, sealed, files, store, struck, verdict>>

Exit ==
  /\ Running
  /\ ~Behind
  /\ child # "heal" => group > Len(Now.lands)
  /\ ended' = "exited"
  /\ UNCHANGED <<suite, child, fault, group, added, arrivals, healed, sealed, files, store, struck, verdict>>

-----------------------------------------------------------------------------
(* What run_proof asserts when a step's children have ended. *)

Records == SelectSeq(landed, LAMBDA r : r.step = at)

\* The step's records are its declared ops, and each declared append of two ops
\* or more is one unit.
AsDeclared ==
  /\ [i \in DOMAIN Records |-> Records[i].op] = [i \in 1 .. Now.ops |-> i]
  /\ \A g \in DOMAIN Groups(Now) :
       LET units == {Records[i].unit : i \in OpsOf(Groups(Now), g)}
       IN  Groups(Now)[g] > 1 => Cardinality(units) = 1 /\ 0 \notin units

\* How the last child's own outcome is judged.
Recovered ==
  CASE child = "call"  -> fault = NoFault
    [] child = "again" -> variant > 0 /\ CrashVariants(scenario)[variant].point = "torn_append" => sealed
    [] child = "heal"  -> healed = Want(Now, CrashOf(Now, CrashVariants(scenario)[variant]))

LastChildRan == \E c \in {"call", "again", "heal"} : Ran(c) /\ ~(c = "call" /\ fault # NoFault)

StepDone ==
  /\ LastChildRan
  /\ Recovered /\ AsDeclared
  /\ at' = at + 1
  /\ NoChild
  /\ UNCHANGED <<scenario, variant, files, store, struck, verdict>>

StepFails ==
  /\ LastChildRan
  /\ ~(Recovered /\ AsDeclared)
  /\ Fail

\* The journal replayed into a fresh db holds each fact as often as its records.
LiveEqualsReplay ==
  /\ DOMAIN count = {<<landed[i].step, landed[i].op>> : i \in DOMAIN landed}
  /\ \A f \in DOMAIN count :
       count[f] = IF f[2] \in scenario[f[1]].fragile
                    THEN Cardinality({i \in DOMAIN landed : <<landed[i].step, landed[i].op>> = f})
                    ELSE 1

AllSteps == verdict = "open" /\ at > Len(scenario)

\* Mutant: the next run starts before its first step.
RunDoneEarly ==
  /\ AllSteps
  /\ LiveEqualsReplay
  /\ at' = 0
  /\ FreshRun
  /\ IF variant < Len(CrashVariants(scenario))
       THEN variant' = variant + 1 /\ UNCHANGED verdict
       ELSE verdict' = "passed" /\ UNCHANGED variant
  /\ NoChild
  /\ UNCHANGED <<scenario, struck>>

\* The run's last assertion; then the suite's next run, in a fresh directory.
RunDone ==
  /\ AllSteps
  /\ LiveEqualsReplay
  /\ at' = 1
  /\ FreshRun
  /\ IF variant < Len(CrashVariants(scenario))
       THEN variant' = variant + 1 /\ UNCHANGED verdict
       ELSE verdict' = "passed" /\ UNCHANGED variant
  /\ NoChild
  /\ UNCHANGED <<scenario, struck>>

RunFails ==
  /\ AllSteps
  /\ ~LiveEqualsReplay
  /\ Fail

SuiteNext ==
  \/ SpawnStep
  \/ SpawnAgain
  \/ SpawnHeal
  \/ NotCrashed
  \/ Apply
  \/ Land
  \/ PlanEmpty
  \/ Exit
  \/ StepDone
  \/ StepFails
  \/ RunDone
  \/ RunFails

SuiteSpec == SuiteInit /\ [][SuiteNext]_suiteVars

-----------------------------------------------------------------------------
(* Properties. *)

Points == {"none", "torn_append", "after_append", "after_apply"}

SuiteTypeOK ==
  /\ variant \in Nat /\ at \in Nat \ {0}
  /\ child \in {"none", "call", "again", "heal"} /\ ended \in {"no", "died", "exited"}
  /\ fault \in [point: Points, arrival: Nat]
  /\ group \in Nat /\ added \subseteq Nat
  /\ arrivals \in [append: Nat, apply: Nat]
  /\ healed \in Nat /\ sealed \in BOOLEAN
  /\ landed \in Seq([step: Nat, op: Nat, unit: Nat]) /\ cut \in BOOLEAN
  /\ \A f \in DOMAIN count : count[f] \in Nat
  /\ applied \in Nat
  /\ struck \subseteq [step: Nat, point: Points, arrival: Nat]
  /\ verdict \in {"open", "passed", "failed"}

\* A verb that does what its step declares, applied twice as if once, planning
\* by presence where it is retried, and deriving inside the op's own unit.
SoundStep(s) ==
  /\ Admitted(s)
  /\ s.lands = Groups(s)
  /\ s.fragile = {}
  /\ s.retried /\ s.ops > 0 => s.presence
  /\ s.retried => \A i \in s.derived :
       \E g \in DOMAIN s.lands : {i - 1, i} \subseteq OpsOf(s.lands, g)

\* The proof tells sound verbs from others: a scenario of sound ones passes at
\* every boundary, its heal counts, its units and its journal as asserted, and
\* one unsound verb, in any step, fails some run (testing.py, run_proof and "a
\* crashed run's journal must equal the uncrashed run's").
PassesIfSound ==
  verdict # "open" =>
    (verdict = "passed" <=> \A i \in DOMAIN scenario : SoundStep(scenario[i]))

\* A passed suite has killed every step after each of its appends, after each of
\* its applies, and inside its first unit of two ops or more, however many
\* boundaries the other steps have (testing.py, crash_variants).
EveryBoundaryStruck ==
  verdict = "passed" =>
    \A i \in DOMAIN scenario :
      LET hit(p) == {b.arrival : b \in {c \in struck : c.step = i /\ c.point = p}}
      IN  /\ hit("after_append") = 1 .. Len(Groups(scenario[i]))
          /\ hit("after_apply") = 1 .. scenario[i].ops
          /\ Tearable(scenario[i]) => hit("torn_append") # {}

\* The same of every unit of a chain (testing.py, crash_variants: every boundary
\* a crash can fall on).
EveryUnitTorn ==
  verdict = "passed" =>
    \A i \in DOMAIN scenario :
      \A g \in DOMAIN Groups(scenario[i]) : Groups(scenario[i])[g] > 1 =>
        [step |-> i, point |-> "torn_append", arrival |-> g] \in struck

=============================================================================
