---------------------------- MODULE MCCrashProof ----------------------------
(* Instances of CrashProof for TLC: every step of at most three ops under    *)
(* every declaration, its verb as declared or otherwise, alone or after a    *)
(* sound step of another shape.                                              *)
EXTENDS CrashProof, TLC

CONSTANT MaxStepOps

\* The ways to cut n ops into appends.
RECURSIVE Cuts(_)
Cuts(n) == IF n = 0 THEN {<<>>} ELSE UNION {{<<k>> \o c : c \in Cuts(n - k)} : k \in 1 .. n}

Declarations(n) ==
  {[ops |-> n, unit |-> u, retried |-> r, units |-> c] :
     u \in BOOLEAN, r \in BOOLEAN, c \in {<<>>} \cup Cuts(n)}

Verbs(n) ==
  {[lands |-> c, presence |-> p, derived |-> d, fragile |-> f] :
     c \in Cuts(n), p \in BOOLEAN,
     d \in {{}} \cup {{i} : i \in 2 .. n}, f \in {{}} \cup {{i} : i \in 1 .. n}}

Steps == UNION {{d @@ v : d \in Declarations(n), v \in Verbs(n)} : n \in 0 .. MaxStepOps}

\* Verbs of the cores: a correction, a gesture of three, a pipeline's chain with its Derivation.
Declared(n, u, r, c) == [ops |-> n, unit |-> u, retried |-> r, units |-> c]
As(d, derived) == d @@ [lands |-> Groups(d), presence |-> d.retried, derived |-> derived, fragile |-> {}]
Cores == {As(Declared(1, FALSE, FALSE, <<>>), {}),
          As(Declared(3, TRUE, FALSE, <<>>), {}),
          As(Declared(3, FALSE, TRUE, <<2, 1>>), {2})}

Suites == {<<s>> : s \in Steps} \cup {<<c, s>> : c \in Cores, s \in Steps}

\* A pipeline that lands two units.
Chain == {<<As(Declared(4, FALSE, TRUE, <<2, 2>>), {2, 4})>>}
=============================================================================
