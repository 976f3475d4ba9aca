---------------------------- MODULE MCRegistries ----------------------------
(* Instances of Registries for TLC: two declared cores that share a verb by *)
(* one handler object, two more cores that bind one verb to two handlers,   *)
(* and a rival that claims the declared cores' verb for a handler of its own. *)
EXTENDS Registries, TLC

CONSTANTS decomp, correction, viewer, critic, rival, derive, correct, note, wires, mend, view, other

Binds(pairs) == [v \in Verb |-> IF v \in DOMAIN pairs THEN pairs[v] ELSE NoHandler]

MCRegistry ==
  decomp     :> Binds(derive :> wires) @@
  correction :> Binds(derive :> wires @@ correct :> mend) @@
  viewer     :> Binds(note :> view) @@
  critic     :> Binds(note :> other) @@
  rival      :> Binds(derive :> other)

\* Environments per role: some lack a declared core, some hold more.
Roles == {{decomp}, {decomp, correction}, {decomp, correction, viewer},
          {decomp, correction, critic}, {decomp, correction, rival}}

\* Those that may open a writer, undeclared cores apart.
Writers == {{decomp, correction, viewer}, {decomp, correction, critic}}

Symmetry == Permutations(Process)
=============================================================================
