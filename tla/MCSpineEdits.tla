---------------------------- MODULE MCSpineEdits ----------------------------
(* An instance of SpineEdits for TLC: three positions, the middle one empty *)
(* or not, words of one and of two letters.                                 *)
EXTENDS SpineEdits, TLC

CONSTANTS s1, s2, s3, a, b

MCSpine == <<s1, s2, s3>>

\* "a b ", "" and " ab b": a text with a space at its end, an empty one, and one
\* with a space at its start and a word that ends like the next.
Starved == s1 :> <<a, Gap, b, Gap>> @@ s2 :> <<>> @@ s3 :> <<Gap, a, b, Gap, b>>

PruneOf(us) ==
  [op |-> "prune", targets |-> us, text |-> NoText, left |-> NoUnit, direction |-> "push"]
Replace(us, t) ==
  [op |-> "replace_text", targets |-> us, text |-> t, left |-> NoUnit, direction |-> "push"]
Shift(way, l, t) ==
  [op |-> "boundary_shift", targets |-> {}, text |-> t, left |-> l, direction |-> way]

\* Every kind, with targets in the spine and outside it, and of the shifts three
\* that never apply: blank words, no unit after the boundary, an unknown way.
Decisions ==
  {PruneOf({s2, NoUnit}), Replace({s1, s2, NoUnit}, <<b>>), Replace({s2}, NoText),
   Shift("push", s1, <<b>>), Shift("push", s1, <<a, Gap, b>>), Shift("push", s2, <<Gap, b>>),
   Shift("pull", s2, <<a, b>>), Shift("push", s1, <<Gap>>), Shift("push", s3, <<b>>),
   Shift("unknown", s1, <<b>>)}
=============================================================================
