-------------------------- MODULE GraphStoreProofs --------------------------
(***************************************************************************)
(* What the other proofs rest on.  The laws of a fold, whatever it folds;  *)
(* then facts about the store's operators: every storage method keeps a    *)
(* graph a graph; applying an op again, over any part of it that a crash   *)
(* left done, ends where applying it once does; and a whole journal        *)
(* replayed over what earlier replays of it left ends where its replay     *)
(* over nothing does.                                                      *)
(***************************************************************************)
EXTENDS GraphStore, SequencesExt, SequenceTheorems, WellFoundedInduction, TLAPS

-----------------------------------------------------------------------------
(* Folds.  The library defines FoldLeft by a recursive function on the     *)
(* subsets of the sequence's positions, each less its greatest one.        *)
(* Folded is the same thing said by the values after each element, for an  *)
(* operator given as a function step of a value and an element; the laws   *)
(* of a fold are proved of it once, and FoldedByPositions carries them to  *)
(* the library's definition for each operator a module folds.              *)

\* The naturals are well founded.
LEMMA LeastNatural ==
  ASSUME NEW T \in SUBSET Nat, T # {}
  PROVE  \E m \in T : \A k \in T : m <= k
<1>. DEFINE Below == {ss \in Nat \X Nat : ss[1] < ss[2]}
<1>1. IsWellFoundedOn(Below, Nat)
  BY NatLessThanWellFounded DEF OpToRel
<1>2. \E x \in T : \A y \in T : ~ (<<y, x>> \in Below)
  <2>. HIDE DEF Below
  <2>. QED
    BY <1>1, WFMin
<1>3. PICK x \in T : \A y \in T : ~ (<<y, x>> \in Below)
  BY <1>2
<1>4. ASSUME NEW y \in T
      PROVE  x <= y
  <2>1. <<y, x>> \notin Below /\ x \in Nat /\ y \in Nat
    BY <1>3
  <2>2. ~ (y < x)
    BY <2>1
  <2>. QED
    BY <2>1, <2>2
<1>. QED
  BY <1>4

\* Induction on the naturals, for a property given as the set it holds on.
LEMMA SetInduction ==
  ASSUME NEW S, 0 \in S, \A n \in Nat : n \in S => n + 1 \in S
  PROVE  Nat \subseteq S
<1>. DEFINE missing == {n \in Nat : n \notin S}
<1>1. ASSUME missing # {}
      PROVE  FALSE
  <2>1. PICK m \in missing : \A k \in missing : m <= k
    <3>. HIDE DEF missing
    <3>1. missing \in SUBSET Nat
      BY DEF missing
    <3>. QED
      BY <1>1, <3>1, LeastNatural
  <2>2. m \in Nat /\ m # 0 /\ m \notin S
    OBVIOUS
  <2>3. m - 1 \in Nat /\ m - 1 \notin missing
    BY <2>1, <2>2
  <2>4. (m - 1) + 1 \in S
    BY <2>3
  <2>. QED
    BY <2>2, <2>4
<1>. QED
  BY <1>1

\* The greatest of a non-empty set of positions.
LEMMA MaxOfPositions ==
  ASSUME NEW n \in Nat, NEW t \in SUBSET (1 .. n), t # {}
  PROVE  /\ Max(t) \in t
         /\ \A k \in t : k <= Max(t)
         /\ \A x \in t : (\A k \in t : k <= x) => Max(t) = x
<1>. DEFINE above == {n - k : k \in t}
<1>1. PICK m \in above : \A k \in above : m <= k
  <2>1. \A k \in t : n - k \in Nat
    OBVIOUS
  <2>2. above \in SUBSET Nat /\ above # {}
    BY <2>1
  <2>. HIDE DEF above
  <2>. QED
    BY <2>2, LeastNatural
<1>2. PICK x \in t : m = n - x
  OBVIOUS
<1>3. \A k \in t : k <= x
  <2>. TAKE k \in t
  <2>1. n - k \in above
    OBVIOUS
  <2>2. n - x <= n - k
    BY <1>1, <1>2, <2>1
  <2>. QED
    BY <2>2
<1>4. \A k \in t : x >= k
  BY <1>3
<1>5. Max(t) \in t /\ \A k \in t : Max(t) >= k
  BY <1>4 DEF Max
<1>6. ASSUME NEW y \in t, \A k \in t : k <= y
      PROVE  Max(t) = y
  <2>1. t \subseteq Int
    OBVIOUS
  <2>2. Max(t) <= y /\ Max(t) >= y /\ Max(t) \in Int /\ y \in Int
    BY <1>5, <1>6, <2>1
  <2>. QED
    BY <2>2
<1>. QED
  BY <1>5, <1>6

\* The greatest of some numbers up to a bound.
LEMMA MaxUpTo ==
  ASSUME NEW n \in Nat, NEW S \in SUBSET (0 .. n), S # {}
  PROVE  Max(S) \in S /\ \A k \in S : k <= Max(S)
<1>. DEFINE above == {n - k : k \in S}
<1>1. above \in SUBSET Nat /\ above # {}
  BY \A k \in S : n - k \in Nat
<1>2. PICK m \in above : \A k \in above : m <= k
  <2>. HIDE DEF above
  <2>. QED
    BY <1>1, LeastNatural
<1>3. PICK x \in S : m = n - x
  OBVIOUS
<1>4. \A k \in S : x >= k
  <2>. TAKE k \in S
  <2>1. n - x <= n - k
    BY <1>2, <1>3
  <2>. QED
    BY <2>1
<1>5. Max(S) \in S /\ \A k \in S : Max(S) >= k
  BY <1>4 DEF Max
<1>6. S \subseteq Int
  OBVIOUS
<1>. QED
  BY <1>5, <1>6

-----------------------------------------------------------------------------
(* A fold by the values after each element. *)

\* The arguments of a fold belong together.
Foldable(V, X, base, s, step) == base \in V /\ s \in Seq(X) /\ step \in [V \X X -> V]

\* h is what the elements of s leave, one after another, from base on.
Follows(h, base, s, step) ==
  h[0] = base /\ \A i \in 1 .. Len(s) : h[i] = step[<<h[i - 1], s[i]>>]

Folded(V, base, s, step) ==
  (CHOOSE h \in [0 .. Len(s) -> V] : Follows(h, base, s, step))[Len(s)]

\* There is such a sequence of values.
LEMMA RunExists ==
  ASSUME NEW V, NEW X, NEW base, NEW s, NEW step, Foldable(V, X, base, s, step)
  PROVE  \E h \in [0 .. Len(s) -> V] : Follows(h, base, s, step)
<1>. USE DEF Foldable
<1>. DEFINE Upto(m, h) == h[0] = base /\ \A i \in 1 .. m : h[i] = step[<<h[i - 1], s[i]>>]
            P(m) == m <= Len(s) => \E h \in [0 .. m -> V] : Upto(m, h)
<1>1. P(0)
  <2>. DEFINE h == [i \in 0 .. 0 |-> base]
  <2>1. h \in [0 .. 0 -> V] /\ Upto(0, h)
    OBVIOUS
  <2>. QED
    BY <2>1
<1>2. ASSUME NEW m \in Nat, P(m)
      PROVE  P(m + 1)
  <2>. SUFFICES ASSUME m + 1 <= Len(s)
                PROVE  \E h \in [0 .. (m + 1) -> V] : Upto(m + 1, h)
    OBVIOUS
  <2>1. PICK old \in [0 .. m -> V] : Upto(m, old)
    <3>1. m <= Len(s)
      OBVIOUS
    <3>. HIDE DEF Upto
    <3>. QED
      BY <1>2, <3>1
  <2>. DEFINE new == [i \in 0 .. (m + 1) |->
                        IF i = m + 1 THEN step[<<old[m], s[m + 1]>>] ELSE old[i]]
  <2>2. s[m + 1] \in X
    OBVIOUS
  <2>3. new \in [0 .. (m + 1) -> V]
    BY <2>2
  <2>4. new[m + 1] = step[<<old[m], s[m + 1]>>] /\ \A i \in 0 .. m : new[i] = old[i]
    OBVIOUS
  <2>. HIDE DEF new
  <2>5. ASSUME NEW i \in 1 .. (m + 1)
        PROVE  new[i] = step[<<new[i - 1], s[i]>>]
    <3>1. i - 1 \in 0 .. m /\ (i # m + 1 => i \in 1 .. m) /\ (m + 1) - 1 = m /\ m \in 0 .. m
      OBVIOUS
    <3>2. CASE i = m + 1
      BY <2>4, <3>1, <3>2
    <3>3. CASE i # m + 1
      <4>1. old[i] = step[<<old[i - 1], s[i]>>]
        BY <2>1, <3>1, <3>3
      <4>2. i \in 0 .. m
        BY <3>1, <3>3
      <4>. QED
        BY <2>4, <3>1, <4>1, <4>2
    <3>. QED
      BY <3>2, <3>3
  <2>6. Upto(m + 1, new)
    <3>1. new[0] = base
      BY <2>1, <2>4
    <3>. QED
      BY <2>5, <3>1
  <2>. QED
    BY <2>3, <2>6
<1>3. P(Len(s))
  <2>. DEFINE S == {m \in Nat : P(m)}
  <2>. HIDE DEF P
  <2>1. 0 \in S /\ \A m \in Nat : m \in S => m + 1 \in S
    BY <1>1, <1>2
  <2>2. Len(s) \in S
    <3>1. Len(s) \in Nat
      OBVIOUS
    <3>. HIDE DEF S
    <3>. QED
      BY <2>1, <3>1, SetInduction
  <2>. QED
    BY <2>2
<1>4. PICK h \in [0 .. Len(s) -> V] : Upto(Len(s), h)
  <2>1. Len(s) <= Len(s)
    OBVIOUS
  <2>. HIDE DEF Upto
  <2>. QED
    BY <1>3, <2>1
<1>. QED
  BY <1>4 DEF Follows

\* And one only: every run of the elements ends in the fold.
LEMMA FoldedByRun ==
  ASSUME NEW V, NEW X, NEW base, NEW s, NEW step, Foldable(V, X, base, s, step),
         NEW h, Follows(h, base, s, step)
  PROVE  Folded(V, base, s, step) = h[Len(s)]
<1>1. PICK k \in [0 .. Len(s) -> V] :
        Follows(k, base, s, step) /\ Folded(V, base, s, step) = k[Len(s)]
  BY RunExists DEF Folded
<1>. DEFINE P(m) == m <= Len(s) => k[m] = h[m]
<1>2. P(0)
  BY <1>1 DEF Follows
<1>3. ASSUME NEW m \in Nat, P(m)
      PROVE  P(m + 1)
  <2>. SUFFICES ASSUME m + 1 <= Len(s)
                PROVE  k[m + 1] = h[m + 1]
    OBVIOUS
  <2>1. m + 1 \in 1 .. Len(s) /\ (m + 1) - 1 = m /\ m <= Len(s)
    BY DEF Foldable
  <2>2. k[m + 1] = step[<<k[m], s[m + 1]>>] /\ h[m + 1] = step[<<h[m], s[m + 1]>>]
    BY <1>1, <2>1 DEF Follows
  <2>. QED
    BY <1>3, <2>1, <2>2
<1>4. P(Len(s))
  <2>. DEFINE S == {m \in Nat : P(m)}
  <2>. HIDE DEF P
  <2>1. 0 \in S /\ \A m \in Nat : m \in S => m + 1 \in S
    BY <1>2, <1>3
  <2>2. Len(s) \in S
    <3>1. Len(s) \in Nat
      BY DEF Foldable
    <3>. HIDE DEF S
    <3>. QED
      BY <2>1, <3>1, SetInduction
  <2>. QED
    BY <2>2
<1>5. Len(s) <= Len(s)
  BY DEF Foldable
<1>. QED
  BY <1>1, <1>4, <1>5

\* The run whose end the fold is.
LEMMA FoldedRun ==
  ASSUME NEW V, NEW X, NEW base, NEW s, NEW step, Foldable(V, X, base, s, step)
  PROVE  /\ Folded(V, base, s, step) \in V
         /\ \E h \in [0 .. Len(s) -> V] :
              Follows(h, base, s, step) /\ Folded(V, base, s, step) = h[Len(s)]
<1>1. PICK h \in [0 .. Len(s) -> V] :
        Follows(h, base, s, step) /\ Folded(V, base, s, step) = h[Len(s)]
  BY RunExists DEF Folded
<1>2. Len(s) \in 0 .. Len(s)
  BY DEF Foldable
<1>. QED
  BY <1>1, <1>2

\* Nothing folded is the base.
LEMMA FoldedEmpty ==
  ASSUME NEW V, NEW X, NEW base, NEW s, NEW step, Foldable(V, X, base, s, step),
         Len(s) = 0
  PROVE  Folded(V, base, s, step) = base
BY FoldedRun DEF Follows

\* A concatenation folds in two passes.
LEMMA FoldedConcat ==
  ASSUME NEW V, NEW X, NEW base, NEW s, NEW step, Foldable(V, X, base, s, step),
         NEW t \in Seq(X)
  PROVE  Folded(V, base, s \o t, step) = Folded(V, Folded(V, base, s, step), t, step)
<1>. DEFINE st == s \o t
<1>1. /\ st \in Seq(X) /\ Len(st) = Len(s) + Len(t)
      /\ Len(s) \in Nat /\ Len(t) \in Nat
      /\ \A i \in 1 .. Len(s) : st[i] = s[i]
      /\ \A i \in 1 .. Len(t) : st[Len(s) + i] = t[i]
  BY DEF Foldable
<1>. HIDE DEF st
<1>0. Foldable(V, X, base, st, step) /\ Foldable(V, X, base, s, step)
  BY <1>1 DEF Foldable
<1>2. PICK h \in [0 .. Len(st) -> V] :
        Follows(h, base, st, step) /\ Folded(V, base, st, step) = h[Len(st)]
  BY <1>0, FoldedRun
<1>3. Folded(V, base, s, step) = h[Len(s)]
  <2>1. Follows(h, base, s, step)
    <3>1. \A i \in 1 .. Len(s) : i \in 1 .. Len(st)
      BY <1>1
    <3>. QED
      BY <1>1, <1>2, <3>1 DEF Follows
  <2>. QED
    BY <1>0, <2>1, FoldedByRun
<1>. DEFINE k == [i \in 0 .. Len(t) |-> h[Len(s) + i]]
<1>4. Follows(k, h[Len(s)], t, step)
  <2>1. k[0] = h[Len(s)]
    BY <1>1
  <2>2. ASSUME NEW i \in 1 .. Len(t)
        PROVE  k[i] = step[<<k[i - 1], t[i]>>]
    <3>1. Len(s) + i \in 1 .. Len(st) /\ (Len(s) + i) - 1 = Len(s) + (i - 1)
      BY <1>1
    <3>2. k[i] = h[Len(s) + i] /\ k[i - 1] = h[Len(s) + (i - 1)]
      BY <1>1
    <3>. HIDE DEF k
    <3>3. h[Len(s) + i] = step[<<h[(Len(s) + i) - 1], st[Len(s) + i]>>]
      BY <1>2, <3>1 DEF Follows
    <3>. QED
      BY <1>1, <3>1, <3>2, <3>3
  <2>. QED
    BY <2>1, <2>2 DEF Follows
<1>5. h[Len(s)] \in V /\ k[Len(t)] = h[Len(st)]
  BY <1>1
<1>6. Folded(V, h[Len(s)], t, step) = k[Len(t)]
  <2>1. Foldable(V, X, h[Len(s)], t, step)
    BY <1>5 DEF Foldable
  <2>. HIDE DEF k
  <2>. QED
    BY <1>4, <2>1, FoldedByRun
<1>. QED
  BY <1>2, <1>3, <1>5, <1>6 DEF st

\* One more element is one more step.
LEMMA FoldedAppend ==
  ASSUME NEW V, NEW X, NEW base, NEW s, NEW step, Foldable(V, X, base, s, step),
         NEW x \in X
  PROVE  Folded(V, base, Append(s, x), step) = step[<<Folded(V, base, s, step), x>>]
<1>. DEFINE sx == Append(s, x)
<1>1. /\ sx \in Seq(X) /\ Len(sx) = Len(s) + 1
      /\ Len(s) \in Nat
      /\ \A i \in 1 .. Len(s) : sx[i] = s[i]
      /\ sx[Len(s) + 1] = x
  BY DEF Foldable
<1>. HIDE DEF sx
<1>0. Foldable(V, X, base, sx, step) /\ Foldable(V, X, base, s, step)
  BY <1>1 DEF Foldable
<1>2. PICK h \in [0 .. Len(sx) -> V] :
        Follows(h, base, sx, step) /\ Folded(V, base, sx, step) = h[Len(sx)]
  BY <1>0, FoldedRun
<1>3. Follows(h, base, s, step)
  <2>1. \A i \in 1 .. Len(s) : i \in 1 .. Len(sx)
    BY <1>1
  <2>. QED
    BY <1>1, <1>2, <2>1 DEF Follows
<1>4. Folded(V, base, s, step) = h[Len(s)]
  BY <1>0, <1>3, FoldedByRun
<1>5. h[Len(sx)] = step[<<h[Len(s)], x>>]
  <2>1. Len(sx) \in 1 .. Len(sx) /\ Len(sx) - 1 = Len(s)
    BY <1>1
  <2>. QED
    BY <1>1, <1>2, <2>1 DEF Follows
<1>. QED
  BY <1>2, <1>4, <1>5 DEF sx

-----------------------------------------------------------------------------
(* The library's fold: the recursion on sets of positions. *)

\* The recursive function the library folds with.
Recursion(iter, base, s, step) ==
  iter = [t \in SUBSET (1 .. Len(s)) |->
            IF t = {} THEN base ELSE step[<<iter[t \ {Max(t)}], s[Max(t)]>>]]

\* There is one, for every step.
LEMMA RecursionExists ==
  ASSUME NEW V, NEW X, NEW base, NEW s, NEW step, Foldable(V, X, base, s, step)
  PROVE  \E iter \in [SUBSET (1 .. Len(s)) -> V] : Recursion(iter, base, s, step)
<1>. USE DEF Foldable
<1>. DEFINE n == Len(s)
            Upto(m, iter) ==
              \A t \in SUBSET (1 .. m) :
                iter[t] = IF t = {} THEN base ELSE step[<<iter[t \ {Max(t)}], s[Max(t)]>>]
            P(m) == m <= n => \E iter \in [SUBSET (1 .. m) -> V] : Upto(m, iter)
<1>1. P(0)
  <2>. DEFINE iter == [t \in SUBSET (1 .. 0) |-> base]
  <2>1. \A t \in SUBSET (1 .. 0) : t = {}
    OBVIOUS
  <2>2. iter \in [SUBSET (1 .. 0) -> V] /\ Upto(0, iter)
    BY <2>1
  <2>. QED
    BY <2>2
<1>2. ASSUME NEW m \in Nat, P(m)
      PROVE  P(m + 1)
  <2>. SUFFICES ASSUME m + 1 <= n
                PROVE  \E iter \in [SUBSET (1 .. (m + 1)) -> V] : Upto(m + 1, iter)
    OBVIOUS
  <2>1. PICK old \in [SUBSET (1 .. m) -> V] : Upto(m, old)
    <3>1. m <= n
      OBVIOUS
    <3>. HIDE DEF Upto
    <3>. QED
      BY <1>2, <3>1
  <2>. DEFINE less(t) == t \ {m + 1}
              new == [t \in SUBSET (1 .. (m + 1)) |->
                        IF m + 1 \in t THEN step[<<old[less(t)], s[m + 1]>>] ELSE old[t]]
  <2>2. \A t \in SUBSET (1 .. (m + 1)) : less(t) \in SUBSET (1 .. m)
    OBVIOUS
  <2>3. \A t \in SUBSET (1 .. (m + 1)) : m + 1 \notin t => t \in SUBSET (1 .. m)
    OBVIOUS
  <2>4. s[m + 1] \in X
    OBVIOUS
  <2>5. new \in [SUBSET (1 .. (m + 1)) -> V]
    BY <2>2, <2>3, <2>4
  <2>6. \A t \in SUBSET (1 .. m) : new[t] = old[t]
    OBVIOUS
  <2>7. ASSUME NEW t \in SUBSET (1 .. (m + 1))
        PROVE  new[t] = IF t = {} THEN base ELSE step[<<new[t \ {Max(t)}], s[Max(t)]>>]
    <3>1. CASE m + 1 \in t
      <4>1. Max(t) = m + 1
        <5>1. m + 1 \in Nat /\ t # {} /\ \A k \in t : k <= m + 1
          BY <3>1
        <5>. QED
          BY <3>1, <5>1, MaxOfPositions
      <4>2. new[less(t)] = old[less(t)]
        BY <2>2, <2>6
      <4>3. new[t] = step[<<old[less(t)], s[m + 1]>>]
        BY <3>1
      <4>. HIDE DEF new
      <4>. QED
        BY <3>1, <4>1, <4>2, <4>3
    <3>2. CASE m + 1 \notin t
      <4>1. t \in SUBSET (1 .. m) /\ t \ {Max(t)} \in SUBSET (1 .. m)
        BY <2>3, <3>2
      <4>2. old[t] = IF t = {} THEN base ELSE step[<<old[t \ {Max(t)}], s[Max(t)]>>]
        BY <2>1, <4>1
      <4>3. new[t] = old[t] /\ new[t \ {Max(t)}] = old[t \ {Max(t)}]
        BY <2>6, <4>1
      <4>. HIDE DEF new
      <4>. QED
        BY <4>2, <4>3
    <3>. QED
      BY <3>1, <3>2
  <2>. HIDE DEF new
  <2>. QED
    BY <2>5, <2>7
<1>3. P(n)
  <2>. DEFINE S == {m \in Nat : P(m)}
  <2>. HIDE DEF P
  <2>1. 0 \in S /\ \A m \in Nat : m \in S => m + 1 \in S
    BY <1>1, <1>2
  <2>2. n \in S
    <3>1. n \in Nat
      OBVIOUS
    <3>. HIDE DEF S
    <3>. QED
      BY <2>1, <3>1, SetInduction
  <2>. QED
    BY <2>2
<1>4. PICK iter \in [SUBSET (1 .. n) -> V] : Upto(n, iter)
  <2>1. n <= n
    OBVIOUS
  <2>. HIDE DEF Upto
  <2>. QED
    BY <1>3, <2>1
<1>5. iter = [t \in SUBSET (1 .. n) |->
                IF t = {} THEN base ELSE step[<<iter[t \ {Max(t)}], s[Max(t)]>>]]
  <2>1. iter = [t \in SUBSET (1 .. n) |-> iter[t]]
    OBVIOUS
  <2>. QED
    BY <1>4, <2>1
<1>. QED
  BY <1>5 DEF Recursion

\* The first positions, and what the recursive function does to them.
LEMMA FirstPositions ==
  ASSUME NEW n \in Nat, NEW m \in 1 .. n
  PROVE  /\ (1 .. m) \in SUBSET (1 .. n)
         /\ (1 .. m) # {}
         /\ Max(1 .. m) = m
         /\ (1 .. m) \ {m} = 1 .. (m - 1)
<1>. DEFINE t == 1 .. m
<1>1. t \subseteq 1 .. n /\ m \in t /\ \A k \in t : k <= m
  OBVIOUS
<1>2. t \ {m} = 1 .. (m - 1)
  OBVIOUS
<1>. HIDE DEF t
<1>3. Max(t) = m
  BY <1>1, MaxOfPositions
<1>. QED
  BY <1>1, <1>2, <1>3 DEF t

\* A function on sets of positions that takes the same steps, as far as it stays
\* among the values, ends where the fold does.
LEMMA FoldedByPositions ==
  ASSUME NEW V, NEW X, NEW base, NEW s, NEW step, Foldable(V, X, base, s, step),
         NEW iter, iter[{}] = base,
         \A m \in 1 .. Len(s) : iter[1 .. (m - 1)] \in V =>
           iter[1 .. m] = step[<<iter[1 .. (m - 1)], s[m]>>]
  PROVE  iter[1 .. Len(s)] = Folded(V, base, s, step)
<1>. DEFINE n == Len(s)
<1>0. n \in Nat /\ s \in Seq(X)
  BY DEF Foldable
<1>1. PICK h \in [0 .. n -> V] :
        Follows(h, base, s, step) /\ Folded(V, base, s, step) = h[n]
  BY FoldedRun
<1>. DEFINE P(m) == m <= n => iter[1 .. m] = h[m]
<1>2. P(0)
  <2>1. 1 .. 0 = {}
    OBVIOUS
  <2>. QED
    BY <1>1, <2>1 DEF Follows
<1>3. ASSUME NEW m \in Nat, P(m)
      PROVE  P(m + 1)
  <2>. SUFFICES ASSUME m + 1 <= n
                PROVE  iter[1 .. (m + 1)] = h[m + 1]
    OBVIOUS
  <2>1. m + 1 \in 1 .. n /\ (m + 1) - 1 = m /\ m <= n /\ m \in 0 .. n
    BY <1>0
  <2>2. iter[1 .. ((m + 1) - 1)] = h[m] /\ h[m] \in V
    BY <1>3, <2>1
  <2>3. iter[1 .. (m + 1)] = step[<<h[m], s[m + 1]>>]
    BY <2>1, <2>2
  <2>4. h[m + 1] = step[<<h[m], s[m + 1]>>]
    BY <1>1, <2>1 DEF Follows
  <2>. QED
    BY <2>3, <2>4
<1>4. P(n)
  <2>. DEFINE S == {m \in Nat : P(m)}
  <2>. HIDE DEF P
  <2>1. 0 \in S /\ \A m \in Nat : m \in S => m + 1 \in S
    BY <1>2, <1>3
  <2>2. n \in S
    <3>. HIDE DEF S, n
    <3>. QED
      BY <1>0, <2>1, SetInduction
  <2>. QED
    BY <2>2
<1>5. n <= n
  BY <1>0
<1>. QED
  BY <1>1, <1>4, <1>5

-----------------------------------------------------------------------------
(* Sequences of sequences, end to end. *)

\* Induction on sequences by their last element, for a property given as the set
\* it holds on.
LEMMA SeqInduction ==
  ASSUME NEW X, NEW S, <<>> \in S, \A s \in Seq(X), x \in X : s \in S => Append(s, x) \in S
  PROVE  Seq(X) \subseteq S
<1>. DEFINE T == {m \in Nat : \A s \in Seq(X) : Len(s) = m => s \in S}
<1>1. 0 \in T
  <2>1. \A s \in Seq(X) : Len(s) = 0 => s = <<>>
    OBVIOUS
  <2>. QED
    BY <2>1
<1>2. ASSUME NEW m \in Nat, m \in T
      PROVE  m + 1 \in T
  <2>. SUFFICES ASSUME NEW s \in Seq(X), Len(s) = m + 1
                PROVE  s \in S
    OBVIOUS
  <2>. DEFINE front == SubSeq(s, 1, m)
  <2>1. front \in Seq(X) /\ Len(front) = m /\ s[m + 1] \in X
    BY <1>2
  <2>2. s = Append(front, s[m + 1])
    BY <1>2
  <2>3. front \in S
    BY <1>2, <2>1
  <2>. HIDE DEF front
  <2>4. Append(front, s[m + 1]) \in S
    BY <2>1, <2>3
  <2>. QED
    BY <2>2, <2>4
<1>3. Nat \subseteq T
  <2>. HIDE DEF T
  <2>. QED
    BY <1>1, <1>2, SetInduction
<1>4. ASSUME NEW s \in Seq(X)
      PROVE  s \in S
  <2>1. Len(s) \in Nat
    OBVIOUS
  <2>. QED
    BY <1>3, <2>1
<1>. QED
  BY <1>4

\* Concatenation as the step of a fold.
JoinStep(X) == [p \in Seq(X) \X Seq(X) |-> p[1] \o p[2]]

\* It is one: two sequences make a sequence.
LEMMA JoinFoldable ==
  ASSUME NEW X, NEW base \in Seq(X), NEW ss \in Seq(Seq(X))
  PROVE  Foldable(Seq(X), Seq(X), base, ss, JoinStep(X))
<1>1. \A p \in Seq(X) \X Seq(X) : p[1] \o p[2] \in Seq(X)
  OBVIOUS
<1>. QED
  BY <1>1 DEF Foldable, JoinStep

\* The library's FlattenSeq is that fold.
LEMMA FlattenFolds ==
  ASSUME NEW X, NEW ss \in Seq(Seq(X))
  PROVE  FlattenSeq(ss) = Folded(Seq(X), <<>>, ss, JoinStep(X))
<1>. DEFINE n == Len(ss)
            P(f) == f = [i \in 1 .. n |-> IF i = 1 THEN ss[i] ELSE f[i - 1] \o ss[i]]
            flat == CHOOSE f : P(f)
<1>0. n \in Nat /\ <<>> \in Seq(X) /\ \A i \in 1 .. n : ss[i] \in Seq(X)
  OBVIOUS
<1>1. PICK h \in [0 .. n -> Seq(X)] :
        Follows(h, <<>>, ss, JoinStep(X)) /\ Folded(Seq(X), <<>>, ss, JoinStep(X)) = h[n]
  <2>1. Foldable(Seq(X), Seq(X), <<>>, ss, JoinStep(X))
    BY <1>0, JoinFoldable
  <2>. QED
    BY <2>1, FoldedRun
<1>2. h[0] = <<>>
  BY <1>1 DEF Follows
<1>3. ASSUME NEW i \in 1 .. n
      PROVE  h[i - 1] \in Seq(X) /\ h[i] = h[i - 1] \o ss[i]
  <2>1. i - 1 \in 0 .. n
    BY <1>0
  <2>2. <<h[i - 1], ss[i]>> \in Seq(X) \X Seq(X)
    BY <1>0, <1>1, <2>1
  <2>3. h[i] = JoinStep(X)[<<h[i - 1], ss[i]>>]
    BY <1>1 DEF Follows
  <2>. QED
    BY <2>2, <2>3 DEF JoinStep
<1>4. CASE n = 0
  <2>1. ss = <<>>
    BY <1>4
  <2>2. FlattenSeq(ss) = ss
    BY <1>4 DEF FlattenSeq
  <2>. QED
    BY <1>1, <1>2, <1>4, <2>1, <2>2
<1>5. CASE n # 0
  <2>1. FlattenSeq(ss) = flat[n]
    BY <1>5 DEF FlattenSeq
  <2>2. P([i \in 1 .. n |-> h[i]])
    <3>. DEFINE f == [i \in 1 .. n |-> h[i]]
    <3>1. ASSUME NEW i \in 1 .. n
          PROVE  f[i] = IF i = 1 THEN ss[i] ELSE f[i - 1] \o ss[i]
      <4>1. CASE i = 1
        <5>1. h[1] = h[0] \o ss[1]
          <6>1. 1 \in 1 .. n /\ 1 - 1 = 0
            BY <4>1
          <6>2. h[1] = h[1 - 1] \o ss[1]
            BY <1>3, <6>1
          <6>. QED
            BY <6>1, <6>2
        <5>2. h[1] = ss[1]
          BY <1>0, <1>2, <4>1, <5>1
        <5>. QED
          BY <4>1, <5>2
      <4>2. CASE i # 1
        <5>1. i - 1 \in 1 .. n
          BY <1>0, <4>2
        <5>. QED
          BY <1>3, <4>2, <5>1
      <4>. QED
        BY <4>1, <4>2
    <3>2. f = [i \in 1 .. n |-> IF i = 1 THEN ss[i] ELSE f[i - 1] \o ss[i]]
      BY <3>1
    <3>. QED
      BY <3>2
  <2>3. P(flat)
    <3>. HIDE DEF P
    <3>. QED
      BY <2>2
  <2>. HIDE DEF flat
  <2>. DEFINE Q(m) == m + 1 <= n => flat[m + 1] = h[m + 1]
  <2>4. Q(0)
    <3>1. 1 \in 1 .. n
      BY <1>0, <1>5
    <3>2. flat[1] = ss[1]
      BY <2>3, <3>1
    <3>3. h[1] = h[0] \o ss[1]
      <4>1. 1 - 1 = 0
        OBVIOUS
      <4>2. h[1] = h[1 - 1] \o ss[1]
        <5>. HIDE DEF n
        <5>. QED
          BY <1>3, <3>1
      <4>. QED
        BY <4>1, <4>2
    <3>4. h[1] = ss[1]
      BY <1>0, <1>2, <3>1, <3>3
    <3>. QED
      BY <3>2, <3>4
  <2>5. ASSUME NEW m \in Nat, Q(m)
        PROVE  Q(m + 1)
    <3>. SUFFICES ASSUME (m + 1) + 1 <= n
                  PROVE  flat[(m + 1) + 1] = h[(m + 1) + 1]
      OBVIOUS
    <3>1. (m + 1) + 1 \in 1 .. n /\ (m + 1) + 1 # 1 /\ ((m + 1) + 1) - 1 = m + 1
      BY <1>0
    <3>2. flat[(m + 1) + 1] = flat[m + 1] \o ss[(m + 1) + 1]
      BY <2>3, <3>1
    <3>3. h[(m + 1) + 1] = h[m + 1] \o ss[(m + 1) + 1]
      BY <1>3, <3>1
    <3>4. flat[m + 1] = h[m + 1]
      BY <1>0, <2>5
    <3>. QED
      BY <3>2, <3>3, <3>4
  <2>6. Q(n - 1)
    <3>. DEFINE S == {m \in Nat : Q(m)}
    <3>. HIDE DEF Q
    <3>1. 0 \in S /\ \A m \in Nat : m \in S => m + 1 \in S
      BY <2>4, <2>5
    <3>2. n - 1 \in Nat
      BY <1>0, <1>5
    <3>3. Nat \subseteq S
      <4>. HIDE DEF S
      <4>. QED
        BY <3>1, SetInduction
    <3>. QED
      BY <3>2, <3>3
  <2>7. flat[n] = h[n]
    <3>1. (n - 1) + 1 = n /\ n <= n
      BY <1>0
    <3>. HIDE DEF n
    <3>. QED
      BY <2>6, <3>1
  <2>. QED
    BY <1>1, <2>1, <2>7
<1>. QED
  BY <1>4, <1>5

\* The laws of FlattenSeq: of no sequences, of one more and of two parts.
LEMMA FlattenLaws ==
  ASSUME NEW X, NEW ss \in Seq(Seq(X))
  PROVE  /\ FlattenSeq(ss) \in Seq(X)
         /\ ss = <<>> => FlattenSeq(ss) = <<>>
         /\ \A t \in Seq(X) : FlattenSeq(Append(ss, t)) = FlattenSeq(ss) \o t
         /\ \A tt \in Seq(Seq(X)) : FlattenSeq(ss \o tt) = FlattenSeq(ss) \o FlattenSeq(tt)
<1>0. <<>> \in Seq(X)
  OBVIOUS
<1>1. ASSUME NEW rr \in Seq(Seq(X))
      PROVE  /\ Foldable(Seq(X), Seq(X), <<>>, rr, JoinStep(X))
             /\ FlattenSeq(rr) \in Seq(X)
  <2>1. Foldable(Seq(X), Seq(X), <<>>, rr, JoinStep(X))
    BY <1>0, JoinFoldable
  <2>2. Folded(Seq(X), <<>>, rr, JoinStep(X)) \in Seq(X)
    BY <2>1, FoldedRun
  <2>. QED
    BY <2>1, <2>2, FlattenFolds
<1>2. ASSUME ss = <<>>
      PROVE  FlattenSeq(ss) = <<>>
  <2>1. FlattenSeq(<<>>) = <<>>
    BY DEF FlattenSeq
  <2>. QED
    BY <1>2, <2>1
<1>3. ASSUME NEW rr \in Seq(Seq(X)), NEW t \in Seq(X)
      PROVE  FlattenSeq(Append(rr, t)) = FlattenSeq(rr) \o t
  <2>1. Append(rr, t) \in Seq(Seq(X))
    OBVIOUS
  <2>2. Folded(Seq(X), <<>>, Append(rr, t), JoinStep(X)) =
          JoinStep(X)[<<Folded(Seq(X), <<>>, rr, JoinStep(X)), t>>]
    BY <1>1, FoldedAppend
  <2>3. <<FlattenSeq(rr), t>> \in Seq(X) \X Seq(X)
    BY <1>1
  <2>. QED
    BY <2>1, <2>2, <2>3, FlattenFolds DEF JoinStep
<1>4. ASSUME NEW tt \in Seq(Seq(X))
      PROVE  FlattenSeq(ss \o tt) = FlattenSeq(ss) \o FlattenSeq(tt)
  <2>. DEFINE S == {rr \in Seq(Seq(X)) : FlattenSeq(ss \o rr) = FlattenSeq(ss) \o FlattenSeq(rr)}
  <2>1. <<>> \in S
    <3>1. ss \o <<>> = ss /\ <<>> \in Seq(Seq(X))
      OBVIOUS
    <3>2. FlattenSeq(<<>>) = <<>>
      BY DEF FlattenSeq
    <3>3. FlattenSeq(ss) \o <<>> = FlattenSeq(ss)
      BY <1>1
    <3>. QED
      BY <3>1, <3>2, <3>3
  <2>2. ASSUME NEW rr \in Seq(Seq(X)), NEW t \in Seq(X), rr \in S
        PROVE  Append(rr, t) \in S
    <3>1. ss \o Append(rr, t) = Append(ss \o rr, t) /\ ss \o rr \in Seq(Seq(X))
      OBVIOUS
    <3>2. FlattenSeq(Append(ss \o rr, t)) = FlattenSeq(ss \o rr) \o t
      BY <1>3, <3>1
    <3>3. FlattenSeq(Append(rr, t)) = FlattenSeq(rr) \o t
      BY <1>3
    <3>4. /\ FlattenSeq(ss) \in Seq(X) /\ FlattenSeq(rr) \in Seq(X)
      BY <1>1
    <3>5. (FlattenSeq(ss) \o FlattenSeq(rr)) \o t = FlattenSeq(ss) \o (FlattenSeq(rr) \o t)
      BY <3>4, SMTT(40)
    <3>6. Append(rr, t) \in Seq(Seq(X))
      OBVIOUS
    <3>. QED
      BY <2>2, <3>1, <3>2, <3>3, <3>5, <3>6
  <2>3. Seq(Seq(X)) \subseteq S
    <3>. HIDE DEF S
    <3>. QED
      BY <2>1, <2>2, SeqInduction
  <2>. QED
    BY <2>3
<1>. QED
  BY <1>1, <1>2, <1>3, <1>4

\* One part of them, between what is before it and what is after it.
LEMMA FlattenAround ==
  ASSUME NEW X, NEW ss \in Seq(Seq(X)), NEW k \in 1 .. Len(ss)
  PROVE  /\ SubSeq(ss, 1, k - 1) \in Seq(Seq(X)) /\ SubSeq(ss, k + 1, Len(ss)) \in Seq(Seq(X))
         /\ ss[k] \in Seq(X)
         /\ FlattenSeq(ss) =
              (FlattenSeq(SubSeq(ss, 1, k - 1)) \o ss[k]) \o FlattenSeq(SubSeq(ss, k + 1, Len(ss)))
<1>. DEFINE a == SubSeq(ss, 1, k - 1)
            b == SubSeq(ss, k + 1, Len(ss))
<1>1. a \in Seq(Seq(X)) /\ b \in Seq(Seq(X)) /\ ss[k] \in Seq(X)
  OBVIOUS
<1>2. ss = Append(a, ss[k]) \o b
  <2>. DEFINE n == Len(ss)
              c == Append(a, ss[k])
  <2>1. n \in Nat /\ k \in 1 .. n /\ Len(a) = k - 1 /\ Len(b) = n - k
    OBVIOUS
  <2>2. \A i \in 1 .. (k - 1) : a[i] = ss[i]
    OBVIOUS
  <2>3. \A i \in 1 .. (n - k) : b[i] = ss[k + i]
    OBVIOUS
  <2>. HIDE DEF a, b
  <2>4. /\ c \in Seq(Seq(X)) /\ Len(c) = k /\ c[k] = ss[k]
        /\ \A i \in 1 .. (k - 1) : c[i] = ss[i]
    BY <1>1, <2>1, <2>2
  <2>5. ss \in Seq(Seq(X)) /\ Len(ss) = n
    OBVIOUS
  <2>. HIDE DEF c, n
  <2>6. /\ c \o b \in Seq(Seq(X)) /\ Len(c \o b) = n
        /\ \A i \in 1 .. n : i > k => (c \o b)[i] = b[i - k]
    <3>1. c \o b \in Seq(Seq(X)) /\ Len(c \o b) = Len(c) + Len(b)
      BY <1>1, <2>4, ConcatProperties
    <3>2. \A i \in 1 .. Len(c) + Len(b) :
            (c \o b)[i] = IF i <= Len(c) THEN c[i] ELSE b[i - Len(c)]
      BY <1>1, <2>4, ConcatProperties
    <3>3. Len(c) + Len(b) = n /\ Len(c) = k
      BY <2>1, <2>4
    <3>4. \A i \in 1 .. n : i > k => ~(i <= k)
      BY <2>1
    <3>. QED
      BY <3>1, <3>2, <3>3, <3>4
  <2>7. ASSUME NEW i \in 1 .. n
        PROVE  (c \o b)[i] = ss[i]
    <3>1. CASE i <= k
      <4>1. i \in 1 .. Len(c) /\ (i = k \/ i \in 1 .. (k - 1))
        BY <2>1, <2>4, <3>1
      <4>2. (c \o b)[i] = c[i]
        BY <1>1, <2>4, <4>1
      <4>. QED
        BY <2>4, <4>1, <4>2
    <3>2. CASE i > k
      <4>1. i - k \in 1 .. (n - k) /\ k + (i - k) = i
        BY <2>1, <3>2
      <4>2. (c \o b)[i] = b[i - k]
        BY <2>6, <3>2
      <4>. QED
        BY <2>3, <4>1, <4>2
    <3>3. i <= k \/ i > k
      BY <2>1
    <3>. QED
      BY <3>1, <3>2, <3>3
  <2>. QED
    BY <2>5, <2>6, <2>7, SeqEqual DEF c
<1>3. Append(a, ss[k]) \in Seq(Seq(X))
  BY <1>1
<1>. HIDE DEF a, b
<1>4. FlattenSeq(Append(a, ss[k]) \o b) = FlattenSeq(Append(a, ss[k])) \o FlattenSeq(b)
  BY <1>1, <1>3, FlattenLaws
<1>5. FlattenSeq(Append(a, ss[k])) = FlattenSeq(a) \o ss[k]
  BY <1>1, FlattenLaws
<1>. QED
  BY <1>1, <1>2, <1>4, <1>5 DEF a, b

\* What is in the one is in the other.
LEMMA FlattenElements ==
  ASSUME NEW X, NEW ss \in Seq(Seq(X))
  PROVE  /\ \A k \in 1 .. Len(ss) : \A i \in 1 .. Len(ss[k]) :
              \E j \in 1 .. Len(FlattenSeq(ss)) : FlattenSeq(ss)[j] = ss[k][i]
         /\ \A j \in 1 .. Len(FlattenSeq(ss)) :
              \E k \in 1 .. Len(ss) : \E i \in 1 .. Len(ss[k]) : FlattenSeq(ss)[j] = ss[k][i]
<1>1. ASSUME NEW k \in 1 .. Len(ss), NEW i \in 1 .. Len(ss[k])
      PROVE  \E j \in 1 .. Len(FlattenSeq(ss)) : FlattenSeq(ss)[j] = ss[k][i]
  <2>. DEFINE a == FlattenSeq(SubSeq(ss, 1, k - 1))
              b == FlattenSeq(SubSeq(ss, k + 1, Len(ss)))
  <2>1. a \in Seq(X) /\ b \in Seq(X) /\ ss[k] \in Seq(X) /\ FlattenSeq(ss) = (a \o ss[k]) \o b
    BY FlattenAround, FlattenLaws
  <2>. DEFINE c == ss[k]
              ac == a \o c
  <2>2. i \in 1 .. Len(c) /\ c \in Seq(X)
    BY <2>1
  <2>. HIDE DEF a, b, c
  <2>3. /\ ac \in Seq(X) /\ Len(a) + i \in 1 .. Len(ac) /\ ac[Len(a) + i] = c[i]
    BY <2>1, <2>2
  <2>. HIDE DEF ac
  <2>4. Len(a) + i \in 1 .. Len(ac \o b) /\ (ac \o b)[Len(a) + i] = ac[Len(a) + i]
    BY <2>1, <2>3
  <2>. QED
    BY <2>1, <2>3, <2>4 DEF ac, c
<1>2. \A j \in 1 .. Len(FlattenSeq(ss)) :
        \E k \in 1 .. Len(ss) : \E i \in 1 .. Len(ss[k]) : FlattenSeq(ss)[j] = ss[k][i]
  <2>. DEFINE In(rr) == \A j \in 1 .. Len(FlattenSeq(rr)) :
                \E k \in 1 .. Len(rr) : \E i \in 1 .. Len(rr[k]) : FlattenSeq(rr)[j] = rr[k][i]
              S == {rr \in Seq(Seq(X)) : In(rr)}
  <2>1. <<>> \in S
    <3>1. FlattenSeq(<<>>) = <<>> /\ <<>> \in Seq(Seq(X)) /\ Len(<<>>) = 0
      BY DEF FlattenSeq
    <3>. QED
      BY <3>1
  <2>2. ASSUME NEW rr \in Seq(Seq(X)), NEW t \in Seq(X), rr \in S
        PROVE  Append(rr, t) \in S
    <3>. DEFINE f == FlattenSeq(rr)
                n == Len(rr)
                more == Append(rr, t)
    <3>1. /\ f \in Seq(X) /\ FlattenSeq(more) = f \o t
          /\ more \in Seq(Seq(X)) /\ n \in Nat
          /\ Len(more) = n + 1 /\ more[n + 1] = t
          /\ \A k \in 1 .. n : more[k] = rr[k]
      BY FlattenLaws
    <3>. HIDE DEF f, more, n
    <3>2. ASSUME NEW j \in 1 .. Len(f \o t)
          PROVE  \E k \in 1 .. (n + 1) : \E i \in 1 .. Len(more[k]) : (f \o t)[j] = more[k][i]
      <4>1. CASE j \in 1 .. Len(f)
        <5>1. (f \o t)[j] = f[j]
          BY <3>1, <4>1
        <5>2. PICK k \in 1 .. n : \E i \in 1 .. Len(rr[k]) : f[j] = rr[k][i]
          BY <2>2, <4>1 DEF f, n
        <5>3. k \in 1 .. (n + 1) /\ more[k] = rr[k]
          BY <3>1
        <5>. QED
          BY <5>1, <5>2, <5>3
      <4>2. CASE j \notin 1 .. Len(f)
        <5>1. j - Len(f) \in 1 .. Len(t) /\ (f \o t)[j] = t[j - Len(f)]
          BY <3>1, <4>2
        <5>2. n + 1 \in 1 .. (n + 1)
          BY <3>1
        <5>. QED
          BY <3>1, <5>1, <5>2
      <4>. QED
        BY <4>1, <4>2
    <3>3. In(more)
      BY <3>1, <3>2
    <3>. QED
      BY <3>1, <3>3 DEF more
  <2>3. Seq(Seq(X)) \subseteq S
    <3>. HIDE DEF S
    <3>. QED
      BY <2>1, <2>2, SeqInduction
  <2>. QED
    BY <2>3
<1>. QED
  BY <1>1, <1>2

\* The first elements of a sequence.
LEMMA FirstPart ==
  ASSUME NEW X, NEW ss \in Seq(X), NEW n \in 0 .. Len(ss)
  PROVE  /\ SubSeq(ss, 1, n) \in Seq(X) /\ Len(SubSeq(ss, 1, n)) = n
         /\ \A i \in 1 .. n : SubSeq(ss, 1, n)[i] = ss[i]
OBVIOUS

\* And the others.
LEMMA LastPart ==
  ASSUME NEW X, NEW ss \in Seq(X), NEW n \in 0 .. Len(ss)
  PROVE  LET b == SubSeq(ss, n + 1, Len(ss))
         IN  /\ b \in Seq(X) /\ Len(b) = Len(ss) - n
             /\ \A i \in 1 .. (Len(ss) - n) : b[i] = ss[n + i]
OBVIOUS

\* Replacing an element leaves what is before it and what is after it.
LEMMA ReplacedParts ==
  ASSUME NEW Y, NEW ss \in Seq(Y), NEW rr \in Seq(Y), NEW k \in 1 .. Len(ss),
         Len(rr) = Len(ss), \A i \in 1 .. Len(ss) : i # k => rr[i] = ss[i]
  PROVE  /\ SubSeq(rr, 1, k - 1) = SubSeq(ss, 1, k - 1)
         /\ SubSeq(rr, k + 1, Len(rr)) = SubSeq(ss, k + 1, Len(ss))
<1>1. Len(ss) \in Nat
  OBVIOUS
<1>2. SubSeq(rr, 1, k - 1) = SubSeq(ss, 1, k - 1)
  <2>0. k - 1 \in 0 .. Len(ss) /\ k - 1 \in 0 .. Len(rr)
    BY <1>1
  <2>1. /\ SubSeq(rr, 1, k - 1) \in Seq(Y) /\ Len(SubSeq(rr, 1, k - 1)) = k - 1
        /\ \A i \in 1 .. (k - 1) : SubSeq(rr, 1, k - 1)[i] = rr[i]
    BY <2>0, FirstPart
  <2>2. /\ SubSeq(ss, 1, k - 1) \in Seq(Y) /\ Len(SubSeq(ss, 1, k - 1)) = k - 1
        /\ \A i \in 1 .. (k - 1) : SubSeq(ss, 1, k - 1)[i] = ss[i]
    BY <2>0, FirstPart
  <2>3. \A i \in 1 .. (k - 1) : rr[i] = ss[i]
    BY <1>1
  <2>. QED
    BY <2>1, <2>2, <2>3, SeqEqual
<1>3. SubSeq(rr, k + 1, Len(rr)) = SubSeq(ss, k + 1, Len(ss))
  <2>. DEFINE n == Len(ss)
  <2>1. ASSUME NEW q \in Seq(Y), Len(q) = n
        PROVE  /\ SubSeq(q, k + 1, n) \in Seq(Y) /\ Len(SubSeq(q, k + 1, n)) = n - k
               /\ \A i \in 1 .. (n - k) : SubSeq(q, k + 1, n)[i] = q[k + i]
    <3>1. k \in 0 .. Len(q) /\ Len(q) = n
      BY <1>1, <2>1
    <3>. HIDE DEF n
    <3>. QED
      BY <2>1, <3>1, LastPart
  <2>2. /\ SubSeq(rr, k + 1, n) \in Seq(Y) /\ Len(SubSeq(rr, k + 1, n)) = n - k
        /\ \A i \in 1 .. (n - k) : SubSeq(rr, k + 1, n)[i] = rr[k + i]
        /\ SubSeq(ss, k + 1, n) \in Seq(Y) /\ Len(SubSeq(ss, k + 1, n)) = n - k
        /\ \A i \in 1 .. (n - k) : SubSeq(ss, k + 1, n)[i] = ss[k + i]
    BY <2>1
  <2>3. \A i \in 1 .. (n - k) : rr[k + i] = ss[k + i]
    <3>. TAKE i \in 1 .. (n - k)
    <3>1. k + i \in 1 .. n /\ k + i # k
      BY <1>1
    <3>. QED
      BY <3>1
  <2>4. SubSeq(rr, k + 1, n) = SubSeq(ss, k + 1, n)
    <3>. DEFINE x == SubSeq(rr, k + 1, n)
                y == SubSeq(ss, k + 1, n)
                m == n - k
    <3>1. /\ x \in Seq(Y) /\ y \in Seq(Y) /\ Len(x) = m /\ Len(y) = m
          /\ \A i \in 1 .. m : x[i] = y[i]
      BY <2>2, <2>3
    <3>. HIDE DEF x, y, m
    <3>2. x = y
      BY <3>1, SeqEqual
    <3>. QED
      BY <3>2 DEF x, y
  <2>. QED
    BY <2>4
<1>. QED
  BY <1>2, <1>3

\* Replacing a part leaves what is before it and what is after it.
LEMMA FlattenReplaced ==
  ASSUME NEW X, NEW ss \in Seq(Seq(X)), NEW k \in 1 .. Len(ss),
         NEW rr \in Seq(Seq(X)), Len(rr) = Len(ss),
         \A i \in 1 .. Len(ss) : i # k => rr[i] = ss[i]
  PROVE  FlattenSeq(rr) =
           (FlattenSeq(SubSeq(ss, 1, k - 1)) \o rr[k]) \o FlattenSeq(SubSeq(ss, k + 1, Len(ss)))
<1>. DEFINE Y == Seq(X)
<1>1. ss \in Seq(Y)
  OBVIOUS
<1>2. k \in 1 .. Len(ss) /\ Len(ss) \in Nat
  OBVIOUS
<1>. HIDE DEF Y
<1>3. rr \in Seq(Y) /\ Len(rr) = Len(ss) /\ \A i \in 1 .. Len(ss) : i # k => rr[i] = ss[i]
  BY DEF Y
<1>4. SubSeq(rr, 1, k - 1) = SubSeq(ss, 1, k - 1)
  BY <1>1, <1>2, <1>3, ReplacedParts
<1>5. SubSeq(rr, k + 1, Len(rr)) = SubSeq(ss, k + 1, Len(ss))
  BY <1>1, <1>2, <1>3, ReplacedParts
<1>6. rr \in Seq(Seq(X)) /\ k \in 1 .. Len(rr)
  BY <1>2, <1>3 DEF Y
<1>7. FlattenSeq(rr) =
        (FlattenSeq(SubSeq(rr, 1, k - 1)) \o rr[k]) \o FlattenSeq(SubSeq(rr, k + 1, Len(rr)))
  BY <1>6, FlattenAround
<1>. QED
  BY <1>3, <1>4, <1>5, <1>7

-----------------------------------------------------------------------------
(* The store.                                                              *)

\* A db with nothing in it is a graph.
LEMMA EmptyGraphType == EmptyGraph \in Graph
BY DEF EmptyGraph, Graph

\* The first storage write of an extend keeps the store well formed.
LEMMA ExtendNodesType ==
  ASSUME NEW g \in Graph, NEW w \in Wires, NEW ts \in Time
  PROVE  ExtendNodes(g, w, ts) \in Graph
<1>1. \A n \in AbsentNodes(g, w) : w.nodes[n] \in Hash
  BY DEF AbsentNodes, Wired, Wires
<1>2. \A n \in AbsentNodes(g, w) : StampedNode(w.nodes[n], ts) \in NodeRow
  BY <1>1 DEF StampedNode, NodeRow
<1>. QED
  BY <1>2 DEF ExtendNodes, AddNodes, Graph

\* So does the second.
LEMMA AddEdgesType ==
  ASSUME NEW g \in Graph, NEW ids \in SUBSET EdgeId, NEW ts \in Time
  PROVE  AddEdges(g, ids, ts) \in Graph
BY DEF AddEdges, Graph, EdgeRow

\* And the single write of a merge or of a drop.
LEMMA UpdateNodeType ==
  ASSUME NEW g \in Graph, NEW n \in NodeId, NEW p \in Prop, NEW ts \in Time
  PROVE  UpdateNode(g, n, p, ts) \in Graph
<1>. DEFINE Row(m) == [hash |-> g.node[m].hash, prop |-> p,
                       created |-> g.node[m].created, updated |-> ts]
<1>1. \A m \in NodeId : g.node[m] # Absent => g.node[m] \in NodeRow
  BY DEF Graph
<1>2. \A m \in NodeId : g.node[m] # Absent => Row(m) \in NodeRow
  BY <1>1 DEF NodeRow
<1>. QED
  BY <1>2 DEF UpdateNode, Graph

\* A drop too.
LEMMA DeleteNodesType ==
  ASSUME NEW g \in Graph, NEW ids \in SUBSET NodeId
  PROVE  DeleteNodes(g, ids) \in Graph
BY DEF DeleteNodes, Graph

\* The body of an op is what its verb says it is.
LEMMA BodyByVerb ==
  ASSUME NEW op \in Op
  PROVE  /\ op.ts \in Time
         /\ op.body \in Body
         /\ op.body.verb \in {"extend", "update", "delete"}
         /\ op.body.verb = "extend" => op.body \in Wires
         /\ op.body.verb = "update" => op.body.node \in NodeId /\ op.body.prop \in Prop
         /\ op.body.verb = "delete" => op.body.nodes \in SUBSET NodeId
<1>1. op.ts \in Time /\ op.body \in Body
  BY DEF Op
<1>2. CASE op.body \in Wires
  BY <1>1, <1>2 DEF Wires
<1>3. CASE op.body \in Merge
  BY <1>1, <1>3 DEF Merge
<1>4. CASE op.body \in Drop
  BY <1>1, <1>4 DEF Drop
<1>. QED
  BY <1>1, <1>2, <1>3, <1>4 DEF Body

\* ApplyOp, one equation per verb.
LEMMA ApplyByVerb ==
  ASSUME NEW g, NEW op
  PROVE  /\ op.body.verb = "extend" => ApplyOp(g, op) = Extend(g, op.body, op.ts)
         /\ op.body.verb = "update" =>
              ApplyOp(g, op) = UpdateNode(g, op.body.node, op.body.prop, op.ts)
         /\ op.body.verb = "delete" => ApplyOp(g, op) = DeleteNodes(g, op.body.nodes)
BY DEF ApplyOp

\* Applying an op keeps the store well formed.
LEMMA ApplyOpType ==
  ASSUME NEW g \in Graph, NEW op \in Op
  PROVE  ApplyOp(g, op) \in Graph
<1>1. CASE op.body.verb = "extend"
  <2>1. ExtendNodes(g, op.body, op.ts) \in Graph
    BY <1>1, BodyByVerb, ExtendNodesType
  <2>2. AbsentEdges(g, op.body) \in SUBSET EdgeId
    BY <1>1, BodyByVerb DEF AbsentEdges, Wires
  <2>. QED
    BY <1>1, <2>1, <2>2, BodyByVerb, AddEdgesType, ApplyByVerb DEF Extend
<1>2. CASE op.body.verb = "update"
  BY <1>2, BodyByVerb, UpdateNodeType, ApplyByVerb
<1>3. CASE op.body.verb = "delete"
  BY <1>3, BodyByVerb, DeleteNodesType, ApplyByVerb
<1>. QED
  BY <1>1, <1>2, <1>3, BodyByVerb

\* What a plan leaves to journal is a body, as what it was asked.
LEMMA PlannedType ==
  ASSUME NEW g \in Graph, NEW b \in Body
  PROVE  Planned(g, b) \in Body
<1>1. CASE b.verb = "extend"
  <2>1. b \in Wires
    BY <1>1 DEF Body, Wires, Merge, Drop
  <2>2. [n \in NodeId |-> IF n \in AbsentNodes(g, b) THEN b.nodes[n] ELSE Absent]
          \in [NodeId -> Hash \cup {Absent}]
    BY <2>1 DEF Wires
  <2>3. AbsentEdges(g, b) \in SUBSET EdgeId
    BY <2>1 DEF Wires, AbsentEdges
  <2>4. Delta(g, b) \in Wires
    BY <2>2, <2>3 DEF Delta, Wires
  <2>. QED
    BY <1>1, <2>4 DEF Planned, Body
<1>2. CASE b.verb # "extend"
  BY <1>2 DEF Planned
<1>. QED
  BY <1>1, <1>2

-----------------------------------------------------------------------------
(* Applying again over what a crash left. *)

\* Rows of one graph, position by position.
LEMMA GraphEqual ==
  ASSUME NEW g \in Graph, NEW h \in Graph,
         \A n \in NodeId : g.node[n] = h.node[n],
         \A e \in EdgeId : g.edge[e] = h.edge[e]
  PROVE  g = h
BY DEF Graph

\* What an extend leaves, row by row: each absent wire is there with the op's
\* time, and everything else as it was.
LEMMA ExtendRows ==
  ASSUME NEW g \in Graph, NEW w \in Wires, NEW ts \in Time
  PROVE  /\ \A n \in NodeId : ExtendNodes(g, w, ts).node[n] =
              IF n \in AbsentNodes(g, w) THEN StampedNode(w.nodes[n], ts) ELSE g.node[n]
         /\ ExtendNodes(g, w, ts).edge = g.edge
         /\ Extend(g, w, ts).node = ExtendNodes(g, w, ts).node
         /\ \A e \in EdgeId : Extend(g, w, ts).edge[e] =
              IF e \in AbsentEdges(g, w) THEN [created |-> ts] ELSE g.edge[e]
BY DEF ExtendNodes, AddNodes, Extend, AddEdges, Graph

\* An extend leaves what is there as it is.
LEMMA ExtendKeeps ==
  ASSUME NEW g \in Graph, NEW w \in Wires, NEW ts \in Time
  PROVE  /\ \A n \in NodeId : g.node[n] # Absent => Extend(g, w, ts).node[n] = g.node[n]
         /\ \A e \in EdgeId : g.edge[e] # Absent => Extend(g, w, ts).edge[e] = g.edge[e]
<1>1. \A n \in NodeId : g.node[n] # Absent => n \notin AbsentNodes(g, w)
  BY DEF AbsentNodes
<1>2. \A e \in EdgeId : g.edge[e] # Absent => e \notin AbsentEdges(g, w)
  BY DEF AbsentEdges
<1>3. ASSUME NEW n \in NodeId, g.node[n] # Absent
      PROVE  Extend(g, w, ts).node[n] = g.node[n]
  BY <1>1, <1>3 DEF Extend, AddEdges, ExtendNodes, AddNodes
<1>4. ASSUME NEW e \in EdgeId, g.edge[e] # Absent
      PROVE  Extend(g, w, ts).edge[e] = g.edge[e]
  BY <1>2, <1>4, ExtendRows
<1>. QED
  BY <1>3, <1>4

\* No row is Absent once it has been added.
LEMMA ExtendLeavesNoneAbsent ==
  ASSUME NEW g \in Graph, NEW w \in Wires, NEW ts \in Time
  PROVE  /\ AbsentNodes(ExtendNodes(g, w, ts), w) = {}
         /\ AbsentNodes(Extend(g, w, ts), w) = {}
         /\ AbsentEdges(ExtendNodes(g, w, ts), w) = AbsentEdges(g, w)
         /\ AbsentEdges(Extend(g, w, ts), w) = {}
<1>1. \A n \in AbsentNodes(g, w) : StampedNode(w.nodes[n], ts) # Absent
  <2>1. \A n \in AbsentNodes(g, w) : StampedNode(w.nodes[n], ts) \in NodeRow
    BY DEF AbsentNodes, Wired, Wires, StampedNode, NodeRow
  <2>. QED
    BY <2>1, AbsentIsNoRow
<1>2. [created |-> ts] # Absent
  BY AbsentIsNoRow DEF EdgeRow
<1>3. Wired(w) \subseteq NodeId /\ w.edges \subseteq EdgeId
  BY DEF Wired, Wires
<1>4. \A n \in NodeId : n \in Wired(w) => ExtendNodes(g, w, ts).node[n] # Absent
  <2>. TAKE n \in NodeId
  <2>1. ExtendNodes(g, w, ts).node[n] =
          IF n \in AbsentNodes(g, w) THEN StampedNode(w.nodes[n], ts) ELSE g.node[n]
    BY ExtendRows
  <2>. QED
    BY <1>1, <2>1 DEF AbsentNodes
<1>5. AbsentNodes(ExtendNodes(g, w, ts), w) = {}
  BY <1>3, <1>4 DEF AbsentNodes
<1>6. AbsentNodes(Extend(g, w, ts), w) = {}
  <2>1. Extend(g, w, ts).node = ExtendNodes(g, w, ts).node
    BY ExtendRows
  <2>. QED
    BY <1>3, <1>4, <2>1 DEF AbsentNodes
<1>7. AbsentEdges(ExtendNodes(g, w, ts), w) = AbsentEdges(g, w)
  <2>1. ExtendNodes(g, w, ts).edge = g.edge
    BY ExtendRows
  <2>. QED
    BY <2>1 DEF AbsentEdges
<1>8. AbsentEdges(Extend(g, w, ts), w) = {}
  <2>1. \A e \in EdgeId : e \in w.edges => Extend(g, w, ts).edge[e] # Absent
    <3>. TAKE e \in EdgeId
    <3>1. Extend(g, w, ts).edge[e] =
            IF e \in AbsentEdges(g, w) THEN [created |-> ts] ELSE g.edge[e]
      BY ExtendRows
    <3>. QED
      BY <1>2, <3>1 DEF AbsentEdges
  <2>. QED
    BY <1>3, <2>1 DEF AbsentEdges
<1>. QED
  BY <1>5, <1>6, <1>7, <1>8

\* Adding nothing changes nothing.
LEMMA AddNothing ==
  ASSUME NEW g \in Graph, NEW w \in Wires, NEW ts \in Time
  PROVE  /\ AbsentNodes(g, w) = {} => ExtendNodes(g, w, ts) = g
         /\ AddEdges(g, {}, ts) = g
<1>1. ASSUME AbsentNodes(g, w) = {} PROVE ExtendNodes(g, w, ts) = g
  <2>1. ExtendNodes(g, w, ts) \in Graph
    BY ExtendNodesType
  <2>2. /\ \A n \in NodeId : ExtendNodes(g, w, ts).node[n] = g.node[n]
        /\ \A e \in EdgeId : ExtendNodes(g, w, ts).edge[e] = g.edge[e]
    BY <1>1, ExtendRows
  <2>. QED
    BY <2>1, <2>2, GraphEqual
<1>2. AddEdges(g, {}, ts) = g
  <2>1. AddEdges(g, {}, ts) \in Graph
    BY AddEdgesType
  <2>. QED
    BY <2>1, GraphEqual DEF AddEdges, Graph
<1>. QED
  BY <1>1, <1>2

\* An extend applied to the graph before it, to that graph with the extend's
\* nodes in, or to the graph after it: its first write leaves one of the last
\* two, and the edges it then has due bring the graph after it.
LEMMA ExtendResumes ==
  ASSUME NEW g \in Graph, NEW w \in Wires, NEW ts \in Time, NEW h,
         h \in {g, ExtendNodes(g, w, ts), Extend(g, w, ts)}
  PROVE  /\ h \in Graph
         /\ ExtendNodes(h, w, ts) \in {ExtendNodes(g, w, ts), Extend(g, w, ts)}
         /\ AbsentEdges(h, w) \in SUBSET EdgeId
         /\ AddEdges(ExtendNodes(h, w, ts), AbsentEdges(h, w), ts) = Extend(g, w, ts)
<1>. DEFINE part == ExtendNodes(g, w, ts)
            whole == Extend(g, w, ts)
<1>1. AbsentEdges(g, w) \in SUBSET EdgeId
  BY DEF AbsentEdges, Wires
<1>2. part \in Graph /\ whole \in Graph
  BY <1>1, ExtendNodesType, AddEdgesType DEF Extend
<1>3. ExtendNodes(part, w, ts) = part /\ ExtendNodes(whole, w, ts) = whole
  BY <1>2, AddNothing, ExtendLeavesNoneAbsent
<1>4. AddEdges(part, AbsentEdges(g, w), ts) = whole
  BY DEF Extend
<1>5. AddEdges(whole, {}, ts) = whole
  BY <1>2, AddNothing
<1>6. AbsentEdges(part, w) = AbsentEdges(g, w) /\ AbsentEdges(whole, w) = {}
  BY ExtendLeavesNoneAbsent
<1>7. CASE h = g
  BY <1>1, <1>4, <1>7
<1>8. CASE h = part
  BY <1>1, <1>2, <1>3, <1>4, <1>6, <1>8
<1>9. CASE h = whole
  BY <1>2, <1>3, <1>5, <1>6, <1>9
<1>. QED
  BY <1>7, <1>8, <1>9

\* A merge or a drop applied a second time changes nothing.
LEMMA SingleWriteIdempotent ==
  ASSUME NEW g \in Graph, NEW op \in Op, op.body.verb # "extend"
  PROVE  ApplyOp(ApplyOp(g, op), op) = ApplyOp(g, op)
<1>. DEFINE once == ApplyOp(g, op)
            twice == ApplyOp(once, op)
<1>1. once \in Graph /\ twice \in Graph
  BY ApplyOpType
<1>2. CASE op.body.verb = "update"
  <2>. DEFINE n == op.body.node
              Merged(row) == IF row = Absent THEN Absent
                             ELSE [hash |-> row.hash, prop |-> op.body.prop,
                                   created |-> row.created, updated |-> op.ts]
  <2>1. \A row : Merged(Merged(row)) = Merged(row)
    <3>1. \A row : row # Absent => Merged(Merged(row)) \in {Absent, Merged(row)}
      OBVIOUS
    <3>2. \A row : row \in NodeRow => Merged(row) \in NodeRow
      BY <1>2, BodyByVerb DEF NodeRow
    <3>. QED
      OBVIOUS
  <2>2. ASSUME NEW x \in Graph
        PROVE  /\ ApplyOp(x, op).edge = x.edge
               /\ \A m \in NodeId : ApplyOp(x, op).node[m] =
                    IF m = n THEN Merged(x.node[m]) ELSE x.node[m]
    <3>1. ApplyOp(x, op) = UpdateNode(x, n, op.body.prop, op.ts)
      BY <1>2, ApplyByVerb
    <3>. QED
      BY <3>1 DEF UpdateNode
  <2>3. \A m \in NodeId : twice.node[m] = once.node[m]
    <3>. HIDE DEF Merged
    <3>. TAKE m \in NodeId
    <3>1. twice.node[m] = IF m = n THEN Merged(once.node[m]) ELSE once.node[m]
      BY <1>1, <2>2
    <3>2. m = n => once.node[m] = Merged(g.node[m])
      BY <2>2
    <3>. QED
      BY <2>1, <3>1, <3>2
  <2>4. \A e \in EdgeId : twice.edge[e] = once.edge[e]
    BY <1>1, <2>2
  <2>. QED
    BY <1>1, <2>3, <2>4, GraphEqual
<1>3. CASE op.body.verb = "delete"
  <2>1. \A x \in Graph :
          /\ \A m \in NodeId : ApplyOp(x, op).node[m] =
               IF m \in op.body.nodes THEN Absent ELSE x.node[m]
          /\ (\A m \in op.body.nodes : x.node[m] = Absent) => ApplyOp(x, op).edge = x.edge
    <3>. SUFFICES ASSUME NEW x \in Graph
         PROVE /\ \A m \in NodeId : DeleteNodes(x, op.body.nodes).node[m] =
                    IF m \in op.body.nodes THEN Absent ELSE x.node[m]
               /\ (\A m \in op.body.nodes : x.node[m] = Absent) =>
                    DeleteNodes(x, op.body.nodes).edge = x.edge
      BY <1>3, ApplyByVerb
    <3>. QED
      BY <1>3, BodyByVerb, EdgeEndpoints DEF DeleteNodes, Graph
  <2>. QED
    BY <1>1, <1>3, <2>1, BodyByVerb, GraphEqual
<1>. QED
  BY <1>2, <1>3, BodyByVerb

-----------------------------------------------------------------------------
(* What a plan leaves to journal: the wires that were missing. *)

\* Every wire of the op is absent from the graph.
IsDelta(g, op) ==
  op.body.verb = "extend" =>
    /\ AbsentNodes(g, op.body) = Wired(op.body)
    /\ AbsentEdges(g, op.body) = op.body.edges

\* A plan leaves a delta.
LEMMA PlannedIsDelta ==
  ASSUME NEW g, NEW b \in Body, NEW op, op.body = Planned(g, b)
  PROVE  IsDelta(g, op)
<1>1. CASE b.verb = "extend"
  <2>1. op.body = Delta(g, b)
    BY <1>1 DEF Planned
  <2>2. b.nodes \in [NodeId -> Hash \cup {Absent}]
    BY <1>1 DEF Body, Wires, Merge, Drop
  <2>3. \A n \in NodeId : op.body.nodes[n] =
          IF b.nodes[n] # Absent /\ g.node[n] = Absent THEN b.nodes[n] ELSE Absent
    <3>1. op.body.nodes = [n \in NodeId |-> IF n \in AbsentNodes(g, b) THEN b.nodes[n] ELSE Absent]
      BY <2>1 DEF Delta
    <3>2. \A n \in NodeId : n \in AbsentNodes(g, b) <=> b.nodes[n] # Absent /\ g.node[n] = Absent
      BY DEF AbsentNodes, Wired
    <3>. QED
      BY <3>1, <3>2
  <2>4. op.body.edges = {e \in b.edges : g.edge[e] = Absent}
    BY <2>1 DEF Delta, AbsentEdges
  <2>. QED
    BY <2>3, <2>4 DEF IsDelta, AbsentNodes, AbsentEdges, Wired
<1>2. CASE b.verb # "extend"
  BY <1>2 DEF Planned, IsDelta
<1>. QED
  BY <1>1, <1>2

\* An extend none of whose wires the graph held refuses on none of the graphs
\* its own apply goes through.
LEMMA DeltaNeverRefuses ==
  ASSUME NEW g \in Graph, NEW op \in Op, op.body.verb = "extend", IsDelta(g, op),
         NEW h \in {g, ExtendNodes(g, op.body, op.ts), Extend(g, op.body, op.ts)}
  PROVE  ~Refuses(h, op)
<1>1. op.body \in Wires /\ op.ts \in Time /\ AbsentNodes(g, op.body) = Wired(op.body)
  BY BodyByVerb DEF IsDelta
<1>2. ASSUME NEW n \in Wired(op.body)
      PROVE  h.node[n] = Absent \/ h.node[n].hash = op.body.nodes[n]
  <2>1. n \in NodeId /\ n \in AbsentNodes(g, op.body) /\ g.node[n] = Absent
    BY <1>1, <1>2 DEF Wired, AbsentNodes
  <2>2. h.node[n] = g.node[n] \/ h.node[n] = StampedNode(op.body.nodes[n], op.ts)
    <3>. DEFINE part == ExtendNodes(g, op.body, op.ts)
                whole == Extend(g, op.body, op.ts)
    <3>1. part.node[n] = StampedNode(op.body.nodes[n], op.ts) /\ whole.node = part.node
      BY <1>1, <2>1, ExtendRows, ZenonT(60)
    <3>2. h = g \/ h = part \/ h = whole
      OBVIOUS
    <3>. HIDE DEF part, whole
    <3>. QED
      BY <3>1, <3>2
  <2>. QED
    BY <2>1, <2>2 DEF StampedNode
<1>. QED
  BY <1>2 DEF Refuses, Mismatch

-----------------------------------------------------------------------------
(* Replays: a sequence of ops applied in order. *)

\* ApplyOp as the step of a fold.
OpStep == [p \in Graph \X Op |-> ApplyOp(p[1], p[2])]

\* It is one: an op takes a graph to a graph.
LEMMA OpStepType == OpStep \in [Graph \X Op -> Graph]
BY ApplyOpType DEF OpStep

\* The library's fold of the ops is the fold by the graphs after each of them.
LEMMA FoldOps ==
  ASSUME NEW g \in Graph, NEW s \in Seq(Op)
  PROVE  FoldLeft(ApplyOp, g, s) = Folded(Graph, g, s, OpStep)
<1>. DEFINE n == Len(s)
            P(iter) == iter = [t \in SUBSET (1 .. n) |->
                          IF t = {} THEN g ELSE ApplyOp(iter[t \ {Max(t)}], s[Max(t)])]
            iter == CHOOSE f : P(f)
<1>1. n \in Nat /\ DOMAIN s = 1 .. n /\ \A i \in 1 .. n : s[i] \in Op
  OBVIOUS
<1>2. FoldLeft(ApplyOp, g, s) = iter[1 .. n]
  <2>1. FoldLeft(ApplyOp, g, s) =
          (CHOOSE f : f = [t \in SUBSET DOMAIN s |->
             IF t = {} THEN g ELSE ApplyOp(f[t \ {Max(t)}], s[Max(t)])])[DOMAIN s]
    BY DEF FoldLeft, MapThenFoldSet
  <2>. QED
    BY <1>1, <2>1
<1>3. Foldable(Graph, Op, g, s, OpStep)
  BY OpStepType DEF Foldable
<1>4. PICK f \in [SUBSET (1 .. n) -> Graph] : Recursion(f, g, s, OpStep)
  BY <1>3, RecursionExists
<1>5. P(f)
  <2>1. ASSUME NEW t \in SUBSET (1 .. n), t # {}
        PROVE  OpStep[<<f[t \ {Max(t)}], s[Max(t)]>>] = ApplyOp(f[t \ {Max(t)}], s[Max(t)])
    <3>1. Max(t) \in 1 .. n
      BY <1>1, <2>1, MaxOfPositions
    <3>2. <<f[t \ {Max(t)}], s[Max(t)]>> \in Graph \X Op
      BY <1>1, <3>1
    <3>. QED
      BY <3>2 DEF OpStep
  <2>. QED
    BY <1>4, <2>1 DEF Recursion
<1>6. P(iter)
  <2>. HIDE DEF P
  <2>. QED
    BY <1>5
<1>. HIDE DEF iter
<1>7. iter[{}] = g
  <2>1. {} \in SUBSET (1 .. n)
    OBVIOUS
  <2>. QED
    BY <1>6, <2>1
<1>8. ASSUME NEW m \in 1 .. n, iter[1 .. (m - 1)] \in Graph
      PROVE  iter[1 .. m] = OpStep[<<iter[1 .. (m - 1)], s[m]>>]
  <2>1. /\ (1 .. m) \in SUBSET (1 .. n) /\ (1 .. m) # {}
        /\ Max(1 .. m) = m /\ (1 .. m) \ {m} = 1 .. (m - 1)
    BY <1>1, FirstPositions
  <2>2. iter[1 .. m] = ApplyOp(iter[1 .. (m - 1)], s[m])
    BY <1>6, <2>1
  <2>. QED
    BY <1>1, <1>8, <2>2 DEF OpStep
<1>9. iter[1 .. n] = Folded(Graph, g, s, OpStep)
  BY <1>3, <1>7, <1>8, FoldedByPositions
<1>. QED
  BY <1>2, <1>9

\* The laws of applying a sequence of ops: what is applied to a graph leaves a
\* graph, an op more is an application more, and a concatenation is applied in
\* two passes.
LEMMA ReplayLaws ==
  ASSUME NEW g \in Graph, NEW s \in Seq(Op)
  PROVE  /\ FoldLeft(ApplyOp, g, s) \in Graph
         /\ s = <<>> => FoldLeft(ApplyOp, g, s) = g
         /\ \A op \in Op : FoldLeft(ApplyOp, g, Append(s, op)) = ApplyOp(FoldLeft(ApplyOp, g, s), op)
         /\ \A t \in Seq(Op) : FoldLeft(ApplyOp, g, s \o t) =
              FoldLeft(ApplyOp, FoldLeft(ApplyOp, g, s), t)
<1>1. Foldable(Graph, Op, g, s, OpStep)
  BY OpStepType DEF Foldable
<1>2. FoldLeft(ApplyOp, g, s) \in Graph
  BY <1>1, FoldOps, FoldedRun
<1>3. ASSUME s = <<>>
      PROVE  FoldLeft(ApplyOp, g, s) = g
  <2>1. Len(s) = 0
    BY <1>3
  <2>2. Folded(Graph, g, s, OpStep) = g
    BY <1>1, <2>1, FoldedEmpty
  <2>. QED
    BY <2>2, FoldOps
<1>4. ASSUME NEW op \in Op
      PROVE  FoldLeft(ApplyOp, g, Append(s, op)) = ApplyOp(FoldLeft(ApplyOp, g, s), op)
  <2>1. Append(s, op) \in Seq(Op)
    OBVIOUS
  <2>2. Folded(Graph, g, Append(s, op), OpStep) = OpStep[<<Folded(Graph, g, s, OpStep), op>>]
    BY <1>1, FoldedAppend
  <2>3. <<Folded(Graph, g, s, OpStep), op>> \in Graph \X Op
    BY <1>2, FoldOps
  <2>. QED
    BY <2>1, <2>2, <2>3, FoldOps DEF OpStep
<1>5. ASSUME NEW t \in Seq(Op)
      PROVE  FoldLeft(ApplyOp, g, s \o t) = FoldLeft(ApplyOp, FoldLeft(ApplyOp, g, s), t)
  <2>1. s \o t \in Seq(Op)
    OBVIOUS
  <2>2. Folded(Graph, g, s \o t, OpStep) =
          Folded(Graph, Folded(Graph, g, s, OpStep), t, OpStep)
    BY <1>1, FoldedConcat
  <2>3. FoldLeft(ApplyOp, g, s) = Folded(Graph, g, s, OpStep)
    BY FoldOps
  <2>4. FoldLeft(ApplyOp, g, s \o t) = Folded(Graph, g, s \o t, OpStep)
    BY <2>1, FoldOps
  <2>5. FoldLeft(ApplyOp, FoldLeft(ApplyOp, g, s), t) =
          Folded(Graph, FoldLeft(ApplyOp, g, s), t, OpStep)
    BY <1>2, FoldOps
  <2>. QED
    BY <2>2, <2>3, <2>4, <2>5
<1>. QED
  BY <1>2, <1>3, <1>4, <1>5

\* A replay of one journal after another.
LEMMA ReplayConcat ==
  ASSUME NEW g \in Graph, NEW s \in Seq(Op), NEW t \in Seq(Op)
  PROVE  FoldLeft(ApplyOp, g, s \o t) = FoldLeft(ApplyOp, FoldLeft(ApplyOp, g, s), t)
BY ReplayLaws

\* The graphs after each op of a sequence are the folds of its prefixes.
LEMMA PrefixReplays ==
  ASSUME NEW g \in Graph, NEW s \in Seq(Op), NEW r, r[1] = g,
         \A i \in 1 .. Len(s) : r[i + 1] = ApplyOp(r[i], s[i])
  PROVE  \A i \in 0 .. Len(s) : FoldLeft(ApplyOp, g, SubSeq(s, 1, i)) = r[i + 1]
<1>. DEFINE P(i) == i <= Len(s) => FoldLeft(ApplyOp, g, SubSeq(s, 1, i)) = r[i + 1]
<1>1. P(0)
  <2>1. SubSeq(s, 1, 0) = <<>> /\ SubSeq(s, 1, 0) \in Seq(Op)
    OBVIOUS
  <2>2. FoldLeft(ApplyOp, g, SubSeq(s, 1, 0)) = g
    BY <2>1, ReplayLaws
  <2>. QED
    BY <2>2
<1>2. ASSUME NEW i \in Nat, P(i)
      PROVE  P(i + 1)
  <2>. SUFFICES ASSUME i + 1 <= Len(s)
                PROVE  FoldLeft(ApplyOp, g, SubSeq(s, 1, i + 1)) = r[(i + 1) + 1]
    OBVIOUS
  <2>. DEFINE past == SubSeq(s, 1, i)
              op == s[i + 1]
  <2>1. past \in Seq(Op) /\ op \in Op /\ SubSeq(s, 1, i + 1) = Append(past, op)
    OBVIOUS
  <2>2. FoldLeft(ApplyOp, g, past) = r[i + 1]
    <3>1. i <= Len(s)
      OBVIOUS
    <3>. QED
      BY <1>2, <3>1
  <2>3. r[(i + 1) + 1] = ApplyOp(r[i + 1], op)
    <3>1. i + 1 \in 1 .. Len(s)
      OBVIOUS
    <3>. QED
      BY <3>1
  <2>. HIDE DEF past, op
  <2>4. FoldLeft(ApplyOp, g, Append(past, op)) = ApplyOp(FoldLeft(ApplyOp, g, past), op)
    BY <2>1, ReplayLaws, ZenonT(60)
  <2>. QED
    BY <2>1, <2>2, <2>3, <2>4
<1>3. \A i \in Nat : P(i)
  <2>. DEFINE S == {i \in Nat : P(i)}
  <2>. HIDE DEF P
  <2>1. 0 \in S /\ \A i \in Nat : i \in S => i + 1 \in S
    BY <1>1, <1>2
  <2>2. Nat \subseteq S
    <3>. HIDE DEF S
    <3>. QED
      BY <2>1, SetInduction
  <2>. QED
    BY <2>2
<1>. QED
  BY <1>3

-----------------------------------------------------------------------------
(* What an op does to one row. *)

Adds(op, n) == op.body.verb = "extend" /\ n \in Wired(op.body)

Updates(op, n) == op.body.verb = "update" /\ op.body.node = n

Deletes(op, n) == op.body.verb = "delete" /\ n \in op.body.nodes

Links(op, e) == op.body.verb = "extend" /\ e \in op.body.edges

Cuts(op, e) == Deletes(op, Source[e]) \/ Deletes(op, Target[e])

MergedRow(row, op) ==
  [hash |-> row.hash, prop |-> op.body.prop, created |-> row.created, updated |-> op.ts]

\* A node's row after an op, by the row before it.
RowAfter(row, op, n) ==
  IF Deletes(op, n) THEN Absent
  ELSE IF Updates(op, n) /\ row # Absent THEN MergedRow(row, op)
  ELSE IF Adds(op, n) /\ row = Absent THEN StampedNode(op.body.nodes[n], op.ts)
  ELSE row

\* Applying an op is row by row, but that a drop takes the edges of the nodes it
\* finds.
LEMMA ApplyRows ==
  ASSUME NEW g \in Graph, NEW op \in Op
  PROVE  /\ \A n \in NodeId : ApplyOp(g, op).node[n] = RowAfter(g.node[n], op, n)
         /\ \A e \in EdgeId : ~Cuts(op, e) =>
              ApplyOp(g, op).edge[e] = IF Links(op, e) /\ g.edge[e] = Absent
                                         THEN [created |-> op.ts] ELSE g.edge[e]
         /\ \A e \in EdgeId : Cuts(op, e) =>
              ApplyOp(g, op).edge[e] =
                IF \/ Deletes(op, Source[e]) /\ g.node[Source[e]] # Absent
                   \/ Deletes(op, Target[e]) /\ g.node[Target[e]] # Absent
                  THEN Absent ELSE g.edge[e]
<1>1. CASE op.body.verb = "extend"
  <2>1. /\ ApplyOp(g, op) = Extend(g, op.body, op.ts) /\ op.body \in Wires /\ op.ts \in Time
        /\ \A n : ~Deletes(op, n) /\ ~Updates(op, n)
        /\ \A n : Adds(op, n) <=> n \in Wired(op.body)
        /\ \A e : ~Cuts(op, e) /\ (Links(op, e) <=> e \in op.body.edges)
    BY <1>1, BodyByVerb, ApplyByVerb DEF Deletes, Updates, Adds, Links, Cuts
  <2>2. ASSUME NEW n \in NodeId
        PROVE  Extend(g, op.body, op.ts).node[n] =
                 IF n \in Wired(op.body) /\ g.node[n] = Absent
                   THEN StampedNode(op.body.nodes[n], op.ts) ELSE g.node[n]
    BY DEF Extend, AddEdges, ExtendNodes, AddNodes, AbsentNodes
  <2>3. ASSUME NEW e \in EdgeId
        PROVE  Extend(g, op.body, op.ts).edge[e] =
                 IF e \in op.body.edges /\ g.edge[e] = Absent
                   THEN [created |-> op.ts] ELSE g.edge[e]
    BY DEF Extend, AddEdges, ExtendNodes, AddNodes, AbsentEdges
  <2>. QED
    BY <2>1, <2>2, <2>3 DEF RowAfter
<1>2. CASE op.body.verb = "update"
  <2>1. /\ ApplyOp(g, op) = UpdateNode(g, op.body.node, op.body.prop, op.ts)
        /\ \A n : ~Deletes(op, n) /\ ~Adds(op, n)
        /\ \A n : Updates(op, n) <=> op.body.node = n
        /\ \A e : ~Cuts(op, e) /\ ~Links(op, e)
    BY <1>2, ApplyByVerb DEF Deletes, Updates, Adds, Links, Cuts
  <2>2. ASSUME NEW n \in NodeId
        PROVE  ApplyOp(g, op).node[n] = RowAfter(g.node[n], op, n)
    BY <2>1 DEF UpdateNode, RowAfter, MergedRow
  <2>3. ApplyOp(g, op).edge = g.edge
    BY <2>1 DEF UpdateNode
  <2>. QED
    BY <2>1, <2>2, <2>3
<1>3. CASE op.body.verb = "delete"
  <2>1. /\ ApplyOp(g, op) = DeleteNodes(g, op.body.nodes) /\ op.body.nodes \in SUBSET NodeId
        /\ \A n : ~Updates(op, n) /\ ~Adds(op, n)
        /\ \A n : Deletes(op, n) <=> n \in op.body.nodes
        /\ \A e : ~Links(op, e)
    BY <1>3, BodyByVerb, ApplyByVerb DEF Deletes, Updates, Adds, Links
  <2>2. ASSUME NEW n \in NodeId
        PROVE  ApplyOp(g, op).node[n] = RowAfter(g.node[n], op, n)
    BY <2>1 DEF DeleteNodes, RowAfter
  <2>3. ASSUME NEW e \in EdgeId
        PROVE  ApplyOp(g, op).edge[e] =
                IF \/ Deletes(op, Source[e]) /\ g.node[Source[e]] # Absent
                   \/ Deletes(op, Target[e]) /\ g.node[Target[e]] # Absent
                  THEN Absent ELSE g.edge[e]
    BY <2>1 DEF DeleteNodes
  <2>. QED
    BY <2>1, <2>2, <2>3 DEF Cuts
<1>. QED
  BY <1>1, <1>2, <1>3, BodyByVerb

\* A row is there after an op, a merge or the emission of a wire leaves one.
LEMMA RowPresence ==
  ASSUME NEW op \in Op, NEW n \in NodeId, NEW row \in NodeRow \cup {Absent}
  PROVE  /\ RowAfter(row, op, n) \in NodeRow \cup {Absent}
         /\ RowAfter(row, op, n) # Absent <=> ~Deletes(op, n) /\ (row # Absent \/ Adds(op, n))
         /\ [created |-> op.ts] # Absent
<1>1. Updates(op, n) /\ row # Absent => MergedRow(row, op) \in NodeRow
  BY BodyByVerb DEF Updates, MergedRow, NodeRow
<1>2. Adds(op, n) => StampedNode(op.body.nodes[n], op.ts) \in NodeRow
  BY BodyByVerb DEF Adds, Wired, Wires, StampedNode, NodeRow
<1>3. [created |-> op.ts] \in EdgeRow
  BY BodyByVerb DEF EdgeRow
<1>4. Updates(op, n) => ~Adds(op, n) /\ ~Deletes(op, n)
  BY DEF Updates, Adds, Deletes
<1>. QED
  BY <1>1, <1>2, <1>3, <1>4, AbsentIsNoRow DEF RowAfter

-----------------------------------------------------------------------------
(* A journal replayed over what earlier replays of it left. *)

\* What the first i ops of s leave, from nothing.
Upto(s, i) == FoldLeft(ApplyOp, EmptyGraph, SubSeq(s, 1, i))

\* Every edge has both its ends.
Linked(g) ==
  \A e \in EdgeId : g.edge[e] # Absent =>
    g.node[Source[e]] # Absent /\ g.node[Target[e]] # Absent

\* Journals as the write order makes them: a merge goes to a node that is there,
\* and no op leaves an edge without its ends.
Sound(s) ==
  \A i \in 1 .. Len(s) :
    /\ Linked(Upto(s, i))
    /\ s[i].body.verb = "update" => Upto(s, i - 1).node[s[i].body.node] # Absent

\* Every row that r has, g has too.
Within(r, g) ==
  /\ \A n \in NodeId : r.node[n] # Absent => g.node[n] # Absent
  /\ \A e \in EdgeId : r.edge[e] # Absent => g.edge[e] # Absent

DeletedIn(s, i, j, n) == \E k \in i .. j : Deletes(s[k], n)

CutIn(s, i, j, e) == \E k \in i .. j : Cuts(s[k], e)

\* What replays of s leave behind, wherever they stopped: a row that no op of s
\* drops is one that s made at some time.
Leftover(s, g) ==
  /\ g \in Graph
  /\ Linked(g)
  /\ \A n \in NodeId : \/ DeletedIn(s, 1, Len(s), n)
                       \/ \E i \in 0 .. Len(s) : g.node[n] = Upto(s, i).node[n]
  /\ \A e \in EdgeId : \/ CutIn(s, 1, Len(s), e)
                       \/ \E i \in 0 .. Len(s) : g.edge[e] = Upto(s, i).edge[e]

\* Such a graph once a replay has taken the first j ops over it: nothing they
\* leave is missing, and a row that is not what they leave is one that a later
\* op drops, or that none of them has changed.
Taken(s, j, g) ==
  /\ Leftover(s, g)
  /\ Within(Upto(s, j), g)
  /\ \A n \in NodeId : \/ DeletedIn(s, j + 1, Len(s), n)
                       \/ g.node[n] = Upto(s, j).node[n]
                       \/ \A k \in 1 .. j : ~Deletes(s[k], n) /\ ~Updates(s[k], n)
  /\ \A e \in EdgeId : \/ CutIn(s, j + 1, Len(s), e)
                       \/ g.edge[e] = Upto(s, j).edge[e]
                       \/ \A k \in 1 .. j : ~Cuts(s[k], e)

\* The graphs of the prefixes, one op after another.
LEMMA UptoSteps ==
  ASSUME NEW s \in Seq(Op)
  PROVE  /\ Len(s) \in Nat
         /\ \A i \in 0 .. Len(s) : Upto(s, i) \in Graph
         /\ Upto(s, 0) = EmptyGraph
         /\ \A i \in 1 .. Len(s) : s[i] \in Op /\ Upto(s, i) = ApplyOp(Upto(s, i - 1), s[i])
<1>1. Len(s) \in Nat /\ EmptyGraph \in Graph
  BY EmptyGraphType
<1>2. \A i \in 0 .. Len(s) : SubSeq(s, 1, i) \in Seq(Op)
  OBVIOUS
<1>3. \A i \in 0 .. Len(s) : Upto(s, i) \in Graph
  BY <1>1, <1>2, ReplayLaws DEF Upto
<1>4. Upto(s, 0) = EmptyGraph
  <2>1. SubSeq(s, 1, 0) = <<>> /\ SubSeq(s, 1, 0) \in Seq(Op)
    OBVIOUS
  <2>. QED
    BY <1>1, <2>1, ReplayLaws DEF Upto
<1>5. ASSUME NEW i \in 1 .. Len(s)
      PROVE  s[i] \in Op /\ Upto(s, i) = ApplyOp(Upto(s, i - 1), s[i])
  <2>. DEFINE past == SubSeq(s, 1, i - 1)
              op == s[i]
  <2>1. past \in Seq(Op) /\ op \in Op /\ SubSeq(s, 1, i) = Append(past, op)
    BY <1>1
  <2>. HIDE DEF past, op
  <2>2. FoldLeft(ApplyOp, EmptyGraph, Append(past, op)) = ApplyOp(FoldLeft(ApplyOp, EmptyGraph, past), op)
    BY <1>1, <2>1, ReplayLaws
  <2>. QED
    BY <2>1, <2>2 DEF Upto, past, op
<1>. QED
  BY <1>1, <1>3, <1>4, <1>5

\* A row made stays, but for its merges, as long as no op drops it.
LEMMA RowStays ==
  ASSUME NEW s \in Seq(Op), NEW n \in NodeId, NEW i \in 0 .. Len(s), NEW j \in i .. Len(s),
         Upto(s, i).node[n] # Absent,
         \A k \in (i + 1) .. j : ~Deletes(s[k], n)
  PROVE  /\ Upto(s, j).node[n] # Absent
         /\ Upto(s, j).node[n].hash = Upto(s, i).node[n].hash
         /\ Upto(s, j).node[n].created = Upto(s, i).node[n].created
         /\ (\A k \in (i + 1) .. j : ~Updates(s[k], n)) => Upto(s, j).node[n] = Upto(s, i).node[n]
<1>. DEFINE Stays(k) ==
              /\ Upto(s, k).node[n] # Absent
              /\ Upto(s, k).node[n].hash = Upto(s, i).node[n].hash
              /\ Upto(s, k).node[n].created = Upto(s, i).node[n].created
              /\ (\A m \in (i + 1) .. k : ~Updates(s[m], n)) => Upto(s, k).node[n] = Upto(s, i).node[n]
            P(k) == i <= k /\ k <= j => Stays(k)
<1>1. Len(s) \in Nat
  OBVIOUS
<1>2. Stays(i)
  OBVIOUS
<1>3. ASSUME NEW k \in Nat, i <= k, k + 1 <= j, Stays(k)
      PROVE  Stays(k + 1)
  <2>. DEFINE op == s[k + 1]
              g == Upto(s, k)
              row == g.node[n]
  <2>1. /\ k \in 0 .. Len(s) /\ k + 1 \in 1 .. Len(s) /\ (k + 1) - 1 = k
        /\ k + 1 \in (i + 1) .. j
        /\ \A m \in (i + 1) .. k : m \in (i + 1) .. (k + 1)
        /\ k + 1 \in (i + 1) .. (k + 1)
    BY <1>1, <1>3
  <2>2. /\ op \in Op /\ g \in Graph /\ Upto(s, k + 1) = ApplyOp(g, op)
        /\ ~Deletes(op, n)
    BY <2>1, UptoSteps
  <2>3. Upto(s, k + 1).node[n] = RowAfter(row, op, n)
    <3>. HIDE DEF op, g, row
    <3>1. ApplyOp(g, op).node[n] = RowAfter(g.node[n], op, n)
      BY <2>2, ApplyRows
    <3>. QED
      BY <2>2, <3>1 DEF row
  <2>4. row \in NodeRow \cup {Absent} /\ row # Absent
    BY <1>3, <2>2 DEF Graph
  <2>5. RowAfter(row, op, n) # Absent
    BY <2>2, <2>4, RowPresence
  <2>6. /\ RowAfter(row, op, n).hash = row.hash
        /\ RowAfter(row, op, n).created = row.created
        /\ ~Updates(op, n) => RowAfter(row, op, n) = row
    BY <2>2, <2>4 DEF RowAfter, MergedRow
  <2>. HIDE DEF op, row
  <2>7. (\A m \in (i + 1) .. (k + 1) : ~Updates(s[m], n)) => ~Updates(op, n)
    BY <2>1 DEF op
  <2>. QED
    BY <1>3, <2>1, <2>3, <2>5, <2>6, <2>7 DEF row
<1>4. P(0)
  BY <1>2
<1>5. ASSUME NEW k \in Nat, P(k)
      PROVE  P(k + 1)
  <2>. HIDE DEF Stays
  <2>1. CASE i <= k
    BY <1>3, <1>5, <2>1
  <2>2. CASE ~(i <= k) /\ i <= k + 1
    <3>1. i = k + 1
      BY <2>2
    <3>. QED
      BY <1>2, <3>1
  <2>. QED
    BY <2>1, <2>2
<1>6. P(j)
  <2>. DEFINE S == {k \in Nat : P(k)}
  <2>. HIDE DEF P
  <2>1. 0 \in S /\ \A k \in Nat : k \in S => k + 1 \in S
    BY <1>4, <1>5
  <2>2. j \in Nat
    BY <1>1
  <2>3. j \in S
    <3>. HIDE DEF S
    <3>. QED
      BY <2>1, <2>2, SetInduction
  <2>. QED
    BY <2>3
<1>7. Stays(j)
  <2>1. i <= j /\ j <= j
    BY <1>1
  <2>. HIDE DEF Stays
  <2>. QED
    BY <1>6, <2>1
<1>. QED
  BY <1>7

\* So does an edge as long as no op drops one of its ends.
LEMMA EdgeStays ==
  ASSUME NEW s \in Seq(Op), NEW e \in EdgeId, NEW i \in 0 .. Len(s), NEW j \in i .. Len(s),
         Upto(s, i).edge[e] # Absent,
         \A k \in (i + 1) .. j : ~Cuts(s[k], e)
  PROVE  Upto(s, j).edge[e] = Upto(s, i).edge[e]
<1>. DEFINE P(k) == i <= k /\ k <= j => Upto(s, k).edge[e] = Upto(s, i).edge[e]
<1>1. Len(s) \in Nat
  OBVIOUS
<1>2. P(0)
  OBVIOUS
<1>3. ASSUME NEW k \in Nat, P(k), i <= k + 1, k + 1 <= j
      PROVE  Upto(s, k + 1).edge[e] = Upto(s, i).edge[e]
  <2>1. CASE i = k + 1
    BY <2>1
  <2>2. CASE i <= k
    <3>1. /\ k \in 0 .. Len(s) /\ k + 1 \in 1 .. Len(s) /\ (k + 1) - 1 = k
          /\ k + 1 \in (i + 1) .. j
      BY <1>1, <1>3, <2>2
    <3>. DEFINE op == s[k + 1]
                g == Upto(s, k)
    <3>2. /\ op \in Op /\ g \in Graph /\ Upto(s, k + 1) = ApplyOp(g, op) /\ ~Cuts(op, e)
      BY <3>1, UptoSteps
    <3>3. g.edge[e] = Upto(s, i).edge[e] /\ Upto(s, i).edge[e] # Absent
      BY <1>3, <2>2
    <3>. HIDE DEF P, op, g
    <3>4. Upto(s, k + 1).edge[e] =
            IF Links(op, e) /\ g.edge[e] = Absent THEN [created |-> op.ts] ELSE g.edge[e]
      BY <3>2, ApplyRows
    <3>. QED
      BY <3>3, <3>4
  <2>. QED
    BY <1>3, <2>1, <2>2
<1>4. \A k \in Nat : P(k) => P(k + 1)
  BY <1>3
<1>5. P(j)
  <2>. DEFINE S == {k \in Nat : P(k)}
  <2>. HIDE DEF P
  <2>1. 0 \in S /\ \A k \in Nat : k \in S => k + 1 \in S
    BY <1>2, <1>4
  <2>2. j \in Nat
    BY <1>1
  <2>3. j \in S
    <3>. HIDE DEF S
    <3>. QED
      BY <2>1, <2>2, SetInduction
  <2>. QED
    BY <2>3
<1>. QED
  BY <1>1, <1>5

\* A replay over what earlier ones left begins so.
LEMMA LeftoverTaken ==
  ASSUME NEW s \in Seq(Op), NEW g, Leftover(s, g)
  PROVE  Taken(s, 0, g)
<1>1. /\ \A n \in NodeId : Upto(s, 0).node[n] = Absent
      /\ \A e \in EdgeId : Upto(s, 0).edge[e] = Absent
  BY UptoSteps DEF EmptyGraph
<1>. QED
  BY <1>1 DEF Taken, Within

\* And ends with what the whole of s leaves.
LEMMA TakenEnds ==
  ASSUME NEW s \in Seq(Op), NEW g, Taken(s, Len(s), g)
  PROVE  g = Upto(s, Len(s))
<1>1. Len(s) \in Nat /\ Len(s) \in 0 .. Len(s)
  OBVIOUS
<1>2. g \in Graph /\ Upto(s, Len(s)) \in Graph
  BY <1>1, UptoSteps DEF Taken, Leftover
<1>3. ASSUME NEW n \in NodeId
      PROVE  g.node[n] = Upto(s, Len(s)).node[n]
  <2>1. CASE \A k \in 1 .. Len(s) : ~Deletes(s[k], n) /\ ~Updates(s[k], n)
    <3>1. PICK i \in 0 .. Len(s) : g.node[n] = Upto(s, i).node[n]
      BY <2>1 DEF Taken, Leftover, DeletedIn
    <3>2. \A k \in (i + 1) .. Len(s) : k \in 1 .. Len(s)
      BY <1>1
    <3>3. CASE g.node[n] # Absent
      <4>1. Len(s) \in i .. Len(s)
        BY <1>1
      <4>2. \A k \in (i + 1) .. Len(s) : ~Deletes(s[k], n)
        BY <2>1, <3>2
      <4>3. \A k \in (i + 1) .. Len(s) : ~Updates(s[k], n)
        BY <2>1, <3>2
      <4>. QED
        BY <3>1, <3>3, <4>1, <4>2, <4>3, RowStays
    <3>4. CASE g.node[n] = Absent
      BY <3>4 DEF Taken, Within
    <3>. QED
      BY <3>3, <3>4
  <2>2. ~DeletedIn(s, Len(s) + 1, Len(s), n)
    BY <1>1 DEF DeletedIn
  <2>. QED
    BY <2>1, <2>2 DEF Taken
<1>4. ASSUME NEW e \in EdgeId
      PROVE  g.edge[e] = Upto(s, Len(s)).edge[e]
  <2>1. CASE \A k \in 1 .. Len(s) : ~Cuts(s[k], e)
    <3>1. PICK i \in 0 .. Len(s) : g.edge[e] = Upto(s, i).edge[e]
      BY <2>1 DEF Taken, Leftover, CutIn
    <3>2. \A k \in (i + 1) .. Len(s) : k \in 1 .. Len(s)
      BY <1>1
    <3>3. CASE g.edge[e] # Absent
      <4>1. Len(s) \in i .. Len(s)
        BY <1>1
      <4>2. \A k \in (i + 1) .. Len(s) : ~Cuts(s[k], e)
        BY <2>1, <3>2
      <4>. QED
        BY <3>1, <3>3, <4>1, <4>2, EdgeStays
    <3>4. CASE g.edge[e] = Absent
      BY <3>4 DEF Taken, Within
    <3>. QED
      BY <3>3, <3>4
  <2>2. ~CutIn(s, Len(s) + 1, Len(s), e)
    BY <1>1 DEF CutIn
  <2>. QED
    BY <2>1, <2>2 DEF Taken
<1>. QED
  BY <1>2, <1>3, <1>4, GraphEqual

\* An op keeps a graph linked over one that it leaves linked, and within it.
LEMMA WithinKept ==
  ASSUME NEW r \in Graph, NEW g \in Graph, NEW op \in Op,
         Linked(g), Linked(ApplyOp(r, op)), Within(r, g)
  PROVE  Linked(ApplyOp(g, op)) /\ Within(ApplyOp(r, op), ApplyOp(g, op))
<1>. DEFINE r2 == ApplyOp(r, op)
            g2 == ApplyOp(g, op)
<1>0. \A e \in EdgeId : Source[e] \in NodeId /\ Target[e] \in NodeId
  BY EdgeEndpoints
<1>1. ASSUME NEW x \in Graph, NEW n \in NodeId
      PROVE  ApplyOp(x, op).node[n] # Absent <=>
               ~Deletes(op, n) /\ (x.node[n] # Absent \/ Adds(op, n))
  <2>1. x.node[n] \in NodeRow \cup {Absent}
    BY DEF Graph
  <2>2. ApplyOp(x, op).node[n] = RowAfter(x.node[n], op, n)
    BY ApplyRows
  <2>. QED
    BY <2>1, <2>2, RowPresence
<1>2. \A n \in NodeId : r2.node[n] # Absent => g2.node[n] # Absent
  BY <1>1 DEF Within
<1>3. [created |-> op.ts] # Absent
  BY BodyByVerb, AbsentIsNoRow DEF EdgeRow
<1>4. ASSUME NEW e \in EdgeId, Cuts(op, e)
      PROVE  r2.edge[e] = Absent /\ g2.edge[e] = Absent
  <2>1. \/ Deletes(op, Source[e]) /\ r2.node[Source[e]] = Absent
        \/ Deletes(op, Target[e]) /\ r2.node[Target[e]] = Absent
    BY <1>0, <1>1, <1>4 DEF Cuts
  <2>2. r2.edge[e] = Absent
    BY <2>1 DEF Linked
  <2>3. g2.edge[e] =
          IF \/ Deletes(op, Source[e]) /\ g.node[Source[e]] # Absent
             \/ Deletes(op, Target[e]) /\ g.node[Target[e]] # Absent
            THEN Absent ELSE g.edge[e]
    BY <1>4, ApplyRows
  <2>4. g.edge[e] # Absent => g.node[Source[e]] # Absent /\ g.node[Target[e]] # Absent
    BY DEF Linked
  <2>. HIDE DEF g2, r2
  <2>. QED
    BY <1>4, <2>2, <2>3, <2>4 DEF Cuts
<1>5. ASSUME NEW e \in EdgeId, ~Cuts(op, e), NEW x \in Graph
      PROVE  ApplyOp(x, op).edge[e] # Absent <=> x.edge[e] # Absent \/ Links(op, e)
  <2>1. ApplyOp(x, op).edge[e] =
          IF Links(op, e) /\ x.edge[e] = Absent THEN [created |-> op.ts] ELSE x.edge[e]
    BY <1>5, ApplyRows
  <2>. QED
    BY <1>3, <2>1
<1>6. \A e \in EdgeId : r2.edge[e] # Absent => g2.edge[e] # Absent
  BY <1>4, <1>5 DEF Within
<1>7. ASSUME NEW e \in EdgeId, g2.edge[e] # Absent, NEW n \in {Source[e], Target[e]}
      PROVE  g2.node[n] # Absent
  <2>1. ~Cuts(op, e) /\ n \in NodeId /\ ~Deletes(op, n)
    BY <1>0, <1>4, <1>7 DEF Cuts
  <2>2. CASE g.edge[e] # Absent
    <3>1. g.node[n] # Absent
      BY <2>2 DEF Linked
    <3>. QED
      BY <1>1, <2>1, <3>1
  <2>3. CASE g.edge[e] = Absent
    <3>1. r2.edge[e] # Absent
      BY <1>5, <1>7, <2>1, <2>3
    <3>2. r2.node[n] # Absent
      BY <3>1 DEF Linked
    <3>. QED
      BY <1>2, <2>1, <3>2
  <2>. QED
    BY <2>2, <2>3
<1>8. Linked(g2)
  BY <1>7 DEF Linked
<1>. QED
  BY <1>2, <1>6, <1>8 DEF Within

\* One op more, over what a replay has come to.
LEMMA TakenStep ==
  ASSUME NEW s \in Seq(Op), Sound(s), NEW j \in 0 .. Len(s), j < Len(s), NEW g, Taken(s, j, g)
  PROVE  Taken(s, j + 1, ApplyOp(g, s[j + 1]))
<1>. DEFINE op == s[j + 1]
            r == Upto(s, j)
            r2 == Upto(s, j + 1)
            g2 == ApplyOp(g, op)
<1>1. /\ Len(s) \in Nat /\ j + 1 \in 1 .. Len(s) /\ (j + 1) - 1 = j /\ j + 1 \in 0 .. Len(s)
      /\ \A k \in (j + 1) .. Len(s) : k = j + 1 \/ k \in (j + 2) .. Len(s)
      /\ \A k \in 1 .. (j + 1) : k = j + 1 \/ k \in 1 .. j
      /\ \A k \in 1 .. Len(s) : k \in 1 .. j \/ k \in (j + 1) .. Len(s)
      /\ (j + 1) + 1 = j + 2
  OBVIOUS
<1>2. op \in Op /\ r \in Graph /\ r2 \in Graph /\ r2 = ApplyOp(r, op)
  BY <1>1, UptoSteps
<1>3. g \in Graph /\ g2 \in Graph
  BY <1>2, ApplyOpType DEF Taken, Leftover
<1>4. Linked(g2) /\ Within(r2, g2)
  <2>1. Linked(r2) /\ Linked(g) /\ Within(r, g)
    BY <1>1 DEF Sound, Taken, Leftover
  <2>. HIDE DEF op, r, r2, g2
  <2>. QED
    BY <1>2, <1>3, <2>1, WithinKept DEF g2
<1>5. ASSUME NEW n \in NodeId
      PROVE  /\ g2.node[n] = RowAfter(g.node[n], op, n)
             /\ r2.node[n] = RowAfter(r.node[n], op, n)
             /\ g.node[n] \in NodeRow \cup {Absent} /\ r.node[n] \in NodeRow \cup {Absent}
             /\ r.node[n] # Absent => g.node[n] # Absent
  <2>1. r.node[n] # Absent => g.node[n] # Absent
    BY DEF Taken, Within
  <2>2. g.node[n] \in NodeRow \cup {Absent} /\ r.node[n] \in NodeRow \cup {Absent}
    BY <1>2, <1>3 DEF Graph
  <2>. HIDE DEF op, r, r2
  <2>3. r2.node[n] = RowAfter(r.node[n], op, n)
    <3>1. ApplyOp(r, op).node[n] = RowAfter(r.node[n], op, n)
      BY <1>2, ApplyRows
    <3>. QED
      BY <1>2, <3>1
  <2>4. g2.node[n] = RowAfter(g.node[n], op, n)
    BY <1>2, <1>3, ApplyRows
  <2>. QED
    BY <2>1, <2>2, <2>3, <2>4
<1>6. ASSUME NEW e \in EdgeId, ~Cuts(op, e)
      PROVE  /\ g2.edge[e] = IF Links(op, e) /\ g.edge[e] = Absent THEN [created |-> op.ts] ELSE g.edge[e]
             /\ r2.edge[e] = IF Links(op, e) /\ r.edge[e] = Absent THEN [created |-> op.ts] ELSE r.edge[e]
             /\ r.edge[e] # Absent => g.edge[e] # Absent
  <2>1. r.edge[e] # Absent => g.edge[e] # Absent
    BY DEF Taken, Within
  <2>. HIDE DEF op, r, r2
  <2>2. r2.edge[e] = IF Links(op, e) /\ r.edge[e] = Absent THEN [created |-> op.ts] ELSE r.edge[e]
    <3>1. ApplyOp(r, op).edge[e] = IF Links(op, e) /\ r.edge[e] = Absent THEN [created |-> op.ts] ELSE r.edge[e]
      BY <1>2, <1>6, ApplyRows
    <3>. QED
      BY <1>2, <3>1
  <2>3. g2.edge[e] = IF Links(op, e) /\ g.edge[e] = Absent THEN [created |-> op.ts] ELSE g.edge[e]
    BY <1>2, <1>3, <1>6, ApplyRows
  <2>. QED
    BY <2>1, <2>2, <2>3
<1>7. ASSUME NEW n \in NodeId, ~DeletedIn(s, 1, Len(s), n)
      PROVE  /\ Updates(op, n) => g2.node[n] = r2.node[n]
             /\ g2.node[n] = r2.node[n] \/ g2.node[n] = g.node[n]
  <2>1. \A k \in 1 .. Len(s) : ~Deletes(s[k], n)
    BY <1>7 DEF DeletedIn
  <2>2. ~Deletes(op, n)
    BY <1>1, <2>1
  <2>3. CASE Updates(op, n)
    <3>1. r.node[n] # Absent /\ g.node[n] # Absent
      <4>1. Upto(s, (j + 1) - 1).node[s[j + 1].body.node] # Absent
        BY <1>1, <2>3 DEF Sound, Updates
      <4>2. r.node[n] # Absent
        BY <1>1, <2>3, <4>1 DEF Updates
      <4>. HIDE DEF r
      <4>. QED
        BY <1>5, <4>2
    <3>2. PICK i \in 0 .. Len(s) : g.node[n] = Upto(s, i).node[n]
      BY <1>7 DEF Taken, Leftover
    <3>3. g.node[n].hash = r.node[n].hash /\ g.node[n].created = r.node[n].created
      <4>1. CASE i <= j
        <5>1. j \in i .. Len(s) /\ \A k \in (i + 1) .. j : ~Deletes(s[k], n)
          BY <1>1, <2>1, <4>1
        <5>2. Upto(s, i).node[n] # Absent
          BY <3>1, <3>2
        <5>. QED
          BY <3>2, <5>1, <5>2, RowStays
      <4>2. CASE j <= i
        <5>1. i \in j .. Len(s) /\ \A k \in (j + 1) .. i : ~Deletes(s[k], n)
          BY <1>1, <2>1, <4>2
        <5>2. Upto(s, j).node[n] # Absent
          BY <3>1
        <5>3. /\ Upto(s, i).node[n].hash = Upto(s, j).node[n].hash
              /\ Upto(s, i).node[n].created = Upto(s, j).node[n].created
          BY <5>1, <5>2, RowStays
        <5>. QED
          BY <3>2, <5>3
      <4>. QED
        BY <4>1, <4>2
    <3>. HIDE DEF op, r, r2, g2
    <3>. QED
      BY <1>5, <2>2, <2>3, <3>1, <3>3 DEF RowAfter, MergedRow
  <2>4. CASE ~Updates(op, n)
    <3>. HIDE DEF op, r, r2, g2
    <3>. QED
      BY <1>5, <2>2, <2>4 DEF RowAfter
  <2>. QED
    BY <2>3, <2>4
<1>8. Leftover(s, g2)
  <2>1. ASSUME NEW n \in NodeId, ~DeletedIn(s, 1, Len(s), n)
        PROVE  \E i \in 0 .. Len(s) : g2.node[n] = Upto(s, i).node[n]
    <3>1. CASE g2.node[n] = r2.node[n]
      BY <1>1, <3>1
    <3>2. CASE g2.node[n] = g.node[n]
      BY <2>1, <3>2 DEF Taken, Leftover
    <3>. QED
      BY <1>7, <2>1, <3>1, <3>2
  <2>2. ASSUME NEW e \in EdgeId, ~CutIn(s, 1, Len(s), e)
        PROVE  \E i \in 0 .. Len(s) : g2.edge[e] = Upto(s, i).edge[e]
    <3>1. ~Cuts(op, e)
      BY <1>1, <2>2 DEF CutIn
    <3>2. g2.edge[e] = r2.edge[e] \/ g2.edge[e] = g.edge[e]
      <4>. HIDE DEF op, r, r2, g2
      <4>. QED
        BY <1>6, <3>1
    <3>3. CASE g2.edge[e] = r2.edge[e]
      BY <1>1, <3>3
    <3>4. CASE g2.edge[e] = g.edge[e]
      BY <2>2, <3>4 DEF Taken, Leftover
    <3>. QED
      BY <3>2, <3>3, <3>4
  <2>. HIDE DEF g2
  <2>. QED
    BY <1>3, <1>4, <2>1, <2>2 DEF Leftover
<1>9. ASSUME NEW n \in NodeId
      PROVE  \/ DeletedIn(s, j + 2, Len(s), n)
             \/ g2.node[n] = r2.node[n]
             \/ \A k \in 1 .. (j + 1) : ~Deletes(s[k], n) /\ ~Updates(s[k], n)
  <2>. SUFFICES ASSUME ~DeletedIn(s, j + 2, Len(s), n)
                PROVE  \/ g2.node[n] = r2.node[n]
                       \/ \A k \in 1 .. (j + 1) : ~Deletes(s[k], n) /\ ~Updates(s[k], n)
    OBVIOUS
  <2>1. CASE Deletes(op, n)
    <3>. HIDE DEF op, r, r2, g2
    <3>. QED
      BY <1>5, <2>1 DEF RowAfter
  <2>2. CASE ~Deletes(op, n)
    <3>1. ~DeletedIn(s, j + 1, Len(s), n)
      BY <1>1, <2>2 DEF DeletedIn
    <3>2. CASE g.node[n] = r.node[n]
      <4>. HIDE DEF op, r, r2, g2
      <4>. QED
        BY <1>5, <3>2
    <3>3. CASE \A k \in 1 .. j : ~Deletes(s[k], n) /\ ~Updates(s[k], n)
      <4>1. ~DeletedIn(s, 1, Len(s), n)
        BY <1>1, <3>1, <3>3 DEF DeletedIn
      <4>2. CASE Updates(op, n)
        BY <1>7, <4>1, <4>2
      <4>3. CASE ~Updates(op, n)
        BY <1>1, <2>2, <3>3, <4>3
      <4>. QED
        BY <4>2, <4>3
    <3>. QED
      BY <3>1, <3>2, <3>3 DEF Taken
  <2>. QED
    BY <2>1, <2>2
<1>10. ASSUME NEW e \in EdgeId
       PROVE  \/ CutIn(s, j + 2, Len(s), e)
              \/ g2.edge[e] = r2.edge[e]
              \/ \A k \in 1 .. (j + 1) : ~Cuts(s[k], e)
  <2>. SUFFICES ASSUME ~CutIn(s, j + 2, Len(s), e)
                PROVE  g2.edge[e] = r2.edge[e] \/ \A k \in 1 .. (j + 1) : ~Cuts(s[k], e)
    OBVIOUS
  <2>1. CASE Cuts(op, e)
    <3>1. g2.edge[e] = Absent
      <4>1. Deletes(op, Source[e]) \/ Deletes(op, Target[e])
        BY <2>1 DEF Cuts
      <4>2. Source[e] \in NodeId /\ Target[e] \in NodeId
        BY EdgeEndpoints
      <4>. HIDE DEF op, r, r2, g2
      <4>3. g2.node[Source[e]] = Absent \/ g2.node[Target[e]] = Absent
        BY <1>5, <4>1, <4>2 DEF RowAfter
      <4>. QED
        BY <1>4, <4>3 DEF Linked
    <3>. HIDE DEF op, r, r2, g2
    <3>2. r2.edge[e] = Absent
      BY <1>4, <3>1 DEF Within
    <3>. QED
      BY <3>1, <3>2
  <2>2. CASE ~Cuts(op, e)
    <3>1. ~CutIn(s, j + 1, Len(s), e)
      BY <1>1, <2>2 DEF CutIn
    <3>2. CASE g.edge[e] = r.edge[e]
      <4>. HIDE DEF op, r, r2, g2
      <4>. QED
        BY <1>6, <2>2, <3>2
    <3>3. CASE \A k \in 1 .. j : ~Cuts(s[k], e)
      BY <1>1, <2>2, <3>3
    <3>. QED
      BY <3>1, <3>2, <3>3 DEF Taken
  <2>. QED
    BY <2>1, <2>2
<1>. HIDE DEF g2
<1>. QED
  BY <1>1, <1>4, <1>8, <1>9, <1>10 DEF Taken, g2

\* A run of the ops, one after another.
LEMMA RunOfOps ==
  ASSUME NEW s \in Seq(Op), NEW j \in 0 .. Len(s), NEW g \in Graph
  PROVE  /\ \A k \in j .. Len(s) : SubSeq(s, j + 1, k) \in Seq(Op) /\ Len(SubSeq(s, j + 1, k)) = k - j
         /\ FoldLeft(ApplyOp, g, SubSeq(s, j + 1, j)) = g
         /\ \A k \in (j + 1) .. Len(s) :
              FoldLeft(ApplyOp, g, SubSeq(s, j + 1, k)) =
                ApplyOp(FoldLeft(ApplyOp, g, SubSeq(s, j + 1, k - 1)), s[k])
<1>1. Len(s) \in Nat
  OBVIOUS
<1>2. ASSUME NEW k \in j .. Len(s)
      PROVE  SubSeq(s, j + 1, k) \in Seq(Op) /\ Len(SubSeq(s, j + 1, k)) = k - j
  BY <1>1
<1>3. FoldLeft(ApplyOp, g, SubSeq(s, j + 1, j)) = g
  <2>. DEFINE none == SubSeq(s, j + 1, j)
  <2>1. none \in Seq(Op) /\ none = <<>>
    BY <1>1
  <2>. HIDE DEF none
  <2>2. FoldLeft(ApplyOp, g, none) = g
    BY <2>1, ReplayLaws
  <2>. QED
    BY <2>2 DEF none
<1>4. ASSUME NEW k \in (j + 1) .. Len(s)
      PROVE  FoldLeft(ApplyOp, g, SubSeq(s, j + 1, k)) =
               ApplyOp(FoldLeft(ApplyOp, g, SubSeq(s, j + 1, k - 1)), s[k])
  <2>. DEFINE past == SubSeq(s, j + 1, k - 1)
              all == SubSeq(s, j + 1, k)
              op == s[k]
  <2>1. past \in Seq(Op) /\ op \in Op
    BY <1>1
  <2>2. /\ all \in Seq(Op) /\ Len(all) = Len(past) + 1 /\ Len(past) = (k - 1) - j
        /\ all[Len(all)] = op
        /\ \A i \in 1 .. Len(past) : all[i] = past[i]
    BY <1>1
  <2>. HIDE DEF past, all, op
  <2>3. all = Append(past, op)
    BY <2>1, <2>2
  <2>4. FoldLeft(ApplyOp, g, Append(past, op)) = ApplyOp(FoldLeft(ApplyOp, g, past), op)
    BY <2>1, ReplayLaws
  <2>. QED
    BY <2>3, <2>4 DEF past, all, op
<1>. QED
  BY <1>2, <1>3, <1>4

\* Several ops more, over what a replay has come to.
LEMMA TakenBatch ==
  ASSUME NEW s \in Seq(Op), Sound(s), NEW j \in 0 .. Len(s), NEW k \in j .. Len(s),
         NEW g, Taken(s, j, g)
  PROVE  Taken(s, k, FoldLeft(ApplyOp, g, SubSeq(s, j + 1, k)))
<1>. DEFINE after(m) == FoldLeft(ApplyOp, g, SubSeq(s, j + 1, m))
            P(m) == j <= m /\ m <= k => Taken(s, m, after(m))
<1>1. Len(s) \in Nat /\ j \in Nat /\ k \in Nat /\ j <= k /\ k <= Len(s) /\ g \in Graph
  BY DEF Taken, Leftover
<1>2. after(j) = g
  BY <1>1, RunOfOps
<1>3. ASSUME NEW m \in Nat, P(m)
      PROVE  P(m + 1)
  <2>. SUFFICES ASSUME j <= m + 1, m + 1 <= k
                PROVE  Taken(s, m + 1, after(m + 1))
    OBVIOUS
  <2>1. CASE m + 1 = j
    BY <1>2, <2>1
  <2>2. CASE m + 1 # j
    <3>1. m \in 0 .. Len(s) /\ m < Len(s) /\ m + 1 \in (j + 1) .. Len(s) /\ (m + 1) - 1 = m
          /\ j <= m /\ m <= k
      BY <1>1, <2>2
    <3>2. after(m + 1) = ApplyOp(after(m), s[m + 1])
      <4>1. after(m + 1) = ApplyOp(after((m + 1) - 1), s[m + 1])
        BY <1>1, <3>1, RunOfOps
      <4>. HIDE DEF after
      <4>. QED
        BY <3>1, <4>1
    <3>3. Taken(s, m, after(m))
      BY <1>3, <3>1
    <3>. HIDE DEF after
    <3>. QED
      BY <3>1, <3>2, <3>3, TakenStep
  <2>. QED
    BY <2>1, <2>2
<1>4. P(0)
  <2>1. j <= 0 => j = 0
    BY <1>1
  <2>. QED
    BY <1>2, <2>1
<1>5. P(k)
  <2>. DEFINE S == {m \in Nat : P(m)}
  <2>. HIDE DEF P
  <2>1. 0 \in S /\ \A m \in Nat : m \in S => m + 1 \in S
    BY <1>3, <1>4
  <2>2. k \in S
    <3>. HIDE DEF S
    <3>. QED
      BY <1>1, <2>1, SetInduction
  <2>. QED
    BY <2>2
<1>6. Taken(s, k, after(k))
  <2>. HIDE DEF after
  <2>. QED
    BY <1>1, <1>5
<1>. QED
  BY <1>6

\* What holds of the ops of a journal holds of them as it grows.
LEMMA LongerJournal ==
  ASSUME NEW s \in Seq(Op), NEW t \in Seq(Op), Len(s) <= Len(t),
         \A i \in 1 .. Len(s) : t[i] = s[i]
  PROVE  /\ \A i \in 0 .. Len(s) : Upto(t, i) = Upto(s, i)
         /\ Sound(t) => Sound(s)
         /\ \A g : Leftover(s, g) => Leftover(t, g)
<1>1. Len(s) \in Nat /\ Len(t) \in Nat
  OBVIOUS
<1>2. ASSUME NEW i \in 0 .. Len(s)
      PROVE  Upto(t, i) = Upto(s, i)
  <2>1. SubSeq(t, 1, i) = SubSeq(s, 1, i)
    BY <1>1
  <2>. QED
    BY <2>1 DEF Upto
<1>3. ASSUME Sound(t)
      PROVE  Sound(s)
  <2>. SUFFICES ASSUME NEW i \in 1 .. Len(s)
                PROVE  /\ Linked(Upto(s, i))
                       /\ s[i].body.verb = "update" => Upto(s, i - 1).node[s[i].body.node] # Absent
    BY DEF Sound
  <2>1. i \in 1 .. Len(t) /\ i \in 0 .. Len(s) /\ i - 1 \in 0 .. Len(s) /\ t[i] = s[i]
    BY <1>1
  <2>2. Upto(t, i) = Upto(s, i) /\ Upto(t, i - 1) = Upto(s, i - 1)
    BY <1>2, <2>1
  <2>3. /\ Linked(Upto(t, i))
        /\ t[i].body.verb = "update" => Upto(t, i - 1).node[t[i].body.node] # Absent
    BY <1>3, <2>1 DEF Sound
  <2>. QED
    BY <2>1, <2>2, <2>3
<1>4. ASSUME NEW g, Leftover(s, g)
      PROVE  Leftover(t, g)
  <2>1. /\ \A i \in 0 .. Len(s) : i \in 0 .. Len(t)
        /\ \A i \in 1 .. Len(s) : i \in 1 .. Len(t) /\ t[i] = s[i]
    BY <1>1
  <2>2. ASSUME NEW n \in NodeId
        PROVE  DeletedIn(t, 1, Len(t), n) \/ \E i \in 0 .. Len(t) : g.node[n] = Upto(t, i).node[n]
    <3>1. CASE DeletedIn(s, 1, Len(s), n)
      BY <2>1, <3>1 DEF DeletedIn
    <3>2. CASE \E i \in 0 .. Len(s) : g.node[n] = Upto(s, i).node[n]
      BY <1>2, <2>1, <3>2
    <3>. QED
      BY <1>4, <3>1, <3>2 DEF Leftover
  <2>3. ASSUME NEW e \in EdgeId
        PROVE  CutIn(t, 1, Len(t), e) \/ \E i \in 0 .. Len(t) : g.edge[e] = Upto(t, i).edge[e]
    <3>1. CASE CutIn(s, 1, Len(s), e)
      BY <2>1, <3>1 DEF CutIn
    <3>2. CASE \E i \in 0 .. Len(s) : g.edge[e] = Upto(s, i).edge[e]
      BY <1>2, <2>1, <3>2
    <3>. QED
      BY <1>4, <3>1, <3>2 DEF Leftover
  <2>. QED
    BY <1>4, <2>2, <2>3 DEF Leftover
<1>. QED
  BY <1>2, <1>3, <1>4

\* An empty db is what a replay that took nothing left.
LEMMA EmptyLeftover == ASSUME NEW s \in Seq(Op) PROVE Leftover(s, EmptyGraph)
<1>1. 0 \in 0 .. Len(s) /\ Upto(s, 0) = EmptyGraph
  BY UptoSteps
<1>2. Linked(EmptyGraph)
  BY DEF Linked, EmptyGraph
<1>. QED
  BY <1>1, <1>2, EmptyGraphType DEF Leftover

\* A planned op leaves every edge its ends, when its emission wires both.
LEMMA PlannedLinked ==
  ASSUME NEW g \in Graph, Linked(g), NEW b \in Body, NEW op \in Op, op.body = Planned(g, b),
         b.verb = "extend" => \A e \in b.edges : {Source[e], Target[e]} \subseteq Wired(b)
  PROVE  Linked(ApplyOp(g, op))
<1>. DEFINE g2 == ApplyOp(g, op)
<1>0. \A e \in EdgeId : Source[e] \in NodeId /\ Target[e] \in NodeId
  BY EdgeEndpoints
<1>1. ASSUME NEW n \in NodeId
      PROVE  g2.node[n] # Absent <=> ~Deletes(op, n) /\ (g.node[n] # Absent \/ Adds(op, n))
  <2>1. g.node[n] \in NodeRow \cup {Absent}
    BY DEF Graph
  <2>2. g2.node[n] = RowAfter(g.node[n], op, n)
    BY ApplyRows
  <2>. QED
    BY <2>1, <2>2, RowPresence
<1>2. ASSUME NEW e \in EdgeId, g2.edge[e] # Absent, NEW n \in {Source[e], Target[e]}
      PROVE  g2.node[n] # Absent
  <2>1. g.edge[e] # Absent => g.node[Source[e]] # Absent /\ g.node[Target[e]] # Absent
    BY DEF Linked
  <2>2. CASE Cuts(op, e)
    <3>1. g2.edge[e] =
            IF \/ Deletes(op, Source[e]) /\ g.node[Source[e]] # Absent
               \/ Deletes(op, Target[e]) /\ g.node[Target[e]] # Absent
              THEN Absent ELSE g.edge[e]
      BY <2>2, ApplyRows
    <3>. HIDE DEF g2
    <3>. QED
      BY <1>2, <2>1, <2>2, <3>1 DEF Cuts
  <2>3. CASE ~Cuts(op, e)
    <3>1. g2.edge[e] = IF Links(op, e) /\ g.edge[e] = Absent THEN [created |-> op.ts] ELSE g.edge[e]
      BY <2>3, ApplyRows
    <3>2. ~Deletes(op, n) /\ n \in NodeId
      BY <1>0, <2>3 DEF Cuts
    <3>3. CASE g.edge[e] # Absent
      BY <1>1, <2>1, <3>2, <3>3
    <3>4. CASE Links(op, e)
      <4>1. b.verb = "extend" /\ op.body = Delta(g, b) /\ e \in b.edges
        BY <3>4 DEF Links, Planned, Delta, AbsentEdges
      <4>2. n \in Wired(b)
        BY <4>1
      <4>3. b \in Wires
        BY <4>1 DEF Body, Wires, Merge, Drop
      <4>4. g.node[n] = Absent => n \in Wired(op.body)
        BY <4>1, <4>2, <4>3 DEF Wired, Delta, AbsentNodes
      <4>5. op.body.verb = "extend"
        BY <3>4 DEF Links
      <4>. QED
        BY <1>1, <3>2, <4>4, <4>5 DEF Adds
    <3>. QED
      BY <1>2, <3>1, <3>3, <3>4
  <2>. QED
    BY <2>2, <2>3
<1>3. Linked(g2)
  BY <1>2 DEF Linked
<1>. QED
  BY <1>3

\* A journal stays sound when such an op lands.
LEMMA SoundAppended ==
  ASSUME NEW s \in Seq(Op), Sound(s), NEW op \in Op,
         Linked(ApplyOp(Upto(s, Len(s)), op)),
         op.body.verb = "update" => Upto(s, Len(s)).node[op.body.node] # Absent
  PROVE  Sound(Append(s, op)) /\ Upto(Append(s, op), Len(s) + 1) = ApplyOp(Upto(s, Len(s)), op)
<1>. DEFINE t == Append(s, op)
<1>1. /\ Len(s) \in Nat /\ t \in Seq(Op) /\ Len(t) = Len(s) + 1 /\ Len(s) <= Len(t)
      /\ t[Len(s) + 1] = op /\ \A i \in 1 .. Len(s) : t[i] = s[i]
  OBVIOUS
<1>. HIDE DEF t
<1>2. \A i \in 0 .. Len(s) : Upto(t, i) = Upto(s, i)
  BY <1>1, LongerJournal
<1>3. Upto(t, Len(s) + 1) = ApplyOp(Upto(s, Len(s)), op)
  <2>1. Len(s) + 1 \in 1 .. Len(t) /\ (Len(s) + 1) - 1 = Len(s) /\ Len(s) \in 0 .. Len(s)
    BY <1>1
  <2>2. Upto(t, Len(s) + 1) = ApplyOp(Upto(t, (Len(s) + 1) - 1), t[Len(s) + 1])
    BY <1>1, <2>1, UptoSteps
  <2>. QED
    BY <1>1, <1>2, <2>1, <2>2
<1>4. ASSUME NEW i \in 1 .. Len(t)
      PROVE  /\ Linked(Upto(t, i))
             /\ t[i].body.verb = "update" => Upto(t, i - 1).node[t[i].body.node] # Absent
  <2>1. CASE i = Len(s) + 1
    <3>1. i - 1 = Len(s) /\ Len(s) \in 0 .. Len(s)
      BY <1>1, <2>1
    <3>. QED
      BY <1>1, <1>2, <1>3, <2>1, <3>1
  <2>2. CASE i # Len(s) + 1
    <3>1. i \in 1 .. Len(s) /\ i \in 0 .. Len(s) /\ i - 1 \in 0 .. Len(s)
      BY <1>1, <2>2
    <3>. QED
      BY <1>1, <1>2, <3>1 DEF Sound
  <2>. QED
    BY <2>1, <2>2
<1>5. Sound(t)
  BY <1>4 DEF Sound
<1>. QED
  BY <1>3, <1>5 DEF t

\* A db that stands after k ops of s: it holds what they leave, or that and the
\* nodes of the op that comes next.
Stands(s, k, g) ==
  \/ g = Upto(s, k)
  \/ /\ k < Len(s)
     /\ s[k + 1].body.verb = "extend"
     /\ g = ExtendNodes(Upto(s, k), s[k + 1].body, s[k + 1].ts)

\* The next op brings it to where that op does, by what it still has to add.
LEMMA StandsStep ==
  ASSUME NEW s \in Seq(Op), NEW k \in 0 .. Len(s), NEW g, Stands(s, k, g)
  PROVE  /\ g \in Graph
         /\ k < Len(s) => ApplyOp(g, s[k + 1]) = Upto(s, k + 1)
<1>1. Len(s) \in Nat /\ Upto(s, k) \in Graph
  BY UptoSteps
<1>2. ASSUME k < Len(s)
      PROVE  g \in Graph /\ ApplyOp(g, s[k + 1]) = Upto(s, k + 1)
  <2>. DEFINE op == s[k + 1]
              r == Upto(s, k)
  <2>1. k + 1 \in 1 .. Len(s) /\ (k + 1) - 1 = k
    BY <1>1, <1>2
  <2>2. op \in Op /\ r \in Graph /\ Upto(s, k + 1) = ApplyOp(r, op)
    BY <2>1, UptoSteps
  <2>3. g = r \/ (op.body.verb = "extend" /\ g = ExtendNodes(r, op.body, op.ts))
    BY DEF Stands
  <2>. HIDE DEF op, r
  <2>4. g \in Graph /\ ApplyOp(g, op) = Upto(s, k + 1)
    <3>1. CASE g = r
      BY <2>2, <3>1
    <3>2. CASE op.body.verb = "extend" /\ g = ExtendNodes(r, op.body, op.ts)
      <4>1. op.body \in Wires /\ op.ts \in Time
        BY <2>2, <3>2, BodyByVerb
      <4>2. g \in Graph /\ AddEdges(ExtendNodes(g, op.body, op.ts), AbsentEdges(g, op.body), op.ts)
                             = Extend(r, op.body, op.ts)
        BY <2>2, <3>2, <4>1, ExtendResumes
      <4>3. ApplyOp(g, op) = Extend(g, op.body, op.ts) /\ ApplyOp(r, op) = Extend(r, op.body, op.ts)
        BY <3>2, ApplyByVerb
      <4>. QED
        BY <2>2, <4>2, <4>3 DEF Extend
    <3>. QED
      BY <2>3, <3>1, <3>2
  <2>. QED
    BY <2>4 DEF op
<1>3. CASE ~(k < Len(s))
  BY <1>1, <1>3 DEF Stands
<1>. QED
  BY <1>2, <1>3

\* Catching up takes it to what the whole journal leaves.
LEMMA StandsHeals ==
  ASSUME NEW s \in Seq(Op), NEW k \in 0 .. Len(s), NEW g, Stands(s, k, g)
  PROVE  FoldLeft(ApplyOp, g, SubSeq(s, k + 1, Len(s))) = FoldLeft(ApplyOp, EmptyGraph, s)
<1>0. Len(s) \in Nat
  OBVIOUS
<1>1. Len(s) \in Nat /\ g \in Graph /\ SubSeq(s, 1, Len(s)) = s
  BY StandsStep
<1>2. CASE k = Len(s)
  <2>1. SubSeq(s, k + 1, Len(s)) = <<>> /\ <<>> \in Seq(Op)
    BY <1>1, <1>2
  <2>2. FoldLeft(ApplyOp, g, <<>>) = g
    BY <1>1, <2>1, ReplayLaws
  <2>3. g = Upto(s, k)
    BY <1>1, <1>2 DEF Stands
  <2>. QED
    BY <1>1, <1>2, <2>1, <2>2, <2>3 DEF Upto
<1>3. CASE k # Len(s)
  <2>. DEFINE op == s[k + 1]
              one == SubSeq(s, k + 1, k + 1)
              rest == SubSeq(s, k + 2, Len(s))
              past == SubSeq(s, 1, k + 1)
  <2>1. /\ k < Len(s) /\ k + 1 \in 0 .. Len(s) /\ k + 1 \in 1 .. Len(s) + 1
        /\ k + 1 \in (k + 1) - 1 .. Len(s) /\ k + 1 \in 1 - 1 .. Len(s) /\ 1 \in 1 .. Len(s) + 1
        /\ Len(s) \in k + 1 .. Len(s) /\ (k + 1) + 1 = k + 2
    BY <1>0, <1>3
  <2>2. op \in Op /\ one \in Seq(Op) /\ rest \in Seq(Op) /\ past \in Seq(Op)
    BY <1>1, <2>1
  <2>3. one \o rest = SubSeq(s, k + 1, Len(s)) /\ past \o rest = s
    BY <1>1, <2>1, ConcatAdjacentSubSeq
  <2>4. one = Append(<<>>, op)
    <3>1. Len(one) = 1 /\ one[1] = op
      BY <1>0, <2>1
    <3>. HIDE DEF one, op
    <3>. QED
      BY <2>2, <3>1
  <2>5. ApplyOp(g, op) = Upto(s, k + 1)
    BY <2>1, StandsStep
  <2>6. Upto(s, k + 1) = FoldLeft(ApplyOp, EmptyGraph, past)
    BY DEF Upto
  <2>. HIDE DEF op, one, rest, past
  <2>7. FoldLeft(ApplyOp, g, one) = ApplyOp(g, op)
    <3>. DEFINE none == <<>>
    <3>0. none = <<>>
      OBVIOUS
    <3>1. none \in Seq(Op)
      OBVIOUS
    <3>2. one = Append(none, op)
      BY <2>4
    <3>. HIDE DEF none
    <3>3. FoldLeft(ApplyOp, g, none) = g
      BY <1>1, <3>0, <3>1, ReplayLaws
    <3>4. FoldLeft(ApplyOp, g, Append(none, op)) = ApplyOp(FoldLeft(ApplyOp, g, none), op)
      <4>1. op \in Op /\ g \in Graph
        BY <1>1, <2>2
      <4>. QED
        BY <3>1, <4>1, ReplayLaws
    <3>. QED
      BY <3>2, <3>3, <3>4
  <2>8. FoldLeft(ApplyOp, g, one \o rest) = FoldLeft(ApplyOp, FoldLeft(ApplyOp, g, one), rest)
    <3>1. g \in Graph /\ one \in Seq(Op) /\ rest \in Seq(Op)
      BY <1>1, <2>2
    <3>. QED
      BY <3>1, ReplayConcat
  <2>9. FoldLeft(ApplyOp, EmptyGraph, past \o rest) =
          FoldLeft(ApplyOp, FoldLeft(ApplyOp, EmptyGraph, past), rest)
    <3>1. past \in Seq(Op) /\ rest \in Seq(Op)
      BY <2>2
    <3>. QED
      BY <3>1, EmptyGraphType, ReplayConcat
  <2>. QED
    BY <2>3, <2>5, <2>6, <2>7, <2>8, <2>9
<1>. QED
  BY <1>2, <1>3

\* A db that stands somewhere in a sound journal is what a replay could leave.
LEMMA StandsLeftover ==
  ASSUME NEW s \in Seq(Op), Sound(s), NEW k \in 0 .. Len(s), NEW g, Stands(s, k, g)
  PROVE  Leftover(s, g)
<1>1. Len(s) \in Nat /\ Upto(s, k) \in Graph /\ g \in Graph
  BY UptoSteps, StandsStep
<1>2. Linked(Upto(s, k))
  <2>1. CASE k = 0
    BY <2>1, UptoSteps DEF Linked, EmptyGraph
  <2>2. CASE k # 0
    BY <2>2 DEF Sound
  <2>. QED
    BY <2>1, <2>2
<1>3. CASE g = Upto(s, k)
  BY <1>1, <1>2, <1>3 DEF Leftover
<1>4. CASE g # Upto(s, k)
  <2>. DEFINE op == s[k + 1]
              r == Upto(s, k)
              r2 == Upto(s, k + 1)
  <2>1. /\ k + 1 \in 1 .. Len(s) /\ k + 1 \in 0 .. Len(s) /\ (k + 1) - 1 = k
        /\ op.body.verb = "extend" /\ g = ExtendNodes(r, op.body, op.ts)
    BY <1>1, <1>4 DEF Stands
  <2>2. op \in Op /\ r2 = ApplyOp(r, op)
    BY <2>1, UptoSteps
  <2>3. \E i \in 0 .. Len(s) : i = k + 1 /\ Upto(s, i) = r2
    BY <2>1
  <2>4. \E i \in 0 .. Len(s) : i = k /\ Upto(s, i) = r
    OBVIOUS
  <2>. HIDE DEF op, r, r2
  <2>5. g.node = r2.node /\ g.edge = r.edge
    <3>1. op.body \in Wires /\ op.ts \in Time /\ r2 = Extend(r, op.body, op.ts) /\ r \in Graph
      BY <1>1, <2>1, <2>2, BodyByVerb, ApplyByVerb DEF r
    <3>. QED
      BY <2>1, <3>1, ExtendRows, ZenonT(60)
  <2>6. \A n \in NodeId : r.node[n] # Absent => g.node[n] # Absent
    <3>1. op.body \in Wires /\ op.ts \in Time /\ r2 = Extend(r, op.body, op.ts) /\ r \in Graph
      BY <1>1, <2>1, <2>2, BodyByVerb, ApplyByVerb DEF r
    <3>2. \A n \in NodeId : r.node[n] # Absent => r2.node[n] = r.node[n]
      BY <3>1, ExtendKeeps
    <3>. QED
      BY <2>5, <3>2
  <2>7. Linked(g)
    <3>1. \A e \in EdgeId : Source[e] \in NodeId /\ Target[e] \in NodeId
      BY EdgeEndpoints
    <3>2. Linked(r)
      BY <1>2 DEF r
    <3>. QED
      BY <2>5, <2>6, <3>1, <3>2 DEF Linked
  <2>8. /\ \A n \in NodeId : \E i \in 0 .. Len(s) : g.node[n] = Upto(s, i).node[n]
        /\ \A e \in EdgeId : \E i \in 0 .. Len(s) : g.edge[e] = Upto(s, i).edge[e]
    BY <2>3, <2>4, <2>5
  <2>. QED
    BY <1>1, <2>7, <2>8 DEF Leftover
<1>. QED
  BY <1>3, <1>4

\* What a replay has written of a batch when it stops between its nodes and its
\* edges is of the same kind.
LEMMA HalfLeftover ==
  ASSUME NEW s \in Seq(Op), NEW g, NEW whole, NEW half, Leftover(s, g), Leftover(s, whole),
         half \in Graph, half.node = whole.node, half.edge = g.edge,
         \A n \in NodeId : g.node[n] # Absent => whole.node[n] # Absent
  PROVE  Leftover(s, half)
<1>1. \A e \in EdgeId : Source[e] \in NodeId /\ Target[e] \in NodeId
  BY EdgeEndpoints
<1>2. Linked(half)
  BY <1>1 DEF Leftover, Linked
<1>. QED
  BY <1>2 DEF Leftover

=============================================================================
