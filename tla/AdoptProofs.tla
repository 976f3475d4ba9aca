----------------------------- MODULE AdoptProofs -----------------------------
(***************************************************************************)
(* What an adoption proves of the db it stamps, for every db, page size,   *)
(* drop list and history, whatever writes fall between two of its steps.   *)
(***************************************************************************)
EXTENDS Adopt, GraphStoreProofs, FiniteSetTheorems

-----------------------------------------------------------------------------
(* The stores' id order. *)

\* A finite set can be listed by rank.
LEMMA Listed ==
  ASSUME NEW X, IsFiniteSet(X), NEW r \in [X -> Nat],
         \A x, y \in X : r[x] = r[y] => x = y
  PROVE  /\ Cardinality(X) \in Nat
         /\ \E s \in [1 .. Cardinality(X) -> X] :
              \A i, j \in 1 .. Cardinality(X) : i < j => r[s[i]] < r[s[j]]
         /\ \A s \in [1 .. Cardinality(X) -> X] :
              (\A i, j \in 1 .. Cardinality(X) : i < j => r[s[i]] < r[s[j]])
                => \A x \in X : \E i \in 1 .. Cardinality(X) : s[i] = x
<1>. DEFINE N == Cardinality(X)
            Below(x) == {y \in X : r[y] <= r[x]}
            place == [x \in X |-> Cardinality(Below(x))]
<1>1. N \in Nat /\ IsFiniteSet(1 .. N) /\ Cardinality(1 .. N) = N
  <2>1. N \in Nat
    BY FS_CardinalityType
  <2>. QED
    BY <2>1, FS_Interval
<1>2. ASSUME NEW x \in X
      PROVE  IsFiniteSet(Below(x)) /\ Cardinality(Below(x)) \in 1 .. N /\ x \in Below(x)
  <2>1. Below(x) \in SUBSET X /\ x \in Below(x)
    OBVIOUS
  <2>2. IsFiniteSet(Below(x)) /\ Cardinality(Below(x)) <= N
    BY <2>1, FS_Subset
  <2>3. Cardinality(Below(x)) \in Nat /\ Cardinality(Below(x)) # 0
    BY <2>1, <2>2, FS_CardinalityType, FS_EmptySet
  <2>. QED
    BY <1>1, <2>1, <2>2, <2>3
<1>3. ASSUME NEW x \in X, NEW y \in X, r[x] < r[y]
      PROVE  Cardinality(Below(x)) < Cardinality(Below(y))
  <2>1. Below(x) \in SUBSET Below(y) /\ y \notin Below(x)
    <3>1. r[x] \in Nat /\ r[y] \in Nat
      OBVIOUS
    <3>2. ASSUME NEW z \in X, r[z] <= r[x]
          PROVE  r[z] <= r[y]
      <4>1. r[z] \in Nat
        OBVIOUS
      <4>. QED
        BY <1>3, <3>1, <3>2, <4>1
    <3>. QED
      BY <1>3, <3>1, <3>2
  <2>2. Below(x) # Below(y)
    BY <1>2, <2>1
  <2>. HIDE DEF Below
  <2>3. /\ Cardinality(Below(x)) <= Cardinality(Below(y))
        /\ Cardinality(Below(x)) # Cardinality(Below(y))
    BY <1>2, <2>1, <2>2, FS_Subset
  <2>4. Cardinality(Below(x)) \in Nat /\ Cardinality(Below(y)) \in Nat
    BY <1>1, <1>2
  <2>. QED
    BY <2>3, <2>4
<1>. HIDE DEF Below, N
<1>4. place \in [X -> 1 .. N]
  BY <1>2
<1>5. \A x, y \in X : place[x] < place[y] => r[x] < r[y]
  <2>1. ASSUME NEW x \in X, NEW y \in X, place[x] < place[y], ~(r[x] < r[y])
        PROVE  FALSE
    <3>1. r[x] \in Nat /\ r[y] \in Nat /\ place[x] \in Nat /\ place[y] \in Nat
      BY <1>1, <1>4
    <3>2. r[y] < r[x] \/ r[y] = r[x]
      BY <2>1, <3>1
    <3>3. CASE r[y] < r[x]
      BY <1>3, <2>1, <3>1, <3>3
    <3>4. CASE r[y] = r[x]
      BY <2>1, <3>1, <3>4
    <3>. QED
      BY <3>2, <3>3, <3>4
  <2>. QED
    BY <2>1
<1>6. \A x, y \in X : place[x] = place[y] => x = y
  <2>1. ASSUME NEW x \in X, NEW y \in X, place[x] = place[y], r[x] # r[y]
        PROVE  FALSE
    <3>1. r[x] \in Nat /\ r[y] \in Nat /\ place[x] \in Nat /\ place[y] \in Nat
      BY <1>1, <1>4
    <3>2. r[y] < r[x] \/ r[x] < r[y]
      BY <2>1, <3>1
    <3>. QED
      BY <1>3, <2>1, <3>1, <3>2
  <2>. QED
    BY <2>1
<1>. HIDE DEF place
<1>7. \A m \in 1 .. N : \E x \in X : place[x] = m
  <2>1. place \in Injection(X, 1 .. N)
    BY <1>4, <1>6 DEF Injection, IsInjective
  <2>2. place \in Surjection(X, 1 .. N)
    BY <1>1, <2>1, FS_Injection DEF N
  <2>. QED
    BY <2>2 DEF Surjection
<1>8. PICK s \in [1 .. N -> X] : \A i \in 1 .. N : place[s[i]] = i
  <2>. DEFINE t == [i \in 1 .. N |-> CHOOSE x \in X : place[x] = i]
  <2>1. \A i \in 1 .. N : t[i] \in X /\ place[t[i]] = i
    BY <1>7
  <2>2. t \in [1 .. N -> X]
    BY <2>1
  <2>. QED
    BY <2>1, <2>2
<1>9. \A i, j \in 1 .. N : i < j => r[s[i]] < r[s[j]]
  BY <1>5, <1>8
<1>10. ASSUME NEW u \in [1 .. N -> X], \A i, j \in 1 .. N : i < j => r[u[i]] < r[u[j]]
       PROVE  \A x \in X : \E i \in 1 .. N : u[i] = x
  <2>1. ASSUME NEW i \in 1 .. N, NEW j \in 1 .. N, u[i] = u[j], i # j
        PROVE  FALSE
    <3>1. i < j \/ j < i
      BY <1>1, <2>1
    <3>2. r[u[i]] < r[u[j]] \/ r[u[j]] < r[u[i]]
      BY <1>10, <3>1
    <3>3. r[u[i]] \in Nat /\ r[u[j]] \in Nat
      OBVIOUS
    <3>. QED
      BY <2>1, <3>2, <3>3
  <2>2. u \in Injection(1 .. N, X)
    BY <2>1 DEF Injection, IsInjective
  <2>3. u \in Surjection(1 .. N, X)
    BY <1>1, <2>2, FS_Injection DEF N
  <2>. QED
    BY <2>3 DEF Surjection
<1>. QED
  BY <1>1, <1>8, <1>9, <1>10 DEF N

\* The ids of one kind.
KindId(k) == IF k = "node" THEN NodeId ELSE EdgeId

\* In strictly ascending id order.
Ascending(s) == \A i, j \in 1 .. Len(s) : i < j => Rank[s[i]] < Rank[s[j]]

\* The rows of a kind.
LEMMA RowsOf ==
  ASSUME NEW g \in Graph, NEW k \in {"node", "edge"}
  PROVE  /\ DOMAIN Rows(g, k) = KindId(k)
         /\ \A x \in KindId(k) : Rows(g, k)[x] # Absent => Rows(g, k)[x] \in NodeRow \cup EdgeRow
         /\ KindId(k) \subseteq ElementId
         /\ IsFiniteSet(KindId(k))
         /\ \A x \in KindId(k) : Rank[x] \in Nat /\ Rank[x] > 0
         /\ \A x, y \in KindId(k) : Rank[x] = Rank[y] => x = y
<1>1. KindId(k) \in SUBSET ElementId
  BY DEF KindId, ElementId
<1>2. IsFiniteSet(KindId(k))
  BY <1>1, AdoptedStores, FS_Subset
<1>3. \A x \in KindId(k) : Rank[x] \in Nat /\ Rank[x] > 0
  <2>1. \A x \in KindId(k) : Rank[x] \in Nat \ {0}
    <3>1. Rank \in [ElementId -> Nat \ {0}]
      BY RankOrders
    <3>. QED
      BY <1>1, <3>1
  <2>. QED
    BY <2>1
<1>4. \A x, y \in KindId(k) : Rank[x] = Rank[y] => x = y
  BY RankOrders DEF KindId
<1>5. CASE k = "node"
  BY <1>1, <1>2, <1>3, <1>4, <1>5 DEF KindId, Rows, Graph
<1>6. CASE k = "edge"
  BY <1>1, <1>2, <1>3, <1>4, <1>6 DEF KindId, Rows, Graph
<1>. QED
  BY <1>5, <1>6

\* A stream is all the ids past the rank, each once and in order
\* (graphdiff.py, stream_elements).
LEMMA Streamed ==
  ASSUME NEW g \in Graph, NEW k \in {"node", "edge"}, NEW rank \in Nat
  PROVE  /\ Stream(g, k, rank) \in Seq(Past(g, k, rank))
         /\ Len(Stream(g, k, rank)) \in Nat
         /\ Past(g, k, rank) = {Stream(g, k, rank)[i] : i \in 1 .. Len(Stream(g, k, rank))}
         /\ Ascending(Stream(g, k, rank))
<1>. DEFINE ids == Past(g, k, rank)
            N == Cardinality(ids)
            r == [x \in ids |-> Rank[x]]
            Fits(s) == s \in [1 .. N -> ids] /\ \A i, j \in DOMAIN s : i < j => Rank[s[i]] < Rank[s[j]]
            st == Stream(g, k, rank)
<1>1. ids \in SUBSET KindId(k)
  BY RowsOf DEF Past
<1>2. IsFiniteSet(ids)
  BY <1>1, RowsOf, FS_Subset
<1>3. r \in [ids -> Nat] /\ \A x, y \in ids : r[x] = r[y] => x = y
  BY <1>1, RowsOf
<1>4. st = CHOOSE s \in [1 .. N -> ids] : \A i, j \in DOMAIN s : i < j => Rank[s[i]] < Rank[s[j]]
  BY DEF Stream
<1>. HIDE DEF ids, st
<1>. HIDE DEF r
<1>5. N \in Nat /\ \E s \in [1 .. N -> ids] : \A i, j \in 1 .. N : i < j => r[s[i]] < r[s[j]]
  BY <1>2, <1>3, Listed
<1>6. \A s \in [1 .. N -> ids] : (\A i, j \in 1 .. N : i < j => r[s[i]] < r[s[j]])
                => \A x \in ids : \E i \in 1 .. N : s[i] = x
  BY <1>2, <1>3, Listed
<1>. HIDE DEF N
<1>. USE DEF r
<1>7. \A s \in [1 .. N -> ids] : DOMAIN s = 1 .. N /\ \A i \in 1 .. N : r[s[i]] = Rank[s[i]]
  OBVIOUS
<1>. HIDE DEF r
<1>8. \E s \in [1 .. N -> ids] : \A i, j \in DOMAIN s : i < j => Rank[s[i]] < Rank[s[j]]
  BY <1>5, <1>7
<1>9. st \in [1 .. N -> ids] /\ \A i, j \in DOMAIN st : i < j => Rank[st[i]] < Rank[st[j]]
  BY <1>4, <1>8
<1>10. DOMAIN st = 1 .. N /\ st \in Seq(ids) /\ Len(st) = N
  BY <1>5, <1>9
<1>11. \A x \in ids : \E i \in 1 .. N : st[i] = x
  BY <1>6, <1>7, <1>9, <1>10
<1>12. ids = {st[i] : i \in 1 .. N}
  BY <1>9, <1>11
<1>. QED
  BY <1>5, <1>9, <1>10, <1>12 DEF Ascending, ids, st

-----------------------------------------------------------------------------
(* Graphs that agree stay so. *)

\* Two rows of one node that agree: both absent, or the same but for times.
SameNode(a, b) ==
  /\ a = Absent <=> b = Absent
  /\ a # Absent => ~Drifts("node", a, b)

SameEdge(a, b) ==
  /\ a = Absent <=> b = Absent
  /\ a # Absent => ~Drifts("edge", a, b)

\* Agreement is agreement of every row.
LEMMA AgreesByRow ==
  ASSUME NEW g \in Graph, NEW h \in Graph
  PROVE  Agrees(g, h) <=> /\ \A n \in NodeId : SameNode(g.node[n], h.node[n])
                          /\ \A e \in EdgeId : SameEdge(g.edge[e], h.edge[e])
<1>. DEFINE G(n) == g.node[n]  H(n) == h.node[n]
            GE(e) == g.edge[e]  HE(e) == h.edge[e]
<1>1. NodeId \cap EdgeId = {}
  BY AdoptedDrops
<1>2. Beyond(g, h) = {n \in NodeId : G(n) # Absent /\ H(n) = Absent}
                       \cup {e \in EdgeId : GE(e) # Absent /\ HE(e) = Absent}
  BY DEF Beyond
<1>3. Beyond(h, g) = {n \in NodeId : H(n) # Absent /\ G(n) = Absent}
                       \cup {e \in EdgeId : HE(e) # Absent /\ GE(e) = Absent}
  BY DEF Beyond
<1>4. Otherwise(g, h) =
        {n \in NodeId : G(n) # Absent /\ H(n) # Absent /\ Drifts("node", G(n), H(n))}
          \cup {e \in EdgeId : GE(e) # Absent /\ HE(e) # Absent /\ Drifts("edge", GE(e), HE(e))}
  BY DEF Otherwise
<1>. HIDE DEF G, H, GE, HE
<1>5. Agrees(g, h) <=> /\ \A n \in NodeId : SameNode(G(n), H(n))
                       /\ \A e \in EdgeId : SameEdge(GE(e), HE(e))
  BY <1>2, <1>3, <1>4 DEF Agrees, SameNode, SameEdge
<1>. QED
  BY <1>5 DEF G, H, GE, HE

\* A time agrees with itself.
LEMMA SameTimeReflexive == \A t : SameTime(t, t)
BY DEF SameTime

\* A row agrees with itself.
LEMMA SameReflexive == \A a : SameNode(a, a) /\ SameEdge(a, a)
<1>1. \A a : ~Drifts("node", a, a) /\ ~Drifts("edge", a, a)
  BY SameTimeReflexive DEF Drifts
<1>. QED
  BY <1>1 DEF SameNode, SameEdge

\* One op, live and on the replay, keeps rows that agree agreeing: what it adds,
\* merges or drops depends on no time of a row.
LEMMA SameAfter ==
  ASSUME NEW op \in Op, NEW n \in NodeId,
         NEW a \in NodeRow \cup {Absent}, NEW b \in NodeRow \cup {Absent}, SameNode(a, b)
  PROVE  SameNode(RowAfter(a, op, n), RowAfter(b, op, n))
<1>1. /\ RowAfter(a, op, n) # Absent <=> ~Deletes(op, n) /\ (a # Absent \/ Adds(op, n))
      /\ RowAfter(b, op, n) # Absent <=> ~Deletes(op, n) /\ (b # Absent \/ Adds(op, n))
  BY RowPresence
<1>2. a = Absent <=> b = Absent
  BY DEF SameNode
<1>3. CASE a = Absent \/ Deletes(op, n)
  <2>1. a = Absent => b = a
    BY <1>2
  <2>2. Deletes(op, n) => RowAfter(a, op, n) = Absent /\ RowAfter(b, op, n) = Absent
    BY <1>1
  <2>. QED
    BY <1>3, <2>1, <2>2, SameReflexive
<1>4. CASE a # Absent /\ ~Deletes(op, n)
  <2>1. a \in NodeRow /\ b \in NodeRow /\ ~Drifts("node", a, b)
    BY <1>2, <1>4 DEF SameNode
  <2>2. ~Drifts("node", RowAfter(a, op, n), RowAfter(b, op, n))
    <3>1. CASE Updates(op, n)
      <4>1. RowAfter(a, op, n) = MergedRow(a, op) /\ RowAfter(b, op, n) = MergedRow(b, op)
        BY <1>2, <1>4, <3>1 DEF RowAfter
      <4>2. a.hash = b.hash /\ SameTime(a.created, b.created) /\ SameTime(op.ts, op.ts)
        BY <2>1, SameTimeReflexive DEF Drifts
      <4>. QED
        BY <4>1, <4>2 DEF Drifts, MergedRow
    <3>2. CASE ~Updates(op, n)
      <4>1. RowAfter(a, op, n) = a /\ RowAfter(b, op, n) = b
        BY <1>2, <1>4, <3>2 DEF RowAfter
      <4>. QED
        BY <2>1, <4>1
    <3>. QED
      BY <3>1, <3>2
  <2>. QED
    BY <1>1, <1>2, <1>4, <2>2 DEF SameNode
<1>. QED
  BY <1>3, <1>4

\* An op applied to graphs that agree.
LEMMA AgreesAfter ==
  ASSUME NEW g \in Graph, NEW h \in Graph, Agrees(g, h), NEW op \in Op
  PROVE  Agrees(ApplyOp(g, op), ApplyOp(h, op))
<1>1. /\ \A n \in NodeId : SameNode(g.node[n], h.node[n])
      /\ \A e \in EdgeId : SameEdge(g.edge[e], h.edge[e])
  BY AgreesByRow
<1>2. ApplyOp(g, op) \in Graph /\ ApplyOp(h, op) \in Graph
  BY ApplyOpType
<1>3. ASSUME NEW n \in NodeId
      PROVE  SameNode(ApplyOp(g, op).node[n], ApplyOp(h, op).node[n])
  <2>1. g.node[n] \in NodeRow \cup {Absent} /\ h.node[n] \in NodeRow \cup {Absent}
    BY DEF Graph
  <2>. QED
    BY <1>1, <2>1, ApplyRows, SameAfter
<1>4. ASSUME NEW e \in EdgeId
      PROVE  SameEdge(ApplyOp(g, op).edge[e], ApplyOp(h, op).edge[e])
  <2>1. SameEdge(g.edge[e], h.edge[e])
    BY <1>1
  <2>2. g.edge[e] = Absent <=> h.edge[e] = Absent
    BY <2>1 DEF SameEdge
  <2>3. CASE ~Cuts(op, e)
    <3>1. /\ ApplyOp(g, op).edge[e] = IF Links(op, e) /\ g.edge[e] = Absent
                                        THEN [created |-> op.ts] ELSE g.edge[e]
          /\ ApplyOp(h, op).edge[e] = IF Links(op, e) /\ h.edge[e] = Absent
                                        THEN [created |-> op.ts] ELSE h.edge[e]
      BY <2>3, ApplyRows
    <3>2. CASE Links(op, e) /\ g.edge[e] = Absent
      BY <2>2, <3>1, <3>2, SameReflexive
    <3>3. CASE ~(Links(op, e) /\ g.edge[e] = Absent)
      BY <2>1, <2>2, <3>1, <3>3
    <3>. QED
      BY <3>2, <3>3
  <2>4. CASE Cuts(op, e)
    <3>. DEFINE Taking(f) == \/ Deletes(op, Source[e]) /\ f.node[Source[e]] # Absent
                             \/ Deletes(op, Target[e]) /\ f.node[Target[e]] # Absent
    <3>1. /\ ApplyOp(g, op).edge[e] = IF Taking(g) THEN Absent ELSE g.edge[e]
          /\ ApplyOp(h, op).edge[e] = IF Taking(h) THEN Absent ELSE h.edge[e]
      BY <2>4, ApplyRows
    <3>2. Taking(g) <=> Taking(h)
      <4>1. Source[e] \in NodeId /\ Target[e] \in NodeId
        BY EdgeEndpoints
      <4>. QED
        BY <1>1, <4>1 DEF SameNode
    <3>. HIDE DEF Taking
    <3>. QED
      BY <2>1, <3>1, <3>2, SameReflexive
  <2>. QED
    BY <2>3, <2>4
<1>. QED
  BY <1>2, <1>3, <1>4, AgreesByRow

\* A whole run of ops, as a heal applies it.
LEMMA AgreesHealed ==
  ASSUME NEW g \in Graph, NEW h \in Graph, Agrees(g, h), NEW s \in Seq(Op)
  PROVE  Agrees(FoldLeft(ApplyOp, g, s), FoldLeft(ApplyOp, h, s))
<1>. DEFINE First(m) == SubSeq(s, 1, m)
            P(m) == m <= Len(s) =>
                      Agrees(FoldLeft(ApplyOp, g, First(m)), FoldLeft(ApplyOp, h, First(m)))
            S == {m \in Nat : P(m)}
<1>1. Len(s) \in Nat /\ s = First(Len(s))
  OBVIOUS
<1>2. \A m \in 0 .. Len(s) : First(m) \in Seq(Op)
  OBVIOUS
<1>3. First(0) = <<>>
  OBVIOUS
<1>4. \A m \in Nat : m + 1 <= Len(s) => s[m + 1] \in Op /\ First(m + 1) = Append(First(m), s[m + 1])
  OBVIOUS
<1>. HIDE DEF First
<1>5. P(0)
  <2>1. First(0) \in Seq(Op)
    BY <1>1, <1>2
  <2>2. FoldLeft(ApplyOp, g, First(0)) = g
    BY <1>3, <2>1, ReplayLaws
  <2>3. FoldLeft(ApplyOp, h, First(0)) = h
    BY <1>3, <2>1, ReplayLaws
  <2>. QED
    BY <2>2, <2>3
<1>6. ASSUME NEW m \in Nat, P(m) PROVE P(m + 1)
  <2>1. SUFFICES ASSUME m + 1 <= Len(s)
                 PROVE  Agrees(FoldLeft(ApplyOp, g, First(m + 1)), FoldLeft(ApplyOp, h, First(m + 1)))
    OBVIOUS
  <2>2. m <= Len(s) /\ m \in 0 .. Len(s)
    BY <1>1, <2>1
  <2>. DEFINE past == First(m)
              op == s[m + 1]
  <2>3. past \in Seq(Op) /\ op \in Op /\ First(m + 1) = Append(past, op)
    BY <1>2, <1>4, <2>1, <2>2
  <2>4. Agrees(FoldLeft(ApplyOp, g, past), FoldLeft(ApplyOp, h, past))
    BY <1>6, <2>2
  <2>. HIDE DEF P, past, op
  <2>5. /\ FoldLeft(ApplyOp, g, past) \in Graph
        /\ FoldLeft(ApplyOp, g, Append(past, op)) = ApplyOp(FoldLeft(ApplyOp, g, past), op)
    BY <2>3, ReplayLaws
  <2>6. /\ FoldLeft(ApplyOp, h, past) \in Graph
        /\ FoldLeft(ApplyOp, h, Append(past, op)) = ApplyOp(FoldLeft(ApplyOp, h, past), op)
    BY <2>3, ReplayLaws
  <2>. QED
    BY <2>3, <2>4, <2>5, <2>6, AgreesAfter
<1>7. Len(s) \in S
  <2>. HIDE DEF P
  <2>1. 0 \in S /\ \A n \in Nat : n \in S => n + 1 \in S
    BY <1>5, <1>6
  <2>. HIDE DEF S
  <2>. QED
    BY <1>1, <2>1, SetInduction
<1>. QED
  BY <1>1, <1>7

-----------------------------------------------------------------------------
(* The first state. *)

\* A replay of ops stamped past 0 stores no earlier time.
LEMMA ReplayIsTimed ==
  ASSUME NEW s \in Seq(Op), \A i \in 1 .. Len(s) : s[i].ts > 0
  PROVE  \A n \in NodeId : ReplayOf(s).node[n] # Absent =>
           ReplayOf(s).node[n].created > 0 /\ ReplayOf(s).node[n].updated > 0
<1>. DEFINE Timed(row) == row # Absent => row.created > 0 /\ row.updated > 0
            P(m) == m <= Len(s) => \A n \in NodeId : Timed(Upto(s, m).node[n])
            S == {m \in Nat : P(m)}
<1>1. /\ Len(s) \in Nat
      /\ \A i \in 0 .. Len(s) : Upto(s, i) \in Graph
      /\ Upto(s, 0) = EmptyGraph
      /\ \A i \in 1 .. Len(s) : s[i] \in Op /\ Upto(s, i) = ApplyOp(Upto(s, i - 1), s[i])
  BY UptoSteps
<1>2. P(0)
  BY <1>1 DEF EmptyGraph
<1>3. ASSUME NEW m \in Nat, P(m) PROVE P(m + 1)
  <2>. SUFFICES ASSUME m + 1 <= Len(s), NEW n \in NodeId
                PROVE  Timed(Upto(s, m + 1).node[n])
    OBVIOUS
  <2>. DEFINE op == s[m + 1]
              g == Upto(s, m)
              row == g.node[n]
  <2>1. m + 1 \in 1 .. Len(s) /\ m \in 0 .. Len(s) /\ (m + 1) - 1 = m /\ m <= Len(s)
    BY <1>1
  <2>2. op \in Op /\ op.ts > 0 /\ g \in Graph /\ Upto(s, m + 1) = ApplyOp(g, op)
    BY <1>1, <2>1
  <2>3. Timed(row) /\ row \in NodeRow \cup {Absent}
    BY <1>3, <2>1, <2>2 DEF Graph
  <2>. HIDE DEF op, g
  <2>4. Upto(s, m + 1).node[n] = RowAfter(row, op, n)
    <3>1. g \in Graph /\ op \in Op
      BY <2>2
    <3>2. ApplyOp(g, op).node[n] = RowAfter(g.node[n], op, n)
      BY <3>1, ApplyRows
    <3>. QED
      BY <2>2, <3>2
  <2>. HIDE DEF row
  <2>. QED
    BY <2>2, <2>3, <2>4 DEF RowAfter, MergedRow, StampedNode
<1>4. Len(s) \in S
  <2>. HIDE DEF P
  <2>1. 0 \in S /\ \A n \in Nat : n \in S => n + 1 \in S
    BY <1>2, <1>3
  <2>. HIDE DEF S
  <2>. QED
    BY <1>1, <2>1, SetInduction
<1>5. ReplayOf(s) = Upto(s, Len(s))
  <2>1. SubSeq(s, 1, Len(s)) = s
    OBVIOUS
  <2>. QED
    BY <2>1 DEF ReplayOf, Upto
<1>. QED
  BY <1>1, <1>4, <1>5

\* A replay's graph.
LEMMA ReplayType == ASSUME NEW s \in Seq(Op) PROVE ReplayOf(s) \in Graph
BY EmptyGraphType, ReplayLaws DEF ReplayOf

\* The db as the writers before the op clock left it.
LEMMA LaggedType ==
  ASSUME NEW h \in Histories, NEW ids
  PROVE  LaggedGraph(ReplayOf(h), ids) \in Graph
<1>. DEFINE g == ReplayOf(h)
            rows == [n \in NodeId |-> IF n \in ids /\ g.node[n] # Absent THEN Lagged(g.node[n]) ELSE g.node[n]]
<1>1. h \in Seq(Op) /\ \A i \in 1 .. Len(h) : h[i].ts > 0
  BY AdoptedHistories
<1>2. g \in Graph
  BY <1>1, ReplayType
<1>3. \A n \in NodeId : g.node[n] # Absent => g.node[n].created > 0 /\ g.node[n].updated > 0
  BY <1>1, ReplayIsTimed
<1>4. LaggedGraph(g, ids) = [g EXCEPT !.node = rows]
  BY DEF LaggedGraph
<1>. HIDE DEF g
<1>5. ASSUME NEW n \in NodeId, g.node[n] # Absent
      PROVE  Lagged(g.node[n]) \in NodeRow
  <2>. DEFINE row == g.node[n]
  <2>1. row \in NodeRow /\ row.created > 0 /\ row.updated > 0
    BY <1>2, <1>3, <1>5 DEF Graph
  <2>. HIDE DEF row
  <2>2. row.created - 1 \in Nat /\ row.updated - 1 \in Nat
    BY <2>1 DEF NodeRow, Time
  <2>3. Lagged(row) \in NodeRow
    BY <2>1, <2>2 DEF Lagged, NodeRow, Time
  <2>. QED
    BY <2>3 DEF row
<1>6. rows \in [NodeId -> NodeRow \cup {Absent}]
  BY <1>2, <1>5 DEF Graph
<1>. HIDE DEF rows
<1>7. [g EXCEPT !.node = rows] \in Graph
  BY <1>2, <1>6 DEF Graph
<1>. QED
  BY <1>4, <1>7 DEF g

-----------------------------------------------------------------------------
(* One page. *)

\* The first part of a sequence.
LEMMA FirstOf ==
  ASSUME NEW S, NEW s \in Seq(S), NEW p \in 0 .. Len(s)
  PROVE  /\ SubSeq(s, 1, p) \in Seq(S) /\ Len(SubSeq(s, 1, p)) = p
         /\ \A i \in 1 .. p : SubSeq(s, 1, p)[i] = s[i]
<1>. DEFINE part == SubSeq(s, 1, p)
<1>1. p \in Nat /\ p \in Int /\ 1 \in Int /\ \A i \in 1 .. p : s[i] \in S
  OBVIOUS
<1>2. /\ part \in Seq(S)
      /\ Len(part) = IF 1 <= p THEN p - 1 + 1 ELSE 0
      /\ \A i \in 1 .. p - 1 + 1 : part[i] = s[1 + i - 1]
  BY <1>1, SubSeqProperties
<1>. HIDE DEF part
<1>3. Len(part) = p
  BY <1>1, <1>2
<1>4. \A i \in 1 .. p : part[i] = s[i]
  <2>1. ASSUME NEW i \in 1 .. p PROVE part[i] = s[i]
    <3>1. i \in 1 .. p - 1 + 1 /\ 1 + i - 1 = i
      BY <1>1
    <3>. QED
      BY <1>2, <3>1
  <2>. QED
    BY <2>1
<1>. QED
  BY <1>2, <1>3, <1>4 DEF part

\* A page is the first ids past the place it is read from; where it ends is
\* the place the next one is read from, and a short page leaves none behind it
\* (graphdiff.py, stream_elements).
LEMMA Paged ==
  ASSUME graph \in Graph, kind \in {"node", "edge"}, after \in Nat
  PROVE  /\ NextPage \in Seq(Past(graph, kind, after)) /\ Len(NextPage) \in Nat
         /\ Ascending(NextPage)
         /\ NextPage = <<>> <=> Len(NextPage) = 0
         /\ NextPage = <<>> => Past(graph, kind, after) = {}
         /\ NextPage # <<>> =>
              LET reached == Rank[NextPage[Len(NextPage)]]
              IN  /\ reached \in Nat /\ reached > after
                  /\ \A i \in 1 .. Len(NextPage) : Rank[NextPage[i]] <= reached
                  /\ Past(graph, kind, after) =
                       {NextPage[i] : i \in 1 .. Len(NextPage)} \cup Past(graph, kind, reached)
                  /\ IsLast(NextPage) => Past(graph, kind, reached) = {}
<1>. DEFINE st == Stream(graph, kind, after)
            ids == Past(graph, kind, after)
            n == Len(st)
            p == IF n < Page THEN n ELSE Page
            page == SubSeq(st, 1, p)
<1>1. st \in Seq(ids) /\ n \in Nat /\ ids = {st[i] : i \in 1 .. n} /\ Ascending(st)
  BY Streamed
<1>2. \A x \in ids : x \in KindId(kind) /\ Rank[x] \in Nat /\ Rank[x] > after
  BY RowsOf DEF Past
<1>3. NextPage = page
  BY DEF NextPage
<1>4. Page \in Nat /\ Page > 0
  BY AdoptedBounds
<1>5. \A rank \in Nat : after <= rank => Past(graph, kind, rank) = {x \in ids : Rank[x] > rank}
  <2>1. \A x \in DOMAIN Rows(graph, kind) : Rank[x] \in Nat
    BY RowsOf
  <2>2. ASSUME NEW rank \in Nat, after <= rank
        PROVE  Past(graph, kind, rank) = {x \in ids : Rank[x] > rank}
    BY <2>1, <2>2 DEF Past
  <2>. QED
    BY <2>2
<1>. HIDE DEF st, ids
<1>6. p \in 0 .. n /\ p <= Page /\ (p < Page => p = n) /\ (n > 0 => p > 0)
  BY <1>1, <1>4
<1>. HIDE DEF p
<1>7. page \in Seq(ids) /\ Len(page) = p /\ \A i \in 1 .. p : page[i] = st[i]
  BY <1>1, <1>6, FirstOf
<1>. HIDE DEF page, n
<1>8. \A i \in 1 .. n : st[i] \in ids
  BY <1>1
<1>9. \A i, j \in 1 .. n : i < j => Rank[st[i]] < Rank[st[j]]
  BY <1>1 DEF Ascending, n
<1>10. Ascending(page)
  <2>1. \A i \in 1 .. p : i \in 1 .. n
    <3>1. n \in Nat
      BY <1>1 DEF n
    <3>. QED
      BY <1>6, <3>1
  <2>2. \A i, j \in 1 .. p : i < j => Rank[page[i]] < Rank[page[j]]
    BY <1>7, <1>9, <2>1
  <2>. QED
    BY <1>7, <2>2 DEF Ascending
<1>11. page = <<>> <=> p = 0
  BY <1>7
<1>12. p = 0 => ids = {}
  BY <1>1, <1>6 DEF n
<1>13. ASSUME p # 0
       PROVE  /\ Rank[page[p]] \in Nat /\ Rank[page[p]] > after
              /\ \A i \in 1 .. p : Rank[page[i]] <= Rank[page[p]]
              /\ ids = {page[i] : i \in 1 .. p} \cup Past(graph, kind, Rank[page[p]])
              /\ p < Page => Past(graph, kind, Rank[page[p]]) = {}
  <2>. DEFINE reached == Rank[st[p]]
  <2>1. p \in 1 .. n /\ p \in 1 .. p /\ n \in Nat
    BY <1>1, <1>6, <1>13 DEF n
  <2>2. page[p] = st[p] /\ reached \in Nat /\ reached > after
    BY <1>2, <1>7, <1>8, <2>1
  <2>3. Past(graph, kind, reached) = {x \in ids : Rank[x] > reached}
    BY <1>5, <2>2
  <2>4. \A i \in 1 .. n : Rank[st[i]] \in Nat
    BY <1>2, <1>8
  <2>5. \A i \in 1 .. p : i \in 1 .. n /\ Rank[st[i]] <= reached
    <3>1. ASSUME NEW i \in 1 .. p
          PROVE  i \in 1 .. n /\ Rank[st[i]] <= reached
      <4>1. i \in 1 .. n /\ (i = p \/ i < p)
        BY <2>1
      <4>2. i < p => Rank[st[i]] < reached
        BY <1>9, <2>1, <4>1
      <4>. QED
        BY <2>2, <2>4, <4>1, <4>2
    <3>. QED
      BY <3>1
  <2>6. \A i \in 1 .. n : i \notin 1 .. p => Rank[st[i]] > reached
    <3>1. ASSUME NEW i \in 1 .. n, i \notin 1 .. p
          PROVE  Rank[st[i]] > reached
      <4>1. p < i
        BY <2>1, <3>1
      <4>2. reached < Rank[st[i]]
        BY <1>9, <2>1, <4>1
      <4>. QED
        BY <2>2, <2>4, <4>2
    <3>. QED
      BY <3>1
  <2>. HIDE DEF reached
  <2>7. ASSUME NEW x \in ids
        PROVE  (\E i \in 1 .. p : x = st[i]) \/ Rank[x] > reached
    <3>1. PICK i \in 1 .. n : x = st[i]
      BY <1>1, <2>7 DEF n
    <3>. QED
      BY <2>6, <3>1
  <2>8. {page[i] : i \in 1 .. p} = {st[i] : i \in 1 .. p}
    BY <1>7
  <2>9. {st[i] : i \in 1 .. p} \subseteq ids
    BY <1>8, <2>5
  <2>10. ids = {page[i] : i \in 1 .. p} \cup Past(graph, kind, reached)
    BY <2>3, <2>7, <2>8, <2>9
  <2>11. p < Page => Past(graph, kind, reached) = {}
    <3>1. ASSUME p < Page, NEW x \in ids, Rank[x] > reached
          PROVE  FALSE
      <4>1. p = n
        BY <1>6, <3>1
      <4>2. PICK i \in 1 .. p : x = st[i]
        BY <1>1, <4>1 DEF n
      <4>3. Rank[x] <= reached /\ Rank[x] \in Nat
        BY <1>2, <2>5, <4>2
      <4>. QED
        BY <2>2, <3>1, <4>3
    <3>. QED
      BY <2>3, <3>1
  <2>. QED
    BY <1>7, <2>2, <2>5, <2>10, <2>11 DEF reached
<1>14. IsLast(page) <=> p < Page
  BY <1>7 DEF IsLast
<1>15. p \in Nat
  BY <1>1, <1>6 DEF n
<1>. HIDE DEF IsLast
<1>. QED
  BY <1>3, <1>7, <1>10, <1>11, <1>12, <1>13, <1>14, <1>15 DEF ids

-----------------------------------------------------------------------------
(* The two streams as they are merged. *)

\* A live element as it was read.
Element == [id: ElementId, row: NodeRow \cup EdgeRow]

IdsOf(s) == {s[i].id : i \in 1 .. Len(s)}

InOrder(s) == \A i, j \in 1 .. Len(s) : i < j => Rank[s[i].id] < Rank[s[j].id]

\* What is left of a sequence when its head is taken.
LEMMA TailFacts ==
  ASSUME NEW X, NEW s \in Seq(X), s # <<>>
  PROVE  /\ Tail(s) \in Seq(X) /\ s[1] \in X
         /\ Len(s) \in Nat /\ Len(s) >= 1 /\ Len(Tail(s)) = Len(s) - 1
         /\ \A i \in 1 .. Len(Tail(s)) : Tail(s)[i] = s[i + 1] /\ i + 1 \in 1 .. Len(s) /\ 1 < i + 1
         /\ \A i \in 1 .. Len(s) :
              i = 1 \/ (i - 1 \in 1 .. Len(Tail(s)) /\ 1 < i /\ Tail(s)[i - 1] = s[i])
<1>1. Len(s) \in Nat /\ Len(s) >= 1 /\ Tail(s) \in Seq(X) /\ Len(Tail(s)) = Len(s) - 1 /\ s[1] \in X
  OBVIOUS
<1>2. \A i \in 1 .. (Len(s) - 1) : Tail(s)[i] = s[i + 1]
  OBVIOUS
<1>. QED
  BY <1>1, <1>2

\* The head of a scratch stream is its first id.
LEMMA FirstTaken ==
  ASSUME NEW s \in Seq(ElementId), Ascending(s), s # <<>>
  PROVE  /\ Tail(s) \in Seq(ElementId) /\ s[1] \in ElementId
         /\ Ascending(Tail(s))
         /\ s[1] \in {s[i] : i \in 1 .. Len(s)}
         /\ {Tail(s)[i] : i \in 1 .. Len(Tail(s))} = {s[i] : i \in 1 .. Len(s)} \ {s[1]}
         /\ \A y \in {s[i] : i \in 1 .. Len(s)} : y = s[1] \/ Rank[s[1]] < Rank[y]
<1>. DEFINE t == Tail(s)
<1>1. /\ t \in Seq(ElementId) /\ s[1] \in ElementId
      /\ Len(s) \in Nat /\ Len(s) >= 1 /\ Len(t) = Len(s) - 1
      /\ \A i \in 1 .. Len(t) : t[i] = s[i + 1] /\ i + 1 \in 1 .. Len(s) /\ 1 < i + 1
      /\ \A i \in 1 .. Len(s) : i = 1 \/ (i - 1 \in 1 .. Len(t) /\ 1 < i /\ t[i - 1] = s[i])
  BY TailFacts
<1>2. \A i, j \in 1 .. Len(s) : i < j => Rank[s[i]] < Rank[s[j]]
  BY DEF Ascending
<1>. HIDE DEF t
<1>3. 1 \in 1 .. Len(s) /\ s[1] \in {s[i] : i \in 1 .. Len(s)}
  BY <1>1
<1>4. \A i, j \in 1 .. Len(t) : i < j => Rank[t[i]] < Rank[t[j]]
  <2>1. ASSUME NEW i \in 1 .. Len(t), NEW j \in 1 .. Len(t), i < j
        PROVE  Rank[t[i]] < Rank[t[j]]
    <3>1. i + 1 \in 1 .. Len(s) /\ j + 1 \in 1 .. Len(s) /\ i + 1 < j + 1
      BY <1>1, <2>1
    <3>. QED
      BY <1>1, <1>2, <3>1
  <2>. QED
    BY <2>1
<1>5. \A i \in 1 .. Len(s) : i = 1 \/ Rank[s[1]] < Rank[s[i]]
  <2>1. ASSUME NEW i \in 1 .. Len(s), i # 1
        PROVE  Rank[s[1]] < Rank[s[i]]
    <3>1. 1 < i
      BY <1>1, <2>1
    <3>. QED
      BY <1>2, <1>3, <3>1
  <2>. QED
    BY <2>1
<1>6. \A i \in 1 .. Len(t) : t[i] # s[1]
  <2>1. ASSUME NEW i \in 1 .. Len(t), t[i] = s[1]
        PROVE  FALSE
    <3>1. i + 1 \in 1 .. Len(s) /\ i + 1 # 1 /\ s[i + 1] = s[1]
      BY <1>1, <2>1
    <3>2. Rank[s[1]] < Rank[s[1]]
      BY <1>5, <3>1
    <3>3. Rank[s[1]] \in Nat
      BY <1>1, RankOrders
    <3>. QED
      BY <3>2, <3>3
  <2>. QED
    BY <2>1
<1>7. {t[i] : i \in 1 .. Len(t)} = {s[i] : i \in 1 .. Len(s)} \ {s[1]}
  <2>1. ASSUME NEW i \in 1 .. Len(t) PROVE \E j \in 1 .. Len(s) : t[i] = s[j]
    BY <1>1
  <2>2. ASSUME NEW i \in 1 .. Len(s), s[i] # s[1] PROVE \E j \in 1 .. Len(t) : s[i] = t[j]
    BY <1>1, <2>2
  <2>. QED
    BY <1>6, <2>1, <2>2
<1>8. \A y \in {s[i] : i \in 1 .. Len(s)} : y = s[1] \/ Rank[s[1]] < Rank[y]
  BY <1>5
<1>9. Ascending(t)
  BY <1>4 DEF Ascending
<1>. QED
  BY <1>1, <1>3, <1>7, <1>8, <1>9 DEF t

\* The head of a live page is its first element.
LEMMA HeadTaken ==
  ASSUME NEW s \in Seq(Element), InOrder(s), s # <<>>
  PROVE  /\ Tail(s) \in Seq(Element) /\ s[1] \in Element
         /\ InOrder(Tail(s))
         /\ 1 \in 1 .. Len(s) /\ s[1].id \in IdsOf(s)
         /\ IdsOf(Tail(s)) = IdsOf(s) \ {s[1].id}
         /\ \A y \in IdsOf(s) : y = s[1].id \/ Rank[s[1].id] < Rank[y]
         /\ \A i \in 1 .. Len(Tail(s)) : \E j \in 1 .. Len(s) : Tail(s)[i] = s[j]
<1>. DEFINE t == Tail(s)
            ids == [i \in 1 .. Len(s) |-> s[i].id]
<1>1. /\ t \in Seq(Element) /\ s[1] \in Element
      /\ Len(s) \in Nat /\ Len(s) >= 1 /\ Len(t) = Len(s) - 1
      /\ \A i \in 1 .. Len(t) : t[i] = s[i + 1] /\ i + 1 \in 1 .. Len(s) /\ 1 < i + 1
      /\ \A i \in 1 .. Len(s) : i = 1 \/ (i - 1 \in 1 .. Len(t) /\ 1 < i /\ t[i - 1] = s[i])
  BY TailFacts
<1>2. \A i \in 1 .. Len(s) : s[i] \in Element /\ s[i].id \in ElementId
  <2>1. ASSUME NEW i \in 1 .. Len(s) PROVE s[i] \in Element
    OBVIOUS
  <2>2. \A x \in Element : x.id \in ElementId
    BY DEF Element
  <2>. QED
    BY <2>1, <2>2
<1>3. ids \in Seq(ElementId) /\ Len(ids) = Len(s) /\ \A i \in 1 .. Len(s) : ids[i] = s[i].id
  BY <1>1, <1>2
<1>. HIDE DEF t, ids
<1>4. ids # <<>>
  BY <1>1, <1>3
<1>5. Ascending(ids)
  BY <1>3 DEF Ascending, InOrder
<1>6. IdsOf(s) = {ids[i] : i \in 1 .. Len(ids)}
  BY <1>3 DEF IdsOf
<1>7. /\ Ascending(Tail(ids))
      /\ ids[1] \in {ids[i] : i \in 1 .. Len(ids)}
      /\ {Tail(ids)[i] : i \in 1 .. Len(Tail(ids))} = {ids[i] : i \in 1 .. Len(ids)} \ {ids[1]}
      /\ \A y \in {ids[i] : i \in 1 .. Len(ids)} : y = ids[1] \/ Rank[ids[1]] < Rank[y]
  BY <1>3, <1>4, <1>5, FirstTaken
<1>8. Len(Tail(ids)) = Len(t) /\ \A i \in 1 .. Len(t) : Tail(ids)[i] = t[i].id
  <2>1. /\ Len(Tail(ids)) = Len(ids) - 1
        /\ \A i \in 1 .. Len(Tail(ids)) : Tail(ids)[i] = ids[i + 1]
    BY <1>3, <1>4, TailFacts
  <2>. QED
    BY <1>1, <1>3, <2>1
<1>9. InOrder(t)
  <2>1. \A i, j \in 1 .. Len(t) : i < j => Rank[Tail(ids)[i]] < Rank[Tail(ids)[j]]
    BY <1>7, <1>8 DEF Ascending
  <2>2. ASSUME NEW i \in 1 .. Len(t), NEW j \in 1 .. Len(t), i < j
        PROVE  Rank[t[i].id] < Rank[t[j].id]
    BY <1>8, <2>1, <2>2
  <2>. QED
    BY <2>2 DEF InOrder
<1>10. IdsOf(t) = {Tail(ids)[i] : i \in 1 .. Len(Tail(ids))}
  BY <1>8 DEF IdsOf
<1>11. 1 \in 1 .. Len(s) /\ ids[1] = s[1].id
  BY <1>1, <1>3
<1>12. \A i \in 1 .. Len(t) : \E j \in 1 .. Len(s) : t[i] = s[j]
  BY <1>1
<1>. QED
  BY <1>1, <1>6, <1>7, <1>9, <1>10, <1>11, <1>12 DEF t

\* A page that lies past what is there is put behind it.
LEMMA PageJoined ==
  ASSUME NEW s \in Seq(Element), NEW t \in Seq(Element), InOrder(s), InOrder(t),
         \A y \in IdsOf(s), z \in IdsOf(t) : Rank[y] < Rank[z]
  PROVE  /\ s \o t \in Seq(Element)
         /\ InOrder(s \o t)
         /\ IdsOf(s \o t) = IdsOf(s) \cup IdsOf(t)
         /\ \A i \in 1 .. Len(s \o t) : \/ \E j \in 1 .. Len(s) : (s \o t)[i] = s[j]
                                        \/ \E j \in 1 .. Len(t) : (s \o t)[i] = t[j]
<1>. DEFINE u == s \o t
<1>1. /\ u \in Seq(Element) /\ Len(s) \in Nat /\ Len(t) \in Nat /\ Len(u) = Len(s) + Len(t)
      /\ \A i \in 1 .. Len(s) : u[i] = s[i]
      /\ \A i \in (Len(s) + 1) .. Len(u) : u[i] = t[i - Len(s)]
  OBVIOUS
<1>. HIDE DEF u
<1>2. \A i \in 1 .. Len(u) :
        \/ i \in 1 .. Len(s) /\ u[i] = s[i]
        \/ i - Len(s) \in 1 .. Len(t) /\ u[i] = t[i - Len(s)]
  BY <1>1
<1>3. \A j \in 1 .. Len(t) : Len(s) + j \in 1 .. Len(u) /\ u[Len(s) + j] = t[j]
  <2>1. ASSUME NEW j \in 1 .. Len(t)
        PROVE  Len(s) + j \in 1 .. Len(u) /\ u[Len(s) + j] = t[j]
    <3>. DEFINE i == Len(s) + j
    <3>1. i \in (Len(s) + 1) .. Len(u) /\ i \in 1 .. Len(u) /\ i - Len(s) = j
      BY <1>1
    <3>. HIDE DEF i
    <3>2. u[i] = t[i - Len(s)]
      BY <1>1, <3>1
    <3>. QED
      BY <3>1, <3>2 DEF i
  <2>. QED
    BY <2>1
<1>4. \A j \in 1 .. Len(s) : j \in 1 .. Len(u) /\ u[j] = s[j]
  BY <1>1
<1>5. IdsOf(u) = IdsOf(s) \cup IdsOf(t)
  <2>1. ASSUME NEW x \in IdsOf(u) PROVE x \in IdsOf(s) \cup IdsOf(t)
    BY <1>2, <2>1 DEF IdsOf
  <2>2. ASSUME NEW x \in IdsOf(s) PROVE x \in IdsOf(u)
    BY <1>4, <2>2 DEF IdsOf
  <2>3. ASSUME NEW x \in IdsOf(t) PROVE x \in IdsOf(u)
    <3>1. PICK j \in 1 .. Len(t) : x = t[j].id
      BY <2>3 DEF IdsOf
    <3>. QED
      BY <1>3, <3>1 DEF IdsOf
  <2>. QED
    BY <2>1, <2>2, <2>3
<1>6. ASSUME NEW i \in 1 .. Len(u), NEW j \in 1 .. Len(u), i < j
      PROVE  Rank[u[i].id] < Rank[u[j].id]
  <2>1. CASE i \in 1 .. Len(s) /\ j \in 1 .. Len(s)
    BY <1>4, <1>6, <2>1 DEF InOrder
  <2>2. CASE i \in 1 .. Len(s) /\ j \notin 1 .. Len(s)
    <3>1. j - Len(s) \in 1 .. Len(t) /\ u[j] = t[j - Len(s)] /\ u[i] = s[i]
      BY <1>2, <1>4, <2>2
    <3>2. u[i].id \in IdsOf(s) /\ u[j].id \in IdsOf(t)
      BY <2>2, <3>1 DEF IdsOf
    <3>. QED
      BY <3>2
  <2>3. CASE i \notin 1 .. Len(s)
    <3>1. i > Len(s) /\ j > Len(s)
      BY <1>1, <1>6, <2>3
    <3>2. /\ i - Len(s) \in 1 .. Len(t) /\ u[i] = t[i - Len(s)]
          /\ j - Len(s) \in 1 .. Len(t) /\ u[j] = t[j - Len(s)]
          /\ i - Len(s) < j - Len(s)
      BY <1>1, <1>2, <1>6, <3>1
    <3>. QED
      BY <3>2 DEF InOrder
  <2>. QED
    BY <2>1, <2>2, <2>3
<1>. QED
  BY <1>1, <1>2, <1>5, <1>6 DEF InOrder, u

-----------------------------------------------------------------------------
(* What holds whatever is written while an adoption runs. *)

RightIds == {right[i] : i \in 1 .. Len(right)}

\* All that a replay of the journal has built.
ScratchIds == Past(scratch, "node", 0) \cup Past(scratch, "edge", 0)

\* A call's parts: nothing is kept between calls, a call has the replay of the
\* journal as it is to its end, and the elements it takes for the live db's alone
\* are none that the replay built.
CallInv ==
  /\ pc = "idle" => found = Nothing /\ left = <<>> /\ after = 0 /\ last = FALSE /\ kind = "node"
  /\ pc # "idle" => scratch = ReplayOf(journal) /\ end = Len(journal)
  /\ pc \in {"edges", "nodes", "stamp"} => found.live = drop
  /\ pc \in {"edges", "nodes", "stamp"} => found.lacking \cup found.differing = {}
  /\ found.live \cap ScratchIds = {}
  /\ cursor # Unstamped => cursor <= Len(journal)
  /\ opened <= strays /\ proven <= strays

\* The merge: a scratch element that has been passed by lies before every live one
\* that is still to come.
MergeInv ==
  pc = "compare" =>
    /\ InOrder(left) /\ Ascending(right)
    /\ \A y \in IdsOf(left) : y \in KindId(kind) /\ Rank[y] <= after
    /\ RightIds \subseteq Past(scratch, kind, 0)
    /\ \A x \in Past(scratch, kind, 0) \ RightIds :
         /\ last \/ Rank[x] <= after
         /\ \A y \in IdsOf(left) : Rank[x] < Rank[y]

IInv == TypeOK /\ CallInv /\ MergeInv

\* No difference is of no kind.
LEMMA NothingType ==
  /\ Nothing \in [live: SUBSET ElementId, lacking: SUBSET ElementId, differing: SUBSET ElementId]
  /\ Nothing.live = {} /\ Nothing.lacking = {} /\ Nothing.differing = {}
BY DEF Nothing

\* Every run begins so.
LEMMA InitInvariant == Init => IInv
<1>. SUFFICES ASSUME Init PROVE IInv
  OBVIOUS
<1>1. journal \in Seq(Op) /\ graph \in Graph
  BY AdoptedHistories, LaggedType DEF Init
<1>2. TypeOK
  <2>1. left \in Seq([id: ElementId, row: NodeRow \cup EdgeRow]) /\ right \in Seq(ElementId)
    BY DEF Init
  <2>. QED
    BY <1>1, <2>1, NothingType, EmptyGraphType DEF Init, TypeOK, Unstamped
<1>3. CallInv
  BY NothingType DEF Init, CallInv
<1>4. MergeInv
  BY DEF Init, MergeInv
<1>. QED
  BY <1>2, <1>3, <1>4 DEF IInv

\* A call that ends leaves nothing.
LEMMA Closed ==
  ASSUME IInv, Close, UNCHANGED <<journal, graph, strays, runs>>,
         cursor' \in Nat \cup {Unstamped}, cursor' # Unstamped => cursor' <= Len(journal),
         proven' \in Nat, proven' <= strays
  PROVE  IInv'
<1>1. TypeOK'
  <2>1. left' \in Seq([id: ElementId, row: NodeRow \cup EdgeRow]) /\ right' \in Seq(ElementId)
    BY DEF Close
  <2>2. /\ found' \in [live: SUBSET ElementId, lacking: SUBSET ElementId, differing: SUBSET ElementId]
        /\ scratch' \in Graph
    BY NothingType, EmptyGraphType DEF Close
  <2>. QED
    BY <2>1, <2>2 DEF IInv, TypeOK, Close
<1>2. CallInv'
  <2>1. found'.live = {} /\ found' = Nothing
    BY NothingType DEF Close
  <2>2. opened' <= strays
    BY DEF Close, IInv, TypeOK
  <2>. QED
    BY <2>1, <2>2 DEF CallInv, Close
<1>3. MergeInv'
  BY DEF MergeInv, Close
<1>. QED
  BY <1>1, <1>2, <1>3 DEF IInv

\* Steps that leave the comparison alone keep what is said of it.
LEMMA MergeKept ==
  ASSUME MergeInv, UNCHANGED <<pc, scratch, kind, after, last, left, right>>
  PROVE  MergeInv'
BY DEF MergeInv, RightIds, IdsOf, InOrder, Ascending, Past, Rows, KindId

\* A heal's graph.
LEMMA HealedType ==
  ASSUME IInv, cursor # Unstamped
  PROVE  /\ cursor \in 0 .. Len(journal) /\ Len(journal) \in Nat /\ journal \in Seq(Op)
         /\ SubSeq(journal, cursor + 1, Len(journal)) \in Seq(Op)
         /\ Healed \in Graph
<1>1. /\ journal \in Seq(Op) /\ Len(journal) \in Nat /\ graph \in Graph
      /\ cursor \in 0 .. Len(journal)
  BY DEF IInv, TypeOK, CallInv
<1>2. SubSeq(journal, cursor + 1, Len(journal)) \in Seq(Op)
  BY <1>1
<1>3. Healed \in Graph
  <2>. DEFINE rest == SubSeq(journal, cursor + 1, Len(journal))
  <2>1. rest \in Seq(Op) /\ Healed = FoldLeft(ApplyOp, graph, rest)
    BY <1>2 DEF Healed
  <2>. HIDE DEF rest
  <2>. QED
    BY <1>1, <2>1, ReplayLaws
<1>. QED
  BY <1>1, <1>2, <1>3

\* A gesture appends one op, and its db is healed or healed and with the op.
LEMMA GestureFacts ==
  ASSUME IInv, NEW b \in Bodies, Gesture(b)
  PROVE  \E op \in Op :
           /\ journal' = Append(journal, op)
           /\ \/ graph' = ApplyOp(Healed, op) /\ cursor' = Len(journal) + 1
              \/ graph' = Healed /\ cursor' = Len(journal)
           /\ pc = "idle" /\ cursor # Unstamped
           /\ UNCHANGED <<pc, drop, proof, merge, strays, opened, proven, runs>>
<1>. DEFINE op == [body |-> Planned(Healed, b), ts |-> Now]
<1>1. pc = "idle" /\ cursor # Unstamped
  BY DEF Gesture
<1>2. Planned(Healed, b) \in Body
  BY <1>1, HealedType, PlannedType, AdoptedBodies
<1>3. Now \in Time
  BY DEF Now, Time, IInv, TypeOK
<1>4. op \in Op
  BY <1>2, <1>3 DEF Op
<1>5. /\ journal' = Append(journal, op)
      /\ \/ graph' = ApplyOp(Healed, op) /\ cursor' = Len(journal')
         \/ graph' = Healed /\ cursor' = Len(journal)
      /\ UNCHANGED <<pc, drop, proof, merge, strays, opened, proven, runs>>
  BY DEF Gesture
<1>. HIDE DEF op
<1>6. Len(journal') = Len(journal) + 1
  BY <1>1, <1>4, <1>5, HealedType
<1>. QED
  BY <1>1, <1>4, <1>5, <1>6

\* A gesture, with no adoption under way.
LEMMA GestureKeeps ==
  ASSUME IInv, NEW b \in Bodies, Gesture(b)
  PROVE  IInv'
<1>1. PICK op \in Op :
        /\ journal' = Append(journal, op)
        /\ \/ graph' = ApplyOp(Healed, op) /\ cursor' = Len(journal) + 1
           \/ graph' = Healed /\ cursor' = Len(journal)
        /\ pc = "idle" /\ cursor # Unstamped
        /\ UNCHANGED <<pc, drop, proof, merge, strays, opened, proven, runs>>
  BY GestureFacts
<1>2. /\ Len(journal) \in Nat /\ journal' \in Seq(Op) /\ Len(journal') = Len(journal) + 1
      /\ graph' \in Graph
  BY <1>1, HealedType, ApplyOpType
<1>3. cursor' \in Nat /\ cursor' <= Len(journal')
  BY <1>1, <1>2
<1>4. TypeOK'
  BY <1>1, <1>2, <1>3 DEF IInv, TypeOK, proof, merge
<1>5. CallInv'
  BY <1>1, <1>2, <1>3 DEF IInv, CallInv, ScratchIds, Past, Rows, proof, merge
<1>6. MergeInv'
  BY <1>1 DEF MergeInv
<1>. QED
  BY <1>4, <1>5, <1>6 DEF IInv

\* A write without a journal, at any time.
LEMMA UnjournaledKeeps ==
  ASSUME IInv, NEW b \in Strays, Unjournaled(b)
  PROVE  IInv'
<1>. DEFINE op == [body |-> b, ts |-> Now]
<1>1. Now \in Time /\ b \in Body
  BY AdoptedBodies DEF Now, Time, IInv, TypeOK
<1>2. op \in Op
  BY <1>1 DEF Op
<1>3. /\ graph' = ApplyOp(graph, op) /\ strays' = strays + 1
      /\ UNCHANGED <<journal, cursor, pc, drop, proof, merge, opened, proven, runs>>
  BY DEF Unjournaled
<1>. HIDE DEF op
<1>4. graph' \in Graph
  BY <1>2, <1>3, ApplyOpType DEF IInv, TypeOK
<1>5. strays' \in Nat /\ strays <= strays'
  BY <1>3 DEF IInv, TypeOK
<1>6. TypeOK'
  BY <1>3, <1>4, <1>5 DEF IInv, TypeOK, proof, merge
<1>7. CallInv'
  <2>1. opened <= strays' /\ proven <= strays'
    BY <1>3 DEF IInv, TypeOK, CallInv
  <2>. QED
    BY <1>3, <2>1 DEF IInv, CallInv, ScratchIds, Past, Rows, proof, merge
<1>8. MergeInv'
  BY <1>3, MergeKept DEF IInv, proof, merge
<1>. QED
  BY <1>6, <1>7, <1>8 DEF IInv

\* An adoption begins.
LEMMA OpenKeeps ==
  ASSUME IInv, NEW ids \in Drops, Open(ids)
  PROVE  IInv'
<1>. DEFINE st == Stream(ReplayOf(journal), "node", 0)
<1>1. /\ pc = "idle" /\ pc' = "compare" /\ runs' = runs + 1 /\ drop' = ids
      /\ scratch' = ReplayOf(journal) /\ end' = Len(journal) /\ right' = st /\ opened' = strays
      /\ UNCHANGED <<journal, graph, cursor, kind, after, last, left, found, strays, proven>>
  BY DEF Open, store
<1>2. found = Nothing /\ left = <<>> /\ after = 0 /\ last = FALSE /\ kind = "node"
  BY <1>1 DEF IInv, CallInv
<1>3. journal \in Seq(Op) /\ scratch' \in Graph /\ end' \in Nat
  BY <1>1, ReplayType DEF IInv, TypeOK
<1>4. /\ st \in Seq(Past(scratch', "node", 0))
      /\ Past(scratch', "node", 0) = {st[i] : i \in 1 .. Len(st)}
      /\ Ascending(st)
  BY <1>1, <1>3, Streamed
<1>5. Past(scratch', "node", 0) \subseteq ElementId
  BY <1>3, RowsOf DEF Past
<1>. HIDE DEF st
<1>6. right' \in Seq(ElementId)
  BY <1>1, <1>4, <1>5
<1>7. drop' \subseteq ElementId /\ runs' \in Nat
  BY <1>1, AdoptedDrops DEF IInv, TypeOK
<1>8. TypeOK'
  BY <1>1, <1>3, <1>6, <1>7 DEF IInv, TypeOK
<1>9. CallInv'
  <2>1. found'.live = {}
    BY <1>1, <1>2, NothingType
  <2>2. strays <= strays
    BY DEF IInv, TypeOK
  <2>. QED
    BY <1>1, <2>1, <2>2 DEF IInv, CallInv
<1>10. MergeInv'
  <2>1. left' = <<>> /\ kind' = "node"
    BY <1>1, <1>2
  <2>2. InOrder(left') /\ IdsOf(left') = {}
    BY <2>1 DEF InOrder, IdsOf
  <2>3. Ascending(right') /\ RightIds' = Past(scratch', "node", 0)
    BY <1>1, <1>4 DEF RightIds
  <2>. QED
    BY <2>1, <2>2, <2>3 DEF MergeInv
<1>. QED
  BY <1>8, <1>9, <1>10 DEF IInv

\* The elements of the page that is read next.
PageRead == [i \in 1 .. Len(NextPage) |-> [id |-> NextPage[i], row |-> Rows(graph, kind)[NextPage[i]]]]

\* What is read is a page of live elements, in order, past all that was read.
LEMMA PageFacts ==
  ASSUME IInv, pc = "compare"
  PROVE  /\ PageRead \in Seq(Element)
         /\ InOrder(PageRead)
         /\ IdsOf(PageRead) = {NextPage[i] : i \in 1 .. Len(NextPage)}
         /\ IdsOf(PageRead) \subseteq Past(graph, kind, after)
         /\ Past(graph, kind, after) \subseteq KindId(kind)
         /\ \A y \in IdsOf(PageRead) : Rank[y] > after
         /\ \A y \in IdsOf(left), z \in IdsOf(PageRead) : Rank[y] < Rank[z]
         /\ \A i \in 1 .. Len(PageRead) : PageRead[i].row = Rows(graph, kind)[PageRead[i].id]
<1>. DEFINE ids == Past(graph, kind, after)
<1>1. graph \in Graph /\ kind \in {"node", "edge"} /\ after \in Nat
  BY DEF IInv, TypeOK
<1>2. /\ NextPage \in Seq(ids) /\ Len(NextPage) \in Nat
      /\ \A i, j \in 1 .. Len(NextPage) : i < j => Rank[NextPage[i]] < Rank[NextPage[j]]
  BY <1>1, Paged DEF Ascending
<1>3. \A x \in ids : /\ x \in KindId(kind) /\ x \in ElementId
                     /\ Rows(graph, kind)[x] \in NodeRow \cup EdgeRow
                     /\ Rank[x] \in Nat /\ Rank[x] > after
  BY <1>1, RowsOf DEF Past
<1>. HIDE DEF ids
<1>4. \A i \in 1 .. Len(NextPage) : NextPage[i] \in ids
  BY <1>2
<1>5. \A i \in 1 .. Len(NextPage) :
        [id |-> NextPage[i], row |-> Rows(graph, kind)[NextPage[i]]] \in Element
  BY <1>3, <1>4 DEF Element
<1>6. PageRead \in Seq(Element) /\ Len(PageRead) = Len(NextPage)
  BY <1>2, <1>5 DEF PageRead
<1>7. \A i \in 1 .. Len(PageRead) : /\ PageRead[i].id = NextPage[i]
                                    /\ PageRead[i].row = Rows(graph, kind)[NextPage[i]]
  BY <1>6 DEF PageRead
<1>8. InOrder(PageRead)
  BY <1>2, <1>6, <1>7 DEF InOrder
<1>9. IdsOf(PageRead) = {NextPage[i] : i \in 1 .. Len(NextPage)}
  BY <1>6, <1>7 DEF IdsOf
<1>10. IdsOf(PageRead) \subseteq ids
  BY <1>4, <1>9
<1>11. ASSUME NEW y \in IdsOf(left), NEW z \in IdsOf(PageRead)
       PROVE  Rank[y] < Rank[z]
  <2>1. y \in KindId(kind) /\ Rank[y] <= after
    BY <1>11 DEF IInv, MergeInv
  <2>2. Rank[y] \in Nat
    BY <1>1, <2>1, RowsOf
  <2>3. Rank[z] \in Nat /\ Rank[z] > after
    BY <1>3, <1>10, <1>11
  <2>. QED
    BY <1>1, <2>1, <2>2, <2>3
<1>. QED
  BY <1>3, <1>6, <1>7, <1>8, <1>9, <1>10, <1>11 DEF ids

\* The next page joins what is still to be merged.
LEMMA FetchFacts ==
  ASSUME IInv, FetchPage
  PROVE  /\ pc = "compare" /\ ~last
         /\ left' \in Seq(Element)
         /\ InOrder(left')
         /\ IdsOf(left') = IdsOf(left) \cup IdsOf(PageRead)
         /\ \A i \in 1 .. Len(left') : \/ \E j \in 1 .. Len(left) : left'[i] = left[j]
                                       \/ \E j \in 1 .. Len(PageRead) : left'[i] = PageRead[j]
         /\ after' \in Nat /\ after <= after'
         /\ \A y \in IdsOf(left') : y \in KindId(kind) /\ Rank[y] <= after'
         /\ last' \in BOOLEAN
         /\ Past(graph, kind, after) = IdsOf(PageRead) \cup Past(graph, kind, after')
         /\ last' => Past(graph, kind, after') = {}
         /\ UNCHANGED <<journal, graph, cursor, pc, drop, scratch, end, kind, right, found,
                        strays, opened, proven, runs>>
<1>1. /\ pc = "compare" /\ ~last
      /\ left' = left \o PageRead
      /\ after' = IF NextPage = <<>> THEN after ELSE Rank[NextPage[Len(NextPage)]]
      /\ last' = IsLast(NextPage)
      /\ UNCHANGED <<journal, graph, cursor, pc, drop, scratch, end, kind, right, found,
                     strays, opened, proven, runs>>
  BY DEF FetchPage, PageRead, store, proof
<1>2. graph \in Graph /\ kind \in {"node", "edge"} /\ after \in Nat /\ left \in Seq(Element)
  BY DEF IInv, TypeOK, Element
<1>3. InOrder(left) /\ \A y \in IdsOf(left) : y \in KindId(kind) /\ Rank[y] <= after
  BY <1>1 DEF IInv, MergeInv
<1>4. /\ PageRead \in Seq(Element)
      /\ InOrder(PageRead)
      /\ IdsOf(PageRead) = {NextPage[i] : i \in 1 .. Len(NextPage)}
      /\ IdsOf(PageRead) \subseteq Past(graph, kind, after)
      /\ Past(graph, kind, after) \subseteq KindId(kind)
      /\ \A y \in IdsOf(left), z \in IdsOf(PageRead) : Rank[y] < Rank[z]
  BY <1>1, PageFacts
<1>5. /\ left' \in Seq(Element)
      /\ InOrder(left')
      /\ IdsOf(left') = IdsOf(left) \cup IdsOf(PageRead)
      /\ \A i \in 1 .. Len(left') : \/ \E j \in 1 .. Len(left) : left'[i] = left[j]
                                    \/ \E j \in 1 .. Len(PageRead) : left'[i] = PageRead[j]
  BY <1>1, <1>2, <1>3, <1>4, PageJoined
<1>6. /\ after' \in Nat /\ after <= after'
      /\ \A y \in IdsOf(PageRead) : Rank[y] <= after'
      /\ Past(graph, kind, after) = IdsOf(PageRead) \cup Past(graph, kind, after')
      /\ last' => Past(graph, kind, after') = {}
  <2>1. CASE NextPage = <<>>
    <3>1. Len(NextPage) = 0 /\ Past(graph, kind, after) = {}
      BY <1>2, <2>1, Paged
    <3>2. IdsOf(PageRead) = {} /\ after' = after
      BY <1>1, <1>4, <2>1, <3>1
    <3>. QED
      BY <1>2, <3>1, <3>2
  <2>2. CASE NextPage # <<>>
    <3>. DEFINE reached == Rank[NextPage[Len(NextPage)]]
    <3>1. /\ reached \in Nat /\ reached > after
          /\ \A i \in 1 .. Len(NextPage) : Rank[NextPage[i]] <= reached
          /\ Past(graph, kind, after) =
               {NextPage[i] : i \in 1 .. Len(NextPage)} \cup Past(graph, kind, reached)
          /\ IsLast(NextPage) => Past(graph, kind, reached) = {}
      BY <1>2, <2>2, Paged
    <3>2. after' = reached
      BY <1>1, <2>2
    <3>. HIDE DEF reached
    <3>. QED
      BY <1>1, <1>2, <1>4, <3>1, <3>2
  <2>. QED
    BY <2>1, <2>2
<1>7. \A y \in IdsOf(left') : y \in KindId(kind) /\ Rank[y] <= after'
  <2>1. ASSUME NEW y \in IdsOf(left)
        PROVE  y \in KindId(kind) /\ Rank[y] <= after'
    <3>1. y \in KindId(kind) /\ Rank[y] <= after /\ Rank[y] \in Nat
      BY <1>2, <1>3, <2>1, RowsOf
    <3>. QED
      BY <1>2, <1>6, <3>1
  <2>. QED
    BY <1>4, <1>5, <1>6, <2>1
<1>8. last' \in BOOLEAN
  BY <1>1 DEF IsLast
<1>. QED
  BY <1>1, <1>5, <1>6, <1>7, <1>8

\* A page fetched keeps the merge's order: what was passed by lies before it.
LEMMA FetchKeeps ==
  ASSUME IInv, FetchPage
  PROVE  IInv'
<1>1. /\ pc = "compare" /\ ~last
      /\ left' \in Seq(Element)
      /\ InOrder(left')
      /\ IdsOf(left') = IdsOf(left) \cup IdsOf(PageRead)
      /\ after' \in Nat /\ after <= after'
      /\ \A y \in IdsOf(left') : y \in KindId(kind) /\ Rank[y] <= after'
      /\ last' \in BOOLEAN
      /\ UNCHANGED <<journal, graph, cursor, pc, drop, scratch, end, kind, right, found,
                     strays, opened, proven, runs>>
  BY FetchFacts
<1>2. TypeOK'
  BY <1>1 DEF IInv, TypeOK, Element
<1>3. CallInv'
  BY <1>1 DEF IInv, CallInv, ScratchIds, Past, Rows
<1>4. MergeInv'
  <2>1. /\ Ascending(right)
        /\ RightIds \subseteq Past(scratch, kind, 0)
        /\ \A x \in Past(scratch, kind, 0) \ RightIds :
             /\ last \/ Rank[x] <= after
             /\ \A y \in IdsOf(left) : Rank[x] < Rank[y]
    BY <1>1 DEF IInv, MergeInv
  <2>2. /\ kind' = kind /\ RightIds' = RightIds /\ Ascending(right')
        /\ Past(scratch', kind', 0) = Past(scratch, kind, 0) /\ KindId(kind') = KindId(kind)
    BY <1>1, <2>1 DEF RightIds
  <2>3. scratch \in Graph /\ kind \in {"node", "edge"} /\ after \in Nat
    BY DEF IInv, TypeOK
  <2>4. ASSUME NEW x \in Past(scratch, kind, 0) \ RightIds
        PROVE  Rank[x] <= after' /\ \A y \in IdsOf(left') : Rank[x] < Rank[y]
    <3>1. Rank[x] \in Nat
      BY <2>3, RowsOf DEF Past
    <3>2. Rank[x] <= after /\ \A y \in IdsOf(left) : Rank[x] < Rank[y]
      BY <1>1, <2>1
    <3>3. ASSUME NEW y \in IdsOf(PageRead) PROVE Rank[x] < Rank[y]
      <4>1. Rank[y] > after /\ y \in KindId(kind)
        BY <1>1, PageFacts
      <4>2. Rank[y] \in Nat
        BY <2>3, <4>1, RowsOf
      <4>. QED
        BY <2>3, <3>1, <3>2, <4>1, <4>2
    <3>4. Rank[x] <= after'
      BY <1>1, <2>3, <3>1, <3>2
    <3>. QED
      BY <1>1, <3>2, <3>3, <3>4
  <2>. QED
    BY <1>1, <2>1, <2>2, <2>4 DEF MergeInv
<1>. QED
  BY <1>2, <1>3, <1>4 DEF IInv

\* Ranks are naturals, wherever an id may stand in the merge.
LEMMA MergeRanks ==
  ASSUME IInv, pc = "compare"
  PROVE  /\ graph \in Graph /\ scratch \in Graph /\ kind \in {"node", "edge"} /\ after \in Nat
         /\ left \in Seq(Element) /\ right \in Seq(ElementId) /\ last \in BOOLEAN
         /\ InOrder(left) /\ Ascending(right)
         /\ \A y \in IdsOf(left) : y \in KindId(kind) /\ Rank[y] \in Nat /\ Rank[y] <= after
         /\ \A x \in Past(scratch, kind, 0) : x \in KindId(kind) /\ Rank[x] \in Nat
         /\ \A x \in Past(graph, kind, 0) : x \in KindId(kind) /\ Rank[x] \in Nat
         /\ RightIds \subseteq Past(scratch, kind, 0)
         /\ \A x \in Past(scratch, kind, 0) \ RightIds :
              /\ last \/ Rank[x] <= after
              /\ \A y \in IdsOf(left) : Rank[x] < Rank[y]
<1>1. /\ graph \in Graph /\ scratch \in Graph /\ kind \in {"node", "edge"} /\ after \in Nat
      /\ left \in Seq(Element) /\ right \in Seq(ElementId) /\ last \in BOOLEAN
  BY DEF IInv, TypeOK, Element
<1>2. \A x \in KindId(kind) : Rank[x] \in Nat
  BY <1>1, RowsOf
<1>3. \A x \in Past(scratch, kind, 0) : x \in KindId(kind)
  BY <1>1, RowsOf DEF Past
<1>4. \A x \in Past(graph, kind, 0) : x \in KindId(kind)
  BY <1>1, RowsOf DEF Past
<1>. QED
  BY <1>1, <1>2, <1>3, <1>4 DEF IInv, MergeInv

\* The live head.
LEMMA LeftHead ==
  ASSUME IInv, pc = "compare", left # <<>>
  PROVE  /\ Tail(left) \in Seq(Element) /\ InOrder(Tail(left))
         /\ left[1] \in Element /\ 1 \in 1 .. Len(left)
         /\ left[1].id \in IdsOf(left) /\ left[1].id \in KindId(kind) /\ left[1].id \in ElementId
         /\ IdsOf(Tail(left)) = IdsOf(left) \ {left[1].id}
         /\ \A y \in IdsOf(left) : y = left[1].id \/ Rank[left[1].id] < Rank[y]
         /\ \A i \in 1 .. Len(Tail(left)) : \E j \in 1 .. Len(left) : Tail(left)[i] = left[j]
<1>1. left \in Seq(Element) /\ InOrder(left) /\ \A y \in IdsOf(left) : y \in KindId(kind)
  BY MergeRanks
<1>2. /\ Tail(left) \in Seq(Element) /\ left[1] \in Element
      /\ InOrder(Tail(left))
      /\ 1 \in 1 .. Len(left) /\ left[1].id \in IdsOf(left)
      /\ IdsOf(Tail(left)) = IdsOf(left) \ {left[1].id}
      /\ \A y \in IdsOf(left) : y = left[1].id \/ Rank[left[1].id] < Rank[y]
      /\ \A i \in 1 .. Len(Tail(left)) : \E j \in 1 .. Len(left) : Tail(left)[i] = left[j]
  BY <1>1, HeadTaken
<1>3. left[1].id \in ElementId
  BY <1>2 DEF Element
<1>. QED
  BY <1>1, <1>2, <1>3

\* The scratch head.
LEMMA RightHead ==
  ASSUME IInv, pc = "compare", right # <<>>
  PROVE  /\ Tail(right) \in Seq(ElementId) /\ Ascending(Tail(right))
         /\ right[1] \in RightIds /\ right[1] \in ElementId
         /\ {Tail(right)[i] : i \in 1 .. Len(Tail(right))} = RightIds \ {right[1]}
         /\ \A y \in RightIds : y = right[1] \/ Rank[right[1]] < Rank[y]
BY MergeRanks, FirstTaken DEF RightIds

\* A live head that comes first, or alone, is none that the replay built.
LEMMA OnlyLiveApart ==
  ASSUME IInv, OnlyLive
  PROVE  left[1].id \notin ScratchIds
<1>. DEFINE l == left[1].id
<1>1. pc = "compare" /\ left # <<>> /\ (right # <<>> => Rank[l] < Rank[right[1]])
  BY DEF OnlyLive, HeadsKnown
<1>2. l \in IdsOf(left) /\ l \in KindId(kind) /\ Rank[l] \in Nat
  BY <1>1, LeftHead, MergeRanks
<1>3. l \notin RightIds
  <2>1. ASSUME l \in RightIds PROVE FALSE
    <3>1. right # <<>>
      BY <2>1 DEF RightIds
    <3>2. l = right[1] \/ Rank[right[1]] < Rank[l]
      BY <1>1, <2>1, <3>1, RightHead
    <3>3. right[1] \in RightIds
      BY <1>1, <3>1, RightHead
    <3>4. Rank[right[1]] \in Nat
      BY <1>1, <3>3, MergeRanks
    <3>. QED
      BY <1>1, <1>2, <3>1, <3>2, <3>4
  <2>. QED
    BY <2>1
<1>4. l \notin Past(scratch, kind, 0)
  <2>1. ASSUME l \in Past(scratch, kind, 0) PROVE Rank[l] < Rank[l]
    BY <1>1, <1>2, <1>3, <2>1, MergeRanks
  <2>. QED
    BY <1>2, <2>1
<1>5. /\ scratch \in Graph /\ kind \in {"node", "edge"}
      /\ Past(scratch, "node", 0) \subseteq NodeId /\ Past(scratch, "edge", 0) \subseteq EdgeId
  BY <1>1, MergeRanks, RowsOf DEF Past, KindId
<1>. HIDE DEF l
<1>. QED
  BY <1>2, <1>4, <1>5, AdoptedDrops DEF ScratchIds, KindId, l

\* An element only the live db has.
LEMMA OnlyLiveKeeps ==
  ASSUME IInv, OnlyLive
  PROVE  IInv'
<1>. DEFINE l == left[1].id
<1>1. /\ pc = "compare" /\ left # <<>>
      /\ found' = [found EXCEPT !.live = @ \cup {l}]
      /\ left' = Tail(left)
      /\ UNCHANGED <<journal, graph, cursor, pc, drop, scratch, end, kind, after, last, right,
                     strays, opened, proven, runs>>
  BY DEF OnlyLive, HeadsKnown, store, proof
<1>2. /\ left' \in Seq(Element) /\ InOrder(left')
      /\ l \in ElementId
      /\ IdsOf(left') = IdsOf(left) \ {l}
  BY <1>1, LeftHead
<1>3. l \notin ScratchIds
  BY OnlyLiveApart
<1>. HIDE DEF l
<1>4. /\ found' \in [live: SUBSET ElementId, lacking: SUBSET ElementId, differing: SUBSET ElementId]
      /\ found'.live = found.live \cup {l}
  BY <1>1, <1>2 DEF IInv, TypeOK
<1>5. TypeOK'
  BY <1>1, <1>2, <1>4 DEF IInv, TypeOK, Element
<1>6. CallInv'
  <2>1. ScratchIds' = ScratchIds
    BY <1>1 DEF ScratchIds
  <2>. QED
    BY <1>1, <1>3, <1>4, <2>1 DEF IInv, CallInv
<1>7. MergeInv'
  <2>1. RightIds' = RightIds
    BY <1>1 DEF RightIds
  <2>. QED
    BY <1>1, <1>2, <2>1 DEF IInv, MergeInv
<1>. QED
  BY <1>5, <1>6, <1>7 DEF IInv

\* Taking the scratch head: it lies before every live element still to come.
LEMMA RightTaken ==
  ASSUME IInv, pc = "compare", right # <<>>, right' = Tail(right),
         UNCHANGED <<pc, scratch, kind, after, last>>,
         left' \in Seq(Element), InOrder(left'), IdsOf(left') \subseteq IdsOf(left),
         \A y \in IdsOf(left') : Rank[right[1]] < Rank[y],
         last \/ Rank[right[1]] <= after
  PROVE  MergeInv' /\ right' \in Seq(ElementId)
<1>1. /\ right' \in Seq(ElementId) /\ Ascending(right')
      /\ RightIds' = RightIds \ {right[1]}
  BY RightHead DEF RightIds
<1>2. ASSUME NEW x \in Past(scratch, kind, 0), x \notin RightIds'
      PROVE  /\ last \/ Rank[x] <= after
             /\ \A y \in IdsOf(left') : Rank[x] < Rank[y]
  <2>1. CASE x = right[1]
    BY <2>1
  <2>2. CASE x # right[1]
    <3>1. x \notin RightIds
      BY <1>1, <1>2, <2>2
    <3>. QED
      BY <1>2, <3>1, MergeRanks
  <2>. QED
    BY <2>1, <2>2
<1>3. /\ \A y \in IdsOf(left') : y \in KindId(kind) /\ Rank[y] <= after
      /\ RightIds' \subseteq Past(scratch, kind, 0)
  BY <1>1, MergeRanks
<1>4. Past(scratch', kind', 0) = Past(scratch, kind, 0) /\ KindId(kind') = KindId(kind)
  OBVIOUS
<1>. QED
  BY <1>1, <1>2, <1>3, <1>4 DEF MergeInv

\* An element only the scratch db has.
LEMMA OnlyScratchKeeps ==
  ASSUME IInv, OnlyScratch
  PROVE  IInv'
<1>. DEFINE r == right[1]
<1>1. /\ pc = "compare" /\ right # <<>> /\ (left # <<>> \/ last)
      /\ left # <<>> => Rank[r] < Rank[left[1].id]
      /\ found' = [found EXCEPT !.lacking = @ \cup {r}]
      /\ right' = Tail(right)
      /\ UNCHANGED <<journal, graph, cursor, pc, drop, scratch, end, kind, after, last, left,
                     strays, opened, proven, runs>>
  BY DEF OnlyScratch, HeadsKnown, store, proof
<1>2. r \in RightIds /\ r \in ElementId /\ Rank[r] \in Nat
  BY <1>1, RightHead, MergeRanks
<1>3. /\ found' \in [live: SUBSET ElementId, lacking: SUBSET ElementId, differing: SUBSET ElementId]
      /\ found'.live = found.live
  BY <1>1, <1>2 DEF IInv, TypeOK
<1>4. left' \in Seq(Element) /\ InOrder(left') /\ IdsOf(left') = IdsOf(left)
  BY <1>1, MergeRanks
<1>5. \A y \in IdsOf(left) : Rank[r] < Rank[y]
  <2>1. ASSUME NEW y \in IdsOf(left) PROVE Rank[r] < Rank[y]
    <3>1. left # <<>>
      BY <2>1 DEF IdsOf
    <3>2. y = left[1].id \/ Rank[left[1].id] < Rank[y]
      BY <1>1, <2>1, <3>1, LeftHead
    <3>3. Rank[left[1].id] \in Nat /\ Rank[y] \in Nat
      BY <1>1, <2>1, <3>1, LeftHead, MergeRanks
    <3>. QED
      BY <1>1, <1>2, <3>1, <3>2, <3>3
  <2>. QED
    BY <2>1
<1>6. last \/ Rank[r] <= after
  <2>1. ASSUME left # <<>> PROVE Rank[r] <= after
    <3>1. left[1].id \in IdsOf(left)
      BY <1>1, <2>1, LeftHead
    <3>2. Rank[left[1].id] \in Nat /\ Rank[left[1].id] <= after /\ after \in Nat
      BY <1>1, <3>1, MergeRanks
    <3>. QED
      BY <1>1, <1>2, <2>1, <3>2
  <2>. QED
    BY <1>1, <2>1
<1>7. MergeInv' /\ right' \in Seq(ElementId)
  BY <1>1, <1>4, <1>5, <1>6, RightTaken
<1>8. TypeOK'
  BY <1>1, <1>3, <1>4, <1>7 DEF IInv, TypeOK, Element
<1>9. CallInv'
  <2>1. ScratchIds' = ScratchIds
    BY <1>1 DEF ScratchIds
  <2>. QED
    BY <1>1, <1>3, <2>1 DEF IInv, CallInv
<1>. QED
  BY <1>7, <1>8, <1>9 DEF IInv

\* An element of both.
LEMMA InBothKeeps ==
  ASSUME IInv, InBoth
  PROVE  IInv'
<1>. DEFINE r == right[1]
<1>1. /\ pc = "compare" /\ right # <<>> /\ left # <<>> /\ left[1].id = r
      /\ left' = Tail(left) /\ right' = Tail(right)
      /\ \/ found' = [found EXCEPT !.differing = @ \cup {r}]
         \/ found' = found
      /\ UNCHANGED <<journal, graph, cursor, pc, drop, scratch, end, kind, after, last,
                     strays, opened, proven, runs>>
  BY DEF InBoth, HeadsKnown, store, proof
<1>2. r \in ElementId
  BY <1>1, RightHead
<1>3. /\ found' \in [live: SUBSET ElementId, lacking: SUBSET ElementId, differing: SUBSET ElementId]
      /\ found'.live = found.live
  <2>1. found \in [live: SUBSET ElementId, lacking: SUBSET ElementId, differing: SUBSET ElementId]
    BY DEF IInv, TypeOK
  <2>2. CASE found' = [found EXCEPT !.differing = @ \cup {r}]
    BY <1>2, <2>1, <2>2
  <2>3. CASE found' = found
    BY <2>1, <2>3
  <2>. QED
    BY <1>1, <2>2, <2>3
<1>4. /\ left' \in Seq(Element) /\ InOrder(left')
      /\ r \in IdsOf(left) /\ IdsOf(left') = IdsOf(left) \ {r}
      /\ \A y \in IdsOf(left) : y = r \/ Rank[r] < Rank[y]
  BY <1>1, LeftHead
<1>5. Rank[r] <= after
  BY <1>1, <1>4, MergeRanks
<1>6. MergeInv' /\ right' \in Seq(ElementId)
  BY <1>1, <1>4, <1>5, RightTaken
<1>7. TypeOK'
  BY <1>1, <1>3, <1>4, <1>6 DEF IInv, TypeOK, Element
<1>8. CallInv'
  <2>1. ScratchIds' = ScratchIds
    BY <1>1 DEF ScratchIds
  <2>. QED
    BY <1>1, <1>3, <2>1 DEF IInv, CallInv
<1>. QED
  BY <1>6, <1>7, <1>8 DEF IInv

\* Both streams of a kind have ended.
LEMMA KindComparedKeeps ==
  ASSUME IInv, KindCompared
  PROVE  IInv'
<1>1. /\ pc = "compare" /\ left = <<>> /\ right = <<>>
      /\ UNCHANGED <<journal, graph, cursor, drop, scratch, end, left, found,
                     strays, opened, proven, runs>>
  BY DEF KindCompared, HeadsKnown, store, proof
<1>2. left \in Seq(Element) /\ scratch \in Graph
  BY DEF IInv, TypeOK, Element
<1>3. CASE kind = "node"
  <2>. DEFINE st == Stream(scratch, "edge", 0)
  <2>1. kind' = "edge" /\ after' = 0 /\ last' = FALSE /\ right' = st /\ pc' = pc
    BY <1>3 DEF KindCompared
  <2>2. /\ st \in Seq(Past(scratch, "edge", 0))
        /\ Past(scratch, "edge", 0) = {st[i] : i \in 1 .. Len(st)}
        /\ Ascending(st)
    BY <1>2, Streamed
  <2>3. Past(scratch, "edge", 0) \subseteq ElementId
    BY <1>2, RowsOf DEF Past
  <2>. HIDE DEF st
  <2>4. right' \in Seq(ElementId)
    BY <2>1, <2>2, <2>3
  <2>5. TypeOK'
    BY <1>1, <2>1, <2>4 DEF IInv, TypeOK
  <2>6. CallInv'
    BY <1>1, <2>1 DEF IInv, CallInv, ScratchIds, Past, Rows
  <2>7. MergeInv'
    <3>1. InOrder(left') /\ IdsOf(left') = {}
      BY <1>1 DEF InOrder, IdsOf
    <3>2. Ascending(right') /\ RightIds' = Past(scratch', kind', 0)
      BY <1>1, <2>1, <2>2 DEF RightIds
    <3>. QED
      BY <3>1, <3>2 DEF MergeInv
  <2>. QED
    BY <2>5, <2>6, <2>7 DEF IInv
<1>4. CASE kind # "node"
  <2>1. pc' = "decide" /\ UNCHANGED <<kind, after, last, right>>
    BY <1>4 DEF KindCompared
  <2>2. TypeOK'
    BY <1>1, <2>1 DEF IInv, TypeOK
  <2>3. CallInv'
    BY <1>1, <2>1 DEF IInv, CallInv, ScratchIds, Past, Rows
  <2>4. MergeInv'
    BY <2>1 DEF MergeInv
  <2>. QED
    BY <2>2, <2>3, <2>4 DEF IInv
<1>. QED
  BY <1>3, <1>4

\* The drop list is the elements only the live db has.
LEMMA AcceptKeeps ==
  ASSUME IInv, Accept
  PROVE  IInv'
<1>1. /\ pc' = "edges" /\ found.lacking \cup found.differing = {} /\ drop = found.live
      /\ pc = "decide"
      /\ UNCHANGED <<journal, graph, cursor, drop, scratch, end, kind, after, last, left, right,
                     found, strays, opened, proven, runs>>
  BY DEF Accept, NotProjection, ListMatches, store, proof, merge
<1>2. TypeOK'
  BY <1>1 DEF IInv, TypeOK
<1>3. CallInv'
  BY <1>1 DEF IInv, CallInv, ScratchIds, Past, Rows
<1>4. MergeInv'
  BY <1>1 DEF MergeInv
<1>. QED
  BY <1>2, <1>3, <1>4 DEF IInv

\* The graph without some elements.
LEMMA DropTypes ==
  ASSUME NEW g \in Graph, NEW ids
  PROVE  /\ [g EXCEPT !.edge = [e \in EdgeId |-> IF e \in ids THEN Absent ELSE @[e]]] \in Graph
         /\ [g EXCEPT !.node = [n \in NodeId |-> IF n \in ids THEN Absent ELSE @[n]]] \in Graph
<1>. DEFINE edges == [e \in EdgeId |-> IF e \in ids THEN Absent ELSE g.edge[e]]
            nodes == [n \in NodeId |-> IF n \in ids THEN Absent ELSE g.node[n]]
<1>1. edges \in [EdgeId -> EdgeRow \cup {Absent}] /\ nodes \in [NodeId -> NodeRow \cup {Absent}]
  BY DEF Graph
<1>. HIDE DEF edges, nodes
<1>2. [g EXCEPT !.edge = edges] \in Graph /\ [g EXCEPT !.node = nodes] \in Graph
  BY <1>1 DEF Graph
<1>. QED
  BY <1>2 DEF edges, nodes

\* What is dropped, row by row.
LEMMA DropFacts ==
  ASSUME IInv, DropEdges \/ DropNodes
  PROVE  /\ pc \in {"edges", "nodes"} /\ pc' \in {"nodes", "stamp"}
         /\ graph' \in Graph
         /\ pc = "edges" => /\ pc' = "nodes" /\ graph'.node = graph.node
                            /\ \A e \in EdgeId : graph'.edge[e] = IF e \in found.live THEN Absent
                                                                   ELSE graph.edge[e]
         /\ pc = "nodes" => /\ pc' = "stamp" /\ graph'.edge = graph.edge
                            /\ \A n \in NodeId : graph'.node[n] = IF n \in found.live THEN Absent
                                                                   ELSE graph.node[n]
         /\ UNCHANGED <<journal, cursor, drop, scratch, end, kind, after, last, left, right, found,
                        strays, opened, proven, runs>>
<1>1. graph \in Graph
  BY DEF IInv, TypeOK
<1>2. UNCHANGED <<journal, cursor, drop, scratch, end, kind, after, last, left, right, found,
                  strays, opened, proven, runs>>
  BY DEF DropEdges, DropNodes, proof, merge
<1>3. CASE DropEdges
  <2>1. /\ pc = "edges" /\ pc' = "nodes"
        /\ graph' = [graph EXCEPT !.edge = [e \in EdgeId |-> IF e \in found.live THEN Absent ELSE @[e]]]
    BY <1>3 DEF DropEdges
  <2>2. graph' \in Graph
    BY <1>1, <2>1, DropTypes
  <2>. QED
    BY <1>1, <1>2, <2>1, <2>2 DEF Graph
<1>4. CASE DropNodes
  <2>1. /\ pc = "nodes" /\ pc' = "stamp"
        /\ graph' = [graph EXCEPT !.node = [n \in NodeId |-> IF n \in found.live THEN Absent ELSE @[n]]]
    BY <1>4 DEF DropNodes
  <2>2. graph' \in Graph
    BY <1>1, <2>1, DropTypes
  <2>. QED
    BY <1>1, <1>2, <2>1, <2>2 DEF Graph
<1>. QED
  BY <1>3, <1>4

\* The drops.
LEMMA DropKeeps ==
  ASSUME IInv, DropEdges \/ DropNodes
  PROVE  IInv'
<1>1. /\ pc \in {"edges", "nodes"} /\ pc' \in {"nodes", "stamp"} /\ graph' \in Graph
      /\ UNCHANGED <<journal, cursor, drop, scratch, end, kind, after, last, left, right, found,
                     strays, opened, proven, runs>>
  BY DropFacts
<1>2. TypeOK'
  BY <1>1 DEF IInv, TypeOK
<1>3. CallInv'
  BY <1>1 DEF IInv, CallInv, ScratchIds, Past, Rows
<1>4. MergeInv'
  BY <1>1 DEF MergeInv
<1>. QED
  BY <1>2, <1>3, <1>4 DEF IInv

\* The ends of a call.
LEMMA EndKeeps ==
  ASSUME IInv, Refuse \/ Stamp \/ Crash
  PROVE  IInv'
<1>1. Close /\ UNCHANGED <<journal, graph, strays, runs>>
  BY DEF Refuse, Stamp, Crash, store
<1>2. /\ cursor' \in Nat \cup {Unstamped} /\ (cursor' # Unstamped => cursor' <= Len(journal))
      /\ proven' \in Nat /\ proven' <= strays
  <2>1. CASE Stamp
    <3>1. pc = "stamp" /\ cursor' = end /\ proven' = opened
      BY <2>1 DEF Stamp
    <3>2. end = Len(journal) /\ end \in Nat /\ opened \in Nat /\ opened <= strays
      BY <3>1 DEF IInv, CallInv, TypeOK
    <3>. QED
      BY <3>1, <3>2
  <2>2. CASE Refuse \/ Crash
    <3>1. cursor' = cursor /\ proven' = proven
      BY <2>2 DEF Refuse, Crash, store
    <3>. QED
      BY <3>1 DEF IInv, CallInv, TypeOK
  <2>. QED
    BY <2>1, <2>2
<1>. QED
  BY <1>1, <1>2, Closed

\* Every step keeps it.
LEMMA StepInvariant == IInv /\ [Next]_vars => IInv'
<1>. SUFFICES ASSUME IInv, [Next]_vars PROVE IInv'
  OBVIOUS
<1>1. CASE \E b \in Bodies : Gesture(b)
  BY <1>1, GestureKeeps
<1>2. CASE \E b \in Strays : Unjournaled(b)
  BY <1>2, UnjournaledKeeps
<1>3. CASE \E ids \in Drops : Open(ids)
  BY <1>3, OpenKeeps
<1>4. CASE FetchPage
  BY <1>4, FetchKeeps
<1>5. CASE OnlyLive
  BY <1>5, OnlyLiveKeeps
<1>6. CASE OnlyScratch
  BY <1>6, OnlyScratchKeeps
<1>7. CASE InBoth
  BY <1>7, InBothKeeps
<1>8. CASE KindCompared
  BY <1>8, KindComparedKeeps
<1>9. CASE Accept
  BY <1>9, AcceptKeeps
<1>10. CASE DropEdges \/ DropNodes
  BY <1>10, DropKeeps
<1>11. CASE Refuse \/ Stamp \/ Crash
  BY <1>11, EndKeeps
<1>12. CASE UNCHANGED vars
  <2>1. TypeOK'
    BY <1>12 DEF IInv, TypeOK, vars
  <2>2. CallInv'
    BY <1>12 DEF IInv, CallInv, ScratchIds, Past, Rows, vars
  <2>3. MergeInv'
    BY <1>12, MergeKept DEF IInv, vars
  <2>. QED
    BY <2>1, <2>2, <2>3 DEF IInv
<1>. QED
  BY <1>1, <1>2, <1>3, <1>4, <1>5, <1>6, <1>7, <1>8, <1>9, <1>10, <1>11, <1>12 DEF Next, Adopting

\* An adoption keeps its types, whatever is written beside it.
THEOREM TypeOKHolds == Spec => []TypeOK
<1>1. IInv => TypeOK
  BY DEF IInv
<1>. QED
  BY <1>1, InitInvariant, StepInvariant, PTL DEF Spec

\* A step of an adoption takes out of the live db what its caller named and
\* nothing that the journal builds, whatever was written while it compared: what
\* it found to be the live db's alone lies apart from all of the replay.
THEOREM OnlyNamedDroppedHolds == Spec => OnlyNamedDropped
<1>1. ASSUME IInv, [Next]_vars
      PROVE  [strays' = strays /\ pc \in {"edges", "nodes"} =>
               Beyond(graph, graph') \subseteq drop \cap Beyond(graph, ReplayOf(journal))]_vars
  <2>. SUFFICES ASSUME Next, strays' = strays, pc \in {"edges", "nodes"},
                       NEW x \in Beyond(graph, graph')
                PROVE  x \in drop /\ x \in Beyond(graph, ReplayOf(journal))
    BY <1>1
  <2>1. /\ graph \in Graph /\ scratch \in Graph /\ scratch = ReplayOf(journal)
        /\ found.live = drop /\ found.live \cap ScratchIds = {} /\ strays \in Nat
    BY <1>1 DEF IInv, TypeOK, CallInv
  <2>2. CASE DropEdges \/ DropNodes
    <3>1. /\ pc = "edges" => /\ graph'.node = graph.node
                             /\ \A e \in EdgeId : graph'.edge[e] = IF e \in found.live THEN Absent
                                                                    ELSE graph.edge[e]
          /\ pc = "nodes" => /\ graph'.edge = graph.edge
                             /\ \A n \in NodeId : graph'.node[n] = IF n \in found.live THEN Absent
                                                                    ELSE graph.node[n]
      BY <1>1, <2>2, DropFacts
    <3>2. /\ x \in found.live
          /\ \/ x \in NodeId /\ graph.node[x] # Absent
             \/ x \in EdgeId /\ graph.edge[x] # Absent
      <4>1. CASE x \in NodeId /\ graph.node[x] # Absent /\ graph'.node[x] = Absent
        BY <3>1, <4>1
      <4>2. CASE x \in EdgeId /\ graph.edge[x] # Absent /\ graph'.edge[x] = Absent
        BY <3>1, <4>2
      <4>. QED
        BY <4>1, <4>2 DEF Beyond
    <3>3. x \in NodeId => scratch.node[x] = Absent
      <4>1. ASSUME x \in NodeId, scratch.node[x] # Absent PROVE x \in Past(scratch, "node", 0)
        BY <2>1, <4>1, RowsOf DEF Past, Rows, KindId
      <4>. QED
        BY <2>1, <3>2, <4>1 DEF ScratchIds
    <3>4. x \in EdgeId => scratch.edge[x] = Absent
      <4>1. ASSUME x \in EdgeId, scratch.edge[x] # Absent PROVE x \in Past(scratch, "edge", 0)
        BY <2>1, <4>1, RowsOf DEF Past, Rows, KindId
      <4>. QED
        BY <2>1, <3>2, <4>1 DEF ScratchIds
    <3>. QED
      BY <2>1, <3>2, <3>3, <3>4 DEF Beyond
  <2>3. CASE Crash
    <3>1. graph' = graph
      BY <2>3 DEF Crash, store
    <3>. QED
      BY <3>1 DEF Beyond
  <2>4. CASE \E b \in Strays : Unjournaled(b)
    <3>1. strays' = strays + 1
      BY <2>4 DEF Unjournaled
    <3>. QED
      BY <2>1, <3>1
  <2>5. \/ DropEdges \/ DropNodes \/ Crash
        \/ \E b \in Strays : Unjournaled(b)
    BY DEF Next, Adopting, Gesture, Open, FetchPage, OnlyLive, OnlyScratch, InBoth, KindCompared,
           HeadsKnown, Refuse, Accept, Stamp
  <2>. QED
    BY <2>2, <2>3, <2>4, <2>5
<1>. QED
  BY <1>1, InitInvariant, StepInvariant, PTL DEF Spec, OnlyNamedDropped

-----------------------------------------------------------------------------
(* What the comparison has found, when nothing is written beside it. *)

\* How an element of a kind stands in the live db and in the scratch db.
LiveOnly(k, x) == Rows(graph, k)[x] # Absent /\ Rows(scratch, k)[x] = Absent
ScratchOnly(k, x) == Rows(graph, k)[x] = Absent /\ Rows(scratch, k)[x] # Absent
Shared(k, x) == Rows(graph, k)[x] # Absent /\ Rows(scratch, k)[x] # Absent
Unlike(k, x) == Shared(k, x) /\ Drifts(k, Rows(graph, k)[x], Rows(scratch, k)[x])

\* The differences of a kind are in their buckets.
Exact(k) ==
  \A x \in KindId(k) :
    /\ x \in found.live <=> LiveOnly(k, x)
    /\ x \in found.lacking <=> ScratchOnly(k, x)
    /\ x \in found.differing <=> Unlike(k, x)

\* The live elements of the kind that are still to be merged.
Unread == IdsOf(left) \cup Past(graph, kind, after)

\* They are, as far as the streams are merged, and the streams are together.
ExactSoFar ==
  \A x \in KindId(kind) :
    /\ x \in found.live <=> LiveOnly(kind, x) /\ x \notin Unread
    /\ x \in found.lacking <=> ScratchOnly(kind, x) /\ x \notin RightIds
    /\ x \in found.differing <=> Unlike(kind, x) /\ x \notin Unread
    /\ Shared(kind, x) => (x \in Unread <=> x \in RightIds)

\* A page is read whole: its rows are the live db's, and after the last one none is left.
ReadInv ==
  /\ IdsOf(left) \subseteq Past(graph, kind, 0)
  /\ \A i \in 1 .. Len(left) : left[i].row = Rows(graph, kind)[left[i].id]
  /\ last => Past(graph, kind, after) = {}

ComparedInv ==
  /\ ReadInv
  /\ ExactSoFar
  /\ kind = "node" => (found.live \cup found.lacking \cup found.differing) \cap EdgeId = {}
  /\ kind = "edge" => Exact("node")

\* Where an adoption stands, as long as nothing is written beside it.
ExactInv ==
  strays = opened =>
    /\ pc = "compare" => ComparedInv
    /\ pc \in {"decide", "edges"} => Exact("node") /\ Exact("edge")
    /\ pc = "nodes" => /\ Exact("node")
                       /\ \A e \in EdgeId : SameEdge(graph.edge[e], scratch.edge[e])
    /\ pc = "stamp" => Agrees(graph, scratch)

\* A db that takes journaled writes is behind its journal by one op at most, and no
\* adoption began before the last one that stamped it.
HealInv ==
  /\ pc # "idle" => proven <= opened
  /\ cursor # Unstamped => Len(journal) <= cursor + 1
  /\ CursorIsProven

WholeInv == IInv /\ ExactInv /\ HealInv

\* What a store has of a kind is what its stream is taken from.
LEMMA Present ==
  ASSUME NEW g \in Graph, NEW k \in {"node", "edge"}, NEW x
  PROVE  x \in Past(g, k, 0) <=> x \in KindId(k) /\ Rows(g, k)[x] # Absent
BY RowsOf DEF Past

\* A replay of at most one op, as a heal makes it.
LEMMA HealsOne ==
  ASSUME NEW g \in Graph, NEW s \in Seq(Op), NEW c \in Nat
  PROVE  /\ c = Len(s) => FoldLeft(ApplyOp, g, SubSeq(s, c + 1, Len(s))) = g
         /\ c + 1 = Len(s) =>
              /\ s[Len(s)] \in Op
              /\ FoldLeft(ApplyOp, g, SubSeq(s, c + 1, Len(s))) = ApplyOp(g, s[Len(s)])
<1>1. Len(s) \in Nat
  OBVIOUS
<1>2. ASSUME c = Len(s)
      PROVE  FoldLeft(ApplyOp, g, SubSeq(s, c + 1, Len(s))) = g
  <2>. DEFINE rest == SubSeq(s, c + 1, Len(s))
  <2>1. rest = <<>> /\ rest \in Seq(Op)
    BY <1>1, <1>2, SubSeqEmpty
  <2>. HIDE DEF rest
  <2>2. FoldLeft(ApplyOp, g, rest) = g
    BY <2>1, ReplayLaws
  <2>. QED
    BY <2>2 DEF rest
<1>3. ASSUME c + 1 = Len(s)
      PROVE  /\ s[Len(s)] \in Op
             /\ FoldLeft(ApplyOp, g, SubSeq(s, c + 1, Len(s))) = ApplyOp(g, s[Len(s)])
  <2>. DEFINE rest == SubSeq(s, c + 1, Len(s))
              none == <<>>
              op == s[Len(s)]
  <2>1. op \in Op
    BY <1>1, <1>3
  <2>2. rest = Append(none, op) /\ none \in Seq(Op)
    <3>1. c + 1 \in 1 .. Len(s) /\ Len(s) \in (c + 1) .. Len(s)
      BY <1>1, <1>3
    <3>2. rest = SubSeq(s, c + 1, Len(s) - 1) \o <<s[Len(s)]>>
      BY <3>1, SubSeqRecursiveSecond
    <3>3. SubSeq(s, c + 1, Len(s) - 1) = <<>>
      BY <1>1, <1>3, SubSeqEmpty
    <3>4. none \in Seq(Op)
      OBVIOUS
    <3>. HIDE DEF rest, op
    <3>5. rest = none \o <<op>>
      BY <3>2, <3>3 DEF op
    <3>. HIDE DEF none
    <3>. QED
      BY <2>1, <3>4, <3>5, AppendIsConcat
  <2>3. none = <<>>
    OBVIOUS
  <2>. HIDE DEF rest, none, op
  <2>4. FoldLeft(ApplyOp, g, none) = g
    BY <2>2, <2>3, ReplayLaws
  <2>5. FoldLeft(ApplyOp, g, Append(none, op)) = ApplyOp(FoldLeft(ApplyOp, g, none), op)
    BY <2>1, <2>2, ReplayLaws
  <2>. QED
    BY <2>1, <2>2, <2>4, <2>5 DEF rest, op
<1>. QED
  BY <1>2, <1>3

\* Every run begins so.
LEMMA InitWhole == Init => WholeInv
<1>. SUFFICES ASSUME Init PROVE WholeInv
  OBVIOUS
<1>1. IInv
  BY InitInvariant
<1>2. pc = "idle" /\ cursor = Unstamped
  BY DEF Init
<1>3. ExactInv /\ HealInv
  BY <1>2 DEF ExactInv, HealInv, CursorIsProven
<1>. QED
  BY <1>1, <1>3 DEF WholeInv

\* Steps that change neither db nor journal keep what a heal would make of it.
LEMMA HealKept ==
  ASSUME HealInv, UNCHANGED <<journal, graph, cursor, strays, proven>>,
         pc' # "idle" => proven <= opened'
  PROVE  HealInv'
<1>1. Healed' = Healed /\ ReplayOf(journal)' = ReplayOf(journal)
  BY DEF Healed, ReplayOf
<1>2. CursorIsProven'
  BY <1>1 DEF HealInv, CursorIsProven
<1>. QED
  BY <1>2 DEF HealInv

\* A gesture's op is applied to graphs that agree, now or by the next heal.
LEMMA GestureWhole ==
  ASSUME WholeInv, NEW b \in Bodies, Gesture(b)
  PROVE  ExactInv' /\ HealInv'
<1>1. PICK op \in Op :
        /\ journal' = Append(journal, op)
        /\ \/ graph' = ApplyOp(Healed, op) /\ cursor' = Len(journal) + 1
           \/ graph' = Healed /\ cursor' = Len(journal)
        /\ pc = "idle" /\ cursor # Unstamped
        /\ UNCHANGED <<pc, drop, proof, merge, strays, opened, proven, runs>>
  BY GestureFacts DEF WholeInv
<1>2. /\ Len(journal) \in Nat /\ journal \in Seq(Op) /\ Healed \in Graph
  BY <1>1, HealedType DEF WholeInv
<1>3. /\ journal' \in Seq(Op) /\ Len(journal') = Len(journal) + 1
      /\ journal'[Len(journal')] = op
  BY <1>1, <1>2
<1>4. graph' \in Graph /\ cursor' \in Nat
  BY <1>1, <1>2, ApplyOpType
<1>5. Healed' = ApplyOp(Healed, op)
  <2>1. Healed' = FoldLeft(ApplyOp, graph', SubSeq(journal', cursor' + 1, Len(journal')))
    BY DEF Healed
  <2>2. CASE graph' = ApplyOp(Healed, op) /\ cursor' = Len(journal) + 1
    <3>1. Healed' = graph'
      BY <1>3, <1>4, <2>1, <2>2, HealsOne
    <3>. QED
      BY <2>2, <3>1
  <2>3. CASE graph' = Healed /\ cursor' = Len(journal)
    <3>1. Healed' = ApplyOp(graph', op)
      BY <1>3, <1>4, <2>1, <2>3, HealsOne
    <3>. QED
      BY <2>3, <3>1
  <2>. QED
    BY <1>1, <2>2, <2>3
<1>6. ReplayOf(journal') = ApplyOp(ReplayOf(journal), op) /\ ReplayOf(journal) \in Graph
  BY <1>1, <1>2, EmptyGraphType, ReplayLaws DEF ReplayOf
<1>7. CursorIsProven'
  <2>1. SUFFICES ASSUME strays' = proven'
                 PROVE  Agrees(ApplyOp(Healed, op), ApplyOp(ReplayOf(journal), op))
    BY <1>5, <1>6 DEF CursorIsProven
  <2>2. Agrees(Healed, ReplayOf(journal))
    BY <1>1, <2>1 DEF WholeInv, HealInv, CursorIsProven
  <2>. HIDE DEF Healed, ReplayOf
  <2>. QED
    BY <1>2, <1>6, <2>2, AgreesAfter
<1>8. Len(journal') <= cursor' + 1
  BY <1>1, <1>2, <1>3
<1>9. HealInv'
  BY <1>1, <1>7, <1>8 DEF HealInv
<1>10. ExactInv'
  BY <1>1 DEF ExactInv
<1>. QED
  BY <1>9, <1>10

\* After an unjournaled write nothing is said of the adoption it falls into.
LEMMA UnjournaledWhole ==
  ASSUME WholeInv, NEW b \in Strays, Unjournaled(b)
  PROVE  ExactInv' /\ HealInv'
<1>1. /\ strays' = strays + 1
      /\ UNCHANGED <<journal, cursor, pc, opened, proven>>
  BY DEF Unjournaled
<1>2. /\ strays \in Nat /\ opened \in Nat /\ proven \in Nat
      /\ opened <= strays /\ proven <= strays
  BY DEF WholeInv, IInv, TypeOK, CallInv
<1>3. strays' # opened' /\ strays' # proven'
  BY <1>1, <1>2
<1>4. ExactInv'
  BY <1>3 DEF ExactInv
<1>5. HealInv'
  BY <1>1, <1>3 DEF WholeInv, HealInv, CursorIsProven
<1>. QED
  BY <1>4, <1>5

\* An adoption begins with all of the nodes to merge.
LEMMA OpenWhole ==
  ASSUME WholeInv, NEW ids \in Drops, Open(ids)
  PROVE  ExactInv' /\ HealInv'
<1>. DEFINE st == Stream(ReplayOf(journal), "node", 0)
<1>1. /\ pc = "idle" /\ pc' = "compare"
      /\ scratch' = ReplayOf(journal) /\ right' = st /\ opened' = strays
      /\ UNCHANGED <<journal, graph, cursor, kind, after, last, left, found, strays, proven>>
  BY DEF Open, store
<1>2. found = Nothing /\ left = <<>> /\ after = 0 /\ last = FALSE /\ kind = "node"
  BY <1>1 DEF WholeInv, IInv, CallInv
<1>3. scratch' \in Graph /\ graph \in Graph
  BY <1>1, ReplayType DEF WholeInv, IInv, TypeOK
<1>4. RightIds' = Past(scratch', "node", 0)
  <2>1. Past(scratch', "node", 0) = {st[i] : i \in 1 .. Len(st)}
    BY <1>1, <1>3, Streamed
  <2>. QED
    BY <1>1, <2>1 DEF RightIds
<1>5. IdsOf(left') = {} /\ Unread' = Past(graph, "node", 0)
  <2>1. IdsOf(left') = {}
    BY <1>1, <1>2 DEF IdsOf
  <2>. QED
    BY <1>1, <1>2, <2>1 DEF Unread
<1>6. /\ found'.live = {} /\ found'.lacking = {} /\ found'.differing = {}
      /\ kind' = "node" /\ last' = FALSE /\ left' = <<>>
  BY <1>1, <1>2, NothingType
<1>7. ExactSoFar'
  <2>1. ASSUME NEW x \in KindId("node")
        PROVE  /\ ~LiveOnly("node", x)' \/ x \in Unread'
               /\ ~ScratchOnly("node", x)' \/ x \in RightIds'
               /\ ~Shared("node", x)' \/ (x \in Unread' /\ x \in RightIds')
    <3>1. x \in Unread' <=> Rows(graph, "node")[x] # Absent
      BY <1>3, <1>5, Present
    <3>2. x \in RightIds' <=> Rows(scratch', "node")[x] # Absent
      BY <1>3, <1>4, Present
    <3>. QED
      BY <1>1, <3>1, <3>2 DEF LiveOnly, ScratchOnly, Shared
  <2>. QED
    BY <1>6, <2>1 DEF ExactSoFar, Unlike
<1>8. ReadInv'
  BY <1>5, <1>6 DEF ReadInv
<1>9. ExactInv'
  BY <1>1, <1>6, <1>7, <1>8 DEF ExactInv, ComparedInv
<1>10. HealInv'
  <2>1. proven <= opened'
    BY <1>1 DEF WholeInv, IInv, CallInv
  <2>. QED
    BY <1>1, <2>1, HealKept DEF WholeInv
<1>. QED
  BY <1>9, <1>10

\* The ends of a call: only a stamp says something new, and what it says is known.
LEMMA EndWhole ==
  ASSUME WholeInv, Refuse \/ Stamp \/ Crash
  PROVE  ExactInv' /\ HealInv'
<1>1. pc' = "idle" /\ UNCHANGED <<journal, graph, strays>>
  BY DEF Refuse, Stamp, Crash, Close, store
<1>2. ExactInv'
  BY <1>1 DEF ExactInv
<1>3. CASE Stamp
  <2>1. pc = "stamp" /\ cursor' = end /\ proven' = opened
    BY <1>3 DEF Stamp
  <2>2. scratch = ReplayOf(journal) /\ end = Len(journal) /\ journal \in Seq(Op) /\ graph \in Graph
    BY <2>1 DEF WholeInv, IInv, CallInv, TypeOK
  <2>3. Len(journal) \in Nat
    BY <2>2
  <2>4. Healed' = graph
    <3>1. Healed' = FoldLeft(ApplyOp, graph, SubSeq(journal, cursor' + 1, Len(journal)))
      BY <1>1 DEF Healed
    <3>. QED
      BY <2>1, <2>2, <2>3, <3>1, HealsOne
  <2>5. strays' = proven' => Agrees(graph, ReplayOf(journal))
    BY <1>1, <2>1, <2>2 DEF WholeInv, ExactInv
  <2>6. CursorIsProven'
    BY <1>1, <2>4, <2>5 DEF CursorIsProven, ReplayOf
  <2>7. Len(journal') <= cursor' + 1
    BY <1>1, <2>1, <2>2, <2>3
  <2>. QED
    BY <1>1, <1>2, <2>6, <2>7 DEF HealInv
<1>4. CASE Refuse \/ Crash
  <2>1. UNCHANGED <<cursor, proven>>
    BY <1>4 DEF Refuse, Crash, store
  <2>. QED
    BY <1>1, <1>2, <2>1, HealKept DEF WholeInv
<1>. QED
  BY <1>3, <1>4

\* An unread page joins the unread elements it was among.
LEMMA FetchWhole ==
  ASSUME WholeInv, FetchPage
  PROVE  ExactInv' /\ HealInv'
<1>1. /\ pc = "compare" /\ left' \in Seq(Element)
      /\ IdsOf(left') = IdsOf(left) \cup IdsOf(PageRead)
      /\ \A i \in 1 .. Len(left') : \/ \E j \in 1 .. Len(left) : left'[i] = left[j]
                                    \/ \E j \in 1 .. Len(PageRead) : left'[i] = PageRead[j]
      /\ Past(graph, kind, after) = IdsOf(PageRead) \cup Past(graph, kind, after')
      /\ last' => Past(graph, kind, after') = {}
      /\ UNCHANGED <<journal, graph, cursor, pc, drop, scratch, end, kind, right, found,
                     strays, opened, proven, runs>>
  BY FetchFacts DEF WholeInv
<1>2. graph \in Graph /\ kind \in {"node", "edge"}
  BY DEF WholeInv, IInv, TypeOK
<1>3. /\ IdsOf(PageRead) \subseteq Past(graph, kind, after)
      /\ \A i \in 1 .. Len(PageRead) : PageRead[i].row = Rows(graph, kind)[PageRead[i].id]
  BY <1>1, PageFacts DEF WholeInv
<1>4. HealInv'
  BY <1>1, HealKept DEF WholeInv, HealInv
<1>5. SUFFICES ASSUME strays = opened PROVE ComparedInv'
  BY <1>1, <1>4 DEF ExactInv
<1>6. ComparedInv
  BY <1>1, <1>5 DEF WholeInv, ExactInv
<1>7. Unread' = Unread
  BY <1>1 DEF Unread
<1>8. RightIds' = RightIds
  BY <1>1 DEF RightIds
<1>9. ReadInv'
  <2>1. IdsOf(PageRead) \subseteq Past(graph, kind, 0)
    <3>1. Past(graph, kind, after) \subseteq Past(graph, kind, 0)
      BY <1>2, RowsOf DEF Past
    <3>. QED
      BY <1>3, <3>1
  <2>2. \A i \in 1 .. Len(left') : left'[i].row = Rows(graph, kind)[left'[i].id]
    BY <1>1, <1>3, <1>6 DEF ComparedInv, ReadInv
  <2>. QED
    BY <1>1, <1>6, <2>1, <2>2 DEF ComparedInv, ReadInv
<1>10. ExactSoFar'
  BY <1>1, <1>6, <1>7, <1>8 DEF ComparedInv, ExactSoFar, LiveOnly, ScratchOnly, Shared, Unlike
<1>11. kind' = "edge" => Exact("node")'
  BY <1>1, <1>6 DEF ComparedInv, Exact, LiveOnly, ScratchOnly, Shared, Unlike
<1>. QED
  BY <1>1, <1>6, <1>9, <1>10, <1>11 DEF ComparedInv

\* The live head, as it was read.
LEMMA LeftRead ==
  ASSUME IInv, ReadInv, pc = "compare", left # <<>>,
         left' = Tail(left), UNCHANGED <<graph, kind, after, last>>
  PROVE  /\ left[1].id \in KindId(kind)
         /\ Rows(graph, kind)[left[1].id] # Absent
         /\ left[1].row = Rows(graph, kind)[left[1].id]
         /\ left[1].id \in Unread /\ Unread' = Unread \ {left[1].id}
         /\ ReadInv'
<1>. DEFINE l == left[1].id
<1>1. /\ 1 \in 1 .. Len(left) /\ l \in IdsOf(left) /\ l \in KindId(kind)
      /\ IdsOf(left') = IdsOf(left) \ {l}
      /\ \A i \in 1 .. Len(left') : \E j \in 1 .. Len(left) : left'[i] = left[j]
  BY LeftHead
<1>2. graph \in Graph /\ kind \in {"node", "edge"} /\ after \in Nat /\ Rank[l] \in Nat /\ Rank[l] <= after
  BY <1>1, MergeRanks
<1>3. l \in Past(graph, kind, 0) /\ left[1].row = Rows(graph, kind)[l]
  BY <1>1 DEF ReadInv
<1>4. Rows(graph, kind)[l] # Absent
  BY <1>2, <1>3, Present
<1>. HIDE DEF l
<1>5. l \notin Past(graph, kind, after)
  BY <1>2 DEF Past
<1>6. l \in Unread /\ Unread' = Unread \ {l}
  BY <1>1, <1>5 DEF Unread
<1>7. ReadInv'
  BY <1>1 DEF ReadInv
<1>. QED
  BY <1>1, <1>3, <1>4, <1>6, <1>7 DEF l

\* What a step of the merge finds is of the kind it merges.
LEMMA ComparedNext ==
  ASSUME IInv, ComparedInv, UNCHANGED <<graph, scratch, kind>>, ReadInv', ExactSoFar',
         NEW r \in KindId(kind),
         \A x : x # r => /\ x \in found'.live <=> x \in found.live
                         /\ x \in found'.lacking <=> x \in found.lacking
                         /\ x \in found'.differing <=> x \in found.differing
  PROVE  ComparedInv'
<1>1. ASSUME kind = "node"
      PROVE  (found'.live \cup found'.lacking \cup found'.differing) \cap EdgeId = {}
  <2>1. r \notin EdgeId
    BY <1>1, AdoptedDrops DEF KindId
  <2>. QED
    BY <1>1, <2>1 DEF ComparedInv
<1>2. ASSUME kind = "edge"
      PROVE  Exact("node")'
  <2>1. \A x \in NodeId : x # r
    BY <1>2, AdoptedDrops DEF KindId
  <2>2. Exact("node")
    BY <1>2 DEF ComparedInv
  <2>. QED
    BY <2>1, <2>2 DEF Exact, KindId, LiveOnly, ScratchOnly, Shared, Unlike
<1>. QED
  BY <1>1, <1>2 DEF ComparedInv

\* An element only the live db has goes to its bucket.
LEMMA OnlyLiveWhole ==
  ASSUME WholeInv, OnlyLive
  PROVE  ExactInv' /\ HealInv'
<1>. DEFINE l == left[1].id
<1>1. /\ pc = "compare" /\ left # <<>>
      /\ found' = [found EXCEPT !.live = @ \cup {l}]
      /\ left' = Tail(left)
      /\ UNCHANGED <<journal, graph, cursor, pc, drop, scratch, end, kind, after, last, right,
                     strays, opened, proven, runs>>
  BY DEF OnlyLive, HeadsKnown, store, proof
<1>2. HealInv'
  BY <1>1, HealKept DEF WholeInv, HealInv
<1>3. SUFFICES ASSUME strays = opened PROVE ComparedInv'
  BY <1>1, <1>2 DEF ExactInv
<1>4. IInv /\ ComparedInv
  BY <1>1, <1>3 DEF WholeInv, ExactInv
<1>5. /\ l \in KindId(kind) /\ Rows(graph, kind)[l] # Absent
      /\ l \in Unread /\ Unread' = Unread \ {l}
      /\ ReadInv'
  BY <1>1, <1>4, LeftRead DEF ComparedInv
<1>6. Rows(scratch, kind)[l] = Absent
  <2>1. l \notin Past(scratch, kind, 0)
    BY <1>1, <1>4, OnlyLiveApart, MergeRanks DEF ScratchIds
  <2>. QED
    BY <1>1, <1>4, <1>5, <2>1, Present, MergeRanks
<1>. HIDE DEF l
<1>7. /\ found'.live = found.live \cup {l}
      /\ found'.lacking = found.lacking /\ found'.differing = found.differing
  BY <1>1, <1>4 DEF IInv, TypeOK
<1>8. RightIds' = RightIds
  BY <1>1 DEF RightIds
<1>9. ExactSoFar'
  <2>. SUFFICES ASSUME NEW x \in KindId(kind)
                PROVE  /\ x \in found'.live <=> LiveOnly(kind, x) /\ x \notin Unread'
                       /\ x \in found'.lacking <=> ScratchOnly(kind, x) /\ x \notin RightIds'
                       /\ x \in found'.differing <=> Unlike(kind, x) /\ x \notin Unread'
                       /\ Shared(kind, x) => (x \in Unread' <=> x \in RightIds')
    BY <1>1 DEF ExactSoFar, LiveOnly, ScratchOnly, Shared, Unlike
  <2>1. /\ x \in found.live <=> LiveOnly(kind, x) /\ x \notin Unread
        /\ x \in found.lacking <=> ScratchOnly(kind, x) /\ x \notin RightIds
        /\ x \in found.differing <=> Unlike(kind, x) /\ x \notin Unread
        /\ Shared(kind, x) => (x \in Unread <=> x \in RightIds)
    BY <1>4 DEF ComparedInv, ExactSoFar
  <2>2. LiveOnly(kind, l) /\ ~Shared(kind, l) /\ ~Unlike(kind, l)
    BY <1>5, <1>6 DEF LiveOnly, Shared, Unlike
  <2>3. CASE x = l
    BY <1>5, <1>7, <1>8, <2>1, <2>2, <2>3
  <2>4. CASE x # l
    BY <1>5, <1>7, <1>8, <2>1, <2>4
  <2>. QED
    BY <2>3, <2>4
<1>. QED
  BY <1>1, <1>4, <1>5, <1>7, <1>9, ComparedNext

\* An element only the scratch db has: were it live, its live row would be to come.
LEMMA OnlyScratchWhole ==
  ASSUME WholeInv, OnlyScratch
  PROVE  ExactInv' /\ HealInv'
<1>. DEFINE r == right[1]
<1>1. /\ pc = "compare" /\ right # <<>> /\ (left # <<>> \/ last)
      /\ left # <<>> => Rank[r] < Rank[left[1].id]
      /\ found' = [found EXCEPT !.lacking = @ \cup {r}]
      /\ right' = Tail(right)
      /\ UNCHANGED <<journal, graph, cursor, pc, drop, scratch, end, kind, after, last, left,
                     strays, opened, proven, runs>>
  BY DEF OnlyScratch, HeadsKnown, store, proof
<1>2. HealInv'
  BY <1>1, HealKept DEF WholeInv, HealInv
<1>3. SUFFICES ASSUME strays = opened PROVE ComparedInv'
  BY <1>1, <1>2 DEF ExactInv
<1>4. IInv /\ ComparedInv
  BY <1>1, <1>3 DEF WholeInv, ExactInv
<1>5. /\ r \in RightIds /\ r \in KindId(kind) /\ Rank[r] \in Nat
      /\ r \in Past(scratch, kind, 0)
      /\ RightIds' = RightIds \ {r}
  BY <1>1, <1>4, RightHead, MergeRanks DEF RightIds
<1>6. Rows(scratch, kind)[r] # Absent
  BY <1>1, <1>4, <1>5, Present, MergeRanks
<1>. HIDE DEF r
<1>7. r \notin IdsOf(left)
  <2>1. ASSUME r \in IdsOf(left) PROVE FALSE
    <3>1. left # <<>>
      BY <2>1 DEF IdsOf
    <3>2. r = left[1].id \/ Rank[left[1].id] < Rank[r]
      BY <1>1, <1>4, <2>1, <3>1, LeftHead
    <3>3. Rank[left[1].id] \in Nat
      BY <1>1, <1>4, <3>1, LeftHead, MergeRanks
    <3>. QED
      BY <1>1, <1>5, <3>1, <3>2, <3>3
  <2>. QED
    BY <2>1
<1>8. r \notin Past(graph, kind, after)
  <2>1. CASE left = <<>>
    BY <1>1, <1>4, <2>1 DEF ComparedInv, ReadInv
  <2>2. CASE left # <<>>
    <3>1. Rank[left[1].id] \in Nat /\ Rank[left[1].id] <= after /\ after \in Nat
      BY <1>1, <1>4, <2>2, LeftHead, MergeRanks
    <3>2. Rank[r] <= after
      BY <1>1, <1>5, <2>2, <3>1
    <3>. QED
      BY <1>5, <3>1, <3>2 DEF Past
  <2>. QED
    BY <2>1, <2>2
<1>9. r \notin Unread /\ Unread' = Unread
  BY <1>1, <1>7, <1>8 DEF Unread
<1>10. Rows(graph, kind)[r] = Absent
  <2>1. Shared(kind, r) => (r \in Unread <=> r \in RightIds)
    BY <1>4, <1>5 DEF ComparedInv, ExactSoFar
  <2>. QED
    BY <1>5, <1>6, <1>9, <2>1 DEF Shared
<1>11. /\ found'.lacking = found.lacking \cup {r}
       /\ found'.live = found.live /\ found'.differing = found.differing
  BY <1>1, <1>4 DEF IInv, TypeOK
<1>12. ExactSoFar'
  <2>. SUFFICES ASSUME NEW x \in KindId(kind)
                PROVE  /\ x \in found'.live <=> LiveOnly(kind, x) /\ x \notin Unread'
                       /\ x \in found'.lacking <=> ScratchOnly(kind, x) /\ x \notin RightIds'
                       /\ x \in found'.differing <=> Unlike(kind, x) /\ x \notin Unread'
                       /\ Shared(kind, x) => (x \in Unread' <=> x \in RightIds')
    BY <1>1 DEF ExactSoFar, LiveOnly, ScratchOnly, Shared, Unlike
  <2>1. /\ x \in found.live <=> LiveOnly(kind, x) /\ x \notin Unread
        /\ x \in found.lacking <=> ScratchOnly(kind, x) /\ x \notin RightIds
        /\ x \in found.differing <=> Unlike(kind, x) /\ x \notin Unread
        /\ Shared(kind, x) => (x \in Unread <=> x \in RightIds)
    BY <1>4 DEF ComparedInv, ExactSoFar
  <2>2. ScratchOnly(kind, r) /\ ~Shared(kind, r) /\ ~LiveOnly(kind, r)
    BY <1>6, <1>10 DEF ScratchOnly, LiveOnly, Shared
  <2>3. CASE x = r
    BY <1>5, <1>9, <1>11, <2>1, <2>2, <2>3
  <2>4. CASE x # r
    BY <1>5, <1>9, <1>11, <2>1, <2>4
  <2>. QED
    BY <2>3, <2>4
<1>13. ReadInv'
  BY <1>1, <1>4 DEF ComparedInv, ReadInv
<1>. QED
  BY <1>1, <1>4, <1>5, <1>11, <1>12, <1>13, ComparedNext

\* An element of both is compared by the rows that were read.
LEMMA InBothWhole ==
  ASSUME WholeInv, InBoth
  PROVE  ExactInv' /\ HealInv'
<1>. DEFINE r == right[1]
<1>1. /\ pc = "compare" /\ right # <<>> /\ left # <<>> /\ left[1].id = r
      /\ found' = IF Drifts(kind, left[1].row, Rows(scratch, kind)[r])
                    THEN [found EXCEPT !.differing = @ \cup {r}] ELSE found
      /\ left' = Tail(left) /\ right' = Tail(right)
      /\ UNCHANGED <<journal, graph, cursor, pc, drop, scratch, end, kind, after, last,
                     strays, opened, proven, runs>>
  BY DEF InBoth, HeadsKnown, store, proof
<1>2. HealInv'
  BY <1>1, HealKept DEF WholeInv, HealInv
<1>3. SUFFICES ASSUME strays = opened PROVE ComparedInv'
  BY <1>1, <1>2 DEF ExactInv
<1>4. IInv /\ ComparedInv
  BY <1>1, <1>3 DEF WholeInv, ExactInv
<1>5. /\ r \in KindId(kind) /\ Rows(graph, kind)[r] # Absent
      /\ left[1].row = Rows(graph, kind)[r]
      /\ r \in Unread /\ Unread' = Unread \ {r}
      /\ ReadInv'
  BY <1>1, <1>4, LeftRead DEF ComparedInv
<1>6. r \in RightIds /\ r \in Past(scratch, kind, 0) /\ RightIds' = RightIds \ {r}
  BY <1>1, <1>4, RightHead, MergeRanks DEF RightIds
<1>7. Rows(scratch, kind)[r] # Absent
  BY <1>1, <1>4, <1>6, Present, MergeRanks
<1>8. Shared(kind, r) /\ ~LiveOnly(kind, r) /\ ~ScratchOnly(kind, r)
  BY <1>5, <1>7 DEF Shared, LiveOnly, ScratchOnly
<1>9. /\ found'.live = found.live /\ found'.lacking = found.lacking
      /\ found'.differing = IF Unlike(kind, r) THEN found.differing \cup {r} ELSE found.differing
  <2>1. found \in [live: SUBSET ElementId, lacking: SUBSET ElementId, differing: SUBSET ElementId]
    BY <1>4 DEF IInv, TypeOK
  <2>2. Unlike(kind, r) <=> Drifts(kind, left[1].row, Rows(scratch, kind)[r])
    BY <1>5, <1>8 DEF Unlike
  <2>3. CASE Unlike(kind, r)
    <3>1. found' = [found EXCEPT !.differing = @ \cup {r}]
      BY <1>1, <2>2, <2>3
    <3>. HIDE DEF r
    <3>. QED
      BY <2>1, <2>3, <3>1
  <2>4. CASE ~Unlike(kind, r)
    <3>1. found' = found
      BY <1>1, <2>2, <2>4
    <3>. QED
      BY <2>4, <3>1
  <2>. QED
    BY <2>3, <2>4
<1>. HIDE DEF r
<1>10. ExactSoFar'
  <2>. SUFFICES ASSUME NEW x \in KindId(kind)
                PROVE  /\ x \in found'.live <=> LiveOnly(kind, x) /\ x \notin Unread'
                       /\ x \in found'.lacking <=> ScratchOnly(kind, x) /\ x \notin RightIds'
                       /\ x \in found'.differing <=> Unlike(kind, x) /\ x \notin Unread'
                       /\ Shared(kind, x) => (x \in Unread' <=> x \in RightIds')
    BY <1>1 DEF ExactSoFar, LiveOnly, ScratchOnly, Shared, Unlike
  <2>1. /\ x \in found.live <=> LiveOnly(kind, x) /\ x \notin Unread
        /\ x \in found.lacking <=> ScratchOnly(kind, x) /\ x \notin RightIds
        /\ x \in found.differing <=> Unlike(kind, x) /\ x \notin Unread
        /\ Shared(kind, x) => (x \in Unread <=> x \in RightIds)
    BY <1>4 DEF ComparedInv, ExactSoFar
  <2>2. CASE x = r
    BY <1>5, <1>6, <1>8, <1>9, <2>1, <2>2
  <2>3. CASE x # r
    BY <1>5, <1>6, <1>9, <2>1, <2>3
  <2>. QED
    BY <2>2, <2>3
<1>11. \A x : x # r => /\ x \in found'.live <=> x \in found.live
                       /\ x \in found'.lacking <=> x \in found.lacking
                       /\ x \in found'.differing <=> x \in found.differing
  BY <1>9
<1>. QED
  BY <1>1, <1>4, <1>5, <1>10, <1>11, ComparedNext

\* A kind whose streams have ended is compared exactly.
LEMMA KindComparedWhole ==
  ASSUME WholeInv, KindCompared
  PROVE  ExactInv' /\ HealInv'
<1>1. /\ pc = "compare" /\ left = <<>> /\ right = <<>> /\ last
      /\ UNCHANGED <<journal, graph, cursor, drop, scratch, end, left, found,
                     strays, opened, proven, runs>>
  BY DEF KindCompared, HeadsKnown, store, proof
<1>2. graph \in Graph /\ scratch \in Graph /\ kind \in {"node", "edge"}
  BY DEF WholeInv, IInv, TypeOK
<1>3. HealInv'
  BY <1>1, HealKept DEF WholeInv, HealInv
<1>4. SUFFICES ASSUME strays = opened
               PROVE  /\ pc' = "compare" => ComparedInv'
                      /\ pc' # "compare" => pc' = "decide" /\ Exact("node")' /\ Exact("edge")'
  BY <1>1, <1>3 DEF ExactInv
<1>5. ComparedInv
  BY <1>1, <1>4 DEF WholeInv, ExactInv
<1>6. IdsOf(left) = {} /\ Unread = {} /\ RightIds = {}
  <2>1. IdsOf(left) = {} /\ RightIds = {}
    BY <1>1 DEF IdsOf, RightIds
  <2>2. Past(graph, kind, after) = {}
    BY <1>1, <1>5 DEF ComparedInv, ReadInv
  <2>. QED
    BY <2>1, <2>2 DEF Unread
<1>7. Exact(kind)
  BY <1>5, <1>6 DEF ComparedInv, ExactSoFar, Exact
<1>8. \A k : Exact(k) => Exact(k)'
  BY <1>1 DEF Exact, LiveOnly, ScratchOnly, Shared, Unlike
<1>9. CASE kind = "node"
  <2>. DEFINE st == Stream(scratch, "edge", 0)
  <2>1. kind' = "edge" /\ after' = 0 /\ last' = FALSE /\ right' = st /\ pc' = "compare"
    BY <1>1, <1>9 DEF KindCompared
  <2>2. RightIds' = Past(scratch, "edge", 0)
    <3>1. Past(scratch, "edge", 0) = {st[i] : i \in 1 .. Len(st)}
      BY <1>2, Streamed
    <3>. QED
      BY <2>1, <3>1 DEF RightIds
  <2>3. IdsOf(left') = {} /\ Unread' = Past(graph, "edge", 0)
    <3>1. IdsOf(left') = {}
      BY <1>1 DEF IdsOf
    <3>. QED
      BY <1>1, <2>1, <3>1 DEF Unread
  <2>4. ExactSoFar'
    <3>1. ASSUME NEW x \in KindId("edge")
          PROVE  /\ x \notin found'.live /\ x \notin found'.lacking /\ x \notin found'.differing
                 /\ ~LiveOnly("edge", x)' \/ x \in Unread'
                 /\ ~ScratchOnly("edge", x)' \/ x \in RightIds'
                 /\ ~Shared("edge", x)' \/ (x \in Unread' /\ x \in RightIds')
      <4>1. x \in Unread' <=> Rows(graph, "edge")[x] # Absent
        BY <1>2, <2>3, Present
      <4>2. x \in RightIds' <=> Rows(scratch, "edge")[x] # Absent
        BY <1>2, <2>2, Present
      <4>3. x \notin found.live /\ x \notin found.lacking /\ x \notin found.differing
        BY <1>5, <1>9 DEF ComparedInv, KindId
      <4>. QED
        BY <1>1, <4>1, <4>2, <4>3 DEF LiveOnly, ScratchOnly, Shared
    <3>. QED
      BY <2>1, <3>1 DEF ExactSoFar, Unlike
  <2>5. ReadInv'
    BY <1>1, <2>1, <2>3 DEF ReadInv
  <2>6. Exact("node")'
    BY <1>7, <1>8, <1>9
  <2>. QED
    BY <2>1, <2>4, <2>5, <2>6 DEF ComparedInv
<1>10. CASE kind = "edge"
  <2>1. pc' = "decide"
    BY <1>10 DEF KindCompared
  <2>2. Exact("node") /\ Exact("edge")
    BY <1>5, <1>7, <1>10 DEF ComparedInv
  <2>. QED
    BY <1>8, <2>1, <2>2
<1>. QED
  BY <1>2, <1>9, <1>10

\* A comparison that is let pass has found exactly the difference there is.
LEMMA AcceptWhole ==
  ASSUME WholeInv, Accept
  PROVE  ExactInv' /\ HealInv'
<1>1. /\ pc = "decide" /\ pc' = "edges"
      /\ UNCHANGED <<journal, graph, cursor, drop, scratch, end, kind, after, last, left, right,
                     found, strays, opened, proven, runs>>
  BY DEF Accept, store, proof, merge
<1>2. HealInv'
  BY <1>1, HealKept DEF WholeInv, HealInv
<1>3. \A k : Exact(k) => Exact(k)'
  BY <1>1 DEF Exact, LiveOnly, ScratchOnly, Shared, Unlike
<1>4. ExactInv'
  BY <1>1, <1>3 DEF WholeInv, ExactInv
<1>. QED
  BY <1>2, <1>4

\* A db that its next heal makes the journal's projection stays so, where nodes that
\* the projection has not are gone from it already and its edges are the projection's.
LEMMA HealsAnyway ==
  ASSUME NEW g \in Graph, NEW h \in Graph, NEW j \in Graph, NEW op \in Op,
         Agrees(ApplyOp(g, op), j),
         \A n \in NodeId : \/ h.node[n] = g.node[n]
                           \/ h.node[n] = Absent /\ j.node[n] = Absent,
         \A e \in EdgeId : SameEdge(h.edge[e], j.edge[e])
  PROVE  Agrees(ApplyOp(h, op), j)
<1>1. ApplyOp(g, op) \in Graph /\ ApplyOp(h, op) \in Graph
  BY ApplyOpType
<1>2. /\ \A n \in NodeId : SameNode(ApplyOp(g, op).node[n], j.node[n])
      /\ \A e \in EdgeId : SameEdge(ApplyOp(g, op).edge[e], j.edge[e])
  BY <1>1, AgreesByRow
<1>3. ASSUME NEW n \in NodeId
      PROVE  SameNode(ApplyOp(h, op).node[n], j.node[n])
  <2>1. /\ ApplyOp(g, op).node[n] = RowAfter(g.node[n], op, n)
        /\ ApplyOp(h, op).node[n] = RowAfter(h.node[n], op, n)
    BY ApplyRows
  <2>2. SameNode(RowAfter(g.node[n], op, n), j.node[n])
    BY <1>2, <2>1
  <2>3. CASE h.node[n] = g.node[n]
    BY <2>1, <2>2, <2>3
  <2>4. CASE h.node[n] = Absent /\ j.node[n] = Absent
    <3>1. g.node[n] \in NodeRow \cup {Absent} /\ h.node[n] \in NodeRow \cup {Absent}
      BY DEF Graph
    <3>2. RowAfter(g.node[n], op, n) = Absent
      BY <2>2, <2>4 DEF SameNode
    <3>3. RowAfter(h.node[n], op, n) = Absent
      BY <2>4, <3>1, <3>2, RowPresence
    <3>. QED
      BY <2>1, <2>4, <3>3, SameReflexive
  <2>. QED
    BY <2>3, <2>4
<1>4. ASSUME NEW e \in EdgeId
      PROVE  SameEdge(ApplyOp(h, op).edge[e], j.edge[e])
  <2>1. SameEdge(h.edge[e], j.edge[e]) /\ SameEdge(ApplyOp(g, op).edge[e], j.edge[e])
    BY <1>2
  <2>2. CASE ~Cuts(op, e)
    <3>1. /\ ApplyOp(g, op).edge[e] = IF Links(op, e) /\ g.edge[e] = Absent
                                        THEN [created |-> op.ts] ELSE g.edge[e]
          /\ ApplyOp(h, op).edge[e] = IF Links(op, e) /\ h.edge[e] = Absent
                                        THEN [created |-> op.ts] ELSE h.edge[e]
      BY <2>2, ApplyRows
    <3>2. Links(op, e) => h.edge[e] # Absent
      <4>1. [created |-> op.ts] # Absent
        BY BodyByVerb, AbsentIsNoRow DEF EdgeRow
      <4>2. Links(op, e) => ApplyOp(g, op).edge[e] # Absent
        BY <3>1, <4>1
      <4>. QED
        BY <2>1, <4>2 DEF SameEdge
    <3>. QED
      BY <2>1, <3>1, <3>2
  <2>3. CASE Cuts(op, e)
    <3>. DEFINE Taking(f) == \/ Deletes(op, Source[e]) /\ f.node[Source[e]] # Absent
                             \/ Deletes(op, Target[e]) /\ f.node[Target[e]] # Absent
    <3>1. /\ ApplyOp(g, op).edge[e] = IF Taking(g) THEN Absent ELSE g.edge[e]
          /\ ApplyOp(h, op).edge[e] = IF Taking(h) THEN Absent ELSE h.edge[e]
      BY <2>3, ApplyRows
    <3>2. Taking(h) => Taking(g)
      <4>1. Source[e] \in NodeId /\ Target[e] \in NodeId
        BY EdgeEndpoints
      <4>. QED
        BY <4>1
    <3>. HIDE DEF Taking
    <3>3. CASE Taking(h)
      <4>1. ApplyOp(g, op).edge[e] = Absent /\ ApplyOp(h, op).edge[e] = Absent
        BY <3>1, <3>2, <3>3
      <4>. QED
        BY <2>1, <4>1
    <3>4. CASE ~Taking(h)
      BY <2>1, <3>1, <3>4
    <3>. QED
      BY <3>3, <3>4
  <2>. QED
    BY <2>2, <2>3
<1>. QED
  BY <1>1, <1>3, <1>4, AgreesByRow

\* The drops leave what the replay built, and nothing that a heal would not delete.
LEMMA DropWhole ==
  ASSUME WholeInv, DropEdges \/ DropNodes
  PROVE  ExactInv' /\ HealInv'
<1>1. /\ pc \in {"edges", "nodes"} /\ pc' \in {"nodes", "stamp"}
      /\ graph' \in Graph
      /\ pc = "edges" => /\ pc' = "nodes" /\ graph'.node = graph.node
                         /\ \A e \in EdgeId : graph'.edge[e] = IF e \in found.live THEN Absent
                                                                ELSE graph.edge[e]
      /\ pc = "nodes" => /\ pc' = "stamp" /\ graph'.edge = graph.edge
                         /\ \A n \in NodeId : graph'.node[n] = IF n \in found.live THEN Absent
                                                                ELSE graph.node[n]
      /\ UNCHANGED <<journal, cursor, drop, scratch, end, kind, after, last, left, right, found,
                     strays, opened, proven, runs>>
  BY DropFacts DEF WholeInv
<1>2. /\ graph \in Graph /\ scratch \in Graph /\ journal \in Seq(Op) /\ scratch = ReplayOf(journal)
      /\ found.lacking \cup found.differing = {}
      /\ strays \in Nat /\ opened \in Nat /\ proven \in Nat /\ opened <= strays
      /\ cursor \in Nat \cup {Unstamped}
  BY <1>1 DEF WholeInv, IInv, TypeOK, CallInv
<1>3. ASSUME strays = opened, pc = "edges", NEW e \in EdgeId
      PROVE  SameEdge(graph'.edge[e], scratch.edge[e])
  <2>1. /\ e \in found.live <=> LiveOnly("edge", e)
        /\ e \in found.lacking <=> ScratchOnly("edge", e)
        /\ e \in found.differing <=> Unlike("edge", e)
    BY <1>3 DEF WholeInv, ExactInv, Exact, KindId
  <2>. QED
    BY <1>1, <1>2, <1>3, <2>1 DEF LiveOnly, ScratchOnly, Unlike, Shared, Rows, SameEdge
<1>4. ASSUME strays = opened, pc = "nodes", NEW n \in NodeId
      PROVE  /\ SameNode(graph'.node[n], scratch.node[n])
             /\ n \in found.live => scratch.node[n] = Absent
  <2>1. /\ n \in found.live <=> LiveOnly("node", n)
        /\ n \in found.lacking <=> ScratchOnly("node", n)
        /\ n \in found.differing <=> Unlike("node", n)
    BY <1>4 DEF WholeInv, ExactInv, Exact, KindId
  <2>. QED
    BY <1>1, <1>2, <1>4, <2>1 DEF LiveOnly, ScratchOnly, Unlike, Shared, Rows, SameNode
<1>5. ASSUME strays = opened, NEW e \in EdgeId
      PROVE  SameEdge(graph'.edge[e], scratch.edge[e])
  <2>1. CASE pc = "edges"
    BY <1>3, <1>5, <2>1
  <2>2. CASE pc = "nodes"
    BY <1>1, <1>5, <2>2 DEF WholeInv, ExactInv
  <2>. QED
    BY <1>1, <2>1, <2>2
<1>6. strays = opened /\ pc = "nodes" => Agrees(graph', scratch)
  BY <1>1, <1>2, <1>4, <1>5, AgreesByRow
<1>7. ExactInv'
  <2>1. CASE pc = "edges"
    <3>1. Exact("node") => Exact("node")'
      BY <1>1, <2>1 DEF Exact, LiveOnly, ScratchOnly, Shared, Unlike, Rows
    <3>. QED
      BY <1>1, <1>5, <2>1, <3>1 DEF WholeInv, ExactInv
  <2>2. CASE pc = "nodes"
    BY <1>1, <1>6, <2>2 DEF ExactInv
  <2>. QED
    BY <1>1, <2>1, <2>2
<1>8. CursorIsProven'
  <2>. SUFFICES ASSUME cursor # Unstamped, strays = proven
                PROVE  Agrees(Healed', scratch)
    BY <1>1, <1>2 DEF CursorIsProven, ReplayOf
  <2>1. strays = opened
    <3>1. proven <= opened
      BY <1>1 DEF WholeInv, HealInv
    <3>. QED
      BY <1>2, <3>1
  <2>2. Agrees(Healed, scratch) /\ Len(journal) <= cursor + 1
    BY <1>2 DEF WholeInv, HealInv, CursorIsProven
  <2>3. cursor \in Nat /\ cursor \in 0 .. Len(journal) /\ Len(journal) \in Nat
    BY HealedType DEF WholeInv
  <2>4. Healed' = FoldLeft(ApplyOp, graph', SubSeq(journal, cursor + 1, Len(journal)))
    BY <1>1 DEF Healed
  <2>5. \A n \in NodeId : \/ graph'.node[n] = graph.node[n]
                          \/ graph'.node[n] = Absent /\ scratch.node[n] = Absent
    BY <1>1, <1>4, <2>1
  <2>6. CASE cursor = Len(journal)
    <3>1. Healed = graph
      BY <1>2, <2>3, <2>6, HealsOne DEF Healed
    <3>2. Healed' = graph'
      BY <1>1, <1>2, <2>3, <2>4, <2>6, HealsOne
    <3>3. \A n \in NodeId : SameNode(graph.node[n], scratch.node[n])
      BY <1>2, <2>2, <3>1, AgreesByRow
    <3>4. \A n \in NodeId : SameNode(graph'.node[n], scratch.node[n])
      BY <2>5, <3>3, SameReflexive
    <3>. QED
      BY <1>1, <1>2, <1>5, <2>1, <3>2, <3>4, AgreesByRow
  <2>7. CASE cursor + 1 = Len(journal)
    <3>. DEFINE op == journal[Len(journal)]
    <3>1. op \in Op /\ Healed = ApplyOp(graph, op)
      BY <1>2, <2>3, <2>7, HealsOne DEF Healed
    <3>2. Healed' = ApplyOp(graph', op)
      BY <1>1, <1>2, <2>3, <2>4, <2>7, HealsOne
    <3>. HIDE DEF op
    <3>. QED
      BY <1>1, <1>2, <1>5, <2>1, <2>2, <2>5, <3>1, <3>2, HealsAnyway
  <2>. QED
    BY <2>2, <2>3, <2>6, <2>7
<1>9. HealInv'
  BY <1>1, <1>8 DEF WholeInv, HealInv
<1>. QED
  BY <1>7, <1>9

\* Every step keeps it.
LEMMA StepWhole == WholeInv /\ [Next]_vars => WholeInv'
<1>. SUFFICES ASSUME WholeInv, [Next]_vars PROVE WholeInv'
  OBVIOUS
<1>1. IInv'
  BY StepInvariant DEF WholeInv
<1>. SUFFICES ExactInv' /\ HealInv'
  BY <1>1 DEF WholeInv
<1>2. CASE \E b \in Bodies : Gesture(b)
  BY <1>2, GestureWhole
<1>3. CASE \E b \in Strays : Unjournaled(b)
  BY <1>3, UnjournaledWhole
<1>4. CASE \E ids \in Drops : Open(ids)
  BY <1>4, OpenWhole
<1>5. CASE FetchPage
  BY <1>5, FetchWhole
<1>6. CASE OnlyLive
  BY <1>6, OnlyLiveWhole
<1>7. CASE OnlyScratch
  BY <1>7, OnlyScratchWhole
<1>8. CASE InBoth
  BY <1>8, InBothWhole
<1>9. CASE KindCompared
  BY <1>9, KindComparedWhole
<1>10. CASE Accept
  BY <1>10, AcceptWhole
<1>11. CASE DropEdges \/ DropNodes
  BY <1>11, DropWhole
<1>12. CASE Refuse \/ Stamp \/ Crash
  BY <1>12, EndWhole
<1>13. CASE UNCHANGED vars
  <2>1. HealInv'
    BY <1>13, HealKept DEF WholeInv, HealInv, vars
  <2>2. \A k : Exact(k) => Exact(k)'
    BY <1>13 DEF Exact, LiveOnly, ScratchOnly, Shared, Unlike, vars
  <2>3. ReadInv => ReadInv'
    BY <1>13 DEF ReadInv, IdsOf, vars
  <2>4. ExactSoFar => ExactSoFar'
    BY <1>13 DEF ExactSoFar, Unread, RightIds, LiveOnly, ScratchOnly, Shared, Unlike, vars
  <2>5. ComparedInv => ComparedInv'
    BY <1>13, <2>2, <2>3, <2>4 DEF ComparedInv, vars
  <2>6. ExactInv'
    BY <1>13, <2>2, <2>5 DEF WholeInv, ExactInv, vars
  <2>. QED
    BY <2>1, <2>6
<1>. QED
  BY <1>2, <1>3, <1>4, <1>5, <1>6, <1>7, <1>8, <1>9, <1>10, <1>11, <1>12, <1>13 DEF Next, Adopting

\* Whatever is written between adoptions or crashes them, a db whose cursor an
\* adoption stamped is, once healed, its journal's projection, until an unjournaled
\* write.
THEOREM CursorIsProvenHolds == Spec => []CursorIsProven
<1>1. WholeInv => CursorIsProven
  BY DEF WholeInv, HealInv
<1>. QED
  BY <1>1, InitWhole, StepWhole, PTL DEF Spec

\* When nothing is written beside it, the paged merge of an adoption has found the
\* whole difference of the two dbs, and nothing else.
THEOREM DiffIsExactHolds == Spec => []DiffIsExact
<1>1. ASSUME WholeInv PROVE DiffIsExact
  <2>. SUFFICES ASSUME pc = "decide", strays = opened
                PROVE  found = [live      |-> Beyond(graph, scratch),
                                lacking   |-> Beyond(scratch, graph),
                                differing |-> Otherwise(graph, scratch)]
    BY DEF DiffIsExact
  <2>1. /\ found \in [live: SUBSET ElementId, lacking: SUBSET ElementId, differing: SUBSET ElementId]
        /\ Exact("node") /\ Exact("edge")
    BY <1>1 DEF WholeInv, IInv, TypeOK, ExactInv
  <2>2. \A n \in NodeId :
          /\ n \in found.live <=> graph.node[n] # Absent /\ scratch.node[n] = Absent
          /\ n \in found.lacking <=> scratch.node[n] # Absent /\ graph.node[n] = Absent
          /\ n \in found.differing <=> /\ graph.node[n] # Absent /\ scratch.node[n] # Absent
                                       /\ Drifts("node", graph.node[n], scratch.node[n])
    BY <2>1 DEF Exact, KindId, Rows, LiveOnly, ScratchOnly, Shared, Unlike
  <2>3. \A e \in EdgeId :
          /\ e \in found.live <=> graph.edge[e] # Absent /\ scratch.edge[e] = Absent
          /\ e \in found.lacking <=> scratch.edge[e] # Absent /\ graph.edge[e] = Absent
          /\ e \in found.differing <=> /\ graph.edge[e] # Absent /\ scratch.edge[e] # Absent
                                       /\ Drifts("edge", graph.edge[e], scratch.edge[e])
    BY <2>1 DEF Exact, KindId, Rows, LiveOnly, ScratchOnly, Shared, Unlike
  <2>4. /\ \A x \in found.live : x \in NodeId \/ x \in EdgeId
        /\ \A x \in found.lacking : x \in NodeId \/ x \in EdgeId
        /\ \A x \in found.differing : x \in NodeId \/ x \in EdgeId
    BY <2>1 DEF ElementId
  <2>5. found.live = Beyond(graph, scratch)
    BY <2>2, <2>3, <2>4 DEF Beyond
  <2>6. found.lacking = Beyond(scratch, graph)
    BY <2>2, <2>3, <2>4 DEF Beyond
  <2>7. found.differing = Otherwise(graph, scratch)
    BY <2>2, <2>3, <2>4 DEF Otherwise
  <2>. QED
    BY <2>1, <2>5, <2>6, <2>7
<1>. QED
  BY <1>1, InitWhole, StepWhole, PTL DEF Spec

=============================================================================
