-------------------------- MODULE SpineEditsProofs --------------------------
(***************************************************************************)
(* What the projection of spine edits keeps, for every spine, every text   *)
(* and every log of decisions: the words of a text are a fold that reads   *)
(* two texts with a gap between them one after the other, the order of the *)
(* decisions is one, and a decision added to it adds its effect only.      *)
(* GraphStoreProofs holds the laws of folds; the store has no part here.   *)
(***************************************************************************)
EXTENDS SpineEdits, GraphStoreProofs, FiniteSetTheorems

Character == Letter \cup {Gap}

-----------------------------------------------------------------------------
(* Blanks at the ends of a text. *)

\* A sequence cut in two.
LEMMA CutInTwo ==
  ASSUME NEW X, NEW t \in Seq(X), NEW n \in 0 .. Len(t)
  PROVE  LET a == SubSeq(t, 1, n)
             b == SubSeq(t, n + 1, Len(t))
         IN  /\ a \in Seq(X) /\ Len(a) = n /\ \A i \in 1 .. n : a[i] = t[i]
             /\ b \in Seq(X) /\ Len(b) = Len(t) - n /\ \A i \in 1 .. Len(t) - n : b[i] = t[n + i]
             /\ t = a \o b
<1>. DEFINE a == SubSeq(t, 1, n)
            b == SubSeq(t, n + 1, Len(t))
<1>0. Len(t) \in Nat
  OBVIOUS
<1>1. a \in Seq(X) /\ Len(a) = n /\ \A i \in 1 .. n : a[i] = t[i]
  BY FirstPart
<1>2. b \in Seq(X) /\ Len(b) = Len(t) - n /\ \A i \in 1 .. Len(t) - n : b[i] = t[n + i]
  BY LastPart
<1>. HIDE DEF a, b
<1>3. a \o b \in Seq(X) /\ Len(a \o b) = Len(t)
  BY <1>0, <1>1, <1>2
<1>4. ASSUME NEW i \in 1 .. Len(t)
      PROVE  (a \o b)[i] = t[i]
  <2>1. CASE i <= n
    BY <1>0, <1>1, <1>2, <2>1
  <2>2. CASE ~ (i <= n)
    <3>1. i - n \in 1 .. Len(t) - n /\ n + (i - n) = i
      BY <1>0, <2>2
    <3>2. (a \o b)[i] = b[i - n]
      BY <1>0, <1>1, <1>2, <2>2
    <3>. QED
      BY <1>2, <3>1, <3>2
  <2>. QED
    BY <2>1, <2>2
<1>5. t = a \o b
  <2>. DEFINE c == a \o b
  <2>1. c \in Seq(X) /\ Len(c) = Len(t) /\ \A i \in 1 .. Len(t) : c[i] = t[i]
    BY <1>3, <1>4
  <2>. HIDE DEF c
  <2>2. t = c
    BY <2>1
  <2>. QED
    BY <2>2 DEF c
<1>. QED
  BY <1>1, <1>2, <1>5 DEF a, b

\* A text of gaps only.
Blank(g) == g \in Text /\ \A i \in 1 .. Len(g) : g[i] = Gap

\* Stripping the end of a text takes a blank off it, and all of one.
LEMMA RStripParts ==
  ASSUME NEW t \in Text
  PROVE  /\ RStrip(t) \in Text
         /\ \E g \in Text : Blank(g) /\ t = RStrip(t) \o g
         /\ RStrip(t) = <<>> \/ Last(RStrip(t)) # Gap
         /\ t # <<>> /\ Last(t) # Gap => RStrip(t) = t
<1>. DEFINE all == {0} \cup {i \in DOMAIN t : t[i] # Gap}
            n == Max(all)
            g == SubSeq(t, n + 1, Len(t))
            r == SubSeq(t, 1, n)
<1>0. Len(t) \in Nat /\ DOMAIN t = 1 .. Len(t) /\ t \in Seq(Character)
  BY DEF Text, Character
<1>1. n \in all /\ \A k \in all : k <= n
  <2>1. all \in SUBSET (0 .. Len(t)) /\ all # {}
    BY <1>0
  <2>. HIDE DEF all
  <2>. QED
    BY <1>0, <2>1, MaxUpTo
<1>2. /\ n \in 0 .. Len(t) /\ (n = 0 \/ t[n] # Gap)
      /\ \A i \in 1 .. Len(t) : t[i] # Gap => i <= n
  <2>. HIDE DEF n
  <2>. QED
    BY <1>0, <1>1
<1>. HIDE DEF n
<1>3. /\ r \in Seq(Character) /\ Len(r) = n /\ \A i \in 1 .. n : r[i] = t[i]
      /\ g \in Seq(Character) /\ Len(g) = Len(t) - n /\ \A i \in 1 .. Len(t) - n : g[i] = t[n + i]
      /\ t = r \o g
  BY <1>0, <1>2, CutInTwo
<1>4. RStrip(t) = r
  BY DEF RStrip, n
<1>. HIDE DEF g, r
<1>5. Blank(g)
  <2>1. \A i \in 1 .. Len(t) - n : n + i \in 1 .. Len(t) /\ ~ (n + i <= n)
    BY <1>0, <1>2
  <2>2. \A i \in 1 .. Len(t) - n : t[n + i] = Gap
    BY <1>2, <2>1
  <2>. QED
    BY <1>3, <2>2 DEF Blank, Text, Character
<1>6. r = <<>> \/ Last(r) # Gap
  <2>1. CASE n = 0
    BY <1>3, <2>1
  <2>2. CASE n # 0
    BY <1>2, <1>3, <2>2 DEF Last
  <2>. QED
    BY <2>1, <2>2
<1>7. ASSUME t # <<>>, Last(t) # Gap
      PROVE  r = t
  <2>1. Len(t) \in 1 .. Len(t)
    BY <1>0, <1>7
  <2>2. Len(t) <= n
    BY <1>2, <1>7, <2>1 DEF Last
  <2>3. n = Len(t)
    <3>1. n \in 0 .. Len(t) /\ Len(t) \in Nat
      BY <1>0, <1>2
    <3>. QED
      BY <2>2, <3>1
  <2>. QED
    BY <1>0, <1>3, <2>3
<1>. QED
  BY <1>3, <1>4, <1>5, <1>6, <1>7 DEF Text, Character

\* One gap more at the end does not change what is stripped.
LEMMA RStripGap ==
  ASSUME NEW t \in Text
  PROVE  RStrip(Append(t, Gap)) = RStrip(t)
<1>. DEFINE u == Append(t, Gap)
            all == {0} \cup {i \in DOMAIN t : t[i] # Gap}
            n == Max(all)
<1>1. /\ Len(t) \in Nat /\ DOMAIN t = 1 .. Len(t) /\ DOMAIN u = 1 .. Len(t) + 1
      /\ u[Len(t) + 1] = Gap /\ \A i \in 1 .. Len(t) : u[i] = t[i]
  BY DEF Text
<1>2. {i \in DOMAIN u : u[i] # Gap} = {i \in DOMAIN t : t[i] # Gap}
  <2>. HIDE DEF u
  <2>. QED
    BY <1>1
<1>3. RStrip(u) = SubSeq(u, 1, n) /\ RStrip(t) = SubSeq(t, 1, n)
  BY <1>2 DEF RStrip
<1>4. n \in 0 .. Len(t)
  <2>1. all \in SUBSET (0 .. Len(t)) /\ all # {}
    BY <1>1
  <2>2. n \in all
    <3>. HIDE DEF all
    <3>. QED
      BY <1>1, <2>1, MaxUpTo
  <2>. QED
    BY <2>1, <2>2
<1>. HIDE DEF n
<1>5. SubSeq(u, 1, n) = SubSeq(t, 1, n)
  BY <1>1, <1>4 DEF Text
<1>. QED
  BY <1>3, <1>5

\* Stripping the start of one takes a blank off it too.
LEMMA LStripParts ==
  ASSUME NEW t \in Text
  PROVE  /\ LStrip(t) \in Text
         /\ \E g \in Text : Blank(g) /\ t = g \o LStrip(t)
         /\ LStrip(t) = <<>> \/ LStrip(t)[1] # Gap
         /\ t # <<>> /\ t[1] # Gap => LStrip(t) = t
<1>. DEFINE full == {i \in DOMAIN t : t[i] # Gap}
            all == {Len(t) + 1} \cup full
            n == Min(all)
<1>0. Len(t) \in Nat /\ DOMAIN t = 1 .. Len(t)
  BY DEF Text
<1>1. n \in all /\ \A k \in all : n <= k
  <2>1. all \in SUBSET Nat /\ all # {}
    BY <1>0
  <2>. HIDE DEF all
  <2>2. PICK m \in all : \A k \in all : m <= k
    BY <2>1, LeastNatural
  <2>. QED
    BY <2>2 DEF Min
<1>2. LStrip(t) = SubSeq(t, n, Len(t))
  BY DEF LStrip
<1>3. /\ n \in 1 .. Len(t) + 1 /\ (n = Len(t) + 1 \/ t[n] # Gap)
      /\ \A i \in 1 .. Len(t) : i < n => t[i] = Gap
  <2>1. n = Len(t) + 1 \/ n \in full
    BY <1>1
  <2>2. \A i \in 1 .. Len(t) : i < n => i \notin full
    <3>. HIDE DEF n
    <3>1. \A i \in full : n <= i
      BY <1>1
    <3>2. n \in Int
      BY <1>0, <2>1
    <3>. QED
      BY <3>1, <3>2
  <2>. HIDE DEF n
  <2>. QED
    BY <1>0, <2>1, <2>2
<1>. HIDE DEF n
<1>. DEFINE g == SubSeq(t, 1, n - 1)
            k == n - 1
<1>4. /\ g \in Seq(Character) /\ Len(g) = n - 1 /\ \A i \in 1 .. n - 1 : g[i] = t[i]
      /\ LStrip(t) \in Seq(Character) /\ Len(LStrip(t)) = Len(t) - (n - 1)
      /\ \A i \in 1 .. Len(t) - (n - 1) : LStrip(t)[i] = t[(n - 1) + i]
      /\ t = g \o LStrip(t)
  <2>1. k \in 0 .. Len(t) /\ k + 1 = n /\ t \in Seq(Character)
    BY <1>0, <1>3 DEF Text, Character
  <2>. HIDE DEF k
  <2>2. LStrip(t) = SubSeq(t, k + 1, Len(t))
    BY <1>2, <2>1
  <2>3. LET b == SubSeq(t, k + 1, Len(t))
        IN  /\ SubSeq(t, 1, k) \in Seq(Character) /\ Len(SubSeq(t, 1, k)) = k
            /\ \A i \in 1 .. k : SubSeq(t, 1, k)[i] = t[i]
            /\ b \in Seq(Character) /\ Len(b) = Len(t) - k
            /\ \A i \in 1 .. Len(t) - k : b[i] = t[k + i]
            /\ t = SubSeq(t, 1, k) \o b
    BY <2>1, CutInTwo, ZenonT(60)
  <2>. QED
    BY <2>2, <2>3 DEF k
<1>. HIDE DEF g
<1>7. Blank(g)
  BY <1>0, <1>3, <1>4 DEF Blank, Text, Character
<1>8. LStrip(t) = <<>> \/ LStrip(t)[1] # Gap
  <2>1. CASE n = Len(t) + 1
    <3>1. Len(LStrip(t)) = 0
      BY <1>0, <1>4, <2>1
    <3>. QED
      BY <1>4, <3>1 DEF Text
  <2>2. CASE n # Len(t) + 1
    <3>1. 1 \in 1 .. Len(t) - (n - 1) /\ (n - 1) + 1 = n
      BY <1>0, <1>3, <2>2
    <3>. QED
      BY <1>3, <1>4, <2>2, <3>1
  <2>. QED
    BY <2>1, <2>2
<1>9. ASSUME t # <<>>, t[1] # Gap
      PROVE  LStrip(t) = t
  <2>1. n = 1
    BY <1>0, <1>3, <1>9 DEF Text
  <2>. QED
    BY <1>2, <2>1 DEF Text
<1>. QED
  BY <1>4, <1>7, <1>8, <1>9 DEF Text, Character

\* A text stripped at both ends.
LEMMA StripType ==
  ASSUME NEW t \in Text
  PROVE  /\ Strip(t) \in Text
         /\ Strip(t) # <<>> => Strip(t)[1] # Gap
BY RStripParts, LStripParts DEF Strip
-----------------------------------------------------------------------------
(* Reading a text.  What is read of it, gap included, is the same whatever  *)
(* blanks are at its ends, and of two texts with a gap between them it is   *)
(* what is read of each.                                                    *)

ReadStep == [p \in Text \X Character |-> Read(p[1], p[2])]

\* What stands after a text is read from w on.
ReadFrom(w, t) == Folded(Text, w, t, ReadStep)

\* What is read of a text and a gap after it.
Reading(t) == ReadFrom(<<>>, Append(t, Gap))

\* A character read leaves a text.
LEMMA ReadStepType == ReadStep \in [Text \X Character -> Text]
<1>1. ASSUME NEW w \in Text, NEW c \in Character
      PROVE  Read(w, c) \in Text
  BY DEF Read, Text, Character
<1>. QED
  BY <1>1 DEF ReadStep

\* The library's fold of the characters is the fold by what stands after each.
LEMMA FoldRead ==
  ASSUME NEW t \in Text
  PROVE  FoldLeft(Read, <<>>, t) = ReadFrom(<<>>, t)
<1>. DEFINE n == Len(t)
            P(iter) == iter = [d \in SUBSET (1 .. n) |->
                          IF d = {} THEN <<>> ELSE Read(iter[d \ {Max(d)}], t[Max(d)])]
            iter == CHOOSE f : P(f)
<1>1. n \in Nat /\ DOMAIN t = 1 .. n /\ <<>> \in Text /\ \A i \in 1 .. n : t[i] \in Character
  BY DEF Text, Character
<1>2. FoldLeft(Read, <<>>, t) = iter[1 .. n]
  <2>1. FoldLeft(Read, <<>>, t) =
          (CHOOSE f : f = [d \in SUBSET DOMAIN t |->
             IF d = {} THEN <<>> ELSE Read(f[d \ {Max(d)}], t[Max(d)])])[DOMAIN t]
    BY DEF FoldLeft, MapThenFoldSet
  <2>. QED
    BY <1>1, <2>1
<1>3. Foldable(Text, Character, <<>>, t, ReadStep)
  BY <1>1, ReadStepType DEF Foldable, Text, Character
<1>4. PICK f \in [SUBSET (1 .. n) -> Text] : Recursion(f, <<>>, t, ReadStep)
  BY <1>3, RecursionExists
<1>5. P(f)
  <2>1. ASSUME NEW d \in SUBSET (1 .. n), d # {}
        PROVE  ReadStep[<<f[d \ {Max(d)}], t[Max(d)]>>] = Read(f[d \ {Max(d)}], t[Max(d)])
    <3>1. Max(d) \in 1 .. n
      BY <1>1, <2>1, MaxOfPositions
    <3>2. <<f[d \ {Max(d)}], t[Max(d)]>> \in Text \X Character
      BY <1>1, <3>1
    <3>. QED
      BY <3>2 DEF ReadStep
  <2>. QED
    BY <1>4, <2>1 DEF Recursion
<1>6. P(iter)
  <2>. HIDE DEF P
  <2>. QED
    BY <1>5
<1>. HIDE DEF iter
<1>7. iter[{}] = <<>>
  <2>1. {} \in SUBSET (1 .. n)
    OBVIOUS
  <2>. QED
    BY <1>6, <2>1
<1>8. ASSUME NEW m \in 1 .. n, iter[1 .. (m - 1)] \in Text
      PROVE  iter[1 .. m] = ReadStep[<<iter[1 .. (m - 1)], t[m]>>]
  <2>1. /\ (1 .. m) \in SUBSET (1 .. n) /\ (1 .. m) # {}
        /\ Max(1 .. m) = m /\ (1 .. m) \ {m} = 1 .. (m - 1)
    BY <1>1, FirstPositions
  <2>2. iter[1 .. m] = Read(iter[1 .. (m - 1)], t[m])
    BY <1>6, <2>1
  <2>. QED
    BY <1>1, <1>8, <2>2 DEF ReadStep
<1>9. iter[1 .. n] = Folded(Text, <<>>, t, ReadStep)
  BY <1>3, <1>7, <1>8, FoldedByPositions
<1>. QED
  BY <1>2, <1>9 DEF ReadFrom

\* Read from w on: nothing, one character more, and one text after another.
LEMMA ReadLaws ==
  ASSUME NEW w \in Text, NEW s \in Text
  PROVE  /\ ReadFrom(w, s) \in Text
         /\ ReadFrom(w, <<>>) = w
         /\ \A c \in Character : ReadFrom(w, Append(s, c)) = Read(ReadFrom(w, s), c)
         /\ \A t \in Text : ReadFrom(w, s \o t) = ReadFrom(ReadFrom(w, s), t)
<1>1. \A t \in Text : Foldable(Text, Character, w, t, ReadStep)
  BY ReadStepType DEF Foldable, Text, Character
<1>2. ReadFrom(w, s) \in Text
  BY <1>1, FoldedRun DEF ReadFrom
<1>3. ReadFrom(w, <<>>) = w
  <2>1. <<>> \in Text /\ Len(<<>>) = 0
    BY DEF Text
  <2>. QED
    BY <1>1, <2>1, FoldedEmpty DEF ReadFrom
<1>4. ASSUME NEW c \in Character
      PROVE  ReadFrom(w, Append(s, c)) = Read(ReadFrom(w, s), c)
  <2>1. ReadFrom(w, Append(s, c)) = ReadStep[<<ReadFrom(w, s), c>>]
    BY <1>1, FoldedAppend DEF ReadFrom
  <2>2. <<ReadFrom(w, s), c>> \in Text \X Character
    BY <1>2
  <2>. QED
    BY <2>1, <2>2 DEF ReadStep
<1>5. ASSUME NEW t \in Text
      PROVE  ReadFrom(w, s \o t) = ReadFrom(ReadFrom(w, s), t)
  <2>1. t \in Seq(Character)
    BY DEF Text, Character
  <2>. QED
    BY <1>1, <2>1, FoldedConcat DEF ReadFrom
<1>. QED
  BY <1>2, <1>3, <1>4, <1>5

\* The same of nothing read before.
LEMMA ReadLawsFromStart ==
  ASSUME NEW s \in Text
  PROVE  /\ ReadFrom(<<>>, s) \in Text
         /\ ReadFrom(<<>>, <<>>) = <<>>
         /\ \A c \in Character : ReadFrom(<<>>, Append(s, c)) = Read(ReadFrom(<<>>, s), c)
         /\ \A t \in Text : ReadFrom(<<>>, s \o t) = ReadFrom(ReadFrom(<<>>, s), t)
<1>. DEFINE e == <<>>
<1>1. e \in Text
  BY DEF Text
<1>. HIDE DEF e
<1>2. /\ ReadFrom(e, s) \in Text
      /\ ReadFrom(e, <<>>) = e
      /\ \A c \in Character : ReadFrom(e, Append(s, c)) = Read(ReadFrom(e, s), c)
      /\ \A t \in Text : ReadFrom(e, s \o t) = ReadFrom(ReadFrom(e, s), t)
  BY <1>1, ReadLaws
<1>. QED
  BY <1>2 DEF e

\* Nothing is under way: what was read ends in a gap.
Closed(w) == w \in Text /\ (w = <<>> \/ Last(w) = Gap)

\* From there on a text adds to it what is read of it alone.
LEMMA ReadAdds ==
  ASSUME NEW w, Closed(w)
  PROVE  \A t \in Text : ReadFrom(w, t) = w \o ReadFrom(<<>>, t)
<1>. DEFINE S == {t \in Text : ReadFrom(w, t) = w \o ReadFrom(<<>>, t)}
<1>0. w \in Text /\ <<>> \in Text /\ Text = Seq(Character)
  BY DEF Closed, Text, Character
<1>1. <<>> \in S
  <2>1. ReadFrom(w, <<>>) = w
    BY <1>0, ReadLaws
  <2>2. ReadFrom(<<>>, <<>>) = <<>>
    BY <1>0, ReadLaws
  <2>3. w \o <<>> = w
    BY <1>0, ConcatEmptySeq
  <2>. QED
    BY <1>0, <2>1, <2>2, <2>3
<1>2. ASSUME NEW t \in Seq(Character), NEW c \in Character, t \in S
      PROVE  Append(t, c) \in S
  <2>. DEFINE r == ReadFrom(<<>>, t)
  <2>0. t \in Text /\ Append(t, c) \in Text
    BY <1>0
  <2>1. r \in Text /\ ReadFrom(<<>>, Append(t, c)) = Read(r, c)
    BY <2>0, ReadLawsFromStart
  <2>2. ReadFrom(w, Append(t, c)) = Read(ReadFrom(w, t), c)
    BY <1>0, <2>0, ReadLaws
  <2>3. ReadFrom(w, t) = w \o r
    BY <1>2
  <2>. HIDE DEF r
  <2>4. Append(w \o r, c) = w \o Append(r, c)
    <3>1. r \in Seq(Character) /\ w \in Seq(Character) /\ <<c>> \in Seq(Character)
      BY <1>0, <2>1
    <3>2. Append(w \o r, c) = (w \o r) \o <<c>> /\ Append(r, c) = r \o <<c>>
      BY <3>1, AppendIsConcat, ConcatProperties
    <3>3. (w \o r) \o <<c>> = w \o (r \o <<c>>)
      BY <3>1, ConcatAssociative, SMTT(40)
    <3>. QED
      BY <3>2, <3>3
  <2>5. Read(w \o r, c) = w \o Read(r, c)
    <3>1. CASE r = <<>>
      <4>1. w \o r = w
        BY <1>0, <3>1, ConcatEmptySeq
      <4>2. CASE c = Gap
        BY <3>1, <4>1, <4>2 DEF Read, Closed
      <4>3. CASE c # Gap
        BY <2>4, <4>3 DEF Read
      <4>. QED
        BY <4>2, <4>3
    <3>2. CASE r # <<>>
      <4>1. w \o r # <<>> /\ Last(w \o r) = Last(r)
        <5>1. /\ Len(w) \in Nat /\ Len(r) \in Nat /\ Len(r) > 0
              /\ Len(w \o r) = Len(w) + Len(r) /\ (w \o r)[Len(w) + Len(r)] = r[Len(r)]
          BY <1>0, <2>1, <3>2
        <5>. QED
          BY <5>1 DEF Last
      <4>. QED
        BY <2>4, <3>2, <4>1 DEF Read
    <3>. QED
      BY <3>1, <3>2
  <2>. QED
    BY <2>0, <2>1, <2>2, <2>3, <2>5
<1>3. Seq(Character) \subseteq S
  <2>. HIDE DEF S
  <2>. QED
    BY <1>1, <1>2, SeqInduction
<1>. QED
  BY <1>0, <1>3

\* A blank read there adds nothing.
LEMMA BlankAdds ==
  ASSUME NEW w, Closed(w)
  PROVE  \A g \in Text : Blank(g) => ReadFrom(w, g) = w
<1>. DEFINE S == {g \in Text : Blank(g) => ReadFrom(w, g) = w}
<1>0. w \in Text /\ <<>> \in Text /\ Text = Seq(Character)
  BY DEF Closed, Text, Character
<1>1. <<>> \in S
  <2>1. ReadFrom(w, <<>>) = w
    BY <1>0, ReadLaws
  <2>. QED
    BY <1>0, <2>1
<1>2. ASSUME NEW g \in Seq(Character), NEW c \in Character, g \in S
      PROVE  Append(g, c) \in S
  <2>0. Append(g, c) \in Text /\ g \in Text
    BY <1>0
  <2>. SUFFICES ASSUME Blank(Append(g, c)) PROVE ReadFrom(w, Append(g, c)) = w
    BY <2>0
  <2>1. /\ Len(g) \in Nat /\ Len(Append(g, c)) = Len(g) + 1 /\ Append(g, c)[Len(g) + 1] = c
        /\ \A i \in 1 .. Len(g) : Append(g, c)[i] = g[i]
    OBVIOUS
  <2>2. c = Gap /\ Blank(g)
    BY <2>0, <2>1 DEF Blank
  <2>3. ReadFrom(w, Append(g, c)) = Read(w, c)
    <3>1. ReadFrom(w, Append(g, c)) = Read(ReadFrom(w, g), c)
      BY <1>0, <2>0, ReadLaws
    <3>. QED
      BY <1>2, <2>2, <3>1
  <2>. QED
    BY <2>2, <2>3 DEF Read, Closed
<1>3. Seq(Character) \subseteq S
  <2>. HIDE DEF S
  <2>. QED
    BY <1>1, <1>2, SeqInduction
<1>. QED
  BY <1>0, <1>3

\* What is read of a text, and what is read of it with more around it.
LEMMA ReadingLaws ==
  ASSUME NEW t \in Text
  PROVE  /\ Closed(Reading(t))
         /\ \A s \in Text : Reading((s \o <<Gap>>) \o t) = Reading(s) \o Reading(t)
         /\ \A g \in Text : Blank(g) => Reading(g \o t) = Reading(t)
         /\ \A g \in Text : Blank(g) => Reading(t \o g) = Reading(t)
         /\ Reading(<<>>) = <<>>
<1>0. /\ Text = Seq(Character) /\ Gap \in Character /\ <<>> \in Text /\ <<Gap>> \in Text
      /\ Append(t, Gap) \in Text /\ Closed(<<>>)
  BY DEF Closed, Text, Character
<1>1. ASSUME NEW s \in Text
      PROVE  Closed(Reading(s)) /\ Append(s, Gap) \in Text
  <2>1. ReadFrom(<<>>, s) \in Text
    BY ReadLawsFromStart
  <2>2. Reading(s) = Read(ReadFrom(<<>>, s), Gap)
    BY <1>0, ReadLawsFromStart DEF Reading
  <2>. DEFINE r == ReadFrom(<<>>, s)
  <2>. HIDE DEF r
  <2>3. r \in Text => Closed(Read(r, Gap))
    <3>1. ASSUME r \in Text
          PROVE  Append(r, Gap) \in Text /\ Last(Append(r, Gap)) = Gap
      BY <1>0, <3>1 DEF Last
    <3>. QED
      BY <3>1 DEF Read, Closed
  <2>4. Append(s, Gap) \in Text
    BY <1>0
  <2>. QED
    BY <2>1, <2>2, <2>3, <2>4 DEF r
<1>2. ASSUME NEW s \in Text
      PROVE  Reading((s \o <<Gap>>) \o t) = Reading(s) \o Reading(t)
  <2>1. Append((s \o <<Gap>>) \o t, Gap) = Append(s, Gap) \o Append(t, Gap)
    <3>1. Append(s, Gap) = s \o <<Gap>> /\ Append(t, Gap) = t \o <<Gap>>
      BY <1>0, AppendIsConcat
    <3>. DEFINE sg == s \o <<Gap>>
    <3>2. sg \in Seq(Character)
      BY <1>0
    <3>. HIDE DEF sg
    <3>3. sg \o t \in Seq(Character)
      BY <1>0, <3>2, ConcatProperties
    <3>4. Append(sg \o t, Gap) = (sg \o t) \o <<Gap>>
      BY <1>0, <3>3, AppendIsConcat
    <3>5. (sg \o t) \o <<Gap>> = sg \o (t \o <<Gap>>)
      BY <1>0, <3>2, ConcatAssociative
    <3>. QED
      BY <3>1, <3>4, <3>5 DEF sg
  <2>2. ReadFrom(<<>>, Append(s, Gap) \o Append(t, Gap)) = ReadFrom(Reading(s), Append(t, Gap))
    BY <1>0, <1>1, ReadLawsFromStart DEF Reading
  <2>3. ReadFrom(Reading(s), Append(t, Gap)) = Reading(s) \o ReadFrom(<<>>, Append(t, Gap))
    BY <1>0, <1>1, ReadAdds
  <2>. QED
    BY <2>1, <2>2, <2>3 DEF Reading
<1>3. ASSUME NEW g \in Text, Blank(g)
      PROVE  Reading(g \o t) = Reading(t)
  <2>1. Append(g \o t, Gap) = g \o Append(t, Gap)
    <3>1. g \o t \in Seq(Character)
      BY <1>0, ConcatProperties
    <3>2. Append(g \o t, Gap) = (g \o t) \o <<Gap>> /\ Append(t, Gap) = t \o <<Gap>>
      BY <1>0, <3>1, AppendIsConcat
    <3>3. (g \o t) \o <<Gap>> = g \o (t \o <<Gap>>)
      BY <1>0, ConcatAssociative
    <3>. QED
      BY <3>2, <3>3
  <2>2. ReadFrom(<<>>, g \o Append(t, Gap)) = ReadFrom(ReadFrom(<<>>, g), Append(t, Gap))
    BY <1>0, ReadLawsFromStart
  <2>3. ReadFrom(<<>>, g) = <<>>
    BY <1>0, <1>3, BlankAdds
  <2>. QED
    BY <2>1, <2>2, <2>3 DEF Reading
<1>4. ASSUME NEW g \in Text, Blank(g)
      PROVE  Reading(t \o g) = Reading(t)
  <2>1. Append(t \o g, Gap) = Append(t, Gap) \o g
    <3>. DEFINE a == Append(t \o g, Gap)
                b == Append(t, Gap) \o g
    <3>1. /\ t \in Seq(Character) /\ g \in Seq(Character)
          /\ Len(t) \in Nat /\ Len(g) \in Nat /\ \A i \in 1 .. Len(g) : g[i] = Gap
      BY <1>0, <1>4 DEF Blank
    <3>2. /\ a \in Seq(Character) /\ Len(a) = Len(t) + Len(g) + 1
          /\ \A i \in 1 .. Len(t) : a[i] = t[i]
          /\ \A i \in 1 .. Len(t) + Len(g) + 1 : i > Len(t) => a[i] = Gap
      <4>. DEFINE c == t \o g
      <4>1. /\ c \in Seq(Character) /\ Len(c) = Len(t) + Len(g)
            /\ \A i \in 1 .. Len(t) : c[i] = t[i]
            /\ \A i \in 1 .. Len(t) + Len(g) : i > Len(t) => c[i] = g[i - Len(t)]
        BY <3>1
      <4>. HIDE DEF c
      <4>2. /\ Append(c, Gap) \in Seq(Character) /\ Len(Append(c, Gap)) = Len(t) + Len(g) + 1
            /\ \A i \in 1 .. Len(t) + Len(g) : Append(c, Gap)[i] = c[i]
            /\ Append(c, Gap)[Len(t) + Len(g) + 1] = Gap
        BY <1>0, <3>1, <4>1
      <4>3. \A i \in 1 .. Len(t) : i \in 1 .. Len(t) + Len(g)
        BY <3>1
      <4>4. ASSUME NEW i \in 1 .. Len(t) + Len(g) + 1, i > Len(t)
            PROVE  Append(c, Gap)[i] = Gap
        <5>1. CASE i = Len(t) + Len(g) + 1
          BY <4>2, <5>1
        <5>2. CASE i # Len(t) + Len(g) + 1
          <6>1. i \in 1 .. Len(t) + Len(g) /\ i - Len(t) \in 1 .. Len(g)
            BY <3>1, <4>4, <5>2
          <6>. QED
            BY <3>1, <4>1, <4>2, <4>4, <6>1
        <5>. QED
          BY <5>1, <5>2
      <4>. QED
        BY <4>1, <4>2, <4>3, <4>4 DEF c
    <3>3. /\ b \in Seq(Character) /\ Len(b) = Len(t) + Len(g) + 1
          /\ \A i \in 1 .. Len(t) : b[i] = t[i]
          /\ \A i \in 1 .. Len(t) + Len(g) + 1 : i > Len(t) => b[i] = Gap
      <4>. DEFINE c == Append(t, Gap)
      <4>1. /\ c \in Seq(Character) /\ Len(c) = Len(t) + 1
            /\ \A i \in 1 .. Len(t) : c[i] = t[i]
            /\ c[Len(t) + 1] = Gap
        BY <1>0, <3>1
      <4>. HIDE DEF c
      <4>2. /\ c \o g \in Seq(Character) /\ Len(c \o g) = Len(t) + Len(g) + 1
            /\ \A i \in 1 .. Len(t) + 1 : (c \o g)[i] = c[i]
            /\ \A i \in 1 .. Len(t) + Len(g) + 1 : i > Len(t) + 1 => (c \o g)[i] = g[i - (Len(t) + 1)]
        BY <3>1, <4>1
      <4>3. \A i \in 1 .. Len(t) : i \in 1 .. Len(t) + 1
        BY <3>1
      <4>4. ASSUME NEW i \in 1 .. Len(t) + Len(g) + 1, i > Len(t)
            PROVE  (c \o g)[i] = Gap
        <5>1. CASE i = Len(t) + 1
          BY <3>1, <4>1, <4>2, <5>1
        <5>2. CASE i # Len(t) + 1
          <6>1. i > Len(t) + 1 /\ i - (Len(t) + 1) \in 1 .. Len(g)
            BY <3>1, <4>4, <5>2
          <6>. QED
            BY <3>1, <4>2, <6>1
        <5>. QED
          BY <5>1, <5>2
      <4>. QED
        BY <4>1, <4>2, <4>3, <4>4 DEF c
    <3>. HIDE DEF a, b
    <3>4. \A i \in 1 .. Len(t) + Len(g) + 1 : a[i] = b[i]
      <4>. TAKE i \in 1 .. Len(t) + Len(g) + 1
      <4>1. i \in 1 .. Len(t) \/ i > Len(t)
        BY <3>1
      <4>. QED
        BY <3>2, <3>3, <4>1
    <3>5. a = b
      BY <3>2, <3>3, <3>4, SeqEqual
    <3>. QED
      BY <3>5 DEF a, b
  <2>2. ReadFrom(<<>>, Append(t, Gap) \o g) = ReadFrom(Reading(t), g)
    BY <1>0, ReadLawsFromStart DEF Reading
  <2>3. ReadFrom(Reading(t), g) = Reading(t)
    BY <1>1, <1>4, BlankAdds
  <2>. QED
    BY <2>1, <2>2, <2>3 DEF Reading
<1>5. Reading(<<>>) = <<>>
  <2>1. Append(<<>>, Gap) \in Text /\ Blank(Append(<<>>, Gap))
    BY <1>0 DEF Blank
  <2>. QED
    BY <1>0, <2>1, BlankAdds DEF Reading
<1>6. Closed(Reading(t))
  BY <1>1
<1>. QED
  BY <1>2, <1>3, <1>4, <1>5, <1>6

-----------------------------------------------------------------------------
(* The start and the end of a text. *)

\* A start of a text, character by character, and the rest of it.
LEMMA PrefixCut ==
  ASSUME NEW X, NEW s \in Seq(X), NEW t \in Seq(X)
  PROVE  /\ IsPrefix(s, t) <=> Len(s) <= Len(t) /\ \A i \in 1 .. Len(s) : s[i] = t[i]
         /\ IsPrefix(s, t) => SubSeq(t, Len(s) + 1, Len(t)) \in Seq(X)
         /\ IsPrefix(s, t) => t = s \o SubSeq(t, Len(s) + 1, Len(t))
<1>0. Len(s) \in Nat /\ Len(t) \in Nat
  OBVIOUS
<1>1. SubSeq(s, 1, Len(s)) = s
  OBVIOUS
<1>. DEFINE a == SubSeq(t, 1, Len(s))
<1>2. ASSUME Len(s) <= Len(t)
      PROVE  a \in Seq(X) /\ Len(a) = Len(s) /\ \A i \in 1 .. Len(s) : a[i] = t[i]
  <2>1. Len(s) \in 0 .. Len(t)
    BY <1>0, <1>2
  <2>. QED
    BY <2>1, CutInTwo
<1>3. IsPrefix(s, t) <=> Len(s) <= Len(t) /\ a = s
  BY <1>1 DEF IsPrefix
<1>. HIDE DEF a
<1>4. ASSUME Len(s) <= Len(t)
      PROVE  a = s <=> \A i \in 1 .. Len(s) : s[i] = t[i]
  <2>1. (\A i \in 1 .. Len(s) : s[i] = t[i]) => a = s
    <3>1. (\A i \in 1 .. Len(s) : s[i] = t[i]) => \A i \in 1 .. Len(a) : a[i] = s[i]
      BY <1>2, <1>4
    <3>. QED
      BY <1>2, <1>4, <3>1, SeqEqual
  <2>2. a = s => \A i \in 1 .. Len(s) : s[i] = t[i]
    BY <1>2, <1>4
  <2>. QED
    BY <2>1, <2>2
<1>5. ASSUME IsPrefix(s, t)
      PROVE  SubSeq(t, Len(s) + 1, Len(t)) \in Seq(X) /\ t = s \o SubSeq(t, Len(s) + 1, Len(t))
  <2>1. Len(s) \in 0 .. Len(t) /\ SubSeq(t, 1, Len(s)) = s
    BY <1>0, <1>3, <1>5 DEF a
  <2>2. /\ SubSeq(t, Len(s) + 1, Len(t)) \in Seq(X)
        /\ t = SubSeq(t, 1, Len(s)) \o SubSeq(t, Len(s) + 1, Len(t))
    BY <2>1, CutInTwo
  <2>. QED
    BY <2>1, <2>2
<1>. QED
  BY <1>3, <1>4, <1>5

\* An end of one, character by character, and what is before it.
LEMMA SuffixCut ==
  ASSUME NEW X, NEW s \in Seq(X), NEW t \in Seq(X)
  PROVE  /\ IsSuffix(s, t) <=>
              Len(s) <= Len(t) /\ \A i \in 1 .. Len(s) : s[i] = t[(Len(t) - Len(s)) + i]
         /\ IsSuffix(s, t) => SubSeq(t, 1, Len(t) - Len(s)) \in Seq(X)
         /\ IsSuffix(s, t) => t = SubSeq(t, 1, Len(t) - Len(s)) \o s
<1>0. Len(s) \in Nat /\ Len(t) \in Nat
  OBVIOUS
<1>. DEFINE m == Len(s)
            n == Len(t)
            rs == Reverse(s)
            rt == Reverse(t)
<1>1. /\ rs \in Seq(X) /\ Len(rs) = m /\ \A i \in 1 .. m : rs[i] = s[(m - i) + 1]
      /\ rt \in Seq(X) /\ Len(rt) = n /\ \A i \in 1 .. n : rt[i] = t[(n - i) + 1]
  <2>1. ASSUME NEW q \in Seq(X), NEW l \in Nat, Len(q) = l
        PROVE  /\ Reverse(q) \in Seq(X) /\ Len(Reverse(q)) = l
               /\ \A i \in 1 .. l : Reverse(q)[i] = q[(l - i) + 1]
    <3>1. Reverse(q) = [i \in 1 .. l |-> q[(l - i) + 1]]
      BY <2>1 DEF Reverse
    <3>2. \A i \in 1 .. l : (l - i) + 1 \in 1 .. l
      OBVIOUS
    <3>3. \A i \in 1 .. l : q[(l - i) + 1] \in X
      BY <2>1, <3>2
    <3>. QED
      BY <3>1, <3>3
  <2>. QED
    BY <1>0, <2>1
<1>. HIDE DEF rs, rt
<1>2. IsSuffix(s, t) <=> m <= n /\ \A i \in 1 .. m : rs[i] = rt[i]
  <2>1. IsPrefix(rs, rt) <=> Len(rs) <= Len(rt) /\ \A i \in 1 .. Len(rs) : rs[i] = rt[i]
    BY <1>1, PrefixCut
  <2>. QED
    BY <1>1, <2>1 DEF IsSuffix, rs, rt
<1>3. ASSUME m <= n
      PROVE  (\A i \in 1 .. m : rs[i] = rt[i]) <=> \A i \in 1 .. m : s[i] = t[(n - m) + i]
  <2>. HIDE DEF m, n
  <2>0. m \in Nat /\ n \in Nat
    BY <1>0 DEF m, n
  <2>1. \A i \in 1 .. m : (m - i) + 1 \in 1 .. m /\ i \in 1 .. n
    BY <1>3, <2>0
  <2>2. ASSUME \A i \in 1 .. m : rs[i] = rt[i], NEW i \in 1 .. m
        PROVE  s[i] = t[(n - m) + i]
    <3>. DEFINE j == (m - i) + 1
    <3>1. j \in 1 .. m /\ j \in 1 .. n /\ (m - j) + 1 = i /\ (n - j) + 1 = (n - m) + i
      BY <1>3, <2>0
    <3>. HIDE DEF j
    <3>2. rs[j] = s[(m - j) + 1] /\ rt[j] = t[(n - j) + 1] /\ rs[j] = rt[j]
      BY <1>1, <2>2, <3>1
    <3>. QED
      BY <3>1, <3>2
  <2>3. ASSUME \A i \in 1 .. m : s[i] = t[(n - m) + i], NEW i \in 1 .. m
        PROVE  rs[i] = rt[i]
    <3>. DEFINE j == (m - i) + 1
    <3>1. j \in 1 .. m /\ i \in 1 .. n /\ (n - m) + j = (n - i) + 1
      BY <1>3, <2>0
    <3>2. s[j] = t[(n - m) + j]
      BY <2>3, <3>1
    <3>3. rs[i] = s[j] /\ rt[i] = t[(n - i) + 1]
      BY <1>1, <3>1
    <3>. QED
      BY <3>1, <3>2, <3>3
  <2>. QED
    BY <2>2, <2>3
<1>4. IsSuffix(s, t) <=> m <= n /\ \A i \in 1 .. m : s[i] = t[(n - m) + i]
  BY <1>2, <1>3
<1>5. ASSUME IsSuffix(s, t)
      PROVE  SubSeq(t, 1, n - m) \in Seq(X) /\ t = SubSeq(t, 1, n - m) \o s
  <2>. DEFINE k == n - m
              b == SubSeq(t, k + 1, n)
  <2>1. k \in 0 .. n /\ n - k = m /\ m <= n
    BY <1>0, <1>4, <1>5
  <2>. HIDE DEF k
  <2>2. /\ SubSeq(t, 1, k) \in Seq(X) /\ b \in Seq(X) /\ Len(b) = n - k
        /\ \A i \in 1 .. n - k : b[i] = t[k + i]
        /\ t = SubSeq(t, 1, k) \o b
    BY <2>1, CutInTwo, ZenonT(60)
  <2>. HIDE DEF b
  <2>3. \A i \in 1 .. m : s[i] = t[k + i]
    BY <1>4, <1>5 DEF k
  <2>4. b = s
    BY <2>1, <2>2, <2>3, SeqEqual
  <2>. QED
    BY <2>2, <2>4 DEF k
<1>. QED
  BY <1>4, <1>5

\* A text that starts a longer one, and one that ends it, cut off again.
LEMMA ConcatCut ==
  ASSUME NEW X, NEW s \in Seq(X), NEW t \in Seq(X)
  PROVE  /\ IsPrefix(s, s \o t) /\ SubSeq(s \o t, Len(s) + 1, Len(s \o t)) = t
         /\ IsSuffix(t, s \o t) /\ SubSeq(s \o t, 1, Len(s \o t) - Len(t)) = s
<1>. DEFINE st == s \o t
<1>1. /\ st \in Seq(X) /\ Len(st) = Len(s) + Len(t) /\ Len(s) \in Nat /\ Len(t) \in Nat
      /\ \A i \in 1 .. Len(s) : st[i] = s[i]
      /\ \A i \in 1 .. Len(t) : st[Len(s) + i] = t[i]
  OBVIOUS
<1>. HIDE DEF st
<1>2. Len(s) \in 0 .. Len(st) /\ Len(s) <= Len(st) /\ Len(t) <= Len(st) /\ Len(st) - Len(s) = Len(t) /\ Len(st) - Len(t) = Len(s)
  BY <1>1
<1>3. IsPrefix(s, st)
  BY <1>1, <1>2, PrefixCut
<1>4. IsSuffix(t, st)
  <2>1. \A i \in 1 .. Len(t) : t[i] = st[(Len(st) - Len(t)) + i]
    BY <1>1, <1>2
  <2>. QED
    BY <1>1, <1>2, <2>1, SuffixCut
<1>. DEFINE a == SubSeq(st, 1, Len(s))
            b == SubSeq(st, Len(s) + 1, Len(st))
<1>5. /\ a \in Seq(X) /\ Len(a) = Len(s) /\ \A i \in 1 .. Len(s) : a[i] = st[i]
      /\ b \in Seq(X) /\ Len(b) = Len(st) - Len(s)
      /\ \A i \in 1 .. Len(st) - Len(s) : b[i] = st[Len(s) + i]
  BY <1>1, <1>2, CutInTwo
<1>. HIDE DEF a, b
<1>6. a = s
  BY <1>1, <1>5, SeqEqual
<1>7. b = t
  BY <1>1, <1>2, <1>5, SeqEqual
<1>. QED
  BY <1>2, <1>3, <1>4, <1>6, <1>7 DEF st, a, b

\* A text whose last character is a gap is one with a gap after it.
LEMMA EndsInGap ==
  ASSUME NEW t \in Text, t # <<>>, Last(t) = Gap
  PROVE  \E s \in Text : t = s \o <<Gap>>
<1>0. Text = Seq(Character) /\ Gap \in Character
  BY DEF Text, Character
<1>. DEFINE g == <<Gap>>
<1>1. g \in Seq(Character) /\ Len(g) = 1 /\ g[1] = Gap
  BY <1>0
<1>. HIDE DEF g
<1>2. Len(t) \in Nat /\ 1 <= Len(t) /\ t[(Len(t) - 1) + 1] = Gap
  BY <1>0 DEF Last
<1>3. t \in Seq(Character)
  BY <1>0
<1>4. IsSuffix(g, t)
  <2>1. \A i \in 1 .. 1 : g[i] = t[(Len(t) - 1) + i]
    BY <1>1, <1>2
  <2>2. Len(g) <= Len(t) /\ \A i \in 1 .. Len(g) : g[i] = t[(Len(t) - Len(g)) + i]
    BY <1>1, <1>2, <2>1
  <2>. QED
    BY <1>1, <1>3, <2>2, SuffixCut
<1>5. SubSeq(t, 1, Len(t) - Len(g)) \in Seq(Character) /\ t = SubSeq(t, 1, Len(t) - Len(g)) \o g
  BY <1>1, <1>3, <1>4, SuffixCut
<1>. QED
  BY <1>0, <1>5 DEF g

\* One whose first character is a gap is one with a gap before it.
LEMMA StartsWithGap ==
  ASSUME NEW t \in Text, t # <<>>, Head(t) = Gap
  PROVE  \E s \in Text : t = <<Gap>> \o s
<1>0. Text = Seq(Character) /\ Gap \in Character
  BY DEF Text, Character
<1>. DEFINE g == <<Gap>>
<1>1. g \in Seq(Character) /\ Len(g) = 1 /\ g[1] = Gap
  BY <1>0
<1>. HIDE DEF g
<1>2. Len(t) \in Nat /\ 1 <= Len(t) /\ t[1] = Gap
  BY <1>0
<1>3. t \in Seq(Character)
  BY <1>0
<1>4. IsPrefix(g, t)
  BY <1>1, <1>2, <1>3, PrefixCut
<1>5. SubSeq(t, Len(g) + 1, Len(t)) \in Seq(Character) /\ t = g \o SubSeq(t, Len(g) + 1, Len(t))
  BY <1>1, <1>3, <1>4, PrefixCut
<1>. QED
  BY <1>0, <1>5 DEF g

\* Stripping a text takes nothing off that is read.
LEMMA StrippedReads ==
  ASSUME NEW t \in Text
  PROVE  /\ RStrip(t) \in Text /\ Reading(RStrip(t)) = Reading(t)
         /\ LStrip(t) \in Text /\ Reading(LStrip(t)) = Reading(t)
<1>1. PICK g \in Text : Blank(g) /\ t = RStrip(t) \o g
  BY RStripParts
<1>2. PICK h \in Text : Blank(h) /\ t = h \o LStrip(t)
  BY LStripParts
<1>3. RStrip(t) \in Text /\ LStrip(t) \in Text
  BY RStripParts, LStripParts
<1>. DEFINE r == RStrip(t)
            l == LStrip(t)
<1>. HIDE DEF r, l
<1>4. r \in Text /\ l \in Text /\ t = r \o g /\ t = h \o l
  BY <1>1, <1>2, <1>3 DEF r, l
<1>5. Reading(r \o g) = Reading(r)
  BY <1>1, <1>4, ReadingLaws
<1>6. Reading(h \o l) = Reading(l)
  BY <1>2, <1>4, ReadingLaws
<1>7. Reading(r) = Reading(t) /\ Reading(l) = Reading(t)
  BY <1>4, <1>5, <1>6
<1>. QED
  BY <1>3, <1>7 DEF r, l

\* The ends of a stripped text are not gaps.
LEMMA StripEnds ==
  ASSUME NEW t \in Text
  PROVE  /\ Strip(t) \in Text
         /\ Strip(t) # <<>> => Strip(t)[1] # Gap /\ Last(Strip(t)) # Gap
<1>0. Text = Seq(Character)
  BY DEF Text, Character
<1>. DEFINE r == RStrip(t)
            l == LStrip(r)
<1>1. r \in Text /\ (r = <<>> \/ Last(r) # Gap)
  BY RStripParts
<1>. HIDE DEF r
<1>2. l \in Text /\ (l = <<>> \/ l[1] # Gap) /\ \E h \in Text : r = h \o l
  BY <1>1, LStripParts
<1>. HIDE DEF l
<1>3. ASSUME l # <<>>
      PROVE  Last(l) # Gap
  <2>1. PICK h \in Text : r = h \o l
    BY <1>2
  <2>2. /\ Len(h) \in Nat /\ Len(l) \in Nat /\ Len(l) > 0
        /\ Len(h \o l) = Len(h) + Len(l) /\ (h \o l)[Len(h) + Len(l)] = l[Len(l)]
    BY <1>0, <1>2, <1>3
  <2>3. r # <<>> /\ Last(r) = Last(l)
    BY <2>1, <2>2 DEF Last
  <2>. QED
    BY <1>1, <2>3
<1>. QED
  BY <1>2, <1>3 DEF Strip, r, l

\* Two sides joined read as one after the other.
LEMMA JoinedReads ==
  ASSUME NEW s \in Text, NEW t \in Text
  PROVE  Joined(s, t) \in Text /\ Reading(Joined(s, t)) = Reading(s) \o Reading(t)
<1>0. /\ Text = Seq(Character) /\ <<Gap>> \in Text /\ <<>> \in Text
      /\ Reading(s) \in Seq(Character) /\ Reading(t) \in Seq(Character)
  BY ReadingLaws DEF Text, Character, Closed
<1>1. CASE s = <<>>
  <2>1. s \o t = t
    BY <1>0, <1>1, ConcatEmptySeq
  <2>2. Reading(s) \o Reading(t) = Reading(t)
    BY <1>0, <1>1, ReadingLaws, ConcatEmptySeq
  <2>. QED
    BY <1>1, <2>1, <2>2 DEF Joined
<1>2. CASE t = <<>>
  <2>1. s \o t = s
    BY <1>0, <1>2, ConcatEmptySeq
  <2>2. Reading(s) \o Reading(t) = Reading(s)
    BY <1>0, <1>2, ReadingLaws, ConcatEmptySeq
  <2>. QED
    BY <1>2, <2>1, <2>2 DEF Joined
<1>3. CASE s # <<>> /\ t # <<>>
  <2>1. Joined(s, t) = s \o <<Gap>> \o t
    BY <1>3 DEF Joined
  <2>2. (s \o <<Gap>>) \o t \in Text
    <3>1. s \o <<Gap>> \in Text
      BY <1>0, ConcatProperties
    <3>. QED
      BY <1>0, <3>1, ConcatProperties
  <2>. QED
    BY <2>1, <2>2, ReadingLaws
<1>. QED
  BY <1>1, <1>2, <1>3

\* So do two parts of a text between which there is a gap.
LEMMA PartsRead ==
  ASSUME NEW s \in Text, NEW t \in Text,
         s = <<>> \/ Last(s) = Gap \/ t = <<>> \/ Head(t) = Gap
  PROVE  Reading(s \o t) = Reading(s) \o Reading(t)
<1>0. /\ Text = Seq(Character) /\ <<Gap>> \in Text /\ Blank(<<Gap>>)
      /\ Reading(s) \in Seq(Character) /\ Reading(t) \in Seq(Character)
  <2>1. Text = Seq(Character) /\ <<Gap>> \in Text
    BY DEF Text, Character
  <2>2. Blank(<<Gap>>)
    BY <2>1 DEF Blank
  <2>3. Closed(Reading(s)) /\ Closed(Reading(t))
    BY ReadingLaws
  <2>. QED
    BY <2>1, <2>2, <2>3 DEF Closed
<1>1. CASE s = <<>>
  <2>1. s \o t = t
    BY <1>0, <1>1, ConcatEmptySeq
  <2>2. Reading(s) \o Reading(t) = Reading(t)
    BY <1>0, <1>1, ReadingLaws, ConcatEmptySeq
  <2>. QED
    BY <2>1, <2>2
<1>2. CASE t = <<>>
  <2>1. s \o t = s
    BY <1>0, <1>2, ConcatEmptySeq
  <2>2. Reading(s) \o Reading(t) = Reading(s)
    BY <1>0, <1>2, ReadingLaws, ConcatEmptySeq
  <2>. QED
    BY <2>1, <2>2
<1>3. CASE s # <<>> /\ Last(s) = Gap
  <2>1. PICK r \in Text : s = r \o <<Gap>>
    BY <1>3, EndsInGap
  <2>2. Reading((r \o <<Gap>>) \o t) = Reading(r) \o Reading(t)
    BY ReadingLaws
  <2>3. Reading(r \o <<Gap>>) = Reading(r)
    BY <1>0, ReadingLaws
  <2>. QED
    BY <2>1, <2>2, <2>3
<1>4. CASE t # <<>> /\ Head(t) = Gap
  <2>1. PICK r \in Text : t = <<Gap>> \o r
    BY <1>4, StartsWithGap
  <2>2. Reading((s \o <<Gap>>) \o r) = Reading(s) \o Reading(r)
    BY ReadingLaws
  <2>3. Reading(<<Gap>> \o r) = Reading(r)
    BY <1>0, ReadingLaws
  <2>4. (s \o <<Gap>>) \o r = s \o (<<Gap>> \o r)
    BY <1>0, ConcatAssociative, SMTT(40)
  <2>. QED
    BY <2>1, <2>2, <2>3, <2>4
<1>. QED
  BY <1>1, <1>2, <1>3, <1>4

\* The words of a text are what is read of it, but for a gap at the end.
LEMMA WordsRead ==
  ASSUME NEW t \in Text
  PROVE  Words(t) = RStrip(Reading(t))
<1>. DEFINE r == ReadFrom(<<>>, t)
<1>1. r \in Text /\ Reading(t) = Read(r, Gap)
  BY ReadLawsFromStart DEF Reading, Text, Character
<1>2. Words(t) = RStrip(r)
  BY FoldRead DEF Words
<1>. HIDE DEF r
<1>3. RStrip(Read(r, Gap)) = RStrip(r)
  BY <1>1, RStripGap DEF Read
<1>. QED
  BY <1>1, <1>2, <1>3

-----------------------------------------------------------------------------
(* A shift, side by side. *)

Projection == [text : [Unit -> Text], pruned : SUBSET (Unit \cup {NoUnit}), refused : BOOLEAN]

\* What the projection reads of a decision.
Payload(e) ==
  /\ e.op \in {"prune", "replace_text", "boundary_shift"}
  /\ e.targets \subseteq Unit \cup {NoUnit}
  /\ e.text \in Text \cup {NoText}
  /\ e.left \in Unit \cup {NoUnit}
  /\ e.direction \in {"push", "pull", "unknown"}

\* Every unit has one place in the spine.
LEMMA SpinePlaces ==
  /\ Len(Spine) \in Nat /\ DOMAIN Spine = 1 .. Len(Spine)
  /\ \A i \in 1 .. Len(Spine) : Spine[i] \in Unit /\ Place(Spine[i]) = i
  /\ \A u \in Unit : Place(u) \in 1 .. Len(Spine) /\ Spine[Place(u)] = u
<1>1. Len(Spine) \in Nat /\ DOMAIN Spine = 1 .. Len(Spine)
  BY SpineUnits
<1>2. \A u \in Unit : Place(u) \in 1 .. Len(Spine) /\ Spine[Place(u)] = u
  BY DEF Unit, Place
<1>3. \A i \in 1 .. Len(Spine) : Spine[i] \in Unit
  BY DEF Unit
<1>4. \A i, j \in 1 .. Len(Spine) : Spine[i] = Spine[j] => i = j
  BY <1>1, SpineUnits DEF IsInjective
<1>. QED
  BY <1>1, <1>2, <1>3, <1>4

\* A boundary of the spine: its two sides and the words to move over it.
LEMMA BoundaryNamed ==
  ASSUME NEW e, Payload(e), NamesBoundary(e)
  PROVE  /\ e.left \in Unit /\ RightOf(e) \in Unit /\ e.left # RightOf(e)
         /\ Place(e.left) \in 1 .. Len(Spine) /\ Place(e.left) + 1 \in 1 .. Len(Spine)
         /\ Place(RightOf(e)) = Place(e.left) + 1
         /\ Moved(e) \in Text /\ Moved(e) # <<>> /\ Moved(e)[1] # Gap /\ Last(Moved(e)) # Gap
<1>1. e.left \in Unit /\ Place(e.left) < Len(Spine) /\ Moved(e) # <<>>
  BY DEF Payload, NamesBoundary
<1>2. Place(e.left) \in 1 .. Len(Spine) /\ Place(e.left) + 1 \in 1 .. Len(Spine)
  BY <1>1, SpinePlaces
<1>3. RightOf(e) \in Unit /\ Place(RightOf(e)) = Place(e.left) + 1
  BY <1>2, SpinePlaces DEF RightOf
<1>4. e.left # RightOf(e)
  BY <1>2, <1>3
<1>5. NewText(e) \in Text
  BY DEF Payload, NewText, Text
<1>6. Moved(e) \in Text /\ Moved(e)[1] # Gap /\ Last(Moved(e)) # Gap
  BY <1>1, <1>5, StripEnds DEF Moved
<1>. QED
  BY <1>1, <1>2, <1>3, <1>4, <1>6

\* What a push leaves on the two sides; pre is what the words leave behind.
LEMMA Pushed ==
  ASSUME NEW p \in Projection, NEW e, Payload(e), NamesBoundary(e), e.direction # "pull", Carried(p, e)
  PROVE  LET base == RStrip(p.text[e.left])
             pre == SubSeq(base, 1, Len(base) - Len(Moved(e)))
         IN  /\ pre \in Text /\ base \in Text /\ base = pre \o Moved(e)
             /\ Push(p, e) \in Projection
             /\ Push(p, e).pruned = p.pruned /\ Push(p, e).refused = p.refused
             /\ Push(p, e).text[e.left] = RStrip(pre)
             /\ Push(p, e).text[RightOf(e)] = Joined(Moved(e), LStrip(p.text[RightOf(e)]))
             /\ \A u \in Unit : u # e.left /\ u # RightOf(e) => Push(p, e).text[u] = p.text[u]
<1>. DEFINE l == e.left
            r == RightOf(e)
            m == Moved(e)
            base == RStrip(p.text[l])
            pre == SubSeq(base, 1, Len(base) - Len(m))
<1>1. /\ l \in Unit /\ r \in Unit /\ l # r /\ m \in Text
      /\ p.text \in [Unit -> Text] /\ p.text[l] \in Text /\ p.text[r] \in Text
  BY BoundaryNamed DEF Projection
<1>2. base \in Text /\ LStrip(p.text[r]) \in Text
  BY <1>1, StrippedReads
<1>3. IsSuffix(m, base)
  BY DEF Carried
<1>4. pre \in Text /\ base = pre \o m
  <2>. HIDE DEF base, m
  <2>1. m \in Seq(Character) /\ base \in Seq(Character)
    BY <1>1, <1>2 DEF Text, Character
  <2>2. SubSeq(base, 1, Len(base) - Len(m)) \in Seq(Character) /\ base = SubSeq(base, 1, Len(base) - Len(m)) \o m
    BY <1>3, <2>1, SuffixCut
  <2>. QED
    BY <2>2 DEF Text, Character
<1>. DEFINE a == RStrip(pre)
            b == Joined(m, LStrip(p.text[r]))
<1>5. a \in Text
  <2>. HIDE DEF pre
  <2>. QED
    BY <1>4, StrippedReads
<1>6. b \in Text
  BY <1>1, <1>2, JoinedReads
<1>7. Push(p, e) = [p EXCEPT !.text = [[p.text EXCEPT ![l] = a] EXCEPT ![r] = b]]
  BY <1>1 DEF Push, Projection
<1>. HIDE DEF l, r, m, base, pre, a, b
<1>8. [[p.text EXCEPT ![l] = a] EXCEPT ![r] = b] \in [Unit -> Text]
  BY <1>1, <1>5, <1>6
<1>9. /\ Push(p, e) \in Projection
      /\ Push(p, e).pruned = p.pruned /\ Push(p, e).refused = p.refused
      /\ Push(p, e).text = [[p.text EXCEPT ![l] = a] EXCEPT ![r] = b]
  BY <1>7, <1>8 DEF Projection
<1>10. /\ Push(p, e).text[l] = a /\ Push(p, e).text[r] = b
       /\ \A u \in Unit : u # l /\ u # r => Push(p, e).text[u] = p.text[u]
  BY <1>1, <1>9
<1>. QED
  BY <1>2, <1>4, <1>9, <1>10 DEF l, r, m, base, pre, a, b

\* What a pull leaves; rest is what the words leave behind.
LEMMA Pulled ==
  ASSUME NEW p \in Projection, NEW e, Payload(e), NamesBoundary(e), e.direction = "pull", Carried(p, e)
  PROVE  LET base == LStrip(p.text[RightOf(e)])
             rest == SubSeq(base, Len(Moved(e)) + 1, Len(base))
         IN  /\ rest \in Text /\ base \in Text /\ base = Moved(e) \o rest
             /\ Pull(p, e) \in Projection
             /\ Pull(p, e).pruned = p.pruned /\ Pull(p, e).refused = p.refused
             /\ Pull(p, e).text[e.left] = Joined(RStrip(p.text[e.left]), Moved(e))
             /\ Pull(p, e).text[RightOf(e)] = LStrip(rest)
             /\ \A u \in Unit : u # e.left /\ u # RightOf(e) => Pull(p, e).text[u] = p.text[u]
<1>. DEFINE l == e.left
            r == RightOf(e)
            m == Moved(e)
            base == LStrip(p.text[r])
            rest == SubSeq(base, Len(m) + 1, Len(base))
<1>1. /\ l \in Unit /\ r \in Unit /\ l # r /\ m \in Text
      /\ p.text \in [Unit -> Text] /\ p.text[l] \in Text /\ p.text[r] \in Text
  BY BoundaryNamed DEF Projection
<1>2. base \in Text /\ RStrip(p.text[l]) \in Text
  BY <1>1, StrippedReads
<1>3. IsPrefix(m, base)
  BY DEF Carried
<1>4. rest \in Text /\ base = m \o rest
  <2>. HIDE DEF base, m
  <2>1. m \in Seq(Character) /\ base \in Seq(Character)
    BY <1>1, <1>2 DEF Text, Character
  <2>2. SubSeq(base, Len(m) + 1, Len(base)) \in Seq(Character) /\ base = m \o SubSeq(base, Len(m) + 1, Len(base))
    BY <1>3, <2>1, PrefixCut
  <2>. QED
    BY <2>2 DEF Text, Character
<1>. DEFINE a == LStrip(rest)
            b == Joined(RStrip(p.text[l]), m)
<1>5. a \in Text
  <2>. HIDE DEF rest
  <2>. QED
    BY <1>4, StrippedReads
<1>6. b \in Text
  BY <1>1, <1>2, JoinedReads
<1>7. Pull(p, e) = [p EXCEPT !.text = [[p.text EXCEPT ![r] = a] EXCEPT ![l] = b]]
  BY <1>1 DEF Pull, Projection
<1>. HIDE DEF l, r, m, base, rest, a, b
<1>8. [[p.text EXCEPT ![r] = a] EXCEPT ![l] = b] \in [Unit -> Text]
  BY <1>1, <1>5, <1>6
<1>9. /\ Pull(p, e) \in Projection
      /\ Pull(p, e).pruned = p.pruned /\ Pull(p, e).refused = p.refused
      /\ Pull(p, e).text = [[p.text EXCEPT ![r] = a] EXCEPT ![l] = b]
  BY <1>7, <1>8 DEF Projection
<1>10. /\ Pull(p, e).text[r] = a /\ Pull(p, e).text[l] = b
       /\ \A u \in Unit : u # l /\ u # r => Pull(p, e).text[u] = p.text[u]
  BY <1>1, <1>9
<1>. QED
  BY <1>2, <1>4, <1>9, <1>10 DEF l, r, m, base, rest, a, b

\* Whole words moved over a boundary: the two sides read as they did, one after
\* the other, and each as what it lost or got.
LEMMA ShiftReads ==
  ASSUME NEW p \in Projection, NEW e, Payload(e), Whole(p, e), ~ p.refused, e.op = "boundary_shift"
  PROVE  LET q == ApplyEdit(p, e)
             l == e.left
             r == RightOf(e)
         IN  /\ q \in Projection /\ q.pruned = p.pruned /\ ~ q.refused
             /\ \A u \in Unit : u # l /\ u # r => q.text[u] = p.text[u]
             /\ Reading(q.text[l]) \o Reading(q.text[r]) = Reading(p.text[l]) \o Reading(p.text[r])
<1>. DEFINE q == ApplyEdit(p, e)
            l == e.left
            r == RightOf(e)
            m == Moved(e)
<1>1. NamesBoundary(e) /\ Carried(p, e)
  BY DEF Whole
<1>2. q = IF e.direction = "pull" THEN Pull(p, e) ELSE Push(p, e)
  BY <1>1 DEF ApplyEdit, BoundaryShift
<1>3. /\ l \in Unit /\ r \in Unit /\ m \in Text /\ m # <<>>
      /\ p.text[l] \in Text /\ p.text[r] \in Text
  BY <1>1, BoundaryNamed DEF Projection
<1>4. \A t \in Text : Reading(t) \in Seq(Character)
  BY ReadingLaws DEF Closed, Text, Character
<1>5. CASE e.direction # "pull"
  <2>. DEFINE base == RStrip(p.text[l])
              pre == SubSeq(base, 1, Len(base) - Len(m))
              old == LStrip(p.text[r])
  <2>1. /\ pre \in Text /\ base \in Text /\ base = pre \o m
        /\ q \in Projection /\ q.pruned = p.pruned /\ q.refused = p.refused
        /\ q.text[l] = RStrip(pre)
        /\ q.text[r] = Joined(m, old)
        /\ \A u \in Unit : u # l /\ u # r => q.text[u] = p.text[u]
    BY <1>1, <1>2, <1>5, Pushed
  <2>2. pre = <<>> \/ Last(pre) = Gap
    BY <1>5 DEF Whole
  <2>3. Reading(base) = Reading(p.text[l]) /\ Reading(old) = Reading(p.text[r]) /\ old \in Text
    BY <1>3, StrippedReads
  <2>. HIDE DEF l, r, m, q, base, pre, old
  <2>4. Reading(pre \o m) = Reading(pre) \o Reading(m)
    BY <1>3, <2>1, <2>2, PartsRead
  <2>5. Reading(Joined(m, old)) = Reading(m) \o Reading(old)
    BY <1>3, <2>3, JoinedReads
  <2>6. Reading(RStrip(pre)) = Reading(pre)
    BY <2>1, StrippedReads
  <2>7. Reading(q.text[l]) \o Reading(q.text[r]) = Reading(pre) \o (Reading(m) \o Reading(old))
    BY <2>1, <2>5, <2>6
  <2>8. Reading(p.text[l]) \o Reading(p.text[r]) = (Reading(pre) \o Reading(m)) \o Reading(old)
    BY <2>1, <2>3, <2>4
  <2>9. (Reading(pre) \o Reading(m)) \o Reading(old) = Reading(pre) \o (Reading(m) \o Reading(old))
    <3>1. Reading(pre) \in Seq(Character) /\ Reading(m) \in Seq(Character) /\ Reading(old) \in Seq(Character)
      BY <1>3, <1>4, <2>1, <2>3
    <3>. QED
      BY <3>1, ConcatAssociative, SMTT(40)
  <2>. QED
    BY <2>1, <2>7, <2>8, <2>9 DEF l, r, q
<1>6. CASE e.direction = "pull"
  <2>. DEFINE base == LStrip(p.text[r])
              rest == SubSeq(base, Len(m) + 1, Len(base))
              old == RStrip(p.text[l])
  <2>1. /\ rest \in Text /\ base \in Text /\ base = m \o rest
        /\ q \in Projection /\ q.pruned = p.pruned /\ q.refused = p.refused
        /\ q.text[l] = Joined(old, m)
        /\ q.text[r] = LStrip(rest)
        /\ \A u \in Unit : u # l /\ u # r => q.text[u] = p.text[u]
    BY <1>1, <1>2, <1>6, Pulled
  <2>2. rest = <<>> \/ Head(rest) = Gap
    BY <1>6 DEF Whole
  <2>3. Reading(base) = Reading(p.text[r]) /\ Reading(old) = Reading(p.text[l]) /\ old \in Text
    BY <1>3, StrippedReads
  <2>. HIDE DEF l, r, m, q, base, rest, old
  <2>4. Reading(m \o rest) = Reading(m) \o Reading(rest)
    BY <1>3, <2>1, <2>2, PartsRead
  <2>5. Reading(Joined(old, m)) = Reading(old) \o Reading(m)
    BY <1>3, <2>3, JoinedReads
  <2>6. Reading(LStrip(rest)) = Reading(rest)
    BY <2>1, StrippedReads
  <2>7. Reading(q.text[l]) \o Reading(q.text[r]) = (Reading(old) \o Reading(m)) \o Reading(rest)
    BY <2>1, <2>5, <2>6
  <2>8. Reading(p.text[l]) \o Reading(p.text[r]) = Reading(old) \o (Reading(m) \o Reading(rest))
    BY <2>1, <2>3, <2>4
  <2>9. (Reading(old) \o Reading(m)) \o Reading(rest) = Reading(old) \o (Reading(m) \o Reading(rest))
    <3>1. Reading(old) \in Seq(Character) /\ Reading(m) \in Seq(Character) /\ Reading(rest) \in Seq(Character)
      BY <1>3, <1>4, <2>1, <2>3
    <3>. QED
      BY <3>1, ConcatAssociative
  <2>. QED
    BY <2>1, <2>7, <2>8, <2>9 DEF l, r, q
<1>. QED
  BY <1>5, <1>6

\* A decision applied to a projection gives one.
LEMMA ApplyType ==
  ASSUME NEW p \in Projection, NEW e, Payload(e)
  PROVE  ApplyEdit(p, e) \in Projection
<1>1. CASE p.refused
  BY <1>1 DEF ApplyEdit
<1>2. CASE ~ p.refused /\ e.op = "prune"
  BY <1>2 DEF ApplyEdit, Prune, Projection, Payload
<1>3. CASE ~ p.refused /\ e.op = "replace_text"
  <2>1. NewText(e) \in Text
    BY DEF Payload, NewText, Text
  <2>2. [u \in Unit |-> IF u \in e.targets THEN NewText(e) ELSE p.text[u]] \in [Unit -> Text]
    BY <2>1 DEF Projection
  <2>3. ApplyEdit(p, e) = [p EXCEPT !.text = [u \in Unit |-> IF u \in e.targets THEN NewText(e) ELSE p.text[u]]]
    BY <1>3 DEF ApplyEdit, ReplaceText
  <2>. QED
    BY <2>2, <2>3 DEF Projection
<1>4. CASE ~ p.refused /\ e.op = "boundary_shift"
  <2>1. CASE ~ (NamesBoundary(e) /\ Carried(p, e))
    BY <1>4, <2>1 DEF ApplyEdit, BoundaryShift, Projection
  <2>2. CASE NamesBoundary(e) /\ Carried(p, e) /\ e.direction = "pull"
    BY <1>4, <2>2, Pulled DEF ApplyEdit, BoundaryShift
  <2>3. CASE NamesBoundary(e) /\ Carried(p, e) /\ e.direction # "pull"
    BY <1>4, <2>3, Pushed DEF ApplyEdit, BoundaryShift
  <2>. QED
    BY <2>1, <2>2, <2>3
<1>. QED
  BY <1>1, <1>2, <1>3, <1>4 DEF Payload

-----------------------------------------------------------------------------
(* A shift and its mirror. *)

\* Words joined before a text start it, and leave what reads as that text.
LEMMA JoinedHead ==
  ASSUME NEW m \in Text, m # <<>>, m[1] # Gap, NEW t \in Text
  PROVE  /\ LStrip(Joined(m, t)) = Joined(m, t)
         /\ \E g \in Text : Joined(m, t) = m \o g /\ Reading(g) = Reading(t)
<1>0. Text = Seq(Character) /\ Gap \in Character /\ <<Gap>> \in Text /\ <<>> \in Text
  BY DEF Text, Character
<1>1. \E g \in Text : Joined(m, t) = m \o g /\ Reading(g) = Reading(t)
  <2>1. CASE t = <<>>
    BY <2>1 DEF Joined
  <2>2. CASE t # <<>>
    <3>1. Joined(m, t) = (m \o <<Gap>>) \o t
      BY <2>2 DEF Joined
    <3>2. (m \o <<Gap>>) \o t = m \o (<<Gap>> \o t) /\ <<Gap>> \o t \in Text
      BY <1>0, ConcatAssociative, ConcatProperties
    <3>3. Blank(<<Gap>>)
      BY <1>0 DEF Blank
    <3>4. Reading(<<Gap>> \o t) = Reading(t)
      BY <1>0, <3>3, ReadingLaws
    <3>. QED
      BY <3>1, <3>2, <3>4
  <2>. QED
    BY <2>1, <2>2
<1>2. PICK g \in Text : Joined(m, t) = m \o g
  BY <1>1
<1>. DEFINE j == m \o g
<1>3. j \in Text /\ j # <<>> /\ j[1] # Gap
  BY <1>0
<1>. HIDE DEF j
<1>4. LStrip(j) = j
  BY <1>3, LStripParts
<1>. QED
  BY <1>1, <1>2, <1>4 DEF j

\* Words joined after a text end it, and leave what reads as that text.
LEMMA JoinedTail ==
  ASSUME NEW m \in Text, m # <<>>, Last(m) # Gap, NEW t \in Text
  PROVE  /\ RStrip(Joined(t, m)) = Joined(t, m)
         /\ \E g \in Text : Joined(t, m) = g \o m /\ Reading(g) = Reading(t)
<1>0. Text = Seq(Character) /\ Gap \in Character /\ <<Gap>> \in Text /\ <<>> \in Text
  BY DEF Text, Character
<1>1. \E g \in Text : Joined(t, m) = g \o m /\ Reading(g) = Reading(t)
  <2>1. CASE t = <<>>
    BY <2>1 DEF Joined
  <2>2. CASE t # <<>>
    <3>1. Joined(t, m) = (t \o <<Gap>>) \o m
      BY <2>2 DEF Joined
    <3>2. t \o <<Gap>> \in Text
      BY <1>0, ConcatProperties
    <3>3. Blank(<<Gap>>)
      BY <1>0 DEF Blank
    <3>4. Reading(t \o <<Gap>>) = Reading(t)
      BY <1>0, <3>3, ReadingLaws
    <3>. QED
      BY <3>1, <3>2, <3>4
  <2>. QED
    BY <2>1, <2>2
<1>2. PICK g \in Text : Joined(t, m) = g \o m
  BY <1>1
<1>. DEFINE j == g \o m
<1>3. j \in Text /\ j # <<>> /\ Last(j) = Last(m)
  <2>1. /\ Len(g) \in Nat /\ Len(m) \in Nat /\ Len(m) > 0
        /\ Len(g \o m) = Len(g) + Len(m) /\ (g \o m)[Len(g) + Len(m)] = m[Len(m)]
        /\ g \o m \in Seq(Character)
    BY <1>0
  <2>. QED
    BY <1>0, <2>1 DEF Last
<1>. HIDE DEF j
<1>4. RStrip(j) = j
  BY <1>3, RStripParts
<1>. QED
  BY <1>1, <1>2, <1>4 DEF j

\* Whole words shifted and shifted back: the mirror is accepted, and every
\* position reads as it did.
LEMMA ShiftBack ==
  ASSUME NEW p \in Projection, ~ p.refused,
         NEW c \in Content, c.op = "boundary_shift", Whole(p, c)
  PROVE  LET there == ApplyEdit(p, c)
             back  == ApplyEdit(there, Mirror(c))
         IN  ~ back.refused /\ \A u \in Unit : Words(back.text[u]) = Words(p.text[u])
<1>. DEFINE there == ApplyEdit(p, c)
            d == Mirror(c)
            back == ApplyEdit(there, d)
            l == c.left
            r == RightOf(c)
            m == Moved(c)
<1>1. /\ d.op = c.op /\ d.text = c.text /\ d.left = c.left /\ (d.direction = "pull" <=> c.direction # "pull")
      /\ d.direction \in {"push", "pull"}
      /\ Payload(c) /\ Payload(d)
  BY DEF Content, Payload, Mirror, Whole, NamesBoundary
<1>2. Moved(d) = m /\ RightOf(d) = r /\ d.left = l /\ d.op = "boundary_shift"
  BY <1>1 DEF Moved, NewText, RightOf
<1>3. NamesBoundary(c) /\ Carried(p, c) /\ NamesBoundary(d)
  BY <1>1, <1>2 DEF Whole, NamesBoundary
<1>4. /\ l \in Unit /\ r \in Unit /\ l # r
      /\ m \in Text /\ m # <<>> /\ m[1] # Gap /\ Last(m) # Gap
      /\ p.text \in [Unit -> Text] /\ p.text[l] \in Text /\ p.text[r] \in Text
  BY <1>1, <1>3, BoundaryNamed DEF Projection
<1>5. /\ there \in Projection /\ ~ there.refused
      /\ \A u \in Unit : u # l /\ u # r => there.text[u] = p.text[u]
  BY <1>1, ShiftReads
<1>. HIDE DEF d
<1>6. /\ ~ back.refused /\ back \in Projection
      /\ \A u \in Unit : u # l /\ u # r => back.text[u] = there.text[u]
      /\ Reading(back.text[l]) = Reading(p.text[l])
      /\ Reading(back.text[r]) = Reading(p.text[r])
  <2>1. CASE c.direction # "pull"
    <3>. DEFINE base == RStrip(p.text[l])
                pre == SubSeq(base, 1, Len(base) - Len(m))
                old == LStrip(p.text[r])
                j == Joined(m, old)
    <3>1. there = Push(p, c)
      BY <1>3, <2>1 DEF ApplyEdit, BoundaryShift
    <3>2. /\ pre \in Text /\ base \in Text /\ base = pre \o m
          /\ there.text[l] = RStrip(pre) /\ there.text[r] = j
      BY <1>1, <1>3, <2>1, <3>1, Pushed
    <3>3. pre = <<>> \/ Last(pre) = Gap
      BY <2>1 DEF Whole
    <3>4. Reading(base) = Reading(p.text[l]) /\ Reading(old) = Reading(p.text[r]) /\ old \in Text
      BY <1>4, StrippedReads
    <3>. HIDE DEF old
    <3>5. LStrip(j) = j /\ \E g \in Text : j = m \o g /\ Reading(g) = Reading(old)
      BY <1>4, <3>4, JoinedHead
    <3>6. PICK g \in Text : j = m \o g /\ Reading(g) = Reading(old)
      BY <3>5
    <3>. HIDE DEF base, pre, j
    <3>7. IsPrefix(m, j) /\ SubSeq(j, Len(m) + 1, Len(j)) = g
      <4>1. m \in Seq(Character) /\ g \in Seq(Character)
        BY <1>4 DEF Text, Character
      <4>. QED
        BY <3>6, <4>1, ConcatCut
    <3>. HIDE DEF there
    <3>8. Carried(there, d) /\ d.direction = "pull"
      BY <1>1, <1>2, <2>1, <3>2, <3>5, <3>7 DEF Carried
    <3>9. back = Pull(there, d)
      BY <1>2, <1>3, <1>5, <3>8 DEF ApplyEdit, BoundaryShift
    <3>. HIDE DEF back
    <3>10. /\ back \in Projection /\ back.refused = there.refused
           /\ back.text[l] = Joined(RStrip(there.text[l]), m)
           /\ back.text[r] = LStrip(SubSeq(LStrip(there.text[r]), Len(m) + 1, Len(LStrip(there.text[r]))))
           /\ \A u \in Unit : u # l /\ u # r => back.text[u] = there.text[u]
      <4>. HIDE DEF l, r, m
      <4>1. LET b == LStrip(there.text[RightOf(d)])
                rest == SubSeq(b, Len(Moved(d)) + 1, Len(b))
            IN  /\ Pull(there, d) \in Projection
                /\ Pull(there, d).refused = there.refused
                /\ Pull(there, d).text[d.left] = Joined(RStrip(there.text[d.left]), Moved(d))
                /\ Pull(there, d).text[RightOf(d)] = LStrip(rest)
                /\ \A u \in Unit : u # d.left /\ u # RightOf(d) => Pull(there, d).text[u] = there.text[u]
        BY <1>1, <1>3, <1>5, <3>8, Pulled
      <4>. QED
        BY <1>2, <3>9, <4>1
    <3>11. back.text[l] = Joined(RStrip(RStrip(pre)), m) /\ back.text[r] = LStrip(g)
      BY <3>2, <3>5, <3>7, <3>10
    <3>12. Reading(LStrip(g)) = Reading(p.text[r])
      BY <3>4, <3>6, StrippedReads
    <3>13. Reading(RStrip(RStrip(pre))) = Reading(pre) /\ RStrip(RStrip(pre)) \in Text
      <4>1. RStrip(pre) \in Text /\ Reading(RStrip(pre)) = Reading(pre)
        BY <3>2, StrippedReads
      <4>. DEFINE s == RStrip(pre)
      <4>2. s \in Text
        BY <4>1
      <4>. HIDE DEF s
      <4>3. RStrip(s) \in Text /\ Reading(RStrip(s)) = Reading(s)
        BY <4>2, StrippedReads
      <4>. QED
        BY <4>1, <4>3 DEF s
    <3>14. Reading(Joined(RStrip(RStrip(pre)), m)) = Reading(RStrip(RStrip(pre))) \o Reading(m)
      BY <1>4, <3>13, JoinedReads
    <3>15. Reading(pre \o m) = Reading(pre) \o Reading(m)
      BY <1>4, <3>2, <3>3, PartsRead
    <3>. QED
      BY <1>5, <3>2, <3>4, <3>10, <3>11, <3>12, <3>13, <3>14, <3>15
  <2>2. CASE c.direction = "pull"
    <3>. DEFINE base == LStrip(p.text[r])
                rest == SubSeq(base, Len(m) + 1, Len(base))
                old == RStrip(p.text[l])
                j == Joined(old, m)
    <3>1. there = Pull(p, c)
      BY <1>3, <2>2 DEF ApplyEdit, BoundaryShift
    <3>2. /\ rest \in Text /\ base \in Text /\ base = m \o rest
          /\ there.text[l] = j /\ there.text[r] = LStrip(rest)
      BY <1>1, <1>3, <2>2, <3>1, Pulled
    <3>3. rest = <<>> \/ Head(rest) = Gap
      BY <2>2 DEF Whole
    <3>4. Reading(base) = Reading(p.text[r]) /\ Reading(old) = Reading(p.text[l]) /\ old \in Text
      BY <1>4, StrippedReads
    <3>. HIDE DEF old
    <3>5. RStrip(j) = j /\ \E g \in Text : j = g \o m /\ Reading(g) = Reading(old)
      BY <1>4, <3>4, JoinedTail
    <3>6. PICK g \in Text : j = g \o m /\ Reading(g) = Reading(old)
      BY <3>5
    <3>. HIDE DEF base, rest, j
    <3>7. IsSuffix(m, j) /\ SubSeq(j, 1, Len(j) - Len(m)) = g
      <4>1. m \in Seq(Character) /\ g \in Seq(Character)
        BY <1>4 DEF Text, Character
      <4>. QED
        BY <3>6, <4>1, ConcatCut
    <3>. HIDE DEF there
    <3>8. Carried(there, d) /\ d.direction # "pull"
      BY <1>1, <1>2, <2>2, <3>2, <3>5, <3>7 DEF Carried
    <3>9. back = Push(there, d)
      BY <1>2, <1>3, <1>5, <3>8 DEF ApplyEdit, BoundaryShift
    <3>. HIDE DEF back
    <3>10. /\ back \in Projection /\ back.refused = there.refused
           /\ back.text[l] = RStrip(SubSeq(RStrip(there.text[l]), 1, Len(RStrip(there.text[l])) - Len(m)))
           /\ back.text[r] = Joined(m, LStrip(there.text[r]))
           /\ \A u \in Unit : u # l /\ u # r => back.text[u] = there.text[u]
      <4>. HIDE DEF l, r, m
      <4>1. LET b == RStrip(there.text[d.left])
                pre == SubSeq(b, 1, Len(b) - Len(Moved(d)))
            IN  /\ Push(there, d) \in Projection
                /\ Push(there, d).refused = there.refused
                /\ Push(there, d).text[d.left] = RStrip(pre)
                /\ Push(there, d).text[RightOf(d)] = Joined(Moved(d), LStrip(there.text[RightOf(d)]))
                /\ \A u \in Unit : u # d.left /\ u # RightOf(d) => Push(there, d).text[u] = there.text[u]
        BY <1>1, <1>3, <1>5, <3>8, Pushed
      <4>. QED
        BY <1>2, <3>9, <4>1
    <3>11. back.text[l] = RStrip(g) /\ back.text[r] = Joined(m, LStrip(LStrip(rest)))
      BY <3>2, <3>5, <3>7, <3>10
    <3>12. Reading(RStrip(g)) = Reading(p.text[l])
      BY <3>4, <3>6, StrippedReads
    <3>13. Reading(LStrip(LStrip(rest))) = Reading(rest) /\ LStrip(LStrip(rest)) \in Text
      <4>1. LStrip(rest) \in Text /\ Reading(LStrip(rest)) = Reading(rest)
        BY <3>2, StrippedReads
      <4>. DEFINE s == LStrip(rest)
      <4>2. s \in Text
        BY <4>1
      <4>. HIDE DEF s
      <4>3. LStrip(s) \in Text /\ Reading(LStrip(s)) = Reading(s)
        BY <4>2, StrippedReads
      <4>. QED
        BY <4>1, <4>3 DEF s
    <3>14. Reading(Joined(m, LStrip(LStrip(rest)))) = Reading(m) \o Reading(LStrip(LStrip(rest)))
      BY <1>4, <3>13, JoinedReads
    <3>15. Reading(m \o rest) = Reading(m) \o Reading(rest)
      BY <1>4, <3>2, <3>3, PartsRead
    <3>. QED
      BY <1>5, <3>2, <3>4, <3>10, <3>11, <3>12, <3>13, <3>14, <3>15
  <2>. QED
    BY <2>1, <2>2
<1>. HIDE DEF back, there, l, r, m
<1>7. ASSUME NEW u \in Unit
      PROVE  Words(back.text[u]) = Words(p.text[u])
  <2>1. back.text[u] \in Text /\ p.text[u] \in Text
    BY <1>4, <1>6 DEF Projection
  <2>2. Reading(back.text[u]) = Reading(p.text[u])
    BY <1>5, <1>6
  <2>. QED
    BY <2>1, <2>2, WordsRead
<1>. QED
  BY <1>6, <1>7 DEF back, there, d

-----------------------------------------------------------------------------
(* Decisions applied one after another. *)

\* What Decide may append to the log.
Decided == {Edit(c, id, at) : c \in Contents, id \in EditId, at \in 1 .. MaxTime}

ApplyStep == [x \in Projection \X Decided |-> ApplyEdit(x[1], x[2])]

\* The projection after some decisions, from p on.
After(p, q) == Folded(Projection, p, q, ApplyStep)

\* A decision is a payload with an id and a time.
LEMMA DecidedType ==
  ASSUME NEW e \in Decided
  PROVE  Payload(e) /\ e.id \in Nat /\ e.at \in Nat
<1>1. PICK c \in Contents, id \in EditId, at \in 1 .. MaxTime : e = Edit(c, id, at)
  BY DEF Decided
<1>2. c \in Content /\ id \in Nat /\ at \in Nat
  BY SpineDecisions
<1>3. /\ e.op = c.op /\ e.targets = c.targets /\ e.text = c.text /\ e.left = c.left
      /\ e.direction = c.direction /\ e.id = id /\ e.at = at
  BY <1>1 DEF Edit
<1>. QED
  BY <1>2, <1>3 DEF Content, Payload

\* The spine before any decision.
LEMMA UntouchedType == Untouched \in Projection
BY SpineTexts DEF Untouched, Projection

\* One step of the fold.
LEMMA ApplyStepType == ApplyStep \in [Projection \X Decided -> Projection]
<1>1. ASSUME NEW p \in Projection, NEW e \in Decided
      PROVE  ApplyEdit(p, e) \in Projection
  BY DecidedType, ApplyType
<1>. QED
  BY <1>1 DEF ApplyStep

\* The library's fold of the decisions is the fold by what stands after each.
LEMMA FoldEdits ==
  ASSUME NEW q \in Seq(Decided)
  PROVE  FoldLeft(ApplyEdit, Untouched, q) = After(Untouched, q)
<1>. DEFINE n == Len(q)
            P(iter) == iter = [d \in SUBSET (1 .. n) |->
                          IF d = {} THEN Untouched ELSE ApplyEdit(iter[d \ {Max(d)}], q[Max(d)])]
            iter == CHOOSE f : P(f)
<1>1. n \in Nat /\ DOMAIN q = 1 .. n /\ Untouched \in Projection /\ \A i \in 1 .. n : q[i] \in Decided
  BY UntouchedType
<1>2. FoldLeft(ApplyEdit, Untouched, q) = iter[1 .. n]
  <2>1. FoldLeft(ApplyEdit, Untouched, q) =
          (CHOOSE f : f = [d \in SUBSET DOMAIN q |->
             IF d = {} THEN Untouched ELSE ApplyEdit(f[d \ {Max(d)}], q[Max(d)])])[DOMAIN q]
    BY DEF FoldLeft, MapThenFoldSet
  <2>. QED
    BY <1>1, <2>1
<1>3. Foldable(Projection, Decided, Untouched, q, ApplyStep)
  BY <1>1, ApplyStepType DEF Foldable
<1>4. PICK f \in [SUBSET (1 .. n) -> Projection] : Recursion(f, Untouched, q, ApplyStep)
  BY <1>3, RecursionExists
<1>5. P(f)
  <2>1. ASSUME NEW d \in SUBSET (1 .. n), d # {}
        PROVE  ApplyStep[<<f[d \ {Max(d)}], q[Max(d)]>>] = ApplyEdit(f[d \ {Max(d)}], q[Max(d)])
    <3>1. Max(d) \in 1 .. n
      BY <1>1, <2>1, MaxOfPositions
    <3>2. <<f[d \ {Max(d)}], q[Max(d)]>> \in Projection \X Decided
      BY <1>1, <3>1
    <3>. QED
      BY <3>2 DEF ApplyStep
  <2>. QED
    BY <1>4, <2>1 DEF Recursion
<1>6. P(iter)
  <2>. HIDE DEF P
  <2>. QED
    BY <1>5
<1>. HIDE DEF iter
<1>7. iter[{}] = Untouched
  <2>1. {} \in SUBSET (1 .. n)
    OBVIOUS
  <2>. QED
    BY <1>6, <2>1
<1>8. ASSUME NEW m \in 1 .. n, iter[1 .. (m - 1)] \in Projection
      PROVE  iter[1 .. m] = ApplyStep[<<iter[1 .. (m - 1)], q[m]>>]
  <2>1. /\ (1 .. m) \in SUBSET (1 .. n) /\ (1 .. m) # {}
        /\ Max(1 .. m) = m /\ (1 .. m) \ {m} = 1 .. (m - 1)
    BY <1>1, FirstPositions
  <2>2. iter[1 .. m] = ApplyEdit(iter[1 .. (m - 1)], q[m])
    BY <1>6, <2>1
  <2>. QED
    BY <1>1, <1>8, <2>2 DEF ApplyStep
<1>9. iter[1 .. n] = Folded(Projection, Untouched, q, ApplyStep)
  BY <1>3, <1>7, <1>8, FoldedByPositions
<1>. QED
  BY <1>2, <1>9 DEF After

\* No decision, one more, and some after others.
LEMMA AfterLaws ==
  ASSUME NEW p \in Projection, NEW q \in Seq(Decided)
  PROVE  /\ After(p, q) \in Projection
         /\ After(p, <<>>) = p
         /\ \A e \in Decided : After(p, Append(q, e)) = ApplyEdit(After(p, q), e)
         /\ \A r \in Seq(Decided) : After(p, q \o r) = After(After(p, q), r)
<1>1. \A r \in Seq(Decided) : Foldable(Projection, Decided, p, r, ApplyStep)
  BY ApplyStepType DEF Foldable
<1>2. After(p, q) \in Projection
  BY <1>1, FoldedRun DEF After
<1>3. After(p, <<>>) = p
  <2>1. <<>> \in Seq(Decided) /\ Len(<<>>) = 0
    OBVIOUS
  <2>. QED
    BY <1>1, <2>1, FoldedEmpty DEF After
<1>4. ASSUME NEW e \in Decided
      PROVE  After(p, Append(q, e)) = ApplyEdit(After(p, q), e)
  <2>1. After(p, Append(q, e)) = ApplyStep[<<After(p, q), e>>]
    BY <1>1, FoldedAppend DEF After
  <2>2. <<After(p, q), e>> \in Projection \X Decided
    BY <1>2
  <2>. QED
    BY <2>1, <2>2 DEF ApplyStep
<1>5. ASSUME NEW r \in Seq(Decided)
      PROVE  After(p, q \o r) = After(After(p, q), r)
  BY <1>1, FoldedConcat DEF After
<1>. QED
  BY <1>2, <1>3, <1>4, <1>5

\* A refused projection stays as it is.
LEMMA RefusedStays ==
  ASSUME NEW p \in Projection, p.refused
  PROVE  \A q \in Seq(Decided) : After(p, q) = p
<1>. DEFINE S == {q \in Seq(Decided) : After(p, q) = p}
<1>1. <<>> \in S
  <2>1. <<>> \in Seq(Decided)
    OBVIOUS
  <2>2. After(p, <<>>) = p
    BY <2>1, AfterLaws
  <2>. QED
    BY <2>1, <2>2
<1>2. ASSUME NEW q \in Seq(Decided), NEW e \in Decided, q \in S
      PROVE  Append(q, e) \in S
  <2>1. After(p, Append(q, e)) = ApplyEdit(After(p, q), e)
    BY AfterLaws
  <2>2. ApplyEdit(p, e) = p
    BY DEF ApplyEdit
  <2>. QED
    BY <1>2, <2>1, <2>2
<1>3. Seq(Decided) \subseteq S
  <2>. HIDE DEF S
  <2>. QED
    BY <1>1, <1>2, SeqInduction
<1>. QED
  BY <1>3

\* A prune and any decision can change places.
LEMMA PruneAside ==
  ASSUME NEW p \in Projection, NEW e \in Decided, NEW f \in Decided
  PROVE  ApplyEdit(Prune(p, e), f) = Prune(ApplyEdit(p, f), e)
<1>. DEFINE pe == Prune(p, e)
<1>1. Payload(e) /\ Payload(f)
  BY DecidedType
<1>2. pe \in Projection /\ pe.text = p.text /\ pe.refused = p.refused /\ pe.pruned = p.pruned \cup e.targets
  BY <1>1 DEF Prune, Projection, Payload
<1>3. ASSUME NEW a \in Projection, NEW b \in Projection,
             b.text = a.text, b.refused = a.refused, b.pruned = a.pruned \cup e.targets
      PROVE  b = Prune(a, e)
  BY <1>3 DEF Prune, Projection
<1>4. ApplyEdit(p, f) \in Projection /\ ApplyEdit(pe, f) \in Projection
  BY <1>1, <1>2, ApplyType
<1>. HIDE DEF pe
<1>5. CASE p.refused
  BY <1>2, <1>3, <1>5 DEF ApplyEdit
<1>6. CASE ~ p.refused /\ f.op = "prune"
  <2>1. ApplyEdit(p, f) = Prune(p, f) /\ ApplyEdit(pe, f) = Prune(pe, f)
    BY <1>2, <1>6 DEF ApplyEdit
  <2>2. /\ Prune(p, f).text = p.text /\ Prune(p, f).refused = p.refused
        /\ Prune(p, f).pruned = p.pruned \cup f.targets
        /\ Prune(pe, f).text = pe.text /\ Prune(pe, f).refused = pe.refused
        /\ Prune(pe, f).pruned = pe.pruned \cup f.targets
    BY <1>2 DEF Prune, Projection
  <2>3. pe.pruned \cup f.targets = (p.pruned \cup f.targets) \cup e.targets
    BY <1>2
  <2>. QED
    BY <1>2, <1>3, <1>4, <2>1, <2>2, <2>3 DEF pe
<1>7. CASE ~ p.refused /\ f.op = "replace_text"
  <2>1. ApplyEdit(p, f) = ReplaceText(p, f) /\ ApplyEdit(pe, f) = ReplaceText(pe, f)
    BY <1>2, <1>7 DEF ApplyEdit
  <2>2. /\ ReplaceText(pe, f).text = ReplaceText(p, f).text
        /\ ReplaceText(pe, f).refused = ReplaceText(p, f).refused
        /\ ReplaceText(pe, f).pruned = ReplaceText(p, f).pruned \cup e.targets
    BY <1>2 DEF ReplaceText, Projection
  <2>. QED
    BY <1>3, <1>4, <2>1, <2>2 DEF pe
<1>8. CASE ~ p.refused /\ f.op = "boundary_shift"
  <2>1. ApplyEdit(p, f) = BoundaryShift(p, f) /\ ApplyEdit(pe, f) = BoundaryShift(pe, f)
    BY <1>2, <1>8 DEF ApplyEdit
  <2>2. Carried(pe, f) <=> Carried(p, f)
    BY <1>2 DEF Carried
  <2>3. CASE ~ (NamesBoundary(f) /\ Carried(p, f))
    <3>1. ApplyEdit(p, f) = [p EXCEPT !.refused = TRUE] /\ ApplyEdit(pe, f) = [pe EXCEPT !.refused = TRUE]
      BY <2>1, <2>2, <2>3 DEF BoundaryShift
    <3>2. /\ ApplyEdit(pe, f).text = ApplyEdit(p, f).text
          /\ ApplyEdit(pe, f).refused = ApplyEdit(p, f).refused
          /\ ApplyEdit(pe, f).pruned = ApplyEdit(p, f).pruned \cup e.targets
      BY <1>2, <3>1 DEF Projection
    <3>. QED
      BY <1>3, <1>4, <3>2 DEF pe
  <2>4. CASE NamesBoundary(f) /\ Carried(p, f) /\ f.direction = "pull"
    <3>1. ApplyEdit(p, f) = Pull(p, f) /\ ApplyEdit(pe, f) = Pull(pe, f)
      BY <2>1, <2>2, <2>4 DEF BoundaryShift
    <3>2. Pull(p, f).pruned = p.pruned /\ Pull(p, f).refused = p.refused
      BY <1>1, <2>4, Pulled
    <3>3. Pull(pe, f).pruned = pe.pruned /\ Pull(pe, f).refused = pe.refused
      BY <1>1, <1>2, <2>2, <2>4, Pulled
    <3>4. Pull(pe, f).text = Pull(p, f).text
      BY <1>2 DEF Pull, Projection
    <3>. QED
      BY <1>2, <1>3, <1>4, <3>1, <3>2, <3>3, <3>4 DEF pe
  <2>5. CASE NamesBoundary(f) /\ Carried(p, f) /\ f.direction # "pull"
    <3>1. ApplyEdit(p, f) = Push(p, f) /\ ApplyEdit(pe, f) = Push(pe, f)
      BY <2>1, <2>2, <2>5 DEF BoundaryShift
    <3>2. Push(p, f).pruned = p.pruned /\ Push(p, f).refused = p.refused
      BY <1>1, <2>5, Pushed
    <3>3. Push(pe, f).pruned = pe.pruned /\ Push(pe, f).refused = pe.refused
      BY <1>1, <1>2, <2>2, <2>5, Pushed
    <3>4. Push(pe, f).text = Push(p, f).text
      BY <1>2 DEF Push, Projection
    <3>. QED
      BY <1>2, <1>3, <1>4, <3>1, <3>2, <3>3, <3>4 DEF pe
  <2>. QED
    BY <2>3, <2>4, <2>5
<1>. QED
  BY <1>1, <1>5, <1>6, <1>7, <1>8 DEF Payload, pe

\* So a prune before some decisions is one after them.
LEMMA PruneLater ==
  ASSUME NEW p \in Projection, NEW e \in Decided
  PROVE  \A q \in Seq(Decided) : After(Prune(p, e), q) = Prune(After(p, q), e)
<1>. DEFINE pe == Prune(p, e)
            S == {q \in Seq(Decided) : After(pe, q) = Prune(After(p, q), e)}
<1>0. pe \in Projection
  BY DecidedType DEF Prune, Projection, Payload
<1>1. <<>> \in S
  <2>1. <<>> \in Seq(Decided)
    OBVIOUS
  <2>. HIDE DEF pe
  <2>2. After(p, <<>>) = p
    BY <2>1, AfterLaws
  <2>3. After(pe, <<>>) = pe
    BY <1>0, <2>1, AfterLaws
  <2>. QED
    BY <2>1, <2>2, <2>3 DEF pe
<1>2. ASSUME NEW q \in Seq(Decided), NEW f \in Decided, q \in S
      PROVE  Append(q, f) \in S
  <2>. HIDE DEF pe
  <2>1. After(p, q) \in Projection /\ After(p, Append(q, f)) = ApplyEdit(After(p, q), f)
    BY AfterLaws
  <2>2. After(pe, Append(q, f)) = ApplyEdit(After(pe, q), f)
    BY <1>0, AfterLaws
  <2>3. ApplyEdit(Prune(After(p, q), e), f) = Prune(ApplyEdit(After(p, q), f), e)
    BY <2>1, PruneAside
  <2>4. Append(q, f) \in Seq(Decided)
    OBVIOUS
  <2>. QED
    BY <1>2, <2>1, <2>2, <2>3, <2>4
<1>3. Seq(Decided) \subseteq S
  <2>. HIDE DEF S
  <2>. QED
    BY <1>1, <1>2, SeqInduction
<1>. QED
  BY <1>3

-----------------------------------------------------------------------------
(* The order of application. *)

\* Decisions with ids of their own.
Distinct(S) == S \subseteq Decided /\ \A e, f \in S : e.id = f.id => e = f

Ordered(q) == \A i, j \in DOMAIN q : i < j => Before(q[i], q[j])

\* q is S in order.
Enumerates(q, S) ==
  q \in Seq(S) /\ Ordered(q) /\ \A x \in S : \E i \in 1 .. Len(q) : q[i] = x

\* The order of decisions is strict and total between those of other ids.
LEMMA BeforeOrder ==
  ASSUME NEW e \in Decided, NEW f \in Decided, NEW g \in Decided
  PROVE  /\ ~ Before(e, e)
         /\ ~ (Before(e, f) /\ Before(f, e))
         /\ Before(e, f) /\ Before(f, g) => Before(e, g)
         /\ e.id # f.id => Before(e, f) \/ Before(f, e)
<1>1. /\ e.id \in Nat /\ e.at \in Nat /\ f.id \in Nat /\ f.at \in Nat /\ g.id \in Nat /\ g.at \in Nat
  BY DecidedType
<1>. QED
  BY <1>1 DEF Before

\* What one order of some decisions has at a position, any other has there.
LEMMA EnumerationsAgree ==
  ASSUME NEW S \in SUBSET Decided, NEW q, Enumerates(q, S), NEW r, Enumerates(r, S)
  PROVE  Len(q) <= Len(r) /\ \A k \in 1 .. Len(q) : q[k] = r[k]
<1>0. /\ q \in Seq(S) /\ r \in Seq(S) /\ Len(q) \in Nat /\ Len(r) \in Nat
      /\ DOMAIN q = 1 .. Len(q) /\ DOMAIN r = 1 .. Len(r)
      /\ \A i \in 1 .. Len(q) : q[i] \in S
      /\ \A i \in 1 .. Len(r) : r[i] \in S
  BY DEF Enumerates
<1>1. /\ \A i, j \in 1 .. Len(q) : i < j => Before(q[i], q[j]) /\ q[i] # q[j]
      /\ \A i, j \in 1 .. Len(r) : i < j => Before(r[i], r[j]) /\ r[i] # r[j]
  <2>1. \A i, j \in 1 .. Len(q) : i < j => Before(q[i], q[j])
    BY <1>0 DEF Enumerates, Ordered
  <2>2. \A i, j \in 1 .. Len(r) : i < j => Before(r[i], r[j])
    BY <1>0 DEF Enumerates, Ordered
  <2>3. \A x \in S : ~ Before(x, x)
    BY BeforeOrder
  <2>. QED
    BY <1>0, <2>1, <2>2, <2>3
<1>2. /\ \A x \in S : \E i \in 1 .. Len(q) : q[i] = x
      /\ \A x \in S : \E i \in 1 .. Len(r) : r[i] = x
  BY DEF Enumerates
<1>. DEFINE same(k) == k \in 1 .. Len(q) => k <= Len(r) /\ q[k] = r[k]
            missed == {k \in Nat : ~ same(k)}
<1>3. ASSUME missed # {}
      PROVE  FALSE
  <2>1. PICK k \in missed : \A j \in missed : k <= j
    <3>. HIDE DEF missed
    <3>1. missed \in SUBSET Nat
      BY DEF missed
    <3>. QED
      BY <1>3, <3>1, LeastNatural
  <2>2. k \in 1 .. Len(q) /\ ~ (k <= Len(r) /\ q[k] = r[k])
    OBVIOUS
  <2>3. \A j \in 1 .. Len(q) : j < k => j <= Len(r) /\ q[j] = r[j]
    <3>. TAKE j \in 1 .. Len(q)
    <3>1. j < k => j \in Nat /\ j \notin missed
      <4>1. k \in Nat /\ j \in Nat
        OBVIOUS
      <4>. HIDE DEF missed
      <4>. QED
        BY <2>1, <4>1
    <3>. QED
      BY <3>1
  <2>. HIDE DEF missed, same
  <2>4. PICK l \in 1 .. Len(r) : r[l] = q[k]
    BY <1>0, <1>2, <2>2
  <2>5. ~ (l < k)
    <3>. SUFFICES ASSUME l < k PROVE FALSE
      OBVIOUS
    <3>1. l \in 1 .. Len(q)
      BY <1>0, <2>2
    <3>. QED
      BY <1>1, <2>2, <2>3, <2>4, <3>1
  <2>6. k < l /\ k \in 1 .. Len(r)
    BY <1>0, <2>2, <2>4, <2>5
  <2>7. Before(r[k], q[k])
    BY <1>1, <2>4, <2>6
  <2>8. PICK m \in 1 .. Len(q) : q[m] = r[k]
    BY <1>0, <1>2, <2>6
  <2>9. ~ (m < k)
    <3>. SUFFICES ASSUME m < k PROVE FALSE
      OBVIOUS
    <3>1. m \in 1 .. Len(r) /\ r[m] = r[k]
      BY <1>0, <2>3, <2>8
    <3>. QED
      BY <1>1, <2>6, <3>1
  <2>10. k < m
    BY <1>0, <2>2, <2>6, <2>8, <2>9
  <2>11. Before(q[k], r[k])
    BY <1>1, <2>2, <2>8, <2>10
  <2>12. q[k] \in Decided /\ r[k] \in Decided
    BY <1>0, <2>2, <2>6
  <2>. QED
    BY <2>7, <2>11, <2>12, BeforeOrder
<1>4. \A k \in 1 .. Len(q) : k <= Len(r) /\ q[k] = r[k]
  <2>1. \A k \in Nat : same(k)
    BY <1>3
  <2>2. \A k \in 1 .. Len(q) : k \in Nat
    OBVIOUS
  <2>. QED
    BY <2>1, <2>2
<1>5. Len(q) <= Len(r)
  <2>1. CASE Len(q) = 0
    BY <1>0, <2>1
  <2>2. CASE Len(q) # 0
    <3>1. Len(q) \in 1 .. Len(q)
      BY <1>0, <2>2
    <3>. QED
      BY <1>4, <3>1
  <2>. QED
    BY <2>1, <2>2
<1>. QED
  BY <1>4, <1>5

\* There is one order of some decisions.
LEMMA OneEnumeration ==
  ASSUME NEW S \in SUBSET Decided, NEW q, Enumerates(q, S), NEW r, Enumerates(r, S)
  PROVE  q = r
<1>1. Len(q) <= Len(r) /\ \A k \in 1 .. Len(q) : q[k] = r[k]
  BY EnumerationsAgree, ZenonT(60)
<1>2. Len(r) <= Len(q)
  BY EnumerationsAgree
<1>3. q \in Seq(S) /\ r \in Seq(S)
  BY DEF Enumerates
<1>4. Len(q) = Len(r)
  BY <1>1, <1>2, <1>3
<1>. QED
  BY <1>1, <1>3, <1>4, SeqEqual

\* The sequences of a finite set that the library lists are these.
LEMMA EnumerationListed ==
  ASSUME NEW S \in SUBSET Decided, IsFiniteSet(S)
  PROVE  \A q : Enumerates(q, S) <=> q \in SetToSeqs(S) /\ Ordered(q)
<1>1. ASSUME NEW q, Enumerates(q, S)
      PROVE  q \in SetToSeqs(S) /\ Ordered(q)
  <2>. DEFINE n == Len(q)
  <2>0. q \in Seq(S) /\ Ordered(q) /\ \A x \in S : \E i \in 1 .. n : q[i] = x
    BY <1>1 DEF Enumerates
  <2>1. n \in Nat /\ q \in [1 .. n -> S] /\ DOMAIN q = 1 .. n
    BY <2>0
  <2>2. \A i, j \in 1 .. n : i # j => q[i] # q[j]
    <3>. TAKE i, j \in 1 .. n
    <3>1. i # j => i < j \/ j < i
      OBVIOUS
    <3>2. q[i] \in Decided
      BY <2>1
    <3>3. ~ Before(q[i], q[i])
      BY <3>2, BeforeOrder
    <3>4. i < j => Before(q[i], q[j])
      BY <2>0, <2>1 DEF Ordered
    <3>5. j < i => Before(q[j], q[i])
      BY <2>0, <2>1 DEF Ordered
    <3>. QED
      BY <3>1, <3>3, <3>4, <3>5
  <2>3. q \in Bijection(1 .. n, S)
    <3>. HIDE DEF n
    <3>1. q \in Injection(1 .. n, S)
      BY <2>1, <2>2 DEF Injection, IsInjective
    <3>2. q \in Surjection(1 .. n, S)
      BY <2>0, <2>1 DEF Surjection
    <3>. QED
      BY <3>1, <3>2 DEF Bijection
  <2>4. Cardinality(S) = n
    <3>. HIDE DEF n
    <3>. QED
      BY <2>1, <2>3, FS_CountingElements DEF ExistsBijection
  <2>. QED
    BY <2>0, <2>1, <2>2, <2>4 DEF SetToSeqs
<1>2. ASSUME NEW q, q \in SetToSeqs(S), Ordered(q)
      PROVE  Enumerates(q, S)
  <2>. DEFINE n == Cardinality(S)
  <2>1. n \in Nat
    BY FS_CardinalityType
  <2>2. q \in [1 .. n -> S] /\ \A i, j \in 1 .. n : i # j => q[i] # q[j]
    BY <1>2 DEF SetToSeqs
  <2>3. q \in Seq(S) /\ Len(q) = n
    <3>. HIDE DEF n
    <3>. QED
      BY <2>1, <2>2
  <2>4. IsFiniteSet(1 .. n) /\ Cardinality(1 .. n) = n
    <3>. HIDE DEF n
    <3>1. 1 \in Int /\ n \in Int
      BY <2>1
    <3>2. IsFiniteSet(1 .. n) /\ Cardinality(1 .. n) = IF 1 > n THEN 0 ELSE n - 1 + 1
      BY <3>1, FS_Interval
    <3>. QED
      BY <2>1, <3>2
  <2>5. q \in Injection(1 .. n, S)
    <3>. HIDE DEF n
    <3>. QED
      BY <2>2 DEF Injection, IsInjective
  <2>6. q \in Surjection(1 .. n, S)
    BY <2>4, <2>5, FS_Injection
  <2>7. \A x \in S : \E i \in 1 .. n : q[i] = x
    <3>. HIDE DEF n
    <3>. QED
      BY <2>6 DEF Surjection
  <2>. QED
    BY <1>2, <2>3, <2>7 DEF Enumerates
<1>. QED
  BY <1>1, <1>2

\* A decision has its place among others.
LEMMA PlaceAmong ==
  ASSUME NEW S, NEW x \in Decided, Distinct(S \cup {x}), x \notin S, NEW q, Enumerates(q, S)
  PROVE  \E a, b \in Seq(S) : q = a \o b /\ Enumerates((a \o <<x>>) \o b, S \cup {x})
<1>. DEFINE n == Len(q)
            later == {i \in 1 .. n + 1 : i = n + 1 \/ Before(x, q[i])}
<1>0. /\ q \in Seq(S) /\ n \in Nat /\ DOMAIN q = 1 .. n /\ S \subseteq Decided
      /\ \A i \in 1 .. n : q[i] \in S
      /\ \A i, j \in 1 .. n : i < j => Before(q[i], q[j])
      /\ \A y \in S : \E i \in 1 .. n : q[i] = y
  BY SMTT(40) DEF Enumerates, Distinct, Ordered
<1>1. \A y \in S : y.id # x.id
  BY DEF Distinct
<1>2. PICK k \in later : \A j \in later : k <= j
  <2>1. later \in SUBSET Nat /\ n + 1 \in later
    BY <1>0
  <2>. HIDE DEF later
  <2>. QED
    BY <2>1, LeastNatural
<1>3. k \in 1 .. n + 1 /\ k - 1 \in 0 .. n /\ (k - 1) + 1 = k
  BY <1>0
<1>4. ASSUME NEW i \in 1 .. n, i < k
      PROVE  Before(q[i], x)
  <2>1. i \notin later
    <3>. HIDE DEF later
    <3>. QED
      BY <1>2, <1>3, <1>4
  <2>2. ~ Before(x, q[i])
    BY <1>0, <2>1
  <2>3. q[i] \in Decided /\ q[i].id # x.id
    BY <1>0, <1>1
  <2>. QED
    BY <2>2, <2>3, BeforeOrder
<1>5. ASSUME NEW i \in 1 .. n, k <= i
      PROVE  Before(x, q[i])
  <2>1. k \in 1 .. n /\ Before(x, q[k])
    BY <1>0, <1>5
  <2>2. CASE i = k
    BY <2>1, <2>2
  <2>3. CASE i # k
    <3>1. Before(q[k], q[i]) /\ q[k] \in Decided /\ q[i] \in Decided
      BY <1>0, <1>3, <1>5, <2>1, <2>3
    <3>. QED
      BY <2>1, <3>1, BeforeOrder
  <2>. QED
    BY <2>2, <2>3
<1>. HIDE DEF later
<1>. DEFINE a == SubSeq(q, 1, k - 1)
            b == SubSeq(q, (k - 1) + 1, n)
            ax == a \o <<x>>
            r == ax \o b
            T == S \cup {x}
<1>6. /\ a \in Seq(S) /\ Len(a) = k - 1 /\ \A i \in 1 .. k - 1 : a[i] = q[i]
      /\ b \in Seq(S) /\ Len(b) = n - (k - 1) /\ \A i \in 1 .. n - (k - 1) : b[i] = q[(k - 1) + i]
      /\ q = a \o b
  BY <1>0, <1>3, CutInTwo
<1>. HIDE DEF n, a, b
<1>7. /\ ax \in Seq(T) /\ Len(ax) = k /\ ax[k] = x /\ \A i \in 1 .. k - 1 : ax[i] = q[i]
  <2>1. a \in Seq(T) /\ <<x>> \in Seq(T) /\ Len(<<x>>) = 1 /\ <<x>>[1] = x
    BY <1>6
  <2>2. /\ a \o <<x>> \in Seq(T) /\ Len(a \o <<x>>) = Len(a) + 1
        /\ \A i \in 1 .. Len(a) + 1 : (a \o <<x>>)[i] = IF i <= Len(a) THEN a[i] ELSE <<x>>[i - Len(a)]
    BY <2>1, ConcatProperties
  <2>3. /\ ax \in Seq(T) /\ Len(ax) = (k - 1) + 1
        /\ \A i \in 1 .. (k - 1) + 1 : ax[i] = IF i <= k - 1 THEN a[i] ELSE <<x>>[i - (k - 1)]
    BY <1>6, <2>2
  <2>4. ax[k] = x
    <3>1. k \in 1 .. (k - 1) + 1 /\ ~ (k <= k - 1) /\ k - (k - 1) = 1
      BY <1>0, <1>3
    <3>. HIDE DEF ax
    <3>. QED
      BY <2>1, <2>3, <3>1
  <2>5. ASSUME NEW i \in 1 .. k - 1
        PROVE  ax[i] = q[i]
    <3>1. i \in 1 .. (k - 1) + 1 /\ i <= k - 1
      BY <1>0, <1>3
    <3>. HIDE DEF ax
    <3>. QED
      BY <1>6, <2>3, <3>1
  <2>. QED
    BY <1>3, <2>3, <2>4, <2>5
<1>. HIDE DEF ax
<1>8. /\ r \in Seq(T) /\ Len(r) = n + 1 /\ r[k] = x
      /\ \A i \in 1 .. n + 1 : i < k => r[i] = q[i]
      /\ \A i \in 1 .. n + 1 : k < i => r[i] = q[i - 1]
  <2>0. b \in Seq(T)
    BY <1>6
  <2>. HIDE DEF T
  <2>1. k \in Nat /\ Len(ax) = k /\ Len(b) = n - (k - 1) /\ k + (n - (k - 1)) = n + 1
    BY <1>0, <1>3, <1>6, <1>7
  <2>2. /\ r \in Seq(T) /\ Len(r) = n + 1
        /\ \A i \in 1 .. n + 1 : r[i] = IF i <= k THEN ax[i] ELSE b[i - k]
    <3>1. /\ r \in Seq(T) /\ Len(r) = Len(ax) + Len(b)
          /\ \A i \in 1 .. Len(ax) + Len(b) : r[i] = IF i <= Len(ax) THEN ax[i] ELSE b[i - Len(ax)]
      BY <1>7, <2>0, ConcatProperties
    <3>2. Len(ax) + Len(b) = n + 1
      BY <2>1
    <3>. HIDE DEF r
    <3>. QED
      BY <2>1, <3>1, <3>2
  <2>. HIDE DEF r
  <2>3. r[k] = x
    BY <1>0, <1>3, <1>7, <2>2
  <2>4. ASSUME NEW i \in 1 .. n + 1, i < k
        PROVE  r[i] = q[i]
    <3>1. i \in 1 .. k - 1 /\ i <= k
      BY <1>0, <1>3, <2>4
    <3>. QED
      BY <1>7, <2>2, <3>1
  <2>5. ASSUME NEW i \in 1 .. n + 1, k < i
        PROVE  r[i] = q[i - 1]
    <3>1. ~ (i <= k) /\ i - k \in 1 .. n - (k - 1) /\ (k - 1) + (i - k) = i - 1
      BY <1>0, <1>3, <2>5
    <3>2. r[i] = b[i - k]
      BY <2>2, <3>1
    <3>. QED
      BY <1>6, <3>1, <3>2
  <2>. QED
    BY <2>2, <2>3, <2>4, <2>5
<1>. HIDE DEF r
<1>9. Ordered(r)
  <2>1. ASSUME NEW i \in 1 .. n + 1, NEW j \in 1 .. n + 1, i < j
        PROVE  Before(r[i], r[j])
    <3>1. CASE j < k
      <4>1. i \in 1 .. n /\ j \in 1 .. n /\ i < k
        BY <1>0, <1>3, <2>1, <3>1
      <4>. QED
        BY <1>0, <1>8, <2>1, <3>1, <4>1
    <3>2. CASE j = k
      <4>1. i \in 1 .. n /\ i < k
        BY <1>0, <1>3, <2>1, <3>2
      <4>. QED
        BY <1>4, <1>8, <3>2, <4>1
    <3>3. CASE k < j /\ i = k
      <4>1. j - 1 \in 1 .. n /\ k <= j - 1
        BY <1>0, <1>3, <3>3
      <4>2. Before(x, q[j - 1])
        BY <1>5, <4>1
      <4>. QED
        BY <1>8, <3>3, <4>2
    <3>4. CASE k < j /\ i < k
      <4>1. i \in 1 .. n /\ j - 1 \in 1 .. n /\ i < j - 1
        BY <1>0, <1>3, <2>1, <3>4
      <4>. QED
        BY <1>0, <1>8, <3>4, <4>1
    <3>5. CASE k < i
      <4>1. i - 1 \in 1 .. n /\ j - 1 \in 1 .. n /\ i - 1 < j - 1 /\ k < j
        BY <1>0, <1>3, <2>1, <3>5
      <4>. QED
        BY <1>0, <1>8, <3>5, <4>1
    <3>6. j < k \/ j = k \/ (k < j /\ (i = k \/ i < k \/ k < i))
      BY <1>0, <1>3
    <3>. QED
      BY <3>1, <3>2, <3>3, <3>4, <3>5, <3>6
  <2>2. DOMAIN r = 1 .. n + 1
    BY <1>8
  <2>. QED
    BY <2>1, <2>2 DEF Ordered
<1>10. ASSUME NEW y \in T
       PROVE  \E i \in 1 .. Len(r) : r[i] = y
  <2>1. CASE y = x
    <3>1. k \in 1 .. Len(r)
      BY <1>0, <1>3, <1>8
    <3>. QED
      BY <1>8, <2>1, <3>1
  <2>2. CASE y \in S
    <3>1. PICK i \in 1 .. n : q[i] = y
      BY <1>0, <2>2
    <3>2. CASE i < k
      <4>1. i \in 1 .. Len(r) /\ i \in 1 .. n + 1
        BY <1>0, <1>8
      <4>. QED
        BY <1>8, <3>1, <3>2, <4>1
    <3>3. CASE ~ (i < k)
      <4>1. i + 1 \in 1 .. Len(r) /\ i + 1 \in 1 .. n + 1 /\ k < i + 1 /\ (i + 1) - 1 = i
        BY <1>0, <1>3, <1>8, <3>3
      <4>2. r[i + 1] = q[i]
        BY <1>8, <4>1
      <4>. QED
        BY <3>1, <4>1, <4>2
    <3>. QED
      BY <3>2, <3>3
  <2>. QED
    BY <2>1, <2>2
<1>11. Enumerates(r, T)
  BY <1>8, <1>9, <1>10 DEF Enumerates
<1>. QED
  BY <1>6, <1>11 DEF r, ax

\* After all others it is last.
LEMMA PlaceLast ==
  ASSUME NEW S \in SUBSET Decided, NEW x \in Decided, \A y \in S : Before(y, x),
         NEW q, Enumerates(q, S)
  PROVE  Enumerates(Append(q, x), S \cup {x})
<1>. DEFINE n == Len(q)
            r == Append(q, x)
            T == S \cup {x}
<1>1. /\ q \in Seq(S) /\ n \in Nat /\ DOMAIN q = 1 .. n
      /\ \A i \in 1 .. n : q[i] \in S
      /\ \A i, j \in 1 .. n : i < j => Before(q[i], q[j])
      /\ \A y \in S : \E i \in 1 .. n : q[i] = y
  BY SMTT(40) DEF Enumerates, Ordered
<1>2. /\ r \in Seq(T) /\ Len(r) = n + 1 /\ DOMAIN r = 1 .. n + 1
      /\ r[n + 1] = x /\ \A i \in 1 .. n : r[i] = q[i]
  <2>1. q \in Seq(T) /\ x \in T
    BY <1>1
  <2>. HIDE DEF T
  <2>. QED
    BY <1>1, <2>1
<1>. HIDE DEF r, n
<1>3. ASSUME NEW i \in 1 .. n + 1, NEW j \in 1 .. n + 1, i < j
      PROVE  Before(r[i], r[j])
  <2>1. i \in 1 .. n
    BY <1>1, <1>3
  <2>2. CASE j = n + 1
    BY <1>1, <1>2, <2>1, <2>2
  <2>3. CASE j # n + 1
    <3>1. j \in 1 .. n
      BY <1>1, <2>3
    <3>. QED
      BY <1>1, <1>2, <1>3, <2>1, <3>1
  <2>. QED
    BY <2>2, <2>3
<1>4. ASSUME NEW y \in T
      PROVE  \E i \in 1 .. Len(r) : r[i] = y
  <2>1. CASE y = x
    <3>1. n + 1 \in 1 .. Len(r)
      BY <1>1, <1>2
    <3>. QED
      BY <1>2, <2>1, <3>1
  <2>2. CASE y \in S
    <3>1. PICK i \in 1 .. n : q[i] = y
      BY <1>1, <2>2
    <3>2. i \in 1 .. Len(r)
      BY <1>1, <1>2
    <3>. QED
      BY <1>2, <3>1, <3>2
  <2>. QED
    BY <2>1, <2>2
<1>. QED
  BY <1>2, <1>3, <1>4 DEF Enumerates, Ordered, r

\* Every finite set of decisions with ids of their own has an order.
LEMMA EnumerationExists ==
  ASSUME NEW S, Distinct(S), IsFiniteSet(S)
  PROVE  \E q : Enumerates(q, S)
<1>. DEFINE some(A) == \E q : Enumerates(q, A)
            done == {n \in Nat : \A A \in SUBSET Decided :
                       Distinct(A) /\ IsFiniteSet(A) /\ Cardinality(A) = n => some(A)}
<1>1. 0 \in done
  <2>1. ASSUME NEW A \in SUBSET Decided, IsFiniteSet(A), Cardinality(A) = 0
        PROVE  some(A)
    <3>1. A = {}
      BY <2>1, FS_EmptySet
    <3>2. <<>> \in Seq(A) /\ DOMAIN <<>> = {}
      OBVIOUS
    <3>3. Enumerates(<<>>, A)
      BY <3>1, <3>2 DEF Enumerates, Ordered
    <3>. QED
      BY <3>3
  <2>. QED
    BY <2>1
<1>2. ASSUME NEW n \in Nat, n \in done
      PROVE  n + 1 \in done
  <2>1. ASSUME NEW A \in SUBSET Decided, Distinct(A), IsFiniteSet(A), Cardinality(A) = n + 1
        PROVE  some(A)
    <3>1. A # {}
      BY <2>1, FS_EmptySet
    <3>2. PICK x : x \in A
      BY <3>1
    <3>. DEFINE B == A \ {x}
    <3>3. IsFiniteSet(B) /\ Cardinality(B) = n
      <4>1. IsFiniteSet(B) /\ Cardinality(B) = Cardinality(A) - 1
        BY <2>1, <3>2, FS_RemoveElement
      <4>. QED
        BY <2>1, <4>1
    <3>4. B \in SUBSET Decided /\ Distinct(B) /\ B \cup {x} = A /\ x \notin B /\ x \in Decided
      BY <2>1, <3>2 DEF Distinct
    <3>. HIDE DEF B
    <3>5. some(B)
      BY <1>2, <3>3, <3>4
    <3>6. PICK q : Enumerates(q, B)
      BY <3>5
    <3>7. PICK a, b \in Seq(B) : Enumerates((a \o <<x>>) \o b, B \cup {x})
      BY <2>1, <3>4, <3>6, PlaceAmong
    <3>. QED
      BY <3>4, <3>7
  <2>. QED
    BY <2>1
<1>3. Cardinality(S) \in done
  <2>1. Cardinality(S) \in Nat
    BY FS_CardinalityType
  <2>. HIDE DEF done
  <2>. QED
    BY <1>1, <1>2, <2>1, SetInduction
<1>. QED
  BY <1>3 DEF Distinct

\* The order of application is that one.
LEMMA InOrderEnumerates ==
  ASSUME NEW S, Distinct(S), IsFiniteSet(S)
  PROVE  Enumerates(InOrder(S), S)
<1>1. S \in SUBSET Decided
  BY DEF Distinct
<1>2. PICK q : Enumerates(q, S)
  BY EnumerationExists
<1>3. q \in SetToSeqs(S) /\ Ordered(q)
  BY <1>1, <1>2, EnumerationListed
<1>4. InOrder(S) = CHOOSE r \in SetToSeqs(S) : Ordered(r)
  BY DEF InOrder, Ordered
<1>5. InOrder(S) \in SetToSeqs(S) /\ Ordered(InOrder(S))
  BY <1>3, <1>4
<1>. QED
  BY <1>1, <1>5, EnumerationListed

\* One more decision has its place in it.
LEMMA InOrderInserts ==
  ASSUME NEW S, IsFiniteSet(S), NEW x \in Decided, x \notin S, Distinct(S \cup {x})
  PROVE  \E a, b \in Seq(S) : InOrder(S) = a \o b /\ InOrder(S \cup {x}) = (a \o <<x>>) \o b
<1>. DEFINE T == S \cup {x}
<1>1. Distinct(S) /\ T \in SUBSET Decided /\ Distinct(T)
  BY DEF Distinct
<1>2. IsFiniteSet(T)
  BY FS_AddElement
<1>. HIDE DEF T
<1>3. Enumerates(InOrder(S), S) /\ Enumerates(InOrder(T), T)
  BY <1>1, <1>2, InOrderEnumerates
<1>4. PICK a, b \in Seq(S) : InOrder(S) = a \o b /\ Enumerates((a \o <<x>>) \o b, T)
  BY <1>3, PlaceAmong DEF T
<1>5. InOrder(T) = (a \o <<x>>) \o b
  BY <1>1, <1>3, <1>4, OneEnumeration
<1>. QED
  BY <1>4, <1>5 DEF T

\* After all others it is last.
LEMMA InOrderAppends ==
  ASSUME NEW S, IsFiniteSet(S), NEW x \in Decided, x \notin S, Distinct(S \cup {x}),
         \A y \in S : Before(y, x)
  PROVE  InOrder(S \cup {x}) = Append(InOrder(S), x)
<1>. DEFINE T == S \cup {x}
<1>1. Distinct(S) /\ S \in SUBSET Decided /\ T \in SUBSET Decided /\ Distinct(T)
  BY DEF Distinct
<1>2. IsFiniteSet(T)
  BY FS_AddElement
<1>. HIDE DEF T
<1>3. Enumerates(InOrder(S), S) /\ Enumerates(InOrder(T), T)
  BY <1>1, <1>2, InOrderEnumerates
<1>4. Enumerates(Append(InOrder(S), x), T)
  BY <1>1, <1>3, PlaceLast DEF T
<1>5. InOrder(T) = Append(InOrder(S), x)
  BY <1>1, <1>3, <1>4, OneEnumeration
<1>. QED
  BY <1>5 DEF T

-----------------------------------------------------------------------------
(* The word stream of a view. *)

\* What a position of the spine gives the stream.
Segments(view) ==
  [i \in DOMAIN Spine |->
     IF Spine[i] \in DOMAIN view THEN <<Gap>> \o view[Spine[i]] ELSE <<>>]

\* A text before which another one can end.
Open(t) == t = <<>> \/ Head(t) = Gap

\* What the positions of a view give: the text of each one left.
LEMMA SegmentsRead ==
  ASSUME NEW p \in Projection
  PROVE  LET ss == Segments(View(p))
         IN  /\ ss \in Seq(Text) /\ Len(ss) = Len(Spine)
             /\ \A i \in 1 .. Len(Spine) :
                  /\ Open(ss[i])
                  /\ Reading(ss[i]) = IF Spine[i] \in p.pruned THEN <<>> ELSE Reading(p.text[Spine[i]])
<1>. DEFINE ss == Segments(View(p))
<1>0. Text = Seq(Character) /\ <<Gap>> \in Text /\ <<>> \in Text /\ Blank(<<Gap>>)
  <2>1. Text = Seq(Character) /\ <<Gap>> \in Text /\ <<>> \in Text
    BY DEF Text, Character
  <2>. QED
    BY <2>1 DEF Blank
<1>1. DOMAIN View(p) = Unit \ p.pruned /\ \A u \in Unit \ p.pruned : View(p)[u] = p.text[u]
  BY DEF View
<1>2. ASSUME NEW i \in 1 .. Len(Spine)
      PROVE  /\ ss[i] \in Text /\ Open(ss[i])
             /\ Reading(ss[i]) = IF Spine[i] \in p.pruned THEN <<>> ELSE Reading(p.text[Spine[i]])
  <2>1. Spine[i] \in Unit /\ i \in DOMAIN Spine
    BY SpinePlaces
  <2>2. p.text[Spine[i]] \in Text
    BY <2>1 DEF Projection
  <2>3. CASE Spine[i] \in p.pruned
    <3>1. ss[i] = <<>>
      BY <1>1, <2>1, <2>3 DEF Segments
    <3>. QED
      BY <1>0, <2>3, <3>1, ReadingLaws DEF Open
  <2>4. CASE Spine[i] \notin p.pruned
    <3>1. ss[i] = <<Gap>> \o p.text[Spine[i]]
      BY <1>1, <2>1, <2>4 DEF Segments
    <3>. HIDE DEF ss
    <3>2. Reading(<<Gap>> \o p.text[Spine[i]]) = Reading(p.text[Spine[i]])
      BY <1>0, <2>2, ReadingLaws
    <3>. DEFINE t == p.text[Spine[i]]
    <3>3. t \in Text
      BY <2>2
    <3>. HIDE DEF t
    <3>4. <<Gap>> \o t \in Text /\ Head(<<Gap>> \o t) = Gap
      BY <1>0, <3>3
    <3>. QED
      BY <2>4, <3>1, <3>2, <3>4 DEF Open, t
  <2>. QED
    BY <2>3, <2>4
<1>3. ss \in Seq(Text) /\ Len(ss) = Len(Spine)
  <2>1. DOMAIN Spine = 1 .. Len(Spine) /\ Len(Spine) \in Nat
    BY SpinePlaces
  <2>2. ss = [i \in 1 .. Len(Spine) |-> ss[i]]
    BY <2>1 DEF Segments
  <2>. HIDE DEF ss
  <2>3. [i \in 1 .. Len(Spine) |-> ss[i]] \in Seq(Text)
    BY <1>2, <2>1
  <2>4. Len([i \in 1 .. Len(Spine) |-> ss[i]]) = Len(Spine)
    BY <2>1
  <2>. QED
    BY <2>2, <2>3, <2>4
<1>. QED
  BY <1>2, <1>3

\* One position after another: what is read so far and what it gives.
LEMMA StreamGrows ==
  ASSUME NEW ss \in Seq(Text), \A i \in 1 .. Len(ss) : Open(ss[i]),
         NEW n \in Nat, n + 1 <= Len(ss)
  PROVE  /\ Reading(FlattenSeq(SubSeq(ss, 1, n))) \in Seq(Character)
         /\ Reading(ss[n + 1]) \in Seq(Character)
         /\ Reading(FlattenSeq(SubSeq(ss, 1, n + 1))) =
              Reading(FlattenSeq(SubSeq(ss, 1, n))) \o Reading(ss[n + 1])
<1>0. Text = Seq(Character) /\ Len(ss) \in Nat
  BY DEF Text, Character
<1>. DEFINE a == SubSeq(ss, 1, n)
            t == ss[n + 1]
<1>1. a \in Seq(Text) /\ t \in Text /\ Open(t)
  BY <1>0
<1>2. SubSeq(ss, 1, n + 1) = Append(a, t)
  <2>1. 1 \in 1 .. Len(ss) /\ n + 1 \in 1 .. Len(ss) /\ (n + 1) - 1 = n
    BY <1>0
  <2>2. SubSeq(ss, 1, n + 1) = SubSeq(ss, 1, (n + 1) - 1) \o <<ss[n + 1]>>
    BY <2>1, SubSeqRecursiveSecond
  <2>3. SubSeq(ss, 1, n + 1) = a \o <<t>>
    BY <2>1, <2>2
  <2>. HIDE DEF a, t
  <2>. QED
    BY <1>1, <2>3, AppendIsConcat
<1>. HIDE DEF a, t
<1>3. FlattenSeq(a) \in Text /\ FlattenSeq(Append(a, t)) = FlattenSeq(a) \o t
  <2>1. a \in Seq(Seq(Character)) /\ t \in Seq(Character)
    BY <1>0, <1>1
  <2>2. FlattenSeq(a) \in Seq(Character)
    BY <2>1, FlattenLaws
  <2>3. FlattenSeq(Append(a, t)) = FlattenSeq(a) \o t
    BY <2>1, FlattenLaws
  <2>. QED
    BY <1>0, <2>2, <2>3
<1>. DEFINE f == FlattenSeq(a)
<1>. HIDE DEF f
<1>4. f \in Text /\ FlattenSeq(Append(a, t)) = f \o t
  BY <1>3 DEF f
<1>5. Reading(f \o t) = Reading(f) \o Reading(t)
  BY <1>1, <1>4, PartsRead DEF Open
<1>6. Reading(f) \in Seq(Character) /\ Reading(t) \in Seq(Character)
  <2>1. \A x \in Text : Reading(x) \in Seq(Character)
    BY <1>0, ReadingLaws DEF Closed
  <2>. QED
    BY <1>1, <1>4, <2>1
<1>. QED
  BY <1>2, <1>4, <1>5, <1>6 DEF a, t, f

\* Three texts one after another.
LEMMA Regrouped ==
  ASSUME NEW x \in Seq(Character), NEW y \in Seq(Character), NEW z \in Seq(Character)
  PROVE  (x \o y) \o z = x \o (y \o z)
BY ConcatAssociative

\* Two positions side by side may share their words out another way.
LEMMA StreamsAgree ==
  ASSUME NEW ss \in Seq(Text), \A i \in 1 .. Len(ss) : Open(ss[i]),
         NEW tt \in Seq(Text), \A i \in 1 .. Len(tt) : Open(tt[i]),
         Len(tt) = Len(ss), NEW k \in 1 .. Len(ss), k + 1 \in 1 .. Len(ss),
         \A i \in 1 .. Len(ss) : i # k /\ i # k + 1 => Reading(tt[i]) = Reading(ss[i]),
         Reading(tt[k]) \o Reading(tt[k + 1]) = Reading(ss[k]) \o Reading(ss[k + 1])
  PROVE  Words(FlattenSeq(tt)) = Words(FlattenSeq(ss))
<1>. DEFINE N == Len(ss)
            S(n) == Reading(FlattenSeq(SubSeq(ss, 1, n)))
            T(n) == Reading(FlattenSeq(SubSeq(tt, 1, n)))
            P(n) == n <= N =>
                      /\ n # k => T(n) = S(n)
                      /\ n = k => T(n) \o Reading(tt[k + 1]) = S(n) \o Reading(ss[k + 1])
<1>0. N \in Nat /\ Text = Seq(Character) /\ k \in Nat
  BY DEF Text, Character
<1>1. ASSUME NEW n \in Nat, n + 1 <= N
      PROVE  /\ S(n) \in Seq(Character) /\ Reading(ss[n + 1]) \in Seq(Character)
             /\ S(n + 1) = S(n) \o Reading(ss[n + 1])
             /\ T(n) \in Seq(Character) /\ Reading(tt[n + 1]) \in Seq(Character)
             /\ T(n + 1) = T(n) \o Reading(tt[n + 1])
  <2>1. /\ S(n) \in Seq(Character) /\ Reading(ss[n + 1]) \in Seq(Character)
        /\ S(n + 1) = S(n) \o Reading(ss[n + 1])
    BY <1>1, StreamGrows
  <2>2. n + 1 <= Len(tt)
    BY <1>1
  <2>3. /\ T(n) \in Seq(Character) /\ Reading(tt[n + 1]) \in Seq(Character)
        /\ T(n + 1) = T(n) \o Reading(tt[n + 1])
    BY <2>2, StreamGrows
  <2>. QED
    BY <2>1, <2>3
<1>11. \A x, y, z \in Seq(Character) : (x \o y) \o z = x \o (y \o z)
  BY Regrouped
<1>2. P(0)
  <2>1. SubSeq(ss, 1, 0) = <<>> /\ SubSeq(tt, 1, 0) = <<>>
    OBVIOUS
  <2>2. T(0) = S(0)
    BY <2>1
  <2>. HIDE DEF S, T
  <2>. QED
    BY <2>2
<1>. HIDE DEF S, T
<1>3. ASSUME NEW n \in Nat, P(n)
      PROVE  P(n + 1)
  <2>. SUFFICES ASSUME n + 1 <= N
                PROVE  /\ n + 1 # k => T(n + 1) = S(n + 1)
                       /\ n + 1 = k => T(n + 1) \o Reading(tt[k + 1]) = S(n + 1) \o Reading(ss[k + 1])
    OBVIOUS
  <2>0. n <= N
    BY <1>0
  <2>1. CASE n + 1 = k
    <3>1. n # k /\ T(n) = S(n) /\ k + 1 <= N
      BY <1>0, <1>3, <2>0, <2>1
    <3>2. /\ S(n) \in Seq(Character) /\ S(k) = S(n) \o Reading(ss[k])
          /\ T(k) = S(n) \o Reading(tt[k])
          /\ Reading(ss[k]) \in Seq(Character) /\ Reading(tt[k]) \in Seq(Character)
      BY <1>1, <2>1, <3>1
    <3>3. Reading(ss[k + 1]) \in Seq(Character) /\ Reading(tt[k + 1]) \in Seq(Character)
      BY <1>0, <1>1, <3>1
    <3>4. (S(n) \o Reading(ss[k])) \o Reading(ss[k + 1]) = S(n) \o (Reading(ss[k]) \o Reading(ss[k + 1]))
      BY <1>11, <3>2, <3>3
    <3>5. (S(n) \o Reading(tt[k])) \o Reading(tt[k + 1]) = S(n) \o (Reading(tt[k]) \o Reading(tt[k + 1]))
      BY <1>11, <3>2, <3>3
    <3>. QED
      BY <2>1, <3>2, <3>4, <3>5
  <2>2. CASE n = k
    <3>1. T(n) \o Reading(tt[k + 1]) = S(n) \o Reading(ss[k + 1])
      BY <1>3, <2>0, <2>2
    <3>2. S(n + 1) = S(n) \o Reading(ss[n + 1]) /\ T(n + 1) = T(n) \o Reading(tt[n + 1])
      BY <1>1
    <3>3. n + 1 # k
      BY <2>2
    <3>. QED
      BY <2>2, <3>1, <3>2, <3>3
  <2>3. CASE n + 1 # k /\ n # k
    <3>1. T(n) = S(n)
      BY <1>3, <2>0, <2>3
    <3>2. n + 1 \in 1 .. Len(ss) /\ n + 1 # k + 1
      BY <1>0, <2>3
    <3>3. Reading(tt[n + 1]) = Reading(ss[n + 1])
      BY <2>3, <3>2
    <3>4. S(n + 1) = S(n) \o Reading(ss[n + 1]) /\ T(n + 1) = T(n) \o Reading(tt[n + 1])
      BY <1>1
    <3>. QED
      BY <2>3, <3>1, <3>3, <3>4
  <2>. QED
    BY <2>1, <2>2, <2>3
<1>4. P(N)
  <2>. DEFINE Q == {n \in Nat : P(n)}
  <2>. HIDE DEF P
  <2>1. 0 \in Q /\ \A n \in Nat : n \in Q => n + 1 \in Q
    BY <1>2, <1>3
  <2>2. Nat \subseteq Q
    <3>. HIDE DEF Q
    <3>. QED
      BY <2>1, SetInduction
  <2>. QED
    BY <1>0, <2>2
<1>5. T(N) = S(N)
  <2>1. N # k /\ N <= N
    BY <1>0
  <2>. HIDE DEF N
  <2>. QED
    BY <1>4, <2>1
<1>6. SubSeq(ss, 1, N) = ss /\ SubSeq(tt, 1, N) = tt
  <2>1. SubSeq(ss, 1, Len(ss)) = ss
    BY SubSeqFull
  <2>2. SubSeq(tt, 1, Len(tt)) = tt
    BY SubSeqFull
  <2>. QED
    BY <2>1, <2>2
<1>7. Reading(FlattenSeq(tt)) = Reading(FlattenSeq(ss))
  <2>. HIDE DEF N
  <2>. QED
    BY <1>5, <1>6 DEF S, T
<1>8. FlattenSeq(ss) \in Text /\ FlattenSeq(tt) \in Text
  <2>1. ss \in Seq(Seq(Character)) /\ tt \in Seq(Seq(Character))
    BY <1>0
  <2>2. FlattenSeq(ss) \in Seq(Character)
    BY <2>1, FlattenLaws
  <2>3. FlattenSeq(tt) \in Seq(Character)
    BY <2>1, FlattenLaws
  <2>. QED
    BY <1>0, <2>2, <2>3
<1>9. Words(FlattenSeq(ss)) = RStrip(Reading(FlattenSeq(ss)))
  BY <1>8, WordsRead
<1>10. Words(FlattenSeq(tt)) = RStrip(Reading(FlattenSeq(tt)))
  BY <1>8, WordsRead
<1>. QED
  BY <1>7, <1>9, <1>10

\* A shift of whole words keeps the stream.
LEMMA ShiftKeepsStream ==
  ASSUME NEW p \in Projection, ~ p.refused, NEW e, Payload(e), e.op = "boundary_shift",
         Whole(p, e), SidesTogether(p, e)
  PROVE  Stream(View(ApplyEdit(p, e))) = Stream(View(p))
<1>. DEFINE q == ApplyEdit(p, e)
            l == e.left
            r == RightOf(e)
            k == Place(l)
            ss == Segments(View(p))
            tt == Segments(View(q))
<1>1. /\ q \in Projection /\ q.pruned = p.pruned
      /\ \A u \in Unit : u # l /\ u # r => q.text[u] = p.text[u]
      /\ Reading(q.text[l]) \o Reading(q.text[r]) = Reading(p.text[l]) \o Reading(p.text[r])
  BY ShiftReads
<1>2. /\ l \in Unit /\ r \in Unit /\ k \in 1 .. Len(Spine) /\ k + 1 \in 1 .. Len(Spine)
      /\ Spine[k] = l /\ Spine[k + 1] = r
  <2>1. NamesBoundary(e)
    BY DEF Whole
  <2>2. /\ l \in Unit /\ r \in Unit /\ k \in 1 .. Len(Spine) /\ k + 1 \in 1 .. Len(Spine)
        /\ Place(r) = k + 1
    BY <2>1, BoundaryNamed
  <2>. QED
    BY <2>2, SpinePlaces
<1>3. l \in p.pruned <=> r \in p.pruned
  BY DEF SidesTogether
<1>. HIDE DEF q, l, r, k
<1>4. /\ ss \in Seq(Text) /\ Len(ss) = Len(Spine)
      /\ \A i \in 1 .. Len(Spine) :
           /\ Open(ss[i])
           /\ Reading(ss[i]) = IF Spine[i] \in p.pruned THEN <<>> ELSE Reading(p.text[Spine[i]])
  BY SegmentsRead
<1>5. /\ tt \in Seq(Text) /\ Len(tt) = Len(Spine)
      /\ \A i \in 1 .. Len(Spine) :
           /\ Open(tt[i])
           /\ Reading(tt[i]) = IF Spine[i] \in q.pruned THEN <<>> ELSE Reading(q.text[Spine[i]])
  BY <1>1, SegmentsRead
<1>. HIDE DEF ss, tt
<1>6. ASSUME NEW i \in 1 .. Len(Spine), i # k, i # k + 1
      PROVE  Reading(tt[i]) = Reading(ss[i])
  <2>1. Spine[i] \in Unit /\ Place(Spine[i]) = i /\ Place(Spine[k]) = k /\ Place(Spine[k + 1]) = k + 1
    BY <1>2, SpinePlaces
  <2>2. Spine[i] # l /\ Spine[i] # r
    BY <1>2, <1>6, <2>1
  <2>3. q.text[Spine[i]] = p.text[Spine[i]]
    BY <1>1, <2>1, <2>2
  <2>. QED
    BY <1>1, <1>4, <1>5, <2>3
<1>7. Reading(tt[k]) \o Reading(tt[k + 1]) = Reading(ss[k]) \o Reading(ss[k + 1])
  <2>1. /\ Reading(ss[k]) = IF l \in p.pruned THEN <<>> ELSE Reading(p.text[l])
        /\ Reading(ss[k + 1]) = IF r \in p.pruned THEN <<>> ELSE Reading(p.text[r])
        /\ Reading(tt[k]) = IF l \in p.pruned THEN <<>> ELSE Reading(q.text[l])
        /\ Reading(tt[k + 1]) = IF r \in p.pruned THEN <<>> ELSE Reading(q.text[r])
    BY <1>1, <1>2, <1>4, <1>5
  <2>. QED
    BY <1>1, <1>3, <2>1
<1>8. Words(FlattenSeq(tt)) = Words(FlattenSeq(ss))
  <2>1. ss \in Seq(Text) /\ \A i \in 1 .. Len(ss) : Open(ss[i])
    BY <1>4
  <2>2. tt \in Seq(Text) /\ Len(tt) = Len(ss) /\ \A i \in 1 .. Len(tt) : Open(tt[i])
    BY <1>4, <1>5
  <2>3. k \in 1 .. Len(ss) /\ k + 1 \in 1 .. Len(ss)
    BY <1>2, <1>4
  <2>4. \A i \in 1 .. Len(ss) : i # k /\ i # k + 1 => Reading(tt[i]) = Reading(ss[i])
    BY <1>4, <1>6
  <2>. QED
    BY <1>7, <2>1, <2>2, <2>3, <2>4, StreamsAgree
<1>. QED
  BY <1>8 DEF Stream, Segments, ss, tt, q

-----------------------------------------------------------------------------
(* Decisions without a shift among them. *)

Plain == {e \in Decided : e.op # "boundary_shift"}

Replaces(e, u) == e.op = "replace_text" /\ u \in e.targets

\* t is what the last of some decisions to replace u's text makes it.
LatestIs(q, u, t) ==
  \/ t = Original[u] /\ \A i \in 1 .. Len(q) : ~ Replaces(q[i], u)
  \/ \E i \in 1 .. Len(q) :
       /\ Replaces(q[i], u)
       /\ t = NewText(q[i])
       /\ \A j \in 1 .. Len(q) : i < j => ~ Replaces(q[j], u)

\* What they leave: no refusal, every pruned position and each latest text.
LEMMA PlainRun ==
  ASSUME NEW q \in Seq(Plain)
  PROVE  LET p == After(Untouched, q)
         IN  /\ ~ p.refused
             /\ p.pruned = {u \in Unit \cup {NoUnit} : \E i \in 1 .. Len(q) : q[i].op = "prune" /\ u \in q[i].targets}
             /\ \A u \in Unit : LatestIs(q, u, p.text[u])
<1>. DEFINE Gone(r) == {u \in Unit \cup {NoUnit} : \E i \in 1 .. Len(r) : r[i].op = "prune" /\ u \in r[i].targets}
            Fine(r, p) == /\ ~ p.refused
                          /\ p.pruned = Gone(r)
                          /\ \A u \in Unit : LatestIs(r, u, p.text[u])
            S == {r \in Seq(Plain) : Fine(r, After(Untouched, r))}
<1>0. Seq(Plain) \subseteq Seq(Decided) /\ Plain \subseteq Decided
  <2>1. Plain \subseteq Decided
    BY DEF Plain
  <2>. QED
    BY <2>1
<1>1. <<>> \in S
  <2>1. <<>> \in Seq(Plain) /\ <<>> \in Seq(Decided) /\ Len(<<>>) = 0
    OBVIOUS
  <2>2. After(Untouched, <<>>) = Untouched
    BY <2>1, UntouchedType, AfterLaws
  <2>3. Fine(<<>>, Untouched)
    BY <2>1 DEF Untouched, LatestIs
  <2>. QED
    BY <2>1, <2>2, <2>3
<1>2. ASSUME NEW r \in Seq(Plain), NEW e \in Plain, r \in S
      PROVE  Append(r, e) \in S
  <2>. DEFINE p == After(Untouched, r)
              n == Len(r)
              re == Append(r, e)
  <2>0. r \in Seq(Decided) /\ e \in Decided
    BY <1>0
  <2>1. p \in Projection /\ After(Untouched, re) = ApplyEdit(p, e)
    BY <2>0, UntouchedType, AfterLaws
  <2>2. Fine(r, p)
    BY <1>2
  <2>3. /\ re \in Seq(Plain) /\ n \in Nat /\ Len(re) = n + 1 /\ re[n + 1] = e
        /\ \A i \in 1 .. n : re[i] = r[i]
        /\ \A i \in 1 .. n + 1 : i # n + 1 => i \in 1 .. n
        /\ n + 1 \in 1 .. n + 1
        /\ \A i \in 1 .. n : i \in 1 .. n + 1 /\ i < n + 1
    OBVIOUS
  <2>4. Payload(e)
    BY <2>0, DecidedType
  <2>. HIDE DEF p, n, re
  <2>5. CASE e.op = "prune"
    <3>1. ApplyEdit(p, e) = Prune(p, e)
      BY <2>2, <2>5 DEF ApplyEdit
    <3>2. Prune(p, e).text = p.text /\ Prune(p, e).refused = p.refused /\ Prune(p, e).pruned = p.pruned \cup e.targets
      BY <2>1 DEF Prune, Projection
    <3>3. Gone(re) = Gone(r) \cup e.targets
      <4>1. ASSUME NEW u \in Unit \cup {NoUnit}
            PROVE  (\E i \in 1 .. Len(re) : re[i].op = "prune" /\ u \in re[i].targets)
                     <=> (\E i \in 1 .. Len(r) : r[i].op = "prune" /\ u \in r[i].targets) \/ u \in e.targets
        BY <2>3, <2>5 DEF n
      <4>2. e.targets \subseteq Unit \cup {NoUnit}
        BY <2>4 DEF Payload
      <4>. QED
        BY <4>1, <4>2
    <3>4. ASSUME NEW u \in Unit
          PROVE  LatestIs(re, u, p.text[u])
      <4>1. LatestIs(r, u, p.text[u])
        BY <2>2
      <4>2. ~ Replaces(e, u)
        BY <2>5 DEF Replaces
      <4>. QED
        BY <2>3, <4>1, <4>2 DEF LatestIs, n
    <3>5. Fine(re, Prune(p, e))
      BY <2>2, <3>2, <3>3, <3>4
    <3>. QED
      BY <2>1, <2>3, <3>1, <3>5 DEF re
  <2>6. CASE e.op = "replace_text"
    <3>. DEFINE x == ReplaceText(p, e)
    <3>1. ApplyEdit(p, e) = x
      BY <2>2, <2>6 DEF ApplyEdit
    <3>2. /\ x.refused = p.refused /\ x.pruned = p.pruned
          /\ x.text = [u \in Unit |-> IF u \in e.targets THEN NewText(e) ELSE p.text[u]]
      BY <2>1 DEF ReplaceText, Projection
    <3>. HIDE DEF x
    <3>3. Gone(re) = Gone(r)
      <4>1. ASSUME NEW u \in Unit \cup {NoUnit}
            PROVE  (\E i \in 1 .. Len(re) : re[i].op = "prune" /\ u \in re[i].targets)
                     <=> (\E i \in 1 .. Len(r) : r[i].op = "prune" /\ u \in r[i].targets)
        BY <2>3, <2>6 DEF n
      <4>. QED
        BY <4>1
    <3>4. ASSUME NEW u \in Unit
          PROVE  LatestIs(re, u, x.text[u])
      <4>1. LatestIs(r, u, p.text[u])
        BY <2>2
      <4>2. CASE u \in e.targets
        <5>1. x.text[u] = NewText(e) /\ Replaces(e, u)
          BY <2>6, <3>2, <4>2 DEF Replaces
        <5>2. n + 1 \in 1 .. Len(re) /\ re[n + 1] = e /\ \A j \in 1 .. Len(re) : ~ (n + 1 < j)
          BY <2>3
        <5>. QED
          BY <5>1, <5>2 DEF LatestIs
      <4>3. CASE u \notin e.targets
        <5>1. x.text[u] = p.text[u] /\ ~ Replaces(e, u)
          BY <3>2, <4>3 DEF Replaces
        <5>. QED
          BY <2>3, <4>1, <5>1 DEF LatestIs, n
      <4>. QED
        BY <4>2, <4>3
    <3>5. Fine(re, x)
      BY <2>2, <3>2, <3>3, <3>4
    <3>. QED
      BY <2>1, <2>3, <3>1, <3>5 DEF re
  <2>. QED
    BY <2>4, <2>5, <2>6 DEF Payload, Plain
<1>3. Seq(Plain) \subseteq S
  <2>. HIDE DEF S
  <2>. QED
    BY <1>1, <1>2, SeqInduction
<1>. QED
  BY <1>3

-----------------------------------------------------------------------------
(* The decisions that stand, and their projection. *)

\* A log of decisions with ids of their own, as a set.
LEMMA LogSet ==
  ASSUME NEW l \in Seq(Decided), \A i, j \in DOMAIN l : l[i].id = l[j].id => i = j
  PROVE  Distinct(ToSet(l)) /\ IsFiniteSet(ToSet(l))
<1>1. Len(l) \in Nat /\ DOMAIN l = 1 .. Len(l) /\ \A i \in 1 .. Len(l) : l[i] \in Decided
  OBVIOUS
<1>2. ToSet(l) = {l[i] : i \in 1 .. Len(l)}
  BY <1>1 DEF ToSet
<1>3. Distinct(ToSet(l))
  BY <1>1, <1>2 DEF Distinct
<1>4. IsFiniteSet(1 .. Len(l))
  BY <1>1, FS_Interval
<1>5. l \in Surjection(1 .. Len(l), ToSet(l))
  <2>1. l \in [1 .. Len(l) -> ToSet(l)]
    BY <1>1, <1>2
  <2>. QED
    BY <1>2, <2>1 DEF Surjection
<1>6. IsFiniteSet(ToSet(l))
  BY <1>4, <1>5, FS_Surjection
<1>. QED
  BY <1>3, <1>6

\* The ones that stand are some of them.
LEMMA ActiveSet ==
  ASSUME NEW S, Distinct(S), IsFiniteSet(S), NEW pairs
  PROVE  /\ Distinct(Active(S, pairs)) /\ IsFiniteSet(Active(S, pairs))
         /\ Active(S, pairs) = {e \in S : \A s \in pairs : s[2] # e.id}
<1>1. Active(S, pairs) = {e \in S : \A s \in pairs : s[2] # e.id}
  BY DEF Active, ResolveActive
<1>2. Active(S, pairs) \in SUBSET S
  BY <1>1
<1>3. IsFiniteSet(Active(S, pairs))
  BY <1>2, FS_Subset
<1>. QED
  BY <1>1, <1>2, <1>3 DEF Distinct

\* Their projection is their effects one after another.
LEMMA ProjectAfter ==
  ASSUME NEW S, Distinct(S), IsFiniteSet(S)
  PROVE  /\ InOrder(S) \in Seq(S) /\ InOrder(S) \in Seq(Decided)
         /\ \A x \in S : \E i \in 1 .. Len(InOrder(S)) : InOrder(S)[i] = x
         /\ Ordered(InOrder(S))
         /\ Project(S) = After(Untouched, InOrder(S)) /\ Project(S) \in Projection
<1>1. /\ InOrder(S) \in Seq(S) /\ Ordered(InOrder(S))
      /\ \A x \in S : \E i \in 1 .. Len(InOrder(S)) : InOrder(S)[i] = x
  BY InOrderEnumerates DEF Enumerates
<1>2. InOrder(S) \in Seq(Decided)
  <2>1. S \subseteq Decided
    BY DEF Distinct
  <2>. QED
    BY <1>1, <2>1
<1>3. Project(S) = After(Untouched, InOrder(S))
  BY <1>2, FoldEdits DEF Project
<1>4. Project(S) \in Projection
  BY <1>2, <1>3, UntouchedType, AfterLaws
<1>. QED
  BY <1>1, <1>2, <1>3, <1>4

\* A prune that comes to stand adds its targets to what is pruned.
LEMMA ProjectPrune ==
  ASSUME NEW S, IsFiniteSet(S), NEW e \in Decided, e \notin S, Distinct(S \cup {e}),
         e.op = "prune", ~ Project(S).refused
  PROVE  Project(S \cup {e}) = Prune(Project(S), e)
<1>. DEFINE T == S \cup {e}
<1>1. Distinct(S) /\ Distinct(T) /\ IsFiniteSet(T) /\ S \subseteq Decided
  BY FS_AddElement DEF Distinct
<1>2. PICK a, b \in Seq(S) : InOrder(S) = a \o b /\ InOrder(T) = (a \o <<e>>) \o b
  <2>1. \E a, b \in Seq(S) : InOrder(S) = a \o b /\ InOrder(S \cup {e}) = (a \o <<e>>) \o b
    BY InOrderInserts, ZenonT(60)
  <2>. QED
    BY <2>1
<1>3. a \in Seq(Decided) /\ b \in Seq(Decided)
  BY <1>1
<1>. DEFINE p == After(Untouched, a)
<1>4. p \in Projection /\ Project(S) = After(p, b)
  <2>1. p \in Projection
    BY <1>3, UntouchedType, AfterLaws
  <2>2. After(Untouched, a \o b) = After(p, b)
    BY <1>3, UntouchedType, AfterLaws
  <2>3. Project(S) = After(Untouched, InOrder(S))
    BY <1>1, ProjectAfter
  <2>. QED
    BY <1>2, <2>1, <2>2, <2>3
<1>. HIDE DEF T
<1>5. Project(T) = After(ApplyEdit(p, e), b)
  <2>1. a \o <<e>> = Append(a, e)
    BY <1>3, AppendIsConcat
  <2>2. Append(a, e) \in Seq(Decided)
    BY <1>3
  <2>3. After(Untouched, Append(a, e)) = ApplyEdit(p, e)
    BY <1>3, UntouchedType, AfterLaws
  <2>4. After(Untouched, Append(a, e) \o b) = After(After(Untouched, Append(a, e)), b)
    BY <1>3, <2>2, UntouchedType, AfterLaws, ZenonT(60)
  <2>5. Project(T) = After(Untouched, InOrder(T))
    BY <1>1, ProjectAfter
  <2>. QED
    BY <1>2, <2>1, <2>3, <2>4, <2>5
<1>6. ~ p.refused
  <2>1. p.refused => After(p, b) = p
    BY <1>3, <1>4, RefusedStays
  <2>. QED
    BY <1>4, <2>1
<1>. HIDE DEF p
<1>7. ApplyEdit(p, e) = Prune(p, e)
  BY <1>6 DEF ApplyEdit
<1>8. After(Prune(p, e), b) = Prune(After(p, b), e)
  BY <1>3, <1>4, PruneLater
<1>. QED
  BY <1>4, <1>5, <1>7, <1>8 DEF T

\* A decision that comes to stand after all others is applied last.
LEMMA ProjectLast ==
  ASSUME NEW S, IsFiniteSet(S), NEW e \in Decided, e \notin S, Distinct(S \cup {e}),
         \A f \in S : Before(f, e)
  PROVE  Project(S \cup {e}) = ApplyEdit(Project(S), e)
<1>. DEFINE T == S \cup {e}
<1>1. Distinct(S) /\ Distinct(T) /\ IsFiniteSet(T) /\ S \subseteq Decided
  BY FS_AddElement DEF Distinct
<1>2. InOrder(T) = Append(InOrder(S), e)
  BY InOrderAppends
<1>. HIDE DEF T
<1>3. InOrder(S) \in Seq(Decided) /\ Project(S) = After(Untouched, InOrder(S))
  BY <1>1, ProjectAfter
<1>4. Project(T) = After(Untouched, InOrder(T))
  BY <1>1, ProjectAfter
<1>5. After(Untouched, Append(InOrder(S), e)) = ApplyEdit(After(Untouched, InOrder(S)), e)
  BY <1>3, UntouchedType, AfterLaws
<1>. QED
  BY <1>2, <1>3, <1>4, <1>5 DEF T

-----------------------------------------------------------------------------
(* The invariant. *)

\* What is shown is always the projection of the decisions that stand.
IInv == TypeOK /\ shown = Project(Active(ToSet(log), supersedes))

\* The log in a state of the right type: decisions, a finite set of them, with
\* ids of their own, and the ones that stand.
LEMMA TypedLog ==
  ASSUME TypeOK
  PROVE  /\ log \in Seq(Decided) /\ Distinct(ToSet(log)) /\ IsFiniteSet(ToSet(log))
         /\ Distinct(Active(ToSet(log), supersedes)) /\ IsFiniteSet(Active(ToSet(log), supersedes))
         /\ Active(ToSet(log), supersedes) = {e \in ToSet(log) : \A s \in supersedes : s[2] # e.id}
<1>1. log \in Seq(Decided)
  BY DEF TypeOK, Decided
<1>2. \A i, j \in DOMAIN log : log[i].id = log[j].id => i = j
  BY DEF TypeOK
<1>3. Distinct(ToSet(log)) /\ IsFiniteSet(ToSet(log))
  BY <1>1, <1>2, LogSet
<1>4. /\ Distinct(Active(ToSet(log), supersedes)) /\ IsFiniteSet(Active(ToSet(log), supersedes))
      /\ Active(ToSet(log), supersedes) = {e \in ToSet(log) : \A s \in supersedes : s[2] # e.id}
  BY <1>3, ActiveSet
<1>. QED
  BY <1>1, <1>3, <1>4

\* Before any decision the spine is shown untouched.
LEMMA InitInv == Init => IInv
<1>. SUFFICES ASSUME Init PROVE IInv
  OBVIOUS
<1>. USE DEF Init
<1>1. ToSet(log) = {}
  BY DEF ToSet
<1>2. Active(ToSet(log), supersedes) = {}
  BY <1>1 DEF Active
<1>3. Distinct({}) /\ IsFiniteSet({})
  BY FS_EmptySet DEF Distinct
<1>4. InOrder({}) \in Seq({}) /\ Project({}) = After(Untouched, InOrder({}))
  BY <1>3, ProjectAfter
<1>5. InOrder({}) = <<>>
  BY <1>4
<1>6. After(Untouched, <<>>) = Untouched
  <2>1. <<>> \in Seq(Decided)
    OBVIOUS
  <2>. QED
    BY <2>1, UntouchedType, AfterLaws
<1>7. shown = Project(Active(ToSet(log), supersedes))
  BY <1>2, <1>4, <1>5, <1>6
<1>8. TypeOK
  BY UntouchedType DEF TypeOK, Projection
<1>. QED
  BY <1>7, <1>8 DEF IInv

\* A step of Next is a decision that reaches the log, alone or in place of one.
LEMMA StepDecides ==
  ASSUME IInv, Next
  PROVE  \E e \in Decided, replaced \in SUBSET {log[i].id : i \in DOMAIN log} :
           /\ log' = Append(log, e) /\ Last(log') = e
           /\ \A i \in DOMAIN log : log[i].id # e.id
           /\ supersedes' = supersedes \cup {<<e.id, r>> : r \in replaced}
           /\ shown' = Project(Active(ToSet(log'), supersedes'))
<1>1. PICK c \in Contents, id \in EditId, at \in 1 .. MaxTime :
        \/ Decide(c, id, at, {})
        \/ \E i \in DOMAIN log : Decide(c, id, at, {log[i].id})
  BY DEF Next
<1>2. PICK replaced : Decide(c, id, at, replaced)
  BY <1>1
<1>. DEFINE e == Edit(c, id, at)
<1>3. e \in Decided
  BY DEF Decided
<1>4. e.id = id
  BY DEF Edit
<1>5. log' = Append(log, e) /\ \A i \in DOMAIN log : log[i].id # id
  BY <1>2 DEF Decide
<1>. HIDE DEF e
<1>6. Last(log') = e
  <2>1. log \in Seq(Decided)
    BY DEF IInv, TypeOK, Decided
  <2>. QED
    BY <1>3, <1>5, <2>1 DEF Last
<1>7. /\ replaced \in SUBSET {log[i].id : i \in DOMAIN log}
      /\ supersedes' = supersedes \cup {<<e.id, r>> : r \in replaced}
      /\ shown' = Project(Active(ToSet(log'), supersedes'))
  BY <1>2, <1>4 DEF Decide
<1>8. \A i \in DOMAIN log : log[i].id # e.id
  BY <1>4, <1>5
<1>. USE <1>3, <1>7
<1>. WITNESS e \in Decided, replaced \in SUBSET {log[i].id : i \in DOMAIN log}
<1>. QED
  BY <1>5, <1>6, <1>7, <1>8

\* The log one decision on.
LEMMA LongerLog ==
  ASSUME IInv, NEW e \in Decided, log' = Append(log, e), \A i \in DOMAIN log : log[i].id # e.id
  PROVE  /\ Len(log) \in Nat /\ DOMAIN log = 1 .. Len(log)
         /\ log' \in Seq(Decided) /\ Len(log') = Len(log) + 1 /\ DOMAIN log' = 1 .. Len(log) + 1
         /\ log'[Len(log) + 1] = e /\ \A i \in DOMAIN log : log'[i] = log[i]
         /\ \A i, j \in DOMAIN log' : log'[i].id = log'[j].id => i = j
         /\ ToSet(log') = ToSet(log) \cup {e} /\ e \notin ToSet(log)
         /\ Distinct(ToSet(log')) /\ IsFiniteSet(ToSet(log'))
<1>1. log \in Seq(Decided) /\ \A i, j \in DOMAIN log : log[i].id = log[j].id => i = j
  BY DEF IInv, TypeOK, Decided
<1>2. /\ Len(log) \in Nat /\ DOMAIN log = 1 .. Len(log)
      /\ log' \in Seq(Decided) /\ Len(log') = Len(log) + 1 /\ DOMAIN log' = 1 .. Len(log) + 1
      /\ log'[Len(log) + 1] = e /\ \A i \in DOMAIN log : log'[i] = log[i]
  BY <1>1
<1>3. \A i, j \in DOMAIN log' : log'[i].id = log'[j].id => i = j
  <2>. TAKE i, j \in DOMAIN log'
  <2>1. (i \in DOMAIN log \/ i = Len(log) + 1) /\ (j \in DOMAIN log \/ j = Len(log) + 1)
    BY <1>2
  <2>. QED
    BY <1>1, <1>2, <2>1
<1>4. ToSet(log') = ToSet(log) \cup {e}
  <2>1. \A i \in DOMAIN log' : log'[i] \in ToSet(log) \cup {e}
    <3>. TAKE i \in DOMAIN log'
    <3>1. i \in DOMAIN log \/ i = Len(log) + 1
      BY <1>2
    <3>. QED
      BY <1>2, <3>1 DEF ToSet
  <2>2. ToSet(log) \subseteq ToSet(log')
    <3>1. \A i \in DOMAIN log : i \in DOMAIN log'
      BY <1>2
    <3>. QED
      BY <1>2, <3>1 DEF ToSet
  <2>3. e \in ToSet(log')
    <3>1. Len(log) + 1 \in DOMAIN log'
      BY <1>2
    <3>. QED
      BY <1>2, <3>1 DEF ToSet
  <2>. QED
    BY <2>1, <2>2, <2>3 DEF ToSet
<1>5. e \notin ToSet(log)
  BY DEF ToSet
<1>6. Distinct(ToSet(log')) /\ IsFiniteSet(ToSet(log'))
  BY <1>2, <1>3, LogSet
<1>. QED
  BY <1>2, <1>3, <1>4, <1>5, <1>6

\* A decision that reaches the log keeps the invariant.
LEMMA NextInv == IInv /\ [Next]_vars => IInv'
<1>. SUFFICES ASSUME IInv, [Next]_vars PROVE IInv'
  OBVIOUS
<1>1. CASE UNCHANGED vars
  BY <1>1 DEF IInv, TypeOK, vars
<1>2. CASE Next
  <2>1. PICK e \in Decided, replaced \in SUBSET {log[i].id : i \in DOMAIN log} :
          /\ log' = Append(log, e)
          /\ \A i \in DOMAIN log : log[i].id # e.id
          /\ supersedes' = supersedes \cup {<<e.id, r>> : r \in replaced}
          /\ shown' = Project(Active(ToSet(log'), supersedes'))
    BY <1>2, StepDecides
  <2>2. /\ Len(log) \in Nat /\ DOMAIN log = 1 .. Len(log)
        /\ log' \in Seq(Decided) /\ DOMAIN log' = 1 .. Len(log) + 1
        /\ log'[Len(log) + 1] = e /\ \A i \in DOMAIN log : log'[i] = log[i]
        /\ \A i, j \in DOMAIN log' : log'[i].id = log'[j].id => i = j
    BY <2>1, LongerLog
  <2>3. Distinct(ToSet(log')) /\ IsFiniteSet(ToSet(log'))
    BY <2>1, LongerLog
  <2>4. \A s \in supersedes' :
          \E i, j \in DOMAIN log' : i < j /\ s = <<log'[j].id, log'[i].id>>
    <3>. TAKE s \in supersedes'
    <3>1. CASE s \in supersedes
      <4>1. PICK i, j \in DOMAIN log : i < j /\ s = <<log[j].id, log[i].id>>
        BY <3>1 DEF IInv, TypeOK
      <4>2. i \in DOMAIN log' /\ j \in DOMAIN log'
        BY <2>2
      <4>3. s = <<log'[j].id, log'[i].id>>
        BY <2>2, <4>1
      <4>. QED
        BY <4>1, <4>2, <4>3
    <3>2. CASE s \notin supersedes
      <4>1. PICK r \in replaced : s = <<e.id, r>>
        BY <2>1, <3>2
      <4>2. PICK i \in DOMAIN log : r = log[i].id
        BY <2>1
      <4>3. i \in DOMAIN log' /\ Len(log) + 1 \in DOMAIN log' /\ i < Len(log) + 1
        BY <2>2
      <4>4. s = <<log'[Len(log) + 1].id, log'[i].id>>
        BY <2>2, <4>1, <4>2
      <4>. QED
        BY <4>3, <4>4
    <3>. QED
      BY <3>1, <3>2
  <2>5. shown' \in Projection
    <3>. DEFINE A == Active(ToSet(log'), supersedes')
    <3>1. Distinct(A) /\ IsFiniteSet(A)
      BY <2>3, ActiveSet
    <3>. HIDE DEF A
    <3>2. Project(A) \in Projection
      BY <3>1, ProjectAfter
    <3>. QED
      BY <2>1, <3>2 DEF A
  <2>6. TypeOK'
    <3>1. log' \in Seq({Edit(c, id, at) : c \in Contents, id \in EditId, at \in 1 .. MaxTime})
      BY <2>2 DEF Decided
    <3>2. shown'.text \in [Unit -> Text]
      BY <2>5 DEF Projection
    <3>. QED
      BY <2>2, <2>4, <3>1, <3>2 DEF TypeOK
  <2>. QED
    BY <2>1, <2>6 DEF IInv
<1>. QED
  BY <1>1, <1>2

\* The invariant holds throughout.
LEMMA InvHolds == Spec => []IInv
BY InitInv, NextInv, PTL DEF Spec

\* Decisions keep ids of their own, supersede only what reached the log before
\* them and project to texts.
THEOREM TypeCorrect == Spec => []TypeOK
<1>1. IInv => TypeOK
  BY DEF IInv
<1>. QED
  BY <1>1, InvHolds, PTL

\* Under the invariant what is shown is a projection.
LEMMA ShownType == IInv => shown \in Projection
<1>. SUFFICES ASSUME IInv PROVE shown \in Projection
  OBVIOUS
<1>. DEFINE A == Active(ToSet(log), supersedes)
<1>1. Distinct(A) /\ IsFiniteSet(A)
  BY TypedLog DEF IInv
<1>2. shown = Project(A)
  BY DEF IInv
<1>. HIDE DEF A
<1>. QED
  BY <1>1, <1>2, ProjectAfter

\* Whatever has been decided, a shift of whole words can be shifted back: the
\* mirror finds its words and every position reads as before.
THEOREM ShiftsUndo == Spec => []ShiftUndoes
<1>1. ASSUME IInv
      PROVE  ShiftUndoes
  <2>. SUFFICES ASSUME ~ shown.refused,
                       NEW c \in Contents, c.op = "boundary_shift", Whole(shown, c)
                PROVE  LET there == ApplyEdit(shown, c)
                           back  == ApplyEdit(there, Mirror(c))
                       IN  ~ back.refused /\ \A u \in Unit : Words(back.text[u]) = Words(shown.text[u])
    BY DEF ShiftUndoes
  <2>1. c \in Content
    BY SpineDecisions
  <2>2. shown \in Projection
    BY <1>1, ShownType
  <2>. QED
    BY <2>1, <2>2, ShiftBack
<1>. QED
  BY <1>1, InvHolds, PTL

\* Where the new decision supersedes none, it comes to stand beside the others.
LEMMA OneMoreStands ==
  ASSUME IInv, NEW e \in Decided, log' = Append(log, e), \A i \in DOMAIN log : log[i].id # e.id,
         supersedes' = supersedes, shown' = Project(Active(ToSet(log'), supersedes'))
  PROVE  LET A == Active(ToSet(log), supersedes)
         IN  /\ IsFiniteSet(A) /\ e \notin A /\ Distinct(A \cup {e}) /\ A \subseteq ToSet(log)
             /\ shown = Project(A) /\ shown' = Project(A \cup {e})
<1>. DEFINE A == Active(ToSet(log), supersedes)
<1>1. /\ IsFiniteSet(A) /\ A = {f \in ToSet(log) : \A s \in supersedes : s[2] # f.id}
  BY TypedLog DEF IInv
<1>2. /\ ToSet(log') = ToSet(log) \cup {e} /\ e \notin ToSet(log)
      /\ Distinct(ToSet(log')) /\ IsFiniteSet(ToSet(log'))
  BY LongerLog
<1>3. Active(ToSet(log'), supersedes) = {f \in ToSet(log') : \A s \in supersedes : s[2] # f.id}
  BY <1>2, ActiveSet
<1>4. \A s \in supersedes : s[2] # e.id
  <2>. TAKE s \in supersedes
  <2>1. PICK i, j \in DOMAIN log : s = <<log[j].id, log[i].id>>
    BY DEF IInv, TypeOK
  <2>. QED
    BY <2>1
<1>. HIDE DEF A
<1>5. Active(ToSet(log'), supersedes) = A \cup {e}
  BY <1>1, <1>2, <1>3, <1>4
<1>6. Distinct(A \cup {e}) /\ e \notin A /\ A \subseteq ToSet(log)
  BY <1>1, <1>2 DEF Distinct
<1>7. shown = Project(A) /\ shown' = Project(A \cup {e})
  BY <1>5 DEF IInv, A
<1>. QED
  BY <1>1, <1>6, <1>7 DEF A

\* A prune takes its targets out of the view and changes nothing else there,
\* wherever in the order of application it comes.
THEOREM PrunesOnlyDrop == Spec => PruneOnlyDrops
<1>. DEFINE Kept ==
       LET e == Last(log')
       IN  supersedes' = supersedes /\ e.op = "prune" /\ ~ shown.refused
             => /\ ~ shown'.refused
                /\ View(shown') = Restrict(View(shown), (DOMAIN View(shown)) \ e.targets)
<1>1. ASSUME IInv, Next
      PROVE  Kept
  <2>. SUFFICES ASSUME supersedes' = supersedes, Last(log').op = "prune", ~ shown.refused
                PROVE  /\ ~ shown'.refused
                       /\ View(shown') = Restrict(View(shown), (DOMAIN View(shown)) \ Last(log').targets)
    OBVIOUS
  <2>1. PICK e \in Decided :
          /\ log' = Append(log, e) /\ Last(log') = e
          /\ \A i \in DOMAIN log : log[i].id # e.id
          /\ shown' = Project(Active(ToSet(log'), supersedes'))
    BY <1>1, StepDecides
  <2>. DEFINE A == Active(ToSet(log), supersedes)
  <2>2. /\ IsFiniteSet(A) /\ e \notin A /\ Distinct(A \cup {e})
        /\ shown = Project(A) /\ shown' = Project(A \cup {e})
    BY <1>1, <2>1, OneMoreStands
  <2>. HIDE DEF A
  <2>3. shown' = Prune(shown, e)
    BY <2>1, <2>2, ProjectPrune
  <2>4. shown \in Projection
    BY <1>1, ShownType
  <2>5. shown'.text = shown.text /\ shown'.refused = shown.refused /\ shown'.pruned = shown.pruned \cup e.targets
    BY <2>3, <2>4 DEF Prune, Projection
  <2>6. View(shown') = [u \in (Unit \ shown.pruned) \ e.targets |-> shown.text[u]]
    <3>1. Unit \ (shown.pruned \cup e.targets) = (Unit \ shown.pruned) \ e.targets
      OBVIOUS
    <3>. QED
      BY <2>5, <3>1 DEF View
  <2>7. Restrict(View(shown), (DOMAIN View(shown)) \ e.targets)
          = [u \in (Unit \ shown.pruned) \ e.targets |-> shown.text[u]]
    BY DEF Restrict, View
  <2>. QED
    BY <2>1, <2>5, <2>6, <2>7
<1>2. IInv /\ [Next]_vars => [Kept]_vars
  <2>. HIDE DEF Kept
  <2>. QED
    BY <1>1
<1>3. Spec => [][Kept]_vars
  <2>. HIDE DEF Kept
  <2>. QED
    BY <1>2, InvHolds, PTL DEF Spec
<1>. QED
  BY <1>3 DEF PruneOnlyDrops

\* A shift decided last keeps the word stream, as long as its words are whole and
\* its two positions are in the view together or not at all.
THEOREM ShiftsKeepWords == Spec => ShiftKeepsWords
<1>. DEFINE Kept ==
       LET e == Last(log')
       IN  DecidesLast(e) /\ e.op = "boundary_shift" /\ ~ shown.refused /\ ~ shown'.refused
             /\ Whole(shown, e) /\ SidesTogether(shown, e)
             => Stream(View(shown')) = Stream(View(shown))
<1>1. ASSUME IInv, Next
      PROVE  Kept
  <2>. SUFFICES ASSUME DecidesLast(Last(log')), Last(log').op = "boundary_shift", ~ shown.refused,
                       Whole(shown, Last(log')), SidesTogether(shown, Last(log'))
                PROVE  Stream(View(shown')) = Stream(View(shown))
    OBVIOUS
  <2>1. PICK e \in Decided :
          /\ log' = Append(log, e) /\ Last(log') = e
          /\ \A i \in DOMAIN log : log[i].id # e.id
          /\ shown' = Project(Active(ToSet(log'), supersedes'))
    BY <1>1, StepDecides
  <2>2. supersedes' = supersedes /\ \A i \in DOMAIN log : Before(log[i], e)
    BY <2>1 DEF DecidesLast
  <2>. DEFINE A == Active(ToSet(log), supersedes)
  <2>3. /\ IsFiniteSet(A) /\ e \notin A /\ Distinct(A \cup {e}) /\ A \subseteq ToSet(log)
        /\ shown = Project(A) /\ shown' = Project(A \cup {e})
    BY <1>1, <2>1, <2>2, OneMoreStands
  <2>4. \A f \in ToSet(log) : Before(f, e)
    BY <2>2 DEF ToSet
  <2>. HIDE DEF A
  <2>5. shown' = ApplyEdit(shown, e)
    <3>1. \A f \in A : Before(f, e)
      BY <2>3, <2>4
    <3>. QED
      BY <2>3, <3>1, ProjectLast
  <2>6. shown \in Projection /\ Payload(e)
    BY <1>1, ShownType, DecidedType
  <2>. QED
    BY <2>1, <2>5, <2>6, ShiftKeepsStream
<1>2. IInv /\ [Next]_vars => [Kept]_vars
  <2>. HIDE DEF Kept
  <2>. QED
    BY <1>1
<1>3. Spec => [][Kept]_vars
  <2>. HIDE DEF Kept
  <2>. QED
    BY <1>2, InvHolds, PTL DEF Spec
<1>. QED
  BY <1>3 DEF ShiftKeepsWords

-----------------------------------------------------------------------------
(* The latest replacement. *)

\* Of some decisions in the log, the one all others come before is the latest.
LEMMA LatestStanding ==
  ASSUME TypeOK, NEW is \in SUBSET DOMAIN log, NEW i \in is,
         \A j \in is : j # i => Before(log[j], log[i])
  PROVE  Latest(is) = i
<1>. DEFINE late(k) == \A j \in is :
              log[j].at < log[k].at \/ (log[j].at = log[k].at /\ log[j].id <= log[k].id)
<1>1. \A k \in DOMAIN log : log[k] \in Decided
  BY DEF TypeOK, Decided
<1>2. \A k \in is : log[k].at \in Nat /\ log[k].id \in Nat
  BY <1>1, DecidedType
<1>3. late(i)
  <2>. TAKE j \in is
  <2>1. CASE j = i
    BY <1>2, <2>1
  <2>2. CASE j # i
    BY <1>2, <2>2 DEF Before
  <2>. QED
    BY <2>1, <2>2
<1>4. ASSUME NEW k \in is, late(k)
      PROVE  k = i
  <2>1. log[i].at < log[k].at \/ (log[i].at = log[k].at /\ log[i].id <= log[k].id)
    BY <1>4
  <2>2. log[k].at < log[i].at \/ (log[k].at = log[i].at /\ log[k].id <= log[i].id)
    BY <1>3
  <2>3. log[k].id = log[i].id
    BY <1>2, <2>1, <2>2
  <2>. QED
    BY <2>3 DEF TypeOK
<1>5. Latest(is) = CHOOSE k \in is : late(k)
  BY DEF Latest
<1>. HIDE DEF late
<1>. QED
  BY <1>3, <1>4, <1>5

\* The decisions of one kind that stand on a position are active ones.
LEMMA StandingActive ==
  ASSUME IInv, NEW op, NEW u
  PROVE  /\ Standing(op, u) \subseteq DOMAIN log
         /\ \A i \in Standing(op, u) :
              log[i] \in Active(ToSet(log), supersedes) /\ log[i].op = op /\ u \in log[i].targets
         /\ \A e \in Active(ToSet(log), supersedes) :
              e.op = op /\ u \in e.targets => \E i \in Standing(op, u) : log[i] = e
<1>1. Active(ToSet(log), supersedes) = {e \in ToSet(log) : \A s \in supersedes : s[2] # e.id}
  BY TypedLog DEF IInv
<1>2. \A e \in ToSet(log) : \E i \in DOMAIN log : log[i] = e
  BY DEF ToSet
<1>3. \A i \in DOMAIN log : log[i] \in ToSet(log)
  BY DEF ToSet
<1>. QED
  BY <1>1, <1>2, <1>3 DEF Standing

\* The last replacement in an order of the active decisions is the latest
\* standing one.
LEMMA LatestAgrees ==
  ASSUME IInv, NEW q, q \in Seq(Active(ToSet(log), supersedes)), Ordered(q),
         \A x \in Active(ToSet(log), supersedes) : \E i \in 1 .. Len(q) : q[i] = x,
         NEW u, NEW t, LatestIs(q, u, t)
  PROVE  t = LatestText(u)
<1>. DEFINE A  == Active(ToSet(log), supersedes)
            is == Standing("replace_text", u)
<1>1. /\ is \subseteq DOMAIN log
      /\ \A i \in is : log[i] \in A /\ Replaces(log[i], u)
      /\ \A e \in A : Replaces(e, u) => \E i \in is : log[i] = e
  BY StandingActive DEF Replaces
<1>2. /\ Len(q) \in Nat /\ DOMAIN q = 1 .. Len(q) /\ \A k \in 1 .. Len(q) : q[k] \in A
      /\ \A x \in A : \E k \in 1 .. Len(q) : q[k] = x
  <2>. HIDE DEF A
  <2>1. q \in Seq(A) /\ \A x \in A : \E k \in 1 .. Len(q) : q[k] = x
    BY DEF A
  <2>. QED
    BY <2>1
<1>3. LatestText(u) = IF is = {} THEN Original[u] ELSE NewText(log[Latest(is)])
  BY DEF LatestText
<1>. HIDE DEF A, is
<1>4. CASE t = Original[u] /\ \A k \in 1 .. Len(q) : ~ Replaces(q[k], u)
  <2>1. is = {}
    BY <1>1, <1>2, <1>4
  <2>. QED
    BY <1>3, <1>4, <2>1
<1>5. ASSUME NEW k \in 1 .. Len(q), Replaces(q[k], u), t = NewText(q[k]),
             \A l \in 1 .. Len(q) : k < l => ~ Replaces(q[l], u)
      PROVE  t = LatestText(u)
  <2>1. PICK i \in is : log[i] = q[k]
    BY <1>1, <1>2, <1>5
  <2>2. ASSUME NEW j \in is, j # i
        PROVE  Before(log[j], log[i])
    <3>1. PICK l \in 1 .. Len(q) : q[l] = log[j]
      BY <1>1, <1>2
    <3>2. Replaces(q[l], u) /\ ~ (k < l)
      BY <1>1, <1>5, <3>1
    <3>3. l # k
      <4>1. i \in DOMAIN log /\ j \in DOMAIN log
        BY <1>1
      <4>2. log[i].id # log[j].id
        BY <2>2, <4>1 DEF IInv, TypeOK
      <4>. QED
        BY <2>1, <3>1, <4>2
    <3>4. l < k
      BY <1>2, <3>2, <3>3
    <3>. QED
      BY <1>2, <2>1, <3>1, <3>4 DEF Ordered
  <2>3. Latest(is) = i
    BY <1>1, <2>2, LatestStanding DEF IInv
  <2>. QED
    BY <1>3, <1>5, <2>1, <2>3
<1>. QED
  BY <1>4, <1>5 DEF LatestIs

\* Where no shift stands every position shows its latest standing replacement,
\* and those a standing prune names are gone.
THEOREM LatestTextWins == Spec => []LatestWins
<1>1. ASSUME IInv
      PROVE  LatestWins
  <2>. DEFINE A == Active(ToSet(log), supersedes)
              q == InOrder(A)
  <2>. SUFFICES ASSUME \A i \in DOMAIN log : log[i].op = "boundary_shift" =>
                         \E s \in supersedes : s[2] = log[i].id
                PROVE  View(shown) = LatestView
    BY DEF LatestWins
  <2>1. /\ Distinct(A) /\ IsFiniteSet(A)
        /\ A = {e \in ToSet(log) : \A s \in supersedes : s[2] # e.id}
    BY <1>1, TypedLog DEF IInv
  <2>2. shown = Project(A)
    BY <1>1 DEF IInv
  <2>3. A \subseteq Plain
    <3>1. ASSUME NEW e \in A
          PROVE  e.op # "boundary_shift"
      <4>1. PICK i \in DOMAIN log : log[i] = e
        BY <2>1 DEF ToSet
      <4>. QED
        BY <2>1, <4>1
    <3>. QED
      BY <2>1, <3>1 DEF Distinct, Plain
  <2>. HIDE DEF A
  <2>4. /\ q \in Seq(A) /\ Ordered(q) /\ \A x \in A : \E i \in 1 .. Len(q) : q[i] = x
        /\ shown = After(Untouched, q)
    BY <2>1, <2>2, ProjectAfter
  <2>. HIDE DEF q
  <2>5. q \in Seq(Plain)
    BY <2>3, <2>4
  <2>6. /\ shown.pruned = {u \in Unit \cup {NoUnit} : \E k \in 1 .. Len(q) : q[k].op = "prune" /\ u \in q[k].targets}
        /\ \A u \in Unit : LatestIs(q, u, shown.text[u])
    BY <2>4, <2>5, PlainRun
  <2>7. ASSUME NEW u \in Unit
        PROVE  shown.text[u] = LatestText(u)
    BY <1>1, <2>4, <2>6, LatestAgrees DEF A
  <2>8. ASSUME NEW u \in Unit
        PROVE  u \in shown.pruned <=> Standing("prune", u) # {}
    <3>1. /\ \A i \in Standing("prune", u) :
               log[i] \in A /\ log[i].op = "prune" /\ u \in log[i].targets
          /\ \A e \in A :
               e.op = "prune" /\ u \in e.targets => \E i \in Standing("prune", u) : log[i] = e
      BY <1>1, StandingActive DEF A
    <3>2. \A k \in 1 .. Len(q) : q[k] \in A
      BY <2>4
    <3>. QED
      BY <2>4, <2>6, <3>1, <3>2, SMTT(40)
  <2>9. Unit \ shown.pruned = {v \in Unit : Standing("prune", v) = {}}
    BY <2>8
  <2>. QED
    BY <2>7, <2>9 DEF View, LatestView
<1>. QED
  BY <1>1, InvHolds, PTL

=============================================================================
