---------------------------- MODULE VerdictProofs ---------------------------
(***************************************************************************)
(* The validators decide rightly but for the named gaps, and what is lost  *)
(* was declared: for every set of requests and files and every number of   *)
(* runs.                                                                   *)
(*                                                                         *)
(* An invariant (VerdictInv, on top of those of ConversionProofs) keeps    *)
(* which planner made the plan of which file and that the output was       *)
(* written for that plan.  For each lane three lemmas then follow one file *)
(* through it: what the planner made of it (DocumentsFit, MailsFit,        *)
(* PdfFits, MediaFits...), that the validator accepts what an obedient     *)
(* engine writes, or a gap is there (...Honest), and that it refuses every *)
(* other output, or does not look at the difference (...Caught).  They     *)
(* rest on lemmas about sequences: what picking members at some indices,   *)
(* flattening and counting do to members, order and length.                *)
(***************************************************************************)
EXTENDS ConversionProofs

-----------------------------------------------------------------------------
(* The members of a sequence at some of its indices.                       *)

Rank(I, i) == Cardinality({j \in I : j <= i})

LEMMA RankIsANumber ==
    ASSUME NEW I, IsFiniteSet(I), I \subseteq Nat, NEW i \in I
    PROVE  Rank(I, i) \in 1..Cardinality(I)
<1> DEFINE below == {j \in I : j <= i}
<1>1. IsFiniteSet(below) /\ Cardinality(below) \in Nat /\ Cardinality(below) <= Cardinality(I)
      /\ Cardinality(I) \in Nat
  BY FS_Subset, FS_CardinalityType
<1>2. i \in below
  OBVIOUS
<1>3. Cardinality(below) # 0
  BY <1>1, <1>2, FS_EmptySet
<1> HIDE DEF below
<1>4. Cardinality(below) \in 1..Cardinality(I)
  BY <1>1, <1>3
<1> QED BY <1>4 DEF below, Rank

LEMMA RankGrows ==
    ASSUME NEW I, IsFiniteSet(I), I \subseteq Nat, NEW i \in I, NEW k \in I, i < k
    PROVE  Rank(I, i) < Rank(I, k)
<1> DEFINE A == {j \in I : j <= i}
           B == {j \in I : j <= k}
<1>1. IsFiniteSet(A) /\ IsFiniteSet(B)
  BY FS_Subset
<1>2. A \subseteq B /\ k \in B /\ k \notin A
  <2>1. i \in Nat /\ k \in Nat /\ \A j \in I : j \in Nat
    OBVIOUS
  <2>2. \A j \in I : j <= i => j <= k
    BY <2>1
  <2>3. k <= k /\ ~(k <= i)
    BY <2>1
  <2> QED BY <2>2, <2>3
<1> HIDE DEF A, B
<1>3. A # B
  BY <1>2
<1>4. Cardinality(A) <= Cardinality(B) /\ (Cardinality(A) = Cardinality(B) => A = B)
  BY <1>1, <1>2, FS_Subset
<1>5. Cardinality(A) \in Nat /\ Cardinality(B) \in Nat
  BY <1>1, FS_CardinalityType
<1>6. Cardinality(A) < Cardinality(B)
  BY <1>3, <1>4, <1>5
<1> QED BY <1>6 DEF A, B, Rank

\* The ranks of the members of a set are all the numbers up to its size.
LEMMA RankIsTaken ==
    ASSUME NEW I, IsFiniteSet(I), I \subseteq Nat, NEW n \in 1..Cardinality(I)
    PROVE  \E i \in I : Rank(I, i) = n
<1> DEFINE N == 1..Cardinality(I)
           rank == [i \in I |-> Rank(I, i)]
           R == {rank[i] : i \in I}
<1>1. Cardinality(I) \in Nat
  BY FS_CardinalityType
<1>2. \A i \in I : rank[i] \in N
  BY RankIsANumber
<1>3. \A i, k \in I : rank[i] = rank[k] => i = k
  <2> SUFFICES ASSUME NEW i \in I, NEW k \in I, i # k PROVE rank[i] # rank[k]
    OBVIOUS
  <2>1. i < k \/ k < i
    OBVIOUS
  <2>2. Rank(I, i) \in Nat /\ Rank(I, k) \in Nat
    <3>1. Rank(I, i) \in 1..Cardinality(I) /\ Rank(I, k) \in 1..Cardinality(I)
      BY RankIsANumber
    <3> QED BY ONLY <1>1, <3>1
  <2>3. Rank(I, i) < Rank(I, k) \/ Rank(I, k) < Rank(I, i)
    BY <2>1, RankGrows
  <2> QED BY <2>2, <2>3
<1>4. rank \in Bijection(I, R)
  BY <1>3 DEF Bijection, Injection, Surjection, IsInjective
<1>5. ExistsBijection(I, R)
  BY <1>4 DEF ExistsBijection
<1>6. IsFiniteSet(R) /\ Cardinality(R) = Cardinality(I)
  BY <1>5, FS_Bijection
<1>7. R \subseteq N
  BY <1>2
<1>8. IsFiniteSet(N) /\ Cardinality(N) = Cardinality(I)
  BY <1>1, FS_Interval
<1> HIDE DEF R
<1>9. R = N
  BY <1>6, <1>7, <1>8, FS_Subset
<1> QED BY <1>9 DEF R

LEMMA NthIsThere ==
    ASSUME NEW I, IsFiniteSet(I), I \subseteq Nat, NEW n \in 1..Cardinality(I)
    PROVE  Nth(I, n) \in I /\ Rank(I, Nth(I, n)) = n
<1>1. \E i \in I : Cardinality({j \in I : j <= i}) = n
  BY RankIsTaken DEF Rank
<1> QED BY <1>1 DEF Nth, Rank

LEMMA NthOfRank ==
    ASSUME NEW I, IsFiniteSet(I), I \subseteq Nat, NEW i \in I
    PROVE  Rank(I, i) \in 1..Cardinality(I) /\ Nth(I, Rank(I, i)) = i
<1> DEFINE n == Rank(I, i)
           k == Nth(I, n)
<1>1. n \in 1..Cardinality(I) /\ Cardinality(I) \in Nat
  BY RankIsANumber, FS_CardinalityType
<1>2. k \in I /\ Rank(I, k) = n
  BY <1>1, NthIsThere
<1> HIDE DEF k
<1>3. ~(i < k) /\ ~(k < i)
  <2>1. n \in Nat /\ ~(n < n)
    BY <1>1
  <2>2. i < k => n < n
    BY <1>2, RankGrows
  <2>3. k < i => n < n
    BY <1>2, RankGrows
  <2> QED BY <2>1, <2>2, <2>3
<1>4. k = i
  BY <1>2, <1>3
<1> QED BY <1>1, <1>4 DEF k

LEMMA NthOfAll ==
    ASSUME NEW n \in Nat, NEW k \in 1..n
    PROVE  Nth(1..n, k) = k
<1>1. IsFiniteSet(1..n)
  BY FS_Interval
<1>2. {j \in 1..n : j <= k} = 1..k
  OBVIOUS
<1>3. Rank(1..n, k) = k
  <2>1. Rank(1..n, k) = Cardinality(1..k)
    BY <1>2 DEF Rank
  <2>2. Cardinality(1..k) = k
    BY FS_Interval
  <2> QED BY <2>1, <2>2
<1> QED BY <1>1, <1>3, NthOfRank

\* what is picked of a sequence, and that of all its indices it is the sequence
LEMMA PickedMembers ==
    ASSUME NEW S, NEW s \in Seq(S), NEW I \in SUBSET DOMAIN s
    PROVE  /\ Pick(s, I) \in Seq(S) /\ Len(Pick(s, I)) = Cardinality(I) /\ Cardinality(I) \in Nat
           /\ \A n \in 1..Cardinality(I) : Nth(I, n) \in I /\ Pick(s, I)[n] = s[Nth(I, n)]
<1>1. DOMAIN s = 1..Len(s) /\ Len(s) \in Nat
  OBVIOUS
<1>2. IsFiniteSet(I) /\ Cardinality(I) \in Nat /\ I \subseteq Nat
  <2>1. IsFiniteSet(DOMAIN s) /\ DOMAIN s \subseteq Nat
    BY <1>1, FS_Interval
  <2>2. IsFiniteSet(I)
    BY <2>1, FS_Subset
  <2> QED BY <2>1, <2>2, FS_CardinalityType
<1>3. \A n \in 1..Cardinality(I) : Nth(I, n) \in I
  BY <1>2, NthIsThere
<1>4. \A n \in 1..Cardinality(I) : s[Nth(I, n)] \in S
  BY <1>3, ElementOfSeq
<1> QED BY <1>2, <1>3, <1>4 DEF Pick

LEMMA PickedAll ==
    ASSUME NEW S, NEW s \in Seq(S)
    PROVE  Pick(s, DOMAIN s) = s
<1>1. DOMAIN s = 1..Len(s) /\ Len(s) \in Nat
  OBVIOUS
<1>2. Cardinality(DOMAIN s) = Len(s)
  BY <1>1, FS_Interval
<1>3. \A n \in 1..Len(s) : Nth(DOMAIN s, n) = n
  BY <1>1, NthOfAll
<1>4. Pick(s, DOMAIN s) = [n \in 1..Len(s) |-> s[n]]
  BY <1>2, <1>3 DEF Pick
<1> QED BY <1>1, <1>4

LEMMA NothingRemoved ==
    ASSUME NEW S, NEW s \in Seq(S), NEW pieces, ToSet(s) \cap pieces = {}
    PROVE  Without(s, pieces) = s
<1>1. {i \in DOMAIN s : s[i] \notin pieces} = DOMAIN s
  BY DEF ToSet
<1> QED BY <1>1, PickedAll DEF Without

\* what FlattenSeq computes: the parts up to each index, put together
IsFlat(g, ss, n) == g = [i \in 1..n |-> IF i = 1 THEN ss[i] ELSE g[i - 1] \o ss[i]]

LEMMA FlatAt ==
    ASSUME NEW g, NEW ss, NEW n \in Nat, IsFlat(g, ss, n)
    PROVE  /\ DOMAIN g = 1..n
           /\ \A i \in 1..n : g[i] = IF i = 1 THEN ss[i] ELSE g[i - 1] \o ss[i]
<1> DEFINE F(i) == IF i = 1 THEN ss[i] ELSE g[i - 1] \o ss[i]
<1>1. g = [i \in 1..n |-> F(i)]
  BY DEF IsFlat
<1> HIDE DEF F
<1>2. DOMAIN g = 1..n /\ \A i \in 1..n : g[i] = F(i)
  BY <1>1
<1> QED BY <1>2 DEF F

LEMMA FlatExists ==
    ASSUME NEW ss, NEW n \in Nat
    PROVE  \E g : IsFlat(g, ss, n)
<1> DEFINE bad == {m \in Nat : ~\E g : IsFlat(g, ss, m)}
<1>1. SUFFICES ASSUME bad # {} PROVE FALSE
  OBVIOUS
<1>2. PICK m \in bad : \A k \in bad : ~(k < m)
  BY <1>1, LeastNumber
<1>3. m \in Nat /\ ~\E g : IsFlat(g, ss, m)
  OBVIOUS
<1>4. CASE m = 0
  <2> DEFINE g == [i \in 1..0 |-> 0]
             G(i) == IF i = 1 THEN ss[i] ELSE g[i - 1] \o ss[i]
  <2>1. g = [i \in 1..0 |-> G(i)]
    <3> HIDE DEF G
    <3> QED OBVIOUS
  <2>2. IsFlat(g, ss, 0)
    BY <2>1 DEF IsFlat
  <2> QED BY <1>3, <1>4, <2>2
<1>5. CASE m # 0
  <2>1. m - 1 \in Nat /\ m - 1 < m
    BY <1>3, <1>5
  <2>2. PICK h : IsFlat(h, ss, m - 1)
    BY <1>2, <2>1
  <2> DEFINE last == IF m = 1 THEN ss[m] ELSE h[m - 1] \o ss[m]
             g == [i \in 1..m |-> IF i = m THEN last ELSE h[i]]
             G(i) == IF i = 1 THEN ss[i] ELSE g[i - 1] \o ss[i]
  <2>3. \A i \in 1..(m - 1) : h[i] = IF i = 1 THEN ss[i] ELSE h[i - 1] \o ss[i]
    BY <2>1, <2>2, FlatAt
  <2>4. ASSUME NEW i \in 1..m PROVE g[i] = G(i)
    <3>1. CASE i = 1 /\ m = 1
      BY <3>1
    <3>2. CASE i = 1 /\ m # 1
      <4>1. 1 \in 1..(m - 1)
        BY <1>3, <3>2, <2>1
      <4>2. g[1] = h[1] /\ h[1] = ss[1]
        BY <2>3, <3>2, <4>1
      <4> QED BY <3>2, <4>2
    <3>3. CASE i # 1 /\ i = m
      <4>1. i - 1 \in 1..m /\ i - 1 # m
        BY <1>3, <3>3
      <4>2. g[i - 1] = h[i - 1]
        BY <4>1
      <4> QED BY <3>3, <4>2
    <3>4. CASE i # 1 /\ i # m
      <4>1. i - 1 \in 1..m /\ i - 1 # m /\ i \in 1..(m - 1)
        BY <1>3, <3>4
      <4>2. g[i - 1] = h[i - 1] /\ g[i] = h[i]
        BY <3>4, <4>1
      <4>3. h[i] = h[i - 1] \o ss[i]
        BY <2>3, <3>4, <4>1
      <4> QED BY <3>4, <4>2, <4>3
    <3> QED BY <3>1, <3>2, <3>3, <3>4
  <2>5. g = [i \in 1..m |-> G(i)]
    <3>1. \A i \in 1..m : g[i] = G(i)
      BY <2>4
    <3>2. g = [i \in 1..m |-> g[i]]
      OBVIOUS
    <3> HIDE DEF g, G
    <3> QED BY <3>1, <3>2
  <2>6. IsFlat(g, ss, m)
    BY <2>5 DEF IsFlat
  <2> QED BY <1>3, <2>6
<1> QED BY <1>4, <1>5

LEMMA FlatIs ==
    ASSUME NEW ss, Len(ss) \in Nat \ {0}
    PROVE  \E g : IsFlat(g, ss, Len(ss)) /\ FlattenSeq(ss) = g[Len(ss)]
<1> DEFINE g == CHOOSE h : IsFlat(h, ss, Len(ss))
<1>1. IsFlat(g, ss, Len(ss))
  BY FlatExists
<1>2. FlattenSeq(ss) = g[Len(ss)]
  BY DEF FlattenSeq, IsFlat
<1> QED BY <1>1, <1>2

LEMMA FlatOfNone == FlattenSeq(<<>>) = <<>>
BY DEF FlattenSeq

\* a set with one in it and every successor up to n has all of them
LEMMA StepByStep ==
    ASSUME NEW n \in Nat \ {0}, NEW G, 1 \in G, \A i \in 2..n : i - 1 \in G => i \in G
    PROVE  \A i \in 1..n : i \in G
<1> DEFINE bad == {i \in 1..n : i \notin G}
<1> SUFFICES ASSUME bad # {} PROVE FALSE
  OBVIOUS
<1>1. bad \subseteq Nat
  OBVIOUS
<1>2. PICK m \in bad : \A k \in bad : ~(k < m)
  BY <1>1, LeastNumber
<1>3. m \in 1..n /\ m \notin G
  OBVIOUS
<1>4. m - 1 \in 1..n /\ m - 1 < m /\ m \in 2..n
  BY <1>3
<1>5. m - 1 \in G
  BY <1>2, <1>4
<1> QED BY <1>3, <1>4, <1>5

\* two sequences put together: the length, and what is where
LEMMA Joined ==
    ASSUME NEW S, NEW s \in Seq(S), NEW t \in Seq(S), NEW g, g = s \o t
    PROVE  /\ g \in Seq(S) /\ Len(s) \in Nat /\ Len(t) \in Nat /\ Len(g) = Len(s) + Len(t)
           /\ \A k \in 1..Len(s) : g[k] = s[k]
           /\ \A k \in 1..Len(t) : g[Len(s) + k] = t[k]
<1>1. Len(s) \in Nat /\ Len(t) \in Nat
  OBVIOUS
<1>2. g \in Seq(S) /\ Len(g) = Len(s) + Len(t)
  OBVIOUS
<1>3. ASSUME NEW k \in 1..Len(s) PROVE g[k] = s[k]
  OBVIOUS
<1>4. ASSUME NEW k \in 1..Len(t) PROVE g[Len(s) + k] = t[k]
  OBVIOUS
<1> QED BY <1>1, <1>2, <1>3, <1>4

LEMMA FlattenedMembers ==
    ASSUME NEW S, NEW ss \in Seq(Seq(S))
    PROVE  FlattenSeq(ss) \in Seq(S)
<1>1. CASE Len(ss) = 0
  BY <1>1 DEF FlattenSeq
<1>2. CASE Len(ss) # 0
  <2> DEFINE n == Len(ss)
  <2>1. n \in Nat \ {0} /\ \A i \in 1..n : ss[i] \in Seq(S)
    BY <1>2
  <2>2. PICK g : IsFlat(g, ss, n) /\ FlattenSeq(ss) = g[n]
    BY <2>1, FlatIs
  <2> HIDE DEF n
  <2>3. \A i \in 1..n : g[i] = IF i = 1 THEN ss[i] ELSE g[i - 1] \o ss[i]
    BY <2>1, <2>2, FlatAt
  <2> DEFINE G == {i \in 1..n : g[i] \in Seq(S)}
  <2>4. 1 \in G
    BY <2>1, <2>3
  <2>5. \A m \in 2..n : m - 1 \in G => m \in G
    <3> SUFFICES ASSUME NEW m \in 2..n, m - 1 \in G PROVE m \in G
      OBVIOUS
    <3>1. m \in 1..n /\ m # 1
      BY <2>1
    <3>2. g[m] = g[m - 1] \o ss[m]
      BY <2>3, <3>1
    <3>3. g[m - 1] \in Seq(S) /\ ss[m] \in Seq(S)
      BY <2>1, <3>1
    <3>4. g[m] \in Seq(S)
      BY <3>2, <3>3, ConcatProperties
    <3> QED BY <3>1, <3>4
  <2> HIDE DEF G
  <2>6. \A i \in 1..n : i \in G
    BY ONLY <2>1, <2>4, <2>5, StepByStep
  <2>7. n \in 1..n
    BY <2>1
  <2>8. n \in G
    BY <2>6, <2>7
  <2> QED BY <2>2, <2>8 DEF G
<1> QED BY <1>1, <1>2

\* parts of one member each are put together into their members
LEMMA FlattenedSingles ==
    ASSUME NEW S, NEW ss \in Seq(Seq(S)), \A i \in DOMAIN ss : Len(ss[i]) = 1
    PROVE  FlattenSeq(ss) = [i \in DOMAIN ss |-> ss[i][1]]
<1>1. CASE Len(ss) = 0
  <2>1. ss = <<>> /\ DOMAIN ss = {}
    BY <1>1
  <2>2. FlattenSeq(ss) = <<>>
    BY <2>1, FlatOfNone
  <2>3. [i \in DOMAIN ss |-> ss[i][1]] = <<>>
    BY <2>1
  <2> QED BY <2>2, <2>3
<1>2. CASE Len(ss) # 0
  <2> DEFINE n == Len(ss)
  <2>1. n \in Nat \ {0} /\ DOMAIN ss = 1..n
        /\ \A i \in 1..n : ss[i] \in Seq(S) /\ Len(ss[i]) = 1
    BY <1>2
  <2>2. PICK g : IsFlat(g, ss, n) /\ FlattenSeq(ss) = g[n]
    BY <2>1, FlatIs
  <2> HIDE DEF n
  <2>3. \A i \in 1..n : g[i] = IF i = 1 THEN ss[i] ELSE g[i - 1] \o ss[i]
    BY <2>1, <2>2, FlatAt
  <2> DEFINE G == {i \in 1..n : /\ g[i] \in Seq(S) /\ Len(g[i]) = i
                                /\ \A k \in 1..i : g[i][k] = ss[k][1]}
  <2>4. 1 \in G
    <3>1. g[1] = ss[1] /\ ss[1] \in Seq(S) /\ Len(ss[1]) = 1
      BY <2>1, <2>3
    <3> QED BY <2>1, <3>1
  <2>5. \A m \in 2..n : m - 1 \in G => m \in G
    <3> SUFFICES ASSUME NEW m \in 2..n, m - 1 \in G PROVE m \in G
      OBVIOUS
    <3>1. m \in 1..n /\ m # 1 /\ m - 1 \in Nat /\ m \in Nat
      BY <2>1
    <3>2. g[m] = g[m - 1] \o ss[m] /\ ss[m] \in Seq(S) /\ Len(ss[m]) = 1
      BY <2>1, <2>3, <3>1
    <3>3. /\ g[m - 1] \in Seq(S) /\ Len(g[m - 1]) = m - 1
          /\ \A k \in 1..(m - 1) : g[m - 1][k] = ss[k][1]
      OBVIOUS
    <3> HIDE DEF G
    <3>4. /\ g[m] \in Seq(S) /\ Len(g[m]) = Len(g[m - 1]) + Len(ss[m])
          /\ \A k \in 1..Len(g[m - 1]) : g[m][k] = g[m - 1][k]
          /\ \A k \in 1..Len(ss[m]) : g[m][Len(g[m - 1]) + k] = ss[m][k]
      <4> DEFINE s == g[m - 1]
                 t == ss[m]
                 w == g[m]
      <4>1. s \in Seq(S) /\ t \in Seq(S) /\ w = s \o t
        BY ONLY <3>2, <3>3
      <4> HIDE DEF s, t, w
      <4>2. /\ w \in Seq(S) /\ Len(w) = Len(s) + Len(t)
            /\ \A k \in 1..Len(s) : w[k] = s[k]
            /\ \A k \in 1..Len(t) : w[Len(s) + k] = t[k]
        BY ONLY <4>1, Joined
      <4> QED BY ONLY <4>2 DEF s, t, w
    <3>5. Len(g[m]) = m
      BY ONLY <3>1, <3>2, <3>3, <3>4
    <3>6. \A k \in 1..(m - 1) : g[m][k] = ss[k][1]
      BY ONLY <3>3, <3>4
    <3>7. g[m][m] = ss[m][1]
      <4>1. 1 \in 1..Len(ss[m]) /\ Len(g[m - 1]) + 1 = m
        BY ONLY <3>1, <3>2, <3>3
      <4> QED BY ONLY <3>4, <4>1
    <3>8. \A k \in 1..m : g[m][k] = ss[k][1]
      <4>1. \A k \in 1..m : k = m \/ k \in 1..(m - 1)
        BY ONLY <3>1
      <4> QED BY ONLY <3>6, <3>7, <4>1
    <3> QED BY <3>1, <3>4, <3>5, <3>8 DEF G
  <2> HIDE DEF G
  <2>6. \A i \in 1..n : i \in G
    BY ONLY <2>1, <2>4, <2>5, StepByStep
  <2>7. n \in 1..n
    BY <2>1
  <2>8. n \in G
    BY <2>6, <2>7
  <2>9. g[n] \in Seq(S) /\ Len(g[n]) = n /\ \A k \in 1..n : g[n][k] = ss[k][1]
    BY <2>8 DEF G
  <2> DEFINE w == g[n]
             F(i) == ss[i][1]
  <2>10. w \in Seq(S) /\ Len(w) = n /\ \A k \in 1..n : w[k] = F(k)
    BY <2>9
  <2> HIDE DEF w, F
  <2>11. w = [i \in 1..n |-> F(i)]
    BY <2>10
  <2> QED BY <2>1, <2>2, <2>11 DEF w, F
<1> QED BY <1>1, <1>2

\* longer parts make a longer whole
LEMMA FlattenedLength ==
    ASSUME NEW S, NEW T, NEW ss \in Seq(Seq(S)), NEW tt \in Seq(Seq(T)), Len(ss) = Len(tt),
           \A i \in 1..Len(ss) : Len(ss[i]) <= Len(tt[i])
    PROVE  Len(FlattenSeq(ss)) <= Len(FlattenSeq(tt))
<1>1. CASE Len(ss) = 0
  <2>1. FlattenSeq(ss) = ss /\ FlattenSeq(tt) = tt
    BY <1>1 DEF FlattenSeq
  <2> QED BY <1>1, <2>1
<1>2. CASE Len(ss) # 0
  <2> DEFINE n == Len(ss)
  <2>1. /\ n \in Nat \ {0} /\ Len(tt) = n
        /\ \A i \in 1..n : ss[i] \in Seq(S) /\ tt[i] \in Seq(T) /\ Len(ss[i]) <= Len(tt[i])
    BY <1>2
  <2>2. PICK g : IsFlat(g, ss, n) /\ FlattenSeq(ss) = g[n]
    BY <2>1, FlatIs
  <2>3. PICK h : IsFlat(h, tt, n) /\ FlattenSeq(tt) = h[n]
    BY <2>1, FlatIs
  <2> HIDE DEF n
  <2>4. \A i \in 1..n : g[i] = IF i = 1 THEN ss[i] ELSE g[i - 1] \o ss[i]
    BY <2>1, <2>2, FlatAt
  <2>5. \A i \in 1..n : h[i] = IF i = 1 THEN tt[i] ELSE h[i - 1] \o tt[i]
    BY <2>1, <2>3, FlatAt
  <2> DEFINE G == {i \in 1..n : g[i] \in Seq(S) /\ h[i] \in Seq(T) /\ Len(g[i]) <= Len(h[i])}
  <2>6. 1 \in G
    <3>1. g[1] = ss[1] /\ h[1] = tt[1] /\ 1 \in 1..n
      BY <2>1, <2>4, <2>5
    <3>2. ss[1] \in Seq(S) /\ tt[1] \in Seq(T) /\ Len(ss[1]) <= Len(tt[1])
      BY <2>1, <3>1
    <3> QED BY <3>1, <3>2
  <2>7. \A m \in 2..n : m - 1 \in G => m \in G
    <3> SUFFICES ASSUME NEW m \in 2..n, m - 1 \in G PROVE m \in G
      OBVIOUS
    <3>1. m \in 1..n /\ m # 1
      BY <2>1
    <3>2. g[m] = g[m - 1] \o ss[m] /\ h[m] = h[m - 1] \o tt[m]
      BY <2>4, <2>5, <3>1
    <3>3. ss[m] \in Seq(S) /\ tt[m] \in Seq(T) /\ Len(ss[m]) <= Len(tt[m])
      BY <2>1, <3>1
    <3>4. g[m - 1] \in Seq(S) /\ h[m - 1] \in Seq(T) /\ Len(g[m - 1]) <= Len(h[m - 1])
      OBVIOUS
    <3> HIDE DEF G
    <3>5. /\ g[m] \in Seq(S) /\ Len(g[m]) = Len(g[m - 1]) + Len(ss[m])
          /\ Len(g[m - 1]) \in Nat /\ Len(ss[m]) \in Nat
      BY ONLY <3>2, <3>3, <3>4, Joined
    <3>6. /\ h[m] \in Seq(T) /\ Len(h[m]) = Len(h[m - 1]) + Len(tt[m])
          /\ Len(h[m - 1]) \in Nat /\ Len(tt[m]) \in Nat
      BY ONLY <3>2, <3>3, <3>4, Joined
    <3>7. Len(g[m]) <= Len(h[m])
      <4> DEFINE p == Len(g[m - 1])
                 q == Len(ss[m])
                 u == Len(h[m - 1])
                 v == Len(tt[m])
      <4>1. p \in Nat /\ q \in Nat /\ u \in Nat /\ v \in Nat /\ p <= u /\ q <= v
        BY ONLY <3>3, <3>4, <3>5, <3>6
      <4>2. Len(g[m]) = p + q /\ Len(h[m]) = u + v
        BY ONLY <3>5, <3>6
      <4> HIDE DEF p, q, u, v
      <4>3. p + q <= u + v
        BY ONLY <4>1
      <4> QED BY ONLY <4>2, <4>3
    <3> QED BY <3>1, <3>5, <3>6, <3>7 DEF G
  <2> HIDE DEF G
  <2>8. \A i \in 1..n : i \in G
    BY ONLY <2>1, <2>6, <2>7, StepByStep
  <2>9. n \in 1..n
    BY <2>1
  <2>10. n \in G
    BY <2>8, <2>9
  <2> QED BY <2>2, <2>3, <2>10 DEF G
<1> QED BY <1>1, <1>2

\* the whole begins with its first part, and has at least the length of it
LEMMA FlattenedFirst ==
    ASSUME NEW S, NEW ss \in Seq(Seq(S)), ss # <<>>
    PROVE  /\ Len(ss[1]) <= Len(FlattenSeq(ss))
           /\ \A k \in 1..Len(ss[1]) : FlattenSeq(ss)[k] = ss[1][k]
<1> DEFINE n == Len(ss)
<1>1. n \in Nat \ {0} /\ \A i \in 1..n : ss[i] \in Seq(S)
  OBVIOUS
<1>2. PICK g : IsFlat(g, ss, n) /\ FlattenSeq(ss) = g[n]
  BY <1>1, FlatIs
<1> HIDE DEF n
<1>3. \A i \in 1..n : g[i] = IF i = 1 THEN ss[i] ELSE g[i - 1] \o ss[i]
  BY <1>1, <1>2, FlatAt
<1> DEFINE G == {i \in 1..n : /\ g[i] \in Seq(S) /\ Len(ss[1]) <= Len(g[i])
                              /\ \A k \in 1..Len(ss[1]) : g[i][k] = ss[1][k]}
<1>4. 1 \in G
  <2>1. g[1] = ss[1] /\ 1 \in 1..n /\ ss[1] \in Seq(S) /\ Len(ss[1]) \in Nat
    BY <1>1, <1>3
  <2> QED BY <2>1
<1>5. \A m \in 2..n : m - 1 \in G => m \in G
  <2> SUFFICES ASSUME NEW m \in 2..n, m - 1 \in G PROVE m \in G
    OBVIOUS
  <2>1. m \in 1..n /\ m # 1 /\ 1 \in 1..n
    BY <1>1
  <2>2. g[m] = g[m - 1] \o ss[m] /\ ss[m] \in Seq(S) /\ ss[1] \in Seq(S)
    BY <1>1, <1>3, <2>1
  <2>3. /\ g[m - 1] \in Seq(S) /\ Len(ss[1]) <= Len(g[m - 1])
        /\ \A k \in 1..Len(ss[1]) : g[m - 1][k] = ss[1][k]
    OBVIOUS
  <2> HIDE DEF G
  <2>4. /\ g[m] \in Seq(S) /\ Len(g[m]) = Len(g[m - 1]) + Len(ss[m])
        /\ Len(g[m - 1]) \in Nat /\ Len(ss[m]) \in Nat
        /\ \A k \in 1..Len(g[m - 1]) : g[m][k] = g[m - 1][k]
    <3> DEFINE s == g[m - 1]
               t == ss[m]
               w == g[m]
    <3>1. s \in Seq(S) /\ t \in Seq(S) /\ w = s \o t
      BY ONLY <2>2, <2>3
    <3> HIDE DEF s, t, w
    <3>2. /\ w \in Seq(S) /\ Len(w) = Len(s) + Len(t) /\ Len(s) \in Nat /\ Len(t) \in Nat
          /\ \A k \in 1..Len(s) : w[k] = s[k]
      BY ONLY <3>1, Joined
    <3> QED BY ONLY <3>2 DEF s, t, w
  <2>5. Len(ss[1]) \in Nat
    BY <2>2
  <2>6. Len(ss[1]) <= Len(g[m])
    <3> DEFINE p == Len(g[m - 1])
               q == Len(ss[m])
               u == Len(ss[1])
    <3>1. p \in Nat /\ q \in Nat /\ u \in Nat /\ u <= p /\ Len(g[m]) = p + q
      BY ONLY <2>3, <2>4, <2>5
    <3> HIDE DEF p, q, u
    <3>2. u <= p + q
      BY ONLY <3>1
    <3> QED BY ONLY <3>1, <3>2 DEF u
  <2>7. \A k \in 1..Len(ss[1]) : k \in 1..Len(g[m - 1])
    BY ONLY <2>3, <2>4, <2>5
  <2>8. \A k \in 1..Len(ss[1]) : g[m][k] = ss[1][k]
    BY ONLY <2>3, <2>4, <2>7
  <2> QED BY <2>1, <2>4, <2>6, <2>8 DEF G
<1> HIDE DEF G
<1>6. \A i \in 1..n : i \in G
  BY ONLY <1>1, <1>4, <1>5, StepByStep
<1>7. n \in 1..n
  BY <1>1
<1>8. n \in G
  BY <1>6, <1>7
<1> QED BY <1>2, <1>8 DEF G

\* a plan that was made has the fields of what a planner made
AsPlanned(x, q) ==
    /\ q.ok = TRUE
    /\ x.lane = q.lane /\ x.target = q.target /\ x.operation = q.operation
    /\ x.loss = q.loss /\ x.arguments = q.arguments /\ x.dropped = q.dropped

\* the planner of a lane, for a file and a request
PlannedIn(x, lane, f, r, op) ==
    LET a == lane.adapter
    IN /\ a = "Magick" => AsPlanned(x, PlanMagick(InspectMagick(f), r))
       /\ a = "Heif" => Readable(f) /\ AsPlanned(x, PlanHeic(InspectMedia(f), r))
       /\ a = "Ffmpeg" => Readable(f) /\ AsPlanned(x, PlanMedia(InspectMedia(f), r))
       /\ a \in PdfAdapters => AsPlanned(x, PlanPdf(lane, f, r, op))
       /\ a \in DataAdapters => AsPlanned(x, PlanData(lane, f, r))
       /\ a \in MailAdapters => AsPlanned(x, PlanMail(lane, f, r))
       /\ a \notin MediaAdapters \cup PdfAdapters \cup DataAdapters \cup MailAdapters =>
             AsPlanned(x, PlanDocument(lane, f, r))

\* the lane of a request, among all that the installed engines allow
LaneFor(lane, f, r, op) ==
    LET ext == ClassOf(f.ext)
    IN \/ op \in PdfOperations /\ lane = OperationLane(op)
       \/ /\ op = "none" /\ r.target \in SupportedTargets[ext]
          /\ \E h : lane = LaneOf(ext, ClassOf(f.container), r.target, h)

\* where a plan comes from
Origin(x, c) ==
    \/ /\ c.op = "metadata-clean" /\ Readable(c.file)
       /\ AsPlanned(x, PlanMetadataClean(InspectMedia(c.file), c.request))
    \/ /\ c.op # "metadata-clean"
       /\ \E lane : LaneFor(lane, c.file, c.request, c.op)
                      /\ PlannedIn(x, lane, c.file, c.request, c.op)

LEMMA ProbesOf ==
    /\ Probe("Magick") = InspectMagick(asked.file)
    /\ Probe("Heif") = InspectMedia(asked.file) /\ Probe("Ffmpeg") = InspectMedia(asked.file)
BY DEF Probe

LEMMA PlannedByItsLane ==
    ASSUME NEW x, NEW lane, PlanOfLane(lane).ok = TRUE, AsPlanned(x, PlanOfLane(lane))
    PROVE  PlannedIn(x, lane, asked.file, Request, asked.op)
<1> DEFINE a == lane.adapter
           q == PlanOfLane(lane)
           f == asked.file
<1>0. \A c : Refused(c).ok # TRUE
  BY DEF Refused
<1>1. /\ a = "Magick" => q = PlanMagick(Probe(a), Request)
      /\ a = "Heif" => q = IF Readable(f) THEN PlanHeic(Probe(a), Request)
                           ELSE Refused("InputInvalid")
      /\ a = "Ffmpeg" => q = IF Readable(f) THEN PlanMedia(Probe(a), Request)
                             ELSE Refused("InputInvalid")
      /\ a \in PdfAdapters => q = PlanPdf(lane, f, Request, asked.op)
      /\ a \in DataAdapters => q = PlanData(lane, f, Request)
      /\ a \in MailAdapters => q = PlanMail(lane, f, Request)
      /\ a \notin MediaAdapters \cup PdfAdapters \cup DataAdapters \cup MailAdapters =>
            q = PlanDocument(lane, f, Request)
  BY PlannerOf
<1>2. q.ok = TRUE /\ AsPlanned(x, q)
  OBVIOUS
<1> HIDE DEF q
<1>3. a = "Magick" => AsPlanned(x, PlanMagick(InspectMagick(f), Request))
  BY <1>1, <1>2, ProbesOf
<1>4. a = "Heif" => Readable(f) /\ AsPlanned(x, PlanHeic(InspectMedia(f), Request))
  BY <1>0, <1>1, <1>2, ProbesOf
<1>5. a = "Ffmpeg" => Readable(f) /\ AsPlanned(x, PlanMedia(InspectMedia(f), Request))
  BY <1>0, <1>1, <1>2, ProbesOf
<1> QED BY <1>1, <1>2, <1>3, <1>4, <1>5 DEF PlannedIn

LEMMA PreparedOrigin ==
    ASSUME CaseAssumption(asked), Prepared.ok
    PROVE  Origin(Prepared, asked)
<1>0. \A c : Refused(c).ok # TRUE
  BY DEF Refused
<1>1. IsPlan(PlanNow)
  <2>1. CASE PlanNow.ok = FALSE /\ {"ok", "code"} \subseteq DOMAIN PlanNow
    <3>1. Prepared.ok = FALSE
      BY <2>1, PreparedFields
    <3> QED BY <3>1
  <2> QED BY <2>1, PlanNowIsSound
<1>2. PlanNow.ok = TRUE /\ {"ok", "lane", "engine", "target", "operation", "loss", "arguments",
         "dropped"} \subseteq DOMAIN PlanNow \ {"input", "more", "version"}
  BY <1>1 DEF IsPlan
<1>3. AsPlanned(Prepared, PlanNow)
  BY <1>2, PreparedFields DEF AsPlanned
<1>4. CASE asked.op = "metadata-clean"
  <2> DEFINE engines == IF {"ffprobe", "ffmpeg"} \subseteq have THEN "accepted" ELSE "EngineMissing"
  <2>1. engines = "accepted"
    BY <1>0, <1>2, <1>4 DEF PlanNow
  <2>2. PlanNow = IF ~Readable(asked.file) THEN Refused("InputInvalid")
                  ELSE PlanMetadataClean(Probe("Ffmpeg"), Request)
    BY <1>4, <2>1 DEF PlanNow
  <2>3. Readable(asked.file) /\ PlanNow = PlanMetadataClean(InspectMedia(asked.file), asked.request)
    BY <1>0, <1>2, <2>2, ProbesOf DEF Request
  <2> QED BY <1>3, <1>4, <2>3 DEF Origin
<1>5. CASE asked.op # "metadata-clean"
  <2> DEFINE refusal == RouteRefusal(Extension, Content, Request.target, asked.op, have)
  <2>1. refusal = "accepted"
    BY <1>0, <1>2, <1>5 DEF PlanNow
  <2>2. PlanNow = PlanOfLane(LaneNow)
    BY <1>5, <2>1 DEF PlanNow
  <2>3. PlannedIn(Prepared, LaneNow, asked.file, Request, asked.op)
    BY <1>2, <1>3, <2>2, PlannedByItsLane
  <2>4. LaneFor(LaneNow, asked.file, Request, asked.op)
    <3>1. CASE asked.op = "none"
      <4>1. EnsureRouteAvailable(Extension, Request.target, have) = "available"
        <5>1. EnsureRouteAvailable(Extension, Request.target, have) # "accepted"
          BY DEF EnsureRouteAvailable
        <5> QED BY <2>1, <3>1, <5>1 DEF RouteRefusal
      <4>2. Request.target \in SupportedTargets[Extension]
        BY <4>1 DEF EnsureRouteAvailable
      <4>3. LaneNow = LaneOf(Extension, Content, Request.target, have)
        BY <3>1 DEF LaneNow, Prepare
      <4> QED BY <3>1, <4>2, <4>3 DEF LaneFor, Extension, Content
    <3>2. CASE asked.op \in PdfOperations
      <4>1. asked.op # "none"
        BY <3>2 DEF PdfOperations
      <4>2. LaneNow = OperationLane(asked.op)
        BY <4>1 DEF LaneNow, Prepare
      <4> QED BY <3>2, <4>2 DEF LaneFor
    <3> QED BY <1>5, <3>1, <3>2 DEF CaseAssumption
  <2> QED BY <1>5, <2>3, <2>4 DEF Origin, Request
<1> QED BY <1>4, <1>5

-----------------------------------------------------------------------------
(* The invariant of the verdict.                                            *)

\* a job whose output the validator refused
Condemned == stage = "failed" /\ code = "ValidationFailed"

VerdictInv ==
    /\ plan.ok => Origin(plan, asked)
    /\ stage \in {"made", "committed"} \/ Condemned =>
          CanOpen /\ out \in {Obeyed} \cup Spoilt /\ given = Given(plan, Request)
    /\ stage = "committed" => Verdict # "fail"
    /\ Condemned => Verdict = "fail"

\* what was written and what is said of it is of the case, the plan, the password and the output
LEMMA OutputUntouched ==
    ASSUME UNCHANGED <<asked, plan, given>>
    PROVE  CanOpen' = CanOpen /\ Obeyed' = Obeyed /\ Spoilt' = Spoilt
           /\ Given(plan, Request)' = Given(plan, Request)
<1>1. Obeyed' = Obeyed
  BY DEF Obeyed, Probe, Request
<1>2. CanOpen' = CanOpen
  BY DEF CanOpen
<1>3. Spoilt' = Spoilt
  BY <1>1 DEF Spoilt
<1>4. Given(plan, Request)' = Given(plan, Request)
  BY DEF Given, Redacted, Registered, Request
<1> QED BY <1>1, <1>2, <1>3, <1>4

LEMMA VerdictUntouched ==
    ASSUME UNCHANGED <<asked, plan, out, fits>>
    PROVE  Verdict' = Verdict
BY DEF Verdict, VerdictOfMedia, Probe

LEMMA VerdictInitially == Init => VerdictInv
<1> SUFFICES ASSUME Init PROVE VerdictInv
  OBVIOUS
<1>1. stage = "asked" /\ plan = Refused(None)
  BY DEF Init
<1>2. plan.ok = FALSE
  BY <1>1 DEF Refused
<1> QED BY <1>1, <1>2 DEF VerdictInv, Condemned

LEMMA OriginUntouched ==
    ASSUME VerdictInv, UNCHANGED <<asked, plan>>
    PROVE  plan'.ok => Origin(plan', asked')
BY DEF VerdictInv

\* a step in which nothing is written or judged
LEMMA NothingWritten ==
    ASSUME VerdictInv, UNCHANGED <<asked, plan, given, out, fits>>,
           \/ UNCHANGED <<stage, code>>
           \/ stage' \in {"ready", "running", "refused", "previewed"}
           \/ (stage' = "failed" /\ code' # "ValidationFailed")
    PROVE  VerdictInv'
<1>1. /\ CanOpen' = CanOpen /\ Obeyed' = Obeyed /\ Spoilt' = Spoilt
      /\ Given(plan, Request)' = Given(plan, Request) /\ Verdict' = Verdict
  BY OutputUntouched, VerdictUntouched
<1>2. plan'.ok => Origin(plan', asked')
  BY OriginUntouched
<1>3. Condemned' => Condemned
  BY DEF Condemned
<1>4. stage' \in {"made", "committed"} => stage = stage'
  OBVIOUS
<1> QED BY <1>1, <1>2, <1>3, <1>4 DEF VerdictInv

LEMMA VerdictStep == IInv /\ PlanInv /\ VerdictInv /\ [Next]_vars => VerdictInv'
<1> SUFFICES ASSUME IInv, PlanInv, VerdictInv, [Next]_vars PROVE VerdictInv'
  OBVIOUS
<1>1. ASSUME plan' = Prepared, asked' = asked, stage' \in {"previewed", "ready", "refused"}
      PROVE  VerdictInv'
  <2>1. Prepared.ok => Origin(Prepared, asked)
    BY PreparedOrigin DEF PlanInv
  <2>2. plan'.ok => Origin(plan', asked')
    BY <1>1, <2>1
  <2> QED BY <1>1, <2>2 DEF VerdictInv, Condemned
<1>2. CASE Preview
  BY <1>1, <1>2 DEF Preview, Prepares
<1>3. CASE Convert
  BY <1>1, <1>3 DEF Convert, Prepares
<1>4. CASE StartFails
  BY <1>4, NothingWritten DEF StartFails, Fails
<1>5. CASE Start \/ Retry
  <2>1. stage' \in {"running", "ready"} /\ UNCHANGED <<asked, plan>>
    BY <1>5 DEF Start, Retry
  <2>2. plan'.ok => Origin(plan', asked')
    BY <2>1, OriginUntouched
  <2> QED BY <2>1, <2>2 DEF VerdictInv, Condemned
<1>6. CASE Attempt
  <2>0. stage = "running" /\ UNCHANGED <<asked, plan, given>>
    BY <1>6 DEF Attempt
  <2>1. plan'.ok => Origin(plan', asked')
    BY <2>0, OriginUntouched
  <2>2. CASE stage' \in {"running", "failed"} /\ (stage' = "failed" => code' = "EngineFailed")
    BY <2>1, <2>2 DEF VerdictInv, Condemned
  <2>3. CASE stage' = "made" /\ CanOpen /\ out' \in {Obeyed} \cup Spoilt
    <3>1. given = Given(plan, Request)
      BY <2>0 DEF IInv, PasswordsServeOnce, Given
    <3>2. /\ CanOpen' = CanOpen /\ Obeyed' = Obeyed /\ Spoilt' = Spoilt
          /\ Given(plan, Request)' = Given(plan, Request)
      BY <2>0, OutputUntouched
    <3> QED BY <2>0, <2>1, <2>3, <3>1, <3>2 DEF VerdictInv, Condemned
  <2> QED BY <1>6, <2>0, <2>2, <2>3 DEF Attempt, Fails
<1>7. CASE Validate
  <2>0. stage = "made" /\ UNCHANGED <<asked, plan, given, out, fits>>
    BY <1>7 DEF Validate
  <2>1. plan'.ok => Origin(plan', asked')
    BY <2>0, OriginUntouched
  <2>2. /\ CanOpen' = CanOpen /\ Obeyed' = Obeyed /\ Spoilt' = Spoilt
        /\ Given(plan, Request)' = Given(plan, Request) /\ Verdict' = Verdict
    BY <2>0, OutputUntouched, VerdictUntouched
  <2>3. CanOpen /\ out \in {Obeyed} \cup Spoilt /\ given = Given(plan, Request)
    BY <2>0 DEF VerdictInv
  <2>4. /\ stage' = "committed" => Verdict # "fail"
        /\ Condemned' => Verdict = "fail"
        /\ stage' \in {"committed", "failed"}
    BY <1>7 DEF Validate, Fails, Condemned
  <2> QED BY <2>0, <2>1, <2>2, <2>3, <2>4 DEF VerdictInv
<1>8. CASE EditInput \/ EditMore \/ ReplaceEngine \/ LoseEngine \/ Restart \/ UNCHANGED vars
  <2>1. UNCHANGED <<asked, plan, given, out, fits, stage, code>>
    BY <1>8 DEF EditInput, EditMore, ReplaceEngine, LoseEngine, Restart, Rest, vars
  <2> QED BY <2>1, NothingWritten
<1> QED BY <1>2, <1>3, <1>4, <1>5, <1>6, <1>7, <1>8 DEF Next

LEMMA SpecVerdictInvariant == Spec => []VerdictInv
<1>1. Init => VerdictInv
  BY VerdictInitially
<1>2. IInv /\ PlanInv /\ VerdictInv /\ [Next]_vars => VerdictInv'
  BY VerdictStep
<1> QED BY <1>1, <1>2, SpecInvariant, SpecPlanInvariant, PTL DEF Spec

\* what is known of a plan whose planner accepted
LEMMA PassedTests ==
    ASSUME NEW tests, NEW p, NEW q, DOMAIN tests \subseteq Nat,
           \A i \in DOMAIN tests : tests[i][2] # "accepted",
           q = IF Refusal(tests) # "accepted" THEN Refused(Refusal(tests)) ELSE p, q.ok = TRUE
    PROVE  q = p /\ \A i \in DOMAIN tests : ~tests[i][1]
<1>1. \A c : Refused(c).ok # TRUE
  BY DEF Refused
<1>2. Refusal(tests) = "accepted"
  BY <1>1
<1> QED BY <1>2, AcceptedTests

-----------------------------------------------------------------------------
(* The lanes of documents.                                                  *)

LEMMA PandocReads ==
    ASSUME NEW lane, NEW f, NEW r, NEW q, q = PlanPandoc(lane, f, r), q.ok = TRUE
    PROVE  InspectDocument(f) = "accepted"
<1> DEFINE hint == DocumentHint(f)
           a == InspectDocument(f) # "accepted"
           b == ~ExportsFrom(f, hint, r.target) /\ hint \notin MarkupFormats
           c == hint # "docx" /\ Text(f).external
           tests == << <<a, InspectDocument(f)>>, <<b, "Unsupported">>, <<c, "PolicyBlocked">> >>
           p == DocumentPlanOf(lane, f, r, "unknown", hint)
<1>1. q = IF Refusal(tests) # "accepted" THEN Refused(Refusal(tests)) ELSE p
  BY DEF PlanPandoc
<1>2. CASE InspectDocument(f) # "accepted"
  <2> HIDE DEF b, c, p
  <2>1. DOMAIN tests = 1..3 /\ tests[1][1] = a /\ \A i \in 1..3 : tests[i][2] # "accepted"
    BY <1>2
  <2> HIDE DEF tests
  <2>2. DOMAIN tests \subseteq Nat /\ 1 \in DOMAIN tests
    BY <2>1
  <2>3. \A i \in DOMAIN tests : ~tests[i][1]
    BY <1>1, <2>1, <2>2, PassedTests
  <2> QED BY <1>2, <2>1, <2>2, <2>3
<1> QED BY <1>2

LEMMA PrinterReads ==
    ASSUME NEW lane, NEW f, NEW r, NEW sources, NEW loss, NEW q,
           q = PlanPrintOf(lane, f, r, sources, loss), q.ok = TRUE
    PROVE  InspectDocument(f) = "accepted"
<1> DEFINE a == InspectDocument(f) # "accepted"
           b == DocumentHint(f) \notin sources
           c == Text(f).external
           tests == << <<a, InspectDocument(f)>>, <<b, "Unsupported">>, <<c, "PolicyBlocked">> >>
           p == DocumentPlanOf(lane, f, r, loss, DocumentHint(f))
<1>1. q = IF Refusal(tests) # "accepted" THEN Refused(Refusal(tests)) ELSE p
  BY DEF PlanPrintOf
<1>2. CASE InspectDocument(f) # "accepted"
  <2> HIDE DEF b, c, p
  <2>1. DOMAIN tests = 1..3 /\ tests[1][1] = a /\ \A i \in 1..3 : tests[i][2] # "accepted"
    BY <1>2
  <2> HIDE DEF tests
  <2>2. DOMAIN tests \subseteq Nat /\ 1 \in DOMAIN tests
    BY <2>1
  <2>3. \A i \in DOMAIN tests : ~tests[i][1]
    BY <1>1, <2>1, <2>2, PassedTests
  <2> QED BY <1>2, <2>1, <2>2, <2>3
<1> QED BY <1>2

LEMMA RecognizerReads ==
    ASSUME NEW lane, NEW f, NEW r, NEW q, q = PlanImageOcr(lane, f, r), q.ok = TRUE
    PROVE  f.container \in Pictures
<1> DEFINE p == InspectMedia(f)
           a == p.format \notin Pictures
           b == r.language = "e-n"
           tests == << <<a, "Unsupported">>, <<b, "InputInvalid">> >>
           z == DocumentPlanOf(lane, f, r, "lossy", p.format)
<1>1. q = IF Refusal(tests) # "accepted" THEN Refused(Refusal(tests)) ELSE z
  BY DEF PlanImageOcr
<1>2. InspectMedia(f).format = NormalizedFormat(f.container, f.ext)
  BY DEF InspectMedia
<1> HIDE DEF a, b, z
<1>3. DOMAIN tests = 1..2 /\ tests[1][1] = a /\ \A i \in 1..2 : tests[i][2] # "accepted"
  OBVIOUS
<1> HIDE DEF tests, p
<1>4. ~a
  <2>1. DOMAIN tests \subseteq Nat /\ 1 \in DOMAIN tests
    BY <1>3
  <2>2. \A i \in DOMAIN tests : ~tests[i][1]
    BY <1>1, <1>3, <2>1, PassedTests
  <2> QED BY <1>3, <2>1, <2>2
<1>5. NormalizedFormat(f.container, f.ext) \in Pictures
  BY <1>2, <1>4 DEF a, p
<1>6. CASE f.container \in ImageFormats
  BY <1>5, <1>6 DEF NormalizedFormat
<1>7. CASE f.container \notin ImageFormats
  <2> DEFINE s == SniffedDemuxer(f.container)
  <2>1. NormalizedFormat(f.container, f.ext)
          \in {"webm", "mkv", "mov", "m4a", "mp4", "opus", "ogg", f.container}
    BY <1>7 DEF NormalizedFormat
  <2> QED BY <1>5, <2>1 DEF Pictures
<1> QED BY <1>6, <1>7

\* which lanes read the words of a document, and which look at a picture
LEMMA DocumentsRead ==
    ASSUME NEW lane, NEW f, NEW r, NEW q, q = PlanDocument(lane, f, r), q.ok = TRUE,
           DocumentFile(f), lane.adapter \in {"Pandoc", "MarkupPdf", "EdgePrint", "ImageOcr"}
    PROVE  Text(f).words \in Seq(STRING) /\ Text(f).hidden \in Seq(STRING)
<1> DEFINE a == lane.adapter
<1>1. CASE a = "Pandoc"
  <2>1. q = PlanPandoc(lane, f, r)
    BY ONLY q = PlanDocument(lane, f, r), <1>1, Zenon DEF PlanDocument
  <2> QED BY <2>1, PandocReads DEF DocumentFile
<1>2. CASE a = "MarkupPdf"
  <2>1. q = PlanMarkupPdf(lane, f, r)
    BY ONLY q = PlanDocument(lane, f, r), <1>2, Zenon DEF PlanDocument
  <2> QED BY <2>1, PrinterReads DEF PlanMarkupPdf, DocumentFile
<1>3. CASE a = "EdgePrint"
  <2>1. q = PlanEdgePrint(lane, f, r)
    BY ONLY q = PlanDocument(lane, f, r), <1>3, Zenon DEF PlanDocument
  <2> QED BY <2>1, PrinterReads DEF PlanEdgePrint, DocumentFile
<1>4. CASE a = "ImageOcr"
  <2>1. q = PlanImageOcr(lane, f, r)
    <3>1. /\ lane.adapter # "Pandoc" /\ lane.adapter # "MarkupPdf" /\ lane.adapter # "EdgePrint"
          /\ lane.adapter # "OfficeCsv" /\ lane.adapter # "OfficeExchange"
          /\ lane.adapter # "OfficePdf"
      BY <1>4
    <3> QED BY ONLY q = PlanDocument(lane, f, r), <3>1, Zenon DEF PlanDocument
  <2> QED BY <2>1, RecognizerReads DEF DocumentFile
<1> QED BY <1>1, <1>2, <1>3, <1>4

\* the targets of the lanes
LEMMA DocumentTargets ==
    ASSUME NEW ext, NEW content, NEW t, NEW h, NEW a, a = LaneOf(ext, content, t, h).adapter
    PROVE  /\ a = "Pandoc" => t \in {"txt", "md", "html", "epub", "docx"}
           /\ a \in {"MarkupPdf", "EdgePrint", "OfficePdf"} => t = "pdf"
           /\ a = "OfficeExchange" => t \in {"docx", "odt"}
           /\ a = "OfficeCsv" => t = "csv"
           /\ a = "ImageOcr" => t \in {"txt", "md"}
BY DEF LaneOf, Lane, DocumentToPdf, MediaLane

-----------------------------------------------------------------------------
(* The words that the inspector reads.                                      *)

Pieces(f) ==
    [i \in DOMAIN Text(f).words |->
        IF Text(f).words[i] = "split" /\ f.container # "docx" THEN <<"sp", "lit">>
        ELSE <<Text(f).words[i]>>]

\* the words that a document may have
Vocabulary == STRING \cup {"sp", "lit", "other", "style", "contents"}

LEMMA WiderSequence ==
    ASSUME NEW S, NEW T, S \subseteq T, NEW s \in Seq(S)
    PROVE  s \in Seq(T)
OBVIOUS

LEMMA PairIsASequence ==
    ASSUME NEW S, NEW x \in S, NEW y \in S
    PROVE  <<x, y>> \in Seq(S) /\ Len(<<x, y>>) = 2
OBVIOUS

LEMMA PiecesOf ==
    ASSUME NEW f, Text(f).words \in Seq(Vocabulary)
    PROVE  /\ Pieces(f) \in Seq(Seq(Vocabulary)) /\ Len(Pieces(f)) = Len(Text(f).words)
           /\ \A i \in 1..Len(Text(f).words) : Len(Pieces(f)[i]) \in {1, 2}
           /\ f.container = "docx" =>
                 \A i \in 1..Len(Text(f).words) : Pieces(f)[i] = <<Text(f).words[i]>>
<1> DEFINE w == Text(f).words
           P(i) == IF w[i] = "split" /\ f.container # "docx" THEN <<"sp", "lit">> ELSE <<w[i]>>
<1>1. w \in Seq(Vocabulary) /\ DOMAIN w = 1..Len(w) /\ Len(w) \in Nat
  OBVIOUS
<1>2. Pieces(f) = [i \in 1..Len(w) |-> P(i)]
  BY <1>1 DEF Pieces
<1>3. \A i \in 1..Len(w) : P(i) \in Seq(Vocabulary) /\ Len(P(i)) \in {1, 2}
  <2> SUFFICES ASSUME NEW i \in 1..Len(w) PROVE P(i) \in Seq(Vocabulary) /\ Len(P(i)) \in {1, 2}
    OBVIOUS
  <2>1. w[i] \in Vocabulary
    BY <1>1
  <2>2. <<w[i]>> \in Seq(Vocabulary) /\ Len(<<w[i]>>) = 1
    BY <2>1
  <2>3. <<"sp", "lit">> \in Seq(Vocabulary) /\ Len(<<"sp", "lit">>) = 2
    <3>1. "sp" \in Vocabulary
      BY DEF Vocabulary
    <3>2. "lit" \in Vocabulary
      BY DEF Vocabulary
    <3> QED BY <3>1, <3>2, PairIsASequence
  <2> QED BY <2>2, <2>3
<1>4. f.container = "docx" => \A i \in 1..Len(w) : P(i) = <<w[i]>>
  OBVIOUS
<1> HIDE DEF P, w
<1> QED BY <1>1, <1>2, <1>3, <1>4 DEF w

LEMMA TokensOf ==
    ASSUME NEW f, Text(f).words \in Seq(Vocabulary), Text(f).hidden \in Seq(Vocabulary)
    PROVE  /\ Tokens(f) = FlattenSeq(Pieces(f)) \o Text(f).hidden
           /\ FlattenSeq(Pieces(f)) \in Seq(Vocabulary)
           /\ Text(f).words = <<>> => Tokens(f) = Text(f).hidden
           /\ Text(f).words # <<>> => Tokens(f) # <<>> /\ Tokens(f)[1] = Pieces(f)[1][1]
           /\ Len(Tokens(f)) = Len(FlattenSeq(Pieces(f))) + Len(Text(f).hidden)
           /\ Tokens(f) \in Seq(Vocabulary)
<1> DEFINE w == Text(f).words
           h == Text(f).hidden
           z == FlattenSeq(Pieces(f))
<1>1. Tokens(f) = z \o h
  BY DEF Tokens, Pieces
<1>2. z \in Seq(Vocabulary)
  BY PiecesOf, FlattenedMembers
<1>3. h \in Seq(Vocabulary)
  OBVIOUS
<1>4. w = <<>> => z = <<>>
  BY FlatOfNone DEF Pieces
<1>5. w # <<>> => Len(z) >= 1 /\ z[1] = Pieces(f)[1][1]
  <2> SUFFICES ASSUME w # <<>> PROVE Len(z) >= 1 /\ z[1] = Pieces(f)[1][1]
    OBVIOUS
  <2>1. Len(w) \in Nat /\ Len(w) # 0
    OBVIOUS
  <2>2. Pieces(f) \in Seq(Seq(Vocabulary)) /\ Pieces(f) # <<>> /\ Len(Pieces(f)[1]) \in {1, 2}
    <3>1. Len(Pieces(f)) # 0 /\ 1 \in 1..Len(w)
      BY <2>1, PiecesOf
    <3> QED BY <3>1, PiecesOf
  <2> HIDE DEF w
  <2>3. /\ Len(Pieces(f)[1]) <= Len(z)
        /\ \A k \in 1..Len(Pieces(f)[1]) : z[k] = Pieces(f)[1][k]
    BY ONLY <2>2, FlattenedFirst
  <2>4. Len(z) \in Nat
    BY <1>2
  <2> HIDE DEF z
  <2> QED BY ONLY <2>2, <2>3, <2>4
<1> HIDE DEF z, h, w
<1>6. Tokens(f) \in Seq(Vocabulary) /\ Len(Tokens(f)) = Len(z) + Len(h)
      /\ \A k \in 1..Len(z) : Tokens(f)[k] = z[k]
  BY ONLY <1>1, <1>2, <1>3, Joined
<1>7. w # <<>> => Tokens(f) # <<>> /\ Tokens(f)[1] = Pieces(f)[1][1]
  <2> SUFFICES ASSUME w # <<>> PROVE Tokens(f) # <<>> /\ Tokens(f)[1] = Pieces(f)[1][1]
    OBVIOUS
  <2>1. Len(z) \in Nat /\ Len(h) \in Nat /\ Len(z) >= 1
    BY <1>2, <1>3, <1>5
  <2>2. Len(Tokens(f)) # 0 /\ 1 \in 1..Len(z)
    BY <1>6, <2>1
  <2> QED BY <1>5, <1>6, <2>2
<1>8. w = <<>> => Tokens(f) = h
  BY <1>1, <1>3, <1>4
<1> QED BY <1>1, <1>2, <1>6, <1>7, <1>8 DEF z, h, w

\* the verdict of the lane, for the prover that knows CASE
LEMMA DocumentVerdictOf ==
    ASSUME NEW f, NEW o, NEW x, x.lane \in DocumentAdapters
    PROVE  LET failed == ValidateDocument(f, o, x) = "fail"
           IN /\ x.lane = "Pandoc" /\ x.target = "docx" => (failed <=> DocxFails(f, o))
              /\ x.lane = "Pandoc" /\ x.target # "docx" =>
                    (failed <=> ExportOfPandocFails(f, o, x.target))
              /\ x.lane = "MarkupPdf" => (failed <=> DocxFails(f, Intermediate(f)) \/ PagesFail(o))
              /\ x.lane = "EdgePrint" => (failed <=> PrintFails(f, o))
              /\ x.lane = "OfficePdf" => (failed <=> PagesFail(o))
              /\ x.lane = "OfficeExchange" => (failed <=> o.container # x.target)
              /\ x.lane = "OfficeCsv" => (failed <=> SheetsFail(f, o))
              /\ x.lane = "ImageOcr" => (failed <=> Text(o).words = <<>>)
<1> DEFINE fails == CASE x.lane = "Pandoc" /\ x.target = "docx" -> DocxFails(f, o)
                      [] x.lane = "Pandoc" /\ x.target # "docx" -> ExportOfPandocFails(f, o, x.target)
                      [] x.lane = "MarkupPdf" -> DocxFails(f, Intermediate(f)) \/ PagesFail(o)
                      [] x.lane = "EdgePrint" -> PrintFails(f, o)
                      [] x.lane = "OfficePdf" -> PagesFail(o)
                      [] x.lane = "OfficeExchange" -> o.container # x.target
                      [] x.lane = "OfficeCsv" -> SheetsFail(f, o)
                      [] OTHER -> Text(o).words = <<>>
<1>1. ValidateDocument(f, o, x) = IF fails THEN "fail"
        ELSE IF x.lane \in {"OfficePdf", "OfficeExchange", "MarkupPdf"} THEN "warning" ELSE "pass"
  BY DEF ValidateDocument
<1>2. /\ x.lane = "Pandoc" /\ x.target = "docx" => (fails <=> DocxFails(f, o))
      /\ x.lane = "Pandoc" /\ x.target # "docx" => (fails <=> ExportOfPandocFails(f, o, x.target))
      /\ x.lane = "MarkupPdf" => (fails <=> DocxFails(f, Intermediate(f)) \/ PagesFail(o))
      /\ x.lane = "EdgePrint" => (fails <=> PrintFails(f, o))
      /\ x.lane = "OfficePdf" => (fails <=> PagesFail(o))
      /\ x.lane = "OfficeExchange" => (fails <=> o.container # x.target)
      /\ x.lane = "OfficeCsv" => (fails <=> SheetsFail(f, o))
      /\ x.lane = "ImageOcr" => (fails <=> Text(o).words = <<>>)
  BY Zenon
<1> HIDE DEF fails
<1>3. ValidateDocument(f, o, x) = "fail" <=> fails
  BY <1>1
<1> QED BY <1>2, <1>3

\* what the lanes write
LEMMA DocumentOutputOf ==
    ASSUME NEW f, NEW x, NEW e, NEW o, o = DocumentOutput(f, x, e)
    PROVE  /\ x.lane = "OfficeCsv" /\ x.target # "pdf" =>
                 o = [container |-> "directory", ext |-> e, body |-> << [sheets |-> Text(f).sheets] >>]
           /\ x.lane # "OfficeCsv" /\ x.target = "pdf" =>
                 o = [container |-> "pdf", ext |-> e,
                      body |-> << [words |-> Text(f).words, pages |-> 1, rendered |-> 1,
                                   embedded |-> TRUE] >>]
           /\ x.lane # "OfficeCsv" /\ x.target # "pdf" =>
                 o = [container |-> x.target, ext |-> x.target,
                      body |-> << [words |-> Text(f).words, hidden |-> Furniture(x.target)] >>]
<1>1. ASSUME x.lane = "OfficeCsv", x.target # "pdf"
      PROVE  o = [container |-> "directory", ext |-> e, body |-> << [sheets |-> Text(f).sheets] >>]
  BY <1>1 DEF DocumentOutput
<1>2. ASSUME x.lane # "OfficeCsv", x.target = "pdf"
      PROVE  o = [container |-> "pdf", ext |-> e,
                  body |-> << [words |-> Text(f).words, pages |-> 1, rendered |-> 1,
                               embedded |-> TRUE] >>]
  BY <1>2 DEF DocumentOutput
<1>3. ASSUME x.lane # "OfficeCsv", x.target # "pdf"
      PROVE  o = [container |-> x.target, ext |-> x.target,
                  body |-> << [words |-> Text(f).words, hidden |-> Furniture(x.target)] >>]
  BY <1>3 DEF DocumentOutput
<1> QED BY <1>1, <1>2, <1>3

LEMMA FurnitureOf ==
    /\ Furniture("html") = <<"style">> /\ Furniture("epub") = <<"contents">>
    /\ \A t \in {"txt", "md", "docx"} : Furniture(t) = <<>>
BY DEF Furniture

LEMMA DocumentGapsOf ==
    ASSUME NEW f, NEW x, x.lane \in DocumentAdapters
    PROVE  LET text == Text(f)
               gap == DocumentHonestGaps(f, x)
           IN /\ x.lane = "OfficeCsv" /\ (\A i \in DOMAIN text.sheets : text.sheets[i] = 0) => gap
              /\ \/ x.lane = "MarkupPdf"
                 \/ x.lane = "Pandoc" /\ x.target = "docx"
                 => (text.hidden # <<>> \/ "split" \in ToSet(text.words) => gap)
              /\ x.lane = "Pandoc" /\ x.target = "epub" =>
                    (text.hidden # <<>> /\ 4 * Len(text.hidden) >= Len(text.words) => gap)
              /\ x.lane = "EdgePrint" => (text.words = <<>> /\ text.hidden # <<>> => gap)
              /\ \/ x.lane = "ImageOcr"
                 \/ x.lane = "Pandoc" /\ x.target \in {"txt", "md"}
                 => (text.words = <<>> => gap)
<1> DEFINE text == Text(f)
           gap == DocumentHonestGaps(f, x)
<1>1. ASSUME x.lane = "OfficeCsv" PROVE gap <=> \A i \in DOMAIN text.sheets : text.sheets[i] = 0
  BY <1>1, Zenon DEF DocumentHonestGaps
<1>2. ASSUME x.lane = "MarkupPdf" PROVE gap <=> text.hidden # <<>> \/ "split" \in ToSet(text.words)
  BY <1>2, Zenon DEF DocumentHonestGaps
<1>3. ASSUME x.lane = "Pandoc", x.target = "docx"
      PROVE  gap <=> text.hidden # <<>> \/ "split" \in ToSet(text.words)
  BY <1>3, Zenon DEF DocumentHonestGaps
<1>4. ASSUME x.lane = "Pandoc", x.target = "epub"
      PROVE  gap <=> text.hidden # <<>> /\ 4 * Len(text.hidden) >= Len(text.words)
  BY <1>4, Zenon DEF DocumentHonestGaps
<1>5. ASSUME x.lane = "EdgePrint" PROVE gap <=> text.words = <<>> /\ text.hidden # <<>>
  BY <1>5, Zenon DEF DocumentHonestGaps
<1>6. ASSUME x.lane = "ImageOcr" PROVE gap <=> text.words = <<>>
  BY <1>6, Zenon DEF DocumentHonestGaps
<1>7. ASSUME x.lane = "Pandoc", x.target \in {"txt", "md"} PROVE gap <=> text.words = <<>>
  <2>1. x.target # "docx" /\ x.target # "epub" /\ x.lane # "MarkupPdf"
    BY <1>7
  <2> QED BY ONLY <1>7, <2>1, Zenon DEF DocumentHonestGaps
<1> QED BY <1>1, <1>2, <1>3, <1>4, <1>5, <1>6, <1>7

\* a DOCX of the words of a document reads as the document does, but for a gap
LEMMA DocxReadsAlike ==
    ASSUME NEW f, Text(f).words \in Seq(Vocabulary), Text(f).hidden = <<>>,
           "split" \notin ToSet(Text(f).words), NEW o,
           o = [container |-> "docx", ext |-> "docx",
                body |-> << [words |-> Text(f).words, hidden |-> <<>>] >>]
    PROVE  ~DocxFails(f, o)
<1>1. Text(o) = [words |-> Text(f).words, hidden |-> <<>>] /\ o.container = "docx"
      /\ o.ext = "docx"
  BY DEF Text
<1>2. DocumentHint(o) = "docx" /\ InspectDocument(o) = "accepted"
  BY <1>1 DEF DocumentHint, InspectDocument, Packages
<1>3. Text(o).words = Text(f).words /\ Text(o).hidden = Text(f).hidden
  BY <1>1
<1>4. \A i \in DOMAIN Text(f).words : Text(f).words[i] # "split"
  BY DEF ToSet
<1>5. Tokens(o) = Tokens(f)
  BY <1>3, <1>4 DEF Tokens
<1> QED BY <1>2, <1>5 DEF DocxFails

\* what the lanes plan a document for, and what they have read of it
Fitting(f, x) ==
    /\ x.lane \in DocumentAdapters
    /\ x.lane = "Pandoc" => x.target \in {"txt", "md", "html", "epub", "docx"}
    /\ x.lane \in {"MarkupPdf", "EdgePrint", "OfficePdf"} => x.target = "pdf"
    /\ x.lane = "OfficeExchange" => x.target \in {"docx", "odt"}
    /\ x.lane = "OfficeCsv" => x.target = "csv"
    /\ x.lane = "ImageOcr" => x.target \in {"txt", "md"}
    /\ x.lane \in {"Pandoc", "MarkupPdf", "EdgePrint", "ImageOcr"} =>
          Text(f).words \in Seq(Vocabulary) /\ Text(f).hidden \in Seq(Vocabulary)

LEMMA DocumentsApart ==
    /\ DocumentAdapters = {"Pandoc", "MarkupPdf", "EdgePrint", "ImageOcr", "OfficePdf",
                           "OfficeExchange", "OfficeCsv"}
BY DEF DocumentAdapters, OfficeAdapters

\* four fifths of the text are there when no fifth of it is hidden
LEMMA BookIsLongEnough ==
    ASSUME NEW f, Text(f).words \in Seq(Vocabulary), Text(f).hidden \in Seq(Vocabulary), NEW o,
           o = [container |-> "epub", ext |-> "epub",
                body |-> << [words |-> Text(f).words, hidden |-> <<"contents">>] >>],
           Len(Tokens(o)) * 10 < Len(Tokens(f)) * 8
    PROVE  Text(f).hidden # <<>> /\ 4 * Len(Text(f).hidden) >= Len(Text(f).words)
<1> DEFINE w == Text(f).words
           h == Text(f).hidden
           n == Len(FlattenSeq(Pieces(o)))
           m == Len(FlattenSeq(Pieces(f)))
<1>1. Text(o) = [words |-> w, hidden |-> <<"contents">>] /\ o.container = "epub"
  BY DEF Text
<1>2. Text(o).words = w /\ Text(o).hidden = <<"contents">>
  BY <1>1
<1>3. <<"contents">> \in Seq(Vocabulary) /\ Len(<<"contents">>) = 1
  <2>1. "contents" \in Vocabulary
    BY DEF Vocabulary
  <2> QED BY <2>1
<1>4. Len(Tokens(o)) = n + 1
  BY <1>2, <1>3, TokensOf
<1>5. Len(Tokens(f)) = m + Len(h)
  BY TokensOf
<1>6. n \in Nat /\ m \in Nat /\ Len(h) \in Nat /\ Len(w) \in Nat
  BY <1>2, <1>3, TokensOf
<1>7. m <= n
  <2>1. /\ Pieces(o) \in Seq(Seq(Vocabulary)) /\ Pieces(f) \in Seq(Seq(Vocabulary))
        /\ Len(Pieces(o)) = Len(Pieces(f))
    BY <1>2, PiecesOf
  <2>2. \A i \in 1..Len(w) : Len(Pieces(f)[i]) <= Len(Pieces(o)[i])
    <3> SUFFICES ASSUME NEW i \in 1..Len(w) PROVE Len(Pieces(f)[i]) <= Len(Pieces(o)[i])
      OBVIOUS
    <3>1. DOMAIN w = 1..Len(w)
      OBVIOUS
    <3>2. CASE w[i] = "split"
      <4>1. Pieces(o)[i] = <<"sp", "lit">>
        BY <1>1, <1>2, <3>1, <3>2 DEF Pieces
      <4>2. Len(Pieces(o)[i]) = 2
        BY <4>1
      <4>3. Len(Pieces(f)[i]) \in {1, 2}
        BY PiecesOf
      <4>4. Len(Pieces(f)[i]) = 1 \/ Len(Pieces(f)[i]) = 2
        BY <4>3
      <4> DEFINE a == Len(Pieces(f)[i])
                 b == Len(Pieces(o)[i])
      <4>5. b = 2 /\ (a = 1 \/ a = 2)
        BY ONLY <4>2, <4>4
      <4> HIDE DEF a, b
      <4>6. a <= b
        BY ONLY <4>5
      <4> QED BY ONLY <4>6 DEF a, b
    <3>3. CASE w[i] # "split"
      <4>1. Pieces(o)[i] = <<w[i]>> /\ Pieces(f)[i] = <<w[i]>>
        BY <1>2, <3>1, <3>3 DEF Pieces
      <4>2. Len(Pieces(o)[i]) = 1 /\ Len(Pieces(f)[i]) = 1
        BY <4>1
      <4> QED BY ONLY <4>2
    <3> QED BY <3>2, <3>3
  <2>3. Len(Pieces(f)) = Len(w)
    BY PiecesOf
  <2> QED BY <2>1, <2>2, <2>3, FlattenedLength
<1>8. Len(w) <= n
  <2> DEFINE ones == [i \in 1..Len(w) |-> <<w[i]>>]
  <2>1. ones \in Seq(Seq(Vocabulary)) /\ Len(ones) = Len(w) /\ DOMAIN ones = 1..Len(w)
        /\ \A i \in 1..Len(w) : ones[i] = <<w[i]>> /\ Len(ones[i]) = 1
    <3>1. \A i \in 1..Len(w) : <<w[i]>> \in Seq(Vocabulary)
      OBVIOUS
    <3> HIDE DEF w
    <3> QED BY <1>6, <3>1
  <2> HIDE DEF ones
  <2>2. FlattenSeq(ones) = [i \in DOMAIN ones |-> ones[i][1]]
    <3>1. \A i \in DOMAIN ones : Len(ones[i]) = 1
      BY <2>1
    <3> QED BY ONLY <2>1, <3>1, FlattenedSingles
  <2>3. Len(FlattenSeq(ones)) = Len(w)
    BY <1>6, <2>1, <2>2
  <2>4. Pieces(o) \in Seq(Seq(Vocabulary)) /\ Len(Pieces(o)) = Len(w)
        /\ \A i \in 1..Len(w) : Len(Pieces(o)[i]) \in {1, 2}
    BY <1>2, PiecesOf
  <2>5. \A i \in 1..Len(ones) : Len(ones[i]) <= Len(Pieces(o)[i])
    <3> SUFFICES ASSUME NEW i \in 1..Len(w) PROVE Len(ones[i]) <= Len(Pieces(o)[i])
      BY <2>1
    <3> DEFINE a == Len(ones[i])
               k == Len(Pieces(o)[i])
    <3>1. a = 1 /\ k \in {1, 2}
      BY <2>1, <2>4
    <3> HIDE DEF a, k
    <3>2. a <= k
      BY ONLY <3>1
    <3> QED BY ONLY <3>2 DEF a, k
  <2>6. Len(FlattenSeq(ones)) <= Len(FlattenSeq(Pieces(o)))
    BY <2>1, <2>4, <2>5, FlattenedLength
  <2> QED BY <2>3, <2>6
<1> DEFINE b == Len(h)
           c == Len(w)
<1>9. (n + 1) * 10 < (m + b) * 8 /\ m <= n /\ c <= n /\ n \in Nat /\ m \in Nat /\ b \in Nat /\ c \in Nat
  BY <1>4, <1>5, <1>6, <1>7, <1>8
<1> HIDE DEF n, m, b, c
<1>10. b > 0 /\ 4 * b >= c
  BY ONLY <1>9
<1> QED BY <1>10 DEF b, c

\* a text that was written, and the ways in which it may be spoilt
LEMMA SpoiltText ==
    ASSUME NEW c, NEW e, NEW w, NEW h, NEW d, NEW o, NEW y,
           o = [container |-> c, ext |-> e, body |-> << [words |-> w, hidden |-> h] >>],
           y = DocumentDamage(o, d), y # o, c # "directory", d \in DocumentDamages
    PROVE  \/ y = [container |-> c, ext |-> e, body |-> << [words |-> <<>>, hidden |-> h] >>]
           \/ /\ w # <<>>
              /\ y = [container |-> c, ext |-> e,
                      body |-> << [words |-> [w EXCEPT ![1] = "other"], hidden |-> h] >>]
           \/ y = [container |-> IF c \in {"txt", "md"} THEN "html" ELSE "broken", ext |-> e,
                   body |-> << [words |-> w, hidden |-> h] >>]
<1>1. /\ Text(o) = [words |-> w, hidden |-> h] /\ DOMAIN Text(o) = {"words", "hidden"}
      /\ Text(o).words = w /\ o.container = c
  BY DEF Text
<1>2. CASE d = "emptied"
  <2>1. y = [o EXCEPT !.body[1].words = <<>>]
    BY ONLY y = DocumentDamage(o, d), <1>1, <1>2, Zenon DEF DocumentDamage
  <2> QED BY <2>1
<1>3. CASE d = "altered"
  <2>1. w # <<>>
    <3>1. CASE w = <<>>
      <4>1. y = o
        BY ONLY y = DocumentDamage(o, d), <1>1, <1>3, <3>1 DEF DocumentDamage
      <4> QED BY <4>1
    <3> QED BY <3>1
  <2>2. y = [o EXCEPT !.body[1].words[1] = "other"]
    BY ONLY y = DocumentDamage(o, d), <1>1, <1>3, <2>1 DEF DocumentDamage
  <2> QED BY <2>1, <2>2
<1>4. CASE d = "wrong format"
  <2>1. y = [o EXCEPT !.container = IF @ \in {"txt", "md"} THEN "html" ELSE "broken"]
    BY ONLY y = DocumentDamage(o, d), <1>1, <1>4, c # "directory" DEF DocumentDamage
  <2> QED BY <2>1
<1>5. CASE d \in {"page lost", "not embedded"}
  <2>1. "pages" \notin DOMAIN Text(o) /\ "embedded" \notin DOMAIN Text(o)
    BY <1>1
  <2>2. y = o
    BY ONLY y = DocumentDamage(o, d), <2>1, <1>5 DEF DocumentDamage
  <2> QED BY <2>2
<1> QED BY <1>2, <1>3, <1>4, <1>5 DEF DocumentDamages

\* fields that are replaced, of values that the prover does not look into
LEMMA FieldOfPage ==
    ASSUME NEW w, NEW a, NEW b, NEW c, NEW v, NEW r,
           r = [words |-> w, pages |-> a, rendered |-> b, embedded |-> c]
    PROVE  /\ [r EXCEPT !.words = v] = [words |-> v, pages |-> a, rendered |-> b, embedded |-> c]
           /\ [r EXCEPT !.rendered = v] = [words |-> w, pages |-> a, rendered |-> v, embedded |-> c]
           /\ [r EXCEPT !.embedded = v] = [words |-> w, pages |-> a, rendered |-> b, embedded |-> v]
           /\ r.words = w /\ r.pages = a /\ r.rendered = b /\ r.embedded = c
           /\ [r EXCEPT !.words = w] = r
<1>1. [r EXCEPT !.words = v] = [words |-> v, pages |-> a, rendered |-> b, embedded |-> c]
  OBVIOUS
<1>2. [r EXCEPT !.rendered = v] = [words |-> w, pages |-> a, rendered |-> v, embedded |-> c]
  OBVIOUS
<1>3. [r EXCEPT !.embedded = v] = [words |-> w, pages |-> a, rendered |-> b, embedded |-> v]
  OBVIOUS
<1>4. r.words = w /\ r.pages = a /\ r.rendered = b /\ r.embedded = c
  OBVIOUS
<1>5. [r EXCEPT !.words = w] = r
  OBVIOUS
<1> QED BY <1>1, <1>2, <1>3, <1>4, <1>5

LEMMA BodyOf ==
    ASSUME NEW c, NEW e, NEW s, NEW v, NEW o, o = [container |-> c, ext |-> e, body |-> s]
    PROVE  /\ [o EXCEPT !.body = v] = [container |-> c, ext |-> e, body |-> v]
           /\ [o EXCEPT !.container = v] = [container |-> v, ext |-> e, body |-> s]
           /\ o.body = s /\ o.container = c /\ o.ext = e
OBVIOUS

LEMMA OnlyOne ==
    ASSUME NEW t, NEW v, NEW s, s = <<t>>
    PROVE  [s EXCEPT ![1] = v] = <<v>> /\ s[1] = t
OBVIOUS

\* a print of a text
IsPrint(o) ==
    \E e, w, a, b, c :
        o = [container |-> "pdf", ext |-> e,
             body |-> << [words |-> w, pages |-> a, rendered |-> b, embedded |-> c] >>]

LEMMA SpoiltPage ==
    ASSUME NEW o, NEW d \in DocumentDamages, NEW y, IsPrint(o), y = DocumentDamage(o, d), y # o
    PROVE  \/ y.container = "broken"
           \/ /\ y.container = "pdf" /\ Text(y).pages = Text(o).pages
              /\ \/ Text(y).rendered = 0
                 \/ ~Text(y).embedded /\ Text(y).rendered = Text(o).rendered
                 \/ /\ Text(o).words # <<>> /\ "words" \in DOMAIN Text(y)
                    /\ Text(y).rendered = Text(o).rendered
                    /\ [Text(y) EXCEPT !.words = <<>>] = [Text(o) EXCEPT !.words = <<>>]
                    /\ \/ Text(y).words = <<>>
                       \/ Text(y).words = [Text(o).words EXCEPT ![1] = "other"]
<1>14. PICK e, w, a, b, c :
          o = [container |-> "pdf", ext |-> e,
               body |-> << [words |-> w, pages |-> a, rendered |-> b, embedded |-> c] >>]
  BY DEF IsPrint
<1> DEFINE page(p, q, r) == [words |-> p, pages |-> a, rendered |-> q, embedded |-> r]
           t == [words |-> w, pages |-> a, rendered |-> b, embedded |-> c]
<1>9. /\ t = [words |-> w, pages |-> a, rendered |-> b, embedded |-> c]
      /\ o = [container |-> "pdf", ext |-> e, body |-> <<t>>]
  BY <1>14
<1>12. t = page(w, b, c)
  OBVIOUS
<1> HIDE DEF t
<1>0. \A p, q, r, v :
         /\ [page(p, q, r) EXCEPT !.words = v] = page(v, q, r)
         /\ [page(p, q, r) EXCEPT !.rendered = v] = page(p, v, r)
         /\ [page(p, q, r) EXCEPT !.embedded = v] = page(p, q, v)
  <2> SUFFICES ASSUME NEW p, NEW q, NEW r, NEW v
               PROVE  /\ [page(p, q, r) EXCEPT !.words = v] = page(v, q, r)
                      /\ [page(p, q, r) EXCEPT !.rendered = v] = page(p, v, r)
                      /\ [page(p, q, r) EXCEPT !.embedded = v] = page(p, q, v)
    OBVIOUS
  <2> DEFINE z == page(p, q, r)
  <2>1. z = [words |-> p, pages |-> a, rendered |-> q, embedded |-> r]
    OBVIOUS
  <2> HIDE DEF z
  <2>2. /\ [z EXCEPT !.words = v] = page(v, q, r)
        /\ [z EXCEPT !.rendered = v] = page(p, v, r)
        /\ [z EXCEPT !.embedded = v] = page(p, q, v)
    BY ONLY <2>1, FieldOfPage
  <2> QED BY ONLY <2>2 DEF z
<1>11. \A p, q, r : /\ page(p, q, r).words = p /\ page(p, q, r).pages = a
                    /\ page(p, q, r).rendered = q /\ page(p, q, r).embedded = r
                    /\ "words" \in DOMAIN page(p, q, r)
  OBVIOUS
<1>13. \A v : y = [container |-> "pdf", ext |-> e, body |-> <<v>>] => y.container = "pdf" /\ Text(y) = v
  BY DEF Text
<1>1. /\ Text(o) = t /\ DOMAIN Text(o) = {"words", "pages", "rendered", "embedded"}
      /\ o.container = "pdf" /\ o.body = <<t>>
  BY ONLY <1>9 DEF Text
<1>2. t.words = w /\ t.pages = a /\ t.rendered = b
  BY ONLY <1>9
<1>3. \A v : /\ [o EXCEPT !.body = [@ EXCEPT ![1] = v]]
                   = [container |-> "pdf", ext |-> e, body |-> <<v>>]
             /\ o.body[1] = t
  BY ONLY <1>9, BodyOf, OnlyOne
<1>4. CASE d = "emptied"
  <2>1. y = [o EXCEPT !.body[1].words = <<>>]
    BY ONLY y = DocumentDamage(o, d), <1>1, <1>4, Zenon DEF DocumentDamage
  <2>2. y = [container |-> "pdf", ext |-> e, body |-> << [t EXCEPT !.words = <<>>] >>]
    BY ONLY <2>1, <1>3
  <2>3. w # <<>>
    <3>1. CASE w = <<>>
      <4>1. [t EXCEPT !.words = w] = t
        BY ONLY <1>9, FieldOfPage
      <4>2. y = o
        BY ONLY <1>9, <2>2, <3>1, <4>1
      <4> QED BY <4>2
    <3> QED BY <3>1
  <2>4. y.container = "pdf" /\ Text(y) = page(<<>>, b, c)
    BY ONLY <1>0, <1>12, <1>13, <2>2
  <2> HIDE DEF page
  <2> QED BY ONLY <1>0, <1>1, <1>2, <1>11, <1>12, <2>3, <2>4
<1>5. CASE d = "altered"
  <2>1. w # <<>>
    <3>1. CASE w = <<>>
      <4>1. y = o
        BY ONLY y = DocumentDamage(o, d), <1>1, <1>2, <1>5, <3>1 DEF DocumentDamage
      <4> QED BY <4>1
    <3> QED BY <3>1
  <2>2. y = [o EXCEPT !.body[1].words[1] = "other"]
    BY ONLY y = DocumentDamage(o, d), <1>1, <1>2, <1>5, <2>1 DEF DocumentDamage
  <2>3. y = [container |-> "pdf", ext |-> e,
             body |-> << [t EXCEPT !.words = [w EXCEPT ![1] = "other"]] >>]
    BY ONLY <2>2, <1>2, <1>3
  <2>4. y.container = "pdf" /\ Text(y) = page([w EXCEPT ![1] = "other"], b, c)
    BY ONLY <1>0, <1>12, <1>13, <2>3
  <2> HIDE DEF page
  <2> QED BY ONLY <1>0, <1>1, <1>2, <1>11, <1>12, <2>1, <2>4
<1>6. CASE d = "wrong format"
  <2>1. y = [o EXCEPT !.container = IF @ \in {"txt", "md"} THEN "html" ELSE "broken"]
    BY ONLY y = DocumentDamage(o, d), <1>1, <1>6, Zenon DEF DocumentDamage
  <2>2. y = [o EXCEPT !.container = "broken"]
    BY ONLY <1>1, <2>1
  <2>3. y = [container |-> "broken", ext |-> e, body |-> <<t>>]
    BY ONLY <2>2, <1>9, BodyOf
  <2> QED BY ONLY <2>3
<1>7. CASE d = "page lost"
  <2>1. y = [o EXCEPT !.body[1].rendered = 0]
    BY ONLY y = DocumentDamage(o, d), <1>1, <1>7, Zenon DEF DocumentDamage
  <2>2. y = [container |-> "pdf", ext |-> e, body |-> << [t EXCEPT !.rendered = 0] >>]
    BY ONLY <2>1, <1>3
  <2>3. y.container = "pdf" /\ Text(y) = page(w, 0, c)
    BY ONLY <1>0, <1>12, <1>13, <2>2
  <2> HIDE DEF page
  <2> QED BY ONLY <1>1, <1>2, <1>11, <2>3
<1>8. CASE d = "not embedded"
  <2> DEFINE no == FALSE
  <2>1. y = [o EXCEPT !.body[1].embedded = no]
    BY ONLY y = DocumentDamage(o, d), <1>1, <1>8, Zenon DEF DocumentDamage
  <2>2. ~no
    OBVIOUS
  <2> HIDE DEF no
  <2>3. y = [container |-> "pdf", ext |-> e, body |-> << [t EXCEPT !.embedded = no] >>]
    BY ONLY <2>1, <1>3
  <2>4. y.container = "pdf" /\ Text(y) = page(w, b, no)
    BY ONLY <1>0, <1>12, <1>13, <2>3
  <2>5. Text(y).embedded = no /\ Text(y).rendered = b /\ Text(y).pages = a
    <3> HIDE DEF page
    <3> QED BY ONLY <1>11, <2>4
  <2>6. ~Text(y).embedded
    BY ONLY <2>2, <2>5
  <2> QED BY ONLY <1>1, <1>2, <2>4, <2>5, <2>6
<1> QED BY ONLY d \in DocumentDamages, <1>4, <1>5, <1>6, <1>7, <1>8 DEF DocumentDamages

LEMMA FieldOfText ==
    ASSUME NEW c, NEW e, NEW w, NEW h, NEW o,
           o = [container |-> c, ext |-> e, body |-> << [words |-> w, hidden |-> h] >>]
    PROVE  /\ o.container = c /\ o.ext = e
           /\ Text(o) = [words |-> w, hidden |-> h]
           /\ Text(o).words = w /\ Text(o).hidden = h /\ "words" \in DOMAIN Text(o)
           /\ [Text(o) EXCEPT !.words = <<>>] = [words |-> <<>>, hidden |-> h]
<1>1. Text(o) = [words |-> w, hidden |-> h] /\ o.container = c /\ o.ext = e
  BY DEF Text
<1> QED BY ONLY <1>1

LEMMA FieldOfPdf ==
    ASSUME NEW e, NEW t, NEW o, o = [container |-> "pdf", ext |-> e, body |-> <<t>>]
    PROVE  o.container = "pdf" /\ o.ext = e /\ Text(o) = t
BY DEF Text

\* a text in one of the formats of the lanes is a document of that format
LEMMA TextIsAccepted ==
    ASSUME NEW t \in {"txt", "md", "html", "epub", "docx"}, NEW o, o.container = t, o.ext = t
    PROVE  /\ InspectDocument(o) = "accepted"
           /\ t \in {"docx", "epub"} => DocumentHint(o) = t
<1>1. CASE t \in {"html", "epub"}
  <2>1. DocumentHint(o) = t
    BY <1>1 DEF DocumentHint
  <2> QED BY <1>1, <2>1 DEF InspectDocument, TextFiles
<1>2. CASE t = "docx"
  <2>1. DocumentHint(o) = t
    BY <1>2 DEF DocumentHint, Packages
  <2> QED BY <1>2, <2>1 DEF InspectDocument
<1>3. CASE t \in {"txt", "md"}
  <2>1. DocumentHint(o) \in {"plain", "markdown"}
    BY <1>3 DEF DocumentHint, Packages
  <2> QED BY <1>3, <2>1 DEF InspectDocument, TextFiles
<1> QED BY <1>1, <1>2, <1>3

\* the words that a text of a lane has are words of the vocabulary
LEMMA FurnitureWords ==
    ASSUME NEW t \in {"txt", "md", "html", "epub", "docx"}
    PROVE  Furniture(t) \in Seq(Vocabulary)
<1>1. "style" \in Vocabulary /\ "contents" \in Vocabulary
  BY DEF Vocabulary
<1>2. <<"style">> \in Seq(Vocabulary) /\ <<"contents">> \in Seq(Vocabulary)
      /\ <<>> \in Seq(Vocabulary)
  BY <1>1
<1> QED BY ONLY <1>2, FurnitureOf, t \in {"txt", "md", "html", "epub", "docx"}


LEMMA HonestText ==
    ASSUME NEW f, NEW x, NEW o, Text(f).words \in Seq(Vocabulary), Text(f).hidden \in Seq(Vocabulary),
           x.target \in {"txt", "md", "html", "epub"},
           o = [container |-> x.target, ext |-> x.target,
                body |-> << [words |-> Text(f).words, hidden |-> Furniture(x.target)] >>],
           ExportOfPandocFails(f, o, x.target)
    PROVE  \/ /\ x.target = "epub"
              /\ Text(f).hidden # <<>> /\ 4 * Len(Text(f).hidden) >= Len(Text(f).words)
           \/ x.target \in {"txt", "md"} /\ Text(f).words = <<>>
<1> DEFINE w == Text(f).words
           h == Furniture(x.target)
<1>1. /\ o.container = x.target /\ o.ext = x.target
      /\ Text(o).words = w /\ Text(o).hidden = h
  <2> DEFINE c == x.target
  <2>1. o = [container |-> c, ext |-> c, body |-> << [words |-> w, hidden |-> h] >>]
    OBVIOUS
  <2> HIDE DEF c, w, h
  <2>2. /\ o.container = c /\ o.ext = c
        /\ Text(o).words = w /\ Text(o).hidden = h
    BY ONLY <2>1 DEF Text
  <2> QED BY ONLY <2>2 DEF c
<1>2. w \in Seq(Vocabulary) /\ h \in Seq(Vocabulary)
  BY FurnitureWords
<1>3. InspectDocument(o) = "accepted" /\ (x.target = "epub" => DocumentHint(o) = "epub")
  BY <1>1, TextIsAccepted
<1>4. CASE x.target = "epub"
  <2>1. Len(Tokens(o)) * 10 < Len(Tokens(f)) * 8
    BY <1>3, <1>4 DEF ExportOfPandocFails
  <2>2. o = [container |-> "epub", ext |-> "epub",
             body |-> << [words |-> Text(f).words, hidden |-> <<"contents">>] >>]
    BY <1>4, FurnitureOf
  <2>3. Text(f).hidden # <<>> /\ 4 * Len(Text(f).hidden) >= Len(Text(f).words)
    BY ONLY <2>1, <2>2, BookIsLongEnough, Text(f).words \in Seq(Vocabulary),
            Text(f).hidden \in Seq(Vocabulary)
  <2> QED BY <1>4, <2>3
<1>5. CASE x.target # "epub"
  <2>1. Tokens(o) = <<>>
    BY <1>3, <1>5 DEF ExportOfPandocFails
  <2>2. Text(o).words \in Seq(Vocabulary) /\ Text(o).hidden \in Seq(Vocabulary)
    BY <1>1, <1>2
  <2>3. Text(o).words = <<>> /\ Text(o).hidden = <<>>
    BY <2>1, <2>2, TokensOf
  <2>4. w = <<>> /\ h = <<>>
    BY <1>1, <2>3
  <2>5. x.target # "html"
    <3>1. <<"style">> # <<>>
      OBVIOUS
    <3> QED BY <2>4, <3>1, FurnitureOf
  <2> QED BY <1>5, <2>4, <2>5
<1> QED BY <1>4, <1>5

LEMMA DocumentsHonest ==
    ASSUME NEW f, NEW x, NEW e, NEW o, Fitting(f, x), o = DocumentOutput(f, x, e),
           ValidateDocument(f, o, x) = "fail"
    PROVE  DocumentHonestGaps(f, x)
<1> DEFINE w == Text(f).words
           h == Text(f).hidden
<1>1. x.lane \in DocumentAdapters
  BY DEF Fitting
<1>2. CASE x.lane = "Pandoc"
  <2>1. /\ x.target \in {"txt", "md", "html", "epub", "docx"}
        /\ w \in Seq(Vocabulary) /\ h \in Seq(Vocabulary)
    BY <1>2 DEF Fitting
  <2>2. o = [container |-> x.target, ext |-> x.target,
             body |-> << [words |-> w, hidden |-> Furniture(x.target)] >>]
    BY <1>2, <2>1, DocumentOutputOf
  <2>3. CASE x.target = "docx"
    <3>1. o = [container |-> "docx", ext |-> "docx", body |-> << [words |-> w, hidden |-> <<>>] >>]
      BY <2>2, <2>3, FurnitureOf
    <3>2. DocxFails(f, o)
      BY <1>1, <1>2, <2>3, DocumentVerdictOf
    <3>3. h # <<>> \/ "split" \in ToSet(w)
      BY <2>1, <3>1, <3>2, DocxReadsAlike
    <3> QED BY <1>1, <1>2, <2>3, <3>3, DocumentGapsOf
  <2>4. CASE x.target # "docx"
    <3>1. ExportOfPandocFails(f, o, x.target)
      BY <1>1, <1>2, <2>4, DocumentVerdictOf
    <3>2. \/ /\ x.target = "epub"
             /\ h # <<>> /\ 4 * Len(h) >= Len(w)
          \/ x.target \in {"txt", "md"} /\ w = <<>>
      BY <2>1, <2>2, <2>4, <3>1, HonestText
    <3> QED BY <1>1, <1>2, <3>2, DocumentGapsOf
  <2> QED BY <2>3, <2>4
<1>3. CASE x.lane \in {"MarkupPdf", "EdgePrint", "OfficePdf"}
  <2> DEFINE t == [words |-> w, pages |-> 1, rendered |-> 1, embedded |-> TRUE]
  <2>1. x.target = "pdf"
    BY <1>3 DEF Fitting
  <2>2. o = [container |-> "pdf", ext |-> e, body |-> <<t>>]
    BY <1>3, <2>1, DocumentOutputOf
  <2>3. t.pages = 1 /\ t.rendered = 1 /\ t.embedded = TRUE /\ t.words = w
    OBVIOUS
  <2> HIDE DEF t
  <2>4. ~PagesFail(o)
    BY <2>2, <2>3, FieldOfPdf DEF PagesFail
  <2>5. CASE x.lane = "MarkupPdf"
    <3>1. DocxFails(f, Intermediate(f))
      BY <1>1, <2>4, <2>5, DocumentVerdictOf
    <3>2. w \in Seq(Vocabulary)
      BY <2>5 DEF Fitting
    <3>3. h # <<>> \/ "split" \in ToSet(w)
      BY <3>1, <3>2, DocxReadsAlike DEF Intermediate
    <3> QED BY <1>1, <2>5, <3>3, DocumentGapsOf
  <2>6. CASE x.lane = "EdgePrint"
    <3>1. w \in Seq(Vocabulary) /\ h \in Seq(Vocabulary)
      BY <2>6 DEF Fitting
    <3>2. PrintFails(f, o)
      BY <1>1, <2>6, DocumentVerdictOf
    <3>3. Tokens(f) # <<>> /\ w = <<>>
      BY <2>2, <2>3, <2>4, <3>2, FieldOfPdf DEF PrintFails
    <3>4. h # <<>>
      BY <3>1, <3>3, TokensOf
    <3> QED BY <1>1, <2>6, <3>3, <3>4, DocumentGapsOf
  <2>7. CASE x.lane = "OfficePdf"
    BY <1>1, <2>4, <2>7, DocumentVerdictOf
  <2> QED BY <1>3, <2>5, <2>6, <2>7
<1>4. CASE x.lane = "OfficeExchange"
  <2>1. x.target \in {"docx", "odt"}
    BY <1>4 DEF Fitting
  <2>2. o.container = x.target
    BY <1>4, <2>1, DocumentOutputOf, FieldOfText
  <2> QED BY <1>1, <1>4, <2>2, DocumentVerdictOf
<1>5. CASE x.lane = "OfficeCsv"
  <2>1. o = [container |-> "directory", ext |-> e, body |-> << [sheets |-> Text(f).sheets] >>]
    BY <1>5, DocumentOutputOf DEF Fitting
  <2>2. Text(o).sheets = Text(f).sheets
    BY <2>1 DEF Text
  <2>3. \A i \in DOMAIN Text(f).sheets : Text(f).sheets[i] = 0
    BY <1>1, <1>5, <2>2, DocumentVerdictOf DEF SheetsFail
  <2> QED BY <1>1, <1>5, <2>3, DocumentGapsOf
<1>6. CASE x.lane = "ImageOcr"
  <2>1. x.target \in {"txt", "md"}
    BY <1>6 DEF Fitting
  <2>4. o = [container |-> x.target, ext |-> x.target,
             body |-> << [words |-> w, hidden |-> Furniture(x.target)] >>]
    BY <1>6, <2>1, DocumentOutputOf
  <2>2. Text(o).words = w
    BY ONLY <2>4 DEF Text
  <2>3. w = <<>>
    BY <1>1, <1>6, <2>2, DocumentVerdictOf
  <2> QED BY <1>1, <1>6, <2>3, DocumentGapsOf
<1> QED BY <1>1, <1>2, <1>3, <1>4, <1>5, <1>6, DocumentsApart

\* the differences that no check looks at, by lane
LEMMA UncheckedText ==
    ASSUME NEW o, NEW y, NEW x
    PROVE  /\ x.lane = "OfficeCsv" /\ Len(Text(y).sheets) = Len(Text(o).sheets) =>
                 UncheckedDocument(y, o, x)
           /\ x.target \in {"txt", "md"} /\ Text(y) = Text(o) => UncheckedDocument(y, o, x)
           /\ /\ x.lane \in {"OfficePdf", "MarkupPdf"}
              /\ y.container = "pdf" /\ Text(y).rendered = Text(o).rendered
              => UncheckedDocument(y, o, x)
           /\ /\ "words" \in DOMAIN Text(y) /\ y.container = o.container
              /\ x.target # "docx" \/ x.lane = "OfficeExchange"
              /\ [Text(y) EXCEPT !.words = <<>>] = [Text(o) EXCEPT !.words = <<>>]
              /\ \/ Text(y).words # <<>>
                 \/ x.target \in {"html", "epub"}
                 \/ x.lane = "OfficeExchange"
              => UncheckedDocument(y, o, x)
BY DEF UncheckedDocument

\* a word in front that is another is there
LEMMA AnotherWord ==
    ASSUME NEW w \in Seq(Vocabulary), w # <<>>
    PROVE  /\ [w EXCEPT ![1] = "other"] \in Seq(Vocabulary)
           /\ [w EXCEPT ![1] = "other"] # <<>>
           /\ [w EXCEPT ![1] = "other"][1] = "other"
           /\ w[1] = "other" => [w EXCEPT ![1] = "other"] = w
<1>1. "other" \in Vocabulary
  BY DEF Vocabulary
<1>2. Len(w) \in Nat /\ Len(w) # 0 /\ 1 \in DOMAIN w /\ DOMAIN w = 1..Len(w)
  OBVIOUS
<1> DEFINE u == [w EXCEPT ![1] = "other"]
<1>3. u \in Seq(Vocabulary) /\ Len(u) = Len(w)
  BY <1>1, <1>2
<1>4. u # <<>>
  <2>1. Len(u) # 0
    BY <1>2, <1>3
  <2> QED BY <2>1
<1>5. u[1] = "other"
  BY <1>2
<1>6. w[1] = "other" => u = w
  BY <1>2
<1> QED BY <1>3, <1>4, <1>5, <1>6

LEMMA CaughtText ==
    ASSUME NEW f, NEW x, NEW o, NEW y, NEW d \in DocumentDamages,
           Text(f).words \in Seq(Vocabulary), Text(f).hidden \in Seq(Vocabulary),
           x.target \in {"txt", "md", "html", "epub"},
           o = [container |-> x.target, ext |-> x.target,
                body |-> << [words |-> Text(f).words, hidden |-> Furniture(x.target)] >>],
           y = DocumentDamage(o, d), y # o, ~ExportOfPandocFails(f, y, x.target)
    PROVE  UncheckedDocument(y, o, x)
<1> DEFINE w == Text(f).words
           h == Furniture(x.target)
           c == x.target
           worse == IF c \in {"txt", "md"} THEN "html" ELSE "broken"
           u == [w EXCEPT ![1] = "other"]
<1>1. /\ o.container = c /\ o.ext = c /\ Text(o) = [words |-> w, hidden |-> h]
      /\ [Text(o) EXCEPT !.words = <<>>] = [words |-> <<>>, hidden |-> h]
  BY ONLY FieldOfText, o = [container |-> c, ext |-> c, body |-> << [words |-> w, hidden |-> h] >>]
<1>2. \/ y = [container |-> c, ext |-> c, body |-> << [words |-> <<>>, hidden |-> h] >>]
      \/ w # <<>> /\ y = [container |-> c, ext |-> c, body |-> << [words |-> u, hidden |-> h] >>]
      \/ y = [container |-> worse, ext |-> c, body |-> << [words |-> w, hidden |-> h] >>]
  <2>1. c # "directory"
    OBVIOUS
  <2>2. o = [container |-> c, ext |-> c, body |-> << [words |-> w, hidden |-> h] >>]
    OBVIOUS
  <2> HIDE DEF w, h, c
  <2> QED BY ONLY y = DocumentDamage(o, d), y # o, d \in DocumentDamages, SpoiltText, <2>1, <2>2
<1>3. h \in Seq(Vocabulary) /\ w \in Seq(Vocabulary)
  BY FurnitureWords
<1>4. x.target # "docx"
  OBVIOUS
<1>5. CASE y = [container |-> c, ext |-> c, body |-> << [words |-> <<>>, hidden |-> h] >>]
  <2>1. /\ y.container = c /\ Text(y).words = <<>> /\ Text(y).hidden = h
        /\ "words" \in DOMAIN Text(y)
        /\ [Text(y) EXCEPT !.words = <<>>] = [words |-> <<>>, hidden |-> h]
    BY ONLY FieldOfText, <1>5
  <2>2. x.target \in {"html", "epub"}
    <3>1. SUFFICES ASSUME x.target \in {"txt", "md"} PROVE FALSE
      OBVIOUS
    <3>2. h = <<>>
      BY <3>1, FurnitureOf
    <3>3. Tokens(y) # <<>>
      BY <3>1 DEF ExportOfPandocFails
    <3>4. Text(y).words \in Seq(Vocabulary) /\ Text(y).hidden \in Seq(Vocabulary)
      BY <1>3, <2>1, <3>2
    <3> QED BY ONLY TokensOf, <2>1, <3>2, <3>3, <3>4
  <2> QED BY ONLY <1>1, <1>4, <2>1, <2>2, UncheckedText
<1>6. CASE w # <<>> /\ y = [container |-> c, ext |-> c, body |-> << [words |-> u, hidden |-> h] >>]
  <2>1. /\ y.container = c /\ Text(y).words = u
        /\ "words" \in DOMAIN Text(y)
        /\ [Text(y) EXCEPT !.words = <<>>] = [words |-> <<>>, hidden |-> h]
    <3> HIDE DEF c, u, h
    <3>1. Text(y) = [words |-> u, hidden |-> h] /\ y.container = c
      BY ONLY <1>6 DEF Text
    <3> QED BY ONLY <3>1
  <2>2. u # <<>>
    BY ONLY <1>3, <1>6, AnotherWord
  <2> QED BY ONLY <1>1, <1>4, <2>1, <2>2, UncheckedText
<1>7. CASE y = [container |-> worse, ext |-> c, body |-> << [words |-> w, hidden |-> h] >>]
  <2>1. Text(y) = Text(o) /\ y.container = worse /\ y.ext = c
    <3> HIDE DEF c, w, h, worse
    <3>1. Text(y) = [words |-> w, hidden |-> h] /\ y.container = worse /\ y.ext = c
      BY ONLY <1>7 DEF Text
    <3> QED BY ONLY <3>1, <1>1
  <2>2. x.target \in {"txt", "md"}
    <3>1. SUFFICES ASSUME x.target \in {"html", "epub"} PROVE FALSE
      OBVIOUS
    <3>2. y.container = "broken"
      BY <2>1, <3>1
    <3>3. DocumentHint(y) = c
      BY <2>1, <3>1, <3>2 DEF DocumentHint, Packages
    <3>4. InspectDocument(y) # "accepted"
      BY <3>1, <3>2, <3>3 DEF InspectDocument, TextFiles
    <3> QED BY <3>4 DEF ExportOfPandocFails
  <2> QED BY ONLY <2>1, <2>2, UncheckedText
<1> QED BY ONLY <1>2, <1>5, <1>6, <1>7

LEMMA CaughtDocx ==
    ASSUME NEW f, NEW o, NEW y, NEW d \in DocumentDamages,
           Text(f).words \in Seq(Vocabulary), Text(f).hidden \in Seq(Vocabulary),
           o = [container |-> "docx", ext |-> "docx",
                body |-> << [words |-> Text(f).words, hidden |-> <<>>] >>],
           y = DocumentDamage(o, d), y # o
    PROVE  DocxFails(f, y)
<1> DEFINE w == Text(f).words
           u == [w EXCEPT ![1] = "other"]
<1>1. \/ y = [container |-> "docx", ext |-> "docx", body |-> << [words |-> <<>>, hidden |-> <<>>] >>]
      \/ /\ w # <<>>
         /\ y = [container |-> "docx", ext |-> "docx", body |-> << [words |-> u, hidden |-> <<>>] >>]
      \/ y = [container |-> "broken", ext |-> "docx", body |-> << [words |-> w, hidden |-> <<>>] >>]
  <2> DEFINE c == "docx"
             h == <<>>
  <2>1. o = [container |-> c, ext |-> c, body |-> << [words |-> w, hidden |-> h] >>]
        /\ c # "directory" /\ c \notin {"txt", "md"}
    OBVIOUS
  <2> HIDE DEF c, h, w
  <2>2. \/ y = [container |-> c, ext |-> c, body |-> << [words |-> <<>>, hidden |-> h] >>]
        \/ w # <<>> /\ y = [container |-> c, ext |-> c, body |-> << [words |-> u, hidden |-> h] >>]
        \/ y = [container |-> "broken", ext |-> c, body |-> << [words |-> w, hidden |-> h] >>]
    BY ONLY <2>1, SpoiltText, y = DocumentDamage(o, d), y # o, d \in DocumentDamages
  <2> QED BY ONLY <2>2 DEF c, h
<1>2. SUFFICES ASSUME ~DocxFails(f, y) PROVE FALSE
  OBVIOUS
<1>3. Tokens(y) = Tokens(f) /\ InspectDocument(y) = "accepted" /\ DocumentHint(y) = "docx"
  BY <1>2 DEF DocxFails
<1>4. <<>> \in Seq(Vocabulary) /\ w \in Seq(Vocabulary)
  OBVIOUS
<1>5. CASE y = [container |-> "docx", ext |-> "docx", body |-> << [words |-> <<>>, hidden |-> <<>>] >>]
  <2>1. Text(y).words = <<>> /\ Text(y).hidden = <<>>
    BY <1>5 DEF Text
  <2>2. Tokens(y) = <<>>
    BY ONLY <1>4, <2>1, TokensOf
  <2>3. w = <<>>
    BY ONLY <1>3, <1>4, <2>2, TokensOf, Text(f).hidden \in Seq(Vocabulary)
  <2> QED BY <1>5, <2>3
<1>6. CASE /\ w # <<>>
           /\ y = [container |-> "docx", ext |-> "docx", body |-> << [words |-> u, hidden |-> <<>>] >>]
  <2>1. Text(y).words = u /\ Text(y).hidden = <<>> /\ y.container = "docx"
    BY <1>6 DEF Text
  <2>2. u \in Seq(Vocabulary) /\ u # <<>> /\ u[1] = "other" /\ (w[1] = "other" => u = w)
    BY ONLY <1>4, <1>6, AnotherWord
  <2>3. w[1] # "other"
    <3>1. CASE w[1] = "other"
      <4>1. y = [container |-> "docx", ext |-> "docx", body |-> << [words |-> w, hidden |-> <<>>] >>]
        BY ONLY <1>6, <2>2, <3>1
      <4> QED BY <4>1
    <3> QED BY <3>1
  <2>4. Tokens(y)[1] = Pieces(y)[1][1]
    BY ONLY <1>4, <2>1, <2>2, TokensOf
  <2>5. Tokens(f)[1] = Pieces(f)[1][1]
    BY ONLY <1>4, <1>6, TokensOf, Text(f).hidden \in Seq(Vocabulary)
  <2>6. 1 \in DOMAIN u /\ 1 \in DOMAIN w
    BY <1>4, <1>6, <2>2
  <2>7. Pieces(y)[1] = <<u[1]>>
    BY <2>1, <2>6 DEF Pieces
  <2>8. Pieces(f)[1] = <<w[1]>> \/ Pieces(f)[1] = <<"sp", "lit">>
    BY <2>6 DEF Pieces
  <2>9. Pieces(y)[1][1] = "other"
    BY ONLY <2>2, <2>7
  <2>10. Pieces(f)[1][1] = w[1] \/ Pieces(f)[1][1] = "sp"
    BY ONLY <2>8
  <2> QED BY ONLY <1>3, <2>3, <2>4, <2>5, <2>9, <2>10
<1>7. CASE y = [container |-> "broken", ext |-> "docx", body |-> << [words |-> w, hidden |-> <<>>] >>]
  <2>1. y.container = "broken"
    BY ONLY <1>7
  <2> QED BY ONLY <1>3, <2>1 DEF InspectDocument
<1> QED BY ONLY <1>1, <1>5, <1>6, <1>7

\* the print of a lane is a print
LEMMA PrintIsOne ==
    ASSUME NEW e, NEW w, NEW o,
           o = [container |-> "pdf", ext |-> e,
                body |-> << [words |-> w, pages |-> 1, rendered |-> 1, embedded |-> TRUE] >>]
    PROVE  /\ IsPrint(o) /\ o.container = "pdf" /\ Text(o).words = w /\ Text(o).pages = 1
           /\ Text(o).rendered = 1
<1> DEFINE a == 1
           c == TRUE
<1>1. o = [container |-> "pdf", ext |-> e,
           body |-> << [words |-> w, pages |-> a, rendered |-> a, embedded |-> c] >>]
  OBVIOUS
<1>2. a = 1
  OBVIOUS
<1> HIDE DEF a, c
<1>3. IsPrint(o)
  BY ONLY <1>1 DEF IsPrint
<1>4. o.container = "pdf" /\ Text(o) = [words |-> w, pages |-> a, rendered |-> a, embedded |-> c]
  BY ONLY <1>1 DEF Text
<1>5. o.container = "pdf" /\ Text(o).words = w /\ Text(o).pages = a /\ Text(o).rendered = a
  BY ONLY <1>4
<1> QED BY ONLY <1>2, <1>3, <1>5

\* what a page that a lane printed has become when it is another
LEMMA CaughtPage ==
    ASSUME NEW d \in DocumentDamages, NEW o, NEW y, IsPrint(o),
           y = DocumentDamage(o, d), y # o, ~PagesFail(y), Text(o).pages = Text(o).rendered
    PROVE  /\ y.container = "pdf" /\ Text(y).rendered = Text(o).rendered
           /\ \/ ~Text(y).embedded
              \/ /\ Text(o).words # <<>> /\ "words" \in DOMAIN Text(y)
                 /\ [Text(y) EXCEPT !.words = <<>>] = [Text(o) EXCEPT !.words = <<>>]
                 /\ \/ Text(y).words = <<>>
                    \/ Text(y).words = [Text(o).words EXCEPT ![1] = "other"]
<1>1. y.container = "pdf" /\ Text(y).pages # 0 /\ Text(y).rendered = Text(y).pages
      /\ y.container # "broken"
  BY DEF PagesFail
<1> QED BY <1>1, SpoiltPage

LEMMA DocumentsCaught ==
    ASSUME NEW f, NEW x, NEW e, NEW o, NEW y, NEW d \in DocumentDamages, Fitting(f, x),
           o = DocumentOutput(f, x, e), y = DocumentDamage(o, d), y # o,
           ValidateDocument(f, y, x) # "fail"
    PROVE  UncheckedDocument(y, o, x)
<1> DEFINE w == Text(f).words
           h == Text(f).hidden
           u == [w EXCEPT ![1] = "other"]
<1>1. x.lane \in DocumentAdapters
  BY DEF Fitting
<1>2. CASE x.lane = "Pandoc"
  <2>1. /\ x.target \in {"txt", "md", "html", "epub", "docx"}
        /\ w \in Seq(Vocabulary) /\ h \in Seq(Vocabulary)
    BY <1>2 DEF Fitting
  <2>2. o = [container |-> x.target, ext |-> x.target,
             body |-> << [words |-> w, hidden |-> Furniture(x.target)] >>]
    BY <1>2, <2>1, DocumentOutputOf
  <2>3. CASE x.target = "docx"
    <3>1. o = [container |-> "docx", ext |-> "docx", body |-> << [words |-> w, hidden |-> <<>>] >>]
      BY <2>2, <2>3, FurnitureOf
    <3>2. ~DocxFails(f, y)
      BY <1>1, <1>2, <2>3, DocumentVerdictOf
    <3>3. DocxFails(f, y)
      BY ONLY <2>1, <3>1, CaughtDocx, y = DocumentDamage(o, d), y # o, d \in DocumentDamages
    <3> QED BY <3>2, <3>3
  <2>4. CASE x.target # "docx"
    <3>1. ~ExportOfPandocFails(f, y, x.target)
      BY <1>1, <1>2, <2>4, DocumentVerdictOf
    <3> QED BY ONLY <2>1, <2>2, <2>4, <3>1, CaughtText, y = DocumentDamage(o, d), y # o,
                    d \in DocumentDamages
  <2> QED BY <2>3, <2>4
<1>3. CASE x.lane \in {"MarkupPdf", "EdgePrint", "OfficePdf"}
  <2>1. x.target = "pdf" /\ x.lane # "OfficeCsv"
    BY <1>3 DEF Fitting
  <2>2. IsPrint(o) /\ o.container = "pdf" /\ Text(o).words = w /\ Text(o).pages = Text(o).rendered
    <3>1. o = [container |-> "pdf", ext |-> e,
               body |-> << [words |-> w, pages |-> 1, rendered |-> 1, embedded |-> TRUE] >>]
      BY ONLY <2>1, DocumentOutputOf, o = DocumentOutput(f, x, e)
    <3> QED BY ONLY <3>1, PrintIsOne
  <2>3. ~PagesFail(y)
    BY <1>1, <1>3, DocumentVerdictOf DEF PrintFails
  <2>4. /\ y.container = "pdf" /\ Text(y).rendered = Text(o).rendered
        /\ \/ ~Text(y).embedded
           \/ /\ Text(o).words # <<>> /\ "words" \in DOMAIN Text(y)
              /\ [Text(y) EXCEPT !.words = <<>>] = [Text(o) EXCEPT !.words = <<>>]
              /\ \/ Text(y).words = <<>>
                 \/ Text(y).words = [Text(o).words EXCEPT ![1] = "other"]
    BY ONLY <2>2, <2>3, CaughtPage, y = DocumentDamage(o, d), y # o, d \in DocumentDamages
  <2>5. CASE x.lane \in {"MarkupPdf", "OfficePdf"}
    BY ONLY <2>4, <2>5, UncheckedText
  <2>6. CASE x.lane = "EdgePrint"
    <3>1. w \in Seq(Vocabulary) /\ h \in Seq(Vocabulary)
      BY <2>6 DEF Fitting
    <3>2. ~PrintFails(f, y)
      BY <1>1, <2>6, DocumentVerdictOf
    <3>3. Text(y).embedded /\ (Tokens(f) = <<>> \/ Text(y).words # <<>>)
      BY <3>2 DEF PrintFails
    <3>4. w # <<>>
      BY ONLY <2>2, <2>4, <3>3
    <3>5. Tokens(f) # <<>>
      BY ONLY <3>1, <3>4, TokensOf
    <3> QED BY ONLY <2>1, <2>2, <2>4, <3>3, <3>5, UncheckedText
  <2> QED BY <1>3, <2>5, <2>6
<1>4. CASE x.lane \in {"OfficeExchange", "ImageOcr"}
  <2> DEFINE c == x.target
             g == Furniture(c)
             worse == IF c \in {"txt", "md"} THEN "html" ELSE "broken"
  <2>1. x.target \in {"docx", "odt", "txt", "md"}
    BY <1>4 DEF Fitting
  <2>2. o = [container |-> c, ext |-> c, body |-> << [words |-> w, hidden |-> g] >>]
    BY <1>4, <2>1, DocumentOutputOf
  <2>3. \/ y = [container |-> c, ext |-> c, body |-> << [words |-> <<>>, hidden |-> g] >>]
        \/ w # <<>> /\ y = [container |-> c, ext |-> c, body |-> << [words |-> u, hidden |-> g] >>]
        \/ y = [container |-> worse, ext |-> c, body |-> << [words |-> w, hidden |-> g] >>]
    <3>1. c # "directory"
      BY <2>1
    <3> HIDE DEF c, g
    <3> QED BY ONLY <2>2, <3>1, SpoiltText, y = DocumentDamage(o, d), y # o, d \in DocumentDamages
  <2>4. /\ o.container = c /\ Text(o) = [words |-> w, hidden |-> g]
        /\ [Text(o) EXCEPT !.words = <<>>] = [words |-> <<>>, hidden |-> g]
    <3> HIDE DEF c, g
    <3> QED BY ONLY <2>2, FieldOfText
  <2>5. ASSUME NEW v, y = [container |-> c, ext |-> c, body |-> << [words |-> v, hidden |-> g] >>]
        PROVE  /\ y.container = c /\ "words" \in DOMAIN Text(y) /\ Text(y).words = v
               /\ [Text(y) EXCEPT !.words = <<>>] = [words |-> <<>>, hidden |-> g]
    <3> HIDE DEF c, g
    <3>1. y.container = c /\ Text(y) = [words |-> v, hidden |-> g]
      BY ONLY <2>5 DEF Text
    <3> QED BY ONLY <3>1
  <2>6. ASSUME y = [container |-> worse, ext |-> c, body |-> << [words |-> w, hidden |-> g] >>]
        PROVE  y.container = worse /\ Text(y) = Text(o)
    <3> HIDE DEF c, g, worse
    <3>1. y.container = worse /\ Text(y) = [words |-> w, hidden |-> g]
      BY ONLY <2>6 DEF Text
    <3> QED BY ONLY <2>4, <3>1
  <2>7. CASE x.lane = "OfficeExchange"
    <3>1. y.container = c
      BY <1>1, <2>7, DocumentVerdictOf
    <3>2. worse # c
      BY <2>1
    <3>3. "words" \in DOMAIN Text(y) /\ [Text(y) EXCEPT !.words = <<>>] = [words |-> <<>>, hidden |-> g]
      <4> HIDE DEF c, g, worse, u
      <4> QED BY ONLY <2>3, <2>5, <2>6, <3>1, <3>2
    <3> QED BY ONLY <2>4, <2>7, <3>1, <3>3, UncheckedText
  <2>8. CASE x.lane = "ImageOcr"
    <3>1. x.target \in {"txt", "md"} /\ w \in Seq(Vocabulary)
      BY <2>8 DEF Fitting
    <3>2. Text(y).words # <<>>
      BY <1>1, <2>8, DocumentVerdictOf
    <3>3. CASE Text(y) = Text(o)
      BY ONLY <3>1, <3>3, UncheckedText
    <3>4. CASE Text(y) # Text(o)
      <4>1. /\ y.container = c /\ "words" \in DOMAIN Text(y)
            /\ [Text(y) EXCEPT !.words = <<>>] = [words |-> <<>>, hidden |-> g]
        <5> HIDE DEF c, g, worse, u
        <5> QED BY ONLY <2>3, <2>5, <2>6, <3>4
      <4>2. x.target # "docx"
        BY <3>1
      <4> QED BY ONLY <2>4, <3>2, <4>1, <4>2, UncheckedText
    <3> QED BY <3>3, <3>4
  <2> QED BY <1>4, <2>7, <2>8
<1>5. CASE x.lane = "OfficeCsv"
  <2>1. o = [container |-> "directory", ext |-> e, body |-> << [sheets |-> Text(f).sheets] >>]
    BY <1>5, DocumentOutputOf DEF Fitting
  <2>2. Text(o).sheets = Text(f).sheets
    BY <2>1 DEF Text
  <2>3. Len(Text(y).sheets) = Len(Text(f).sheets)
    BY <1>1, <1>5, DocumentVerdictOf DEF SheetsFail
  <2> QED BY <1>5, <2>2, <2>3, UncheckedText
<1> QED BY <1>1, <1>2, <1>3, <1>4, <1>5, DocumentsApart

-----------------------------------------------------------------------------
(* From the invariant to the lanes.                                         *)

\* a plan is of the lane whose planner made it
LEMMA OriginLane ==
    ASSUME NEW x, NEW c, CaseAssumption(c), Origin(x, c)
    PROVE  \/ /\ c.op = "metadata-clean" /\ x.lane = "Ffmpeg" /\ Readable(c.file)
              /\ AsPlanned(x, PlanMetadataClean(InspectMedia(c.file), c.request))
           \/ /\ c.op \in PdfOperations \cup {"none"}
              /\ \E lane : /\ LaneFor(lane, c.file, c.request, c.op)
                           /\ PlannedIn(x, lane, c.file, c.request, c.op)
                           /\ x.lane = lane.adapter
<1> DEFINE f == c.file
           r == c.request
<1>0. \A q : Declined(q) => q.ok # TRUE
  BY DEF Declined, Refused
<1>1. CASE c.op = "metadata-clean"
  <2> DEFINE q == PlanMetadataClean(InspectMedia(f), r)
  <2>1. Readable(f) /\ AsPlanned(x, q)
    BY <1>1 DEF Origin
  <2>2. q.ok = TRUE /\ x.lane = q.lane
    BY <2>1 DEF AsPlanned
  <2> HIDE DEF q
  <2>3. Serves(q, "Ffmpeg", "ffmpeg")
    BY <1>0, <2>2, CleanedPlan DEF q
  <2> QED BY <1>1, <2>1, <2>2, <2>3 DEF Serves, q
<1>2. CASE c.op # "metadata-clean"
  <2>0. c.op \in PdfOperations \cup {"none"}
    BY <1>2 DEF CaseAssumption
  <2>1. PICK lane : LaneFor(lane, f, r, c.op) /\ PlannedIn(x, lane, f, r, c.op)
    BY <1>2 DEF Origin
  <2> DEFINE a == lane.adapter
  <2>2. \A q : AsPlanned(x, q) => q.ok = TRUE /\ x.lane = q.lane
    BY DEF AsPlanned
  <2>3. \A q, e : Serves(q, a, e) => q.lane = a
    BY DEF Serves
  <2>4. CASE a = "Magick"
    <3> DEFINE q == PlanMagick(InspectMagick(f), r)
    <3>1. AsPlanned(x, q)
      BY <2>1, <2>4 DEF PlannedIn
    <3>2. Declined(q) \/ Serves(q, "Magick", "magick")
      BY MagickPlan
    <3> HIDE DEF q
    <3> QED BY <1>0, <2>0, <2>1, <2>2, <2>3, <2>4, <3>1, <3>2
  <2>5. CASE a = "Heif"
    <3> DEFINE q == PlanHeic(InspectMedia(f), r)
    <3>1. AsPlanned(x, q)
      BY <2>1, <2>5 DEF PlannedIn
    <3>2. Declined(q) \/ Serves(q, "Heif", "heif-dec")
      BY HeicPlan
    <3> HIDE DEF q
    <3> QED BY <1>0, <2>0, <2>1, <2>2, <2>3, <2>5, <3>1, <3>2
  <2>6. CASE a = "Ffmpeg"
    <3> DEFINE q == PlanMedia(InspectMedia(f), r)
    <3>1. AsPlanned(x, q)
      BY <2>1, <2>6 DEF PlannedIn
    <3>2. Declined(q) \/ Serves(q, "Ffmpeg", "ffmpeg")
      BY MediaPlans DEF CaseAssumption
    <3> HIDE DEF q
    <3> QED BY <1>0, <2>0, <2>1, <2>2, <2>3, <2>6, <3>1, <3>2
  <2>7. CASE a \in PdfAdapters
    <3> DEFINE q == PlanPdf(lane, f, r, c.op)
    <3>1. AsPlanned(x, q)
      BY <2>1, <2>7 DEF PlannedIn
    <3>2. Declined(q) \/ Serves(q, a, lane.step)
      BY <2>0, PdfPlans
    <3> HIDE DEF q
    <3> QED BY <1>0, <2>0, <2>1, <2>2, <2>3, <3>1, <3>2
  <2>8. CASE a \in DataAdapters
    <3> DEFINE q == PlanData(lane, f, r)
    <3>1. AsPlanned(x, q)
      BY <2>1, <2>8 DEF PlannedIn
    <3>2. Declined(q) \/ Serves(q, a, lane.step)
      BY <2>8, DataPlans DEF CaseAssumption, KnownFile
    <3> HIDE DEF q
    <3> QED BY <1>0, <2>0, <2>1, <2>2, <2>3, <3>1, <3>2
  <2>9. CASE a \in MailAdapters
    <3> DEFINE q == PlanMail(lane, f, r)
    <3>1. AsPlanned(x, q)
      BY <2>1, <2>9 DEF PlannedIn
    <3>2. Declined(q) \/ Serves(q, a, lane.step)
      BY MailPlans
    <3> HIDE DEF q
    <3> QED BY <1>0, <2>0, <2>1, <2>2, <2>3, <3>1, <3>2
  <2>10. CASE a \notin MediaAdapters \cup PdfAdapters \cup DataAdapters \cup MailAdapters
    <3> DEFINE q == PlanDocument(lane, f, r)
    <3>1. AsPlanned(x, q)
      BY <2>1, <2>10 DEF PlannedIn
    <3>2. Declined(q) \/ Serves(q, a, lane.step)
      BY DocumentPlans
    <3> HIDE DEF q
    <3> QED BY <1>0, <2>0, <2>1, <2>2, <2>3, <3>1, <3>2
  <2> QED BY <2>4, <2>5, <2>6, <2>7, <2>8, <2>9, <2>10 DEF MediaAdapters
<1> QED BY <1>1, <1>2

LEMMA AdaptersOfOperations ==
    \A op : OperationLane(op).adapter \in {"PdfOps", "PdfMetadata", "PdfOcr"}
BY DEF OperationLane, Lane

\* a plan of a document fits its file
LEMMA DocumentsFit ==
    ASSUME NEW x, NEW c, CaseAssumption(c), Origin(x, c), x.lane \in DocumentAdapters
    PROVE  Fitting(c.file, x)
<1> DEFINE f == c.file
           r == c.request
<1>1. x.lane # "Ffmpeg"
  BY DocumentsApart
<1>2. PICK lane : /\ LaneFor(lane, f, r, c.op) /\ PlannedIn(x, lane, f, r, c.op)
                  /\ x.lane = lane.adapter
  BY <1>1, OriginLane
<1> DEFINE a == lane.adapter
           q == PlanDocument(lane, f, r)
<1>3. a \notin MediaAdapters \cup PdfAdapters \cup DataAdapters \cup MailAdapters
  BY <1>2, AdaptersApart
<1>4. AsPlanned(x, q)
  BY <1>2, <1>3 DEF PlannedIn
<1>5. q.ok = TRUE /\ x.target = q.target
  BY <1>4 DEF AsPlanned
<1>6. q.target = r.target
  <2>1. \A z : Declined(z) => z.ok # TRUE
    BY DEF Declined, Refused
  <2>2. Declined(q) \/ q.target = r.target
    BY DocumentPlans
  <2> HIDE DEF q
  <2> QED BY <1>5, <2>1, <2>2
<1>7. \E ext, content, h : lane = LaneOf(ext, content, r.target, h)
  <2>1. lane # OperationLane(c.op)
    BY <1>2, AdaptersOfOperations, DocumentsApart
  <2> QED BY <1>2, <2>1 DEF LaneFor
<1>8. PICK ext, content, h : lane = LaneOf(ext, content, r.target, h)
  BY <1>7
<1>9. /\ a = "Pandoc" => r.target \in {"txt", "md", "html", "epub", "docx"}
      /\ a \in {"MarkupPdf", "EdgePrint", "OfficePdf"} => r.target = "pdf"
      /\ a = "OfficeExchange" => r.target \in {"docx", "odt"}
      /\ a = "OfficeCsv" => r.target = "csv"
      /\ a = "ImageOcr" => r.target \in {"txt", "md"}
  BY <1>8, DocumentTargets
<1>10. a \in {"Pandoc", "MarkupPdf", "EdgePrint", "ImageOcr"} =>
          Text(f).words \in Seq(Vocabulary) /\ Text(f).hidden \in Seq(Vocabulary)
  <2> SUFFICES ASSUME a \in {"Pandoc", "MarkupPdf", "EdgePrint", "ImageOcr"}
               PROVE  Text(f).words \in Seq(Vocabulary) /\ Text(f).hidden \in Seq(Vocabulary)
    OBVIOUS
  <2>1. DocumentFile(f)
    BY DEF CaseAssumption, KnownFile
  <2>2. Text(f).words \in Seq(STRING) /\ Text(f).hidden \in Seq(STRING)
    BY <1>5, <2>1, DocumentsRead
  <2>3. STRING \subseteq Vocabulary
    BY DEF Vocabulary
  <2> QED BY ONLY <2>2, <2>3, WiderSequence
<1> QED BY <1>2, <1>5, <1>6, <1>9, <1>10 DEF Fitting

\* what is known of a job whose output was judged
Judged ==
    /\ CaseAssumption(asked) /\ plan.ok /\ Origin(plan, asked)
    /\ CanOpen /\ out \in {Obeyed} \cup Spoilt /\ given = Given(plan, Request)
    /\ stage = "committed" => Verdict # "fail"
    /\ Condemned => Verdict = "fail"

LEMMA WhatIsJudged ==
    ASSUME PlanInv, VerdictInv, stage = "committed" \/ Condemned
    PROVE  Judged
<1>1. plan.ok
  BY DEF PlanInv, PlanStands, Approved, Condemned
<1> QED BY <1>1 DEF Judged, PlanInv, VerdictInv

\* it is enough to look at what was judged
LEMMA RightWhenJudged ==
    ASSUME PlanInv, VerdictInv,
           Judged /\ Condemned /\ out = Obeyed => HonestGaps,
           Judged /\ stage = "committed" /\ out # Obeyed => DamageIsCaught
    PROVE  VerdictsRight
<1>1. HonestOutputAccepted
  BY WhatIsJudged DEF HonestOutputAccepted, Condemned
<1>2. DamageIsCaught
  <2>1. CASE stage = "committed" /\ out # Obeyed
    BY <2>1, WhatIsJudged
  <2>2. CASE ~(stage = "committed" /\ out # Obeyed)
    BY <2>2 DEF DamageIsCaught
  <2> QED BY <2>1, <2>2
<1> QED BY <1>1, <1>2 DEF VerdictsRight

\* the functions of the lanes
LEMMA LaneFunctions ==
    LET f == asked.file
        a == plan.lane
    IN /\ a \in PdfAdapters =>
             /\ Obeyed = PdfEngine(f, plan, given) /\ Verdict = ValidatePdf(out, plan)
             /\ Spoilt = {PdfDamage(f, Obeyed, d, plan) : d \in PdfDamages}
             /\ CanOpen = EngineOpens(f, plan, given)
       /\ a \in DataAdapters =>
             /\ Obeyed = DataOutput(f, plan, Request.ext) /\ Verdict = ValidateData(f, out, plan)
             /\ Spoilt = {DataDamage(f, Obeyed, d, plan) : d \in DataDamages}
             /\ CanOpen = DataWrites(f, plan)
       /\ a \in MailAdapters =>
             /\ Obeyed = MailOutput(f, plan, Request.ext) /\ Verdict = ValidateMail(f, out, plan)
             /\ Spoilt = {MailDamage(Obeyed, d) : d \in MailDamages}
       /\ a \in DocumentAdapters =>
             /\ Obeyed = DocumentOutput(f, plan, Request.ext)
             /\ Verdict = ValidateDocument(f, out, plan)
             /\ Spoilt = {DocumentDamage(Obeyed, d) : d \in DocumentDamages}
             /\ CanOpen = DocumentWrites(f, plan)
       /\ a \notin PdfAdapters \cup DataAdapters \cup MailAdapters \cup DocumentAdapters =>
             /\ Obeyed = Engine(Probe(a), plan, Request.ext) /\ Verdict = VerdictOfMedia
             /\ Spoilt = {Damage(Obeyed, d, plan) : d \in Damages}
<1> DEFINE f == asked.file
           a == plan.lane
<1>1. ASSUME a \in PdfAdapters
      PROVE  /\ Obeyed = PdfEngine(f, plan, given) /\ Verdict = ValidatePdf(out, plan)
             /\ Spoilt = {PdfDamage(f, Obeyed, d, plan) : d \in PdfDamages}
             /\ CanOpen = EngineOpens(f, plan, given)
  <2>1. a \notin DataAdapters \cup MailAdapters \cup DocumentAdapters
    BY <1>1, AdaptersApart
  <2> QED BY ONLY <1>1, <2>1, Zenon DEF Obeyed, Verdict, Spoilt, CanOpen
<1>2. ASSUME a \in DataAdapters
      PROVE  /\ Obeyed = DataOutput(f, plan, Request.ext) /\ Verdict = ValidateData(f, out, plan)
             /\ Spoilt = {DataDamage(f, Obeyed, d, plan) : d \in DataDamages}
             /\ CanOpen = DataWrites(f, plan)
  <2>1. a \notin PdfAdapters \cup MailAdapters \cup DocumentAdapters
    BY <1>2, AdaptersApart
  <2> QED BY ONLY <1>2, <2>1, Zenon DEF Obeyed, Verdict, Spoilt, CanOpen
<1>3. ASSUME a \in MailAdapters
      PROVE  /\ Obeyed = MailOutput(f, plan, Request.ext) /\ Verdict = ValidateMail(f, out, plan)
             /\ Spoilt = {MailDamage(Obeyed, d) : d \in MailDamages}
  <2>1. a \notin PdfAdapters \cup DataAdapters \cup DocumentAdapters
    BY <1>3, AdaptersApart
  <2> QED BY ONLY <1>3, <2>1, Zenon DEF Obeyed, Verdict, Spoilt
<1>4. ASSUME a \in DocumentAdapters
      PROVE  /\ Obeyed = DocumentOutput(f, plan, Request.ext)
             /\ Verdict = ValidateDocument(f, out, plan)
             /\ Spoilt = {DocumentDamage(Obeyed, d) : d \in DocumentDamages}
             /\ CanOpen = DocumentWrites(f, plan)
  <2>1. a \notin PdfAdapters \cup DataAdapters \cup MailAdapters
    BY <1>4, AdaptersApart
  <2> QED BY ONLY <1>4, <2>1, Zenon DEF Obeyed, Verdict, Spoilt, CanOpen
<1>5. ASSUME a \notin PdfAdapters \cup DataAdapters \cup MailAdapters \cup DocumentAdapters
      PROVE  /\ Obeyed = Engine(Probe(a), plan, Request.ext) /\ Verdict = VerdictOfMedia
             /\ Spoilt = {Damage(Obeyed, d, plan) : d \in Damages}
  <2>1. a \notin PdfAdapters /\ a \notin DataAdapters /\ a \notin MailAdapters
        /\ a \notin DocumentAdapters
    BY <1>5
  <2> QED BY ONLY <2>1, Zenon DEF Obeyed, Verdict, Spoilt
<1> QED BY <1>1, <1>2, <1>3, <1>4, <1>5

LEMMA DocumentsRight ==
    ASSUME Judged, plan.lane \in DocumentAdapters
    PROVE  /\ Condemned /\ out = Obeyed => HonestGaps
           /\ stage = "committed" /\ out # Obeyed => DamageIsCaught
<1> DEFINE f == asked.file
<1>1. /\ Obeyed = DocumentOutput(f, plan, Request.ext) /\ Verdict = ValidateDocument(f, out, plan)
      /\ Spoilt = {DocumentDamage(Obeyed, d) : d \in DocumentDamages}
  BY LaneFunctions
<1>2. Fitting(f, plan)
  BY DocumentsFit DEF Judged
<1>3. ASSUME Condemned, out = Obeyed PROVE HonestGaps
  <2>1. ValidateDocument(f, out, plan) = "fail"
    BY <1>1, <1>3 DEF Judged
  <2>2. DocumentHonestGaps(f, plan)
    BY ONLY <1>1, <1>2, <1>3, <2>1, DocumentsHonest
  <2> QED BY <2>2 DEF HonestGaps
<1>4. ASSUME stage = "committed", out # Obeyed PROVE DamageIsCaught
  <2>1. ValidateDocument(f, out, plan) # "fail"
    BY <1>1, <1>4 DEF Judged
  <2>2. PICK d \in DocumentDamages : out = DocumentDamage(Obeyed, d)
    BY <1>1, <1>4 DEF Judged
  <2>3. UncheckedDocument(out, Obeyed, plan)
    BY ONLY <1>1, <1>2, <1>4, <2>1, <2>2, DocumentsCaught
  <2>4. plan.lane \notin PdfAdapters \cup DataAdapters \cup MailAdapters
    BY AdaptersApart
  <2> QED BY ONLY <2>3, <2>4, plan.lane \in DocumentAdapters, Zenon DEF DamageIsCaught
<1> QED BY <1>3, <1>4

-----------------------------------------------------------------------------
(* Mail.                                                                    *)

LEMMA MailLanes ==
    ASSUME NEW ext \in DOMAIN SupportedTargets, NEW content, NEW t \in SupportedTargets[ext],
           NEW h, NEW a, a = LaneOf(ext, content, t, h).adapter, a \in MailAdapters
    PROVE  /\ a \in {"Eml", "Msg", "MboxText"} => t \in {"txt", "html", "md"}
           /\ a = "MboxPdf" => t = "pdf"
<1>1. /\ a = "Eml" => ext = "eml"
      /\ a = "Msg" => ext = "msg"
      /\ a = "MboxText" => ext = "mbox" /\ t # "pdf"
      /\ a = "MboxPdf" => t = "pdf"
  BY DEF LaneOf, Lane, DocumentToPdf, MediaLane, MailAdapters
<1>2. /\ SupportedTargets["eml"] = {"txt", "html", "md"}
      /\ SupportedTargets["msg"] = {"txt", "html", "md"}
      /\ SupportedTargets["mbox"] = {"txt", "html", "pdf", "md"}
  BY DEF SupportedTargets
<1> QED BY <1>1, <1>2 DEF MailAdapters

FormatOfMail(lane) ==
    IF lane.adapter = "Eml" THEN "eml" ELSE IF lane.adapter = "Msg" THEN "msg" ELSE "mbox"

LEMMA MailOfFormat ==
    ASSUME NEW lane, NEW f, NEW r, PlanMail(lane, f, r).ok = TRUE
    PROVE  /\ InspectMail(f, FormatOfMail(lane)) = "accepted"
           /\ \A m \in ToSet(MailsRead(f)) : ~RefersElsewhere(m)
           /\ PlanMail(lane, f, r).target = r.target
<1> DEFINE q == PlanMail(lane, f, r)
           format == FormatOfMail(lane)
<1>1. q = PlanMails(lane, f, r, format)
  <2>1. CASE lane.adapter = "Eml"
    <3>1. PlanMail(lane, f, r) = PlanEml(lane, f, r)
      BY ONLY <2>1, Zenon DEF PlanMail
    <3> QED BY <2>1, <3>1 DEF PlanEml, FormatOfMail
  <2>2. CASE lane.adapter = "Msg"
    <3>1. PlanMail(lane, f, r) = PlanMsg(lane, f, r)
      BY ONLY <2>2, Zenon DEF PlanMail
    <3> QED BY <2>2, <3>1 DEF PlanMsg, FormatOfMail
  <2>3. CASE lane.adapter # "Eml" /\ lane.adapter # "Msg"
    <3>1. PlanMail(lane, f, r) = PlanMbox(lane, f, r)
      BY ONLY <2>3, Zenon DEF PlanMail
    <3> QED BY <2>3, <3>1 DEF PlanMbox, FormatOfMail
  <2> QED BY <2>1, <2>2, <2>3
<1>2. \A z : Refused(z).ok # TRUE
  BY DEF Refused
<1>3. InspectMail(f, format) = "accepted"
  <2>1. InspectMail(f, format) # "accepted" => q = Refused(InspectMail(f, format))
    BY <1>1 DEF PlanMails
  <2> QED BY ONLY <1>2, <2>1, q.ok = TRUE
<1>4. \A m \in ToSet(MailsRead(f)) : ~RefersElsewhere(m)
  <2>1. (\E m \in ToSet(MailsRead(f)) : RefersElsewhere(m)) => q = Refused("PolicyBlocked")
    BY <1>1, <1>3 DEF PlanMails
  <2> QED BY ONLY <1>2, <2>1, q.ok = TRUE
<1>5. q.target = r.target
  <2>1. Declined(q) => q.ok # TRUE
    BY ONLY <1>2 DEF Declined
  <2> QED BY ONLY <2>1, MailPlans, q = PlanMail(lane, f, r), q.ok = TRUE
<1> QED BY <1>3, <1>4, <1>5

\* what the planner of a mail knows of it
Delivered(f, x) ==
    /\ MailFile(f)
    /\ x.lane = "Eml" => f.container = "eml"
    /\ x.lane = "Msg" => f.container = "msg"
    /\ x.lane \in {"MboxText", "MboxPdf"} => f.container = "mbox"
    /\ InspectMail(f, f.container) = "accepted"
    /\ \A m \in ToSet(MailsRead(f)) : ~RefersElsewhere(m)
    /\ x.lane \in {"Eml", "Msg", "MboxText"} => x.target \in {"txt", "html", "md"}
    /\ x.lane = "MboxPdf" => x.target = "pdf"

LEMMA MailsFit ==
    ASSUME NEW x, NEW c, CaseAssumption(c), Origin(x, c), x.lane \in MailAdapters
    PROVE  Delivered(c.file, x)
<1> DEFINE f == c.file
           r == c.request
<1>1. x.lane # "Ffmpeg"
  BY DEF MailAdapters
<1>2. PICK lane : /\ LaneFor(lane, f, r, c.op) /\ PlannedIn(x, lane, f, r, c.op)
                  /\ x.lane = lane.adapter
  BY <1>1, OriginLane
<1> DEFINE a == lane.adapter
           q == PlanMail(lane, f, r)
           ext == ClassOf(f.ext)
<1>3. AsPlanned(x, q)
  BY <1>2 DEF PlannedIn
<1>4. q.ok = TRUE /\ x.target = q.target
  BY <1>3 DEF AsPlanned
<1> DEFINE format == FormatOfMail(lane)
<1>5. /\ InspectMail(f, format) = "accepted"
      /\ \A m \in ToSet(MailsRead(f)) : ~RefersElsewhere(m)
      /\ q.target = r.target
  <2>1. PlanMail(lane, f, r).ok = TRUE
    BY <1>4
  <2> HIDE DEF f, r
  <2> QED BY ONLY <2>1, MailOfFormat
<1>6. f.container = format
  BY <1>5 DEF InspectMail
<1>7. r.target \in SupportedTargets[ext] /\ \E content, h : lane = LaneOf(ext, content, r.target, h)
  <2>1. lane # OperationLane(c.op)
    BY <1>2, AdaptersOfOperations DEF MailAdapters
  <2> QED BY <1>2, <2>1 DEF LaneFor
<1>8. PICK content, h : lane = LaneOf(ext, content, r.target, h)
  BY <1>7
<1>9. /\ a \in {"Eml", "Msg", "MboxText"} => r.target \in {"txt", "html", "md"}
      /\ a = "MboxPdf" => r.target = "pdf"
  <2>1. ext \in DOMAIN SupportedTargets
    BY DEF CaseAssumption
  <2> HIDE DEF ext
  <2> QED BY <1>2, <1>7, <1>8, <2>1, MailLanes
<1>10. MailFile(f)
  BY DEF CaseAssumption, KnownFile
<1>11. InspectMail(f, f.container) = "accepted"
  BY <1>5, <1>6
<1> QED BY <1>2, <1>4, <1>5, <1>6, <1>9, <1>10, <1>11 DEF Delivered, MailAdapters, FormatOfMail

\* one message is read of a file that is not a mailbox
LEMMA OneMail ==
    ASSUME NEW f, NEW x, Delivered(f, x), x.lane \in {"Eml", "Msg"}
    PROVE  \E m : /\ MailsRead(f) = <<m>> /\ \A piece \in HtmlPieces : ~Has(m.plain, piece)
                  /\ m.html \in Seq(Seq(STRING)) /\ m.plain \in Seq(Seq(STRING))
<1> DEFINE R == [from : BOOLEAN, to : BOOLEAN, transport : BOOLEAN,
                 plain : Seq(Seq(STRING)), html : Seq(Seq(STRING)),
                 quoted : BOOLEAN, length : {"none", "right", "wrong"}]
           n == Mails(f)[1]
<1>1. f.container \in {"eml", "msg"}
  BY DEF Delivered
<1>2. /\ Mails(f) \in Seq(R) /\ Len(Mails(f)) = 1
      /\ \A m \in ToSet(Mails(f)) : \A piece \in HtmlPieces : ~Has(m.plain, piece)
  BY <1>1 DEF Delivered, MailFile
<1> HIDE DEF R
<1>3. Mails(f) = <<n>> /\ n \in R /\ n \in ToSet(Mails(f))
  BY <1>2 DEF ToSet
<1>4. n.html \in Seq(Seq(STRING)) /\ n.plain \in Seq(Seq(STRING))
  BY <1>3 DEF R
<1>6. CASE x.lane = "Eml"
  <2>1. f.container = "eml"
    BY <1>6 DEF Delivered
  <2>2. MailsRead(f) = Mails(f)
    BY ONLY <2>1, Zenon DEF MailsRead
  <2> QED BY <1>2, <1>3, <1>4, <2>2
<1>7. CASE x.lane = "Msg"
  <2>1. f.container = "msg"
    BY <1>7 DEF Delivered
  <2> DEFINE z == OneMessageOfMsg(n)
  <2>2. MailsRead(f) = <<z>>
    BY ONLY <2>1, Zenon DEF MailsRead
  <2>3. {"from", "to", "transport", "plain", "html", "quoted", "length"} = DOMAIN n
    BY <1>3 DEF R
  <2>4. /\ z.plain = IF n.html = <<>> THEN First(n.plain) ELSE <<>>
        /\ z.html = First(n.html)
    BY <2>3 DEF OneMessageOfMsg
  <2>5. ASSUME NEW piece \in HtmlPieces PROVE ~Has(z.plain, piece)
    <3>1. ~Has(n.plain, piece)
      BY <1>2, <1>3
    <3>2. First(n.plain) = <<>> \/ (1 \in DOMAIN n.plain /\ First(n.plain) = <<n.plain[1]>>)
      BY <1>4 DEF First
    <3> QED BY <2>4, <3>1, <3>2 DEF Has
  <2>6. z.html \in Seq(Seq(STRING)) /\ z.plain \in Seq(Seq(STRING))
    <3> DEFINE T == Seq(STRING)
    <3> HIDE DEF T
    <3>1. ASSUME NEW s \in Seq(T) PROVE First(s) \in Seq(T)
      BY ONLY s \in Seq(T) DEF First
    <3>2. z.html \in Seq(T)
      BY ONLY <1>4, <2>4, <3>1 DEF T
    <3>3. <<>> \in Seq(T) /\ First(n.plain) \in Seq(T)
      BY ONLY <1>4, <3>1 DEF T
    <3>4. z.plain \in Seq(T)
      BY ONLY <2>4, <3>3
    <3> QED BY ONLY <3>2, <3>4 DEF T
  <2> HIDE DEF z
  <2> QED BY <2>2, <2>5, <2>6
<1> QED BY <1>6, <1>7

\* what is written of a part is in it
LEMMA WithoutIsOf ==
    ASSUME NEW S, NEW s \in Seq(S), NEW pieces, NEW z \in ToSet(Without(s, pieces))
    PROVE  z \in ToSet(s)
<1> DEFINE I == {i \in DOMAIN s : s[i] \notin pieces}
<1>1. I \in SUBSET DOMAIN s
  OBVIOUS
<1> HIDE DEF I
<1>2. /\ Pick(s, I) \in Seq(S) /\ Len(Pick(s, I)) = Cardinality(I) /\ Cardinality(I) \in Nat
      /\ \A n \in 1..Cardinality(I) : Nth(I, n) \in I /\ Pick(s, I)[n] = s[Nth(I, n)]
  BY <1>1, PickedMembers
<1>3. z \in ToSet(Pick(s, I))
  BY DEF Without, I
<1>4. PICK n \in DOMAIN Pick(s, I) : z = Pick(s, I)[n]
  BY <1>3 DEF ToSet
<1>5. n \in 1..Cardinality(I)
  BY ONLY <1>2, <1>4
<1>6. Nth(I, n) \in DOMAIN s /\ z = s[Nth(I, n)]
  BY ONLY <1>1, <1>2, <1>4, <1>5
<1> QED BY <1>6 DEF ToSet

LEMMA MailsOfOutput ==
    ASSUME NEW f, NEW x, NEW e, NEW o, o = MailOutput(f, x, e)
    PROVE  /\ o.container = DocumentIdOf(x.target)
           /\ Mails(o) = [i \in DOMAIN MailsRead(f) |-> RenderMail(MailsRead(f)[i], x.target)]
           /\ o = [container |-> DocumentIdOf(x.target), ext |-> e, body |-> << [mails |-> Mails(o)] >>]
BY DEF MailOutput, Mails

LEMMA MailTargetIds ==
    ASSUME NEW t \in {"txt", "html", "md", "pdf"}
    PROVE  DocumentIdOf(t) # "broken"
<1>1. /\ t = "md" => DocumentIdOf(t) = "markdown"
      /\ t = "txt" => DocumentIdOf(t) = "plain"
      /\ t \in {"html", "pdf"} => DocumentIdOf(t) = t
  BY DEF DocumentIdOf
<1> QED BY <1>1

\* the text that is shown of a message has what the message has
LEMMA ShownIsOf ==
    ASSUME NEW m, NEW t, \A piece \in HtmlPieces : ~Has(m.plain, piece),
           m.html \in Seq(Seq(STRING)), m.plain \in Seq(Seq(STRING)), t = "html",
           "comment" \in ToSet(RenderMail(m, t).text)
    PROVE  Has(m.html, "comment")
<1>1. CASE m.html # <<>>
  <2>1. m.html[1] \in Seq(STRING) /\ 1 \in DOMAIN m.html
    BY <1>1
  <2>2. RenderMail(m, t).text = Without(m.html[1], {"amp", "script", "link"})
    BY <1>1 DEF RenderMail, Sanitized
  <2>3. "comment" \in ToSet(m.html[1])
    BY <2>1, <2>2, WithoutIsOf
  <2> QED BY <2>1, <2>3 DEF Has
<1>2. CASE m.html = <<>>
  <2>1. RenderMail(m, t).text = IF m.plain # <<>> THEN m.plain[1] ELSE <<>>
    BY <1>2 DEF RenderMail, VisibleText
  <2>2. ~("comment" \in ToSet(<<>>))
    BY DEF ToSet
  <2>3. m.plain # <<>> => 1 \in DOMAIN m.plain
    OBVIOUS
  <2>4. "comment" \in HtmlPieces
    BY DEF HtmlPieces
  <2> QED BY <2>1, <2>2, <2>3, <2>4 DEF Has
<1> QED BY <1>1, <1>2

LEMMA MailsHonest ==
    ASSUME NEW f, NEW x, NEW e, NEW o, x.lane \in MailAdapters, Delivered(f, x),
           o = MailOutput(f, x, e), ValidateMail(f, o, x) = "fail"
    PROVE  MailHonestGaps(f, x)
<1> DEFINE ms == MailsRead(f)
<1>1. /\ o.container = DocumentIdOf(x.target)
      /\ Mails(o) = [i \in DOMAIN ms |-> RenderMail(ms[i], x.target)]
  BY MailsOfOutput
<1>2. CASE x.lane \in {"Eml", "Msg"}
  <2>1. PICK m : /\ ms = <<m>> /\ \A piece \in HtmlPieces : ~Has(m.plain, piece)
                 /\ m.html \in Seq(Seq(STRING)) /\ m.plain \in Seq(Seq(STRING))
    BY <1>2, OneMail
  <2>2. ExportFails(f, o, x)
    BY <1>2 DEF ValidateMail
  <2>3. DOMAIN ms = {1} /\ ms[1] = m
    BY <2>1
  <2>4. ToSet(ms) = {m}
    BY <2>3 DEF ToSet
  <2>5. DOMAIN Mails(o) = {1} /\ Mails(o)[1] = RenderMail(m, x.target)
    BY <1>1, <2>3
  <2>6. ToSet(Mails(o)) = {RenderMail(m, x.target)}
    BY <2>5 DEF ToSet
  <2>7. RenderMail(m, x.target).from = m.from
    BY DEF RenderMail
  <2>8. \/ ~m.from \/ ~m.to
        \/ x.target = "html" /\ "comment" \in ToSet(RenderMail(m, x.target).text)
    BY <1>1, <2>2, <2>4, <2>5, <2>6, <2>7 DEF ExportFails
  <2>10. ~m.from \/ ~m.to \/ (x.target = "html" /\ Has(m.html, "comment"))
    BY ONLY <2>1, <2>8, ShownIsOf
  <2> QED BY <1>2, <2>4, <2>10 DEF MailHonestGaps
<1>3. CASE x.lane \in {"MboxText", "MboxPdf"}
  <2>1. MailboxFails(f, o, x)
    BY <1>3 DEF ValidateMail
  <2>2. x.target = "pdf" /\ Len(Mails(o)) # Len(ms)
    BY <1>1, <2>1 DEF MailboxFails
  <2>3. f.container = "mbox"
    BY <1>3 DEF Delivered
  <2> QED BY <1>1, <2>2
<1> QED BY <1>2, <1>3 DEF MailAdapters

LEMMA MailsCaught ==
    ASSUME NEW f, NEW x, NEW e, NEW o, NEW y, NEW d \in MailDamages, x.lane \in MailAdapters,
           Delivered(f, x), o = MailOutput(f, x, e), y = MailDamage(o, d), y # o,
           ValidateMail(f, y, x) # "fail"
    PROVE  UncheckedMail(y, o, x)
<1> DEFINE ms == MailsRead(f)
           c == DocumentIdOf(x.target)
<1>1. /\ o.container = c
      /\ Mails(o) = [i \in DOMAIN ms |-> RenderMail(ms[i], x.target)]
      /\ o = [container |-> c, ext |-> e, body |-> << [mails |-> Mails(o)] >>]
  BY MailsOfOutput
<1>2. CASE x.lane \in {"Eml", "Msg"}
  <2>1. PICK m : ms = <<m>>
    BY <1>2, OneMail
  <2>2. ~ExportFails(f, y, x)
    BY <1>2 DEF ValidateMail
  <2> DEFINE s == RenderMail(m, x.target)
             mails == Mails(o)
  <2>3. mails = <<s>>
    <3>1. DOMAIN ms = {1} /\ ms[1] = m
      BY <2>1
    <3>2. mails = [i \in 1..1 |-> s]
      BY <1>1, <3>1
    <3> HIDE DEF mails, s
    <3> QED BY ONLY <3>2
  <2> HIDE DEF mails, s, c
  <2>4. o = [container |-> c, ext |-> e, body |-> << [mails |-> mails] >>]
    BY ONLY <1>1 DEF mails
  <2>5. CASE d = "lost"
    <3>1. y = [o EXCEPT !.body[1].mails = Front(@)]
      BY ONLY <2>5, y = MailDamage(o, d), Zenon DEF MailDamage
    <3>2. Mails(y) = Front(mails)
      BY ONLY <2>4, <3>1 DEF Mails
    <3>3. Front(mails) = <<>>
      BY ONLY <2>3 DEF Front
    <3>4. DOMAIN Mails(y) = {}
      BY ONLY <3>2, <3>3
    <3> QED BY <2>2, <3>4 DEF ExportFails
  <2>6. CASE d = "swapped"
    <3>1. y = [o EXCEPT !.body[1].mails = Reverse(@)]
      BY ONLY <2>6, y = MailDamage(o, d), Zenon DEF MailDamage
    <3>2. Reverse(mails) = mails
      BY ONLY <2>3 DEF Reverse
    <3>3. y = [container |-> c, ext |-> e, body |-> << [mails |-> Reverse(mails)] >>]
      BY ONLY <2>4, <3>1
    <3> QED BY <2>4, <3>2, <3>3
  <2>7. CASE d = "wrong format"
    <3>1. y = [o EXCEPT !.container = "broken"]
      BY ONLY <2>7, y = MailDamage(o, d), Zenon DEF MailDamage
    <3>2. y.container = "broken"
      BY ONLY <2>4, <3>1
    <3>3. c # "broken"
      BY <1>2, MailTargetIds DEF Delivered, c
    <3> QED BY <2>2, <3>2, <3>3 DEF ExportFails, c
  <2> QED BY <2>5, <2>6, <2>7 DEF MailDamages
<1>3. CASE x.lane \in {"MboxText", "MboxPdf"}
  <2>1. ~MailboxFails(f, y, x)
    BY <1>3 DEF ValidateMail
  <2>2. y.container = c /\ (x.target = "pdf" => Len(Mails(y)) = Len(ms))
    BY <2>1 DEF MailboxFails
  <2>3. f.container = "mbox"
    BY <1>3 DEF Delivered
  <2>4. Len(Mails(o)) = Len(ms)
    BY <1>1
  <2>5. x.lane = "MboxPdf" => x.target = "pdf"
    BY DEF Delivered
  <2> QED BY <1>1, <1>3, <2>2, <2>4, <2>5 DEF UncheckedMail
<1> QED BY <1>2, <1>3 DEF MailAdapters

LEMMA MailsRight ==
    ASSUME Judged, plan.lane \in MailAdapters
    PROVE  /\ Condemned /\ out = Obeyed => HonestGaps
           /\ stage = "committed" /\ out # Obeyed => DamageIsCaught
<1> DEFINE f == asked.file
<1>1. /\ Obeyed = MailOutput(f, plan, Request.ext) /\ Verdict = ValidateMail(f, out, plan)
      /\ Spoilt = {MailDamage(Obeyed, d) : d \in MailDamages}
  BY LaneFunctions
<1>2. Delivered(f, plan)
  BY MailsFit DEF Judged
<1>3. ASSUME Condemned, out = Obeyed PROVE HonestGaps
  <2>1. ValidateMail(f, out, plan) = "fail"
    BY <1>1, <1>3 DEF Judged
  <2>2. MailHonestGaps(f, plan)
    BY ONLY <1>1, <1>2, <1>3, <2>1, MailsHonest, plan.lane \in MailAdapters
  <2> QED BY <2>2 DEF HonestGaps
<1>4. ASSUME stage = "committed", out # Obeyed PROVE DamageIsCaught
  <2>1. ValidateMail(f, out, plan) # "fail"
    BY <1>1, <1>4 DEF Judged
  <2>2. PICK d \in MailDamages : out = MailDamage(Obeyed, d)
    BY <1>1, <1>4 DEF Judged
  <2>3. UncheckedMail(out, Obeyed, plan)
    BY ONLY <1>1, <1>2, <1>4, <2>1, <2>2, MailsCaught, plan.lane \in MailAdapters
  <2>4. plan.lane \notin PdfAdapters \cup DataAdapters \cup DocumentAdapters
    BY AdaptersApart
  <2> QED BY ONLY <2>3, <2>4, plan.lane \in MailAdapters, Zenon DEF DamageIsCaught
<1> QED BY <1>3, <1>4

\* a message as it was sent
Sent == [from : BOOLEAN, to : BOOLEAN, transport : BOOLEAN,
         plain : Seq(Seq(STRING)), html : Seq(Seq(STRING)),
         quoted : BOOLEAN, length : {"none", "right", "wrong"}]

LEMMA StoredText ==
    ASSUME NEW m \in Sent
    PROVE  /\ DOMAIN Stored(m) = DOMAIN m /\ Stored(m).length = m.length
           /\ Stored(m) = [m EXCEPT !.plain = Stored(m).plain]
           /\ DOMAIN Stored(m).plain = DOMAIN m.plain
           /\ \A i \in DOMAIN m.plain :
                 /\ DOMAIN Stored(m).plain[i] = DOMAIN m.plain[i]
                 /\ \A k \in DOMAIN m.plain[i] :
                       Stored(m).plain[i][k] = IF m.quoted /\ m.plain[i][k] = "From" THEN ">From"
                                               ELSE m.plain[i][k]
<1> DEFINE w == [i \in DOMAIN m.plain |-> [k \in DOMAIN m.plain[i] |->
                   IF m.quoted /\ m.plain[i][k] = "From" THEN ">From" ELSE m.plain[i][k]]]
<1>1. Stored(m) = [m EXCEPT !.plain = w]
  BY DEF Stored
<1>2. DOMAIN w = DOMAIN m.plain
      /\ \A i \in DOMAIN m.plain :
            /\ DOMAIN w[i] = DOMAIN m.plain[i]
            /\ \A k \in DOMAIN m.plain[i] :
                  w[i][k] = IF m.quoted /\ m.plain[i][k] = "From" THEN ">From" ELSE m.plain[i][k]
  OBVIOUS
<1> HIDE DEF w
<1>3. DOMAIN m = {"from", "to", "transport", "plain", "html", "quoted", "length"}
  BY DEF Sent
<1>4. Stored(m).plain = w /\ Stored(m).length = m.length /\ DOMAIN Stored(m) = DOMAIN m
  BY <1>1, <1>3
<1> QED BY ONLY <1>1, <1>2, <1>4

\* text that is the same letter by letter is the same text
LEMMA SameText ==
    ASSUME NEW m \in Sent, NEW w, DOMAIN w = DOMAIN m.plain,
           \A i \in DOMAIN m.plain : w[i] = [k \in DOMAIN m.plain[i] |-> m.plain[i][k]],
           w = [i \in DOMAIN w |-> w[i]]
    PROVE  [m EXCEPT !.plain = w] = m
<1>1. m.plain \in Seq(Seq(STRING))
  BY DEF Sent
<1>2. \A i \in DOMAIN m.plain : m.plain[i] \in Seq(STRING)
  BY <1>1
<1>3. \A i \in DOMAIN m.plain : w[i] = m.plain[i]
  BY <1>2
<1>4. w = m.plain
  BY <1>1, <1>3
<1> QED BY <1>4 DEF Sent

\* what is not quoted, or has no separator in it, is stored as it is
LEMMA StoredAsItIs ==
    ASSUME NEW m \in Sent, ~Has(m.plain, "From") \/ ~m.quoted
    PROVE  Stored(m) = m
<1> DEFINE w == Stored(m).plain
           v == [i \in DOMAIN m.plain |-> [k \in DOMAIN m.plain[i] |->
                   IF m.quoted /\ m.plain[i][k] = "From" THEN ">From" ELSE m.plain[i][k]]]
<1>1. \A i \in DOMAIN m.plain : \A k \in DOMAIN m.plain[i] : ~(m.quoted /\ m.plain[i][k] = "From")
  BY DEF Has, ToSet
<1>2. Stored(m) = [m EXCEPT !.plain = v]
  BY DEF Stored
<1>3. \A i \in DOMAIN m.plain : v[i] = [k \in DOMAIN m.plain[i] |-> m.plain[i][k]]
  BY <1>1
<1>4. DOMAIN v = DOMAIN m.plain /\ v = [i \in DOMAIN v |-> v[i]]
  OBVIOUS
<1> HIDE DEF v
<1>5. [m EXCEPT !.plain = v] = m
  BY <1>3, <1>4, SameText
<1> QED BY <1>2, <1>5

\* a text that begins with no other message is one
LEMMA NotSplit ==
    ASSUME NEW s, NEW last,
           \/ s.length # "none"
           \/ s.plain = <<>>
           \/ \A k \in DOMAIN s.plain[1] : s.plain[1][k] # "From"
    PROVE  Split(s, last) = <<s>>
<1> DEFINE text == s.plain[1]
           cut == {k \in DOMAIN text : text[k] = "From"}
           rest == SubSeq(text, Min(cut) + 1, Len(text))
           parts == <<[s EXCEPT !.plain[1] = SubSeq(text, 1, Min(cut) - 1)]>>
                      \o IF last /\ rest = <<>> THEN <<>>
                         ELSE <<Message(FALSE, FALSE, <<rest>>, <<>>)>>
<1>1. Split(s, last) = IF s.plain = <<>> \/ s.length # "none" THEN <<s>>
                       ELSE IF cut = {} THEN <<s>> ELSE parts
  BY DEF Split
<1>2. \/ s.plain = <<>> \/ s.length # "none"
      \/ cut = {}
  OBVIOUS
<1> HIDE DEF cut, parts
<1> QED BY ONLY <1>1, <1>2

\* A mailbox in which every separator is quoted where its reader takes the quotation back, or
\* under a Content-Length, comes apart into the messages that it was made of.
LEMMA MailboxComesApart ==
    ASSUME NEW f, NEW x, f.container = "mbox", MailFile(f), InspectMail(f, "mbox") = "accepted",
           ~MailLossGaps(f, x)
    PROVE  MailsOfMbox(f) = Mails(f)
<1> DEFINE ms == Mails(f)
           stored == [i \in DOMAIN ms |-> Stored(ms[i])]
           ones == [i \in DOMAIN stored |-> Split(stored[i], i = Len(stored))]
           spans == FlattenSeq(ones)
           variant == IF \E i \in DOMAIN spans : spans[i].length # "none" THEN "mboxcl" ELSE "mboxo"
<1>1. MailsOfMbox(f) = [i \in DOMAIN spans |-> Unquote(spans[i], variant)]
  BY DEF MailsOfMbox
<1>2. ms \in Seq(Sent)
  BY DEF MailFile, Sent
<1>3. \A i \in DOMAIN ms : ms[i] \in Sent /\ ms[i] \in ToSet(ms)
  BY <1>2 DEF ToSet
<1>4. \A i \in DOMAIN ms :
         /\ Has(ms[i].plain, "From") =>
               \/ ms[i].length # "none"
               \/ ms[i].quoted /\ \E n \in ToSet(ms) : n.length = "right"
         /\ Has(ms[i].plain, ">From") => \A n \in ToSet(ms) : n.length = "none"
  BY <1>3 DEF MailLossGaps
<1> HIDE DEF ms
<1>5. DOMAIN stored = DOMAIN ms /\ \A i \in DOMAIN ms : stored[i] = Stored(ms[i])
  OBVIOUS
<1>6. \A i \in DOMAIN ms : Split(stored[i], i = Len(stored)) = <<stored[i]>>
  <2> HIDE DEF stored
  <2> SUFFICES ASSUME NEW i \in DOMAIN ms
               PROVE  Split(stored[i], i = Len(stored)) = <<stored[i]>>
    OBVIOUS
  <2> DEFINE m == ms[i]
             s == stored[i]
  <2>1. m \in Sent /\ s = Stored(m)
    BY <1>3, <1>5
  <2>2. m.plain \in Seq(Seq(STRING))
    BY <2>1 DEF Sent
  <2>3. s.length = m.length /\ DOMAIN s.plain = DOMAIN m.plain
        /\ \A j \in DOMAIN m.plain :
              /\ DOMAIN s.plain[j] = DOMAIN m.plain[j]
              /\ \A k \in DOMAIN m.plain[j] :
                    s.plain[j][k] = IF m.quoted /\ m.plain[j][k] = "From" THEN ">From"
                                    ELSE m.plain[j][k]
    BY <2>1, StoredText
  <2>4. Has(m.plain, "From") => m.length # "none" \/ m.quoted
    BY <1>4
  <2> HIDE DEF m, s
  <2>5. CASE m.length # "none"
    BY <2>3, <2>5, NotSplit DEF s
  <2>6. CASE m.length = "none" /\ m.plain = <<>>
    <3>1. s = m
      BY <2>1, <2>2, <2>6, StoredAsItIs DEF Has
    <3> QED BY <2>6, <3>1, NotSplit DEF s
  <2>7. CASE m.length = "none" /\ m.plain # <<>>
    <3>1. 1 \in DOMAIN m.plain
      BY <2>2, <2>7
    <3>2. \A k \in DOMAIN s.plain[1] : s.plain[1][k] # "From"
      <4> SUFFICES ASSUME NEW k \in DOMAIN s.plain[1] PROVE s.plain[1][k] # "From"
        OBVIOUS
      <4>1. k \in DOMAIN m.plain[1]
        BY <2>3, <3>1
      <4>2. m.plain[1][k] = "From" => m.quoted
        BY <2>4, <2>7, <3>1, <4>1 DEF Has, ToSet
      <4> QED BY <2>3, <3>1, <4>1, <4>2
    <3> QED BY <3>2, NotSplit DEF s
  <2> QED BY <2>5, <2>6, <2>7
<1>7. spans = stored
  <2> DEFINE S == ToSet(stored)
  <2>1. DOMAIN stored = 1..Len(ms) /\ Len(ms) \in Nat
    BY <1>2, <1>5
  <2>2. \A i \in DOMAIN stored : stored[i] \in S
    BY DEF ToSet
  <2>3. ones = [i \in DOMAIN stored |-> <<stored[i]>>]
    BY <1>5, <1>6
  <2>4. stored = [i \in DOMAIN stored |-> stored[i]]
    OBVIOUS
  <2> HIDE DEF S, stored, ones
  <2>5. DOMAIN ones = DOMAIN stored /\ \A i \in DOMAIN stored : ones[i] = <<stored[i]>>
    BY ONLY <2>3
  <2>6. \A i \in DOMAIN stored : ones[i] \in Seq(S) /\ Len(ones[i]) = 1 /\ ones[i][1] = stored[i]
    <3> SUFFICES ASSUME NEW i \in DOMAIN stored
                 PROVE  ones[i] \in Seq(S) /\ Len(ones[i]) = 1 /\ ones[i][1] = stored[i]
      OBVIOUS
    <3> DEFINE t == stored[i]
               one == ones[i]
    <3>1. t \in S /\ one = <<t>>
      BY <2>2, <2>5
    <3> HIDE DEF t, one
    <3>2. one \in Seq(S) /\ Len(one) = 1 /\ one[1] = t
      BY ONLY <3>1
    <3> QED BY <3>2 DEF t, one
  <2>7. ones \in Seq(Seq(S))
    <3> DEFINE n == Len(ms)
               T == Seq(S)
    <3>1. n \in Nat /\ ones = [i \in 1..n |-> ones[i]] /\ \A i \in 1..n : ones[i] \in T
      BY <2>1, <2>3, <2>6
    <3> HIDE DEF n, T
    <3>2. ones \in Seq(T)
      BY ONLY <3>1
    <3> QED BY <3>2 DEF T
  <2>8. FlattenSeq(ones) = [i \in DOMAIN ones |-> ones[i][1]]
    <3>1. \A i \in DOMAIN ones : Len(ones[i]) = 1
      BY ONLY <2>5, <2>6
    <3> QED BY ONLY <2>7, <3>1, FlattenedSingles
  <2>9. [i \in DOMAIN ones |-> ones[i][1]] = [i \in DOMAIN stored |-> stored[i]]
    BY ONLY <2>5, <2>6
  <2> QED BY ONLY <2>4, <2>8, <2>9 DEF spans
<1>8. variant = IF \E i \in DOMAIN ms : ms[i].length # "none" THEN "mboxcl" ELSE "mboxo"
  <2>1. \A i \in DOMAIN ms : stored[i].length = ms[i].length
    BY <1>3, <1>5, StoredText
  <2> HIDE DEF stored, spans
  <2> QED BY <1>5, <1>7, <2>1
<1>9. \A i \in DOMAIN ms : Unquote(Stored(ms[i]), variant) = ms[i]
  <2> SUFFICES ASSUME NEW i \in DOMAIN ms PROVE Unquote(Stored(ms[i]), variant) = ms[i]
    OBVIOUS
  <2> DEFINE m == ms[i]
             s == Stored(m)
  <2>1. m \in Sent
    BY <1>3
  <2> HIDE DEF variant
  <2>2. CASE variant # "mboxcl"
    <3>1. \A n \in DOMAIN ms : ms[n].length = "none"
      BY <1>8, <2>2
    <3>2. \A n \in ToSet(ms) : n.length = "none"
      BY <3>1 DEF ToSet
    <3>3. ~Has(m.plain, "From")
      BY <1>4, <3>1, <3>2
    <3>4. s = m
      BY <2>1, <3>3, StoredAsItIs
    <3> QED BY <2>2, <3>4 DEF Unquote
  <2>3. CASE variant = "mboxcl"
    <3>1. \E n \in ToSet(ms) : n.length # "none"
      <4>1. \E n \in DOMAIN ms : ms[n].length # "none"
        BY <1>8, <2>3
      <4> QED BY <1>3, <4>1
    <3>2. ~Has(m.plain, ">From")
      BY <1>4, <3>1
    <3> DEFINE w == [j \in DOMAIN s.plain |->
                       [k \in DOMAIN s.plain[j] |-> IF s.plain[j][k] = ">From" THEN "From"
                                                   ELSE s.plain[j][k]]]
    <3>3. Unquote(s, variant) = [s EXCEPT !.plain = w]
      BY <2>3 DEF Unquote
    <3>4. /\ DOMAIN s = DOMAIN m /\ s = [m EXCEPT !.plain = s.plain] /\ DOMAIN s.plain = DOMAIN m.plain
          /\ \A j \in DOMAIN m.plain :
                /\ DOMAIN s.plain[j] = DOMAIN m.plain[j]
                /\ \A k \in DOMAIN m.plain[j] :
                      s.plain[j][k] = IF m.quoted /\ m.plain[j][k] = "From" THEN ">From"
                                      ELSE m.plain[j][k]
      BY <2>1, StoredText
    <3>5. \A j \in DOMAIN m.plain : \A k \in DOMAIN m.plain[j] : m.plain[j][k] # ">From"
      BY <3>2 DEF Has, ToSet
    <3> HIDE DEF m, s
    <3>6. \A j \in DOMAIN m.plain : w[j] = [k \in DOMAIN m.plain[j] |-> m.plain[j][k]]
      <4> SUFFICES ASSUME NEW j \in DOMAIN m.plain
                   PROVE  w[j] = [k \in DOMAIN m.plain[j] |-> m.plain[j][k]]
        OBVIOUS
      <4>1. w[j] = [k \in DOMAIN s.plain[j] |-> IF s.plain[j][k] = ">From" THEN "From"
                                                ELSE s.plain[j][k]]
        BY <3>4
      <4>2. \A k \in DOMAIN m.plain[j] :
               (IF s.plain[j][k] = ">From" THEN "From" ELSE s.plain[j][k]) = m.plain[j][k]
        BY <3>4, <3>5
      <4>3. DOMAIN s.plain[j] = DOMAIN m.plain[j]
        BY <3>4
      <4> QED BY ONLY <4>1, <4>2, <4>3
    <3>7. DOMAIN w = DOMAIN m.plain /\ w = [j \in DOMAIN w |-> w[j]]
      BY <3>4
    <3> HIDE DEF w
    <3>8. [m EXCEPT !.plain = w] = m
      BY <2>1, <3>6, <3>7, SameText DEF m
    <3>9. [s EXCEPT !.plain = w] = [m EXCEPT !.plain = w]
      BY ONLY <3>4
    <3> QED BY <3>3, <3>8, <3>9 DEF m, s
  <2> QED BY <2>2, <2>3
<1>10. MailsOfMbox(f) = [i \in DOMAIN ms |-> ms[i]]
  <2>1. \A i \in DOMAIN ms : Unquote(spans[i], variant) = ms[i]
    BY <1>5, <1>7, <1>9
  <2>2. DOMAIN spans = DOMAIN ms
    BY <1>5, <1>7
  <2> HIDE DEF spans, variant
  <2> QED BY ONLY <1>1, <2>1, <2>2
<1> QED BY <1>2, <1>10 DEF ms

\* the parts of a message one after another, when there is one at most
LEMMA OnlyPart ==
    ASSUME NEW parts \in Seq(Seq(STRING)), Len(parts) <= 1
    PROVE  /\ parts = <<>> => FlattenSeq(parts) = <<>>
           /\ parts # <<>> => /\ FlattenSeq(parts) = parts[1] /\ parts[1] \in Seq(STRING)
                              /\ parts = <<parts[1]>>
<1>1. CASE parts = <<>>
  BY <1>1, FlatOfNone
<1>2. CASE parts # <<>>
  <2> DEFINE T == Seq(STRING)
  <2> HIDE DEF T
  <2>1. parts \in Seq(T)
    BY DEF T
  <2>2. Len(parts) = 1 /\ parts[1] \in T /\ parts = <<parts[1]>>
    <3>1. Len(parts) \in Nat /\ DOMAIN parts = 1..Len(parts) /\ (parts = <<>> <=> Len(parts) = 0)
      BY ONLY <2>1
    <3>2. Len(parts) = 1
      BY ONLY <1>2, <3>1, Len(parts) <= 1
    <3>3. DOMAIN parts = {1} /\ parts[1] \in T
      BY ONLY <2>1, <3>1, <3>2
    <3>4. parts = [i \in 1..1 |-> parts[i]]
      BY ONLY <2>1, <3>2
    <3> DEFINE t == parts[1]
    <3>5. parts = [i \in 1..1 |-> t]
      BY ONLY <3>4
    <3> HIDE DEF t
    <3>6. <<t>> = [i \in 1..1 |-> t]
      OBVIOUS
    <3>7. parts = <<t>>
      BY ONLY <3>5, <3>6
    <3> QED BY ONLY <3>2, <3>3, <3>7 DEF t
  <2>3. PICK g : IsFlat(g, parts, Len(parts)) /\ FlattenSeq(parts) = g[Len(parts)]
    <3>1. Len(parts) \in Nat \ {0}
      BY <2>2
    <3> QED BY ONLY <3>1, FlatIs
  <2>4. g[1] = parts[1]
    BY ONLY <2>2, <2>3, FlatAt
  <2> QED BY <1>2, <2>2, <2>3, <2>4 DEF T
<1> QED BY <1>1, <1>2

\* a message without anything that the lanes lose
Whole(m) ==
    /\ m \in Sent
    /\ \A piece \in {"amp", "script", "comment"} : ~Has(m.html, piece)
    /\ Len(m.plain) <= 1 /\ Len(m.html) <= 1
    /\ m.plain # <<>> /\ m.html # <<>> => m.plain[1] # <<>> /\ m.plain[1] = m.html[1]
    /\ ~RefersElsewhere(m)

LEMMA WhatIsSeen ==
    ASSUME NEW m, Whole(m)
    PROVE  /\ m.plain \in Seq(Seq(STRING)) /\ m.html \in Seq(Seq(STRING))
           /\ m.html # <<>> =>
                 /\ HtmlText(m.html[1]) = m.html[1] /\ Sanitized(m.html[1]) = m.html[1]
                 /\ \A t : Seen(m, t) = m.html[1]
           /\ m.html = <<>> => \A t : Seen(m, t) = IF m.plain # <<>> THEN m.plain[1] ELSE <<>>
<1> DEFINE p == m.plain
           h == m.html
<1>1. p \in Seq(Seq(STRING)) /\ h \in Seq(Seq(STRING)) /\ Len(p) <= 1 /\ Len(h) <= 1
  BY DEF Whole, Sent
<1>2. /\ p # <<>> /\ h # <<>> => p[1] # <<>> /\ p[1] = h[1]
      /\ \A piece \in {"amp", "script", "comment"} : ~Has(h, piece)
      /\ h # <<>> => "link" \notin ToSet(h[1])
  BY DEF Whole, RefersElsewhere
<1>3. \A t : Seen(m, t) = IF h # <<>> /\ (t \in {"html", "pdf"} \/ FlattenSeq(p) = <<>>)
                          THEN Without(FlattenSeq(h), {"script", "comment", "link"})
                          ELSE FlattenSeq(p)
  BY DEF Seen
<1> HIDE DEF p, h
<1>4. /\ p = <<>> => FlattenSeq(p) = <<>>
      /\ p # <<>> => FlattenSeq(p) = p[1] /\ p[1] \in Seq(STRING)
      /\ h = <<>> => FlattenSeq(h) = <<>>
      /\ h # <<>> => FlattenSeq(h) = h[1] /\ h[1] \in Seq(STRING)
  BY ONLY <1>1, OnlyPart
<1>5. ASSUME h # <<>>
      PROVE  /\ HtmlText(h[1]) = h[1] /\ Sanitized(h[1]) = h[1]
             /\ Without(h[1], {"script", "comment", "link"}) = h[1]
  <2>1. 1 \in DOMAIN h
    BY <1>1, <1>5
  <2>2. \A piece \in {"amp", "script", "comment", "link"} : piece \notin ToSet(h[1])
    BY <1>2, <1>5, <2>1 DEF Has
  <2> DEFINE s == h[1]
  <2>3. s \in Seq(STRING)
    BY <1>4, <1>5
  <2>4. /\ ToSet(s) \cap {"amp", "comment", "link"} = {}
        /\ ToSet(s) \cap {"amp", "script", "link"} = {}
        /\ ToSet(s) \cap {"script", "comment", "link"} = {}
    BY <2>2
  <2> HIDE DEF s
  <2>5. /\ Without(s, {"amp", "comment", "link"}) = s
        /\ Without(s, {"amp", "script", "link"}) = s
        /\ Without(s, {"script", "comment", "link"}) = s
    BY ONLY <2>3, <2>4, NothingRemoved
  <2> QED BY <2>5 DEF HtmlText, Sanitized, s
<1>6. ASSUME h # <<>>, NEW t PROVE Seen(m, t) = h[1]
  <2>1. CASE t \in {"html", "pdf"} \/ p = <<>>
    BY ONLY <1>3, <1>4, <1>5, <1>6, <2>1
  <2>2. CASE t \notin {"html", "pdf"} /\ p # <<>>
    BY ONLY <1>2, <1>3, <1>4, <1>5, <1>6, <2>2
  <2> QED BY <2>1, <2>2
<1>7. ASSUME h = <<>>, NEW t PROVE Seen(m, t) = IF p # <<>> THEN p[1] ELSE <<>>
  BY ONLY <1>3, <1>4, <1>7
<1> QED BY <1>1, <1>5, <1>6, <1>7 DEF p, h

\* the text of such a message is written as its reader sees it
LEMMA WholeIsKept ==
    ASSUME NEW m, NEW t, Whole(m)
    PROVE  RenderMail(m, t).text = Seen(m, t)
<1>1. RenderMail(m, t).text = IF t \in {"html", "pdf"} /\ m.html # <<>> THEN Sanitized(m.html[1])
                              ELSE VisibleText(m)
  BY DEF RenderMail
<1>2. m.plain # <<>> /\ m.html # <<>> => m.plain[1] = m.html[1]
  BY DEF Whole
<1>3. VisibleText(m) = IF m.plain # <<>> THEN m.plain[1]
                       ELSE IF m.html # <<>> THEN HtmlText(m.html[1]) ELSE <<>>
  BY DEF VisibleText
<1> QED BY ONLY <1>1, <1>2, <1>3, WhatIsSeen, Whole(m)

\* so is that of an Outlook message, of which one part is read
LEMMA OutlookIsKept ==
    ASSUME NEW m, NEW t, Whole(m)
    PROVE  RenderMail(OneMessageOfMsg(m), t).text = Seen(m, t)
<1> DEFINE z == OneMessageOfMsg(m)
<1>1. DOMAIN m = {"from", "to", "transport", "plain", "html", "quoted", "length"}
  BY DEF Whole, Sent
<1>2. /\ z.plain = IF m.html = <<>> THEN First(m.plain) ELSE <<>>
      /\ z.html = First(m.html)
  BY <1>1 DEF OneMessageOfMsg
<1>3. RenderMail(z, t).text = IF t \in {"html", "pdf"} /\ z.html # <<>> THEN Sanitized(z.html[1])
                              ELSE VisibleText(z)
  BY DEF RenderMail
<1>4. VisibleText(z) = IF z.plain # <<>> THEN z.plain[1]
                       ELSE IF z.html # <<>> THEN HtmlText(z.html[1]) ELSE <<>>
  BY DEF VisibleText
<1> HIDE DEF z
<1>5. /\ First(m.html) = IF m.html = <<>> THEN <<>> ELSE <<m.html[1]>>
      /\ First(m.plain) = IF m.plain = <<>> THEN <<>> ELSE <<m.plain[1]>>
  BY DEF First
<1>6. ASSUME m.html # <<>> PROVE RenderMail(z, t).text = Seen(m, t)
  <2>1. z.plain = <<>> /\ z.html # <<>> /\ z.html[1] = m.html[1]
    BY ONLY <1>2, <1>5, <1>6
  <2>2. Seen(m, t) = m.html[1] /\ HtmlText(m.html[1]) = m.html[1] /\ Sanitized(m.html[1]) = m.html[1]
    BY <1>6, WhatIsSeen
  <2> QED BY ONLY <1>3, <1>4, <2>1, <2>2
<1>7. ASSUME m.html = <<>> PROVE RenderMail(z, t).text = Seen(m, t)
  <2>1. z.html = <<>>
    BY ONLY <1>2, <1>5, <1>7
  <2>2. z.plain = First(m.plain)
    BY ONLY <1>2, <1>7
  <2>3. VisibleText(z) = IF m.plain # <<>> THEN m.plain[1] ELSE <<>>
    BY ONLY <1>4, <1>5, <2>1, <2>2
  <2>4. RenderMail(z, t).text = VisibleText(z)
    BY ONLY <1>3, <2>1
  <2>5. Seen(m, t) = IF m.plain # <<>> THEN m.plain[1] ELSE <<>>
    BY <1>7, WhatIsSeen
  <2> QED BY ONLY <2>3, <2>4, <2>5
<1> QED BY <1>6, <1>7 DEF z

\* the messages of a file of which nothing is lost
LEMMA WholeMails ==
    ASSUME NEW f, NEW x, Delivered(f, x), x.lane \in MailAdapters, ~MailLossGaps(f, x)
    PROVE  /\ Mails(f) \in Seq(Sent) /\ \A i \in DOMAIN Mails(f) : Whole(Mails(f)[i])
           /\ x.lane # "Msg" => MailsRead(f) = Mails(f)
           /\ x.lane = "Msg" => Len(Mails(f)) = 1 /\ MailsRead(f) = <<OneMessageOfMsg(Mails(f)[1])>>
<1> DEFINE ms == Mails(f)
<1>1. /\ f.container \in {"eml", "msg", "mbox"} /\ (x.lane = "Msg" <=> f.container = "msg")
      /\ f.container # "mbox" <=> x.lane \in {"Eml", "Msg"}
  BY DEF Delivered, MailAdapters
<1>2. ms \in Seq(Sent)
  BY <1>1 DEF Delivered, MailFile, Sent
<1>3. x.lane # "Msg" => MailsRead(f) = ms
  <2>1. CASE f.container = "eml"
    BY ONLY <2>1, Zenon DEF MailsRead
  <2>2. CASE f.container = "mbox"
    <3>1. MailsRead(f) = MailsOfMbox(f)
      BY ONLY <2>2, Zenon DEF MailsRead
    <3>2. InspectMail(f, "mbox") = "accepted" /\ MailFile(f)
      BY <2>2 DEF Delivered
    <3> QED BY ONLY <2>2, <3>1, <3>2, MailboxComesApart, ~MailLossGaps(f, x)
  <2> QED BY <1>1, <2>1, <2>2
<1>4. ASSUME x.lane = "Msg" PROVE Len(ms) = 1 /\ MailsRead(f) = <<OneMessageOfMsg(ms[1])>>
  <2>1. f.container = "msg"
    BY <1>1, <1>4
  <2>2. MailsRead(f) = <<OneMessageOfMsg(ms[1])>>
    BY ONLY <2>1, Zenon DEF MailsRead
  <2> QED BY <2>1, <2>2 DEF Delivered, MailFile
<1>5. \A i \in DOMAIN ms : ~RefersElsewhere(ms[i])
  <2> SUFFICES ASSUME NEW i \in DOMAIN ms PROVE ~RefersElsewhere(ms[i])
    OBVIOUS
  <2>1. \A m \in ToSet(MailsRead(f)) : ~RefersElsewhere(m)
    BY DEF Delivered
  <2>2. CASE x.lane # "Msg"
    BY <1>3, <2>1, <2>2 DEF ToSet
  <2>3. CASE x.lane = "Msg"
    <3> DEFINE m == ms[1]
               z == OneMessageOfMsg(m)
    <3>1. i = 1 /\ m \in Sent
      <4>1. Len(ms) = 1
        BY <1>4, <2>3
      <4> HIDE DEF ms
      <4>2. DOMAIN ms = 1..1
        BY ONLY <1>2, <4>1
      <4> QED BY ONLY <1>2, <4>2, i \in DOMAIN ms DEF m
    <3>2. z.html = First(m.html)
      <4>1. "html" \in DOMAIN m
        BY <3>1 DEF Sent
      <4> QED BY <4>1 DEF OneMessageOfMsg
    <3>3. z \in ToSet(MailsRead(f))
      <4>1. MailsRead(f) = <<z>>
        BY <1>4, <2>3
      <4> HIDE DEF z
      <4> QED BY ONLY <4>1 DEF ToSet
    <3>4. ~(First(m.html) # <<>> /\ "link" \in ToSet(First(m.html)[1]))
      BY <2>1, <3>2, <3>3 DEF RefersElsewhere
    <3>5. m.html # <<>> => First(m.html) # <<>> /\ First(m.html)[1] = m.html[1]
      BY DEF First
    <3> QED BY <3>1, <3>4, <3>5 DEF RefersElsewhere
  <2> QED BY <2>2, <2>3
<1>6. \A i \in DOMAIN ms : Whole(ms[i])
  <2> SUFFICES ASSUME NEW i \in DOMAIN ms PROVE Whole(ms[i])
    OBVIOUS
  <2> DEFINE m == ms[i]
  <2>1. m \in Sent /\ m \in ToSet(ms)
    BY <1>2 DEF ToSet
  <2>2. /\ ~Has(m.html, "amp") /\ ~(Len(m.plain) > 1) /\ ~(Len(m.html) > 1)
        /\ ~(m.plain # <<>> /\ m.plain[1] = <<>> /\ m.html # <<>>)
        /\ ~Has(m.html, "script") /\ ~Has(m.html, "comment")
    BY <2>1 DEF MailLossGaps
  <2>3. m.plain # <<>> /\ m.html # <<>> =>
           \/ m.plain[1] \in {<<>>, m.html[1]}
           \/ ToSet(m.html[1]) \cap ({"amp"} \cup HtmlPieces) # {}
    BY <1>1, <2>1 DEF Delivered, MailFile
  <2>4. m.plain \in Seq(Seq(STRING)) /\ m.html \in Seq(Seq(STRING))
    BY <2>1 DEF Sent
  <2>5. ~RefersElsewhere(m)
    BY <1>5
  <2> HIDE DEF m, ms
  <2>6. Len(m.plain) <= 1 /\ Len(m.html) <= 1
    <3> DEFINE T == Seq(STRING)
    <3> HIDE DEF T
    <3>1. m.plain \in Seq(T) /\ m.html \in Seq(T)
      BY <2>4 DEF T
    <3>2. Len(m.plain) \in Nat /\ Len(m.html) \in Nat
      BY ONLY <3>1
    <3> QED BY ONLY <2>2, <3>2
  <2>7. ASSUME m.html # <<>> PROVE ToSet(m.html[1]) \cap ({"amp"} \cup HtmlPieces) = {}
    <3>1. 1 \in DOMAIN m.html
      BY <2>4, <2>7
    <3>2. "link" \notin ToSet(m.html[1])
      BY <2>5, <2>7 DEF RefersElsewhere
    <3>3. \A piece \in {"amp", "script", "comment"} : piece \notin ToSet(m.html[1])
      BY <2>2, <3>1 DEF Has
    <3> QED BY <3>2, <3>3 DEF HtmlPieces
  <2>8. m.plain # <<>> /\ m.html # <<>> => m.plain[1] # <<>> /\ m.plain[1] = m.html[1]
    BY <2>2, <2>3, <2>7
  <2> QED BY <2>1, <2>2, <2>5, <2>6, <2>8 DEF Whole, m
<1> QED BY <1>2, <1>3, <1>4, <1>6

LEMMA NothingOfMailsIsLost ==
    ASSUME Judged, stage = "committed", out = Obeyed, plan.lane \in MailAdapters,
           ~MailLossGaps(asked.file, plan)
    PROVE  MailsKept(asked.file, out, plan)
<1> DEFINE f == asked.file
           ms == Mails(f)
           rs == MailsRead(f)
           t == plan.target
<1>1. Delivered(f, plan)
  BY MailsFit DEF Judged
<1>2. out = MailOutput(f, plan, Request.ext)
  BY LaneFunctions
<1>3. Mails(out) = [i \in DOMAIN rs |-> RenderMail(rs[i], t)]
  BY ONLY <1>2, MailsOfOutput
<1>4. /\ ms \in Seq(Sent) /\ \A i \in DOMAIN ms : Whole(ms[i])
      /\ plan.lane # "Msg" => rs = ms
      /\ plan.lane = "Msg" => Len(ms) = 1 /\ rs = <<OneMessageOfMsg(ms[1])>>
  BY <1>1, WholeMails
<1> HIDE DEF ms, rs
<1>5. CASE plan.lane # "Msg"
  <2>1. Len(Mails(out)) = Len(ms) /\ \A i \in DOMAIN ms : Mails(out)[i] = RenderMail(ms[i], t)
    BY <1>3, <1>4, <1>5
  <2>2. \A i \in DOMAIN ms : Mails(out)[i].text = Seen(ms[i], t)
    BY <1>4, <2>1, WholeIsKept
  <2> QED BY <2>1, <2>2 DEF MailsKept, ms
<1>6. CASE plan.lane = "Msg"
  <2> DEFINE m == ms[1]
             z == OneMessageOfMsg(m)
  <2>1. DOMAIN ms = {1}
    BY <1>4, <1>6
  <2>2. RenderMail(z, t).text = Seen(m, t)
    BY <1>4, <2>1, OutlookIsKept
  <2>3. rs = <<z>> /\ Len(ms) = 1
    BY <1>4, <1>6
  <2> HIDE DEF z, m
  <2>4. DOMAIN rs = 1..1 /\ rs[1] = z
    BY ONLY <2>3
  <2>5. Mails(out) = [i \in 1..1 |-> RenderMail(z, t)]
    BY <1>3, <2>4
  <2>6. Len(Mails(out)) = 1 /\ Mails(out)[1] = RenderMail(z, t)
    BY ONLY <2>5
  <2>7. \A i \in DOMAIN ms : Mails(out)[i].text = Seen(ms[i], t)
    BY <2>1, <2>2, <2>6 DEF m
  <2> QED BY <2>3, <2>6, <2>7 DEF MailsKept, ms
<1> QED BY <1>5, <1>6

-----------------------------------------------------------------------------
(* Data.                                                                    *)

LEMMA DataLanes ==
    ASSUME NEW ext, NEW content, NEW t, NEW h, NEW a, a = LaneOf(ext, content, t, h).adapter
    PROVE  /\ a = "Structured" => t \in DataFormats
           /\ a = "Archive" => t \in ArchiveFormats
BY DEF LaneOf, Lane, DocumentToPdf, MediaLane, DataFormats, ArchiveFormats

\* what the planner of a file of records knows of it
Recorded(f, x) ==
    /\ RecordFile(f) /\ InspectStructured(f) = "accepted"
    /\ x.lane = "Structured" /\ x.target \in DataFormats /\ x.operation = "serialize"
    /\ x.target \in Flat /\ ScalarsAreLost(Body(f).records) => x.loss = "lossy"

\* what the planner of an archive knows of it
Archived(f, x) ==
    /\ ArchiveFile(f) /\ InspectArchive(f) = "accepted"
    /\ x.lane = "Archive" /\ x.target \in ArchiveFormats /\ x.operation = "repack"
    /\ ArchiveHint(f) # x.target /\ x.arguments.source = ArchiveHint(f)

LEMMA PlanOfRecords ==
    ASSUME NEW lane, NEW f, NEW r, PlanStructured(lane, f, r).ok = TRUE
    PROVE  LET q == PlanStructured(lane, f, r)
           IN /\ InspectStructured(f) = "accepted" /\ q.target = r.target
              /\ q.operation = "serialize"
              /\ r.target \in Flat /\ ScalarsAreLost(Body(f).records) => q.loss = "lossy"
<1> DEFINE q == PlanStructured(lane, f, r)
           inspection == InspectStructured(f)
           records == Body(f).records
           lossy == r.target \in Flat /\ ScalarsAreLost(records)
           nested == r.target \in Flat /\ \E v \in Values(records) : v.kind = "nested"
           loss == IF lossy THEN "lossy" ELSE "none"
           made == PlanOfStep(lane, r.target, "serialize", loss, [source |-> StructuredHint(f)])
<1>1. q = IF inspection # "accepted" THEN Refused(inspection)
          ELSE IF nested \/ (lossy /\ ~r.lossyData) THEN Refused("PolicyBlocked") ELSE made
  BY DEF PlanStructured
<1>2. \A z : Refused(z).ok # TRUE
  BY DEF Refused
<1>3. made.target = r.target /\ made.operation = "serialize" /\ made.loss = loss
  BY DEF PlanOfStep
<1> HIDE DEF inspection, made, nested, lossy
<1>4. inspection = "accepted" /\ q = made
  BY ONLY <1>1, <1>2, q.ok = TRUE
<1> QED BY <1>3, <1>4 DEF inspection, lossy

LEMMA PlanOfEntries ==
    ASSUME NEW lane, NEW f, NEW r, PlanArchive(lane, f, r).ok = TRUE
    PROVE  LET q == PlanArchive(lane, f, r)
           IN /\ InspectArchive(f) = "accepted" /\ q.target = r.target /\ q.operation = "repack"
              /\ ArchiveHint(f) # q.target /\ q.arguments.source = ArchiveHint(f)
<1> DEFINE q == PlanArchive(lane, f, r)
           inspection == InspectArchive(f)
           made == PlanOfStep(lane, r.target, "repack", "container-only", [source |-> ArchiveHint(f)])
<1>1. q = IF inspection # "accepted" THEN Refused(inspection)
          ELSE IF ArchiveHint(f) = r.target THEN Refused("Unsupported") ELSE made
  BY DEF PlanArchive
<1>2. \A z : Refused(z).ok # TRUE
  BY DEF Refused
<1>3. made.target = r.target /\ made.operation = "repack" /\ made.arguments.source = ArchiveHint(f)
  BY DEF PlanOfStep
<1> HIDE DEF inspection, made
<1>4. inspection = "accepted" /\ q = made /\ ArchiveHint(f) # r.target
  BY ONLY <1>1, <1>2, q.ok = TRUE
<1> QED BY <1>3, <1>4 DEF inspection

LEMMA DataFits ==
    ASSUME NEW x, NEW c, CaseAssumption(c), Origin(x, c), x.lane \in DataAdapters
    PROVE  /\ x.lane = "Structured" => Recorded(c.file, x)
           /\ x.lane = "Archive" => Archived(c.file, x)
           /\ x.target = c.request.target
<1> DEFINE f == c.file
           r == c.request
<1>1. x.lane # "Ffmpeg"
  BY DEF DataAdapters
<1>2. PICK lane : /\ LaneFor(lane, f, r, c.op) /\ PlannedIn(x, lane, f, r, c.op)
                  /\ x.lane = lane.adapter
  BY <1>1, OriginLane
<1> DEFINE a == lane.adapter
           q == PlanData(lane, f, r)
<1>3. AsPlanned(x, q)
  BY <1>2 DEF PlannedIn
<1>4. /\ q.ok = TRUE /\ x.target = q.target /\ x.operation = q.operation /\ x.loss = q.loss
      /\ x.arguments = q.arguments
  BY <1>3 DEF AsPlanned
<1>5. \E ext, content, h : lane = LaneOf(ext, content, r.target, h)
  <2>1. lane # OperationLane(c.op)
    BY <1>2, AdaptersOfOperations DEF DataAdapters
  <2> QED BY <1>2, <2>1 DEF LaneFor
<1>6. PICK ext, content, h : lane = LaneOf(ext, content, r.target, h)
  BY <1>5
<1>7. /\ a = "Structured" => r.target \in DataFormats
      /\ a = "Archive" => r.target \in ArchiveFormats
  BY <1>6, DataLanes
<1>8. RecordFile(f) /\ ArchiveFile(f)
  BY DEF CaseAssumption, KnownFile
<1>9. CASE a = "Structured"
  <2>1. q = PlanStructured(lane, f, r)
    BY <1>9 DEF PlanData
  <2> HIDE DEF q, f, r
  <2>2. /\ InspectStructured(f) = "accepted" /\ q.target = r.target /\ q.operation = "serialize"
        /\ r.target \in Flat /\ ScalarsAreLost(Body(f).records) => q.loss = "lossy"
    <3>1. PlanStructured(lane, f, r).ok = TRUE
      BY ONLY <1>4, <2>1
    <3> DEFINE made == PlanStructured(lane, f, r)
    <3>2. /\ InspectStructured(f) = "accepted" /\ made.target = r.target
          /\ made.operation = "serialize"
          /\ r.target \in Flat /\ ScalarsAreLost(Body(f).records) => made.loss = "lossy"
      BY ONLY <3>1, PlanOfRecords
    <3>3. q = made
      BY ONLY <2>1
    <3> HIDE DEF made
    <3> QED BY ONLY <3>2, <3>3
  <2> QED BY <1>2, <1>4, <1>7, <1>8, <1>9, <2>2 DEF Recorded, f, r
<1>10. CASE a = "Archive"
  <2>1. q = PlanArchive(lane, f, r)
    BY <1>10 DEF PlanData
  <2> HIDE DEF q, f, r
  <2>2. /\ InspectArchive(f) = "accepted" /\ q.target = r.target /\ q.operation = "repack"
        /\ ArchiveHint(f) # q.target /\ q.arguments.source = ArchiveHint(f)
    <3>1. PlanArchive(lane, f, r).ok = TRUE
      BY ONLY <1>4, <2>1
    <3> DEFINE made == PlanArchive(lane, f, r)
    <3>2. /\ InspectArchive(f) = "accepted" /\ made.target = r.target
          /\ made.operation = "repack"
          /\ ArchiveHint(f) # made.target /\ made.arguments.source = ArchiveHint(f)
      BY ONLY <3>1, PlanOfEntries
    <3>3. q = made
      BY ONLY <2>1
    <3> HIDE DEF made
    <3> QED BY ONLY <3>2, <3>3
  <2> QED BY <1>2, <1>4, <1>7, <1>8, <1>10, <2>2 DEF Archived, f, r
<1> QED BY <1>2, <1>9, <1>10 DEF DataAdapters

-----------------------------------------------------------------------------
(* Records.                                                                 *)

FlatRecords(records) ==
    [i \in DOMAIN records |->
       [k \in Fields(records) |->
          [kind |-> "string",
           text |-> IF k \in DOMAIN records[i] THEN ScalarText(records[i][k]) ELSE ""]]]

LEMMA RecordsOfOutput ==
    ASSUME NEW f, NEW x, NEW e, NEW o, o = StructuredOutput(f, x, e)
    PROVE  /\ o.container = x.target /\ o.ext = e
           /\ x.target \in Flat => Body(o).records = FlatRecords(Body(f).records)
           /\ x.target \notin Flat => Body(o).records = Body(f).records
           /\ (x.target = "csv" /\ Fields(Body(f).records) = {}) \/ Body(o).flaw = "none"
           /\ o = [container |-> x.target, ext |-> e,
                   body |-> << [records |-> Body(o).records, flaw |-> Body(o).flaw] >>]
BY DEF StructuredOutput, Body, FlatRecords

\* records in which a flat file loses nothing are flat
LEMMA FlatIsTheSame ==
    ASSUME NEW f, RecordFile(f), f.container \in DataFormats, NEW records,
           records = Body(f).records, ~ScalarsAreLost(records)
    PROVE  FlatRecords(records) = records
<1> DEFINE S == ToSet(records)
<1>1. records \in Seq(S)
      /\ \A i \in DOMAIN records :
            records[i] \in [DOMAIN records[i] -> [kind : STRING, text : STRING]]
  BY DEF RecordFile
<1>2. records = [i \in DOMAIN records |-> records[i]]
  <2> HIDE DEF S
  <2> QED BY ONLY <1>1
<1>3. ASSUME NEW i \in DOMAIN records
      PROVE  [k \in Fields(records) |->
                [kind |-> "string",
                 text |-> IF k \in DOMAIN records[i] THEN ScalarText(records[i][k]) ELSE ""]]
               = records[i]
  <2>1. DOMAIN records[i] = Fields(records)
    BY DEF ScalarsAreLost
  <2>2. records[i] \in [DOMAIN records[i] -> [kind : STRING, text : STRING]]
    BY <1>1
  <2> DEFINE one == records[i]
             fields == Fields(records)
             text(k) == IF k \in DOMAIN one THEN ScalarText(one[k]) ELSE ""
  <2>3. ASSUME NEW k \in fields PROVE [kind |-> "string", text |-> text(k)] = one[k]
    <3>1. k \in DOMAIN one
      BY <2>1
    <3>2. one[k].kind = "string"
      <4>1. one[k] \in Values(records)
        BY <3>1 DEF Values
      <4> QED BY <4>1 DEF ScalarsAreLost
    <3>3. one[k] \in [kind : STRING, text : STRING]
      <4> DEFINE V == [kind : STRING, text : STRING]
      <4> HIDE DEF V
      <4>1. one \in [DOMAIN one -> V]
        BY <2>2 DEF V
      <4> HIDE DEF one
      <4>2. one[k] \in V
        BY <3>1, <4>1
      <4> QED BY <4>2 DEF V
    <3>4. text(k) = one[k].text
      <4>1. text(k) = ScalarText(one[k])
        BY <3>1
      <4> HIDE DEF one
      <4> QED BY <3>2, <4>1 DEF ScalarText
    <3> DEFINE v == one[k]
               s == "string"
    <3> HIDE DEF v, s
    <3>5. v \in [kind : STRING, text : STRING] /\ v.kind = s
      BY <3>2, <3>3 DEF v, s
    <3>6. [kind |-> s, text |-> v.text] = v
      BY ONLY <3>5
    <3> QED BY <3>4, <3>6 DEF v, s
  <2>4. one \in [fields -> [kind : STRING, text : STRING]]
    BY <2>1, <2>2
  <2> HIDE DEF one, fields
  <2>5. one = [k \in fields |-> one[k]]
    BY ONLY <2>4
  <2>6. [k \in fields |-> [kind |-> "string", text |-> text(k)]] = [k \in fields |-> one[k]]
    BY ONLY <2>3
  <2>7. [k \in fields |-> [kind |-> "string", text |-> text(k)]] = one
    BY ONLY <2>5, <2>6
  <2> QED BY ONLY <2>7 DEF one, fields
<1>4. FlatRecords(records) = [i \in DOMAIN records |-> records[i]]
  BY <1>3 DEF FlatRecords
<1> QED BY ONLY <1>2, <1>4

LEMMA FlatFields ==
    ASSUME NEW records
    PROVE  /\ DOMAIN FlatRecords(records) = DOMAIN records
           /\ Fields(FlatRecords(records)) = Fields(records)
<1> DEFINE flat == FlatRecords(records)
<1>1. DOMAIN flat = DOMAIN records /\ \A i \in DOMAIN records : DOMAIN flat[i] = Fields(records)
  BY DEF FlatRecords
<1> HIDE DEF flat
<1>2. Fields(flat) = UNION {DOMAIN flat[i] : i \in DOMAIN records}
  BY <1>1 DEF Fields
<1>3. CASE DOMAIN records = {}
  <2>1. Fields(flat) = {} /\ Fields(records) = {}
    BY <1>2, <1>3 DEF Fields
  <2> QED BY <1>1, <2>1 DEF flat
<1>4. CASE DOMAIN records # {}
  <2>1. {DOMAIN flat[i] : i \in DOMAIN records} = {Fields(records)}
    BY <1>1, <1>4
  <2>2. UNION {Fields(records)} = Fields(records)
    OBVIOUS
  <2> QED BY <1>1, <1>2, <2>1, <2>2 DEF flat
<1> QED BY <1>3, <1>4

\* what is left of a sequence without its last member
LEMMA FrontIsShorter ==
    ASSUME NEW S, NEW s \in Seq(S), s # <<>>
    PROVE  /\ Len(s) \in Nat /\ Len(s) # 0 /\ Len(Front(s)) = Len(s) - 1
           /\ Front(s) \in Seq(S) /\ \A i \in 1..Len(s) - 1 : Front(s)[i] = s[i]
<1> DEFINE n == Len(s)
<1>1. n \in Nat /\ n # 0
  OBVIOUS
<1>2. \A i \in 1..n : s[i] \in S
  OBVIOUS
<1>3. Front(s) = SubSeq(s, 1, n - 1)
  BY DEF Front
<1> HIDE DEF n
<1>4. \A i \in 1..n - 1 : s[i] \in S
  BY <1>1, <1>2
<1>5. /\ SubSeq(s, 1, n - 1) \in Seq(S)
      /\ Len(SubSeq(s, 1, n - 1)) = IF 1 <= n - 1 THEN n - 1 - 1 + 1 ELSE 0
      /\ \A i \in 1..n - 1 - 1 + 1 : SubSeq(s, 1, n - 1)[i] = s[1 + i - 1]
  <2>1. n - 1 \in Int /\ 1 \in Int
    BY <1>1
  <2> QED BY ONLY <1>4, <2>1, SubSeqProperties
<1> DEFINE m == Len(Front(s))
           g == Front(s)
<1>6. /\ g \in Seq(S) /\ m = IF 1 <= n - 1 THEN n - 1 - 1 + 1 ELSE 0
      /\ \A i \in 1..n - 1 - 1 + 1 : g[i] = s[1 + i - 1]
  BY ONLY <1>3, <1>5
<1> HIDE DEF m, g
<1>7. m = n - 1
  BY ONLY <1>1, <1>6
<1>8. \A i \in 1..n - 1 : g[i] = s[i]
  <2>1. n - 1 - 1 + 1 = n - 1
    BY ONLY <1>1
  <2>2. \A i \in 1..n - 1 : 1 + i - 1 = i
    BY ONLY <1>1
  <2> QED BY ONLY <1>6, <2>1, <2>2
<1> QED BY <1>1, <1>6, <1>7, <1>8 DEF n, m, g

LEMMA HintOfRecords ==
    ASSUME NEW o
    PROVE  /\ o.container \notin DataFormats => StructuredHint(o) = "none"
           /\ o.container \in {"json", "xml"} => StructuredHint(o) = o.container
           /\ o.container \in {"csv", "yaml"} =>
                 StructuredHint(o) = IF BeginsLikeJson(o) THEN "json"
                                     ELSE IF o.ext \in DataFormats THEN o.ext ELSE "none"
<1>1. ASSUME o.container \notin DataFormats PROVE StructuredHint(o) = "none"
  <2>1. o.container \notin {"json", "xml"} /\ ~BeginsLikeJson(o)
    BY <1>1 DEF DataFormats, BeginsLikeJson
  <2> QED BY ONLY <1>1, <2>1, Zenon DEF StructuredHint
<1>2. ASSUME o.container \in {"json", "xml"} PROVE StructuredHint(o) = o.container
  <2>1. o.container \in DataFormats /\ ~BeginsLikeJson(o)
    BY <1>2 DEF DataFormats, BeginsLikeJson
  <2> QED BY ONLY <1>2, <2>1, Zenon DEF StructuredHint
<1>3. ASSUME o.container \in {"csv", "yaml"}
      PROVE  StructuredHint(o) = IF BeginsLikeJson(o) THEN "json"
                                 ELSE IF o.ext \in DataFormats THEN o.ext ELSE "none"
  <2>1. o.container \in DataFormats /\ o.container \notin {"json", "xml"}
    BY <1>3 DEF DataFormats
  <2>2. ASSUME BeginsLikeJson(o) PROVE StructuredHint(o) = "json"
    BY ONLY <2>1, <2>2, Zenon DEF StructuredHint
  <2>3. ASSUME ~BeginsLikeJson(o)
        PROVE  StructuredHint(o) = IF o.ext \in DataFormats THEN o.ext ELSE "none"
    BY ONLY <2>1, <2>3, Zenon DEF StructuredHint
  <2> QED BY <2>2, <2>3
<1> QED BY <1>1, <1>2, <1>3

\* a file with records in it is read as what it is
LEMMA ReadAsItIs ==
    ASSUME NEW o, InspectStructured(o) = "accepted"
    PROVE  /\ o.container \in DataFormats
           /\ Body(o).records # <<>> => StructuredHint(o) = o.container
<1> DEFINE hint == StructuredHint(o)
           readable == \/ hint = o.container
                       \/ hint = "json" /\ o.container = "yaml" /\ Body(o).records = <<>>
<1>1. InspectStructured(o) = IF hint = "none" THEN "Unsupported"
                             ELSE IF ~readable THEN "InputInvalid" ELSE FlawRefusal(o)
  BY DEF InspectStructured
<1>2. hint # "none"
  BY <1>1
<1>3. o.container \in DataFormats
  BY <1>2, HintOfRecords
<1>4. readable
  BY <1>1, <1>2
<1> QED BY <1>3, <1>4

LEMMA FlawlessIsRead ==
    ASSUME NEW o, Body(o).flaw = "none"
    PROVE  FlawRefusal(o) = "accepted"
BY Zenon DEF FlawRefusal

\* records whose loss was not agreed to are written as they were
LEMMA RecordsAreWritten ==
    ASSUME NEW f, NEW x, NEW e, NEW o, Recorded(f, x), o = StructuredOutput(f, x, e)
    PROVE  /\ DOMAIN Body(o).records = DOMAIN Body(f).records
           /\ Len(Body(o).records) = Len(Body(f).records)
           /\ Fields(Body(o).records) = Fields(Body(f).records)
           /\ x.loss # "lossy" => Body(o).records = Body(f).records
           /\ \E S : Body(f).records \in Seq(S)
           /\ \E S : Body(o).records \in Seq(S)
<1> DEFINE before == Body(f).records
           after == Body(o).records
           S == ToSet(before)
           T == ToSet(after)
<1>0. f.container \in DataFormats /\ RecordFile(f)
  BY ReadAsItIs DEF Recorded
<1>1. before \in Seq(S)
  BY <1>0 DEF RecordFile
<1>2. /\ x.target \in Flat => after = FlatRecords(before)
      /\ x.target \notin Flat => after = before
  BY ONLY RecordsOfOutput, o = StructuredOutput(f, x, e)
<1>3. DOMAIN after = DOMAIN before /\ Fields(after) = Fields(before)
  BY <1>2, FlatFields
<1>4. x.loss # "lossy" => after = before
  <2>1. x.loss # "lossy" => ~(x.target \in Flat /\ ScalarsAreLost(before))
    BY DEF Recorded
  <2>2. ~ScalarsAreLost(before) => FlatRecords(before) = before
    <3> HIDE DEF S
    <3>1. before = Body(f).records
      OBVIOUS
    <3> HIDE DEF before
    <3> QED BY ONLY <1>0, <3>1, FlatIsTheSame
  <2> HIDE DEF before, after
  <2> QED BY ONLY <1>2, <2>1, <2>2
<1>5. after = [i \in DOMAIN after |-> after[i]]
  <2> HIDE DEF S
  <2>1. before = [i \in DOMAIN before |-> before[i]]
    BY ONLY <1>1
  <2>2. FlatRecords(before) = [i \in DOMAIN FlatRecords(before) |-> FlatRecords(before)[i]]
    BY DEF FlatRecords
  <2> HIDE DEF before, after
  <2> QED BY ONLY <1>2, <2>1, <2>2
<1>6. \A i \in DOMAIN after : after[i] \in T
  BY DEF ToSet
<1> HIDE DEF S, T, before, after
<1>7. Len(before) \in Nat /\ DOMAIN before = 1..Len(before)
  BY ONLY <1>1
<1>8. Len(after) = Len(before)
  BY ONLY <1>3, <1>7
<1>9. after \in Seq(T)
  <2> DEFINE n == Len(before)
  <2>1. n \in Nat /\ after = [i \in 1..n |-> after[i]] /\ \A i \in 1..n : after[i] \in T
    BY ONLY <1>3, <1>5, <1>6, <1>7
  <2> HIDE DEF n
  <2> QED BY ONLY <2>1
<1> QED BY <1>1, <1>3, <1>4, <1>8, <1>9 DEF before, after

LEMMA RecordsHonest ==
    ASSUME NEW f, NEW x, NEW e, NEW o, Recorded(f, x), o = StructuredOutput(f, x, e), e = x.target,
           ValidateStructured(f, o, x) = "fail"
    PROVE  DataHonestGaps(f, x)
<1> DEFINE before == Body(f).records
           after == Body(o).records
<1>1. SUFFICES ASSUME ~DataHonestGaps(f, x) PROVE FALSE
  OBVIOUS
<1>2. /\ x.target = "csv" => "[x" \notin Fields(before) /\ Fields(before) # {}
      /\ x.target = "yaml" => before # <<>>
  BY <1>1 DEF DataHonestGaps, Recorded
<1>3. /\ Len(after) = Len(before) /\ Fields(after) = Fields(before)
      /\ x.loss # "lossy" => after = before
  BY RecordsAreWritten
<1>4. /\ o.container = x.target /\ o.ext = x.target
      /\ (x.target = "csv" /\ Fields(before) = {}) \/ Body(o).flaw = "none"
      /\ x.target \notin Flat => after = before
  BY ONLY RecordsOfOutput, o = StructuredOutput(f, x, e), e = x.target
<1>5. Body(o).flaw = "none"
  BY <1>2, <1>4
<1>6. ~BeginsLikeJson(o)
  <2>1. x.target = "yaml" => after = before
    BY <1>4 DEF Flat
  <2> QED BY <1>2, <1>3, <1>4, <2>1 DEF BeginsLikeJson
<1>7. x.target \in DataFormats
  BY DEF Recorded
<1>8. StructuredHint(o) = x.target
  BY <1>4, <1>6, <1>7, HintOfRecords DEF DataFormats
<1>9. InspectStructured(o) = "accepted"
  <2>1. x.target # "none"
    BY <1>7 DEF DataFormats
  <2>2. FlawRefusal(o) = "accepted"
    BY <1>5, FlawlessIsRead
  <2> QED BY <1>4, <1>8, <2>1, <2>2 DEF InspectStructured
<1> QED BY <1>3, <1>8, <1>9 DEF ValidateStructured

LEMMA RecordsCaught ==
    ASSUME NEW f, NEW x, NEW e, NEW o, NEW y, NEW d \in DataDamages, Recorded(f, x),
           o = StructuredOutput(f, x, e), y = DataDamage(f, o, d, x), y # o,
           ValidateStructured(f, y, x) # "fail"
    PROVE  UncheckedData(f, y, o, x)
<1> DEFINE before == Body(f).records
           after == Body(o).records
           new == Body(y).records
           damaged == [after EXCEPT ![1] = [k \in DOMAIN after[1] |->
                                              [kind |-> "string", text |-> "other"]]]
<1>1. /\ Len(after) = Len(before) /\ DOMAIN after = DOMAIN before /\ \E S : after \in Seq(S)
      /\ x.loss # "lossy" => after = before
      /\ \E S : before \in Seq(S)
  BY RecordsAreWritten
<1>2. /\ InspectStructured(y) = "accepted" /\ StructuredHint(y) = x.target
      /\ Len(before) = Len(new) /\ Fields(before) = Fields(new)
      /\ before = new \/ x.loss = "lossy"
  BY DEF ValidateStructured
<1>3. x.lane # "Archive" /\ x.lane = "Structured"
  BY DEF Recorded
<1>4. o = [container |-> x.target, ext |-> e,
           body |-> << [records |-> after, flaw |-> Body(o).flaw] >>]
  BY ONLY RecordsOfOutput, o = StructuredOutput(f, x, e)
<1>5. after # <<>>
  <2>1. after = <<>> => y = o
    <3>1. after = Body(o)["records"]
      BY DEF Body
    <3>2. after = <<>> => DataDamage(f, o, d, x) = o
      BY ONLY <1>3, <3>1, Zenon DEF DataDamage
    <3> QED BY <3>2
  <2> QED BY <2>1
<1>6. /\ d = "lost" => y = [o EXCEPT !.body[1]["records"] = Front(@)]
      /\ d = "altered" =>
            y = [o EXCEPT !.body[1]["records"][1] =
                    [k \in DOMAIN @ |-> [kind |-> "string", text |-> "other"]]]
      /\ d = "wrong format" => y = [o EXCEPT !.container = f.container]
  <2>1. Body(o)["records"] # <<>>
    BY <1>5
  <2>2. y = DataDamage(f, o, d, x)
    OBVIOUS
  <2>3. ASSUME d = "lost" PROVE y = [o EXCEPT !.body[1]["records"] = Front(@)]
    BY ONLY <1>3, <2>1, <2>2, <2>3, Zenon DEF DataDamage
  <2>4. ASSUME d = "altered"
        PROVE  y = [o EXCEPT !.body[1]["records"][1] =
                    [k \in DOMAIN @ |-> [kind |-> "string", text |-> "other"]]]
    BY ONLY <1>3, <2>1, <2>2, <2>4, Zenon DEF DataDamage
  <2>5. ASSUME d = "wrong format" PROVE y = [o EXCEPT !.container = f.container]
    BY ONLY <1>3, <2>1, <2>2, <2>5, Zenon DEF DataDamage
  <2> QED BY <2>3, <2>4, <2>5
<1> DEFINE flaw == Body(o).flaw
           alter(z) == [k \in DOMAIN z |-> [kind |-> "string", text |-> "other"]]
<1>7. PICK S : after \in Seq(S)
  BY <1>1
<1>8. CASE d = "lost"
  <2> HIDE DEF after, flaw
  <2>1. o = [container |-> x.target, ext |-> e, body |-> << [records |-> after, flaw |-> flaw] >>]
    BY ONLY <1>4 DEF flaw
  <2>2. y = [o EXCEPT !.body[1]["records"] = Front(@)]
    BY <1>6, <1>8
  <2>3. new = Front(after)
    BY ONLY <2>1, <2>2 DEF Body
  <2>4. Len(after) \in Nat /\ Len(after) # 0
    BY ONLY <1>5, <1>7
  <2>5. Len(Front(after)) = Len(after) - 1
    BY ONLY <1>5, <1>7, FrontIsShorter
  <2> HIDE DEF new, before
  <2> DEFINE n == Len(after)
             front == Len(Front(after))
  <2>6. n \in Nat /\ front = n - 1 /\ Len(new) = front /\ Len(before) = n /\ Len(before) = Len(new)
    BY ONLY <1>1, <1>2, <2>3, <2>4, <2>5
  <2> HIDE DEF n, front
  <2> QED BY ONLY <2>6
<1>9. CASE d = "altered"
  <2>1. before # new => x.loss = "lossy"
    BY <1>2
  <2>2. y.container = o.container
    <3> HIDE DEF after, flaw
    <3>1. y = [o EXCEPT !.body[1]["records"][1] =
                    [k \in DOMAIN @ |-> [kind |-> "string", text |-> "other"]]]
      BY <1>6, <1>9
    <3> QED BY ONLY <1>4, <3>1
  <2>3. before = new => x.loss = "lossy"
    <3>1. SUFFICES ASSUME new = after PROVE FALSE
      BY <1>1
    <3> HIDE DEF after, flaw
    <3>2. o = [container |-> x.target, ext |-> e, body |-> << [records |-> after, flaw |-> flaw] >>]
      BY ONLY <1>4 DEF flaw
    <3>3. y = [o EXCEPT !.body[1]["records"][1] =
                    [k \in DOMAIN @ |-> [kind |-> "string", text |-> "other"]]]
      BY <1>6, <1>9
    <3> DEFINE other == [after EXCEPT ![1] = [k \in DOMAIN @ |-> [kind |-> "string", text |-> "other"]]]
    <3>4. y = [o EXCEPT !.body[1]["records"] = other]
      BY ONLY <3>2, <3>3
    <3> HIDE DEF other
    <3>5. /\ y = [container |-> x.target, ext |-> e,
                  body |-> << [records |-> other, flaw |-> flaw] >>]
          /\ new = other
      BY ONLY <3>2, <3>4 DEF Body
    <3> QED BY ONLY <3>1, <3>2, <3>5, y # o
  <2> QED BY <1>2, <1>3, <2>1, <2>2, <2>3 DEF UncheckedData
<1>10. CASE d = "wrong format"
  <2>1. y = [o EXCEPT !.container = f.container]
    BY <1>6, <1>10
  <2> HIDE DEF after, flaw
  <2> DEFINE c == f.container
             g == x.target
             b == << [records |-> after, flaw |-> flaw] >>
  <2>2. o = [container |-> g, ext |-> e, body |-> b] /\ y = [o EXCEPT !.container = c]
    BY ONLY <1>4, <2>1 DEF flaw
  <2> HIDE DEF c, g, b
  <2>3. y.container = c /\ y.body = b /\ o.body = b /\ (c = g => y = o)
    BY ONLY <2>2
  <2>4. new = after
    BY ONLY <2>3 DEF Body, after
  <2>5. StructuredHint(y) = y.container
    BY <1>2, <1>5, <2>4, ReadAsItIs
  <2> QED BY <1>2, <2>3, <2>5 DEF g
<1> QED BY <1>8, <1>9, <1>10 DEF DataDamages

-----------------------------------------------------------------------------
(* Archives.                                                                *)

\* the places of the members of one sequence in another
Places(n) == Bijection(1..n, 1..n)

\* a function that gives no member of a finite set twice gives each once
LEMMA OneToOne ==
    ASSUME NEW n \in Nat, NEW p \in [1..n -> 1..n], \A i, k \in 1..n : p[i] = p[k] => i = k
    PROVE  p \in Places(n)
<1>1. IsFiniteSet(1..n)
  BY FS_Interval
<1>2. p \in Injection(1..n, 1..n)
  BY DEF Injection, IsInjective
<1>3. p \in Surjection(1..n, 1..n)
  BY ONLY <1>1, <1>2, FS_Injection
<1> QED BY <1>2, <1>3 DEF Places, Bijection

\* two parts of a sequence, one after the other
Apart(v, s, I, J) == I \cup J = DOMAIN s /\ I \cap J = {} /\ v = Pick(s, I) \o Pick(s, J)

\* Two parts of a sequence that have all of it between them, one after the other, are the
\* sequence in another order.
LEMMA Rearranged ==
    ASSUME NEW S, NEW s \in Seq(S), NEW I, NEW J, NEW v, Apart(v, s, I, J)
    PROVE  /\ v \in Seq(S) /\ Len(v) = Len(s) /\ Len(s) \in Nat
           /\ \E p \in Places(Len(s)) : \A i \in 1..Len(s) : v[i] = s[p[i]]
<1> DEFINE n == Len(s)
           a == Cardinality(I)
           b == Cardinality(J)
           p == [i \in 1..n |-> IF i <= a THEN Nth(I, i) ELSE Nth(J, i - a)]
           first == Pick(s, I)
           second == Pick(s, J)
<1>0. I \cup J = DOMAIN s /\ I \cap J = {} /\ v = Pick(s, I) \o Pick(s, J)
  BY DEF Apart
<1>1. n \in Nat /\ DOMAIN s = 1..n
  OBVIOUS
<1> HIDE DEF n
<1>2. I \in SUBSET DOMAIN s /\ J \in SUBSET DOMAIN s
  BY <1>0
<1>3. /\ first \in Seq(S) /\ Len(first) = a /\ a \in Nat
      /\ \A k \in 1..a : Nth(I, k) \in I /\ first[k] = s[Nth(I, k)]
  BY ONLY <1>2, s \in Seq(S), PickedMembers
<1>4. /\ second \in Seq(S) /\ Len(second) = b /\ b \in Nat
      /\ \A k \in 1..b : Nth(J, k) \in J /\ second[k] = s[Nth(J, k)]
  BY ONLY <1>2, s \in Seq(S), PickedMembers
<1>5. IsFiniteSet(I) /\ IsFiniteSet(J) /\ I \subseteq Nat /\ J \subseteq Nat
  <2>1. IsFiniteSet(1..n) /\ 1..n \subseteq Nat
    BY <1>1, FS_Interval
  <2> QED BY <1>1, <1>2, <2>1, FS_Subset
<1>6. a + b = n
  <2>1. Cardinality(I \cup J) = a + b - Cardinality(I \cap J)
    BY <1>5, FS_Union
  <2>2. Cardinality(I \cap J) = 0
    BY <1>0, FS_EmptySet
  <2>3. Cardinality(I \cup J) = n
    <3> DEFINE c == Cardinality(1..n)
    <3>1. c = IF 1 > n THEN 0 ELSE n - 1 + 1
      BY <1>1, FS_Interval
    <3>2. I \cup J = 1..n
      BY <1>0, <1>1
    <3> HIDE DEF c
    <3>3. c = n
      BY ONLY <1>1, <3>1
    <3> QED BY <3>2, <3>3 DEF c
  <2> HIDE DEF a, b
  <2> QED BY <1>1, <1>3, <1>4, <2>1, <2>2, <2>3
<1> HIDE DEF first, second, a, b
<1>7. /\ v \in Seq(S) /\ Len(v) = a + b
      /\ \A k \in 1..a : v[k] = first[k]
      /\ \A k \in 1..b : v[a + k] = second[k]
  <2>1. v = first \o second
    BY <1>0 DEF first, second
  <2>2. first \in Seq(S) /\ second \in Seq(S)
    BY <1>3, <1>4
  <2>3. /\ v \in Seq(S) /\ Len(v) = Len(first) + Len(second)
        /\ \A k \in 1..Len(first) : v[k] = first[k]
        /\ \A k \in 1..Len(second) : v[Len(first) + k] = second[k]
    BY ONLY <2>1, <2>2, Joined
  <2> QED BY ONLY <1>3, <1>4, <2>3
<1>8. ASSUME NEW i \in 1..n
      PROVE  /\ i <= a => i \in 1..a /\ p[i] = Nth(I, i)
             /\ ~(i <= a) => i - a \in 1..b /\ p[i] = Nth(J, i - a) /\ a + (i - a) = i
  BY <1>1, <1>3, <1>4, <1>6
<1>9. ASSUME NEW i \in 1..n
      PROVE  /\ p[i] \in 1..n /\ v[i] = s[p[i]]
             /\ i <= a => p[i] \in I
             /\ ~(i <= a) => p[i] \in J
  <2> HIDE DEF p
  <2>1. CASE i <= a
    <3>1. p[i] = Nth(I, i) /\ Nth(I, i) \in I /\ v[i] = s[Nth(I, i)]
      BY ONLY <1>3, <1>7, <1>8, <2>1, i \in 1..n
    <3> QED BY <1>1, <1>2, <2>1, <3>1
  <2>2. CASE ~(i <= a)
    <3> DEFINE k == i - a
    <3>1. k \in 1..b /\ p[i] = Nth(J, k) /\ a + k = i
      BY <1>8, <2>2
    <3> HIDE DEF k
    <3>2. p[i] = Nth(J, k) /\ Nth(J, k) \in J /\ v[i] = s[Nth(J, k)]
      BY ONLY <1>4, <1>7, <3>1
    <3> QED BY <1>1, <1>2, <2>2, <3>2
  <2> QED BY <2>1, <2>2
<1>10. \A i, k \in 1..n : p[i] = p[k] => i = k
  <2> HIDE DEF p
  <2> SUFFICES ASSUME NEW i \in 1..n, NEW k \in 1..n, p[i] = p[k] PROVE i = k
    OBVIOUS
  <2>1. i <= a <=> k <= a
    BY <1>0, <1>9
  <2>2. CASE i <= a
    <3>1. i \in 1..a /\ k \in 1..a /\ Nth(I, i) = Nth(I, k)
      BY <1>8, <2>1, <2>2
    <3>2. Rank(I, Nth(I, i)) = i /\ Rank(I, Nth(I, k)) = k
      BY <1>5, <3>1, NthIsThere DEF a
    <3> QED BY ONLY <3>1, <3>2
  <2>3. CASE ~(i <= a)
    <3> DEFINE j == i - a
               l == k - a
    <3>1. j \in 1..b /\ l \in 1..b /\ Nth(J, j) = Nth(J, l) /\ a + j = i /\ a + l = k
      BY <1>8, <2>1, <2>3
    <3> HIDE DEF j, l
    <3>2. Rank(J, Nth(J, j)) = j /\ Rank(J, Nth(J, l)) = l
      BY <1>5, <3>1, NthIsThere DEF b
    <3> QED BY ONLY <3>1, <3>2
  <2> QED BY <2>2, <2>3
<1>11. p \in [1..n -> 1..n]
  BY <1>9
<1>12. \A i \in 1..n : v[i] = s[p[i]]
  BY <1>9
<1> HIDE DEF p
<1>13. p \in Places(n)
  BY ONLY <1>1, <1>10, <1>11, OneToOne
<1> QED BY <1>1, <1>6, <1>7, <1>12, <1>13 DEF n

\* How often each line is in an inventory does not depend on the order of its lines.
Tally(l) == [x \in ToSet(l) |-> Cardinality({i \in DOMAIN l : l[i] = x})]

LEMMA SameTally ==
    ASSUME NEW n \in Nat, NEW l, NEW m, DOMAIN l = 1..n, DOMAIN m = 1..n,
           NEW p \in Places(n), \A j \in 1..n : m[j] = l[p[j]]
    PROVE  Tally(l) = Tally(m)
<1>1. /\ \A j \in 1..n : p[j] \in 1..n
      /\ \A i, k \in 1..n : p[i] = p[k] => i = k
      /\ \A i \in 1..n : \E j \in 1..n : p[j] = i
  BY DEF Places, Bijection, Injection, Surjection, IsInjective
<1>2. ToSet(l) = ToSet(m)
  <2>1. /\ \A z : z \in ToSet(l) <=> \E i \in 1..n : z = l[i]
        /\ \A z : z \in ToSet(m) <=> \E i \in 1..n : z = m[i]
    BY DEF ToSet
  <2>2. ASSUME NEW z \in ToSet(l) PROVE z \in ToSet(m)
    <3>1. PICK i \in 1..n : z = l[i]
      BY <2>1
    <3>2. PICK j \in 1..n : p[j] = i
      BY <1>1
    <3>3. z = m[j]
      BY <3>1, <3>2
    <3> QED BY <2>1, <3>3
  <2>3. ASSUME NEW z \in ToSet(m) PROVE z \in ToSet(l)
    <3>1. PICK j \in 1..n : z = m[j]
      BY <2>1
    <3>2. p[j] \in 1..n /\ z = l[p[j]]
      BY <1>1, <3>1
    <3> QED BY <2>1, <3>2
  <2> QED BY ONLY <2>2, <2>3
<1>3. ASSUME NEW x
      PROVE  Cardinality({i \in DOMAIN l : l[i] = x}) = Cardinality({i \in DOMAIN m : m[i] = x})
  <2> DEFINE A == {i \in 1..n : l[i] = x}
             B == {j \in 1..n : m[j] = x}
             g == [j \in B |-> p[j]]
  <2>1. g \in [B -> A] /\ \A i, k \in B : g[i] = g[k] => i = k
    BY <1>1
  <2>2. \A i \in A : \E j \in B : g[j] = i
    <3> SUFFICES ASSUME NEW i \in A PROVE \E j \in B : g[j] = i
      OBVIOUS
    <3>1. PICK j \in 1..n : p[j] = i
      BY <1>1
    <3>2. j \in B
      BY <3>1
    <3> QED BY <3>1, <3>2
  <2>3. IsFiniteSet(B)
    <3>1. IsFiniteSet(1..n) /\ B \in SUBSET (1..n)
      BY FS_Interval
    <3> HIDE DEF B
    <3> QED BY <3>1, FS_Subset
  <2> HIDE DEF A, B, g
  <2>4. g \in Bijection(B, A)
    BY <2>1, <2>2 DEF Bijection, Injection, Surjection, IsInjective
  <2>5. Cardinality(A) = Cardinality(B)
    BY <2>3, <2>4, FS_Bijection DEF ExistsBijection
  <2> QED BY <2>5 DEF A, B
<1> QED BY <1>2, <1>3 DEF Tally

\* Nor do the bytes of its entries.
LEMMA BytesAreFinite ==
    ASSUME NEW n \in Nat, NEW entries, DOMAIN entries = 1..n,
           \A i \in 1..n : entries[i].size \in Nat
    PROVE  IsFiniteSet(Bytes(entries))
<1> DEFINE parts == {{i} \X (1..entries[i].size) : i \in 1..n}
           part == [i \in 1..n |-> {i} \X (1..entries[i].size)]
<1>1. IsFiniteSet(1..n)
  BY FS_Interval
<1>2. \A z \in parts : IsFiniteSet(z)
  <2> SUFFICES ASSUME NEW i \in 1..n PROVE IsFiniteSet({i} \X (1..entries[i].size))
    OBVIOUS
  <2> DEFINE k == entries[i].size
  <2>1. k \in Nat
    OBVIOUS
  <2> HIDE DEF k
  <2>2. IsFiniteSet({i}) /\ IsFiniteSet(1..k)
    <3>1. IsFiniteSet({i})
      BY FS_Singleton
    <3>2. IsFiniteSet(1..k)
      BY <2>1, FS_Interval
    <3> QED BY <3>1, <3>2
  <2>3. IsFiniteSet({i} \X (1..k))
    BY ONLY <2>2, FS_Product
  <2> QED BY <2>3 DEF k
<1>3. part \in Surjection(1..n, parts)
  BY DEF Surjection
<1>4. Bytes(entries) = UNION parts
  BY DEF Bytes
<1> HIDE DEF part, parts
<1>5. IsFiniteSet(parts)
  BY <1>1, <1>3, FS_Surjection
<1> QED BY <1>2, <1>4, <1>5, FS_UNION

LEMMA SameBytes ==
    ASSUME NEW n \in Nat, NEW entries, NEW w, DOMAIN entries = 1..n, DOMAIN w = 1..n,
           \A i \in 1..n : entries[i].size \in Nat,
           NEW p \in Places(n), \A j \in 1..n : w[j].size = entries[p[j]].size
    PROVE  /\ TotalSize(w) \in Nat /\ TotalSize(entries) \in Nat
           /\ TotalSize(w) <= TotalSize(entries)
<1> DEFINE A == Bytes(entries)
           B == Bytes(w)
           g == [z \in B |-> <<p[z[1]], z[2]>>]
<1>1. /\ \A j \in 1..n : p[j] \in 1..n
      /\ \A i, k \in 1..n : p[i] = p[k] => i = k
  BY DEF Places, Bijection, Injection, Surjection, IsInjective
<1>2. /\ \A i \in 1..n : \A k \in 1..entries[i].size : <<i, k>> \in A
      /\ \A z \in B : \E i \in 1..n : \E k \in 1..w[i].size : z = <<i, k>>
  BY DEF Bytes
<1>3. IsFiniteSet(A)
  BY BytesAreFinite
<1> HIDE DEF A, B
<1>4. \A z \in B : <<p[z[1]], z[2]>> \in A
  <2> SUFFICES ASSUME NEW z \in B PROVE <<p[z[1]], z[2]>> \in A
    OBVIOUS
  <2>0. PICK i \in 1..n : \E k \in 1..w[i].size : z = <<i, k>>
    BY <1>2
  <2>1. PICK k \in 1..w[i].size : z = <<i, k>>
    BY <2>0
  <2>2. k \in 1..entries[p[i]].size /\ p[i] \in 1..n
    BY <1>1, <2>1
  <2>3. <<p[i], k>> \in A
    BY <1>2, <2>2
  <2> QED BY <2>1, <2>3
<1>5. \A y, z \in B : g[y] = g[z] => y = z
  <2> SUFFICES ASSUME NEW y \in B, NEW z \in B, g[y] = g[z] PROVE y = z
    OBVIOUS
  <2>0. PICK i \in 1..n, j \in 1..n :
           (\E k \in 1..w[i].size : y = <<i, k>>) /\ (\E l \in 1..w[j].size : z = <<j, l>>)
    BY <1>2
  <2>1. PICK k \in 1..w[i].size : y = <<i, k>>
    BY <2>0
  <2>2. PICK l \in 1..w[j].size : z = <<j, l>>
    BY <2>0
  <2>3. p[i] = p[j] /\ k = l
    BY <2>1, <2>2
  <2> QED BY <1>1, <2>1, <2>2, <2>3
<1>6. g \in [B -> A]
  BY <1>4
<1> HIDE DEF g
<1>7. g \in Injection(B, A)
  BY <1>5, <1>6 DEF Injection, IsInjective
<1>8. IsFiniteSet(B) /\ Cardinality(B) <= Cardinality(A)
  BY <1>3, <1>7, FS_Injection
<1>9. Cardinality(A) \in Nat /\ Cardinality(B) \in Nat
  BY <1>3, <1>8, FS_CardinalityType
<1> QED BY <1>8, <1>9 DEF TotalSize, A, B

Entry == [name : STRING, kind : EntryKinds, size : Nat, data : STRING]

\* the entries of an archive in the order in which its reader gives them
Laid(f, x) ==
    IF x.arguments.source = "7z" THEN Visited(Body(f), x.target = "zip") ELSE Body(f).entries

LEMMA EntriesOfOutput ==
    ASSUME NEW f, NEW x, NEW e, NEW o, o = ArchiveOutput(f, x, e)
    PROVE  /\ o.container = x.target /\ o.ext = e
           /\ Body(o).entries = [i \in DOMAIN Laid(f, x) |->
                                   Repacked(Laid(f, x)[i], x.arguments.source, x.target)]
           /\ o = [container |-> x.target, ext |-> e,
                   body |-> << [entries |-> Body(o).entries, solid |-> Body(o).solid] >>]
BY DEF ArchiveOutput, Body, Laid

\* what the first of a sequence is, if there is one
LEMMA FirstOnly ==
    ASSUME NEW S, NEW s \in Seq(S), NEW t, t = SubSeq(s, 1, IF s = <<>> THEN 0 ELSE 1)
    PROVE  /\ t \in Seq(S) /\ Len(t) \in Nat /\ Len(s) \in Nat /\ Len(t) <= Len(s)
           /\ Len(s) <= 1 => t = s
<1> DEFINE n == Len(s)
           m == IF s = <<>> THEN 0 ELSE 1
<1>1. n \in Nat /\ (s = <<>> <=> n = 0) /\ \A i \in 1..n : s[i] \in S
  OBVIOUS
<1>2. s = [i \in 1..n |-> s[i]]
  OBVIOUS
<1> HIDE DEF n
<1>3. m \in Nat /\ m <= n /\ (n <= 1 => m = n)
  BY <1>1
<1> HIDE DEF m
<1>4. \A i \in 1..m : s[i] \in S
  BY <1>1, <1>3
<1>5. /\ SubSeq(s, 1, m) \in Seq(S)
      /\ Len(SubSeq(s, 1, m)) = IF 1 <= m THEN m - 1 + 1 ELSE 0
      /\ \A i \in 1..m - 1 + 1 : SubSeq(s, 1, m)[i] = s[1 + i - 1]
  <2>1. m \in Int /\ 1 \in Int
    BY <1>3
  <2> QED BY ONLY <1>4, <2>1, SubSeqProperties
<1>6. t = SubSeq(s, 1, m)
  BY DEF m
<1> DEFINE k == Len(t)
<1>7. t \in Seq(S) /\ k = IF 1 <= m THEN m - 1 + 1 ELSE 0
  BY ONLY <1>5, <1>6
<1> HIDE DEF k
<1>8. k = m
  BY ONLY <1>3, <1>7
<1>9. \A i \in 1..m : t[i] = s[i]
  <2>1. m - 1 + 1 = m /\ \A i \in 1..m : 1 + i - 1 = i
    BY ONLY <1>3
  <2> QED BY ONLY <1>5, <1>6, <2>1
<1>10. t = [i \in 1..m |-> t[i]]
  BY ONLY <1>7, <1>8 DEF k
<1>11. n <= 1 => t = s
  BY ONLY <1>2, <1>3, <1>9, <1>10
<1> QED BY <1>1, <1>3, <1>7, <1>8, <1>11 DEF n, k

\* an archive of which the callback leaves entries out
Crammed(f, x) ==
    LET es == Body(f).entries
    IN /\ x.arguments.source = "7z" /\ x.target = "zip"
       /\ \/ Body(f).solid /\ Cardinality({i \in DOMAIN es : es[i].size > 0}) > 1
          \/ Cardinality({i \in DOMAIN es : es[i].size = 0}) > 1

LEMMA LaidEntries ==
    ASSUME NEW f, NEW x, Body(f).entries \in Seq(Entry)
    PROVE  LET es == Body(f).entries
               v == Laid(f, x)
           IN /\ v \in Seq(Entry) /\ Len(v) \in Nat /\ Len(es) \in Nat /\ Len(v) <= Len(es)
              /\ \/ Crammed(f, x)
                 \/ /\ Len(v) = Len(es)
                    /\ \E p \in Places(Len(es)) : \A i \in 1..Len(es) : v[i] = es[p[i]]
<1> DEFINE es == Body(f).entries
           v == Laid(f, x)
<1>0. es = Body(f).entries /\ es \in Seq(Entry) /\ v = Laid(f, x)
  OBVIOUS
<1> HIDE DEF es, v
<1> DEFINE I == {i \in DOMAIN es : es[i].size > 0}
           J == {i \in DOMAIN es : es[i].size = 0}
           A == Pick(es, I)
           B == Pick(es, J)
           first(s) == SubSeq(s, 1, IF s = <<>> THEN 0 ELSE 1)
           n == Len(es)
<1>1. n \in Nat /\ DOMAIN es = 1..n /\ \A i \in 1..n : es[i] \in Entry
  <2> DEFINE E == Entry
  <2> HIDE DEF E
  <2>1. es \in Seq(E)
    BY <1>0 DEF E
  <2>2. n \in Nat /\ DOMAIN es = 1..n /\ \A i \in 1..n : es[i] \in E
    BY ONLY <2>1
  <2> QED BY <2>2 DEF E
<1>2. \A i \in 1..n : es[i].size \in Nat
  BY <1>1 DEF Entry
<1>3. v = IF x.arguments.source # "7z" THEN es
          ELSE IF x.target = "zip" THEN (IF Body(f).solid THEN first(A) ELSE A) \o first(B)
          ELSE A \o B
  BY <1>0 DEF Laid, Visited
<1>4. I \cup J = DOMAIN es /\ I \cap J = {}
  <2>1. \A i \in 1..n : es[i].size > 0 <=> es[i].size # 0
    BY <1>2
  <2> QED BY <1>1, <2>1
<1> HIDE DEF I, J
<1>5. /\ A \in Seq(Entry) /\ Len(A) = Cardinality(I) /\ Cardinality(I) \in Nat
      /\ B \in Seq(Entry) /\ Len(B) = Cardinality(J) /\ Cardinality(J) \in Nat
  <2>1. I \in SUBSET DOMAIN es /\ J \in SUBSET DOMAIN es
    BY <1>4
  <2> QED BY ONLY <2>1, <1>0, PickedMembers
<1>6. /\ A \o B \in Seq(Entry) /\ Len(A \o B) = n
      /\ \E p \in Places(n) : \A i \in 1..n : (A \o B)[i] = es[p[i]]
  <2> DEFINE w == A \o B
  <2>1. Apart(w, es, I, J)
    BY <1>4 DEF Apart
  <2> HIDE DEF w
  <2>2. /\ w \in Seq(Entry) /\ Len(w) = Len(es)
        /\ \E p \in Places(Len(es)) : \A i \in 1..Len(es) : w[i] = es[p[i]]
    BY ONLY <1>0, <2>1, Rearranged
  <2> QED BY <2>2 DEF w
<1>7. \E p \in Places(n) : \A i \in 1..n : es[i] = es[p[i]]
  <2> DEFINE p == [i \in 1..n |-> i]
  <2>1. p \in [1..n -> 1..n] /\ \A i, k \in 1..n : p[i] = p[k] => i = k
    OBVIOUS
  <2>2. \A i \in 1..n : es[i] = es[p[i]]
    OBVIOUS
  <2> HIDE DEF p, n
  <2>3. p \in Places(n)
    BY ONLY <1>1, <2>1, OneToOne
  <2> QED BY <2>2, <2>3
<1> DEFINE C == first(A)
           D == first(B)
           a == Cardinality(I)
           b == Cardinality(J)
           g == IF Body(f).solid THEN C ELSE A
<1>8. /\ C \in Seq(Entry) /\ Len(C) \in Nat /\ Len(C) <= Len(A) /\ (Len(A) <= 1 => C = A)
      /\ D \in Seq(Entry) /\ Len(D) \in Nat /\ Len(D) <= Len(B) /\ (Len(B) <= 1 => D = B)
  <2>1. C = SubSeq(A, 1, IF A = <<>> THEN 0 ELSE 1) /\ D = SubSeq(B, 1, IF B = <<>> THEN 0 ELSE 1)
    OBVIOUS
  <2> HIDE DEF A, B, C, D
  <2> QED BY ONLY <1>5, <2>1, FirstOnly
<1> HIDE DEF A, B, C, D, first, a, b, n
<1> DEFINE goal == /\ v \in Seq(Entry) /\ Len(v) \in Nat /\ Len(es) \in Nat /\ Len(v) <= Len(es)
                   /\ \/ Crammed(f, x)
                      \/ /\ Len(v) = Len(es)
                         /\ \E p \in Places(Len(es)) : \A i \in 1..Len(es) : v[i] = es[p[i]]
<1>9. ASSUME x.arguments.source # "7z" PROVE goal
  <2>1. v = es
    BY <1>3, <1>9
  <2>2. n <= n
    BY ONLY <1>1
  <2> QED BY ONLY <1>0, <1>1, <1>7, <2>1, <2>2 DEF n
<1>10. ASSUME x.arguments.source = "7z", x.target # "zip" PROVE goal
  <2>1. v = A \o B
    BY <1>3, <1>10
  <2>2. n <= n
    BY ONLY <1>1
  <2> QED BY ONLY <1>1, <1>6, <2>1, <2>2 DEF n
<1>11. ASSUME x.arguments.source = "7z", x.target = "zip" PROVE goal
  <2>1. v = g \o D
    BY <1>3, <1>11 DEF C, D
  <2>2. g \in Seq(Entry) /\ Len(g) \in Nat /\ Len(g) <= Len(A)
    BY <1>5, <1>8
  <2>3. v \in Seq(Entry) /\ Len(v) = Len(g) + Len(D)
    BY ONLY <1>8, <2>1, <2>2, Joined
  <2>4. n = a + b /\ Len(A) = a /\ Len(B) = b
    <3>1. Len(A \o B) = Len(A) + Len(B)
      BY ONLY <1>5
    <3> QED BY ONLY <1>5, <1>6, <3>1 DEF a, b
  <2>5. Len(v) \in Nat /\ Len(v) <= n
    <3> DEFINE lg == Len(g)
               ld == Len(D)
               la == Len(A)
               lb == Len(B)
               lv == Len(v)
    <3>1. lg \in Nat /\ ld \in Nat /\ lg <= la /\ ld <= lb /\ lv = lg + ld /\ la = a /\ lb = b
          /\ n = a + b /\ a \in Nat /\ b \in Nat
      BY ONLY <1>5, <1>8, <2>2, <2>3, <2>4 DEF a, b
    <3> HIDE DEF lg, ld, la, lb, lv
    <3>2. lv \in Nat /\ lv <= n
      BY ONLY <3>1
    <3> QED BY <3>2 DEF lv
  <2>6. ASSUME ~(Body(f).solid /\ a > 1), ~(b > 1) PROVE v = A \o B
    <3>1. D = B
      <4>1. Len(B) <= 1
        BY ONLY <1>5, <2>4, <2>6 DEF b
      <4> QED BY ONLY <1>8, <4>1
    <3>2. g = A
      <4>1. CASE ~Body(f).solid
        BY <4>1
      <4>2. CASE ~(a > 1)
        <5>1. Len(A) <= 1
          BY ONLY <1>5, <2>4, <4>2 DEF a
        <5> QED BY <1>8, <5>1
      <4> QED BY <2>6, <4>1, <4>2
    <3> QED BY <2>1, <3>1, <3>2
  <2>7. \/ Crammed(f, x)
        \/ Len(v) = n /\ \E p \in Places(n) : \A i \in 1..n : v[i] = es[p[i]]
    <3>1. (Body(f).solid /\ a > 1) \/ b > 1 => Crammed(f, x)
      BY <1>0, <1>11 DEF Crammed, a, b, I, J
    <3>2. ASSUME ~Crammed(f, x) PROVE v = A \o B
      BY <2>6, <3>1, <3>2
    <3> DEFINE w == A \o B
    <3>3. Len(w) = n /\ \E p \in Places(n) : \A i \in 1..n : w[i] = es[p[i]]
      BY ONLY <1>6
    <3>4. ~Crammed(f, x) => v = w
      BY ONLY <3>2
    <3> HIDE DEF w
    <3>5. ASSUME ~Crammed(f, x)
          PROVE  Len(v) = n /\ \E p \in Places(n) : \A i \in 1..n : v[i] = es[p[i]]
      <4>1. v = w
        BY ONLY <3>4, <3>5
      <4> QED BY ONLY <3>3, <4>1
    <3> QED BY ONLY <3>5
  <2> HIDE DEF g
  <2> QED BY ONLY <1>1, <2>3, <2>5, <2>7 DEF n
<1>12. goal
  BY ONLY <1>9, <1>10, <1>11
<1> QED BY ONLY <1>12 DEF es, v

LEMMA ListedNames ==
    ASSUME NEW e
    PROVE  /\ ListedName("zip", e) = e.name
           /\ ListedName("7z", e) = IF e.kind = "dir" THEN Slashed(Unified(e.name))
                                    ELSE Unified(e.name)
           /\ ListedName("tar.gz", e) = Unified(e.name)
<1>1. ListedName("zip", e) = e.name
  <2>1. ~("zip" = "7z" /\ e.kind = "dir")
    OBVIOUS
  <2> DEFINE format == "zip"
  <2>2. format = "zip" /\ ~(format = "7z" /\ e.kind = "dir")
    OBVIOUS
  <2> HIDE DEF format
  <2>3. ListedName(format, e) = e.name
    BY ONLY <2>2, Zenon DEF ListedName
  <2> QED BY <2>3 DEF format
<1>2. ListedName("7z", e) = IF e.kind = "dir" THEN Slashed(Unified(e.name)) ELSE Unified(e.name)
  <2> DEFINE format == "7z"
  <2>1. format = "7z" /\ format # "zip"
    OBVIOUS
  <2> HIDE DEF format
  <2>2. e.kind = "dir" => ListedName(format, e) = Slashed(Unified(e.name))
    BY ONLY <2>1, Zenon DEF ListedName
  <2>3. e.kind # "dir" => ListedName(format, e) = Unified(e.name)
    BY ONLY <2>1, Zenon DEF ListedName
  <2> QED BY <2>2, <2>3 DEF format
<1>3. ListedName("tar.gz", e) = Unified(e.name)
  <2> DEFINE format == "tar.gz"
  <2>1. format # "7z" /\ format # "zip"
    OBVIOUS
  <2> HIDE DEF format
  <2>2. ListedName(format, e) = Unified(e.name)
    BY ONLY <2>1, Zenon DEF ListedName
  <2> QED BY <2>2 DEF format
<1> QED BY <1>1, <1>2, <1>3

LEMMA NamesOnce ==
    /\ \A n : Unified(Unified(n)) = Unified(n)
    /\ \A n : Slashed(Slashed(n)) = Slashed(n)
    /\ \A n : Unified(Slashed(Unified(n))) = Slashed(Unified(n))
    /\ \A n : n # "w\\x" => Unified(n) = n
    /\ \A n : n # "d" => Unified(n) # "d"
    /\ \A n : n # "d" => Slashed(n) = n
    /\ \A n : n \notin UnsafeNames => Unified(n) \notin UnsafeNames /\ Slashed(n) \notin UnsafeNames
<1>1. "w/x" # "w\\x" /\ "d/" # "w\\x" /\ "d/" # "d" /\ "w/x" # "d"
      /\ "w/x" \notin UnsafeNames /\ "d/" \notin UnsafeNames
  BY DEF UnsafeNames
<1> QED BY <1>1 DEF Unified, Slashed

LEMMA RepackedEntry ==
    ASSUME NEW e \in Entry, NEW s, NEW t, NEW r, r = Repacked(e, s, t)
    PROVE  /\ r.size = e.size
           /\ r.name = IF s = "zip" THEN e.name
                       ELSE IF e.kind = "dir" THEN Slashed(Unified(e.name)) ELSE Unified(e.name)
           /\ r.kind = IF s = "zip" /\ t = "7z" THEN "file" ELSE e.kind
<1> DEFINE n == IF s = "zip" THEN e.name
                ELSE IF e.kind = "dir" THEN Slashed(Unified(e.name)) ELSE Unified(e.name)
           k == IF s = "zip" /\ t = "7z" THEN "file" ELSE e.kind
<1>1. DOMAIN e = {"name", "kind", "size", "data"}
  BY DEF Entry
<1>2. r = [e EXCEPT !.name = n, !.kind = k]
  BY <1>1 DEF Repacked
<1> HIDE DEF n, k
<1>3. r.size = e.size /\ r.name = n /\ r.kind = k
  BY ONLY <1>1, <1>2
<1> QED BY <1>3 DEF n, k

\* the name of an entry is listed in the new container as it was in the old one
LEMMA SameName ==
    ASSUME NEW e \in Entry, NEW s \in ArchiveFormats, NEW t \in ArchiveFormats, s # t,
           e.kind \in {"file", "dir"}, NEW r, r = Repacked(e, s, t),
           s = "zip" => e.name # "w\\x",
           s = "tar.gz" => ~(e.kind = "dir" /\ e.name = "d")
    PROVE  ListedName(t, r) = ListedName(s, e)
<1>1. /\ r.name = IF s = "zip" THEN e.name
                  ELSE IF e.kind = "dir" THEN Slashed(Unified(e.name)) ELSE Unified(e.name)
      /\ r.kind = IF s = "zip" /\ t = "7z" THEN "file" ELSE e.kind
  BY ONLY RepackedEntry, e \in Entry, r = Repacked(e, s, t)
<1> DEFINE n == e.name
<1>2. /\ Unified(Unified(n)) = Unified(n) /\ Unified(Slashed(Unified(n))) = Slashed(Unified(n))
      /\ n # "w\\x" => Unified(n) = n
      /\ n # "d" => Slashed(Unified(n)) = Unified(n)
  BY NamesOnce
<1>3. "file" # "dir"
  OBVIOUS
<1> HIDE DEF n
<1>4. CASE s = "zip"
  <2>1. r.name = n /\ Unified(n) = n /\ ListedName(s, e) = n
    BY <1>1, <1>2, <1>4, ListedNames DEF n
  <2>2. CASE t = "7z"
    <3>1. r.kind # "dir"
      BY <1>1, <1>4, <2>2
    <3> QED BY <2>1, <2>2, <3>1, ListedNames
  <2>3. CASE t = "tar.gz"
    BY <2>1, <2>3, ListedNames
  <2> QED BY <1>4, <2>2, <2>3 DEF ArchiveFormats
<1>5. CASE s = "7z"
  <2>1. r.name = IF e.kind = "dir" THEN Slashed(Unified(n)) ELSE Unified(n)
    BY <1>1, <1>5 DEF n
  <2>2. ListedName(s, e) = r.name
    BY <1>5, <2>1, ListedNames DEF n
  <2>3. Unified(r.name) = r.name
    BY <1>2, <2>1
  <2>4. t \in {"zip", "tar.gz"}
    BY <1>5 DEF ArchiveFormats
  <2> QED BY <2>2, <2>3, <2>4, ListedNames
<1>6. CASE s = "tar.gz"
  <2>1. r.name = Unified(n)
    BY <1>1, <1>2, <1>6 DEF n
  <2>2. ListedName(s, e) = Unified(n) /\ r.kind = e.kind
    BY <1>1, <1>6, ListedNames DEF n
  <2>3. CASE t = "zip"
    BY <2>1, <2>2, <2>3, ListedNames
  <2>4. CASE t = "7z"
    <3>1. ListedName(t, r) = IF e.kind = "dir" THEN Slashed(Unified(Unified(n)))
                             ELSE Unified(Unified(n))
      BY <2>1, <2>2, <2>4, ListedNames
    <3>2. e.kind = "dir" => n # "d"
      BY <1>6 DEF n
    <3> QED BY <1>2, <2>2, <3>1, <3>2
  <2> QED BY <1>6, <2>3, <2>4 DEF ArchiveFormats
<1> QED BY <1>4, <1>5, <1>6 DEF ArchiveFormats

LEMMA OpenedArchive ==
    ASSUME NEW f
    PROVE  /\ InspectArchive(f) = "accepted" <=>
                 /\ ArchiveHint(f) \in ArchiveFormats
                 /\ ~(ArchiveHint(f) = "zip" /\ Body(f).entries = <<>>)
                 /\ \A i \in DOMAIN Body(f).entries : Body(f).entries[i].name \notin UnsafeNames
                 /\ ~(Len(Body(f).entries) > MaxArchiveEntries)
                 /\ ~(TotalSize(Body(f).entries) > MaxArchiveBytes)
           /\ ArchiveHint(f) \in ArchiveFormats <=> f.ext \in ArchiveFormats /\ f.container = f.ext
           /\ ArchiveHint(f) \in ArchiveFormats => ArchiveHint(f) = f.ext
<1>1. "accepted" \notin ArchiveFormats /\ "Unsupported" \notin ArchiveFormats
      /\ "InputInvalid" \notin ArchiveFormats
  BY DEF ArchiveFormats
<1>2. ArchiveHint(f) # "accepted"
  BY DEF ArchiveHint, ArchiveFormats
<1> QED BY <1>1, <1>2 DEF InspectArchive, ArchiveHint

\* an archive's entries
LEMMA EntriesOf ==
    ASSUME NEW f, NEW x, Archived(f, x)
    PROVE  /\ Body(f).entries \in Seq(Entry) /\ Len(Body(f).entries) \in Nat
           /\ DOMAIN Body(f).entries = 1..Len(Body(f).entries)
           /\ \A i \in DOMAIN Body(f).entries :
                 Body(f).entries[i] \in Entry /\ Body(f).entries[i].size \in Nat
           /\ x.arguments.source = f.container /\ f.container = f.ext
           /\ f.container \in ArchiveFormats /\ x.target \in ArchiveFormats /\ f.container # x.target
<1>1. ArchiveHint(f) \in ArchiveFormats /\ x.arguments.source = ArchiveHint(f)
      /\ ArchiveHint(f) # x.target /\ x.target \in ArchiveFormats /\ ArchiveFile(f)
  BY OpenedArchive DEF Archived
<1>2. f.ext \in ArchiveFormats /\ f.container = f.ext /\ ArchiveHint(f) = f.ext
  BY <1>1, OpenedArchive
<1>3. Body(f).entries \in Seq(Entry)
  BY <1>1, <1>2 DEF ArchiveFile, Entry
<1> DEFINE es == Body(f).entries
           E == Entry
<1> HIDE DEF es, E
<1>4. es \in Seq(E)
  BY <1>3 DEF es, E
<1>5. Len(es) \in Nat /\ DOMAIN es = 1..Len(es) /\ \A i \in DOMAIN es : es[i] \in E
  BY ONLY <1>4
<1>6. \A z \in E : z.size \in Nat
  BY DEF E, Entry
<1> QED BY <1>1, <1>2, <1>3, <1>5, <1>6 DEF es, E

\* the inventory of the entries of a container
Listed(format, es) == [i \in DOMAIN es |-> <<ListedName(format, es[i]), es[i].size>>]

LEMMA ManifestIsTally ==
    ASSUME NEW format, NEW es
    PROVE  Manifest(format, es) = Tally(Listed(format, es))
BY DEF Manifest, Tally, Listed

\* what the honest gaps of an archive are
LEMMA ArchiveGaps ==
    ASSUME NEW f, NEW x, Archived(f, x), ~DataHonestGaps(f, x)
    PROVE  LET es == Body(f).entries IN
           /\ ~Crammed(f, x)
           /\ \A i \in DOMAIN es :
                 /\ x.arguments.source = "zip" => es[i].name # "w\\x"
                 /\ x.arguments.source = "tar.gz" => ~(es[i].kind = "dir" /\ es[i].name = "d")
           /\ DOMAIN es # {}
<1> DEFINE es == Body(f).entries
<1>1. x.lane # "Structured"
  BY DEF Archived
<1>2. \A i \in DOMAIN es : es[i] \in ToSet(es)
  BY DEF ToSet
<1>3. DOMAIN es = {} => ToSet(es) = {}
  BY DEF ToSet
<1> QED BY <1>1, <1>2, <1>3 DEF DataHonestGaps, Crammed

LEMMA ArchivesHonest ==
    ASSUME NEW f, NEW x, NEW e, NEW o, Archived(f, x), ArchiveWrites(f, x),
           o = ArchiveOutput(f, x, e), e = x.target, ValidateArchive(f, o, x) = "fail"
    PROVE  DataHonestGaps(f, x)
<1> SUFFICES ASSUME ~DataHonestGaps(f, x) PROVE FALSE
  OBVIOUS
<1> DEFINE es == Body(f).entries
           s == x.arguments.source
           t == x.target
           v == Laid(f, x)
           w == Body(o).entries
           n == Len(es)
<1>1. /\ es \in Seq(Entry) /\ n \in Nat /\ DOMAIN es = 1..n
      /\ \A i \in 1..n : es[i] \in Entry /\ es[i].size \in Nat
      /\ s = f.container /\ f.container = f.ext /\ s \in ArchiveFormats /\ t \in ArchiveFormats
      /\ s # t
  BY EntriesOf
<1>2. /\ ~Crammed(f, x)
      /\ \A i \in 1..n : /\ s = "zip" => es[i].name # "w\\x"
                         /\ s = "tar.gz" => ~(es[i].kind = "dir" /\ es[i].name = "d")
      /\ n # 0
  <2>1. /\ ~Crammed(f, x)
        /\ \A i \in DOMAIN es : /\ s = "zip" => es[i].name # "w\\x"
                                /\ s = "tar.gz" => ~(es[i].kind = "dir" /\ es[i].name = "d")
        /\ DOMAIN es # {}
    BY ONLY ArchiveGaps, Archived(f, x), ~DataHonestGaps(f, x)
  <2> HIDE DEF es
  <2>2. DOMAIN es = 1..n /\ n \in Nat
    BY <1>1
  <2> HIDE DEF n
  <2>3. n # 0
    BY ONLY <2>1, <2>2
  <2> QED BY ONLY <2>1, <2>2, <2>3
<1>3. \A i \in 1..n : es[i].kind \in {"file", "dir"}
  BY <1>1 DEF ArchiveWrites
<1>4. /\ Len(v) = n /\ DOMAIN v = 1..n
      /\ \E p \in Places(n) : \A i \in 1..n : v[i] = es[p[i]]
  <2>2. /\ v \in Seq(Entry) /\ Len(v) \in Nat
        /\ \/ Crammed(f, x)
           \/ /\ Len(v) = Len(es)
              /\ \E p \in Places(Len(es)) : \A i \in 1..Len(es) : v[i] = es[p[i]]
    BY ONLY <1>1, LaidEntries
  <2> HIDE DEF es, v
  <2>3. Len(v) = Len(es) /\ \E p \in Places(Len(es)) : \A i \in 1..Len(es) : v[i] = es[p[i]]
    BY ONLY <1>2, <2>2
  <2>4. DOMAIN v = 1..Len(v)
    <3> DEFINE E == Entry
    <3> HIDE DEF E
    <3>1. v \in Seq(E)
      BY <2>2 DEF E
    <3> QED BY ONLY <3>1
  <2> QED BY ONLY <2>3, <2>4 DEF n
<1>5. PICK p \in Places(n) : \A i \in 1..n : v[i] = es[p[i]]
  BY <1>4
<1>6. \A i \in 1..n : p[i] \in 1..n
  BY DEF Places, Bijection, Injection
<1>7. /\ o.container = t /\ o.ext = t
      /\ w = [i \in 1..n |-> Repacked(v[i], s, t)]
  <2>1. /\ o.container = t /\ o.ext = e
        /\ w = [i \in DOMAIN v |-> Repacked(v[i], s, t)]
    BY ONLY EntriesOfOutput, o = ArchiveOutput(f, x, e)
  <2> HIDE DEF v, w
  <2> QED BY <1>4, <2>1
<1> HIDE DEF es, s, t, v, w, n
<1>8. DOMAIN w = 1..n /\ Len(w) = n
  BY ONLY <1>1, <1>7
<1>9. ASSUME NEW j \in 1..n
      PROVE  /\ w[j].size = es[p[j]].size
             /\ ListedName(t, w[j]) = ListedName(s, es[p[j]])
             /\ w[j].name \in {es[p[j]].name, Unified(es[p[j]].name), Slashed(Unified(es[p[j]].name))}
  <2> DEFINE a == es[p[j]]
             r == w[j]
             i == p[j]
  <2>1. i \in 1..n /\ a = es[i]
    BY <1>6
  <2>2. r = Repacked(a, s, t)
    BY <1>5, <1>7
  <2>3. /\ a \in Entry /\ a.kind \in {"file", "dir"}
        /\ s = "zip" => a.name # "w\\x"
        /\ s = "tar.gz" => ~(a.kind = "dir" /\ a.name = "d")
    BY <1>1, <1>2, <1>3, <2>1
  <2> HIDE DEF a, r, i
  <2>4. ListedName(t, r) = ListedName(s, a)
    BY ONLY <1>1, <2>2, <2>3, SameName
  <2>5. /\ r.size = a.size
        /\ r.name = IF s = "zip" THEN a.name
                    ELSE IF a.kind = "dir" THEN Slashed(Unified(a.name)) ELSE Unified(a.name)
    BY ONLY <2>2, <2>3, RepackedEntry
  <2> QED BY <2>4, <2>5 DEF a, r
<1>10. /\ \A i \in 1..n : es[i].name \notin UnsafeNames
       /\ ~(n > MaxArchiveEntries) /\ ~(TotalSize(es) > MaxArchiveBytes)
       /\ ArchiveHint(f) = s
  <2>1. InspectArchive(f) = "accepted" /\ s = ArchiveHint(f)
    BY DEF Archived, s
  <2>2. /\ \A i \in DOMAIN es : es[i].name \notin UnsafeNames
        /\ ~(n > MaxArchiveEntries) /\ ~(TotalSize(es) > MaxArchiveBytes)
    BY <2>1, OpenedArchive DEF es, n
  <2> QED BY <1>1, <2>1, <2>2
<1>11. /\ TotalSize(w) \in Nat /\ TotalSize(es) \in Nat /\ TotalSize(w) <= TotalSize(es)
  <2>1. \A j \in 1..n : w[j].size = es[p[j]].size
    BY <1>9
  <2> QED BY ONLY <1>1, <1>8, <2>1, SameBytes, p \in Places(n)
<1>12. ArchiveHint(o) = t
  BY <1>1, <1>7, OpenedArchive
<1>13. InspectArchive(o) = "accepted"
  <2>1. \A j \in 1..n : w[j].name \notin UnsafeNames
    BY <1>6, <1>9, <1>10, NamesOnce
  <2>2. w # <<>>
    BY <1>2, <1>8
  <2>3. ~(TotalSize(w) > MaxArchiveBytes)
    <3> DEFINE a == TotalSize(w)
               b == TotalSize(es)
    <3>1. a \in Nat /\ b \in Nat /\ a <= b /\ ~(b > MaxArchiveBytes)
      BY <1>10, <1>11
    <3> HIDE DEF a, b
    <3>2. ~(a > MaxArchiveBytes)
      BY <3>1 DEF MaxArchiveBytes
    <3> QED BY <3>2 DEF a
  <2>4. ~(Len(w) > MaxArchiveEntries)
    BY <1>8, <1>10
  <2> QED BY <1>1, <1>8, <1>12, <2>1, <2>2, <2>3, <2>4, OpenedArchive DEF w
<1>14. Manifest(s, es) = Manifest(t, w)
  <2> DEFINE l == Listed(s, es)
             m == Listed(t, w)
  <2>1. /\ DOMAIN l = 1..n /\ DOMAIN m = 1..n
        /\ \A i \in 1..n : l[i] = <<ListedName(s, es[i]), es[i].size>>
        /\ \A i \in 1..n : m[i] = <<ListedName(t, w[i]), w[i].size>>
    BY <1>1, <1>8 DEF Listed
  <2> HIDE DEF l, m
  <2>2. \A j \in 1..n : m[j] = l[p[j]]
    BY <1>6, <1>9, <2>1
  <2>3. Tally(l) = Tally(m)
    <3>1. n \in Nat
      BY <1>1
    <3> QED BY ONLY <2>1, <2>2, <3>1, SameTally, p \in Places(n)
  <2> QED BY <2>3, ManifestIsTally DEF l, m
<1>15. ValidateArchive(f, o, x) # "fail"
  <2>1. Len(Body(f).entries) = Len(Body(o).entries)
    BY <1>8 DEF es, w, n
  <2>2. Manifest(ArchiveHint(f), Body(f).entries) = Manifest(ArchiveHint(o), Body(o).entries)
    BY <1>10, <1>12, <1>14 DEF es, w
  <2> QED BY <1>1, <1>10, <1>12, <1>13, <2>1, <2>2 DEF ValidateArchive
<1> QED BY <1>15

LEMMA ArchivesCaught ==
    ASSUME NEW f, NEW x, NEW e, NEW o, NEW y, NEW d \in DataDamages, Archived(f, x),
           o = ArchiveOutput(f, x, e), y = DataDamage(f, o, d, x), y # o,
           ValidateArchive(f, y, x) # "fail"
    PROVE  UncheckedData(f, y, o, x)
<1> DEFINE before == Body(f).entries
           after == Body(o).entries
           new == Body(y).entries
           alter(z) == [z EXCEPT !.data = "other"]
<1>1. /\ InspectArchive(y) = "accepted" /\ ArchiveHint(y) # ArchiveHint(f)
      /\ Len(before) = Len(new)
  BY DEF ValidateArchive
<1>2. /\ before \in Seq(Entry) /\ Len(before) \in Nat
      /\ f.container = f.ext /\ f.container \in ArchiveFormats
  BY EntriesOf
<1>3. x.lane = "Archive"
  BY DEF Archived
<1> DEFINE v == Laid(f, x)
<1>4. v \in Seq(Entry) /\ Len(v) \in Nat /\ Len(v) <= Len(before)
  BY <1>2, LaidEntries
<1>5. /\ o = [container |-> x.target, ext |-> e,
              body |-> << [entries |-> after, solid |-> Body(o).solid] >>]
      /\ after = [i \in DOMAIN v |-> Repacked(v[i], x.arguments.source, x.target)]
  BY ONLY EntriesOfOutput, o = ArchiveOutput(f, x, e)
<1> HIDE DEF v
<1>6. \E S : after \in Seq(S) /\ Len(after) = Len(v)
  <2> DEFINE g(i) == Repacked(v[i], x.arguments.source, x.target)
             S == {g(i) : i \in DOMAIN v}
             n == Len(v)
  <2>1. DOMAIN v = 1..n /\ n \in Nat
    <3> DEFINE E == Entry
    <3> HIDE DEF E
    <3>1. v \in Seq(E)
      BY <1>4 DEF E
    <3> QED BY ONLY <3>1
  <2> HIDE DEF n
  <2>2. \A i \in 1..n : g(i) \in S
    BY <2>1
  <2> HIDE DEF S
  <2>3. after = [i \in 1..n |-> g(i)]
    BY <1>5, <2>1
  <2> HIDE DEF g, after
  <2>4. after \in Seq(S) /\ Len(after) = n
    BY ONLY <2>1, <2>2, <2>3
  <2> QED BY <2>4 DEF n
<1>7. PICK S : after \in Seq(S) /\ Len(after) = Len(v)
  BY <1>6
<1> HIDE DEF after
<1>8. after = Body(o)["entries"]
  BY DEF Body, after
<1>9. after # <<>>
  <2>1. after = <<>> => DataDamage(f, o, d, x) = o
    BY ONLY <1>3, <1>8, Zenon DEF DataDamage
  <2> QED BY <2>1
<1>10. /\ d = "lost" => y = [o EXCEPT !.body[1]["entries"] = Front(@)]
       /\ d = "altered" => y = [o EXCEPT !.body[1]["entries"][1] = alter(@)]
       /\ d = "wrong format" => y = [o EXCEPT !.container = f.container]
  <2>1. Body(o)["entries"] # <<>>
    BY <1>8, <1>9
  <2>2. y = DataDamage(f, o, d, x)
    OBVIOUS
  <2>3. ASSUME d = "lost" PROVE y = [o EXCEPT !.body[1]["entries"] = Front(@)]
    BY ONLY <1>3, <2>1, <2>2, <2>3, Zenon DEF DataDamage
  <2>4. ASSUME d = "altered" PROVE y = [o EXCEPT !.body[1]["entries"][1] = alter(@)]
    BY ONLY <1>3, <2>1, <2>2, <2>4, Zenon DEF DataDamage
  <2>5. ASSUME d = "wrong format" PROVE y = [o EXCEPT !.container = f.container]
    BY ONLY <1>3, <2>1, <2>2, <2>5, Zenon DEF DataDamage
  <2> QED BY <2>3, <2>4, <2>5
<1> DEFINE solid == Body(o).solid
<1>11. o = [container |-> x.target, ext |-> e, body |-> << [entries |-> after, solid |-> solid] >>]
  BY ONLY <1>5 DEF solid
<1> HIDE DEF solid
<1>12. CASE d = "lost"
  <2>1. y = [o EXCEPT !.body[1]["entries"] = Front(@)]
    BY <1>10, <1>12
  <2>2. new = Front(after)
    BY ONLY <1>11, <2>1 DEF Body
  <2>3. Len(after) \in Nat /\ Len(after) # 0 /\ Len(Front(after)) = Len(after) - 1
    BY ONLY <1>7, <1>9, FrontIsShorter
  <2> HIDE DEF new, before
  <2> DEFINE n == Len(after)
             front == Len(Front(after))
             m == Len(before)
  <2>4. n \in Nat /\ front = n - 1 /\ m = front /\ m \in Nat /\ n <= m
    BY ONLY <1>1, <1>2, <1>4, <1>7, <2>2, <2>3
  <2> HIDE DEF n, front, m
  <2> QED BY ONLY <2>4
<1>13. CASE d = "altered"
  <2>1. y = [o EXCEPT !.body[1]["entries"][1] = alter(@)]
    BY <1>10, <1>13
  <2>2. y.container = o.container
    BY ONLY <1>11, <2>1
  <2>3. new = [after EXCEPT ![1] = alter(@)]
    BY ONLY <1>11, <2>1 DEF Body
  <2> DEFINE any(z) == [z EXCEPT !.data = "any"]
  <2>4. [i \in DOMAIN new |-> any(new[i])] = [i \in DOMAIN after |-> any(after[i])]
    <3>1. \A z : any(alter(z)) = any(z)
      OBVIOUS
    <3> HIDE DEF any, alter, new
    <3>2. DOMAIN new = DOMAIN after
          /\ \A i \in DOMAIN after : new[i] = IF i = 1 THEN alter(after[i]) ELSE after[i]
      BY ONLY <2>3
    <3>3. \A i \in DOMAIN after : any(new[i]) = any(after[i])
      BY ONLY <3>1, <3>2
    <3> QED BY ONLY <3>2, <3>3
  <2>5. x.lane # "Structured"
    BY <1>3
  <2> QED BY <2>2, <2>4, <2>5 DEF UncheckedData, after
<1>14. CASE d = "wrong format"
  <2>1. y = [o EXCEPT !.container = f.container]
    BY <1>10, <1>14
  <2>2. y.container = f.container
    BY ONLY <1>11, <2>1
  <2>3. ArchiveHint(y) \in ArchiveFormats
    BY <1>1, OpenedArchive
  <2>4. ArchiveHint(y) = y.container
    BY <2>3, OpenedArchive
  <2>5. ArchiveHint(f) = f.container
    BY <1>2, OpenedArchive
  <2> QED BY <1>1, <2>2, <2>4, <2>5
<1> QED BY <1>12, <1>13, <1>14 DEF DataDamages

LEMMA DataRight ==
    ASSUME Judged, plan.lane \in DataAdapters
    PROVE  /\ Condemned /\ out = Obeyed => HonestGaps
           /\ stage = "committed" /\ out # Obeyed => DamageIsCaught
<1> DEFINE f == asked.file
           e == Request.ext
<1>1. /\ Obeyed = DataOutput(f, plan, e) /\ Verdict = ValidateData(f, out, plan)
      /\ Spoilt = {DataDamage(f, Obeyed, d, plan) : d \in DataDamages}
      /\ CanOpen = DataWrites(f, plan)
  BY LaneFunctions
<1>2. /\ plan.lane = "Structured" => Recorded(f, plan)
      /\ plan.lane = "Archive" => Archived(f, plan)
      /\ plan.target = asked.request.target
  BY DataFits DEF Judged
<1>3. "Structured" # "Archive"
  OBVIOUS
<1>4. CASE plan.lane = "Structured"
  <2>1. /\ Obeyed = StructuredOutput(f, plan, e) /\ Verdict = ValidateStructured(f, out, plan)
        /\ Recorded(f, plan)
    BY <1>1, <1>2, <1>3, <1>4 DEF DataOutput, ValidateData
  <2>2. ASSUME Condemned, out = Obeyed PROVE HonestGaps
    <3>1. ValidateStructured(f, out, plan) = "fail"
      BY <2>1, <2>2 DEF Judged
    <3>2. plan.operation # "metadata-clean"
      BY <2>1 DEF Recorded
    <3>3. CASE e = plan.target
      <4>1. DataHonestGaps(f, plan)
        BY ONLY <2>1, <2>2, <3>1, <3>3, RecordsHonest
      <4> QED BY <4>1 DEF HonestGaps
    <3>4. CASE e # plan.target
      BY <1>2, <3>2, <3>4 DEF HonestGaps, PlannedExtension, Request
    <3> QED BY <3>3, <3>4
  <2>3. ASSUME stage = "committed", out # Obeyed PROVE DamageIsCaught
    <3>1. ValidateStructured(f, out, plan) # "fail"
      BY <2>1, <2>3 DEF Judged
    <3>2. PICK d \in DataDamages : out = DataDamage(f, Obeyed, d, plan)
      BY <1>1, <2>3 DEF Judged
    <3>3. UncheckedData(f, out, Obeyed, plan)
      BY ONLY <2>1, <2>3, <3>1, <3>2, RecordsCaught
    <3>4. plan.lane \notin PdfAdapters \cup MailAdapters \cup DocumentAdapters
      BY AdaptersApart
    <3> QED BY ONLY <3>3, <3>4, plan.lane \in DataAdapters, Zenon DEF DamageIsCaught
  <2> QED BY <2>2, <2>3
<1>5. CASE plan.lane = "Archive"
  <2>1. /\ Obeyed = ArchiveOutput(f, plan, e) /\ Verdict = ValidateArchive(f, out, plan)
        /\ Archived(f, plan) /\ ArchiveWrites(f, plan)
    BY <1>1, <1>2, <1>3, <1>5 DEF DataOutput, ValidateData, DataWrites, Judged
  <2>2. ASSUME Condemned, out = Obeyed PROVE HonestGaps
    <3>1. ValidateArchive(f, out, plan) = "fail"
      BY <2>1, <2>2 DEF Judged
    <3>2. plan.operation # "metadata-clean"
      BY <2>1 DEF Archived
    <3>3. CASE e = plan.target
      <4>1. DataHonestGaps(f, plan)
        BY ONLY <2>1, <2>2, <3>1, <3>3, ArchivesHonest
      <4> QED BY <4>1 DEF HonestGaps
    <3>4. CASE e # plan.target
      BY <1>2, <3>2, <3>4 DEF HonestGaps, PlannedExtension, Request
    <3> QED BY <3>3, <3>4
  <2>3. ASSUME stage = "committed", out # Obeyed PROVE DamageIsCaught
    <3>1. ValidateArchive(f, out, plan) # "fail"
      BY <2>1, <2>3 DEF Judged
    <3>2. PICK d \in DataDamages : out = DataDamage(f, Obeyed, d, plan)
      BY <1>1, <2>3 DEF Judged
    <3>3. UncheckedData(f, out, Obeyed, plan)
      BY ONLY <2>1, <2>3, <3>1, <3>2, ArchivesCaught
    <3>4. plan.lane \notin PdfAdapters \cup MailAdapters \cup DocumentAdapters
      BY AdaptersApart
    <3> QED BY ONLY <3>3, <3>4, plan.lane \in DataAdapters, Zenon DEF DamageIsCaught
  <2> QED BY <2>2, <2>3
<1> QED BY <1>4, <1>5 DEF DataAdapters

-----------------------------------------------------------------------------
(* PDF.                                                                     *)

Page == [name : Nat, w : Int, h : Int, rot : Nat, text : BOOLEAN, mark : STRING]

\* pages that have a size
Sized == {p \in Page : ~(p.w <= 0) /\ ~(p.h <= 0)}

LEMMA OpenedPdf ==
    ASSUME NEW f, NEW password
    PROVE  InspectPdf(f, password) = "accepted" <=>
              /\ f.container = "pdf" /\ Opens(f, password) /\ f.pages # <<>>
              /\ ~(Len(f.pages) > MaxPdfPages) /\ DetailsFit(f.pages)
              /\ \A i \in DOMAIN f.pages : ~(f.pages[i].w <= 0) /\ ~(f.pages[i].h <= 0)
<1> DEFINE b1 == f.container # "pdf"
           b2 == ~Opens(f, password)
           b3 == f.pages = <<>>
           b4 == Len(f.pages) > MaxPdfPages
           b5 == ~DetailsFit(f.pages)
           b6 == \E i \in DOMAIN f.pages : f.pages[i].w <= 0 \/ f.pages[i].h <= 0
           locked == IF password = "none" THEN "PolicyBlocked" ELSE "InputInvalid"
           tests == << <<b1, "InputInvalid">>, <<b2, locked>>, <<b3, "InputInvalid">>,
                       <<b4, "ResourceExhausted">>, <<b5, "EngineIncompatible">>,
                       <<b6, "InputInvalid">> >>
<1>1. InspectPdf(f, password) = Refusal(tests)
  BY DEF InspectPdf
<1>2. locked # "accepted"
  OBVIOUS
<1> HIDE DEF b1, b2, b3, b4, b5, b6, locked
<1>3. /\ DOMAIN tests = 1..6 /\ tests[1][1] = b1 /\ tests[2][1] = b2 /\ tests[3][1] = b3
      /\ tests[4][1] = b4 /\ tests[5][1] = b5 /\ tests[6][1] = b6
      /\ tests[1][2] = "InputInvalid" /\ tests[2][2] = locked
      /\ tests[3][2] = "InputInvalid" /\ tests[4][2] = "ResourceExhausted"
      /\ tests[5][2] = "EngineIncompatible" /\ tests[6][2] = "InputInvalid"
  <2>1. DOMAIN tests = 1..6
    BY ONLY TRUE
  <2>2. /\ tests[1][1] = b1 /\ tests[2][1] = b2 /\ tests[3][1] = b3
        /\ tests[4][1] = b4 /\ tests[5][1] = b5 /\ tests[6][1] = b6
    BY ONLY TRUE
  <2>3. /\ tests[1][2] = "InputInvalid" /\ tests[2][2] = locked
        /\ tests[3][2] = "InputInvalid" /\ tests[4][2] = "ResourceExhausted"
        /\ tests[5][2] = "EngineIncompatible" /\ tests[6][2] = "InputInvalid"
    BY ONLY TRUE
  <2> QED BY ONLY <2>1, <2>2, <2>3
<1> HIDE DEF tests
<1>4. \/ Refusal(tests) = "accepted" /\ \A i \in DOMAIN tests : ~tests[i][1]
      \/ \E i \in DOMAIN tests : tests[i][1] /\ Refusal(tests) = tests[i][2]
  BY ONLY <1>3, RefusalIsATest
<1>5. \A i \in DOMAIN tests : tests[i][2] # "accepted"
  BY ONLY <1>2, <1>3
<1>6. (\A i \in DOMAIN tests : ~tests[i][1]) <=> ~b1 /\ ~b2 /\ ~b3 /\ ~b4 /\ ~b5 /\ ~b6
  BY ONLY <1>3
<1>7. Refusal(tests) = "accepted" <=> ~b1 /\ ~b2 /\ ~b3 /\ ~b4 /\ ~b5 /\ ~b6
  BY ONLY <1>4, <1>5, <1>6
<1> QED BY <1>1, <1>7 DEF b1, b2, b3, b4, b5, b6

\* a document that can be opened has pages with sizes
LEMMA PagesOfPdf ==
    ASSUME NEW f, NEW password, PdfFile(f), InspectPdf(f, password) = "accepted"
    PROVE  /\ f.pages \in Seq(Sized) /\ Len(f.pages) \in Nat /\ f.pages # <<>>
           /\ DOMAIN f.pages = 1..Len(f.pages)
           /\ ~(Len(f.pages) > MaxPdfPages) /\ DetailsFit(f.pages)
<1> DEFINE s == f.pages
           P == Page
           Q == Sized
<1>1. s \in Seq(P) /\ s # <<>> /\ ~(Len(s) > MaxPdfPages) /\ DetailsFit(s)
      /\ \A i \in DOMAIN s : ~(s[i].w <= 0) /\ ~(s[i].h <= 0)
  BY OpenedPdf DEF PdfFile, Page
<1> HIDE DEF s, P, Q
<1>2. Len(s) \in Nat /\ DOMAIN s = 1..Len(s) /\ \A i \in 1..Len(s) : s[i] \in P
  BY ONLY <1>1
<1>3. \A i \in 1..Len(s) : s[i] \in Q
  BY <1>1, <1>2 DEF P, Q, Sized
<1>4. s \in Seq(Q)
  <2>1. s = [i \in 1..Len(s) |-> s[i]]
    BY ONLY <1>1
  <2> QED BY ONLY <1>2, <1>3, <2>1
<1> QED BY <1>1, <1>2, <1>4 DEF s, Q

\* and one with sized pages that fit into the output of pdfinfo can be opened without a password
LEMMA OpensAgain ==
    ASSUME NEW f, NEW n \in Nat, f.container = "pdf", f.lock = "none",
           DOMAIN f.pages = 1..n, Len(f.pages) = n, n # 0, DetailsFit(f.pages),
           \A i \in 1..n : ~(f.pages[i].w <= 0) /\ ~(f.pages[i].h <= 0)
    PROVE  InspectPdf(f, "none") = "accepted"
<1>1. f.pages # <<>>
  <2>1. Len(<<>>) = 0
    OBVIOUS
  <2> QED BY ONLY <2>1, Len(f.pages) = n, n # 0
<1>2. ~(n > MaxPdfPages)
  <2>1. n <= TailPages
    BY DEF DetailsFit
  <2> QED BY ONLY <2>1, n \in Nat, PagesAssumption
<1>3. Opens(f, "none")
  BY DEF Opens
<1> QED BY <1>1, <1>2, <1>3, OpenedPdf

\* what the planner of a rendering, of an export of text and of an operation knows
SizedAs(f, x) ==
    /\ x.operation = "render" /\ x.arguments.pages = Len(f.pages)
    /\ x.arguments.sizes = [i \in DOMAIN f.pages |-> ExpectedPage(f.pages[i], x.arguments.dpi)]

Rendering(f, x) == SizedAs(f, x) /\ \E password : InspectPdf(f, password) = "accepted"

OperatesAs(f, x, r, op) ==
    LET a == x.arguments
    IN /\ x.operation = op
       /\ OperationInspection(f, r, op) = "accepted" /\ OperationRefusal(f, r, op) = "accepted"
       /\ op = "pdf-merge" =>
             a.expected = Len(PagesOf(MergeInputs(f, r))) /\ a.inputs = MergeInputs(f, r)
       /\ op = "pdf-extract" => a.expected = Len(PagesOfRange(r.parts)) /\ a.parts = r.parts
       /\ op \notin {"pdf-merge", "pdf-extract"} => a.expected = Len(f.pages)
       /\ a.text = Trim(r.text)
       /\ "password" \in DOMAIN a
       /\ a.password = "[redacted]" <=> op \in {"pdf-encrypt", "pdf-decrypt"}

Operating(f, x, r) ==
    /\ x.operation \in PdfOperations /\ x.lane = OperationLane(x.operation).adapter
    /\ OperatesAs(f, x, r, x.operation)

\* the number of pages that is expected
LEMMA CountOfPages ==
    ASSUME NEW op, NEW a, NEW b, NEW c, NEW count,
           count = CASE op = "pdf-merge" -> a [] op = "pdf-extract" -> b [] OTHER -> c
    PROVE  /\ op = "pdf-merge" => count = a
           /\ op = "pdf-extract" => count = b
           /\ op \notin {"pdf-merge", "pdf-extract"} => count = c
<1>1. ASSUME op = "pdf-merge" PROVE count = a
  <2>1. op # "pdf-extract"
    BY <1>1
  <2> QED BY ONLY <1>1, <2>1, Zenon,
             count = CASE op = "pdf-merge" -> a [] op = "pdf-extract" -> b [] OTHER -> c
<1>2. ASSUME op = "pdf-extract" PROVE count = b
  <2>1. op # "pdf-merge"
    BY <1>2
  <2> QED BY ONLY <1>2, <2>1, Zenon,
             count = CASE op = "pdf-merge" -> a [] op = "pdf-extract" -> b [] OTHER -> c
<1>3. ASSUME op \notin {"pdf-merge", "pdf-extract"} PROVE count = c
  <2>1. op # "pdf-merge" /\ op # "pdf-extract"
    BY <1>3
  <2> QED BY ONLY <2>1, Zenon,
             count = CASE op = "pdf-merge" -> a [] op = "pdf-extract" -> b [] OTHER -> c
<1> QED BY <1>1, <1>2, <1>3

LEMMA OperationMade ==
    ASSUME NEW lane, NEW f, NEW r, NEW op, NEW q, q = PlanPdfOperation(lane, f, r, op),
           q.ok = TRUE
    PROVE  OperatesAs(f, q, r, op)
<1> DEFINE inspection == OperationInspection(f, r, op)
           last == OperationRefusal(f, r, op)
           refusal == IF inspection # "accepted" THEN inspection ELSE last
           merged == Len(PagesOf(MergeInputs(f, r)))
           taken == Len(PagesOfRange(r.parts))
           all == Len(f.pages)
           count == CASE op = "pdf-merge" -> merged
                      [] op = "pdf-extract" -> taken
                      [] OTHER -> all
           parts == IF op \in {"pdf-extract", "pdf-rotate"} THEN r.parts ELSE <<>>
           text == Trim(r.text)
           inputs == IF op = "pdf-merge" THEN MergeInputs(f, r) ELSE <<>>
           password == IF op \in {"pdf-encrypt", "pdf-decrypt"} THEN "[redacted]" ELSE "none"
           arguments == [expected |-> count, parts |-> parts, angle |-> r.angle, text |-> text,
                         inputs |-> inputs, password |-> password]
           plan0 == PlanOfStep(lane, IF op = "pdf-ocr" THEN "txt" ELSE "pdf", op,
                               IF op = "pdf-ocr" THEN "lossy" ELSE "none", arguments)
<1>1. q = IF refusal # "accepted" THEN Refused(refusal) ELSE plan0
  <2> HIDE DEF count
  <2> QED BY DEF PlanPdfOperation, count
<1>2. \A z : Refused(z).ok # TRUE
  BY DEF Refused
<1> HIDE DEF merged, taken, all
<1>3. /\ op = "pdf-merge" => count = merged
      /\ op = "pdf-extract" => count = taken
      /\ op \notin {"pdf-merge", "pdf-extract"} => count = all
  <2> DEFINE c == count
  <2>1. c = CASE op = "pdf-merge" -> merged [] op = "pdf-extract" -> taken [] OTHER -> all
    BY Zenon
  <2> HIDE DEF c
  <2>2. /\ op = "pdf-merge" => c = merged
        /\ op = "pdf-extract" => c = taken
        /\ op \notin {"pdf-merge", "pdf-extract"} => c = all
    BY ONLY <2>1, CountOfPages
  <2> QED BY <2>2 DEF c
<1>4. password = "[redacted]" <=> op \in {"pdf-encrypt", "pdf-decrypt"}
  OBVIOUS
<1>5. /\ op = "pdf-merge" => inputs = MergeInputs(f, r)
      /\ op = "pdf-extract" => parts = r.parts
  OBVIOUS
<1> HIDE DEF count, parts, text, inputs, password
<1>6. /\ arguments.expected = count /\ arguments.parts = parts /\ arguments.text = text
      /\ arguments.inputs = inputs /\ arguments.password = password
      /\ "password" \in DOMAIN arguments
  BY ONLY TRUE
<1> HIDE DEF arguments
<1>7. plan0.operation = op /\ plan0.arguments = arguments
  BY PlanOfStepForm
<1> HIDE DEF plan0, refusal
<1>8. refusal = "accepted" /\ q = plan0
  BY ONLY <1>1, <1>2, q.ok = TRUE
<1>9. inspection = "accepted" /\ last = "accepted"
  BY <1>8 DEF refusal
<1> QED BY <1>3, <1>4, <1>5, <1>6, <1>7, <1>8, <1>9
   DEF merged, taken, all, text, OperatesAs

LEMMA RenderingMade ==
    ASSUME NEW lane, NEW f, NEW r, NEW q, q = PlanPdfRender(lane, f, r), q.ok = TRUE
    PROVE  SizedAs(f, q)
<1> DEFINE target == IF r.target = "jpg" THEN "jpeg" ELSE r.target
           dpi == IF r.dpi = Unset THEN 144 ELSE r.dpi
           quality == IF r.quality = Unset THEN 85 ELSE r.quality
           sizes == [i \in DOMAIN f.pages |-> ExpectedPage(f.pages[i], dpi)]
           refusal == Refusal(<<
               <<target \notin {"jpeg", "png"}, "Unsupported">>,
               <<dpi \notin 36..600, "InputInvalid">>,
               <<r.color \notin {"rgb", "gray"}, "InputInvalid">>,
               <<target = "jpeg" /\ quality \notin 1..100, "InputInvalid">>,
               <<target = "png" /\ r.quality # Unset, "InputInvalid">>,
               <<\E i \in DOMAIN f.pages : ~SideFits(f.pages[i].w, dpi) \/ ~SideFits(f.pages[i].h, dpi),
                 "ResourceExhausted">>,
               <<\E i \in DOMAIN sizes : sizes[i][1] * sizes[i][2] > MaxPixels, "ResourceExhausted">> >>)
           n == Len(f.pages)
           password == IF r.password \in {"none", ""} THEN "none" ELSE "[redacted]"
           arguments == [pages |-> n, dpi |-> dpi, color |-> r.color, sizes |-> sizes,
                         password |-> password]
           plan0 == PlanOfStep(lane, target, "render",
                               IF target = "png" THEN "lossless" ELSE "lossy", arguments)
<1>1. q = IF refusal # "accepted" THEN Refused(refusal) ELSE plan0
  BY DEF PlanPdfRender
<1>2. \A z : Refused(z).ok # TRUE
  BY DEF Refused
<1>3. sizes = [i \in DOMAIN f.pages |-> ExpectedPage(f.pages[i], dpi)]
  OBVIOUS
<1> HIDE DEF refusal, sizes, n, password, dpi
<1>4. arguments.pages = n /\ arguments.sizes = sizes /\ arguments.dpi = dpi
  BY ONLY TRUE
<1> HIDE DEF arguments
<1>5. plan0.operation = "render" /\ plan0.arguments = arguments
  BY PlanOfStepForm
<1> HIDE DEF plan0
<1>6. q = plan0
  BY ONLY <1>1, <1>2, q.ok = TRUE
<1> QED BY <1>3, <1>4, <1>5, <1>6 DEF n, SizedAs

LEMMA PdfFits ==
    ASSUME NEW x, NEW c, CaseAssumption(c), Origin(x, c), x.lane \in PdfAdapters
    PROVE  Rendering(c.file, x) \/ x.operation = "text" \/ Operating(c.file, x, c.request)
<1> DEFINE f == c.file
           r == c.request
           op == c.op
<1>1. x.lane # "Ffmpeg"
  BY DEF PdfAdapters
<1>2. PICK lane : /\ LaneFor(lane, f, r, op) /\ PlannedIn(x, lane, f, r, op)
                  /\ x.lane = lane.adapter
  BY <1>1, OriginLane
<1> DEFINE q == PlanPdf(lane, f, r, op)
<1>3. AsPlanned(x, q)
  BY <1>2 DEF PlannedIn
<1>4. q.ok = TRUE /\ x.operation = q.operation /\ x.arguments = q.arguments
  BY <1>3 DEF AsPlanned
<1>5. op \in PdfOperations \cup {"none"} /\ "none" \notin PdfOperations
  BY <1>2 DEF LaneFor, PdfOperations
<1> DEFINE password == IF r.password = "" THEN "none" ELSE r.password
           refusal == InspectPdf(f, password)
<1>6. CASE op # "none"
  <2>1. q = PlanPdfOperation(lane, f, r, op) /\ op \in PdfOperations
    BY <1>5, <1>6 DEF PlanPdf
  <2>2. lane = OperationLane(op)
    BY <1>2, <1>6 DEF LaneFor
  <2> HIDE DEF q, f, r, op
  <2>3. OperatesAs(f, q, r, op)
    BY ONLY <1>4, <2>1, OperationMade
  <2>4. Operating(f, x, r)
    BY ONLY <1>2, <1>4, <2>1, <2>2, <2>3 DEF Operating, OperatesAs
  <2> QED BY <2>4 DEF f, r
<1>7. CASE op = "none"
  <2>1. refusal = "accepted"
    <3>1. refusal # "accepted" => q = Refused(refusal)
      BY <1>7 DEF PlanPdf
    <3>2. \A z : Refused(z).ok # TRUE
      BY DEF Refused
    <3> HIDE DEF q, refusal
    <3> QED BY <1>4, <3>1, <3>2
  <2>2. CASE lane.adapter = "Pdftotext"
    <3>1. q = PlanPdfText(lane, f)
      BY <1>7, <2>1, <2>2 DEF PlanPdf
    <3>2. q.operation = "text"
      BY <3>1, PlanOfStepForm DEF PlanPdfText
    <3> QED BY <1>4, <3>2
  <2>3. CASE lane.adapter # "Pdftotext"
    <3>1. q = PlanPdfRender(lane, f, r)
      BY <1>7, <2>1, <2>3 DEF PlanPdf
    <3> HIDE DEF q, f, r
    <3>2. SizedAs(f, q)
      BY ONLY <1>4, <3>1, RenderingMade
    <3>3. Rendering(f, x)
      BY <1>4, <2>1, <3>2 DEF Rendering, SizedAs
    <3> QED BY <3>3 DEF f
  <2> QED BY <2>2, <2>3
<1> QED BY <1>6, <1>7

LEMMA OneMore ==
    ASSUME NEW S, NEW x \in S, NEW t \in Seq(S), NEW g, g = <<x>> \o t
    PROVE  g \in Seq(S) /\ g # <<>> /\ g[1] = x
<1> DEFINE s == <<x>>
<1>1. s \in Seq(S) /\ Len(s) = 1 /\ s[1] = x /\ g = s \o t
  OBVIOUS
<1> HIDE DEF s
<1>2. g \in Seq(S) /\ Len(g) = Len(s) + Len(t) /\ Len(t) \in Nat
  BY <1>1
<1>3. g[1] = s[1]
  BY <1>1
<1>4. Len(g) # 0
  BY ONLY <1>1, <1>2
<1> QED BY <1>1, <1>2, <1>3, <1>4

\* the pages of the inputs of a merge, and those of a range
LEMMA MergedPages ==
    ASSUME NEW f, NEW r, PdfFile(f), r.more \in Seq(ToSet(r.more)),
           \A g \in ToSet(r.more) : PdfFile(g),
           OperationInspection(f, r, "pdf-merge") = "accepted"
    PROVE  /\ InspectPdf(f, "none") = "accepted"
           /\ PagesOf(MergeInputs(f, r)) \in Seq(Sized) /\ PagesOf(MergeInputs(f, r)) # <<>>
<1> DEFINE files == MergeInputs(f, r)
           F == {f} \cup ToSet(r.more)
           n == Len(files)
           bad == {i \in DOMAIN files : InspectPdf(files[i], "none") # "accepted"}
           T == ToSet(r.more)
<1>1. files \in Seq(F) /\ files # <<>> /\ files[1] = f
  <2>1. r.more \in Seq(F) /\ files = <<f>> \o r.more
    <3>1. r.more \in Seq(T) /\ T \subseteq F
      OBVIOUS
    <3>2. files = <<f>> \o r.more
      BY DEF MergeInputs
    <3> HIDE DEF F, T, files
    <3>3. r.more \in Seq(F)
      BY ONLY <3>1
    <3> QED BY <3>2, <3>3
  <2>2. f \in F
    OBVIOUS
  <2> HIDE DEF F, files
  <2> QED BY ONLY <2>1, <2>2, OneMore
<1> HIDE DEF files, F
<1>2. n \in Nat /\ DOMAIN files = 1..n /\ 1 \in 1..n /\ \A i \in 1..n : files[i] \in F
  BY ONLY <1>1
<1> HIDE DEF n
<1>3. bad = {}
  <2>1. OperationInspection(f, r, "pdf-merge") =
           IF bad = {} THEN "accepted" ELSE InspectPdf(files[Min(bad)], "none")
    <3> DEFINE op == "pdf-merge"
    <3>1. op = "pdf-merge"
      OBVIOUS
    <3> HIDE DEF op
    <3>2. OperationInspection(f, r, op) =
             IF bad = {} THEN "accepted" ELSE InspectPdf(files[Min(bad)], "none")
      BY <3>1 DEF OperationInspection, files
    <3> QED BY <3>2 DEF op
  <2>2. SUFFICES ASSUME bad # {} PROVE FALSE
    OBVIOUS
  <2>3. bad \subseteq Nat
    BY <1>2
  <2>4. Min(bad) \in bad
    BY ONLY <2>2, <2>3, MinIsLeast
  <2>5. InspectPdf(files[Min(bad)], "none") # "accepted"
    BY <2>4
  <2> HIDE DEF bad
  <2> QED BY <2>1, <2>2, <2>5
<1>4. \A i \in 1..n : InspectPdf(files[i], "none") = "accepted"
  BY <1>2, <1>3
<1>5. \A g \in F : PdfFile(g)
  BY DEF F
<1> DEFINE ss == [i \in DOMAIN files |-> files[i].pages]
           Q == Sized
<1>6. \A i \in 1..n : files[i].pages \in Seq(Q) /\ files[i].pages # <<>>
  <2> TAKE i \in 1..n
  <2> DEFINE g == files[i]
  <2>1. PdfFile(g) /\ InspectPdf(g, "none") = "accepted"
    BY <1>2, <1>4, <1>5
  <2> HIDE DEF g
  <2>2. g.pages \in Seq(Sized) /\ g.pages # <<>>
    BY ONLY <2>1, PagesOfPdf
  <2> QED BY <2>2 DEF g
<1> HIDE DEF Q
<1>7. ss \in Seq(Seq(Q)) /\ ss # <<>> /\ ss[1] # <<>>
  <2>1. ss = [i \in 1..n |-> files[i].pages]
    BY <1>2
  <2> HIDE DEF ss
  <2>2. ss \in Seq(Seq(Q)) /\ Len(ss) = n
    BY ONLY <1>2, <1>6, <2>1
  <2>3. ss[1] # <<>>
    BY ONLY <1>2, <1>6, <2>1
  <2>4. ss # <<>>
    BY ONLY <1>2, <2>2
  <2> QED BY ONLY <2>2, <2>3, <2>4
<1>8. PagesOf(files) = FlattenSeq(ss)
  BY DEF PagesOf
<1> HIDE DEF ss
<1>9. FlattenSeq(ss) \in Seq(Q) /\ FlattenSeq(ss) # <<>>
  <2> DEFINE t == FlattenSeq(ss)
             s == ss[1]
  <2>1. t \in Seq(Q) /\ Len(s) <= Len(t)
    BY ONLY <1>7, FlattenedMembers, FlattenedFirst
  <2>2. s \in Seq(Q) /\ s # <<>>
    BY ONLY <1>7
  <2> HIDE DEF t, s
  <2>3. Len(s) \in Nat /\ Len(s) # 0
    BY ONLY <2>2
  <2>4. t # <<>>
    BY ONLY <2>1, <2>3
  <2> QED BY <2>1, <2>4 DEF t
<1> QED BY <1>1, <1>2, <1>4, <1>8, <1>9 DEF files, Q

LEMMA TakenPages ==
    ASSUME NEW count \in Nat, NEW parts \in Seq(Int \X Int),
           RangeRefusal(parts, count) = "accepted"
    PROVE  PagesOfRange(parts) \in Seq(1..count) /\ PagesOfRange(parts) # <<>>
<1> DEFINE n == Len(parts)
           C == 1..count
           P == Int \X Int
<1>1. parts # <<>> /\ \A i \in DOMAIN parts : /\ parts[i][1] \in 1..parts[i][2]
                                              /\ parts[i][2] <= count
  BY DEF RangeRefusal
<1>2. \A p \in P : p[1] \in Int /\ p[2] \in Int
  OBVIOUS
<1> HIDE DEF P
<1>3. n \in Nat /\ DOMAIN parts = 1..n /\ \A i \in 1..n : parts[i] \in P
  BY DEF P
<1>4. n # 0
  BY ONLY <1>1, parts \in Seq(Int \X Int)
<1> HIDE DEF n
<1>5. \A i \in 1..n : /\ parts[i][1] \in Int /\ parts[i][2] \in Int
                      /\ parts[i][1] \in 1..parts[i][2] /\ parts[i][2] <= count
  BY ONLY <1>1, <1>2, <1>3
<1> DEFINE part(i) == [k \in 1..(parts[i][2] - parts[i][1] + 1) |-> parts[i][1] + k - 1]
           ss == [i \in DOMAIN parts |-> part(i)]
<1>6. \A i \in 1..n : part(i) \in Seq(C) /\ part(i) # <<>>
  <2> TAKE i \in 1..n
  <2> DEFINE a == parts[i][1]
             b == parts[i][2]
             s == part(i)
  <2>1. a \in Int /\ b \in Int /\ a \in 1..b /\ b <= count
    BY <1>5
  <2>2. s = [k \in 1..(b - a + 1) |-> a + k - 1]
    OBVIOUS
  <2> HIDE DEF a, b, s, C
  <2> DEFINE m == b - a + 1
  <2>3. m \in Nat /\ m # 0 /\ \A k \in 1..m : a + k - 1 \in 1..count
    BY ONLY <2>1, count \in Nat
  <2>4. \A k \in 1..m : a + k - 1 \in C
    BY <2>3 DEF C
  <2>5. s = [k \in 1..m |-> a + k - 1]
    BY <2>2
  <2> HIDE DEF m
  <2>6. s \in Seq(C) /\ Len(s) = m
    BY ONLY <2>3, <2>4, <2>5
  <2>7. s # <<>>
    BY ONLY <2>3, <2>6
  <2> QED BY <2>6, <2>7 DEF s
<1>7. PagesOfRange(parts) = FlattenSeq(ss)
  BY DEF PagesOfRange
<1> HIDE DEF part, C
<1>8. ss \in Seq(Seq(C)) /\ Len(ss) = n /\ ss[1] # <<>> /\ ss # <<>>
  <2>1. ss = [i \in 1..n |-> part(i)]
    BY <1>3
  <2> HIDE DEF ss
  <2>2. ss \in Seq(Seq(C)) /\ Len(ss) = n
    BY ONLY <1>3, <1>6, <2>1
  <2>3. 1 \in 1..n
    BY ONLY <1>3, <1>4
  <2>4. ss[1] # <<>>
    BY ONLY <1>6, <2>1, <2>3
  <2>5. ss # <<>>
    BY ONLY <1>3, <1>4, <2>2
  <2> QED BY ONLY <2>2, <2>4, <2>5
<1> HIDE DEF ss
<1>9. FlattenSeq(ss) \in Seq(C) /\ FlattenSeq(ss) # <<>>
  <2> DEFINE t == FlattenSeq(ss)
             s == ss[1]
  <2>1. t \in Seq(C) /\ Len(s) <= Len(t)
    BY ONLY <1>8, FlattenedMembers, FlattenedFirst
  <2>2. s \in Seq(C) /\ s # <<>>
    BY ONLY <1>8
  <2> HIDE DEF t, s
  <2>3. Len(s) \in Nat /\ Len(s) # 0
    BY ONLY <2>2
  <2>4. t # <<>>
    BY ONLY <2>1, <2>3
  <2> QED BY <2>1, <2>4 DEF t
<1> QED BY <1>7, <1>9 DEF C

\* a document that can be read: without a lock, and with n pages that have sizes
Legible(o, n) ==
    /\ n \in Nat /\ n # 0 /\ o.container = "pdf" /\ o.lock = "none"
    /\ DOMAIN o.pages = 1..n /\ Len(o.pages) = n
    /\ \A i \in 1..n : ~(o.pages[i].w <= 0) /\ ~(o.pages[i].h <= 0)

LEMMA LegibleOpens ==
    ASSUME NEW o, NEW n, Legible(o, n), DetailsFit(o.pages)
    PROVE  InspectPdf(o, "none") = "accepted"
BY OpensAgain DEF Legible

LEMMA SizedPages ==
    ASSUME NEW s \in Seq(Sized), s # <<>>, NEW n, n = Len(s)
    PROVE  /\ n \in Nat /\ n # 0 /\ DOMAIN s = 1..n
           /\ \A i \in 1..n : s[i] \in Page /\ ~(s[i].w <= 0) /\ ~(s[i].h <= 0)
<1> DEFINE Q == Sized
<1> HIDE DEF Q
<1>1. s \in Seq(Q) /\ s # <<>> /\ n = Len(s)
  BY DEF Q
<1>2. n \in Nat /\ n # 0 /\ DOMAIN s = 1..n /\ \A i \in 1..n : s[i] \in Q
  BY ONLY <1>1
<1>3. \A p \in Q : p \in Page /\ ~(p.w <= 0) /\ ~(p.h <= 0)
  BY DEF Q, Sized
<1> QED BY <1>2, <1>3

\* what replaces one field of a document leaves the others
LEMMA FieldReplaced ==
    ASSUME NEW f, NEW v, {"container", "lock", "pages", "title"} \subseteq DOMAIN f
    PROVE  /\ LET o == [f EXCEPT !.pages = v]
              IN o.pages = v /\ o.lock = f.lock /\ o.container = f.container /\ o.title = f.title
           /\ LET o == [f EXCEPT !.lock = v]
              IN o.lock = v /\ o.pages = f.pages /\ o.container = f.container /\ o.title = f.title
           /\ LET o == [f EXCEPT !.title = v]
              IN o.title = v /\ o.pages = f.pages /\ o.container = f.container /\ o.lock = f.lock
OBVIOUS

\* what the engine of an operation writes
LEMMA EngineOfOperation ==
    ASSUME NEW f, NEW x, NEW g, NEW o, o = PdfEngine(f, x, g), NEW op, op = x.operation
    PROVE  /\ op = "pdf-merge" => o = [f EXCEPT !.pages = PagesOf(x.arguments.inputs)]
           /\ op = "pdf-extract" => o = [f EXCEPT !.pages = PickPages(f.pages, x.arguments.parts)]
           /\ op = "pdf-encrypt" => o = [f EXCEPT !.lock = g]
           /\ op = "pdf-decrypt" => o = [f EXCEPT !.lock = "none"]
           /\ op = "pdf-metadata" => o = [f EXCEPT !.title = Titled(x.arguments.text)]
           /\ op = "pdf-compress" => o = f
<1>1. ASSUME op = "pdf-merge" PROVE o = [f EXCEPT !.pages = PagesOf(x.arguments.inputs)]
  <2>1. x.operation = "pdf-merge" /\ x.operation # "render"
        /\ x.operation \notin {"text", "pdf-ocr"} /\ x.operation # "pdf-extract"
        /\ x.operation # "pdf-rotate" /\ x.operation # "pdf-encrypt" /\ x.operation # "pdf-decrypt"
        /\ x.operation # "pdf-watermark" /\ x.operation # "pdf-metadata"
    BY <1>1
  <2> QED BY ONLY <2>1, o = PdfEngine(f, x, g), Zenon DEF PdfEngine
<1>2. ASSUME op = "pdf-extract"
      PROVE  o = [f EXCEPT !.pages = PickPages(f.pages, x.arguments.parts)]
  <2>1. x.operation = "pdf-extract" /\ x.operation # "render"
        /\ x.operation \notin {"text", "pdf-ocr"} /\ x.operation # "pdf-merge"
        /\ x.operation # "pdf-rotate" /\ x.operation # "pdf-encrypt" /\ x.operation # "pdf-decrypt"
        /\ x.operation # "pdf-watermark" /\ x.operation # "pdf-metadata"
    BY <1>2
  <2> QED BY ONLY <2>1, o = PdfEngine(f, x, g), Zenon DEF PdfEngine
<1>3. ASSUME op = "pdf-encrypt" PROVE o = [f EXCEPT !.lock = g]
  <2>1. x.operation = "pdf-encrypt" /\ x.operation # "render"
        /\ x.operation \notin {"text", "pdf-ocr"} /\ x.operation # "pdf-merge"
        /\ x.operation # "pdf-rotate" /\ x.operation # "pdf-extract" /\ x.operation # "pdf-decrypt"
        /\ x.operation # "pdf-watermark" /\ x.operation # "pdf-metadata"
    BY <1>3
  <2> QED BY ONLY <2>1, o = PdfEngine(f, x, g), Zenon DEF PdfEngine
<1>4. ASSUME op = "pdf-decrypt" PROVE o = [f EXCEPT !.lock = "none"]
  <2>1. x.operation = "pdf-decrypt" /\ x.operation # "render"
        /\ x.operation \notin {"text", "pdf-ocr"} /\ x.operation # "pdf-merge"
        /\ x.operation # "pdf-rotate" /\ x.operation # "pdf-extract" /\ x.operation # "pdf-encrypt"
        /\ x.operation # "pdf-watermark" /\ x.operation # "pdf-metadata"
    BY <1>4
  <2> QED BY ONLY <2>1, o = PdfEngine(f, x, g), Zenon DEF PdfEngine
<1>5. ASSUME op = "pdf-metadata" PROVE o = [f EXCEPT !.title = Titled(x.arguments.text)]
  <2>1. x.operation = "pdf-metadata" /\ x.operation # "render"
        /\ x.operation \notin {"text", "pdf-ocr"} /\ x.operation # "pdf-merge"
        /\ x.operation # "pdf-rotate" /\ x.operation # "pdf-extract" /\ x.operation # "pdf-encrypt"
        /\ x.operation # "pdf-watermark" /\ x.operation # "pdf-decrypt"
    BY <1>5
  <2> QED BY ONLY <2>1, o = PdfEngine(f, x, g), Zenon DEF PdfEngine
<1>6. ASSUME op = "pdf-compress" PROVE o = f
  <2>1. /\ x.operation # "render" /\ x.operation \notin {"text", "pdf-ocr"}
        /\ x.operation # "pdf-merge" /\ x.operation # "pdf-rotate" /\ x.operation # "pdf-extract"
        /\ x.operation # "pdf-encrypt" /\ x.operation # "pdf-watermark"
        /\ x.operation # "pdf-decrypt" /\ x.operation # "pdf-metadata"
    BY <1>6
  <2> QED BY ONLY <2>1, o = PdfEngine(f, x, g), Zenon DEF PdfEngine
<1> QED BY <1>1, <1>2, <1>3, <1>4, <1>5, <1>6

\* the pages that are turned and those that are stamped
RotatedPages(f, x) ==
    [i \in DOMAIN f.pages |->
        IF x.arguments.parts = <<>> \/ i \in ToSet(PagesOfRange(x.arguments.parts))
        THEN Turned(f.pages[i], x.arguments.angle) ELSE f.pages[i]]
StampedPages(f, x) == [i \in DOMAIN f.pages |-> [f.pages[i] EXCEPT !.mark = x.arguments.text]]

LEMMA EngineOfPages ==
    ASSUME NEW f, NEW x, NEW g, NEW o, o = PdfEngine(f, x, g), NEW op, op = x.operation
    PROVE  /\ op = "pdf-rotate" => o = [f EXCEPT !.pages = RotatedPages(f, x)]
           /\ op = "pdf-watermark" => o = [f EXCEPT !.pages = StampedPages(f, x)]
           /\ op = "render" =>
                 o = [container |-> "pages",
                      images |-> [i \in DOMAIN f.pages |-> Rendered(f.pages[i], x)]]
           /\ op \in {"text", "pdf-ocr"} =>
                 o = [container |-> "text", words |-> \E i \in DOMAIN f.pages : f.pages[i].text,
                      covered |-> Len(f.pages)]
<1>1. ASSUME op = "pdf-rotate" PROVE o = [f EXCEPT !.pages = RotatedPages(f, x)]
  <2>1. x.operation = "pdf-rotate" /\ x.operation # "render"
        /\ x.operation \notin {"text", "pdf-ocr"} /\ x.operation # "pdf-merge"
        /\ x.operation # "pdf-metadata" /\ x.operation # "pdf-extract" /\ x.operation # "pdf-encrypt"
        /\ x.operation # "pdf-watermark" /\ x.operation # "pdf-decrypt"
    BY <1>1
  <2> QED BY ONLY <2>1, o = PdfEngine(f, x, g), Zenon DEF PdfEngine, RotatedPages
<1>2. ASSUME op = "pdf-watermark" PROVE o = [f EXCEPT !.pages = StampedPages(f, x)]
  <2>1. x.operation = "pdf-watermark" /\ x.operation # "render"
        /\ x.operation \notin {"text", "pdf-ocr"} /\ x.operation # "pdf-merge"
        /\ x.operation # "pdf-metadata" /\ x.operation # "pdf-extract" /\ x.operation # "pdf-encrypt"
        /\ x.operation # "pdf-rotate" /\ x.operation # "pdf-decrypt"
    BY <1>2
  <2> QED BY ONLY <2>1, o = PdfEngine(f, x, g), Zenon DEF PdfEngine, StampedPages
<1>3. ASSUME op = "render"
      PROVE  o = [container |-> "pages",
                  images |-> [i \in DOMAIN f.pages |-> Rendered(f.pages[i], x)]]
  <2>1. x.operation = "render"
        /\ x.operation \notin {"text", "pdf-ocr"} /\ x.operation # "pdf-merge"
        /\ x.operation # "pdf-metadata" /\ x.operation # "pdf-extract" /\ x.operation # "pdf-encrypt"
        /\ x.operation # "pdf-rotate" /\ x.operation # "pdf-decrypt"
        /\ x.operation # "pdf-watermark"
    BY <1>3
  <2> QED BY ONLY <2>1, o = PdfEngine(f, x, g), Zenon DEF PdfEngine
<1>4. ASSUME op \in {"text", "pdf-ocr"}
      PROVE  o = [container |-> "text", words |-> \E i \in DOMAIN f.pages : f.pages[i].text,
                  covered |-> Len(f.pages)]
  <2>1. x.operation \in {"text", "pdf-ocr"} /\ x.operation # "render"
        /\ x.operation # "pdf-merge"
        /\ x.operation # "pdf-metadata" /\ x.operation # "pdf-extract" /\ x.operation # "pdf-encrypt"
        /\ x.operation # "pdf-rotate" /\ x.operation # "pdf-decrypt"
        /\ x.operation # "pdf-watermark"
    BY <1>4
  <2> QED BY ONLY <2>1, o = PdfEngine(f, x, g), Zenon DEF PdfEngine
<1> QED BY <1>1, <1>2, <1>3, <1>4

\* what an operation other than a merge and an encryption works on
LEMMA OperatedFile ==
    ASSUME NEW f, NEW r, NEW op, PdfFile(f), op # "pdf-merge",
           OperationInspection(f, r, op) = "accepted"
    PROVE  /\ {"container", "lock", "pages", "title"} \subseteq DOMAIN f
           /\ f.container = "pdf" /\ DetailsFit(f.pages)
           /\ f.pages \in Seq(Sized) /\ f.pages # <<>>
           /\ op # "pdf-decrypt" => f.lock = "none"
<1> DEFINE password == IF op = "pdf-decrypt" THEN r.password ELSE "none"
<1>1. InspectPdf(f, password) = "accepted"
  BY DEF OperationInspection
<1>2. op # "pdf-decrypt" => password = "none"
  OBVIOUS
<1> HIDE DEF password
<1>3. f.container = "pdf" /\ Opens(f, password) /\ DetailsFit(f.pages)
      /\ f.pages \in Seq(Sized) /\ f.pages # <<>>
  BY <1>1, OpenedPdf, PagesOfPdf
<1>4. op # "pdf-decrypt" => f.lock = "none"
  BY <1>2, <1>3 DEF Opens
<1> QED BY <1>3, <1>4 DEF PdfFile

\* the accepted ranges of an operation
LEMMA AcceptedRange ==
    ASSUME NEW f, NEW r, OperationRefusal(f, r, "pdf-extract") = "accepted"
    PROVE  RangeRefusal(r.parts, Len(f.pages)) = "accepted"
<1> DEFINE op == "pdf-extract"
<1>1. op = "pdf-extract" /\ op # "pdf-merge"
  OBVIOUS
<1> HIDE DEF op
<1>2. OperationRefusal(f, r, op) = ExtractRefusal(f, r)
  BY ONLY <1>1, Zenon DEF OperationRefusal
<1>3. ExtractRefusal(f, r) = "accepted"
  BY <1>2 DEF op
<1> QED BY <1>3 DEF ExtractRefusal

LEMMA AcceptedSecret ==
    ASSUME NEW f, NEW r, OperationRefusal(f, r, "pdf-encrypt") = "accepted"
    PROVE  Trim(r.password) # "none"
<1> DEFINE op == "pdf-encrypt"
<1>1. /\ op \in {"pdf-encrypt", "pdf-decrypt"} /\ op # "pdf-merge" /\ op # "pdf-extract"
      /\ op # "pdf-rotate"
  OBVIOUS
<1> HIDE DEF op
<1>2. OperationRefusal(f, r, op) = SecretRefusal(r)
  BY ONLY <1>1, Zenon DEF OperationRefusal
<1>3. SecretRefusal(r) = "accepted"
  BY <1>2 DEF op
<1> QED BY <1>3 DEF SecretRefusal

LEMMA Extracted ==
    ASSUME NEW f, NEW x, NEW r, NEW o, f.pages \in Seq(Sized), f.pages # <<>>,
           r.parts \in Seq(Int \X Int), f.container = "pdf", f.lock = "none",
           {"container", "lock", "pages", "title"} \subseteq DOMAIN f,
           RangeRefusal(r.parts, Len(f.pages)) = "accepted",
           o = [f EXCEPT !.pages = PickPages(f.pages, r.parts)]
    PROVE  Legible(o, Len(PagesOfRange(r.parts)))
<1> DEFINE s == f.pages
           t == PagesOfRange(r.parts)
           n == Len(s)
           m == Len(t)
<1>1. s \in Seq(Sized) /\ s # <<>>
  OBVIOUS
<1>2. n \in Nat /\ n # 0 /\ DOMAIN s = 1..n
      /\ \A i \in 1..n : s[i] \in Page /\ ~(s[i].w <= 0) /\ ~(s[i].h <= 0)
  <2> HIDE DEF s
  <2> QED BY <1>1, SizedPages
<1>3. t \in Seq(1..n) /\ t # <<>>
  BY <1>2, TakenPages
<1>4. o.pages = [i \in DOMAIN t |-> s[t[i]]] /\ o.container = "pdf" /\ o.lock = "none"
  <2> DEFINE v == PickPages(f.pages, r.parts)
  <2>1. o = [f EXCEPT !.pages = v]
    OBVIOUS
  <2>2. v = [i \in DOMAIN t |-> s[t[i]]]
    BY DEF PickPages
  <2> HIDE DEF v
  <2>3. o.pages = v /\ o.lock = f.lock /\ o.container = f.container
    BY <2>1, FieldReplaced
  <2> QED BY <2>2, <2>3
<1> HIDE DEF s, t, n
<1>5. m \in Nat /\ m # 0 /\ DOMAIN t = 1..m /\ \A i \in 1..m : t[i] \in 1..n
  <2> DEFINE C == 1..n
  <2>1. t \in Seq(C) /\ t # <<>>
    BY <1>3
  <2> HIDE DEF C
  <2>2. m \in Nat /\ m # 0 /\ DOMAIN t = 1..m /\ \A i \in 1..m : t[i] \in C
    BY ONLY <2>1
  <2> QED BY <2>2 DEF C
<1>6. DOMAIN o.pages = 1..m /\ Len(o.pages) = m
  BY ONLY <1>4, <1>5
<1>7. \A i \in 1..m : ~(o.pages[i].w <= 0) /\ ~(o.pages[i].h <= 0)
  BY ONLY <1>2, <1>4, <1>5
<1> QED BY <1>4, <1>5, <1>6, <1>7 DEF Legible, t

LEMMA Merged ==
    ASSUME NEW f, NEW v \in Seq(Sized), NEW o, v # <<>>, f.container = "pdf", f.lock = "none",
           {"container", "lock", "pages", "title"} \subseteq DOMAIN f,
           o = [f EXCEPT !.pages = v]
    PROVE  Legible(o, Len(v))
<1> DEFINE n == Len(v)
<1>1. n \in Nat /\ n # 0 /\ DOMAIN v = 1..n
      /\ \A i \in 1..n : v[i] \in Page /\ ~(v[i].w <= 0) /\ ~(v[i].h <= 0)
  BY SizedPages
<1>2. o.pages = v /\ o.lock = "none" /\ o.container = "pdf"
  BY FieldReplaced
<1> HIDE DEF n
<1> QED BY <1>1, <1>2 DEF Legible, n

\* pages that keep their sizes
LEMMA Redrawn ==
    ASSUME NEW f, NEW v, NEW o, f.pages \in Seq(Sized), f.pages # <<>>, f.container = "pdf",
           {"container", "lock", "pages", "title"} \subseteq DOMAIN f, f.lock = "none",
           v = [i \in DOMAIN f.pages |-> v[i]],
           \A i \in DOMAIN f.pages : v[i].w = f.pages[i].w /\ v[i].h = f.pages[i].h,
           o = [f EXCEPT !.pages = v]
    PROVE  Legible(o, Len(f.pages)) /\ o.pages = v
<1> DEFINE s == f.pages
           n == Len(s)
<1>1. s \in Seq(Sized) /\ s # <<>>
  OBVIOUS
<1>2. n \in Nat /\ n # 0 /\ DOMAIN s = 1..n
      /\ \A i \in 1..n : s[i] \in Page /\ ~(s[i].w <= 0) /\ ~(s[i].h <= 0)
  <2> HIDE DEF s
  <2> QED BY <1>1, SizedPages
<1>3. o.pages = v /\ o.lock = "none" /\ o.container = "pdf"
  BY FieldReplaced
<1>4. v = [i \in 1..n |-> v[i]] /\ \A i \in 1..n : v[i].w = s[i].w /\ v[i].h = s[i].h
  BY <1>2
<1> HIDE DEF s, n
<1>5. DOMAIN v = 1..n /\ Len(v) = n
  BY ONLY <1>2, <1>4
<1>6. \A i \in 1..n : ~(v[i].w <= 0) /\ ~(v[i].h <= 0)
  BY <1>2, <1>4
<1> QED BY <1>2, <1>3, <1>5, <1>6 DEF Legible, n, s

LEMMA TurnedPages ==
    ASSUME NEW f, NEW x, f.pages \in Seq(Sized), f.pages # <<>>, NEW v, v = RotatedPages(f, x)
    PROVE  /\ v = [i \in DOMAIN f.pages |-> v[i]]
           /\ \A i \in DOMAIN f.pages : v[i].w = f.pages[i].w /\ v[i].h = f.pages[i].h
<1> DEFINE s == f.pages
           b(i) == x.arguments.parts = <<>> \/ i \in ToSet(PagesOfRange(x.arguments.parts))
           a == x.arguments.angle
<1>1. v = [i \in DOMAIN s |-> IF b(i) THEN Turned(s[i], a) ELSE s[i]]
  BY DEF RotatedPages
<1>2. \A i \in DOMAIN s : s[i] \in Page
  <2>1. s \in Seq(Sized) /\ s # <<>>
    OBVIOUS
  <2> HIDE DEF s
  <2> QED BY <2>1, SizedPages
<1>3. \A p \in Page : Turned(p, a).w = p.w /\ Turned(p, a).h = p.h
  BY DEF Turned, Page
<1> HIDE DEF s, b, a
<1>4. v = [i \in DOMAIN s |-> v[i]] /\ \A i \in DOMAIN s : v[i].w = s[i].w /\ v[i].h = s[i].h
  BY ONLY <1>1, <1>2, <1>3
<1> QED BY <1>4 DEF s

LEMMA MarkedPages ==
    ASSUME NEW f, NEW x, f.pages \in Seq(Sized), f.pages # <<>>, NEW v, v = StampedPages(f, x)
    PROVE  /\ v = [i \in DOMAIN f.pages |-> v[i]]
           /\ \A i \in DOMAIN f.pages : v[i].w = f.pages[i].w /\ v[i].h = f.pages[i].h
           /\ \A i \in DOMAIN f.pages : v[i].mark = x.arguments.text
           /\ DOMAIN f.pages # {}
<1> DEFINE s == f.pages
           m == x.arguments.text
           mark(p) == [p EXCEPT !.mark = m]
<1>1. v = [i \in DOMAIN s |-> mark(s[i])]
  BY DEF StampedPages
<1>2. DOMAIN s # {} /\ \A i \in DOMAIN s : s[i] \in Page
  <2>1. s \in Seq(Sized) /\ s # <<>>
    OBVIOUS
  <2> HIDE DEF s
  <2> DEFINE n == Len(s)
  <2>2. n \in Nat /\ n # 0 /\ DOMAIN s = 1..n /\ \A i \in 1..n : s[i] \in Page
    BY <2>1, SizedPages
  <2> HIDE DEF n
  <2>3. 1 \in 1..n
    BY ONLY <2>2
  <2> QED BY <2>2, <2>3
<1> HIDE DEF m
<1>3. \A p \in Page : mark(p).w = p.w /\ mark(p).h = p.h /\ mark(p).mark = m
  BY DEF Page
<1> HIDE DEF s, mark
<1>4. v = [i \in DOMAIN s |-> v[i]]
      /\ \A i \in DOMAIN s : v[i].w = s[i].w /\ v[i].h = s[i].h /\ v[i].mark = m
  BY ONLY <1>1, <1>2, <1>3
<1> QED BY <1>2, <1>4 DEF s, m

\* what an operation that is no encryption makes of a document can be read, and is as planned
LEMMA OperationsLegible ==
    ASSUME NEW f, NEW x, NEW r, NEW g, NEW o, o = PdfEngine(f, x, g), Operating(f, x, r),
           PdfFile(f), r.parts \in Seq(Int \X Int), r.more \in Seq(ToSet(r.more)),
           \A file \in ToSet(r.more) : PdfFile(file),
           x.operation \notin {"pdf-encrypt", "pdf-ocr"}
    PROVE  /\ Legible(o, x.arguments.expected)
           /\ DetailsFit(o.pages) \/ x.lane = "PdfOps"
           /\ x.operation = "pdf-watermark" =>
                 \E i \in DOMAIN o.pages : o.pages[i].mark = x.arguments.text
           /\ x.operation = "pdf-metadata" => o.title = Titled(x.arguments.text)
<1> DEFINE op == x.operation
           a == x.arguments
<1>0. op \in PdfOperations /\ x.lane = OperationLane(op).adapter /\ OperatesAs(f, x, r, op)
  BY DEF Operating
<1>1. /\ OperationInspection(f, r, op) = "accepted" /\ OperationRefusal(f, r, op) = "accepted"
      /\ op = "pdf-merge" =>
            a.expected = Len(PagesOf(MergeInputs(f, r))) /\ a.inputs = MergeInputs(f, r)
      /\ op = "pdf-extract" => a.expected = Len(PagesOfRange(r.parts)) /\ a.parts = r.parts
      /\ op \notin {"pdf-merge", "pdf-extract"} => a.expected = Len(f.pages)
  BY <1>0 DEF OperatesAs
<1>2. op \notin {"pdf-ocr", "pdf-metadata"} => x.lane = "PdfOps"
  BY <1>0 DEF OperationLane, Lane
<1>3. /\ op = "pdf-merge" => o = [f EXCEPT !.pages = PagesOf(a.inputs)]
      /\ op = "pdf-extract" => o = [f EXCEPT !.pages = PickPages(f.pages, a.parts)]
      /\ op = "pdf-decrypt" => o = [f EXCEPT !.lock = "none"]
      /\ op = "pdf-metadata" => o = [f EXCEPT !.title = Titled(a.text)]
      /\ op = "pdf-compress" => o = f
      /\ op = "pdf-rotate" => o = [f EXCEPT !.pages = RotatedPages(f, x)]
      /\ op = "pdf-watermark" => o = [f EXCEPT !.pages = StampedPages(f, x)]
  <2> HIDE DEF op
  <2>1. op = x.operation
    BY DEF op
  <2> QED BY <2>1, EngineOfOperation, EngineOfPages
<1>4. op # "pdf-merge" =>
         /\ {"container", "lock", "pages", "title"} \subseteq DOMAIN f
         /\ f.container = "pdf" /\ DetailsFit(f.pages)
         /\ f.pages \in Seq(Sized) /\ f.pages # <<>>
         /\ op # "pdf-decrypt" => f.lock = "none"
  <2> HIDE DEF op
  <2> QED BY <1>1, OperatedFile
<1> HIDE DEF op, a
<1>5. CASE op = "pdf-merge"
  <2> DEFINE v == PagesOf(MergeInputs(f, r))
  <2>1. OperationInspection(f, r, "pdf-merge") = "accepted"
    BY <1>1, <1>5
  <2>2. InspectPdf(f, "none") = "accepted" /\ v \in Seq(Sized) /\ v # <<>>
    BY <2>1, MergedPages
  <2>3. /\ f.container = "pdf" /\ f.lock = "none"
        /\ {"container", "lock", "pages", "title"} \subseteq DOMAIN f
    BY <2>2, OpenedPdf DEF Opens, PdfFile
  <2>4. o = [f EXCEPT !.pages = v] /\ a.expected = Len(v)
    BY <1>1, <1>3, <1>5
  <2> HIDE DEF v
  <2>5. Legible(o, Len(v))
    BY ONLY <2>2, <2>3, <2>4, Merged
  <2> QED BY <1>2, <1>5, <2>4, <2>5 DEF op, a
<1>6. CASE op = "pdf-extract"
  <2>1. OperationRefusal(f, r, "pdf-extract") = "accepted"
    BY <1>1, <1>6
  <2>2. RangeRefusal(r.parts, Len(f.pages)) = "accepted"
    BY <2>1, AcceptedRange
  <2>3. o = [f EXCEPT !.pages = PickPages(f.pages, r.parts)]
        /\ a.expected = Len(PagesOfRange(r.parts))
    BY <1>1, <1>3, <1>6
  <2>4. Legible(o, Len(PagesOfRange(r.parts)))
    BY <1>4, <1>6, <2>2, <2>3, Extracted
  <2> QED BY <1>2, <1>6, <2>3, <2>4 DEF op, a
<1>7. CASE op = "pdf-rotate"
  <2> DEFINE v == RotatedPages(f, x)
  <2>1. /\ v = [i \in DOMAIN f.pages |-> v[i]]
        /\ \A i \in DOMAIN f.pages : v[i].w = f.pages[i].w /\ v[i].h = f.pages[i].h
    BY <1>4, <1>7, TurnedPages
  <2>2. o = [f EXCEPT !.pages = v] /\ a.expected = Len(f.pages)
    BY <1>1, <1>3, <1>7
  <2> HIDE DEF v
  <2>3. Legible(o, Len(f.pages))
    BY <1>4, <1>7, <2>1, <2>2, Redrawn
  <2> QED BY <1>2, <1>7, <2>2, <2>3 DEF op, a
<1>8. CASE op = "pdf-watermark"
  <2> DEFINE v == StampedPages(f, x)
  <2>0. v = StampedPages(f, x)
    OBVIOUS
  <2> HIDE DEF v
  <2>1. /\ v = [i \in DOMAIN f.pages |-> v[i]]
        /\ \A i \in DOMAIN f.pages : v[i].w = f.pages[i].w /\ v[i].h = f.pages[i].h
        /\ \A i \in DOMAIN f.pages : v[i].mark = x.arguments.text
        /\ DOMAIN f.pages # {}
    BY <1>4, <1>8, <2>0, MarkedPages
  <2>2. o = [f EXCEPT !.pages = v] /\ a.expected = Len(f.pages)
    BY <1>1, <1>3, <1>8, <2>0
  <2>3. Legible(o, Len(f.pages)) /\ o.pages = v
    BY <1>4, <1>8, <2>1, <2>2, Redrawn
  <2>4. DOMAIN v = DOMAIN f.pages
    BY ONLY <2>1
  <2>5. \E i \in DOMAIN o.pages : o.pages[i].mark = x.arguments.text
    BY ONLY <2>1, <2>3, <2>4
  <2> QED BY <1>2, <1>8, <2>2, <2>3, <2>5 DEF op, a
<1>9. CASE op \in {"pdf-decrypt", "pdf-metadata", "pdf-compress"}
  <2> DEFINE s == f.pages
             n == Len(s)
  <2>1. /\ s \in Seq(Sized) /\ s # <<>> /\ f.container = "pdf" /\ DetailsFit(s)
        /\ {"container", "lock", "pages", "title"} \subseteq DOMAIN f
        /\ op # "pdf-decrypt" => f.lock = "none"
    BY <1>4, <1>9
  <2>2. a.expected = n
    BY <1>1, <1>9
  <2>3. /\ o.pages = s /\ o.container = "pdf" /\ o.lock = "none"
        /\ op = "pdf-metadata" => o.title = Titled(a.text)
    <3>1. CASE op = "pdf-decrypt"
      BY <1>3, <2>1, <3>1, FieldReplaced
    <3>2. CASE op = "pdf-metadata"
      BY <1>3, <2>1, <3>2, FieldReplaced
    <3>3. CASE op = "pdf-compress"
      BY <1>3, <2>1, <3>3
    <3> QED BY <1>9, <3>1, <3>2, <3>3
  <2> HIDE DEF s
  <2>4. n \in Nat /\ n # 0 /\ DOMAIN s = 1..n
        /\ \A i \in 1..n : s[i] \in Page /\ ~(s[i].w <= 0) /\ ~(s[i].h <= 0)
    BY <2>1, SizedPages
  <2>5. Legible(o, n) /\ DetailsFit(o.pages)
    BY <2>1, <2>3, <2>4 DEF Legible
  <2> QED BY <1>9, <2>2, <2>3, <2>5 DEF op, a
<1> QED BY <1>0, <1>5, <1>6, <1>7, <1>8, <1>9 DEF op, PdfOperations

\* which check a document has to pass
LEMMA ChecksOfPdf ==
    ASSUME NEW o, NEW x, NEW op, op = x.operation
    PROVE  /\ op = "render" => (ValidatePdf(o, x) = "fail" <=> RenderFails(o, x))
           /\ op \in {"text", "pdf-ocr"} => (ValidatePdf(o, x) = "fail" <=> TextFails(o, x))
           /\ op = "pdf-encrypt" => (ValidatePdf(o, x) = "fail" <=> EncryptFails(o))
           /\ op \notin {"render", "text", "pdf-ocr", "pdf-encrypt"} =>
                 (ValidatePdf(o, x) = "fail" <=> OperationFails(o, x))
<1> DEFINE v == ValidatePdf(o, x)
           said(fails) == IF fails THEN "fail" ELSE "pass"
<1>0. "fail" # "pass"
  OBVIOUS
<1>1. ASSUME op = "render" PROVE v = "fail" <=> RenderFails(o, x)
  <2>1. /\ x.operation = "render" /\ x.operation \notin {"text", "pdf-ocr"}
        /\ x.operation # "pdf-encrypt"
    BY <1>1
  <2>2. v = said(RenderFails(o, x))
    BY ONLY <2>1, Zenon DEF ValidatePdf
  <2> QED BY ONLY <1>0, <2>2, Zenon
<1>2. ASSUME op \in {"text", "pdf-ocr"} PROVE v = "fail" <=> TextFails(o, x)
  <2>1. /\ x.operation # "render" /\ x.operation \in {"text", "pdf-ocr"}
        /\ x.operation # "pdf-encrypt"
    BY <1>2
  <2>2. v = said(TextFails(o, x))
    BY ONLY <2>1, Zenon DEF ValidatePdf
  <2> QED BY ONLY <1>0, <2>2, Zenon
<1>3. ASSUME op = "pdf-encrypt" PROVE v = "fail" <=> EncryptFails(o)
  <2>1. /\ x.operation # "render" /\ x.operation \notin {"text", "pdf-ocr"}
        /\ x.operation = "pdf-encrypt"
    BY <1>3
  <2>2. v = said(EncryptFails(o))
    BY ONLY <2>1, Zenon DEF ValidatePdf
  <2> QED BY ONLY <1>0, <2>2, Zenon
<1>4. ASSUME op \notin {"render", "text", "pdf-ocr", "pdf-encrypt"}
      PROVE  v = "fail" <=> OperationFails(o, x)
  <2>1. /\ x.operation # "render" /\ x.operation \notin {"text", "pdf-ocr"}
        /\ x.operation # "pdf-encrypt"
    BY <1>4
  <2>2. v = said(OperationFails(o, x))
    BY ONLY <2>1, Zenon DEF ValidatePdf
  <2> QED BY ONLY <1>0, <2>2, Zenon
<1> QED BY <1>1, <1>2, <1>3, <1>4

\* the password of an encryption
LEMMA Encrypted ==
    ASSUME NEW f, NEW x, NEW r, NEW o, Operating(f, x, r), x.operation = "pdf-encrypt", x.ok,
           PdfFile(f), o = PdfEngine(f, x, Given(x, r))
    PROVE  ~EncryptFails(o)
<1> DEFINE g == Given(x, r)
<1>1. /\ OperationInspection(f, r, "pdf-encrypt") = "accepted"
      /\ OperationRefusal(f, r, "pdf-encrypt") = "accepted"
      /\ "password" \in DOMAIN x.arguments
      /\ x.arguments.password = "[redacted]"
  <2>1. OperatesAs(f, x, r, "pdf-encrypt")
    BY DEF Operating
  <2> QED BY <2>1 DEF OperatesAs
<1>2. g = Trim(r.password)
  BY <1>1 DEF Given, Redacted, Registered
<1>3. g # "none"
  BY <1>1, <1>2, AcceptedSecret
<1> HIDE DEF g
<1>4. {"container", "lock", "pages", "title"} \subseteq DOMAIN f
  <2> DEFINE op == "pdf-encrypt"
  <2>1. op # "pdf-merge" /\ OperationInspection(f, r, op) = "accepted"
    BY <1>1
  <2> HIDE DEF op
  <2> QED BY ONLY <2>1, PdfFile(f), OperatedFile
<1>5. o = [f EXCEPT !.lock = g]
  <2>1. o = PdfEngine(f, x, g)
    BY DEF g
  <2> QED BY <2>1, EngineOfOperation
<1>6. o.lock = g
  BY <1>4, <1>5, FieldReplaced
<1>7. InspectPdf(o, "none") # "accepted"
  BY <1>3, <1>6, OpenedPdf DEF Opens
<1> QED BY <1>7 DEF EncryptFails

\* a rendering has the pages of the document in their sizes
LEMMA RenderedPages ==
    ASSUME NEW f, NEW x, NEW g, NEW o, Rendering(f, x), PdfFile(f), o = PdfEngine(f, x, g)
    PROVE  /\ o.container = "pages" /\ Len(o.images) = Len(f.pages) /\ Len(f.pages) \in Nat
           /\ DOMAIN o.images = 1..Len(f.pages) /\ Len(f.pages) # 0
           /\ x.arguments.pages = Len(f.pages)
           /\ \A i \in 1..Len(f.pages) : /\ o.images[i].size = x.arguments.sizes[i]
                                         /\ o.images[i].format = x.target
                                         /\ x.arguments.color = "gray" => o.images[i].gray
           /\ o = [container |-> "pages", images |-> o.images]
<1> DEFINE s == f.pages
           n == Len(s)
           d == x.arguments.dpi
<1>1. x.operation = "render" /\ x.arguments.pages = n
      /\ x.arguments.sizes = [i \in DOMAIN s |-> ExpectedPage(s[i], d)]
  BY DEF Rendering, SizedAs
<1>2. s \in Seq(Sized) /\ s # <<>>
  BY PagesOfPdf DEF Rendering
<1>3. o = [container |-> "pages", images |-> [i \in DOMAIN s |-> Rendered(s[i], x)]]
  BY <1>1, EngineOfPages
<1>4. \A p : /\ Rendered(p, x).size = ExpectedPage(p, d) /\ Rendered(p, x).format = x.target
             /\ x.arguments.color = "gray" => Rendered(p, x).gray
  BY DEF Rendered
<1> HIDE DEF s, d
<1>5. n \in Nat /\ n # 0 /\ DOMAIN s = 1..n
  BY <1>2, SizedPages
<1> HIDE DEF n
<1>6. o.container = "pages" /\ o.images = [i \in 1..n |-> Rendered(s[i], x)]
      /\ o = [container |-> "pages", images |-> o.images]
  BY ONLY <1>3, <1>5
<1>7. DOMAIN o.images = 1..n /\ Len(o.images) = n
      /\ \A i \in 1..n : o.images[i] = Rendered(s[i], x)
  BY ONLY <1>5, <1>6
<1>8. \A i \in 1..n : x.arguments.sizes[i] = ExpectedPage(s[i], d)
  BY <1>1, <1>5
<1> QED BY <1>1, <1>4, <1>5, <1>6, <1>7, <1>8 DEF n, s

\* what is judged of a PDF plan
PdfJudged(f, x, r, g) ==
    /\ x.ok /\ PdfFile(f) /\ (\A file \in ToSet(r.more) : PdfFile(file))
    /\ r.parts \in Seq(Int \X Int) /\ r.more \in Seq(ToSet(r.more)) /\ g = Given(x, r)
    /\ Rendering(f, x) \/ x.operation = "text" \/ Operating(f, x, r)

LEMMA PdfHonest ==
    ASSUME NEW f, NEW x, NEW r, NEW g, PdfJudged(f, x, r, g), NEW o, o = PdfEngine(f, x, g),
           ValidatePdf(o, x) = "fail"
    PROVE  \/ x.operation = "pdf-metadata" /\ x.arguments.text = "cjk"
           \/ x.operation \in {"text", "pdf-ocr"} /\ \A i \in DOMAIN f.pages : ~f.pages[i].text
           \/ x.lane = "PdfOps" /\ ~DetailsFit(o.pages)
<1> DEFINE op == x.operation
<1>1. op = x.operation
  OBVIOUS
<1> HIDE DEF op
<1>2. /\ op = "render" => (ValidatePdf(o, x) = "fail" <=> RenderFails(o, x))
      /\ op \in {"text", "pdf-ocr"} => (ValidatePdf(o, x) = "fail" <=> TextFails(o, x))
      /\ op = "pdf-encrypt" => (ValidatePdf(o, x) = "fail" <=> EncryptFails(o))
      /\ op \notin {"render", "text", "pdf-ocr", "pdf-encrypt"} =>
            (ValidatePdf(o, x) = "fail" <=> OperationFails(o, x))
  BY ONLY <1>1, ChecksOfPdf
<1>3. CASE op = "render"
  <2>1. Rendering(f, x)
    BY <1>1, <1>3 DEF PdfJudged, Operating, PdfOperations
  <2> DEFINE n == Len(f.pages)
  <2>2. /\ Len(o.images) = n /\ DOMAIN o.images = 1..n /\ x.arguments.pages = n
        /\ \A i \in 1..n : /\ o.images[i].size = x.arguments.sizes[i]
                           /\ o.images[i].format = x.target
                           /\ x.arguments.color = "gray" => o.images[i].gray
    BY <2>1, RenderedPages DEF PdfJudged
  <2> HIDE DEF n
  <2>3. ~RenderFails(o, x)
    BY <2>2 DEF RenderFails
  <2> QED BY <1>2, <1>3, <2>3
<1>4. CASE op \in {"text", "pdf-ocr"}
  <2> DEFINE any == \E i \in DOMAIN f.pages : f.pages[i].text
             n == Len(f.pages)
  <2>1. o = [container |-> "text", words |-> any, covered |-> n]
    BY <1>1, <1>4, EngineOfPages
  <2>2. op = "pdf-ocr" => x.arguments.expected = n
    <3>1. SUFFICES ASSUME op = "pdf-ocr" PROVE x.arguments.expected = n
      OBVIOUS
    <3>2. OperatesAs(f, x, r, op)
      BY <1>1, <3>1 DEF PdfJudged, Rendering, SizedAs, Operating
    <3> QED BY <3>1, <3>2 DEF OperatesAs
  <2>3. TextFails(o, x)
    BY <1>2, <1>4
  <2> HIDE DEF any, n
  <2>4. o.covered = n /\ (o.words <=> any)
    BY ONLY <2>1
  <2>5. ~any
    BY <1>1, <2>2, <2>3, <2>4 DEF TextFails
  <2> QED BY <1>1, <1>4, <2>5 DEF any
<1>5. CASE op = "pdf-encrypt"
  <2>1. Operating(f, x, r)
    BY <1>1, <1>5 DEF PdfJudged, Rendering, SizedAs
  <2>2. ~EncryptFails(o)
    BY <1>1, <1>5, <2>1, Encrypted DEF PdfJudged
  <2> QED BY <1>2, <1>5, <2>2
<1>6. CASE op \notin {"render", "text", "pdf-ocr", "pdf-encrypt"}
  <2>1. Operating(f, x, r)
    BY <1>1, <1>6 DEF PdfJudged, Rendering, SizedAs
  <2>2. /\ Legible(o, x.arguments.expected)
        /\ DetailsFit(o.pages) \/ x.lane = "PdfOps"
        /\ op = "pdf-watermark" => \E i \in DOMAIN o.pages : o.pages[i].mark = x.arguments.text
        /\ op = "pdf-metadata" => o.title = Titled(x.arguments.text)
    BY <1>1, <1>6, <2>1, OperationsLegible DEF PdfJudged
  <2>3. ASSUME DetailsFit(o.pages), ~(op = "pdf-metadata" /\ x.arguments.text = "cjk")
        PROVE  ~OperationFails(o, x)
    <3>1. InspectPdf(o, "none") = "accepted"
      BY <2>2, <2>3, LegibleOpens
    <3>2. Len(o.pages) = x.arguments.expected
      BY <2>2 DEF Legible
    <3>3. op = "pdf-metadata" => o.title = x.arguments.text
      BY <2>2, <2>3 DEF Titled
    <3> QED BY <1>1, <2>2, <3>1, <3>2, <3>3 DEF OperationFails, WatermarkMissing, MetadataMissing
  <2>4. OperationFails(o, x)
    BY <1>2, <1>6
  <2> QED BY <1>1, <2>2, <2>3, <2>4
<1> QED BY <1>3, <1>4, <1>5, <1>6

\* the part of a sequence without its last, and a sequence backwards
LEMMA Reversed ==
    ASSUME NEW S, NEW s \in Seq(S)
    PROVE  /\ DOMAIN Reverse(s) = 1..Len(s) /\ Len(Reverse(s)) = Len(s) /\ Len(s) \in Nat
<1> DEFINE n == Len(s)
<1>1. n \in Nat
  OBVIOUS
<1>2. Reverse(s) = [i \in 1..n |-> s[n - i + 1]]
  BY DEF Reverse
<1> HIDE DEF n
<1>3. DOMAIN Reverse(s) = 1..n /\ Len(Reverse(s)) = n
  BY ONLY <1>1, <1>2
<1> QED BY <1>1, <1>3 DEF n

\* what is wrong with a text
LEMMA DamagedText ==
    ASSUME NEW f, NEW x, NEW o, NEW d \in PdfDamages, NEW y, y = PdfDamage(f, o, d, x),
           o.container = "text"
    PROVE  y \in {[o EXCEPT !.covered = @ - 1], [o EXCEPT !.words = FALSE], o}
<1> DEFINE body == IF o.container = "pages" THEN "images" ELSE "pages"
<1>1. o.container = "text" /\ y = PdfDamage(f, o, d, x)
  OBVIOUS
<1>2. ASSUME d = "page lost" PROVE y = [o EXCEPT !.covered = @ - 1]
  <2>1. d = "page lost" /\ d # "unreadable"
    BY <1>2
  <2> QED BY ONLY <1>1, <2>1, Zenon DEF PdfDamage
<1>3. ASSUME d = "unreadable" PROVE y = [o EXCEPT !.words = FALSE]
  <2>1. d # "page lost" /\ d = "unreadable"
    BY <1>3
  <2> QED BY ONLY <1>1, <2>1, Zenon DEF PdfDamage
<1>4. ASSUME d # "page lost", d # "unreadable" PROVE y = o
  BY ONLY <1>1, <1>4, Zenon DEF PdfDamage
<1> QED BY <1>2, <1>3, <1>4

\* and with pictures of pages
LEMMA DamagedPages ==
    ASSUME NEW f, NEW x, NEW o, NEW d \in PdfDamages, NEW y, y = PdfDamage(f, o, d, x),
           o.container = "pages", x.operation = "render"
    PROVE  y \in {[o EXCEPT !["images"] = Front(@)], [o EXCEPT !["images"] = Reverse(@)], o}
<1>1. /\ o.container = "pages" /\ o.container # "text" /\ y = PdfDamage(f, o, d, x)
      /\ x.operation \notin {"pdf-watermark", "pdf-rotate"} /\ "images" # "pages"
  OBVIOUS
<1>2. ASSUME d = "page lost" PROVE y = [o EXCEPT !["images"] = Front(@)]
  <2>1. d = "page lost" /\ d # "unreadable"
    BY <1>2
  <2> QED BY ONLY <1>1, <2>1, Zenon DEF PdfDamage
<1>3. ASSUME d = "pages swapped" PROVE y = [o EXCEPT !["images"] = Reverse(@)]
  <2>1. d # "page lost" /\ d = "pages swapped" /\ d # "unreadable"
    BY <1>3
  <2> QED BY ONLY <1>1, <2>1, Zenon DEF PdfDamage
<1>4. ASSUME d # "page lost", d # "pages swapped" PROVE y = o
  <2>1. d # "page lost" /\ d # "pages swapped" /\ ~(o.container = "text")
    BY <1>1, <1>4
  <2> QED BY ONLY <1>1, <2>1, Zenon DEF PdfDamage
<1> QED BY <1>2, <1>3, <1>4

LEMMA PagesCaught ==
    ASSUME NEW f, NEW x, NEW g, NEW o, NEW d \in PdfDamages, NEW y, y = PdfDamage(f, o, d, x),
           Rendering(f, x), PdfFile(f), o = PdfEngine(f, x, g), ~RenderFails(y, x)
    PROVE  /\ y.container = "pages"
           /\ [i \in DOMAIN y.images |-> y.images[i].size]
                = [i \in DOMAIN o.images |-> o.images[i].size]
<1> DEFINE s == o.images
           t == y.images
           n == Len(f.pages)
<1>1. /\ o.container = "pages" /\ n \in Nat /\ n # 0
      /\ DOMAIN s = 1..n /\ Len(s) = n /\ x.arguments.pages = n
      /\ \A i \in 1..n : s[i].size = x.arguments.sizes[i]
      /\ o = [container |-> "pages", images |-> s]
  BY RenderedPages
<1>2. Len(t) = n /\ \A i \in DOMAIN t : t[i].size = x.arguments.sizes[i]
  BY <1>1 DEF RenderFails
<1>3. x.operation = "render"
  BY DEF Rendering, SizedAs
<1>4. y \in {[o EXCEPT !["images"] = Front(@)], [o EXCEPT !["images"] = Reverse(@)], o}
  BY <1>1, <1>3, DamagedPages
<1> HIDE DEF s, t, n
<1>5. \E S : s \in Seq(S)
  <2> DEFINE S == {s[i] : i \in 1..n}
  <2>1. \A i \in 1..n : s[i] \in S
    OBVIOUS
  <2> HIDE DEF S
  <2>2. s \in Seq(S)
    <3>1. s = [i \in 1..n |-> s[i]]
      <4>1. s = o.images
        BY DEF s
      <4>2. o.images = [i \in DOMAIN f.pages |-> Rendered(f.pages[i], x)]
        BY <1>3, EngineOfPages
      <4> QED BY ONLY <1>1, <4>1, <4>2
    <3> QED BY ONLY <1>1, <2>1, <3>1
  <2> QED BY <2>2
<1>6. PICK S : s \in Seq(S)
  BY <1>5
<1>7. CASE y = [o EXCEPT !["images"] = Front(@)]
  <2>1. t = Front(s)
    BY ONLY <1>1, <1>7 DEF t
  <2>2. s # <<>>
    BY ONLY <1>1
  <2>3. Len(Front(s)) = Len(s) - 1
    BY ONLY <1>6, <2>2, FrontIsShorter
  <2> QED BY ONLY <1>1, <1>2, <2>1, <2>3
<1>8. CASE y = [o EXCEPT !["images"] = Reverse(@)]
  <2>1. t = Reverse(s) /\ y.container = "pages"
    BY ONLY <1>1, <1>8 DEF t
  <2>2. DOMAIN Reverse(s) = 1..Len(s)
    BY ONLY <1>6, Reversed
  <2>3. DOMAIN t = 1..n
    BY ONLY <1>1, <2>1, <2>2
  <2>4. [i \in DOMAIN t |-> t[i].size] = [i \in DOMAIN s |-> s[i].size]
    BY ONLY <1>1, <1>2, <2>3
  <2> QED BY <2>1, <2>4 DEF s, t
<1>9. CASE y = o
  BY <1>1, <1>9 DEF s
<1> QED BY <1>4, <1>7, <1>8, <1>9

\* The text engines report whether any page has words, and how many pages they read.
LEMMA TextOfOcr ==
    ASSUME NEW f, NEW x, NEW g, NEW o, o = PdfEngine(f, x, g), NEW op, op = x.operation,
           op \in {"text", "pdf-ocr"}
    PROVE  o = [container |-> "text", words |-> \E i \in DOMAIN f.pages : f.pages[i].text,
                covered |-> Len(f.pages)]
  BY Zenon DEF PdfEngine

LEMMA PdfRight ==
    ASSUME Judged, plan.lane \in PdfAdapters
    PROVE  /\ Condemned /\ out = Obeyed => HonestGaps
           /\ stage = "committed" /\ out # Obeyed => DamageIsCaught
<1> DEFINE f == asked.file
           r == asked.request
           x == plan
           op == plan.operation
<1>1. /\ Obeyed = PdfEngine(f, x, given) /\ Verdict = ValidatePdf(out, x)
      /\ Spoilt = {PdfDamage(f, Obeyed, d, x) : d \in PdfDamages}
  BY LaneFunctions
<1>2. PdfJudged(f, x, r, given)
  <2>1. Rendering(f, x) \/ x.operation = "text" \/ Operating(f, x, r)
    BY PdfFits DEF Judged
  <2> QED BY <2>1 DEF Judged, PdfJudged, CaseAssumption, KnownFile, Request
<1>3. ASSUME Condemned, out = Obeyed PROVE HonestGaps
  <2>1. ValidatePdf(out, x) = "fail"
    BY <1>1, <1>3 DEF Judged
  <2>2. \/ x.operation = "pdf-metadata" /\ x.arguments.text = "cjk"
        \/ x.operation \in {"text", "pdf-ocr"} /\ \A i \in DOMAIN f.pages : ~f.pages[i].text
        \/ x.lane = "PdfOps" /\ ~DetailsFit(out.pages)
    BY ONLY <1>1, <1>2, <1>3, <2>1, PdfHonest
  <2> QED BY <2>2 DEF HonestGaps
<1>4. ASSUME stage = "committed", out # Obeyed PROVE DamageIsCaught
  <2>1. ValidatePdf(out, x) # "fail"
    BY <1>1, <1>4 DEF Judged
  <2>2. PICK d \in PdfDamages : out = PdfDamage(f, Obeyed, d, x)
    BY <1>1, <1>4 DEF Judged
  <2>3. /\ op = "render" => ~RenderFails(out, x)
        /\ op \in {"text", "pdf-ocr"} => ~TextFails(out, x)
        /\ op \notin {"render", "text", "pdf-ocr", "pdf-encrypt"} => ~OperationFails(out, x)
    BY <2>1, ChecksOfPdf
  <2>4. UncheckedPdf
    <3>1. CASE op \in {"text", "pdf-encrypt"}
      BY <3>1 DEF UncheckedPdf
    <3>2. CASE op = "render"
      <4>1. Rendering(f, x) /\ PdfFile(f)
        BY <1>2, <3>2 DEF PdfJudged, Operating, PdfOperations
      <4>2. /\ out.container = "pages"
            /\ [i \in DOMAIN out.images |-> out.images[i].size]
                 = [i \in DOMAIN Obeyed.images |-> Obeyed.images[i].size]
        BY ONLY <1>1, <2>2, <2>3, <3>2, <4>1, PagesCaught
      <4> QED BY <4>2 DEF UncheckedPdf
    <3>3. CASE op = "pdf-ocr"
      <4> DEFINE o == Obeyed
                 any == \E i \in DOMAIN f.pages : f.pages[i].text
                 n == Len(f.pages)
      <4>1. o = [container |-> "text", words |-> any, covered |-> n]
        <5>1. op = x.operation /\ o = PdfEngine(f, x, given) /\ op \in {"text", "pdf-ocr"}
          BY <1>1, <3>3
        <5> HIDE DEF op, o
        <5> QED BY ONLY <5>1, TextOfOcr
      <4>2. Operating(f, x, r)
        BY <1>2, <3>3 DEF PdfJudged, Rendering, SizedAs
      <4>3. x.arguments.expected = n /\ OperationInspection(f, r, "pdf-ocr") = "accepted"
        <5>1. OperatesAs(f, x, r, "pdf-ocr")
          BY <3>3, <4>2 DEF Operating
        <5> QED BY <5>1 DEF OperatesAs
      <4>4. n \in Nat
        <5> DEFINE ocr == "pdf-ocr"
        <5>1. ocr # "pdf-merge" /\ OperationInspection(f, r, ocr) = "accepted" /\ PdfFile(f)
          BY <1>2, <4>3 DEF PdfJudged
        <5> HIDE DEF ocr
        <5>2. f.pages \in Seq(Sized)
          BY <5>1, OperatedFile
        <5> QED BY ONLY <5>2
      <4> HIDE DEF o, any, n
      <4>5. o.container = "text" /\ out = PdfDamage(f, o, d, x) /\ out # o
        BY <1>4, <2>2, <4>1 DEF o
      <4>6. out \in {[o EXCEPT !.covered = @ - 1], [o EXCEPT !.words = FALSE]}
        <5>1. out \in {[o EXCEPT !.covered = @ - 1], [o EXCEPT !.words = FALSE], o}
          BY ONLY <4>5, DamagedText
        <5> QED BY <4>5, <5>1
      <4>7. CASE out = [o EXCEPT !.covered = @ - 1]
        <5>1. out.covered = n - 1
          BY ONLY <4>1, <4>7
        <5>2. out.covered # n
          BY ONLY <4>4, <5>1
        <5> QED BY <2>3, <3>3, <4>3, <5>2 DEF TextFails
      <4>8. CASE out = [o EXCEPT !.words = FALSE]
        <5>1. ~out.words
          BY ONLY <4>1, <4>8
        <5> QED BY <2>3, <3>3, <5>1 DEF TextFails
      <4> QED BY <4>6, <4>7, <4>8
    <3>4. CASE op \notin {"render", "text", "pdf-ocr", "pdf-encrypt"}
      <4>1. Operating(f, x, r)
        BY <1>2, <3>4 DEF PdfJudged, Rendering, SizedAs
      <4>2. Legible(Obeyed, x.arguments.expected)
        BY <1>1, <1>2, <3>4, <4>1, OperationsLegible DEF PdfJudged
      <4>3. /\ InspectPdf(out, "none") = "accepted" /\ Len(out.pages) = x.arguments.expected
            /\ op = "pdf-watermark" => ~WatermarkMissing(out, x.arguments.text)
            /\ op = "pdf-metadata" => ~MetadataMissing(out, x.arguments.text)
        BY <2>3, <3>4 DEF OperationFails
      <4>4. out.container = "pdf" /\ out.lock = "none"
        BY <4>3, OpenedPdf DEF Opens
      <4> QED BY <4>2, <4>3, <4>4 DEF UncheckedPdf, Legible, WatermarkMissing, MetadataMissing
    <3> QED BY <3>1, <3>2, <3>3, <3>4
  <2>5. plan.lane \notin DataAdapters \cup MailAdapters \cup DocumentAdapters
    BY AdaptersApart
  <2> QED BY ONLY <2>4, <2>5, plan.lane \in PdfAdapters, Zenon DEF DamageIsCaught
<1> QED BY <1>3, <1>4

-----------------------------------------------------------------------------
(* Media: what a plan is like that was made of a probe.                     *)

PlannedClean(p, x) ==
    /\ x.operation = "metadata-clean" /\ x.target = p.format /\ p.format \in Cleanable
    /\ DOMAIN x.arguments = {"removed", "retained"}
    /\ x.arguments.removed = p.keys \cap PrivateKeys
    /\ x.arguments.retained = p.keys \ x.arguments.removed
    /\ x.dropped = x.arguments.removed

PlannedMovie(p, x) ==
    /\ x.target = "mp4" /\ x.operation \in {"remux", "transcode"} /\ Indices(p, Video) # {}
    /\ "subtitles" \in DOMAIN x.arguments
    /\ x.arguments.subtitles = "copy" <=>
          (Indices(p, Subtitle) # {} /\ ForeignSubtitles(p) = {})
    /\ x.dropped = ForeignSubtitles(p) \cup Indices(p, Data)

PlannedSound(p, x) ==
    /\ x.target \in AudioTargets /\ x.operation \in {"remux", "transcode"}
    /\ x.arguments.stream \in Indices(p, Audio)
    /\ x.arguments.audio = "copy" =>
          p.streams[x.arguments.stream].codec = AudioForm[x.target].codec
    /\ x.dropped = DOMAIN p.streams \ {x.arguments.stream}

\* a width is that of the input or a number
Resized(x) ==
    /\ "width" \in DOMAIN x.arguments
    /\ x.arguments.width = Unset \/ x.arguments.width \in Nat \ {0}

PlannedGif(p, x) ==
    /\ x.target = "gif" /\ x.operation = "transcode" /\ Indices(p, Video) # {}
    /\ x.arguments.start \in Nat
    /\ x.arguments.length \in Nat \cup {Unset} /\ x.arguments.length # 0
    /\ SliceFits(p, x.arguments.start, x.arguments.length)
    /\ Resized(x)
    /\ x.dropped = DOMAIN p.streams \ {Min(Indices(p, Video))}

PlannedPicture(p, x) ==
    /\ x.target \in ImageOutputs /\ x.operation = "transcode" /\ Indices(p, Video) # {}
    /\ Resized(x) /\ "alpha" \in DOMAIN x.arguments
    /\ x.arguments.alpha => p.alpha
    /\ p.alpha => x.arguments.alpha \/ x.lane = "Heif"
    /\ x.dropped = {}

PlanFields(q, target, operation, arguments, dropped) ==
    /\ q.target = target /\ q.operation = operation /\ q.arguments = arguments
    /\ q.dropped = dropped /\ q.lane = "Ffmpeg"

LEMMA FieldsOfPlan ==
    ASSUME NEW target, NEW operation, NEW loss, NEW arguments, NEW dropped
    PROVE  PlanFields(Plan(target, operation, loss, arguments, dropped),
                      target, operation, arguments, dropped)
BY DEF Plan, PlanFields

LEMMA CleaningMade ==
    ASSUME NEW p, NEW r, NEW q, q = PlanMetadataClean(p, r), q.ok = TRUE
    PROVE  PlannedClean(p, q)
<1> DEFINE removed == p.keys \cap PrivateKeys
           a == p.format \notin Cleanable
           b == \E k \in removed : ~ValidMetadataKey(k)
           tests == << <<a, "Unsupported">>, <<r.overInput, "PolicyBlocked">>,
                       <<b, "PolicyBlocked">> >>
           arguments == [removed |-> removed, retained |-> p.keys \ removed]
           plan0 == Plan(p.format, "metadata-clean", "container-only", arguments, removed)
<1>1. q = IF Refusal(tests) # "accepted" THEN Refused(Refusal(tests)) ELSE plan0
  BY DEF PlanMetadataClean
<1>2. /\ DOMAIN tests = 1..3 /\ tests[1][1] = a /\ \A i \in 1..3 : tests[i][2] # "accepted"
  OBVIOUS
<1>3. PlanFields(plan0, p.format, "metadata-clean", arguments, removed)
  BY FieldsOfPlan
<1>4. /\ DOMAIN arguments = {"removed", "retained"} /\ arguments.removed = removed
      /\ arguments.retained = p.keys \ removed
  OBVIOUS
<1> HIDE DEF tests, a, b, arguments, plan0
<1>5. q = plan0 /\ ~a
  <2>1. DOMAIN tests \subseteq Nat /\ \A i \in DOMAIN tests : tests[i][2] # "accepted"
    BY ONLY <1>2
  <2>2. q = plan0 /\ \A i \in DOMAIN tests : ~tests[i][1]
    BY ONLY <1>1, <2>1, q.ok = TRUE, PassedTests
  <2> QED BY ONLY <1>2, <2>2
<1> QED BY <1>3, <1>4, <1>5 DEF PlanFields, PlannedClean, a

LEMMA MovieMade ==
    ASSUME NEW p, NEW r, NEW q, q = PlanMp4(p, r), q.ok = TRUE
    PROVE  PlannedMovie(p, q)
<1> DEFINE foreign == ForeignSubtitles(p)
           other == Indices(p, Data)
           subs == Indices(p, Subtitle)
           videoCopy == /\ \A i \in Indices(p, Video) : p.streams[i].codec \in {"h264", "hevc"}
                        /\ r.size = Unset
           audioCopy == \A i \in Indices(p, Audio) : p.streams[i].codec = "aac"
           remux == videoCopy /\ audioCopy /\ foreign = {} /\ other = {}
           b == Indices(p, Video) = {}
           c == r.preserve /\ (foreign # {} \/ other # {})
           tests == << <<p.kind # "video", "Unsupported">>, <<b, "InputInvalid">>,
                       <<c, "PolicyBlocked">> >>
           arguments ==
               [video |-> IF videoCopy THEN "copy" ELSE "libx264",
                audio |-> IF audioCopy THEN "copy" ELSE "aac",
                subtitles |-> IF subs = {} THEN "none" ELSE IF foreign = {} THEN "copy" ELSE "drop",
                crf |-> r.crf, preset |-> r.preset, bitrate |-> r.bitrate, size |-> r.size]
           operation == IF remux THEN "remux" ELSE "transcode"
           dropped == IF remux \/ r.preserve THEN {} ELSE foreign \cup other
           plan0 == Plan("mp4", operation, IF remux THEN "container-only" ELSE "lossy",
                         arguments, dropped)
<1>1. q = IF Refusal(tests) # "accepted" THEN Refused(Refusal(tests)) ELSE plan0
  BY DEF PlanMp4
<1>2. /\ DOMAIN tests = 1..3 /\ tests[2][1] = b /\ tests[3][1] = c
      /\ \A i \in 1..3 : tests[i][2] # "accepted"
  OBVIOUS
<1>3. /\ "subtitles" \in DOMAIN arguments
      /\ arguments.subtitles = "copy" <=> (subs # {} /\ foreign = {})
      /\ operation \in {"remux", "transcode"}
  OBVIOUS
<1> HIDE DEF tests, arguments, operation, remux, foreign, other, b, c, subs, dropped
<1>4. PlanFields(plan0, "mp4", operation, arguments, dropped)
  BY FieldsOfPlan
<1> HIDE DEF plan0
<1>5. q = plan0 /\ ~b /\ ~c
  <2>1. DOMAIN tests \subseteq Nat /\ \A i \in DOMAIN tests : tests[i][2] # "accepted"
    BY ONLY <1>2
  <2>2. q = plan0 /\ \A i \in DOMAIN tests : ~tests[i][1]
    BY ONLY <1>1, <2>1, q.ok = TRUE, PassedTests
  <2> QED BY ONLY <1>2, <2>2
<1>6. dropped = foreign \cup other
  <2>1. remux => foreign = {} /\ other = {}
    BY DEF remux
  <2>2. r.preserve => foreign = {} /\ other = {}
    BY <1>5 DEF c
  <2> QED BY <2>1, <2>2 DEF dropped
<1> QED BY <1>3, <1>4, <1>5, <1>6 DEF PlanFields, PlannedMovie, foreign, other, subs, b

LEMMA SoundMade ==
    ASSUME NEW p, NEW r, NEW q, q = PlanAudio(p, r), q.ok = TRUE, r.target \in AudioTargets,
           DOMAIN p.streams \subseteq Nat
    PROVE  PlannedSound(p, q) /\ q.target = r.target
<1> DEFINE audios == Indices(p, Audio)
           b == audios = {}
           c == r.stream # Unset /\ r.stream \notin audios
           tests == << <<p.kind \notin {"video", "audio"}, "Unsupported">>,
                       <<b, "InputInvalid">>,
                       <<r.preserve /\ Cardinality(audios) > 1, "PolicyBlocked">>,
                       <<c, "InputInvalid">> >>
           selected == IF r.stream = Unset THEN Min(audios) ELSE r.stream
           form == AudioForm[r.target]
           copy == p.streams[selected].codec = form.codec
           operation == IF copy THEN "remux" ELSE "transcode"
           mode == IF copy THEN "copy" ELSE form.encoder
           arguments == [stream |-> selected, audio |-> mode, bitrate |-> r.bitrate]
           plan0 == Plan(r.target, operation,
                         IF copy THEN "container-only"
                         ELSE IF form.lossy THEN "lossy" ELSE "lossless",
                         arguments, DOMAIN p.streams \ {selected})
<1>1. q = IF Refusal(tests) # "accepted" THEN Refused(Refusal(tests)) ELSE plan0
  BY DEF PlanAudio
<1>2. /\ DOMAIN tests = 1..4 /\ tests[2][1] = b /\ tests[4][1] = c
      /\ \A i \in 1..4 : tests[i][2] # "accepted"
  OBVIOUS
<1>3. arguments.stream = selected /\ arguments.audio = mode /\ operation \in {"remux", "transcode"}
  OBVIOUS
<1>4. form.encoder # "copy"
  BY DEF AudioTargets, AudioForm
<1>5. mode = "copy" => copy
  BY <1>4
<1> HIDE DEF tests, arguments, operation, mode, b, c
<1>6. PlanFields(plan0, r.target, operation, arguments, DOMAIN p.streams \ {selected})
  BY FieldsOfPlan
<1> HIDE DEF plan0
<1>7. q = plan0 /\ ~b /\ ~c
  <2>1. DOMAIN tests \subseteq Nat /\ \A i \in DOMAIN tests : tests[i][2] # "accepted"
    BY ONLY <1>2
  <2>2. q = plan0 /\ \A i \in DOMAIN tests : ~tests[i][1]
    BY ONLY <1>1, <2>1, q.ok = TRUE, PassedTests
  <2> QED BY ONLY <1>2, <2>2
<1>8. selected \in audios
  <2>1. audios \subseteq Nat
    BY DEF Indices
  <2>2. audios # {}
    BY <1>7 DEF b
  <2>3. Min(audios) \in audios
    BY ONLY <2>1, <2>2, MinIsLeast
  <2> QED BY <1>7, <2>3 DEF c
<1> HIDE DEF selected
<1> QED BY <1>3, <1>5, <1>6, <1>7, <1>8 DEF PlanFields, PlannedSound

LEMMA GifMade ==
    ASSUME NEW p, NEW r, NEW q, q = PlanGif(p, r), q.ok = TRUE, r.width \in Int,
           r.start \in Nat \cup {Unset}, r.length \in Nat \cup {Unset}
    PROVE  PlannedGif(p, q)
<1> DEFINE start == Default(r.start, 0)
           rate == Default(r.rate, 15)
           b1 == Indices(p, Video) = {}
           b2 == r.length = 0
           b4 == r.width # Unset /\ ~InRange(r.width, 1, 16384)
           b5 == ~SliceFits(p, start, r.length)
           tests == << <<b1, "InputInvalid">>, <<b2, "InputInvalid">>,
                       <<~InRange(rate, 1, 60), "InputInvalid">>,
                       <<b4, "InputInvalid">>, <<b5, "InputInvalid">> >>
           first == Min(Indices(p, Video))
           arguments == [stream |-> first, start |-> start, length |-> r.length,
                         rate |-> rate, width |-> r.width]
           plan0 == Plan("gif", "transcode", "lossy", arguments, DOMAIN p.streams \ {first})
<1>1. q = IF Refusal(tests) # "accepted" THEN Refused(Refusal(tests)) ELSE plan0
  BY DEF PlanGif
<1>2. /\ DOMAIN tests = 1..5 /\ tests[1][1] = b1 /\ tests[2][1] = b2 /\ tests[4][1] = b4
      /\ tests[5][1] = b5 /\ \A i \in 1..5 : tests[i][2] # "accepted"
  OBVIOUS
<1>3. PlanFields(plan0, "gif", "transcode", arguments, DOMAIN p.streams \ {first})
  BY FieldsOfPlan
<1>4. /\ arguments.start = start /\ arguments.length = r.length /\ arguments.width = r.width
      /\ "width" \in DOMAIN arguments
  OBVIOUS
<1>5. start \in Nat
  BY DEF Default, Unset
<1> HIDE DEF tests, arguments, plan0, b1, b2, b4, b5, start
<1>6. q = plan0 /\ ~b1 /\ ~b2 /\ ~b4 /\ ~b5
  <2>1. DOMAIN tests \subseteq Nat /\ \A i \in DOMAIN tests : tests[i][2] # "accepted"
    BY ONLY <1>2
  <2>2. q = plan0 /\ \A i \in DOMAIN tests : ~tests[i][1]
    BY ONLY <1>1, <2>1, q.ok = TRUE, PassedTests
  <2> QED BY ONLY <1>2, <2>2
<1>7. r.width = Unset \/ r.width \in Nat \ {0}
  BY <1>6 DEF b4, InRange
<1> QED BY <1>3, <1>4, <1>5, <1>6, <1>7 DEF PlanFields, PlannedGif, Resized, b1, b2, b5, first

LEMMA PictureMade ==
    ASSUME NEW p, NEW r, NEW q, q = PlanImage(p, r), q.ok = TRUE, r.target \in ImageTargets,
           r.width \in Int
    PROVE  PlannedPicture(p, q)
<1> DEFINE target == Canonical(r.target)
           lossy == target \in LossyImages
           quality == IF lossy THEN Default(r.quality, 85) ELSE Unset
           scale == IF lossy THEN EncoderQuality(target, quality) ELSE Unset
           b2 == Indices(p, Video) = {}
           b3 == r.width # Unset /\ ~InRange(r.width, 1, 16384)
           tests == << <<p.kind # "image", "Unsupported">>, <<b2, "InputInvalid">>,
                       <<b3, "InputInvalid">>,
                       <<lossy /\ ~InRange(quality, 1, 100), "InputInvalid">>,
                       <<~lossy /\ r.quality # Unset, "InputInvalid">>,
                       <<p.alpha /\ target \in {"jpeg", "bmp"}, "PolicyBlocked">> >>
           arguments == [stream |-> Min(Indices(p, Video)), width |-> r.width, quality |-> scale,
                         alpha |-> p.alpha]
           plan0 == Plan(target, "transcode", IF lossy THEN "lossy" ELSE "lossless", arguments, {})
<1>1. q = IF Refusal(tests) # "accepted" THEN Refused(Refusal(tests)) ELSE plan0
  BY DEF PlanImage
<1>2. /\ DOMAIN tests = 1..6 /\ tests[2][1] = b2 /\ tests[3][1] = b3
      /\ \A i \in 1..6 : tests[i][2] # "accepted"
  OBVIOUS
<1>3. PlanFields(plan0, target, "transcode", arguments, {})
  BY FieldsOfPlan
<1>4. target \in ImageOutputs
  BY DEF ImageTargets, Canonical, ImageOutputs, ImageCodec
<1> HIDE DEF scale
<1>5. /\ arguments.alpha = p.alpha /\ arguments.width = r.width
      /\ "width" \in DOMAIN arguments /\ "alpha" \in DOMAIN arguments
  OBVIOUS
<1> HIDE DEF tests, arguments, plan0, b2, b3, target
<1>6. q = plan0 /\ ~b2 /\ ~b3
  <2>1. DOMAIN tests \subseteq Nat /\ \A i \in DOMAIN tests : tests[i][2] # "accepted"
    BY ONLY <1>2
  <2>2. q = plan0 /\ \A i \in DOMAIN tests : ~tests[i][1]
    BY ONLY <1>1, <2>1, q.ok = TRUE, PassedTests
  <2> QED BY ONLY <1>2, <2>2
<1>7. r.width = Unset \/ r.width \in Nat \ {0}
  BY <1>6 DEF b3, InRange
<1> QED BY <1>3, <1>4, <1>5, <1>6, <1>7 DEF PlanFields, PlannedPicture, Resized, b2

\* A decoder of pictures resizes nothing and keeps no transparency.
LEMMA DecodedMade ==
    ASSUME NEW p, NEW r, NEW q, q.ok = TRUE,
           \/ q = PlanHeic(p, r) /\ q.lane = "Heif"
           \/ q = PlanMagick(p, r) /\ ~p.alpha
    PROVE  /\ Indices(p, Video) # {} => PlannedPicture(p, q)
           /\ q = PlanHeic(p, r) => p.format = "heic"
           /\ q = PlanMagick(p, r) => p.format \in {"psd", "dng"}
<1> DEFINE target == Canonical(r.target)
           lossy == target = "jpeg"
           loss == IF lossy THEN "lossy" ELSE "lossless"
           opaque == FALSE
<1>1. ASSUME NEW quality, NEW lane, NEW engine
      PROVE  LET arguments == [width |-> Unset, quality |-> quality, alpha |-> opaque]
                 made == [Plan(target, "transcode", loss, arguments, {})
                            EXCEPT !.lane = lane, !.engine = engine]
             IN /\ made.target = target /\ made.operation = "transcode" /\ made.dropped = {}
                /\ made.lane = lane /\ made.arguments = arguments
  <2> HIDE DEF opaque, target, loss
  <2> QED BY DEF Plan
<1>2. ASSUME NEW quality
      PROVE  LET arguments == [width |-> Unset, quality |-> quality, alpha |-> opaque]
             IN /\ "width" \in DOMAIN arguments /\ "alpha" \in DOMAIN arguments
                /\ arguments.width = Unset /\ arguments.alpha = opaque
  <2> HIDE DEF opaque
  <2> QED OBVIOUS
<1>3. ASSUME q = PlanHeic(p, r)
      PROVE  /\ p.format = "heic" /\ target \in ImageOutputs
             /\ \E quality : q = [Plan(target, "transcode", loss,
                                       [width |-> Unset, quality |-> quality, alpha |-> opaque], {})
                                    EXCEPT !.lane = "Heif", !.engine = "heif-dec"]
  <2> DEFINE quality == IF lossy THEN Default(r.quality, 85) ELSE Unset
             b1 == p.format # "heic" \/ p.kind # "image"
             b3 == target \notin {"jpeg", "png"}
             tests == << <<b1, "Unsupported">>, <<r.width # Unset, "Unsupported">>,
                         <<b3, "Unsupported">>,
                         <<lossy /\ ~InRange(quality, 1, 100), "InputInvalid">>,
                         <<~lossy /\ r.quality # Unset, "InputInvalid">> >>
             plan0 == [Plan(target, "transcode", loss,
                            [width |-> Unset, quality |-> quality, alpha |-> opaque], {})
                         EXCEPT !.lane = "Heif", !.engine = "heif-dec"]
  <2>1. q = IF Refusal(tests) # "accepted" THEN Refused(Refusal(tests)) ELSE plan0
    BY <1>3 DEF PlanHeic
  <2>2. /\ DOMAIN tests = 1..5 /\ tests[1][1] = b1 /\ tests[3][1] = b3
        /\ \A i \in 1..5 : tests[i][2] # "accepted"
    OBVIOUS
  <2> HIDE DEF tests, plan0, b1, b3
  <2>3. DOMAIN tests \subseteq Nat /\ \A i \in DOMAIN tests : tests[i][2] # "accepted"
    BY ONLY <2>2
  <2>4. q = plan0 /\ \A i \in DOMAIN tests : ~tests[i][1]
    BY ONLY <2>1, <2>3, q.ok = TRUE, PassedTests
  <2>5. ~b1 /\ ~b3
    BY ONLY <2>2, <2>4
  <2> QED BY <2>4, <2>5 DEF b1, b3, plan0, ImageOutputs, ImageCodec
<1>4. ASSUME q = PlanMagick(p, r)
      PROVE  /\ p.format \in {"psd", "dng"} /\ target \in ImageOutputs
             /\ \E quality : q = [Plan(target, "transcode", loss,
                                       [width |-> Unset, quality |-> quality, alpha |-> opaque], {})
                                    EXCEPT !.lane = "Magick", !.engine = "magick"]
  <2> DEFINE quality == IF lossy THEN Default(r.quality, 92) ELSE Unset
             b1 == p.format \notin {"psd", "dng"}
             b3 == target \notin {"jpeg", "png", "tiff"}
             tests == << <<b1, "Unsupported">>, <<r.width # Unset, "Unsupported">>,
                         <<b3, "Unsupported">>,
                         <<lossy /\ ~InRange(quality, 1, 100), "InputInvalid">>,
                         <<~lossy /\ r.quality # Unset, "InputInvalid">> >>
             plan0 == [Plan(target, "transcode", loss,
                            [width |-> Unset, quality |-> quality, alpha |-> opaque], {})
                         EXCEPT !.lane = "Magick", !.engine = "magick"]
  <2>1. q = IF Refusal(tests) # "accepted" THEN Refused(Refusal(tests)) ELSE plan0
    BY <1>4 DEF PlanMagick
  <2>2. /\ DOMAIN tests = 1..5 /\ tests[1][1] = b1 /\ tests[3][1] = b3
        /\ \A i \in 1..5 : tests[i][2] # "accepted"
    OBVIOUS
  <2> HIDE DEF tests, plan0, b1, b3
  <2>3. DOMAIN tests \subseteq Nat /\ \A i \in DOMAIN tests : tests[i][2] # "accepted"
    BY ONLY <2>2
  <2>4. q = plan0 /\ \A i \in DOMAIN tests : ~tests[i][1]
    BY ONLY <2>1, <2>3, q.ok = TRUE, PassedTests
  <2>5. ~b1 /\ ~b3
    BY ONLY <2>2, <2>4
  <2> QED BY <2>4, <2>5 DEF b1, b3, plan0, ImageOutputs, ImageCodec
<1>5. PICK quality, lane, engine :
          q = [Plan(target, "transcode", loss,
                    [width |-> Unset, quality |-> quality, alpha |-> opaque], {})
                 EXCEPT !.lane = lane, !.engine = engine]
  <2> DEFINE Of(quality, lane, engine) ==
                 q = [Plan(target, "transcode", loss,
                           [width |-> Unset, quality |-> quality, alpha |-> opaque], {})
                        EXCEPT !.lane = lane, !.engine = engine]
  <2>1. q = PlanHeic(p, r) => \E quality : Of(quality, "Heif", "heif-dec")
    BY ONLY <1>3
  <2>2. q = PlanMagick(p, r) => \E quality : Of(quality, "Magick", "magick")
    BY ONLY <1>4
  <2> HIDE DEF Of
  <2>3. \E quality, lane, engine : Of(quality, lane, engine)
    BY <2>1, <2>2
  <2> QED BY ONLY <2>3 DEF Of
<1> DEFINE arguments == [width |-> Unset, quality |-> quality, alpha |-> opaque]
<1>6. q.target = target /\ q.operation = "transcode" /\ q.dropped = {} /\ q.arguments = arguments
  BY ONLY <1>1, <1>5
<1>7. /\ "width" \in DOMAIN arguments /\ "alpha" \in DOMAIN arguments
      /\ arguments.width = Unset /\ arguments.alpha = opaque
  BY ONLY <1>2
<1>8. ~opaque
  OBVIOUS
<1> HIDE DEF arguments, opaque, target
<1>9. target \in ImageOutputs
  BY <1>3, <1>4
<1>10. ~q.arguments.alpha
  BY ONLY <1>6, <1>7, <1>8
<1> QED BY <1>3, <1>4, <1>6, <1>7, <1>9, <1>10 DEF PlannedPicture, Resized

\* a plan of the media lane, and what is known of the probe that it was made of
Probed(p, f) ==
    /\ p.width = f.width /\ p.height = f.height /\ p.millis = f.millis /\ p.keys = f.keys
    /\ p.alpha \in BOOLEAN

MediaPlanned(f, r, p, x) ==
    /\ Probed(p, f)
    /\ \/ p.streams = f.streams /\ PlannedClean(p, x) /\ x.lane = "Ffmpeg"
       \/ p.streams = f.streams /\ PlannedMovie(p, x) /\ r.target = x.target
       \/ p.streams = f.streams /\ PlannedSound(p, x) /\ r.target = x.target
       \/ p.streams = f.streams /\ PlannedGif(p, x)
       \/ PlannedPicture(p, x) /\ Indices(f, Video) # {}

LEMMA ProbeTells ==
    ASSUME NEW f, f.alpha \in BOOLEAN
    PROVE  /\ Probed(InspectMedia(f), f)
           /\ InspectMedia(f).streams = f.streams
           /\ InspectMedia(f).alpha = f.alpha
           /\ InspectMedia(f).format = NormalizedFormat(f.container, f.ext)
BY DEF InspectMedia, Probed

LEMMA MagickProbeTells ==
    ASSUME NEW f
    PROVE  /\ Probed(InspectMagick(f), f) /\ ~InspectMagick(f).alpha
           /\ InspectMagick(f).format = f.ext
           /\ Indices(InspectMagick(f), Video) # {}
<1> DEFINE opaque == FALSE
           one == <<[kind |-> Video, codec |-> f.ext]>>
           y == InspectMedia(f)
           z == [y EXCEPT !.format = f.ext, !.kind = "image", !.alpha = opaque, !.streams = one]
<1>1. InspectMagick(f) = z
  BY DEF InspectMagick
<1>2. /\ DOMAIN y = {"format", "kind", "streams", "width", "height", "alpha", "millis", "keys"}
      /\ y.width = f.width /\ y.height = f.height /\ y.millis = f.millis /\ y.keys = f.keys
  BY DEF InspectMedia
<1>3. DOMAIN one = 1..1 /\ one[1].kind = Video
  OBVIOUS
<1>4. opaque \in BOOLEAN /\ ~opaque
  OBVIOUS
<1> HIDE DEF y, one, opaque
<1>5. /\ z.width = f.width /\ z.height = f.height /\ z.millis = f.millis /\ z.keys = f.keys
      /\ z.alpha = opaque /\ z.streams = one /\ z.format = f.ext
  BY <1>2
<1> HIDE DEF z
<1>6. 1 \in Indices(z, Video)
  BY <1>3, <1>5 DEF Indices
<1> QED BY <1>1, <1>4, <1>5, <1>6 DEF Probed

\* only a HEIC has the format of one
LEMMA FormatOfHeic ==
    ASSUME NEW c, NEW e, NormalizedFormat(c, e) = "heic"
    PROVE  c = "heic"
<1> DEFINE n == NormalizedFormat(c, e)
           s == SniffedDemuxer(c)
<1>1. CASE c \in ImageFormats
  BY <1>1 DEF NormalizedFormat
<1>2. CASE c \notin ImageFormats
  <2>1. ASSUME s = "matroska" PROVE FALSE
    <3>1. n = IF e = "webm" THEN "webm" ELSE "mkv"
      BY ONLY <1>2, <2>1, Zenon DEF NormalizedFormat
    <3> HIDE DEF n
    <3> QED BY <3>1 DEF n
  <2>2. ASSUME s = "mov" PROVE FALSE
    <3>1. n = IF e \in {"mov", "m4a"} THEN e ELSE "mp4"
      <4>1. s # "matroska"
        BY <2>2
      <4> QED BY ONLY <1>2, <2>2, <4>1, Zenon DEF NormalizedFormat
    <3> HIDE DEF n
    <3> QED BY <3>1 DEF n
  <2>3. ASSUME s = "ogg" PROVE FALSE
    <3>1. n = IF e = "opus" THEN "opus" ELSE "ogg"
      <4>1. s # "matroska" /\ s # "mov"
        BY <2>3
      <4> QED BY ONLY <1>2, <2>3, <4>1, Zenon DEF NormalizedFormat
    <3> HIDE DEF n
    <3> QED BY <3>1 DEF n
  <2>4. ASSUME s # "matroska", s # "mov", s # "ogg" PROVE n = c
    BY ONLY <1>2, <2>4, Zenon DEF NormalizedFormat
  <2> QED BY <2>1, <2>2, <2>3, <2>4
<1> QED BY <1>1, <1>2

\* what holds of the plan of a planner holds of the plan that was made of it
LEMMA PlannedAlike ==
    ASSUME NEW x, NEW q, NEW p, AsPlanned(x, q)
    PROVE  /\ PlannedClean(p, q) => PlannedClean(p, x)
           /\ PlannedMovie(p, q) => PlannedMovie(p, x)
           /\ PlannedSound(p, q) => PlannedSound(p, x)
           /\ PlannedGif(p, q) => PlannedGif(p, x)
           /\ PlannedPicture(p, q) => PlannedPicture(p, x)
BY DEF AsPlanned, PlannedClean, PlannedMovie, PlannedSound, PlannedGif, PlannedPicture, Resized

\* the plans that ffmpeg gets
LEMMA FfmpegPlanned ==
    ASSUME NEW p, NEW r, NEW q, q = PlanMedia(p, r), q.ok = TRUE, DOMAIN p.streams \subseteq Nat,
           r.width \in Int, r.start \in Nat \cup {Unset}, r.length \in Nat \cup {Unset}
    PROVE  \/ PlannedMovie(p, q) /\ q.target = r.target
           \/ PlannedSound(p, q) /\ q.target = r.target
           \/ PlannedGif(p, q)
           \/ PlannedPicture(p, q)
<1> DEFINE t == r.target
<1>1. /\ t = "mp4" => t \notin AudioTargets /\ t # "gif" /\ t \notin ImageTargets
      /\ t \in AudioTargets => t # "mp4" /\ t # "gif" /\ t \notin ImageTargets
      /\ t = "gif" => t # "mp4" /\ t \notin AudioTargets /\ t \notin ImageTargets
      /\ t \in ImageTargets => t # "mp4" /\ t # "gif" /\ t \notin AudioTargets
  BY DEF AudioTargets, AudioForm, ImageTargets
<1>2. CASE t = "mp4"
  <2>1. q = PlanMp4(p, r)
    BY ONLY <1>1, <1>2, q = PlanMedia(p, r), Zenon DEF PlanMedia
  <2> QED BY <1>2, <2>1, MovieMade DEF PlannedMovie
<1>3. CASE t \in AudioTargets
  <2>1. q = PlanAudio(p, r)
    BY ONLY <1>1, <1>3, q = PlanMedia(p, r), Zenon DEF PlanMedia
  <2> QED BY <1>3, <2>1, SoundMade
<1>4. CASE t = "gif"
  <2>1. q = PlanGif(p, r)
    BY ONLY <1>1, <1>4, q = PlanMedia(p, r), Zenon DEF PlanMedia
  <2> QED BY <2>1, GifMade
<1>5. CASE t \in ImageTargets
  <2>1. q = PlanImage(p, r)
    BY ONLY <1>1, <1>5, q = PlanMedia(p, r), Zenon DEF PlanMedia
  <2> QED BY <1>5, <2>1, PictureMade
<1>6. CASE t # "mp4" /\ t \notin AudioTargets /\ t # "gif" /\ t \notin ImageTargets
  <2>1. q = Refused("Unsupported")
    BY ONLY <1>6, q = PlanMedia(p, r), Zenon DEF PlanMedia
  <2> QED BY <2>1 DEF Refused
<1> QED BY <1>2, <1>3, <1>4, <1>5, <1>6

LEMMA MediaFits ==
    ASSUME NEW x, NEW c, CaseAssumption(c), Origin(x, c), x.lane \in MediaAdapters,
           NEW p, p = IF x.lane = "Magick" THEN InspectMagick(c.file) ELSE InspectMedia(c.file)
    PROVE  MediaPlanned(c.file, c.request, p, x)
<1> DEFINE f == c.file
           r == c.request
<1>1. /\ f.alpha \in BOOLEAN /\ DOMAIN f.streams \subseteq Nat
      /\ f.container = "heic" \/ f.ext \in {"psd", "dng"} => Indices(f, Video) # {}
      /\ r.width \in Int /\ r.start \in Nat \cup {Unset} /\ r.length \in Nat \cup {Unset}
  BY DEF CaseAssumption, KnownFile, MediaFile
<1>2. x.lane \in {"Ffmpeg", "Heif", "Magick"}
  BY DEF MediaAdapters
<1>3. x.lane # "Magick" =>
         /\ p = InspectMedia(f) /\ Probed(p, f) /\ p.streams = f.streams
         /\ p.format = NormalizedFormat(f.container, f.ext)
  BY <1>1, ProbeTells
<1>4. x.lane = "Magick" =>
         /\ p = InspectMagick(f) /\ Probed(p, f) /\ ~p.alpha /\ p.format = f.ext
         /\ Indices(p, Video) # {}
  BY MagickProbeTells
<1>5. CASE x.lane = "Ffmpeg" /\ AsPlanned(x, PlanMetadataClean(InspectMedia(f), r))
  <2> DEFINE q == PlanMetadataClean(p, r)
  <2>1. AsPlanned(x, q) /\ q.ok = TRUE
    BY <1>3, <1>5 DEF AsPlanned
  <2>2. PlannedClean(p, q)
    BY <2>1, CleaningMade
  <2> HIDE DEF q
  <2>3. PlannedClean(p, x)
    BY ONLY <2>1, <2>2, PlannedAlike
  <2> QED BY <1>3, <1>5, <2>3 DEF MediaPlanned
<1>6. CASE \E lane : PlannedIn(x, lane, f, r, c.op) /\ x.lane = lane.adapter
  <2>1. PICK lane : PlannedIn(x, lane, f, r, c.op) /\ x.lane = lane.adapter
    BY <1>6
  <2>2. CASE x.lane = "Ffmpeg"
    <3> DEFINE q == PlanMedia(p, r)
    <3>1. AsPlanned(x, q) /\ q.ok = TRUE /\ x.target = q.target
      BY <1>3, <2>1, <2>2 DEF PlannedIn, AsPlanned
    <3>2. DOMAIN p.streams \subseteq Nat
      BY <1>1, <1>3, <2>2
    <3>3. q = PlanMedia(p, r)
      OBVIOUS
    <3> HIDE DEF q, r, f
    <3>4. \/ PlannedMovie(p, q) /\ q.target = r.target
          \/ PlannedSound(p, q) /\ q.target = r.target
          \/ PlannedGif(p, q)
          \/ PlannedPicture(p, q)
      BY ONLY <1>1, <3>1, <3>2, <3>3, FfmpegPlanned
    <3>5. \/ PlannedMovie(p, x) /\ x.target = r.target
          \/ PlannedSound(p, x) /\ x.target = r.target
          \/ PlannedGif(p, x)
          \/ PlannedPicture(p, x)
      BY ONLY <3>1, <3>4, PlannedAlike
    <3>6. Indices(f, Video) = Indices(p, Video)
      BY <1>3, <2>2 DEF Indices
    <3>7. PlannedPicture(p, x) => Indices(f, Video) # {}
      BY <3>6 DEF PlannedPicture
    <3>8. MediaPlanned(f, r, p, x)
      BY <1>3, <2>2, <3>5, <3>7 DEF MediaPlanned
    <3> QED BY <3>8 DEF f, r
  <2>3. CASE x.lane = "Heif"
    <3> DEFINE q == PlanHeic(p, r)
    <3>1. AsPlanned(x, q) /\ q.ok = TRUE /\ q.lane = "Heif"
      BY <1>3, <2>1, <2>3 DEF PlannedIn, AsPlanned
    <3>2. q = PlanHeic(p, r)
      OBVIOUS
    <3> HIDE DEF q, r, f
    <3>3. p.format = "heic" /\ (Indices(p, Video) # {} => PlannedPicture(p, q))
      BY ONLY <3>1, <3>2, DecodedMade
    <3>4. Indices(f, Video) # {}
      BY <1>1, <1>3, <2>3, <3>3, FormatOfHeic
    <3>5. Indices(f, Video) = Indices(p, Video)
      BY <1>3, <2>3 DEF Indices
    <3>6. PlannedPicture(p, x)
      BY ONLY <3>1, <3>3, <3>4, <3>5, PlannedAlike
    <3>7. MediaPlanned(f, r, p, x)
      BY <1>3, <2>3, <3>4, <3>6 DEF MediaPlanned
    <3> QED BY <3>7 DEF f, r
  <2>4. CASE x.lane = "Magick"
    <3> DEFINE q == PlanMagick(p, r)
    <3>1. AsPlanned(x, q) /\ q.ok = TRUE
      BY <1>4, <2>1, <2>4 DEF PlannedIn, AsPlanned
    <3>2. q = PlanMagick(p, r) /\ ~p.alpha /\ Indices(p, Video) # {}
      BY <1>4, <2>4
    <3> HIDE DEF q, r, f
    <3>3. p.format \in {"psd", "dng"} /\ PlannedPicture(p, q)
      BY ONLY <3>1, <3>2, DecodedMade
    <3>4. Indices(f, Video) # {}
      BY <1>1, <1>4, <2>4, <3>3
    <3>5. PlannedPicture(p, x)
      BY ONLY <3>1, <3>3, PlannedAlike
    <3>6. MediaPlanned(f, r, p, x)
      BY <1>4, <2>4, <3>4, <3>5 DEF MediaPlanned
    <3> QED BY <3>6 DEF f, r
  <2> QED BY <1>2, <2>2, <2>3, <2>4
<1>7. \/ x.lane = "Ffmpeg" /\ AsPlanned(x, PlanMetadataClean(InspectMedia(f), r))
      \/ \E lane : PlannedIn(x, lane, f, r, c.op) /\ x.lane = lane.adapter
  BY OriginLane
<1> QED BY <1>5, <1>6, <1>7

-----------------------------------------------------------------------------
(* Media: what the validator looks at.                                      *)

\* The validator looks at the fields of the output.
LEMMA ChecksOfMedia ==
    ASSUME NEW p, NEW y, NEW x
    PROVE  ValidateMedia(p, y, x) # "fail" <=>
              /\ Readable(y) /\ NormalizedFormat(y.container, y.ext) = x.target
              /\ ~DurationFails(p, y, x) /\ ~CountFails(p, y, x) /\ ~DimensionsFail(p, y, x)
              /\ ~CodecFails(p, y, x) /\ ~AlphaFails(p, y, x) /\ ~CleaningFails(p, y, x)
<1> DEFINE z == InspectMedia(y)
<1>1. /\ z.streams = y.streams /\ z.width = y.width /\ z.height = y.height
      /\ z.alpha = y.alpha /\ z.millis = y.millis /\ z.keys = y.keys
      /\ z.format = NormalizedFormat(y.container, y.ext)
  BY DEF InspectMedia
<1>2. ValidateMedia(p, y, x) =
         IF \/ ~Readable(y) \/ z.format # x.target \/ DurationFails(p, z, x)
            \/ CountFails(p, z, x) \/ DimensionsFail(p, z, x) \/ CodecFails(p, z, x)
            \/ AlphaFails(p, z, x) \/ CleaningFails(p, z, x)
         THEN "fail" ELSE IF DurationUnknown(p, z, x) THEN "unknown" ELSE "pass"
  BY DEF ValidateMedia
<1> HIDE DEF z
<1>3. \A k : Indices(z, k) = Indices(y, k)
  BY <1>1 DEF Indices
<1>4. DurationFails(p, z, x) <=> DurationFails(p, y, x)
  BY <1>1 DEF DurationFails, DurationUnknown
<1>5. CountFails(p, z, x) <=> CountFails(p, y, x)
  BY <1>3 DEF CountFails
<1>6. DimensionsFail(p, z, x) <=> DimensionsFail(p, y, x)
  BY <1>1, <1>3 DEF DimensionsFail, HasVideo
<1>7. CodecFails(p, z, x) <=> CodecFails(p, y, x)
  BY <1>1, <1>3 DEF CodecFails, FirstCodec
<1>8. AlphaFails(p, z, x) <=> AlphaFails(p, y, x)
  BY <1>1 DEF AlphaFails
<1>9. CleaningFails(p, z, x) <=> CleaningFails(p, y, x)
  BY <1>1 DEF CleaningFails
<1> QED BY <1>1, <1>2, <1>4, <1>5, <1>6, <1>7, <1>8, <1>9

\* without transparency
Opaque == FALSE

\* the files that are written are records of these fields
MediaFields == {"container", "ext", "streams", "width", "height", "alpha", "millis", "keys"}

\* a written file with these fields
FieldsAre(o, container, ext, streams, width, height, alpha, millis, keys) ==
    /\ DOMAIN o = MediaFields /\ o = [k \in MediaFields |-> o[k]]
    /\ o.container = container /\ o.ext = ext /\ o.streams = streams
    /\ o.width = width /\ o.height = height /\ o.alpha = alpha
    /\ o.millis = millis /\ o.keys = keys

LEMMA FieldsOfWritten ==
    ASSUME NEW c, NEW e, NEW s, NEW w, NEW h, NEW a, NEW m, NEW k
    PROVE  FieldsAre(Written(c, e, s, w, h, a, m, k), c, e, s, w, h, a, m, k)
BY DEF FieldsAre, Written, MediaFields

FileWidth(p, x) == IF x.arguments.width # Unset THEN x.arguments.width ELSE p.width
FileHeight(p, x) ==
    IF x.arguments.width # Unset THEN ScaledHeight(p, x.arguments.width) ELSE p.height

MovieStreams(p, x) ==
    Mapped(p, Video, x.arguments.video, "h264") \o Mapped(p, Audio, x.arguments.audio, "aac")
      \o (IF x.arguments.subtitles = "copy" THEN OfKind(p, Subtitle) ELSE <<>>)

SoundStream(p, x) ==
    IF x.arguments.audio = "copy" THEN p.streams[x.arguments.stream]
    ELSE Stream(Audio, AudioForm[x.target].codec)

\* what the engine writes for the five kinds of plans
LEMMA EngineOfMedia ==
    ASSUME NEW p, NEW x, NEW ext, NEW o, o = Engine(p, x, ext)
    PROVE  /\ x.operation = "metadata-clean" =>
                 FieldsAre(o, p.format, ext, p.streams, p.width, p.height, p.alpha, p.millis,
                           p.keys \ x.arguments.removed)
           /\ x.operation # "metadata-clean" /\ x.target = "mp4" =>
                 FieldsAre(o, "mp4", ext, MovieStreams(p, x), p.width, p.height, Opaque,
                           p.millis, p.keys)
           /\ x.operation # "metadata-clean" /\ x.target \in AudioTargets =>
                 FieldsAre(o, x.target, ext, <<SoundStream(p, x)>>, 0, 0, Opaque, p.millis,
                           p.keys)
           /\ x.operation # "metadata-clean" /\ x.target = "gif" =>
                 FieldsAre(o, "gif", ext, <<Stream(Video, "gif")>>, FileWidth(p, x),
                           FileHeight(p, x), Opaque, SliceMillis(p, x.arguments), NoKeys)
           /\ x.operation # "metadata-clean" /\ x.target \in ImageOutputs =>
                 FieldsAre(o, x.target, ext, <<Stream(Video, ImageCodec[x.target])>>,
                           FileWidth(p, x), FileHeight(p, x), p.alpha, Unset, NoKeys)
<1> DEFINE t == x.target
           video(codec) == Written(t, ext, <<Stream(Video, codec)>>, FileWidth(p, x),
                                   FileHeight(p, x), p.alpha, Unset, NoKeys)
<1>0. /\ t = "mp4" => t \notin AudioTargets /\ t # "gif" /\ t \notin ImageOutputs
      /\ t \in AudioTargets => t # "mp4" /\ t # "gif" /\ t \notin ImageOutputs
      /\ t = "gif" => t # "mp4" /\ t \notin AudioTargets /\ t \notin ImageOutputs
      /\ t \in ImageOutputs => t # "mp4" /\ t # "gif" /\ t \notin AudioTargets
  BY DEF AudioTargets, AudioForm, ImageOutputs, ImageCodec
<1>1. o = IF x.operation = "metadata-clean"
          THEN Written(p.format, ext, p.streams, p.width, p.height, p.alpha, p.millis,
                       p.keys \ x.arguments.removed)
          ELSE CASE t = "mp4" ->
                      Written("mp4", ext, MovieStreams(p, x), p.width, p.height, Opaque, p.millis,
                              p.keys)
                 [] t \in AudioTargets ->
                      Written(t, ext, <<SoundStream(p, x)>>, 0, 0, Opaque, p.millis, p.keys)
                 [] t = "gif" ->
                      [video("gif") EXCEPT !.millis = SliceMillis(p, x.arguments), !.alpha = Opaque]
                 [] OTHER -> video(ImageCodec[t])
  BY DEF Engine, MovieStreams, SoundStream, FileWidth, FileHeight, Opaque
<1> HIDE DEF video, t
<1>2. ASSUME x.operation = "metadata-clean"
      PROVE  FieldsAre(o, p.format, ext, p.streams, p.width, p.height, p.alpha, p.millis,
                       p.keys \ x.arguments.removed)
  BY <1>1, <1>2, FieldsOfWritten
<1>3. ASSUME x.operation # "metadata-clean", t = "mp4"
      PROVE  FieldsAre(o, "mp4", ext, MovieStreams(p, x), p.width, p.height, Opaque, p.millis,
                       p.keys)
  <2>1. o = Written("mp4", ext, MovieStreams(p, x), p.width, p.height, Opaque, p.millis, p.keys)
    BY ONLY <1>0, <1>1, <1>3, Zenon
  <2> QED BY <2>1, FieldsOfWritten
<1>4. ASSUME x.operation # "metadata-clean", t \in AudioTargets
      PROVE  FieldsAre(o, t, ext, <<SoundStream(p, x)>>, 0, 0, Opaque, p.millis, p.keys)
  <2>1. o = Written(t, ext, <<SoundStream(p, x)>>, 0, 0, Opaque, p.millis, p.keys)
    BY ONLY <1>0, <1>1, <1>4, Zenon
  <2> QED BY <2>1, FieldsOfWritten
<1>5. ASSUME x.operation # "metadata-clean", t = "gif"
      PROVE  FieldsAre(o, "gif", ext, <<Stream(Video, "gif")>>, FileWidth(p, x), FileHeight(p, x),
                       Opaque, SliceMillis(p, x.arguments), NoKeys)
  <2>1. o = [video("gif") EXCEPT !.millis = SliceMillis(p, x.arguments), !.alpha = Opaque]
    BY ONLY <1>0, <1>1, <1>5, Zenon
  <2> DEFINE v == video("gif")
  <2>2. FieldsAre(v, t, ext, <<Stream(Video, "gif")>>, FileWidth(p, x), FileHeight(p, x),
                  p.alpha, Unset, NoKeys)
    BY FieldsOfWritten DEF video
  <2> HIDE DEF v
  <2>3. o = [v EXCEPT !.millis = SliceMillis(p, x.arguments), !.alpha = Opaque]
    BY <2>1 DEF v
  <2> QED BY ONLY <1>5, <2>2, <2>3 DEF FieldsAre, MediaFields
<1>6. ASSUME x.operation # "metadata-clean", t \in ImageOutputs
      PROVE  FieldsAre(o, t, ext, <<Stream(Video, ImageCodec[t])>>, FileWidth(p, x),
                       FileHeight(p, x), p.alpha, Unset, NoKeys)
  <2>1. o = video(ImageCodec[t])
    BY ONLY <1>0, <1>1, <1>6, Zenon
  <2> QED BY <2>1, FieldsOfWritten DEF video
<1> QED BY <1>2, <1>3, <1>4, <1>5, <1>6 DEF t

AllBut(y, o, k) ==
    /\ DOMAIN y = MediaFields /\ y = [e \in MediaFields |-> y[e]]
    /\ \A e \in MediaFields \ {k} : y[e] = o[e]

\* the ways in which an output may be wrong: one field is another
DamagedTo(y, o, x) ==
    \/ AllBut(y, o, "millis") /\ o.millis > 600 /\ y.millis = o.millis - 600
    \/ AllBut(y, o, "streams") /\ o.streams # <<>> /\ y.streams = Front(o.streams)
    \/ AllBut(y, o, "streams") /\ o.streams # <<>>
         /\ y.streams = [o.streams EXCEPT ![1].codec = "other"]
    \/ AllBut(y, o, "height") /\ o.height > 0 /\ y.height = o.height + 2
    \/ AllBut(y, o, "alpha") /\ y.alpha = Opaque
    \/ AllBut(y, o, "keys") /\ x.operation = "metadata-clean"
         /\ y.keys = o.keys \cup x.arguments.removed
    \/ AllBut(y, o, "streams") /\ y.streams = Append(o.streams, Stream(Audio, "aac"))
    \/ y = o

LEMMA DamagedMedia ==
    ASSUME NEW o, NEW x, NEW d, NEW y, y = Damage(o, d, x), d \in Damages, DOMAIN o = MediaFields
    PROVE  DamagedTo(y, o, x)
<1>1. d \in {"short", "lost", "codec", "scaled", "opaque", "kept", "added"}
  BY DEF Damages
<1>2. ASSUME NEW k \in MediaFields, NEW z
      PROVE  AllBut([o EXCEPT ![k] = z], o, k) /\ [o EXCEPT ![k] = z][k] = z
  <2> DEFINE other == [o EXCEPT ![k] = z]
  <2>1. other = [e \in MediaFields |-> IF e = k THEN z ELSE o[e]]
    BY ONLY DOMAIN o = MediaFields
  <2> HIDE DEF other
  <2>2. /\ DOMAIN other = MediaFields /\ other[k] = z
        /\ \A e \in MediaFields \ {k} : other[e] = o[e]
    BY ONLY <1>2, <2>1
  <2>3. other = [e \in MediaFields |-> other[e]]
    BY ONLY <2>1
  <2> QED BY ONLY <2>2, <2>3 DEF other, AllBut
<1>3. ASSUME NEW k \in MediaFields, NEW z, y = [o EXCEPT ![k] = z]
      PROVE  AllBut(y, o, k) /\ y[k] = z
  <2> DEFINE other == [o EXCEPT ![k] = z]
  <2>1. AllBut(other, o, k) /\ other[k] = z
    BY ONLY <1>2, <1>3
  <2>2. y = other
    BY ONLY <1>3
  <2> HIDE DEF other
  <2> QED BY ONLY <2>1, <2>2
<1>4. CASE d = "short"
  <2>1. CASE o.millis > 600
    <3>1. y = [o EXCEPT !["millis"] = o.millis - 600]
      BY ONLY <1>4, <2>1, y = Damage(o, d, x) DEF Damage
    <3>8. "millis" \in MediaFields
      BY DEF MediaFields
    <3>9. AllBut(y, o, "millis") /\ y["millis"] = o.millis - 600
      BY ONLY <1>3, <3>1, <3>8, ZenonT(30)
    <3> QED BY ONLY <2>1, <3>9 DEF DamagedTo
  <2>2. CASE ~(o.millis > 600)
    <3>1. /\ d # "lost" /\ d # "codec" /\ d # "scaled" /\ d # "opaque" /\ d # "kept"
          /\ d # "added"
      BY <1>4
    <3>2. y = o
      BY ONLY <2>2, <3>1, y = Damage(o, d, x), Zenon DEF Damage
    <3> QED BY <3>2 DEF DamagedTo
  <2> QED BY <2>1, <2>2
<1>5. CASE d = "lost"
  <2>0. /\ d # "short" /\ d # "codec" /\ d # "scaled" /\ d # "opaque" /\ d # "kept"
        /\ d # "added"
    BY <1>5
  <2>1. CASE o.streams # <<>>
    <3>1. y = [o EXCEPT !["streams"] = Front(o.streams)]
      BY ONLY <1>5, <2>0, <2>1, y = Damage(o, d, x), Zenon DEF Damage
    <3>8. "streams" \in MediaFields
      BY DEF MediaFields
    <3>9. AllBut(y, o, "streams") /\ y["streams"] = Front(o.streams)
      BY ONLY <1>3, <3>1, <3>8
    <3> QED BY ONLY <2>1, <3>9 DEF DamagedTo
  <2>2. CASE o.streams = <<>>
    <3>1. y = o
      BY ONLY <2>0, <2>2, y = Damage(o, d, x), Zenon DEF Damage
    <3> QED BY <3>1 DEF DamagedTo
  <2> QED BY <2>1, <2>2
<1>6. CASE d = "codec"
  <2>0. /\ d # "short" /\ d # "lost" /\ d # "scaled" /\ d # "opaque" /\ d # "kept"
        /\ d # "added"
    BY <1>6
  <2>1. CASE o.streams # <<>>
    <3>1. y = [o EXCEPT !.streams[1].codec = "other"]
      BY ONLY <1>6, <2>0, <2>1, y = Damage(o, d, x), Zenon DEF Damage
    <3>2. y = [o EXCEPT !["streams"] = [o.streams EXCEPT ![1].codec = "other"]]
      BY ONLY <3>1
    <3>8. "streams" \in MediaFields
      BY DEF MediaFields
    <3>9. AllBut(y, o, "streams") /\ y["streams"] = [o.streams EXCEPT ![1].codec = "other"]
      BY ONLY <1>3, <3>2, <3>8
    <3> QED BY ONLY <2>1, <3>9 DEF DamagedTo
  <2>2. CASE o.streams = <<>>
    <3>1. y = o
      BY ONLY <2>0, <2>2, y = Damage(o, d, x), Zenon DEF Damage
    <3> QED BY <3>1 DEF DamagedTo
  <2> QED BY <2>1, <2>2
<1>7. CASE d = "scaled"
  <2>0. /\ d # "short" /\ d # "lost" /\ d # "codec" /\ d # "opaque" /\ d # "kept"
        /\ d # "added"
    BY <1>7
  <2>1. CASE o.height > 0
    <3>1. y = [o EXCEPT !["height"] = o.height + 2]
      BY ONLY <1>7, <2>0, <2>1, y = Damage(o, d, x), Zenon DEF Damage
    <3>8. "height" \in MediaFields
      BY DEF MediaFields
    <3>9. AllBut(y, o, "height") /\ y["height"] = o.height + 2
      BY ONLY <1>3, <3>1, <3>8
    <3> QED BY ONLY <2>1, <3>9 DEF DamagedTo
  <2>2. CASE ~(o.height > 0)
    <3>1. y = o
      BY ONLY <2>0, <2>2, y = Damage(o, d, x), Zenon DEF Damage
    <3> QED BY <3>1 DEF DamagedTo
  <2> QED BY <2>1, <2>2
<1>8. CASE d = "opaque"
  <2>0. /\ d # "short" /\ d # "lost" /\ d # "codec" /\ d # "scaled" /\ d # "kept"
        /\ d # "added"
    BY <1>8
  <2>1. y = [o EXCEPT !["alpha"] = Opaque]
    BY ONLY <1>8, <2>0, y = Damage(o, d, x), Zenon DEF Damage, Opaque
  <2>2. AllBut(y, o, "alpha") /\ y.alpha = Opaque
    BY ONLY <1>3, <2>1 DEF MediaFields
  <2> QED BY ONLY <2>2 DEF DamagedTo
<1>9. CASE d = "kept"
  <2>0. /\ d # "short" /\ d # "lost" /\ d # "codec" /\ d # "scaled" /\ d # "opaque"
        /\ d # "added"
    BY <1>9
  <2>1. CASE x.operation = "metadata-clean"
    <3>1. y = [o EXCEPT !["keys"] = o.keys \cup x.arguments.removed]
      BY ONLY <1>9, <2>0, <2>1, y = Damage(o, d, x), Zenon DEF Damage
    <3>8. "keys" \in MediaFields
      BY DEF MediaFields
    <3>9. AllBut(y, o, "keys") /\ y["keys"] = o.keys \cup x.arguments.removed
      BY ONLY <1>3, <3>1, <3>8
    <3> QED BY ONLY <2>1, <3>9 DEF DamagedTo
  <2>2. CASE x.operation # "metadata-clean"
    <3>1. y = o
      BY ONLY <2>0, <2>2, y = Damage(o, d, x), Zenon DEF Damage
    <3> QED BY <3>1 DEF DamagedTo
  <2> QED BY <2>1, <2>2
<1>10. CASE d = "added"
  <2>0. /\ d # "short" /\ d # "lost" /\ d # "codec" /\ d # "scaled" /\ d # "opaque"
        /\ d # "kept"
    BY <1>10
  <2>1. y = [o EXCEPT !["streams"] = Append(o.streams, Stream(Audio, "aac"))]
    BY ONLY <1>10, <2>0, y = Damage(o, d, x), Zenon DEF Damage
  <2>2. "streams" \in MediaFields
    BY DEF MediaFields
  <2>3. AllBut(y, o, "streams") /\ y["streams"] = Append(o.streams, Stream(Audio, "aac"))
    BY ONLY <1>3, <2>1, <2>2
  <2> QED BY ONLY <2>3 DEF DamagedTo
<1> QED BY ONLY <1>1, <1>4, <1>5, <1>6, <1>7, <1>8, <1>9, <1>10 DEF DamagedTo

LEMMA OtherField ==
    ASSUME NEW o, NEW y, NEW k, AllBut(y, o, k), o = [e \in MediaFields |-> o[e]], y # o
    PROVE  y[k] # o[k]
BY DEF AllBut

-----------------------------------------------------------------------------
(* Numbers of streams.                                                      *)

OfKindAt(s, k) == {i \in DOMAIN s : s[i].kind = k}
Count(s, k) == Cardinality(OfKindAt(s, k))

LEMMA IndicesAre ==
    ASSUME NEW y, NEW k
    PROVE  Indices(y, k) = OfKindAt(y.streams, k)
BY DEF Indices, OfKindAt

LEMMA KindsAreFinite ==
    ASSUME NEW S, NEW s \in Seq(S), NEW k
    PROVE  /\ IsFiniteSet(OfKindAt(s, k)) /\ Count(s, k) \in Nat /\ OfKindAt(s, k) \subseteq 1..Len(s)
           /\ Len(s) \in Nat
<1>1. DOMAIN s = 1..Len(s) /\ Len(s) \in Nat
  OBVIOUS
<1>2. OfKindAt(s, k) \subseteq 1..Len(s)
  BY <1>1 DEF OfKindAt
<1>3. IsFiniteSet(1..Len(s))
  BY <1>1, FS_Interval
<1>4. IsFiniteSet(OfKindAt(s, k))
  BY <1>2, <1>3, FS_Subset
<1> QED BY <1>1, <1>2, <1>4, FS_CardinalityType DEF Count

\* streams of one kind
LEMMA CountOfOneKind ==
    ASSUME NEW S, NEW s \in Seq(S), NEW j, \A i \in DOMAIN s : s[i].kind = j
    PROVE  Count(s, j) = Len(s) /\ \A k : k # j => Count(s, k) = 0
<1>1. DOMAIN s = 1..Len(s) /\ Len(s) \in Nat
  OBVIOUS
<1>2. OfKindAt(s, j) = 1..Len(s)
  BY <1>1 DEF OfKindAt
<1>3. Count(s, j) = Len(s)
  <2> DEFINE n == Len(s)
  <2>1. n \in Nat /\ Count(s, j) = Cardinality(1..n)
    BY <1>1, <1>2 DEF Count
  <2> HIDE DEF n
  <2>2. Cardinality(1..n) = n
    BY <2>1, FS_Interval
  <2> QED BY <2>1, <2>2 DEF n
<1>4. ASSUME NEW k, k # j PROVE Count(s, k) = 0
  <2>1. OfKindAt(s, k) = {}
    BY <1>4 DEF OfKindAt
  <2> QED BY <2>1, FS_EmptySet DEF Count
<1> QED BY <1>3, <1>4

LEMMA CountOfOne ==
    ASSUME NEW e
    PROVE  Count(<<e>>, e.kind) = 1 /\ \A k : k # e.kind => Count(<<e>>, k) = 0
<1> DEFINE s == <<e>>
           j == e.kind
<1>1. s \in Seq({e}) /\ Len(s) = 1 /\ \A i \in DOMAIN s : s[i].kind = j
  OBVIOUS
<1> HIDE DEF s, j
<1>2. Count(s, j) = Len(s) /\ \A k : k # j => Count(s, k) = 0
  BY ONLY <1>1, CountOfOneKind
<1> QED BY <1>1, <1>2 DEF s, j

LEMMA CountJoined ==
    ASSUME NEW S, NEW s \in Seq(S), NEW t \in Seq(S), NEW k
    PROVE  Count(s \o t, k) = Count(s, k) + Count(t, k)
<1> DEFINE n == Len(s)
           m == Len(t)
           u == s \o t
           I == OfKindAt(s, k)
           J == OfKindAt(t, k)
           K == {i \in n + 1..n + m : u[i].kind = k}
           move == [i \in J |-> n + i]
<1>1. /\ n \in Nat /\ m \in Nat /\ DOMAIN s = 1..n /\ DOMAIN t = 1..m
      /\ IsFiniteSet(I) /\ IsFiniteSet(J) /\ I \subseteq 1..n /\ J \subseteq 1..m
  BY KindsAreFinite
<1>2. DOMAIN u = 1..n + m
  OBVIOUS
<1>3. \A i \in 1..n : u[i] = s[i]
  OBVIOUS
<1>4. \A i \in 1..m : u[n + i] = t[i]
  OBVIOUS
<1> HIDE DEF n, m, u, I, J
<1>5. OfKindAt(u, k) = I \cup K
  <2>1. 1..n + m = 1..n \cup n + 1..n + m
    BY ONLY <1>1
  <2>2. \A i \in 1..n : i \in I <=> u[i].kind = k
    BY <1>1, <1>3 DEF I, OfKindAt
  <2> QED BY ONLY <1>1, <1>2, <2>1, <2>2 DEF OfKindAt
<1>6. move \in Bijection(J, K)
  <2>1. \A i \in J : n + i \in K
    <3>1. \A i \in J : i \in 1..m /\ t[i].kind = k
      BY <1>1 DEF J, OfKindAt
    <3>2. \A i \in 1..m : n + i \in n + 1..n + m
      BY ONLY <1>1
    <3> QED BY ONLY <1>4, <3>1, <3>2
  <2>2. \A i \in K : i - n \in J /\ n + (i - n) = i
    <3>1. \A i \in n + 1..n + m : i - n \in 1..m /\ n + (i - n) = i
      BY ONLY <1>1
    <3>2. \A i \in K : t[i - n].kind = k
      BY ONLY <1>4, <3>1
    <3> QED BY <1>1, <3>1, <3>2 DEF J, OfKindAt
  <2>3. \A i, l \in J : n + i = n + l => i = l
    <3>1. \A i, l \in 1..m : n + i = n + l => i = l
      BY ONLY <1>1
    <3> QED BY ONLY <1>1, <3>1
  <2> HIDE DEF K
  <2>4. move \in [J -> K]
    BY <2>1
  <2>5. \A i, l \in J : move[i] = move[l] => i = l
    BY <2>3
  <2>6. \A i \in K : \E l \in J : move[l] = i
    BY <2>2
  <2> HIDE DEF move
  <2> QED BY ONLY <2>4, <2>5, <2>6 DEF Bijection, Injection, Surjection, IsInjective
<1>7. IsFiniteSet(K) /\ Cardinality(K) = Cardinality(J)
  <2>1. ExistsBijection(J, K)
    BY <1>6 DEF ExistsBijection
  <2> HIDE DEF K, move
  <2> QED BY ONLY <1>1, <2>1, FS_Bijection
<1>8. I \cap K = {}
  BY ONLY <1>1
<1> HIDE DEF K
<1>9. Cardinality(I \cup K) = Cardinality(I) + Cardinality(K) - Cardinality(I \cap K)
  BY ONLY <1>1, <1>7, FS_Union
<1>10. Cardinality(I \cap K) = 0
  BY ONLY <1>8, FS_EmptySet
<1>11. Cardinality(I) \in Nat /\ Cardinality(J) \in Nat
  BY ONLY <1>1, FS_CardinalityType
<1> DEFINE a == Cardinality(I)
           b == Cardinality(J)
           c == Cardinality(OfKindAt(u, k))
<1>12. c = a + b
  <2>1. c = Cardinality(I \cup K)
    BY <1>5
  <2> HIDE DEF a, b, c
  <2>2. c = a + b - 0
    BY <1>7, <1>9, <1>10, <2>1 DEF a, b
  <2>3. a \in Nat /\ b \in Nat
    BY <1>11 DEF a, b
  <2> QED BY ONLY <2>2, <2>3
<1> QED BY <1>12 DEF Count, I, J, u

LEMMA CountAppended ==
    ASSUME NEW S, NEW s \in Seq(S), NEW e
    PROVE  /\ Count(Append(s, e), e.kind) = Count(s, e.kind) + 1
           /\ \A k : k # e.kind => Count(Append(s, e), k) = Count(s, k)
           /\ \A k : Count(s, k) \in Nat
<1> DEFINE T == S \cup {e}
           one == <<e>>
           u == Append(s, e)
           j == e.kind
<1>1. s \in Seq(T) /\ one \in Seq(T)
  OBVIOUS
<1>2. u = s \o one
  OBVIOUS
<1>3. Count(one, j) = 1 /\ \A k : k # j => Count(one, k) = 0
  BY CountOfOne
<1> HIDE DEF T, one, u, j
<1>4. \A k : Count(s, k) \in Nat
  BY KindsAreFinite
<1>5. \A k : Count(u, k) = Count(s, k) + Count(one, k)
  BY <1>1, <1>2, CountJoined
<1>6. Count(u, j) = Count(s, j) + 1
  BY ONLY <1>3, <1>5
<1>7. \A k : k # j => Count(u, k) = Count(s, k)
  BY ONLY <1>3, <1>4, <1>5
<1> QED BY <1>4, <1>6, <1>7 DEF u, j

\* without its last stream there is one of its kind less
LEMMA CountOfFront ==
    ASSUME NEW S, NEW s \in Seq(S), s # <<>>
    PROVE  /\ Len(s) \in DOMAIN s
           /\ Count(Front(s), s[Len(s)].kind) # Count(s, s[Len(s)].kind)
<1> DEFINE n == Len(s)
           g == Front(s)
           e == s[n]
<1>1. /\ n \in Nat /\ n # 0 /\ Len(g) = n - 1 /\ g \in Seq(S)
      /\ \A i \in 1..n - 1 : g[i] = s[i]
  BY FrontIsShorter
<1>2. DOMAIN s = 1..n
  OBVIOUS
<1> HIDE DEF g, n
<1>3. s = Append(g, e)
  <2> DEFINE u == Append(g, e)
             m == Len(g)
  <2>1. DOMAIN u = 1..m + 1 /\ (\A i \in 1..m : u[i] = g[i]) /\ u[m + 1] = e /\ u \in Seq(S \cup {e})
    BY ONLY <1>1
  <2> HIDE DEF u, m, e
  <2>2. m + 1 = n /\ m = n - 1
    BY ONLY <1>1 DEF m
  <2>3. \A i \in 1..n : i \in 1..m \/ i = n
    BY ONLY <1>1, <2>2
  <2>4. DOMAIN u = DOMAIN s
    BY ONLY <1>2, <2>1, <2>2
  <2>5. \A i \in DOMAIN s : u[i] = s[i]
    <3>1. \A i \in 1..m : u[i] = s[i]
      BY ONLY <1>1, <2>1, <2>2
    <3>2. u[n] = s[n]
      BY <2>1, <2>2 DEF e
    <3> QED BY ONLY <1>2, <2>3, <3>1, <3>2
  <2>6. u = s
    <3>1. u = [i \in DOMAIN u |-> u[i]] /\ s = [i \in DOMAIN s |-> s[i]]
      BY <2>1
    <3> QED BY ONLY <2>4, <2>5, <3>1
  <2> QED BY <2>6 DEF u
<1>4. Count(Append(g, e), e.kind) = Count(g, e.kind) + 1 /\ Count(g, e.kind) \in Nat
  BY ONLY <1>1, CountAppended
<1>5. n \in DOMAIN s
  BY ONLY <1>1, <1>2
<1> DEFINE j == e.kind
<1>6. Count(s, j) = Count(g, j) + 1 /\ Count(g, j) \in Nat
  BY <1>3, <1>4
<1> HIDE DEF j
<1>7. Count(g, j) # Count(s, j)
  BY ONLY <1>6
<1> QED BY <1>5, <1>7 DEF j, n, g

\* a number of streams of one kind
StreamsOf(m, k, n) == (\E T : m \in Seq(T) /\ \A e \in T : e.kind = k) /\ Len(m) = n

LEMMA StreamsCounted ==
    ASSUME NEW m, NEW k, NEW n, StreamsOf(m, k, n)
    PROVE  Count(m, k) = n /\ \A j : j # k => Count(m, j) = 0
<1>1. PICK T : m \in Seq(T) /\ \A e \in T : e.kind = k
  BY DEF StreamsOf
<1>2. \A i \in DOMAIN m : m[i].kind = k
  BY <1>1
<1>3. Count(m, k) = Len(m) /\ \A j : j # k => Count(m, j) = 0
  BY ONLY <1>1, <1>2, CountOfOneKind
<1> QED BY <1>3 DEF StreamsOf

LEMMA KindPicked ==
    ASSUME NEW S, NEW p, p.streams \in Seq(S), NEW k
    PROVE  /\ StreamsOf(OfKind(p, k), k, Count(p.streams, k))
           /\ Count(p.streams, k) \in Nat
<1> DEFINE s == p.streams
           I == Indices(p, k)
           m == OfKind(p, k)
           T == {e \in S : e.kind = k}
<1>1. I = OfKindAt(s, k) /\ I \in SUBSET DOMAIN s
  BY IndicesAre DEF OfKindAt
<1>2. m = Pick(s, I) /\ s \in Seq(S)
  BY DEF OfKind
<1>3. \A i \in I : s[i] \in T
  <2>1. \A i \in DOMAIN s : s[i] \in S
    BY <1>2
  <2> QED BY <1>1, <2>1 DEF OfKindAt
<1> HIDE DEF s, I, m, T
<1>4. /\ m \in Seq(S) /\ Len(m) = Cardinality(I) /\ Cardinality(I) \in Nat
      /\ \A n \in 1..Cardinality(I) : Nth(I, n) \in I /\ Pick(s, I)[n] = s[Nth(I, n)]
  BY ONLY <1>1, <1>2, PickedMembers
<1>5. m \in Seq(T)
  <2>1. \A n \in 1..Len(m) : m[n] \in T
    BY <1>2, <1>3, <1>4
  <2>2. m = [n \in 1..Len(m) |-> m[n]] /\ Len(m) \in Nat
    BY <1>4
  <2> QED BY ONLY <2>1, <2>2
<1>6. Cardinality(I) = Count(s, k)
  BY <1>1 DEF Count
<1>7. StreamsOf(m, k, Count(s, k))
  BY <1>4, <1>5, <1>6 DEF StreamsOf, T
<1> QED BY <1>4, <1>6, <1>7 DEF s, m

LEMMA MappedStreams ==
    ASSUME NEW S, NEW p, p.streams \in Seq(S), NEW k, NEW mode, NEW codec
    PROVE  StreamsOf(Mapped(p, k, mode, codec), k, Count(p.streams, k))
<1> DEFINE all == OfKind(p, k)
           n == Count(p.streams, k)
           e == Stream(k, codec)
           one == [i \in DOMAIN all |-> e]
<1>1. StreamsOf(all, k, n) /\ n \in Nat
  BY KindPicked
<1>2. Mapped(p, k, mode, codec) = IF mode = "copy" THEN all ELSE one
  BY DEF Mapped
<1>3. e.kind = k
  BY DEF Stream
<1> HIDE DEF all, e, n
<1>4. DOMAIN all = 1..n
  <2>1. PICK T : all \in Seq(T)
    BY <1>1 DEF StreamsOf
  <2>2. DOMAIN all = 1..Len(all)
    BY <2>1
  <2> QED BY <1>1, <2>2 DEF StreamsOf
<1>5. one \in Seq({e}) /\ Len(one) = n
  BY ONLY <1>1, <1>4
<1> HIDE DEF one
<1>6. StreamsOf(one, k, n)
  BY ONLY <1>3, <1>5 DEF StreamsOf
<1> QED BY <1>1, <1>2, <1>6 DEF n

\* The streams of a movie are the mapped ones, in order of their kinds.
LEMMA MovieCounted ==
    ASSUME NEW S, NEW p, p.streams \in Seq(S), NEW x
    PROVE  LET m == MovieStreams(p, x)
               s == p.streams
           IN /\ \E T : m \in Seq(T) /\ \A e \in T : e.kind \in {Video, Audio, Subtitle}
              /\ Count(m, Video) = Count(s, Video) /\ Count(m, Audio) = Count(s, Audio)
              /\ Count(m, Subtitle) = IF x.arguments.subtitles = "copy" THEN Count(s, Subtitle) ELSE 0
              /\ Count(m, Data) = 0
<1> DEFINE a == Mapped(p, Video, x.arguments.video, "h264")
           b == Mapped(p, Audio, x.arguments.audio, "aac")
           c == IF x.arguments.subtitles = "copy" THEN OfKind(p, Subtitle) ELSE <<>>
           s == p.streams
           n == IF x.arguments.subtitles = "copy" THEN Count(s, Subtitle) ELSE 0
           m == a \o b \o c
<1>1. MovieStreams(p, x) = m
  BY DEF MovieStreams
<1>2. /\ Video # Audio /\ Video # Subtitle /\ Video # Data /\ Audio # Subtitle /\ Audio # Data
      /\ Subtitle # Data
  BY DEF Video, Audio, Subtitle, Data
<1>3. StreamsOf(a, Video, Count(s, Video)) /\ StreamsOf(b, Audio, Count(s, Audio))
  BY MappedStreams
<1>4. StreamsOf(c, Subtitle, n)
  <2>1. StreamsOf(OfKind(p, Subtitle), Subtitle, Count(s, Subtitle))
    BY KindPicked
  <2>2. StreamsOf(<<>>, Subtitle, 0)
    <3> DEFINE z == <<>>
               T == {}
    <3>1. z \in Seq(T) /\ Len(z) = 0 /\ \A e \in T : e.kind = Subtitle
      OBVIOUS
    <3> HIDE DEF z, T
    <3>2. StreamsOf(z, Subtitle, 0)
      BY ONLY <3>1 DEF StreamsOf
    <3> QED BY ONLY <3>2 DEF z
  <2> QED BY <2>1, <2>2
<1>5. \A k : Count(s, k) \in Nat
  BY KindPicked
<1>6. n \in Nat
  BY <1>5
<1> HIDE DEF a, b, c, s, n
<1>7. PICK A : a \in Seq(A) /\ \A e \in A : e.kind = Video
  BY <1>3 DEF StreamsOf
<1>8. PICK B : b \in Seq(B) /\ \A e \in B : e.kind = Audio
  BY <1>3 DEF StreamsOf
<1>9. PICK C : c \in Seq(C) /\ \A e \in C : e.kind = Subtitle
  BY <1>4 DEF StreamsOf
<1> DEFINE T == A \cup B \cup C
           ab == a \o b
<1>10. a \in Seq(T) /\ b \in Seq(T) /\ c \in Seq(T)
  BY ONLY <1>7, <1>8, <1>9
<1>11. \A e \in T : e.kind \in {Video, Audio, Subtitle}
  BY ONLY <1>7, <1>8, <1>9
<1> HIDE DEF T
<1>12. ab \in Seq(T) /\ m \in Seq(T) /\ m = ab \o c
  BY ONLY <1>10
<1> HIDE DEF ab, m
<1>13. \A k : Count(m, k) = Count(ab, k) + Count(c, k)
  BY ONLY <1>10, <1>12, CountJoined
<1>14. \A k : Count(ab, k) = Count(a, k) + Count(b, k)
  BY <1>10, CountJoined DEF ab
<1>15. /\ Count(a, Video) = Count(s, Video) /\ \A k : k # Video => Count(a, k) = 0
  BY ONLY <1>3, StreamsCounted
<1>16. /\ Count(b, Audio) = Count(s, Audio) /\ \A k : k # Audio => Count(b, k) = 0
  BY ONLY <1>3, StreamsCounted
<1>17. /\ Count(c, Subtitle) = n /\ \A k : k # Subtitle => Count(c, k) = 0
  BY ONLY <1>4, StreamsCounted
<1>18. /\ Count(m, Video) = Count(s, Video) /\ Count(m, Audio) = Count(s, Audio)
       /\ Count(m, Subtitle) = n /\ Count(m, Data) = 0
  <2>1. Count(m, Video) = Count(s, Video) + 0 + 0
    BY ONLY <1>2, <1>13, <1>14, <1>15, <1>16, <1>17
  <2>2. Count(m, Audio) = 0 + Count(s, Audio) + 0
    BY ONLY <1>2, <1>13, <1>14, <1>15, <1>16, <1>17
  <2>3. Count(m, Subtitle) = 0 + 0 + n
    BY ONLY <1>2, <1>13, <1>14, <1>15, <1>16, <1>17
  <2>4. Count(m, Data) = 0 + 0 + 0
    BY ONLY <1>2, <1>13, <1>14, <1>15, <1>16, <1>17
  <2> QED BY ONLY <1>5, <1>6, <2>1, <2>2, <2>3, <2>4
<1> QED BY <1>1, <1>11, <1>12, <1>18 DEF n, s

-----------------------------------------------------------------------------
(* Sizes and durations.                                                     *)

LEMMA Quotient ==
    ASSUME NEW a \in Nat, NEW b \in Nat \ {0}
    PROVE  a \div b \in Nat /\ b * (a \div b) <= a /\ a < b * (a \div b) + b
OBVIOUS

\* no even number of which the double is too large for the rounded one
LEMMA RoundedAlike ==
    ASSUME NEW n \in Nat, NEW w \in Nat \ {0}, NEW k \in Nat, NEW r \in Nat, NEW h \in Nat,
           w * (2 * k) <= n + w, n + h < w * r + w, 2 * k >= r
    PROVE  2 * k = r \/ 2 * k = r + 1
<1>1. 2 * k >= r + 2 => w * (2 * k) >= w * (r + 2)
  <2> DEFINE m == 2 * k - (r + 2)
  <2>1. m \in Int /\ 2 * k = m + (r + 2)
    OBVIOUS
  <2> HIDE DEF m
  <2>2. w * (2 * k) = w * m + w * (r + 2)
    <3>1. w * (m + (r + 2)) = w * m + w * (r + 2)
      BY <2>1
    <3> QED BY <2>1, <3>1
  <2>3. m >= 0 => w * m >= 0
    BY <2>1
  <2>4. w * m \in Int /\ w * (r + 2) \in Int
    BY <2>1
  <2> QED BY <2>1, <2>2, <2>3, <2>4
<1>2. w * (r + 2) = w * r + 2 * w
  OBVIOUS
<1>3. ~(2 * k >= r + 2)
  <2> DEFINE a == w * (2 * k)
             b == w * r
             c == w * (r + 2)
  <2>1. a \in Int /\ b \in Int /\ c \in Int
    OBVIOUS
  <2>2. a <= n + w /\ n + h < b + w /\ c = b + 2 * w /\ (2 * k >= r + 2 => a >= c)
    BY <1>1, <1>2
  <2> HIDE DEF a, b, c
  <2> QED BY <2>1, <2>2
<1> QED BY <1>3

\* The two ways of rounding agree where the scaled height is not less than the rounded one.
LEMMA SameHeight ==
    ASSUME NEW p, NEW v \in Nat \ {0}, p.width \in Nat \ {0}, p.height \in Nat,
           ScaledHeight(p, v) # 0,
           ~(ScaledHeight(p, v) < (p.height * v + p.width \div 2) \div p.width)
    PROVE  ExpectedHeight(p, v) = ScaledHeight(p, v)
<1> DEFINE w == p.width
           n == p.height * v
           h == w \div 2
           k == (n + w) \div (2 * w)
           r == (n + h) \div w
<1>1. /\ w \in Nat /\ w # 0 /\ n \in Nat
      /\ v * p.height = n
  OBVIOUS
<1>2. ScaledHeight(p, v) = 2 * k
  BY <1>1 DEF ScaledHeight
<1>3. ExpectedHeight(p, v) = LET even == IF r % 2 = 0 THEN r ELSE r + 1
                             IN IF even < 2 THEN 2 ELSE even
  BY DEF ExpectedHeight
<1>4. 2 * k # 0 /\ ~(2 * k < r)
  BY <1>2
<1> HIDE DEF w, n
<1>5. h \in Nat
  BY <1>1, Quotient
<1> HIDE DEF h
<1>6. /\ n + w \in Nat /\ 2 * w \in Nat \ {0} /\ n + h \in Nat /\ w \in Nat \ {0}
  BY <1>1, <1>5
<1>7. k \in Nat /\ (2 * w) * k <= n + w
  BY <1>6, Quotient
<1>8. r \in Nat /\ n + h < w * r + w
  BY <1>6, Quotient
<1> HIDE DEF k, r
<1>9. w * (2 * k) = (2 * w) * k
  BY <1>1, <1>7
<1>10. 2 * k >= r
  BY <1>4, <1>7, <1>8
<1>11. 2 * k = r \/ 2 * k = r + 1
  BY <1>1, <1>5, <1>7, <1>8, <1>9, <1>10, RoundedAlike
<1>12. (IF r % 2 = 0 THEN r ELSE r + 1) = 2 * k
  BY ONLY <1>7, <1>8, <1>11
<1>13. ~(2 * k < 2)
  BY ONLY <1>4, <1>7
<1> QED BY <1>2, <1>3, <1>12, <1>13

\* RoundsOtherwise, of a file and a plan
Rounds(f, x) ==
    /\ "width" \in DOMAIN x.arguments /\ x.arguments.width # Unset
    /\ \/ ScaledHeight(f, x.arguments.width) = 0
       \/ ScaledHeight(f, x.arguments.width) <
             (f.height * x.arguments.width + f.width \div 2) \div f.width

LEMMA SizeOf ==
    ASSUME NEW p, NEW f, NEW x, Resized(x), x.target # "mp4", Probed(p, f),
           f.width \in Nat \ {0}, f.height \in Nat
    PROVE  /\ ~Rounds(f, x) => ExpectedSize(p, x) = <<FileWidth(p, x), FileHeight(p, x)>>
           /\ FileHeight(p, x) \in Nat
<1> DEFINE v == x.arguments.width
<1>1. p.width = f.width /\ p.height = f.height
  BY DEF Probed
<1>2. "width" \in DOMAIN x.arguments /\ (v = Unset \/ v \in Nat \ {0})
  BY DEF Resized
<1>3. ScaledHeight(p, v) = ScaledHeight(f, v)
  BY <1>1 DEF ScaledHeight
<1>4. CASE v = Unset
  BY <1>1, <1>2, <1>4 DEF ExpectedSize, FileWidth, FileHeight
<1>5. CASE v # Unset
  <2>1. v \in Nat \ {0}
    BY <1>2, <1>5
  <2>2. ASSUME ~Rounds(f, x)
        PROVE  ExpectedSize(p, x) = <<FileWidth(p, x), FileHeight(p, x)>>
    <3>1. /\ ScaledHeight(f, v) # 0
          /\ ~(ScaledHeight(f, v) < (f.height * v + f.width \div 2) \div f.width)
      BY <1>2, <1>5, <2>2 DEF Rounds
    <3> HIDE DEF v
    <3>2. ExpectedHeight(p, v) = ScaledHeight(p, v)
      <4>1. /\ ScaledHeight(p, v) # 0
            /\ ~(ScaledHeight(p, v) < (p.height * v + p.width \div 2) \div p.width)
            /\ p.width \in Nat \ {0} /\ p.height \in Nat
        BY <1>1, <1>3, <3>1
      <4> QED BY ONLY <2>1, <4>1, SameHeight
    <3>3. ExpectedSize(p, x) = <<v, ExpectedHeight(p, v)>>
      BY <1>2, <1>5 DEF ExpectedSize, v
    <3>4. FileWidth(p, x) = v /\ FileHeight(p, x) = ScaledHeight(p, v)
      BY <1>5 DEF FileWidth, FileHeight, v
    <3> QED BY <3>2, <3>3, <3>4
  <2>3. FileHeight(p, x) \in Nat
    <3>1. FileHeight(p, x) = ScaledHeight(p, v)
      BY <1>5 DEF FileHeight
    <3> HIDE DEF v
    <3> DEFINE a == v * p.height + p.width
               b == 2 * p.width
    <3>2. a \in Nat /\ b \in Nat \ {0}
      BY <1>1, <2>1
    <3>3. ScaledHeight(p, v) = 2 * (a \div b)
      BY DEF ScaledHeight
    <3> HIDE DEF a, b
    <3>4. a \div b \in Nat
      BY <3>2, Quotient
    <3> QED BY <3>1, <3>3, <3>4
  <2> QED BY <2>2, <2>3
<1> QED BY <1>4, <1>5

\* A slice that fits is at most a quarter of a second shorter than it should be.
LEMMA SliceOf ==
    ASSUME NEW p, NEW x, PlannedGif(p, x), p.millis \in Nat \cup {Unset}
    PROVE  LET s == SliceMillis(p, x.arguments)
               e == ExpectedMillis(p, x)
           IN \/ s = Unset /\ e = Unset
              \/ s \in Nat /\ e \in Nat /\ s <= e /\ e <= s + 250
<1> DEFINE a == x.arguments
           l == a.length
           m == p.millis
           b == a.start
<1>1. /\ x.target = "gif" /\ b \in Nat /\ l \in Nat \cup {Unset} /\ SliceFits(p, b, l)
  BY DEF PlannedGif
<1>2. SliceMillis(p, a) = IF m = Unset THEN l ELSE IF l # Unset /\ l < m - b THEN l ELSE m - b
  BY DEF SliceMillis
<1>3. ExpectedMillis(p, x) = IF l # Unset THEN l ELSE IF m = Unset THEN Unset
                             ELSE IF m < b THEN 0 ELSE m - b
  BY <1>1 DEF ExpectedMillis
<1>4. m = Unset \/ (b < m /\ (l = Unset \/ b + l <= m + 250))
  BY <1>1 DEF SliceFits
<1>5. m \in Nat \cup {Unset}
  OBVIOUS
<1> HIDE DEF a, l, m, b
<1> DEFINE s == SliceMillis(p, a)
           e == ExpectedMillis(p, x)
<1>6. \/ s = Unset /\ e = Unset
      \/ s \in Nat /\ e \in Nat /\ s <= e /\ e <= s + 250
  <2>1. s = IF m = Unset THEN l ELSE IF l # Unset /\ l < m - b THEN l ELSE m - b
    BY <1>2
  <2>2. e = IF l # Unset THEN l ELSE IF m = Unset THEN Unset ELSE IF m < b THEN 0 ELSE m - b
    BY <1>3
  <2> HIDE DEF s, e
  <2> QED BY <1>1, <1>4, <1>5, <2>1, <2>2 DEF Unset
<1> QED BY <1>6 DEF a

\* the duration of an output is compared, but for a picture's
LEMMA DurationCompared ==
    ASSUME NEW p, NEW y, NEW x, x.target \notin ImageOutputs
    PROVE  LET e == ExpectedMillis(p, x)
           IN /\ e = Unset => ~DurationFails(p, y, x)
              /\ e \in Int /\ y.millis = e => ~DurationFails(p, y, x)
              /\ e \in Nat /\ x.operation # "remux" /\ y.millis \in Nat
                   /\ y.millis <= e /\ e <= y.millis + 250 => ~DurationFails(p, y, x)
              /\ e \in Nat /\ y.millis \in Nat /\ y.millis + 300 <= e => DurationFails(p, y, x)
<1> DEFINE e == ExpectedMillis(p, x)
           m == y.millis
           t == IF x.operation = "remux" THEN 50 ELSE 250
<1>1. DurationFails(p, y, x) <=> /\ Unset \notin {e, m} /\ ~(0 - t <= m - e /\ m - e <= t)
  BY DEF DurationFails, DurationUnknown, InRange
<1>2. t \in {50, 250} /\ (x.operation # "remux" => t = 250)
  OBVIOUS
<1> HIDE DEF e, m, t
<1>3. e = Unset => ~DurationFails(p, y, x)
  BY <1>1
<1>4. e \in Int /\ m = e => ~DurationFails(p, y, x)
  BY <1>1, <1>2
<1>5. e \in Nat /\ x.operation # "remux" /\ m \in Nat /\ m <= e /\ e <= m + 250 =>
         ~DurationFails(p, y, x)
  BY <1>1, <1>2
<1>6. e \in Nat /\ m \in Nat /\ m + 300 <= e => DurationFails(p, y, x)
  BY <1>1, <1>2 DEF Unset
<1> QED BY <1>3, <1>4, <1>5, <1>6 DEF e, m

\* Every format is told from its container and its own extension.
LEMMA FormatKept ==
    ASSUME NEW t, NEW e, t \in Cleanable \cup AudioTargets \cup ImageOutputs \cup {"mp4", "gif"},
           t \in ImageFormats \/ e = t
    PROVE  NormalizedFormat(t, e) = t
<1> DEFINE n == NormalizedFormat(t, e)
           s == SniffedDemuxer(t)
<1>1. CASE t \in ImageFormats
  BY <1>1 DEF NormalizedFormat
<1>2. CASE t \notin ImageFormats
  <2>0. e = t
    BY <1>2
  <2>1. CASE t \in {"mkv", "webm"}
    <3>1. s = "matroska"
      <4>1. t \notin {"mp4", "mov", "m4a", "avif", "heic"}
        BY <2>1
      <4> QED BY ONLY <2>1, <4>1, Zenon DEF SniffedDemuxer
    <3>2. n = IF e = "webm" THEN "webm" ELSE "mkv"
      BY ONLY <1>2, <3>1, Zenon DEF NormalizedFormat
    <3> HIDE DEF n
    <3>3. n = t
      BY <2>0, <2>1, <3>2
    <3> QED BY <3>3 DEF n
  <2>2. CASE t \in {"mp4", "mov", "m4a"}
    <3>1. t \in {"mp4", "mov", "m4a", "avif", "heic"}
      BY <2>2
    <3>2. s = "mov"
      <4>1. t \notin {"mkv", "webm"} /\ t \notin {"ogg", "opus"} /\ t \notin {"mp3", "aac"}
        BY <2>2
      <4> QED BY ONLY <3>1, <4>1, Zenon DEF SniffedDemuxer
    <3>3. s # "matroska"
      BY <3>2
    <3>4. n = IF e \in {"mov", "m4a"} THEN e ELSE "mp4"
      BY ONLY <1>2, <3>2, <3>3, Zenon DEF NormalizedFormat
    <3> HIDE DEF n
    <3>5. n = t
      BY <2>0, <2>2, <3>4
    <3> QED BY <3>5 DEF n
  <2>3. CASE t \in {"ogg", "opus"}
    <3>1. s = "ogg"
      <4>1. t \notin {"mp4", "mov", "m4a", "avif", "heic"} /\ t \notin {"mkv", "webm"}
            /\ t \notin {"mp3", "aac"}
        BY <2>3
      <4> QED BY ONLY <2>3, <4>1, Zenon DEF SniffedDemuxer
    <3>2. s # "matroska" /\ s # "mov"
      BY <3>1
    <3>3. n = IF e = "opus" THEN "opus" ELSE "ogg"
      BY ONLY <1>2, <3>1, <3>2, Zenon DEF NormalizedFormat
    <3> HIDE DEF n
    <3>4. n = t
      BY <2>0, <2>3, <3>3
    <3> QED BY <3>4 DEF n
  <2>4. CASE t \notin {"mkv", "webm", "mp4", "mov", "m4a", "ogg", "opus"}
    <3>1. t \in {"mp3", "wav", "flac", "aac"}
      BY <1>2, <2>4 DEF Cleanable, AudioTargets, AudioForm, ImageOutputs, ImageCodec, ImageFormats
    <3>2. s # "matroska" /\ s # "mov" /\ s # "ogg"
      <4>1. CASE t \in {"mp3", "aac"}
        <5>1. t \notin {"mp4", "mov", "m4a", "avif", "heic"} /\ t \notin {"mkv", "webm"}
              /\ t \notin {"ogg", "opus"}
          BY <4>1
        <5>2. s = "mp3"
          BY ONLY <4>1, <5>1, Zenon DEF SniffedDemuxer
        <5> QED BY <5>2
      <4>2. CASE t \in {"wav", "flac"}
        <5>1. t \notin {"mp4", "mov", "m4a", "avif", "heic"} /\ t \notin {"mkv", "webm"}
              /\ t \notin {"ogg", "opus"} /\ t \notin {"mp3", "aac"}
          BY <4>2
        <5>2. s = t
          BY ONLY <5>1, Zenon DEF SniffedDemuxer
        <5> QED BY <4>2, <5>2
      <4> QED BY <3>1, <4>1, <4>2
    <3>3. n = t
      BY ONLY <1>2, <3>2, Zenon DEF NormalizedFormat
    <3> QED BY <3>3
  <2> QED BY <2>1, <2>2, <2>3, <2>4
<1> QED BY <1>1, <1>2

\* so many streams of each kind that the validator counts
Counted(y, videos, audios, subtitles) ==
    /\ Count(y.streams, Video) = videos /\ Count(y.streams, Audio) = audios
    /\ Count(y.streams, Subtitle) = subtitles

LEMMA TargetsApart ==
    /\ \A t \in AudioTargets : t # "mp4" /\ t # "gif" /\ t \notin ImageOutputs
    /\ "gif" \notin ImageOutputs /\ "mp4" \notin ImageOutputs
    /\ "gif" \notin AudioTargets /\ "mp4" \notin AudioTargets
    /\ ImageOutputs \subseteq ImageFormats /\ "gif" \in ImageFormats
    /\ "gif" \notin Cleanable
BY DEF AudioTargets, AudioForm, ImageOutputs, ImageCodec, ImageFormats, Cleanable

LEMMA CountsCompared ==
    ASSUME NEW p, NEW y, NEW x
    PROVE  /\ x.target \in AudioTargets => (~CountFails(p, y, x) <=> Counted(y, 0, 1, 0))
           /\ x.target \in ImageOutputs \cup {"gif"} =>
                 (~CountFails(p, y, x) <=> Counted(y, 1, 0, 0))
           /\ x.target \notin AudioTargets \cup ImageOutputs \cup {"gif"} =>
                 (~CountFails(p, y, x) <=>
                    Counted(y, Count(p.streams, Video), Count(p.streams, Audio),
                            IF "subtitles" \in DOMAIN x.arguments
                                 /\ x.arguments.subtitles = "copy"
                            THEN Count(p.streams, Subtitle) ELSE 0))
<1> DEFINE S(k) == StreamCount(p, k, x)
<1>1. ~CountFails(p, y, x) <=> Counted(y, S(Video), S(Audio), S(Subtitle))
  BY IndicesAre DEF CountFails, Counted, Count
<1>2. /\ Video # Audio /\ Video # Subtitle /\ Audio # Subtitle
  BY DEF Video, Audio, Subtitle
<1>3. x.target \in AudioTargets => S(Video) = 0 /\ S(Audio) = 1 /\ S(Subtitle) = 0
  BY <1>2 DEF StreamCount
<1>4. x.target \in ImageOutputs \cup {"gif"} => S(Video) = 1 /\ S(Audio) = 0 /\ S(Subtitle) = 0
  BY <1>2, TargetsApart DEF StreamCount
<1>5. x.target \notin AudioTargets \cup ImageOutputs \cup {"gif"} =>
         /\ S(Video) = Count(p.streams, Video) /\ S(Audio) = Count(p.streams, Audio)
         /\ S(Subtitle) = IF "subtitles" \in DOMAIN x.arguments
                               /\ x.arguments.subtitles = "copy"
                          THEN Count(p.streams, Subtitle) ELSE 0
  BY <1>2, IndicesAre DEF StreamCount, Count
<1> HIDE DEF S
<1> QED BY <1>1, <1>3, <1>4, <1>5

LEMMA FirstOfOne ==
    ASSUME NEW y, NEW e, y.streams = <<e>>
    PROVE  FirstCodec(y, e.kind) = e.codec /\ Indices(y, e.kind) # {}
<1>1. Indices(y, e.kind) = {1}
  BY DEF Indices
<1>2. Min({1}) = 1
  <2> DEFINE T == {1}
  <2>1. T \subseteq Nat /\ T # {}
    OBVIOUS
  <2> HIDE DEF T
  <2>2. Min(T) \in T
    BY <2>1, MinIsLeast
  <2> QED BY <2>2 DEF T
<1> QED BY <1>1, <1>2 DEF FirstCodec

\* a readable file of the format of the plan
Recognized(y, x) == Readable(y) /\ NormalizedFormat(y.container, y.ext) = x.target

LEMMA MovieChecks ==
    ASSUME NEW p, NEW x, PlannedMovie(p, x), NEW y
    PROVE  ValidateMedia(p, y, x) # "fail" <=>
              /\ Recognized(y, x) /\ ~DurationFails(p, y, x)
              /\ Counted(y, Count(p.streams, Video), Count(p.streams, Audio),
                         IF x.arguments.subtitles = "copy" THEN Count(p.streams, Subtitle) ELSE 0)
              /\ Indices(y, Video) # {} /\ y.width = p.width /\ y.height = p.height
<1>1. /\ x.target = "mp4" /\ x.operation # "metadata-clean" /\ HasVideo(p)
      /\ "subtitles" \in DOMAIN x.arguments
  BY DEF PlannedMovie, HasVideo
<1>2. ~CodecFails(p, y, x) /\ ~AlphaFails(p, y, x) /\ ~CleaningFails(p, y, x)
  BY <1>1, TargetsApart DEF CodecFails, AlphaFails, CleaningFails
<1>3. ~DimensionsFail(p, y, x) <=>
         Indices(y, Video) # {} /\ y.width = p.width /\ y.height = p.height
  <2>1. ExpectedSize(p, x) = <<p.width, p.height>>
    BY <1>1 DEF ExpectedSize
  <2> QED BY <1>1, <2>1 DEF DimensionsFail, HasVideo
<1>4. ~CountFails(p, y, x) <=>
         Counted(y, Count(p.streams, Video), Count(p.streams, Audio),
                 IF x.arguments.subtitles = "copy" THEN Count(p.streams, Subtitle) ELSE 0)
  BY <1>1, CountsCompared, TargetsApart
<1> QED BY <1>2, <1>3, <1>4, ChecksOfMedia DEF Recognized

LEMMA SoundChecks ==
    ASSUME NEW p, NEW x, PlannedSound(p, x), NEW y
    PROVE  ValidateMedia(p, y, x) # "fail" <=>
              /\ Recognized(y, x) /\ ~DurationFails(p, y, x) /\ Counted(y, 0, 1, 0)
              /\ FirstCodec(y, Audio) = AudioForm[x.target].codec
<1>1. x.target \in AudioTargets /\ x.operation # "metadata-clean"
  BY DEF PlannedSound
<1>2. ~AlphaFails(p, y, x) /\ ~CleaningFails(p, y, x)
  BY <1>1, TargetsApart DEF AlphaFails, CleaningFails
<1>3. ~DimensionsFail(p, y, x)
  BY <1>1 DEF DimensionsFail, AudioTargets, AudioForm
<1>4. CodecFails(p, y, x) <=> FirstCodec(y, Audio) # AudioForm[x.target].codec
  BY <1>1, TargetsApart DEF CodecFails
<1>5. ~CountFails(p, y, x) <=> Counted(y, 0, 1, 0)
  BY <1>1, CountsCompared
<1> QED BY <1>2, <1>3, <1>4, <1>5, ChecksOfMedia DEF Recognized

LEMMA GifChecks ==
    ASSUME NEW p, NEW x, PlannedGif(p, x), NEW y
    PROVE  ValidateMedia(p, y, x) # "fail" <=>
              /\ Recognized(y, x) /\ ~DurationFails(p, y, x) /\ Counted(y, 1, 0, 0)
              /\ Indices(y, Video) # {} /\ ExpectedSize(p, x) = <<y.width, y.height>>
<1>1. x.target = "gif" /\ x.operation # "metadata-clean" /\ HasVideo(p)
  BY DEF PlannedGif, HasVideo
<1>2. ~CodecFails(p, y, x) /\ ~AlphaFails(p, y, x) /\ ~CleaningFails(p, y, x)
  BY <1>1, TargetsApart DEF CodecFails, AlphaFails, CleaningFails
<1>3. ~DimensionsFail(p, y, x) <=>
         Indices(y, Video) # {} /\ ExpectedSize(p, x) = <<y.width, y.height>>
  BY <1>1 DEF DimensionsFail, HasVideo
<1>4. ~CountFails(p, y, x) <=> Counted(y, 1, 0, 0)
  BY <1>1, CountsCompared
<1> QED BY <1>2, <1>3, <1>4, ChecksOfMedia DEF Recognized

LEMMA PictureChecks ==
    ASSUME NEW p, NEW x, PlannedPicture(p, x), NEW y
    PROVE  ValidateMedia(p, y, x) # "fail" <=>
              /\ Recognized(y, x) /\ Counted(y, 1, 0, 0)
              /\ x.target \in {"tiff", "bmp"}
                   \/ (Indices(y, Video) # {} /\ ExpectedSize(p, x) = <<y.width, y.height>>)
              /\ FirstCodec(y, Video) = ImageCodec[x.target]
              /\ (x.arguments.alpha => y.alpha)
<1>1. /\ x.target \in ImageOutputs /\ x.operation # "metadata-clean" /\ HasVideo(p)
      /\ "alpha" \in DOMAIN x.arguments
  BY DEF PlannedPicture, HasVideo
<1>2. ~DurationFails(p, y, x) /\ ~CleaningFails(p, y, x)
  BY <1>1 DEF DurationFails, CleaningFails
<1>3. ~DimensionsFail(p, y, x) <=>
         \/ x.target \in {"tiff", "bmp"}
         \/ (Indices(y, Video) # {} /\ ExpectedSize(p, x) = <<y.width, y.height>>)
  <2>1. x.target \in {"mp4", "gif", "jpeg", "png", "webp", "avif"} <=>
           x.target \notin {"tiff", "bmp"}
    BY <1>1 DEF ImageOutputs, ImageCodec
  <2> QED BY <1>1, <2>1 DEF DimensionsFail, HasVideo
<1>4. CodecFails(p, y, x) <=> FirstCodec(y, Video) # ImageCodec[x.target]
  BY <1>1, TargetsApart DEF CodecFails
<1>5. AlphaFails(p, y, x) <=> ~(x.arguments.alpha => y.alpha)
  BY <1>1 DEF AlphaFails
<1>6. ~CountFails(p, y, x) <=> Counted(y, 1, 0, 0)
  BY <1>1, CountsCompared
<1> QED BY <1>2, <1>3, <1>4, <1>5, <1>6, ChecksOfMedia DEF Recognized

LEMMA CleanChecks ==
    ASSUME NEW p, NEW x, PlannedClean(p, x), NEW y
    PROVE  ValidateMedia(p, y, x) # "fail" <=>
              /\ Recognized(y, x) /\ ~DurationFails(p, y, x) /\ ~CountFails(p, y, x)
              /\ ~DimensionsFail(p, y, x) /\ ~CodecFails(p, y, x)
              /\ x.arguments.removed \cap y.keys = {}
              /\ x.arguments.retained \subseteq y.keys
              /\ p.streams = y.streams /\ p.width = y.width /\ p.height = y.height
<1>1. x.operation = "metadata-clean" /\ DOMAIN x.arguments = {"removed", "retained"}
  BY DEF PlannedClean
<1>2. ~AlphaFails(p, y, x)
  BY <1>1 DEF AlphaFails
<1>3. ~CleaningFails(p, y, x) <=>
              /\ x.arguments.removed \cap y.keys = {}
              /\ x.arguments.retained \subseteq y.keys
              /\ p.streams = y.streams /\ p.width = y.width /\ p.height = y.height
  BY <1>1 DEF CleaningFails
<1> QED BY <1>2, <1>3, ChecksOfMedia DEF Recognized

LEMMA RecognizedAs ==
    ASSUME NEW o, NEW x, o.container = x.target, x.target # "aac",
           x.target \in Cleanable \cup AudioTargets \cup ImageOutputs \cup {"mp4", "gif"},
           x.target \in ImageFormats \/ o.ext = x.target
    PROVE  Recognized(o, x)
<1>1. Readable(o)
  BY DEF Readable, Demuxer
<1>2. NormalizedFormat(o.container, o.ext) = x.target
  <2> DEFINE t == x.target
             e == o.ext
  <2>1. t \in Cleanable \cup AudioTargets \cup ImageOutputs \cup {"mp4", "gif"}
        /\ (t \in ImageFormats \/ e = t) /\ o.container = t
    OBVIOUS
  <2> HIDE DEF t, e
  <2>2. NormalizedFormat(t, e) = t
    BY ONLY <2>1, FormatKept
  <2> QED BY <2>1, <2>2 DEF t, e
<1> QED BY <1>1, <1>2 DEF Recognized

LEMMA SomeOfKind ==
    ASSUME NEW S, NEW y, y.streams \in Seq(S), NEW k
    PROVE  Indices(y, k) # {} <=> Count(y.streams, k) # 0
<1> DEFINE I == OfKindAt(y.streams, k)
<1>1. IsFiniteSet(I)
  BY KindsAreFinite
<1>2. Indices(y, k) = I /\ Count(y.streams, k) = Cardinality(I)
  BY IndicesAre DEF Count
<1> HIDE DEF I
<1>3. Cardinality(I) = 0 <=> I = {}
  BY <1>1, FS_EmptySet
<1> QED BY <1>2, <1>3

\* an unchanged duration is right
LEMMA SameDuration ==
    ASSUME NEW p, NEW o, NEW x, x.target # "gif", x.target \notin ImageOutputs,
           p.millis \in Nat \cup {Unset}, o.millis = p.millis
    PROVE  ~DurationFails(p, o, x)
<1>1. ExpectedMillis(p, x) = p.millis
  BY DEF ExpectedMillis
<1>2. p.millis \in Int
  BY DEF Unset
<1> QED BY <1>1, <1>2, DurationCompared

LEMMA MovieHonest ==
    ASSUME NEW S, NEW p, NEW x, NEW o, p.streams \in Seq(S), PlannedMovie(p, x),
           p.millis \in Nat \cup {Unset}, o = Engine(p, x, x.target)
    PROVE  ValidateMedia(p, o, x) # "fail"
<1> DEFINE t == x.target
<1>1. /\ t = "mp4" /\ x.operation # "metadata-clean" /\ Indices(p, Video) # {}
  BY DEF PlannedMovie
<1>2. FieldsAre(o, "mp4", t, MovieStreams(p, x), p.width, p.height, Opaque, p.millis, p.keys)
  <2> HIDE DEF t
  <2>1. o = Engine(p, x, t)
    BY DEF t
  <2>2. x.operation # "metadata-clean" /\ x.target = "mp4"
    BY <1>1 DEF t
  <2> QED BY <2>1, <2>2, EngineOfMedia
<1>3. /\ o.container = t /\ o.ext = t /\ o.streams = MovieStreams(p, x) /\ o.width = p.width
      /\ o.height = p.height /\ o.millis = p.millis
  BY <1>1, <1>2 DEF FieldsAre
<1>4. Recognized(o, x)
  <2>1. t # "aac"
    BY <1>1
  <2> HIDE DEF t
  <2> QED BY <1>1, <1>3, <2>1, RecognizedAs DEF t
<1>5. ~DurationFails(p, o, x)
  BY <1>1, <1>3, SameDuration, TargetsApart
<1> HIDE DEF t
<1> DEFINE m == MovieStreams(p, x)
<1>6. /\ \E T : m \in Seq(T) /\ \A e \in T : e.kind \in {Video, Audio, Subtitle}
      /\ Count(m, Video) = Count(p.streams, Video) /\ Count(m, Audio) = Count(p.streams, Audio)
      /\ Count(m, Subtitle) = IF x.arguments.subtitles = "copy" THEN Count(p.streams, Subtitle)
                              ELSE 0
      /\ Count(m, Data) = 0
  BY MovieCounted
<1> HIDE DEF m
<1>7. PICK T : o.streams \in Seq(T)
  BY <1>3, <1>6 DEF m
<1>8. Indices(o, Video) # {}
  <2>1. Count(p.streams, Video) # 0
    BY <1>1, SomeOfKind
  <2>2. Count(o.streams, Video) # 0
    BY <1>3, <1>6, <2>1 DEF m
  <2> QED BY <1>7, <2>2, SomeOfKind
<1>9. Counted(o, Count(p.streams, Video), Count(p.streams, Audio),
              IF x.arguments.subtitles = "copy" THEN Count(p.streams, Subtitle) ELSE 0)
  BY <1>3, <1>6 DEF Counted, m
<1> QED BY <1>3, <1>4, <1>5, <1>8, <1>9, MovieChecks

\* The stream of a sound output is a sound of the form's codec.
LEMMA SoundIsSound ==
    ASSUME NEW S, NEW p, NEW x, p.streams \in Seq(S), PlannedSound(p, x)
    PROVE  SoundStream(p, x).kind = Audio
           /\ SoundStream(p, x).codec = AudioForm[x.target].codec
<1> DEFINE i == x.arguments.stream
           codec == AudioForm[x.target].codec
<1>1. i \in Indices(p, Audio) /\ (x.arguments.audio = "copy" => p.streams[i].codec = codec)
  BY DEF PlannedSound
<1>2. p.streams[i].kind = Audio
  BY <1>1 DEF Indices
<1>3. Stream(Audio, codec).kind = Audio /\ Stream(Audio, codec).codec = codec
  <2> HIDE DEF codec
  <2> QED BY DEF Stream
<1> QED BY <1>1, <1>2, <1>3 DEF SoundStream

LEMMA SoundHonest ==
    ASSUME NEW S, NEW p, NEW x, NEW o, p.streams \in Seq(S), PlannedSound(p, x),
           p.millis \in Nat \cup {Unset}, o = Engine(p, x, x.target), x.target # "aac"
    PROVE  ValidateMedia(p, o, x) # "fail"
<1> DEFINE t == x.target
           e == SoundStream(p, x)
<1>1. t \in AudioTargets /\ x.operation # "metadata-clean"
  BY DEF PlannedSound
<1>2. FieldsAre(o, t, t, <<e>>, 0, 0, Opaque, p.millis, p.keys)
  BY <1>1, EngineOfMedia
<1>3. o.container = t /\ o.ext = t /\ o.streams = <<e>> /\ o.millis = p.millis
  BY <1>2 DEF FieldsAre
<1>4. Recognized(o, x)
  <2>1. t # "aac"
    OBVIOUS
  <2> HIDE DEF t
  <2> QED BY <1>1, <1>3, <2>1, RecognizedAs DEF t
<1>5. ~DurationFails(p, o, x)
  BY <1>1, <1>3, SameDuration, TargetsApart
<1>6. e.kind = Audio /\ e.codec = AudioForm[t].codec
  BY SoundIsSound
<1> HIDE DEF e, t
<1>7. FirstCodec(o, Audio) = AudioForm[t].codec
  BY <1>3, <1>6, FirstOfOne
<1>8. Counted(o, 0, 1, 0)
  <2>1. Count(<<e>>, e.kind) = 1 /\ \A k : k # e.kind => Count(<<e>>, k) = 0
    BY CountOfOne
  <2>2. Video # Audio /\ Subtitle # Audio
    BY DEF Video, Audio, Subtitle
  <2> QED BY <1>3, <1>6, <2>1, <2>2 DEF Counted
<1> QED BY <1>4, <1>5, <1>7, <1>8, SoundChecks DEF t

\* one stream with a picture
LEMMA OnePicture ==
    ASSUME NEW y, NEW codec, y.streams = <<Stream(Video, codec)>>
    PROVE  /\ Counted(y, 1, 0, 0) /\ Indices(y, Video) # {} /\ FirstCodec(y, Video) = codec
           /\ Count(y.streams, Data) = 0
<1> DEFINE e == Stream(Video, codec)
<1>1. e.kind = Video /\ e.codec = codec
  BY DEF Stream
<1>2. y.streams = <<e>>
  OBVIOUS
<1> HIDE DEF e
<1>3. Count(<<e>>, e.kind) = 1 /\ \A k : k # e.kind => Count(<<e>>, k) = 0
  BY CountOfOne
<1>4. Video # Audio /\ Subtitle # Video /\ Data # Video
  BY DEF Video, Audio, Subtitle, Data
<1>5. FirstCodec(y, e.kind) = e.codec /\ Indices(y, e.kind) # {}
  BY <1>2, FirstOfOne
<1> QED BY <1>1, <1>2, <1>3, <1>4, <1>5 DEF Counted

LEMMA GifHonest ==
    ASSUME NEW f, NEW p, NEW x, NEW o, NEW ext, Probed(p, f), PlannedGif(p, x),
           p.millis \in Nat \cup {Unset}, o = Engine(p, x, ext), ~Rounds(f, x),
           f.width \in Nat \ {0}, f.height \in Nat
    PROVE  ValidateMedia(p, o, x) # "fail"
<1> DEFINE t == x.target
           s == SliceMillis(p, x.arguments)
           d == ExpectedMillis(p, x)
<1>1. t = "gif" /\ x.operation # "metadata-clean" /\ x.operation # "remux" /\ Resized(x)
  BY DEF PlannedGif
<1>2. FieldsAre(o, t, ext, <<Stream(Video, "gif")>>, FileWidth(p, x), FileHeight(p, x), Opaque,
                s, NoKeys)
  BY <1>1, EngineOfMedia
<1>3. /\ o.container = t /\ o.streams = <<Stream(Video, "gif")>> /\ o.millis = s
      /\ o.width = FileWidth(p, x) /\ o.height = FileHeight(p, x)
  BY <1>2 DEF FieldsAre
<1>4. Recognized(o, x)
  <2>1. t # "aac"
    BY <1>1
  <2> HIDE DEF t
  <2> QED BY <1>1, <1>3, <2>1, RecognizedAs, TargetsApart DEF t
<1>5. ~DurationFails(p, o, x)
  <2>1. (s = Unset /\ d = Unset) \/ (s \in Nat /\ d \in Nat /\ s <= d /\ d <= s + 250)
    BY SliceOf
  <2>2. /\ d = Unset => ~DurationFails(p, o, x)
        /\ d \in Nat /\ x.operation # "remux" /\ o.millis \in Nat
             /\ o.millis <= d /\ d <= o.millis + 250 => ~DurationFails(p, o, x)
    BY <1>1, DurationCompared, TargetsApart
  <2> HIDE DEF s, d
  <2> QED BY ONLY <1>1, <1>3, <2>1, <2>2
<1>6. Counted(o, 1, 0, 0) /\ Indices(o, Video) # {}
  BY <1>3, OnePicture
<1>7. ExpectedSize(p, x) = <<o.width, o.height>>
  BY <1>1, <1>3, SizeOf
<1> QED BY <1>4, <1>5, <1>6, <1>7, GifChecks

LEMMA PictureHonest ==
    ASSUME NEW f, NEW p, NEW x, NEW o, NEW ext, Probed(p, f), PlannedPicture(p, x),
           o = Engine(p, x, ext), ~Rounds(f, x), f.width \in Nat \ {0}, f.height \in Nat
    PROVE  ValidateMedia(p, o, x) # "fail"
<1> DEFINE t == x.target
           codec == ImageCodec[t]
<1>1. /\ t \in ImageOutputs /\ x.operation # "metadata-clean" /\ Resized(x)
      /\ (x.arguments.alpha => p.alpha) /\ t # "mp4" /\ t # "aac" /\ t \in ImageFormats
  <2>1. t \in ImageOutputs
    BY DEF PlannedPicture
  <2>2. t # "mp4" /\ t # "aac" /\ t \in ImageFormats
    BY <2>1, TargetsApart DEF ImageOutputs, ImageCodec
  <2> QED BY <2>1, <2>2 DEF PlannedPicture
<1>2. FieldsAre(o, t, ext, <<Stream(Video, codec)>>, FileWidth(p, x), FileHeight(p, x), p.alpha,
                Unset, NoKeys)
  BY <1>1, EngineOfMedia
<1> HIDE DEF codec
<1>3. /\ o.container = t /\ o.streams = <<Stream(Video, codec)>> /\ o.alpha = p.alpha
      /\ o.width = FileWidth(p, x) /\ o.height = FileHeight(p, x)
  BY <1>2 DEF FieldsAre
<1>4. Recognized(o, x)
  <2> HIDE DEF t
  <2> QED BY <1>1, <1>3, RecognizedAs DEF t
<1>5. Counted(o, 1, 0, 0) /\ Indices(o, Video) # {} /\ FirstCodec(o, Video) = codec
  BY <1>3, OnePicture
<1>6. ExpectedSize(p, x) = <<o.width, o.height>>
  BY <1>1, <1>3, SizeOf
<1>7. x.arguments.alpha => o.alpha
  BY <1>1, <1>3
<1> QED BY <1>4, <1>5, <1>6, <1>7, PictureChecks DEF codec

LEMMA SizeKept ==
    ASSUME NEW p, NEW y, NEW x, "width" \notin DOMAIN x.arguments,
           y.streams = p.streams, y.width = p.width, y.height = p.height
    PROVE  ~DimensionsFail(p, y, x)
<1>1. Indices(p, Video) = Indices(y, Video)
  BY DEF Indices
<1>2. ExpectedSize(p, x) = <<p.width, p.height>>
  BY DEF ExpectedSize
<1> QED BY <1>1, <1>2 DEF DimensionsFail, HasVideo

\* one stream with a sound
LEMMA OneSound ==
    ASSUME NEW y, NEW codec, y.streams = <<Stream(Audio, codec)>>
    PROVE  Counted(y, 0, 1, 0) /\ FirstCodec(y, Audio) = codec
<1> DEFINE e == Stream(Audio, codec)
<1>1. e.kind = Audio /\ e.codec = codec
  BY DEF Stream
<1>2. y.streams = <<e>>
  OBVIOUS
<1> HIDE DEF e
<1>3. Count(<<e>>, e.kind) = 1 /\ \A k : k # e.kind => Count(<<e>>, k) = 0
  BY CountOfOne
<1>4. Video # Audio /\ Subtitle # Audio
  BY DEF Video, Audio, Subtitle
<1>5. FirstCodec(y, e.kind) = e.codec
  BY <1>2, FirstOfOne
<1> QED BY <1>1, <1>2, <1>3, <1>4, <1>5 DEF Counted

LEMMA CleanHonest ==
    ASSUME NEW S, NEW p, NEW x, NEW o, p.streams \in Seq(S), PlannedClean(p, x),
           p.millis \in Nat \cup {Unset}, o = Engine(p, x, x.target), x.target # "aac",
           Indices(p, Subtitle) = {},
           x.target \in AudioTargets => p.streams = <<Stream(Audio, AudioForm[x.target].codec)>>,
           x.target \in ImageOutputs => p.streams = <<Stream(Video, ImageCodec[x.target])>>
    PROVE  ValidateMedia(p, o, x) # "fail"
<1> DEFINE t == x.target
           a == x.arguments
<1>1. /\ x.operation = "metadata-clean" /\ t = p.format /\ t \in Cleanable
      /\ DOMAIN a = {"removed", "retained"}
      /\ a.removed = p.keys \cap PrivateKeys
      /\ a.retained = p.keys \ a.removed
  BY DEF PlannedClean
<1>2. FieldsAre(o, p.format, t, p.streams, p.width, p.height, p.alpha, p.millis,
                p.keys \ a.removed)
  BY <1>1, EngineOfMedia
<1>3. /\ o.container = t /\ o.ext = t /\ o.streams = p.streams /\ o.width = p.width
      /\ o.height = p.height /\ o.millis = p.millis /\ o.keys = p.keys \ a.removed
  BY <1>1, <1>2 DEF FieldsAre
<1>4. Recognized(o, x)
  <2> HIDE DEF t
  <2> QED BY <1>1, <1>3, RecognizedAs DEF t
<1>5. ~DurationFails(p, o, x)
  <2>1. CASE t \in ImageOutputs
    BY <2>1 DEF DurationFails
  <2>2. CASE t \notin ImageOutputs
    <3>1. x.target # "gif"
      BY <1>1, TargetsApart
    <3> QED BY <1>3, <2>2, <3>1, SameDuration
  <2> QED BY <2>1, <2>2
<1>6. ~DimensionsFail(p, o, x)
  BY <1>1, <1>3, SizeKept
<1>7. ~CountFails(p, o, x) /\ ~CodecFails(p, o, x)
  <2>1. CASE t \in AudioTargets
    <3> DEFINE codec == AudioForm[t].codec
    <3>0. o.streams = <<Stream(Audio, codec)>>
      BY <1>3, <2>1
    <3> HIDE DEF codec
    <3>1. Counted(o, 0, 1, 0) /\ FirstCodec(o, Audio) = codec
      BY ONLY <3>0, OneSound
    <3> USE DEF codec
    <3> QED BY <2>1, <3>1, CountsCompared, TargetsApart DEF CodecFails
  <2>2. CASE t \in ImageOutputs
    <3> DEFINE codec == ImageCodec[t]
    <3>0. o.streams = <<Stream(Video, codec)>>
      BY <1>3, <2>2
    <3> HIDE DEF codec
    <3>1. Counted(o, 1, 0, 0) /\ FirstCodec(o, Video) = codec
      BY ONLY <3>0, OnePicture
    <3> USE DEF codec
    <3>2. t \notin AudioTargets
      BY <2>2, TargetsApart
    <3> QED BY <2>2, <3>1, <3>2, CountsCompared DEF CodecFails
  <2>3. CASE t \notin AudioTargets \cup ImageOutputs
    <3>1. t \notin AudioTargets \cup ImageOutputs \cup {"gif"}
      BY <1>1, <2>3, TargetsApart
    <3>2. Count(p.streams, Subtitle) = 0 /\ "subtitles" \notin DOMAIN a
      BY <1>1, SomeOfKind
    <3>3. Counted(o, Count(p.streams, Video), Count(p.streams, Audio),
                  IF "subtitles" \in DOMAIN a /\ a.subtitles = "copy"
                  THEN Count(p.streams, Subtitle) ELSE 0)
      BY <1>3, <3>2 DEF Counted
    <3>4. ~CountFails(p, o, x)
      BY <3>1, <3>3, CountsCompared
    <3> QED BY <2>3, <3>4 DEF CodecFails
  <2> QED BY <2>1, <2>2, <2>3
<1> QED BY <1>1, <1>3, <1>4, <1>5, <1>6, <1>7, CleanChecks

\* the gaps of the media lanes, of a file, a request and a plan
HonestMediaGaps(f, r, x) ==
    \/ x.operation = "metadata-clean"
         /\ \/ Indices(f, Subtitle) # {}
            \/ x.target \in AudioTargets
                 /\ f.streams # <<Stream(Audio, AudioForm[x.target].codec)>>
            \/ x.target \in ImageOutputs
                 /\ f.streams # <<Stream(Video, ImageCodec[x.target])>>
    \/ x.target = "aac"
    \/ Rounds(f, x)
    \/ r.ext # IF x.operation = "metadata-clean" THEN x.target ELSE r.target

LEMMA MediaHonest ==
    ASSUME NEW f, NEW r, NEW p, NEW x, NEW o, MediaFile(f),
           MediaPlanned(f, r, p, x),
           o = Engine(p, x, r.ext), ~HonestMediaGaps(f, r, x)
    PROVE  ValidateMedia(p, o, x) # "fail"
<1> DEFINE S == [kind : {Video, Audio, Subtitle, Data}, codec : STRING]
           ext == r.ext
<1>1. /\ f.streams \in Seq(S) /\ f.width \in Nat /\ f.height \in Nat
      /\ (Indices(f, Video) # {} => f.width \in Nat \ {0}) /\ f.millis \in Nat \cup {Unset}
  BY DEF MediaFile
<1>2. Probed(p, f) /\ p.millis \in Nat \cup {Unset}
  BY <1>1 DEF MediaPlanned, Probed
<1>3. p.streams = f.streams =>
         p.streams \in Seq(S) /\ Indices(p, Video) = Indices(f, Video)
           /\ Indices(p, Subtitle) = Indices(f, Subtitle)
  BY <1>1 DEF Indices
<1>4. /\ x.target # "aac" /\ ~Rounds(f, x)
      /\ ext = IF x.operation = "metadata-clean" THEN x.target ELSE r.target
      /\ x.operation = "metadata-clean" =>
            /\ Indices(f, Subtitle) = {}
            /\ x.target \in AudioTargets => f.streams = <<Stream(Audio, AudioForm[x.target].codec)>>
            /\ x.target \in ImageOutputs => f.streams = <<Stream(Video, ImageCodec[x.target])>>
  BY DEF HonestMediaGaps
<1>5. o = Engine(p, x, ext)
  OBVIOUS
<1> HIDE DEF S, ext
<1>6. CASE p.streams = f.streams /\ PlannedClean(p, x)
  <2>1. x.operation = "metadata-clean"
    BY <1>6 DEF PlannedClean
  <2>2. ext = x.target
    BY <1>4, <2>1
  <2> QED BY <1>2, <1>3, <1>4, <1>5, <1>6, <2>1, <2>2, CleanHonest
<1>7. CASE p.streams = f.streams /\ PlannedMovie(p, x) /\ r.target = x.target
  <2>1. ext = x.target
    BY <1>4, <1>7 DEF PlannedMovie
  <2> QED BY <1>2, <1>3, <1>5, <1>7, <2>1, MovieHonest
<1>8. CASE p.streams = f.streams /\ PlannedSound(p, x) /\ r.target = x.target
  <2>1. ext = x.target
    BY <1>4, <1>8 DEF PlannedSound
  <2> QED BY <1>2, <1>3, <1>4, <1>5, <1>8, <2>1, SoundHonest
<1>9. CASE p.streams = f.streams /\ PlannedGif(p, x)
  <2>1. f.width \in Nat \ {0}
    BY <1>1, <1>3, <1>9 DEF PlannedGif
  <2> QED BY <1>1, <1>2, <1>4, <1>5, <1>9, <2>1, GifHonest
<1>10. CASE PlannedPicture(p, x) /\ Indices(f, Video) # {}
  BY <1>1, <1>2, <1>4, <1>5, <1>10, PictureHonest
<1> QED BY <1>6, <1>7, <1>8, <1>9, <1>10 DEF MediaPlanned

-----------------------------------------------------------------------------
(* What a wrong output passes the validator with.                           *)

MediaUnchecked(y, o, f, x) ==
    \/ y.millis # o.millis /\ x.target \in ImageOutputs
    \/ y.streams # o.streams /\ x.target \in {"mp4", "gif"} /\ Len(y.streams) = Len(o.streams)
    \/ y.height # o.height /\ (x.target \in {"tiff", "bmp"} \/ Rounds(f, x))
    \/ y.alpha # o.alpha /\ (x.operation = "metadata-clean" \/ x.lane = "Heif")

\* a file with the counts of another has not lost its last stream and got no sound
LEMMA StreamsCaught ==
    ASSUME NEW S, NEW m \in Seq(S), NEW z, \A e \in S : e.kind \in {Video, Audio, Subtitle},
           \A k \in {Video, Audio, Subtitle} : Count(z, k) = Count(m, k)
    PROVE  /\ m # <<>> => z # Front(m)
           /\ z # Append(m, Stream(Audio, "aac"))
<1>1. ASSUME m # <<>>, z = Front(m) PROVE FALSE
  <2> DEFINE k == m[Len(m)].kind
  <2>1. Len(m) \in DOMAIN m /\ Count(z, k) # Count(m, k)
    BY <1>1, CountOfFront
  <2>2. k \in {Video, Audio, Subtitle}
    BY <2>1
  <2> QED BY <2>1, <2>2
<1>2. ASSUME z = Append(m, Stream(Audio, "aac")) PROVE FALSE
  <2> DEFINE e == Stream(Audio, "aac")
  <2>1. e.kind = Audio
    BY DEF Stream
  <2> HIDE DEF e
  <2>2. Count(z, e.kind) = Count(m, e.kind) + 1 /\ Count(m, e.kind) \in Nat
    BY <1>2, CountAppended DEF e
  <2>3. Count(z, Audio) = Count(m, Audio)
    OBVIOUS
  <2> QED BY <2>1, <2>2, <2>3
<1> QED BY <1>1, <1>2

\* a shorter file of which the expected duration is known
LEMMA ShortCaught ==
    ASSUME NEW p, NEW x, NEW o, NEW y, x.target \notin ImageOutputs,
           NEW e, e = ExpectedMillis(p, x), e \in Nat \cup {Unset}, o.millis \in Nat \cup {Unset},
           o.millis # Unset => e # Unset /\ o.millis <= e,
           o.millis > 600, y.millis = o.millis - 600
    PROVE  DurationFails(p, y, x)
<1>1. o.millis \in Nat
  BY DEF Unset
<1>2. o.millis # Unset
  BY <1>1 DEF Unset
<1>3. e \in Nat /\ y.millis \in Nat /\ y.millis + 300 <= e
  BY <1>1, <1>2
<1> QED BY <1>3, DurationCompared

\* A wrong output that is as long, as high and of as many streams as the right one: another codec
\* or a picture without transparency.
LEMMA WrongAnyhow ==
    ASSUME NEW o, NEW x, NEW y, DamagedTo(y, o, x), y # o, x.operation # "metadata-clean",
           ~(o.millis > 600 /\ y.millis = o.millis - 600),
           ~(o.height > 0 /\ y.height = o.height + 2),
           o.streams # <<>> => y.streams # Front(o.streams),
           y.streams # Append(o.streams, Stream(Audio, "aac"))
    PROVE  \/ /\ AllBut(y, o, "streams") /\ o.streams # <<>>
              /\ y.streams = [o.streams EXCEPT ![1].codec = "other"]
           \/ AllBut(y, o, "alpha") /\ y.alpha = Opaque
BY Zenon DEF DamagedTo

LEMMA MovieCaught ==
    ASSUME NEW S, NEW p, NEW x, NEW f, NEW o, NEW y, NEW ext, NEW d \in Damages,
           p.streams \in Seq(S), PlannedMovie(p, x), p.millis \in Nat \cup {Unset},
           p.height \in Nat, o = Engine(p, x, ext), y = Damage(o, d, x), y # o,
           ValidateMedia(p, y, x) # "fail"
    PROVE  MediaUnchecked(y, o, f, x)
<1> DEFINE m == MovieStreams(p, x)
<1>1. /\ x.target = "mp4" /\ x.operation # "metadata-clean" /\ x.target \notin ImageOutputs
      /\ x.target # "gif"
  BY TargetsApart DEF PlannedMovie
<1>2. FieldsAre(o, "mp4", ext, m, p.width, p.height, Opaque, p.millis, p.keys)
  BY <1>1, EngineOfMedia
<1>3. /\ DOMAIN o = MediaFields /\ o = [k \in MediaFields |-> o[k]] /\ o.streams = m
      /\ o.height = p.height /\ o.alpha = Opaque /\ o.millis = p.millis
  BY <1>2 DEF FieldsAre
<1>4. /\ ~DurationFails(p, y, x) /\ y.height = p.height
      /\ Counted(y, Count(p.streams, Video), Count(p.streams, Audio),
                 IF x.arguments.subtitles = "copy" THEN Count(p.streams, Subtitle) ELSE 0)
  BY MovieChecks
<1>5. /\ \E T : m \in Seq(T) /\ \A e \in T : e.kind \in {Video, Audio, Subtitle}
      /\ Count(m, Video) = Count(p.streams, Video) /\ Count(m, Audio) = Count(p.streams, Audio)
      /\ Count(m, Subtitle) = IF x.arguments.subtitles = "copy" THEN Count(p.streams, Subtitle)
                              ELSE 0
  BY MovieCounted
<1> HIDE DEF m
<1>6. PICK T : m \in Seq(T) /\ \A e \in T : e.kind \in {Video, Audio, Subtitle}
  BY <1>5
<1>7. \A k \in {Video, Audio, Subtitle} : Count(y.streams, k) = Count(m, k)
  BY <1>4, <1>5 DEF Counted
<1>8. /\ m # <<>> => y.streams # Front(m)
      /\ y.streams # Append(m, Stream(Audio, "aac"))
  BY <1>6, <1>7, StreamsCaught
<1>9. ASSUME NEW k, AllBut(y, o, k) PROVE y[k] # o[k]
  BY <1>3, <1>9, OtherField
<1>10. ~(o.millis > 600 /\ y.millis = o.millis - 600)
  <2>1. ExpectedMillis(p, x) = p.millis
    BY <1>1 DEF ExpectedMillis
  <2> DEFINE e == o.millis
  <2>2. /\ e = ExpectedMillis(p, x) /\ e \in Nat \cup {Unset} /\ o.millis \in Nat \cup {Unset}
        /\ o.millis # Unset => e # Unset /\ o.millis <= e
    BY <1>3, <2>1 DEF Unset
  <2>3. o.millis > 600 /\ y.millis = o.millis - 600 => DurationFails(p, y, x)
    <3> HIDE DEF e
    <3> QED BY ONLY <1>1, <2>2, ShortCaught
  <2> QED BY <1>4, <2>3
<1>11. y.streams = [m EXCEPT ![1].codec = "other"] => Len(y.streams) = Len(m)
  BY <1>6
<1>12. ~(y.height = o.height + 2)
  BY <1>3, <1>4
<1>13. \/ AllBut(y, o, "streams") /\ y.streams = [m EXCEPT ![1].codec = "other"]
       \/ AllBut(y, o, "alpha") /\ y.alpha = Opaque
  <2>1. DamagedTo(y, o, x)
    BY ONLY <1>3, d \in Damages, y = Damage(o, d, x), DamagedMedia
  <2>2. /\ o.streams = m
        /\ o.streams # <<>> => y.streams # Front(o.streams)
        /\ y.streams # Append(o.streams, Stream(Audio, "aac"))
    BY ONLY <1>3, <1>8
  <2>3. \/ /\ AllBut(y, o, "streams") /\ o.streams # <<>>
           /\ y.streams = [o.streams EXCEPT ![1].codec = "other"]
        \/ AllBut(y, o, "alpha") /\ y.alpha = Opaque
    BY ONLY <1>1, <1>10, <1>12, <2>1, <2>2, y # o, WrongAnyhow
  <2> QED BY ONLY <2>2, <2>3, Zenon
<1>14. ~(AllBut(y, o, "alpha") /\ y.alpha = Opaque)
  BY <1>3, <1>9
<1>15. AllBut(y, o, "streams") => y.streams # o.streams
  BY <1>9
<1> QED BY <1>1, <1>3, <1>11, <1>13, <1>14, <1>15 DEF MediaUnchecked

\* a codec that is none of the outputs' codecs, in the only stream
LEMMA OtherCodec ==
    ASSUME NEW y, NEW e, e = [k \in {"kind", "codec"} |-> e[k]],
           y.streams = [<<e>> EXCEPT ![1].codec = "other"]
    PROVE  FirstCodec(y, e.kind) = "other"
<1> DEFINE other == "other"
           z == [e EXCEPT !.codec = other]
<1>1. z.kind = e.kind /\ z.codec = other
  <2> HIDE DEF other
  <2> QED OBVIOUS
<1>2. [<<e>> EXCEPT ![1].codec = other] = <<z>>
  <2>1. [<<e>> EXCEPT ![1].codec = other] = [<<e>> EXCEPT ![1] = z]
    <3> HIDE DEF other
    <3> QED BY DEF z
  <2> HIDE DEF other, z
  <2>2. [<<e>> EXCEPT ![1] = z] = <<z>>
    OBVIOUS
  <2> QED BY <2>1, <2>2
<1>3. y.streams = <<z>>
  BY <1>2
<1> HIDE DEF z, other
<1>4. FirstCodec(y, z.kind) = z.codec
  BY <1>3, FirstOfOne
<1> QED BY <1>1, <1>4 DEF other

LEMMA CodecsKnown ==
    /\ \A t \in AudioTargets : AudioForm[t].codec # "other"
    /\ \A t \in ImageOutputs : ImageCodec[t] # "other"
BY DEF AudioTargets, AudioForm, ImageOutputs, ImageCodec

LEMMA SoundCaught ==
    ASSUME NEW p, NEW x, NEW f, NEW o, NEW y, NEW ext, NEW d \in Damages,
           p.streams \in Seq([kind : {Video, Audio, Subtitle, Data}, codec : STRING]),
           PlannedSound(p, x), p.millis \in Nat \cup {Unset},
           o = Engine(p, x, ext), y = Damage(o, d, x), y # o, ValidateMedia(p, y, x) # "fail"
    PROVE  FALSE
<1> DEFINE S == [kind : {Video, Audio, Subtitle, Data}, codec : STRING]
           e == SoundStream(p, x)
           t == x.target
<1>1. t \in AudioTargets /\ x.operation # "metadata-clean" /\ t \notin ImageOutputs /\ t # "gif"
  BY TargetsApart DEF PlannedSound
<1>2. FieldsAre(o, t, ext, <<e>>, 0, 0, Opaque, p.millis, p.keys)
  BY <1>1, EngineOfMedia
<1>3. /\ DOMAIN o = MediaFields /\ o = [k \in MediaFields |-> o[k]] /\ o.streams = <<e>>
      /\ o.height = 0 /\ o.alpha = Opaque /\ o.millis = p.millis
  BY <1>2 DEF FieldsAre
<1>4. /\ ~DurationFails(p, y, x) /\ Counted(y, 0, 1, 0)
      /\ FirstCodec(y, Audio) = AudioForm[t].codec
  BY SoundChecks
<1>5. e.kind = Audio /\ e = [k \in {"kind", "codec"} |-> e[k]]
  <2>1. e.kind = Audio
    BY SoundIsSound
  <2> DEFINE z == Stream(Audio, AudioForm[t].codec)
             w == p.streams[x.arguments.stream]
  <2>2. z = [k \in {"kind", "codec"} |-> z[k]]
    BY DEF Stream
  <2>3. x.arguments.stream \in DOMAIN p.streams /\ p.streams \in Seq(S)
    BY DEF PlannedSound, Indices
  <2> HIDE DEF S
  <2>4. w \in S
    BY <2>3
  <2>5. w = [k \in {"kind", "codec"} |-> w[k]]
    BY <2>4 DEF S
  <2> QED BY <2>1, <2>2, <2>5 DEF SoundStream
<1> HIDE DEF e, t
<1>6. <<e>> \in Seq({e}) /\ \A z \in {e} : z.kind \in {Video, Audio, Subtitle}
  BY <1>5
<1>7. \A k \in {Video, Audio, Subtitle} : Count(y.streams, k) = Count(<<e>>, k)
  <2>1. Count(<<e>>, e.kind) = 1 /\ \A k : k # e.kind => Count(<<e>>, k) = 0
    BY CountOfOne
  <2>2. Video # Audio /\ Subtitle # Audio
    BY DEF Video, Audio, Subtitle
  <2> QED BY <1>4, <1>5, <2>1, <2>2 DEF Counted
<1>8. y.streams # Front(<<e>>) /\ y.streams # Append(<<e>>, Stream(Audio, "aac"))
  <2> DEFINE T == {e}
             m == <<e>>
  <2>1. m # <<>> /\ m \in Seq(T) /\ \A z \in T : z.kind \in {Video, Audio, Subtitle}
    BY <1>6
  <2>2. \A k \in {Video, Audio, Subtitle} : Count(y.streams, k) = Count(m, k)
    BY <1>7
  <2> HIDE DEF T, m
  <2>3. y.streams # Front(m) /\ y.streams # Append(m, Stream(Audio, "aac"))
    BY <2>1, <2>2, StreamsCaught
  <2> QED BY <2>3 DEF m
<1>9. ASSUME NEW k, AllBut(y, o, k) PROVE y[k] # o[k]
  BY <1>3, <1>9, OtherField
<1>10. ~(o.millis > 600 /\ y.millis = o.millis - 600)
  <2>1. ExpectedMillis(p, x) = p.millis
    BY <1>1 DEF ExpectedMillis, t
  <2> DEFINE w == o.millis
  <2>2. /\ w = ExpectedMillis(p, x) /\ w \in Nat \cup {Unset} /\ o.millis \in Nat \cup {Unset}
        /\ o.millis # Unset => w # Unset /\ o.millis <= w
    BY <1>3, <2>1 DEF Unset
  <2>3. o.millis > 600 /\ y.millis = o.millis - 600 => DurationFails(p, y, x)
    <3> HIDE DEF w
    <3> QED BY ONLY <1>1, <2>2, ShortCaught DEF t
  <2> QED BY <1>4, <2>3
<1>11. y.streams # [<<e>> EXCEPT ![1].codec = "other"]
  BY <1>1, <1>4, <1>5, OtherCodec, CodecsKnown
<1>12. ~(o.height > 0)
  BY <1>3
<1>13. ~(AllBut(y, o, "alpha") /\ y.alpha = Opaque)
  BY <1>3, <1>9
<1>14. DamagedTo(y, o, x)
  BY ONLY <1>3, d \in Damages, y = Damage(o, d, x), DamagedMedia
<1>15. /\ o.streams = <<e>>
       /\ o.streams # <<>> => y.streams # Front(o.streams)
       /\ y.streams # Append(o.streams, Stream(Audio, "aac"))
  BY ONLY <1>3, <1>8
<1>16. \/ /\ AllBut(y, o, "streams") /\ o.streams # <<>>
          /\ y.streams = [o.streams EXCEPT ![1].codec = "other"]
       \/ AllBut(y, o, "alpha") /\ y.alpha = Opaque
  <2>1. ~(o.height > 0 /\ y.height = o.height + 2)
    BY ONLY <1>12
  <2>2. x.operation # "metadata-clean"
    BY <1>1
  <2>3. (o.streams # <<>> => y.streams # Front(o.streams))
        /\ y.streams # Append(o.streams, Stream(Audio, "aac"))
    BY ONLY <1>15
  <2> QED BY ONLY <1>10, <1>14, <2>1, <2>2, <2>3, y # o, WrongAnyhow
<1> QED BY ONLY <1>11, <1>13, <1>15, <1>16, Zenon

\* one picture: no stream was lost or added
LEMMA PicturesCounted ==
    ASSUME NEW y, NEW codec, Counted(y, 1, 0, 0)
    PROVE  LET m == <<Stream(Video, codec)>>
           IN y.streams # Front(m) /\ y.streams # Append(m, Stream(Audio, "aac"))
<1> DEFINE e == Stream(Video, codec)
           T == {e}
           m == <<e>>
<1>1. e.kind = Video
  BY DEF Stream
<1> HIDE DEF e
<1>2. Count(<<e>>, e.kind) = 1 /\ \A k : k # e.kind => Count(<<e>>, k) = 0
  BY CountOfOne
<1>3. Video # Audio /\ Subtitle # Video
  BY DEF Video, Audio, Subtitle
<1>4. m # <<>> /\ m \in Seq(T) /\ \A z \in T : z.kind \in {Video, Audio, Subtitle}
  BY <1>1
<1>5. \A k \in {Video, Audio, Subtitle} : Count(y.streams, k) = Count(m, k)
  BY <1>1, <1>2, <1>3 DEF Counted
<1> HIDE DEF T, m
<1>6. y.streams # Front(m) /\ y.streams # Append(m, Stream(Audio, "aac"))
  BY <1>4, <1>5, StreamsCaught
<1> QED BY <1>6 DEF m, e

LEMMA GifCaught ==
    ASSUME NEW f, NEW p, NEW x, NEW o, NEW y, NEW ext, NEW d \in Damages, Probed(p, f),
           PlannedGif(p, x), p.millis \in Nat \cup {Unset},
           f.width \in Nat \ {0}, f.height \in Nat,
           o = Engine(p, x, ext), y = Damage(o, d, x), y # o, ValidateMedia(p, y, x) # "fail"
    PROVE  MediaUnchecked(y, o, f, x)
<1> DEFINE t == x.target
           s == SliceMillis(p, x.arguments)
           e == ExpectedMillis(p, x)
           m == <<Stream(Video, "gif")>>
<1>1. /\ t = "gif" /\ x.operation # "metadata-clean" /\ Resized(x) /\ t # "mp4"
      /\ t \notin ImageOutputs
  BY TargetsApart DEF PlannedGif
<1>2. FieldsAre(o, "gif", ext, m, FileWidth(p, x), FileHeight(p, x), Opaque, s, NoKeys)
  BY <1>1, EngineOfMedia
<1>3. /\ DOMAIN o = MediaFields /\ o = [k \in MediaFields |-> o[k]] /\ o.streams = m
      /\ o.width = FileWidth(p, x) /\ o.height = FileHeight(p, x) /\ o.alpha = Opaque
      /\ o.millis = s
  BY <1>2 DEF FieldsAre
<1>4. /\ ~DurationFails(p, y, x) /\ Counted(y, 1, 0, 0)
      /\ ExpectedSize(p, x) = <<y.width, y.height>>
  BY GifChecks
<1>5. y.streams # Front(m) /\ y.streams # Append(m, Stream(Audio, "aac"))
  BY <1>4, PicturesCounted
<1>6. ASSUME NEW k, AllBut(y, o, k) PROVE y[k] # o[k]
  BY <1>3, <1>6, OtherField
<1>7. ~(o.millis > 600 /\ y.millis = o.millis - 600)
  <2>1. \/ s = Unset /\ e = Unset
        \/ s \in Nat /\ e \in Nat /\ s <= e /\ e <= s + 250
    BY SliceOf
  <2>2. /\ e = ExpectedMillis(p, x) /\ e \in Nat \cup {Unset} /\ o.millis \in Nat \cup {Unset}
        /\ o.millis # Unset => e # Unset /\ o.millis <= e
    <3> HIDE DEF s
    <3>1. e = ExpectedMillis(p, x)
      OBVIOUS
    <3> HIDE DEF e
    <3> QED BY <1>3, <2>1, <3>1 DEF Unset
  <2>3. o.millis > 600 /\ y.millis = o.millis - 600 => DurationFails(p, y, x)
    <3> HIDE DEF e
    <3> QED BY ONLY <1>1, <2>2, ShortCaught DEF t
  <2> QED BY <1>4, <2>3
<1>8. ~Rounds(f, x) => y.height = o.height
  <2>1. ~Rounds(f, x) => ExpectedSize(p, x) = <<FileWidth(p, x), FileHeight(p, x)>>
    BY <1>1, SizeOf
  <2> DEFINE q == ExpectedSize(p, x)
             w == FileWidth(p, x)
             h == FileHeight(p, x)
  <2>2. (~Rounds(f, x) => q = <<w, h>>) /\ q = <<y.width, y.height>> /\ o.height = h
    BY <1>3, <1>4, <2>1
  <2> HIDE DEF q, w, h
  <2> QED BY ONLY <2>2
<1>9. y.streams = [m EXCEPT ![1].codec = "other"] => Len(y.streams) = Len(m)
  OBVIOUS
<1> HIDE DEF m, t
<1>10. ~(AllBut(y, o, "alpha") /\ y.alpha = Opaque)
  BY <1>3, <1>6
<1>11. DamagedTo(y, o, x)
  BY ONLY <1>3, d \in Damages, y = Damage(o, d, x), DamagedMedia
<1>12. \/ AllBut(y, o, "streams") /\ y.streams = [m EXCEPT ![1].codec = "other"]
       \/ AllBut(y, o, "height")
  BY ONLY <1>1, <1>3, <1>5, <1>7, <1>10, <1>11, y # o DEF DamagedTo
<1>13. /\ AllBut(y, o, "streams") => y.streams # o.streams
       /\ AllBut(y, o, "height") => y.height # o.height
  BY <1>6
<1> QED BY <1>1, <1>3, <1>8, <1>9, <1>12, <1>13 DEF MediaUnchecked, t

LEMMA PictureCaught ==
    ASSUME NEW f, NEW p, NEW x, NEW o, NEW y, NEW ext, NEW d \in Damages, Probed(p, f),
           PlannedPicture(p, x), f.width \in Nat \ {0}, f.height \in Nat,
           o = Engine(p, x, ext), y = Damage(o, d, x), y # o, ValidateMedia(p, y, x) # "fail"
    PROVE  MediaUnchecked(y, o, f, x)
<1> DEFINE t == x.target
           e == Stream(Video, ImageCodec[t])
           m == <<e>>
<1>1. /\ t \in ImageOutputs /\ x.operation # "metadata-clean" /\ Resized(x) /\ t # "mp4"
      /\ p.alpha \in BOOLEAN /\ (p.alpha => x.arguments.alpha \/ x.lane = "Heif")
  <2>1. t \in ImageOutputs /\ "mp4" \notin ImageOutputs
    BY TargetsApart DEF PlannedPicture
  <2> QED BY <2>1 DEF PlannedPicture, Probed
<1>2. FieldsAre(o, t, ext, m, FileWidth(p, x), FileHeight(p, x), p.alpha, Unset, NoKeys)
  BY <1>1, EngineOfMedia
<1>3. /\ DOMAIN o = MediaFields /\ o = [k \in MediaFields |-> o[k]] /\ o.streams = m
      /\ o.width = FileWidth(p, x) /\ o.height = FileHeight(p, x) /\ o.alpha = p.alpha
      /\ o.millis = Unset
  BY <1>2 DEF FieldsAre
<1>4. /\ Counted(y, 1, 0, 0) /\ FirstCodec(y, Video) = ImageCodec[t]
      /\ t \in {"tiff", "bmp"} \/ ExpectedSize(p, x) = <<y.width, y.height>>
      /\ (x.arguments.alpha => y.alpha)
  BY PictureChecks
<1>5. y.streams # Front(m) /\ y.streams # Append(m, Stream(Audio, "aac"))
  BY <1>4, PicturesCounted
<1>6. ASSUME NEW k, AllBut(y, o, k) PROVE y[k] # o[k]
  BY <1>3, <1>6, OtherField
<1>7. ~(o.millis > 600)
  BY <1>3 DEF Unset
<1>8. ~Rounds(f, x) /\ t \notin {"tiff", "bmp"} => y.height = o.height
  <2>1. ~Rounds(f, x) => ExpectedSize(p, x) = <<FileWidth(p, x), FileHeight(p, x)>>
    BY <1>1, SizeOf
  <2> QED BY <1>3, <1>4, <2>1
<1>9. y.streams # [m EXCEPT ![1].codec = "other"]
  <2>1. e.kind = Video /\ e = [k \in {"kind", "codec"} |-> e[k]]
    BY DEF Stream
  <2> HIDE DEF e, t
  <2> QED BY <1>1, <1>4, <2>1, OtherCodec, CodecsKnown
<1> HIDE DEF e, m, t
<1>10. ASSUME AllBut(y, o, "alpha"), y.alpha = Opaque PROVE x.lane = "Heif" /\ y.alpha # o.alpha
  <2>1. y.alpha # o.alpha
    BY <1>6, <1>10
  <2>2. p.alpha /\ ~y.alpha
    BY <1>1, <1>3, <1>10, <2>1 DEF Opaque
  <2> QED BY <1>1, <1>4, <2>1, <2>2
<1>11. DamagedTo(y, o, x)
  BY ONLY <1>3, d \in Damages, y = Damage(o, d, x), DamagedMedia
<1>12. \/ AllBut(y, o, "alpha") /\ y.alpha = Opaque
       \/ AllBut(y, o, "height")
  BY ONLY <1>1, <1>3, <1>5, <1>7, <1>9, <1>11, y # o DEF DamagedTo
<1>13. AllBut(y, o, "height") => y.height # o.height
  BY <1>6
<1> QED BY <1>8, <1>10, <1>12, <1>13 DEF MediaUnchecked, t

LEMMA CleanCaught ==
    ASSUME NEW f, NEW p, NEW x, NEW o, NEW y, NEW ext, NEW d \in Damages, PlannedClean(p, x),
           p.millis \in Nat \cup {Unset},
           o = Engine(p, x, ext), y = Damage(o, d, x), y # o, ValidateMedia(p, y, x) # "fail"
    PROVE  MediaUnchecked(y, o, f, x)
<1> DEFINE t == x.target
           a == x.arguments
<1>1. x.operation = "metadata-clean" /\ t # "gif"
  BY TargetsApart DEF PlannedClean
<1>2. FieldsAre(o, p.format, ext, p.streams, p.width, p.height, p.alpha, p.millis,
                p.keys \ a.removed)
  BY <1>1, EngineOfMedia
<1>3. /\ DOMAIN o = MediaFields /\ o = [k \in MediaFields |-> o[k]] /\ o.streams = p.streams
      /\ o.height = p.height /\ o.millis = p.millis /\ o.keys = p.keys \ a.removed
  BY <1>2 DEF FieldsAre
<1>4. /\ ~DurationFails(p, y, x) /\ p.streams = y.streams /\ p.height = y.height
      /\ a.removed \cap y.keys = {}
  BY CleanChecks
<1>5. ASSUME NEW k, AllBut(y, o, k) PROVE y[k] # o[k]
  BY <1>3, <1>5, OtherField
<1>6. t \notin ImageOutputs => ~(o.millis > 600 /\ y.millis = o.millis - 600)
  <2> SUFFICES ASSUME t \notin ImageOutputs
               PROVE  ~(o.millis > 600 /\ y.millis = o.millis - 600)
    OBVIOUS
  <2>1. ExpectedMillis(p, x) = p.millis
    BY <1>1 DEF ExpectedMillis
  <2> DEFINE w == o.millis
  <2>2. /\ w = ExpectedMillis(p, x) /\ w \in Nat \cup {Unset} /\ o.millis \in Nat \cup {Unset}
        /\ o.millis # Unset => w # Unset /\ o.millis <= w
    BY <1>3, <2>1 DEF Unset
  <2>3. x.target \notin ImageOutputs
    OBVIOUS
  <2>4. o.millis > 600 /\ y.millis = o.millis - 600 => DurationFails(p, y, x)
    <3> HIDE DEF w
    <3> QED BY ONLY <2>2, <2>3, ShortCaught
  <2> QED BY <1>4, <2>4
<1>7. /\ ~AllBut(y, o, "streams") /\ ~AllBut(y, o, "height")
      /\ AllBut(y, o, "alpha") => y.alpha # o.alpha
      /\ AllBut(y, o, "millis") => y.millis # o.millis
      /\ AllBut(y, o, "keys") => y.keys # o.keys
  BY <1>3, <1>4, <1>5
<1>8. ~(AllBut(y, o, "keys") /\ y.keys = o.keys \cup a.removed)
  <2> DEFINE g == o.keys
             h == a.removed
  <2>1. y.keys = g \cup h => h = {}
    BY <1>4
  <2> HIDE DEF h, g
  <2>2. h = {} => g \cup h = g
    OBVIOUS
  <2> QED BY <1>7, <2>1, <2>2 DEF g, h
<1> HIDE DEF a, t
<1>9. DamagedTo(y, o, x)
  BY ONLY <1>3, d \in Damages, y = Damage(o, d, x), DamagedMedia
<1>10. \/ AllBut(y, o, "millis") /\ o.millis > 600 /\ y.millis = o.millis - 600
       \/ AllBut(y, o, "alpha")
  BY ONLY <1>7, <1>8, <1>9, y # o DEF DamagedTo, a
<1> QED BY <1>1, <1>6, <1>7, <1>10 DEF MediaUnchecked, t

LEMMA MediaCaught ==
    ASSUME NEW f, NEW r, NEW p, NEW x, NEW o, NEW y, NEW d \in Damages, MediaFile(f),
           MediaPlanned(f, r, p, x), o = Engine(p, x, r.ext), y = Damage(o, d, x), y # o,
           ValidateMedia(p, y, x) # "fail"
    PROVE  MediaUnchecked(y, o, f, x)
<1> DEFINE S == [kind : {Video, Audio, Subtitle, Data}, codec : STRING]
           ext == r.ext
<1>1. /\ f.streams \in Seq(S) /\ f.width \in Nat /\ f.height \in Nat
      /\ (Indices(f, Video) # {} => f.width \in Nat \ {0}) /\ f.millis \in Nat \cup {Unset}
  BY DEF MediaFile
<1>2. Probed(p, f) /\ p.millis \in Nat \cup {Unset} /\ p.height \in Nat
  BY <1>1 DEF MediaPlanned, Probed
<1>3. p.streams = f.streams => p.streams \in Seq(S) /\ Indices(p, Video) = Indices(f, Video)
  BY <1>1 DEF Indices
<1>4. o = Engine(p, x, ext)
  OBVIOUS
<1> HIDE DEF ext
<1>5. CASE PlannedClean(p, x)
  BY <1>2, <1>4, <1>5, CleanCaught
<1>6. CASE p.streams = f.streams /\ PlannedMovie(p, x)
  <2> HIDE DEF S
  <2> QED BY <1>2, <1>3, <1>4, <1>6, MovieCaught
<1>7. CASE p.streams = f.streams /\ PlannedSound(p, x)
  BY <1>2, <1>3, <1>4, <1>7, SoundCaught
<1>8. CASE p.streams = f.streams /\ PlannedGif(p, x)
  <2>1. f.width \in Nat \ {0}
    BY <1>1, <1>3, <1>8 DEF PlannedGif
  <2> HIDE DEF S
  <2> QED BY <1>1, <1>2, <1>4, <1>8, <2>1, GifCaught
<1>9. CASE PlannedPicture(p, x) /\ Indices(f, Video) # {}
  <2> HIDE DEF S
  <2> QED BY <1>1, <1>2, <1>4, <1>9, PictureCaught
<1> QED BY <1>5, <1>6, <1>7, <1>8, <1>9 DEF MediaPlanned

\* what was judged in a media lane
MediaJudged(p) ==
    /\ p = Probe(plan.lane) /\ MediaFile(asked.file) /\ MediaPlanned(asked.file, Request, p, plan)
    /\ Obeyed = Engine(p, plan, Request.ext)
    /\ Verdict = "fail" <=> ValidateMedia(p, out, plan) = "fail"
    /\ Spoilt = {Damage(Obeyed, d, plan) : d \in Damages}

LEMMA WhatMediaIsJudged ==
    ASSUME Judged, plan.lane \in MediaAdapters
    PROVE  MediaJudged(Probe(plan.lane))
<1> DEFINE f == asked.file
           p == Probe(plan.lane)
<1>1. plan.lane \notin PdfAdapters \cup DataAdapters \cup MailAdapters \cup DocumentAdapters
  BY AdaptersApart
<1>2. /\ Obeyed = Engine(p, plan, Request.ext) /\ Verdict = VerdictOfMedia
      /\ Spoilt = {Damage(Obeyed, d, plan) : d \in Damages}
  BY <1>1, LaneFunctions
<1>3. VerdictOfMedia = "fail" <=> ValidateMedia(p, out, plan) = "fail"
  BY DEF VerdictOfMedia
<1>4. MediaFile(f)
  BY DEF Judged, CaseAssumption, KnownFile
<1>5. MediaPlanned(f, Request, p, plan)
  <2>1. p = IF plan.lane = "Magick" THEN InspectMagick(f) ELSE InspectMedia(f)
    BY DEF Probe
  <2>2. CaseAssumption(asked) /\ Origin(plan, asked)
    BY DEF Judged
  <2> HIDE DEF p
  <2> QED BY <2>1, <2>2, MediaFits DEF Request
<1> QED BY <1>2, <1>3, <1>4, <1>5 DEF MediaJudged

LEMMA MediaRight ==
    ASSUME Judged, plan.lane \in MediaAdapters
    PROVE  /\ Condemned /\ out = Obeyed => HonestGaps
           /\ stage = "committed" /\ out # Obeyed => DamageIsCaught
<1> DEFINE f == asked.file
           p == Probe(plan.lane)
<1>1. MediaJudged(p)
  BY WhatMediaIsJudged
<1> HIDE DEF p
<1>2. /\ MediaFile(f) /\ MediaPlanned(f, Request, p, plan)
      /\ Obeyed = Engine(p, plan, Request.ext)
      /\ Verdict = "fail" <=> ValidateMedia(p, out, plan) = "fail"
      /\ Spoilt = {Damage(Obeyed, d, plan) : d \in Damages}
  BY <1>1 DEF MediaJudged
<1>3. ASSUME Condemned, out = Obeyed PROVE HonestGaps
  <2>1. ValidateMedia(p, out, plan) = "fail"
    BY <1>2, <1>3 DEF Judged
  <2>2. HonestMediaGaps(f, Request, plan)
    BY ONLY <1>2, <1>3, <2>1, MediaHonest
  <2> QED BY <2>2 DEF HonestMediaGaps, HonestGaps, RoundsOtherwise, Rounds, PlannedExtension
<1>4. ASSUME stage = "committed", out # Obeyed PROVE DamageIsCaught
  <2>1. ValidateMedia(p, out, plan) # "fail"
    BY <1>2, <1>4 DEF Judged
  <2>2. PICK d \in Damages : out = Damage(Obeyed, d, plan)
    BY <1>2, <1>4 DEF Judged
  <2>3. MediaUnchecked(out, Obeyed, f, plan)
    BY ONLY <1>2, <1>4, <2>1, <2>2, MediaCaught
  <2>4. UncheckedMedia
    BY <2>3 DEF MediaUnchecked, UncheckedMedia, RoundsOtherwise, Rounds
  <2>5. plan.lane \notin PdfAdapters /\ plan.lane \notin DataAdapters
        /\ plan.lane \notin MailAdapters /\ plan.lane \notin DocumentAdapters
    BY AdaptersApart
  <2> QED BY ONLY <2>4, <2>5, Zenon DEF DamageIsCaught
<1> QED BY <1>3, <1>4

-----------------------------------------------------------------------------
(* What is lost.                                                            *)

\* as many streams of each kind as are not dropped
AllTold(o, f, dropped) ==
    \A k \in {Video, Audio, Subtitle, Data} :
       Cardinality(Indices(o, k)) = Cardinality(Indices(f, k) \ dropped)

LEMMA OneLeft ==
    ASSUME NEW o, NEW f, NEW e, NEW i, NEW dropped, o.streams = <<e>>,
           i \in Indices(f, e.kind), dropped = DOMAIN f.streams \ {i}
    PROVE  AllTold(o, f, dropped)
<1> DEFINE j == e.kind
<1>1. Count(<<e>>, j) = 1 /\ \A k : k # j => Count(<<e>>, k) = 0
  BY CountOfOne
<1>2. \A k : Cardinality(Indices(o, k)) = Count(<<e>>, k)
  BY IndicesAre DEF Count
<1>3. i \in DOMAIN f.streams /\ f.streams[i].kind = j
  BY DEF Indices
<1>4. Indices(f, j) \ dropped = {i}
  BY <1>3 DEF Indices
<1>5. \A k : k # j => Indices(f, k) \ dropped = {}
  BY <1>3 DEF Indices
<1>6. Cardinality({i}) = 1 /\ Cardinality({}) = 0
  BY FS_Singleton, FS_EmptySet
<1> HIDE DEF j
<1> QED BY <1>1, <1>2, <1>4, <1>5, <1>6 DEF AllTold

LEMMA MovieLoss ==
    ASSUME NEW S, NEW f, NEW p, NEW x, NEW o, NEW ext, p.streams = f.streams,
           f.streams \in Seq(S), PlannedMovie(p, x), o = Engine(p, x, ext),
           ForeignSubtitles(f) \in {{}, Indices(f, Subtitle)}
    PROVE  AllTold(o, f, x.dropped)
<1> DEFINE m == MovieStreams(p, x)
           s == f.streams
           n == IF x.arguments.subtitles = "copy" THEN Count(s, Subtitle) ELSE 0
           alien == ForeignSubtitles(f)
           others == Indices(f, Data)
<1>1. x.operation # "metadata-clean" /\ x.target = "mp4"
  BY DEF PlannedMovie
<1>2. o.streams = m
  BY <1>1, EngineOfMedia DEF FieldsAre
<1>3. /\ Count(m, Video) = Count(s, Video) /\ Count(m, Audio) = Count(s, Audio)
      /\ Count(m, Subtitle) = n /\ Count(m, Data) = 0
  <2>1. p.streams \in Seq(S)
    OBVIOUS
  <2> DEFINE z == p.streams
  <2>2. /\ Count(m, Video) = Count(z, Video) /\ Count(m, Audio) = Count(z, Audio)
        /\ Count(m, Subtitle) = IF x.arguments.subtitles = "copy" THEN Count(z, Subtitle) ELSE 0
        /\ Count(m, Data) = 0
    BY <2>1, MovieCounted
  <2>3. z = s
    OBVIOUS
  <2> HIDE DEF m, z, s
  <2> QED BY ONLY <2>2, <2>3 DEF n
<1>4. \A k : Cardinality(Indices(o, k)) = Count(m, k) /\ Cardinality(Indices(f, k)) = Count(s, k)
  BY <1>2, IndicesAre DEF Count
<1>5. \A k : Indices(p, k) = Indices(f, k)
  BY DEF Indices
<1>6. ForeignSubtitles(p) = alien /\ alien \subseteq Indices(f, Subtitle)
  BY DEF ForeignSubtitles, Indices
<1>7. /\ x.dropped = alien \cup others
      /\ x.arguments.subtitles = "copy" <=> (Indices(f, Subtitle) # {} /\ alien = {})
  BY <1>5, <1>6 DEF PlannedMovie
<1>8. /\ Indices(f, Video) \cap Indices(f, Subtitle) = {}
      /\ Indices(f, Audio) \cap Indices(f, Subtitle) = {}
      /\ others \cap Indices(f, Subtitle) = {}
      /\ Indices(f, Video) \cap others = {} /\ Indices(f, Audio) \cap others = {}
  BY DEF Indices, Video, Audio, Subtitle, Data
<1>9. Cardinality({}) = 0
  BY FS_EmptySet
<1> HIDE DEF m, s, alien, others
<1>10. /\ Indices(f, Video) \ x.dropped = Indices(f, Video)
       /\ Indices(f, Audio) \ x.dropped = Indices(f, Audio)
       /\ Indices(f, Data) \ x.dropped = {}
  BY <1>6, <1>7, <1>8 DEF others
<1>11. Cardinality(Indices(f, Subtitle) \ x.dropped) = n
  <2>1. CASE x.arguments.subtitles = "copy"
    <3>1. Indices(f, Subtitle) \ x.dropped = Indices(f, Subtitle)
      BY <1>7, <1>8, <2>1
    <3> QED BY <1>4, <2>1, <3>1
  <2>2. CASE x.arguments.subtitles # "copy"
    <3>1. Indices(f, Subtitle) \ x.dropped = {}
      BY <1>7, <2>2 DEF alien
    <3> QED BY <1>9, <2>2, <3>1
  <2> QED BY <2>1, <2>2
<1> QED BY <1>3, <1>4, <1>9, <1>10, <1>11 DEF AllTold

LEMMA MediaLoss ==
    ASSUME NEW f, NEW r, NEW p, NEW x, NEW o, MediaFile(f), MediaPlanned(f, r, p, x),
           o = Engine(p, x, r.ext)
    PROVE  IF x.operation = "metadata-clean"
           THEN f.keys \ o.keys = x.dropped
           ELSE \/ x.target = "mp4" /\ ForeignSubtitles(f) \notin {{}, Indices(f, Subtitle)}
                \/ x.target \in ImageOutputs /\ Len(f.streams) > 1
                \/ AllTold(o, f, x.dropped)
<1> DEFINE S == [kind : {Video, Audio, Subtitle, Data}, codec : STRING]
           ext == r.ext
<1>1. /\ f.streams \in Seq(S) /\ p.keys = f.keys /\ o = Engine(p, x, ext)
      /\ DOMAIN f.streams = 1..Len(f.streams) /\ Len(f.streams) \in Nat
  BY DEF MediaFile, MediaPlanned, Probed
<1>2. p.streams = f.streams => \A k : Indices(p, k) = Indices(f, k)
  BY DEF Indices
<1> HIDE DEF S, ext
<1>3. CASE PlannedClean(p, x)
  <2>1. x.operation = "metadata-clean"
    BY <1>3 DEF PlannedClean
  <2>2. o.keys = p.keys \ x.arguments.removed
    BY <1>1, <2>1, EngineOfMedia DEF FieldsAre
  <2>3. f.keys \ o.keys = x.dropped
    BY <1>1, <1>3, <2>2 DEF PlannedClean
  <2> QED BY <2>1, <2>3
<1>4. CASE p.streams = f.streams /\ PlannedMovie(p, x)
  <2>1. x.operation # "metadata-clean" /\ x.target = "mp4"
    BY <1>4 DEF PlannedMovie
  <2> QED BY <1>1, <1>4, <2>1, MovieLoss
<1>5. CASE p.streams = f.streams /\ PlannedSound(p, x)
  <2> DEFINE e == SoundStream(p, x)
             i == x.arguments.stream
  <2>1. x.operation # "metadata-clean" /\ x.target \in AudioTargets
    BY <1>5 DEF PlannedSound
  <2>2. o.streams = <<e>>
    BY <1>1, <2>1, EngineOfMedia DEF FieldsAre
  <2>3. e.kind = Audio
    BY <1>1, <1>5, SoundIsSound
  <2>4. i \in Indices(f, Audio) /\ x.dropped = DOMAIN f.streams \ {i}
    BY <1>2, <1>5 DEF PlannedSound
  <2> HIDE DEF e, i
  <2>5. AllTold(o, f, x.dropped)
    BY <2>2, <2>3, <2>4, OneLeft
  <2> QED BY <2>1, <2>5
<1>6. CASE p.streams = f.streams /\ PlannedGif(p, x)
  <2> DEFINE e == Stream(Video, "gif")
             i == Min(Indices(p, Video))
  <2>1. x.operation # "metadata-clean" /\ x.target = "gif" /\ Indices(p, Video) # {}
    BY <1>6 DEF PlannedGif
  <2>2. o.streams = <<e>>
    BY <1>1, <2>1, EngineOfMedia DEF FieldsAre
  <2>3. e.kind = Video
    BY DEF Stream
  <2>4. x.dropped = DOMAIN f.streams \ {i}
    BY <1>6 DEF PlannedGif
  <2>5. i \in Indices(f, Video)
    <3>1. Indices(f, Video) \subseteq Nat /\ Indices(f, Video) # {}
      BY <1>1, <1>2, <1>6, <2>1 DEF Indices
    <3>2. i = Min(Indices(f, Video))
      BY <1>2, <1>6
    <3> HIDE DEF i
    <3> QED BY <3>1, <3>2, MinIsLeast
  <2> HIDE DEF e, i
  <2>6. AllTold(o, f, x.dropped)
    BY <2>2, <2>3, <2>4, <2>5, OneLeft
  <2> QED BY <2>1, <2>6
<1>7. CASE PlannedPicture(p, x) /\ Indices(f, Video) # {}
  <2> DEFINE e == Stream(Video, ImageCodec[x.target])
  <2>1. x.operation # "metadata-clean" /\ x.target \in ImageOutputs /\ x.dropped = {}
    BY <1>7 DEF PlannedPicture
  <2>2. o.streams = <<e>>
    BY <1>1, <2>1, EngineOfMedia DEF FieldsAre
  <2>3. e.kind = Video
    BY DEF Stream
  <2> HIDE DEF e
  <2>4. CASE Len(f.streams) > 1
    BY <2>1, <2>4
  <2>5. CASE ~(Len(f.streams) > 1)
    <3>1. PICK i \in DOMAIN f.streams : f.streams[i].kind = Video
      BY <1>7 DEF Indices
    <3>2. Len(f.streams) = 1
      <4> DEFINE k == Len(f.streams)
      <4>1. k \in Nat /\ DOMAIN f.streams = 1..k /\ ~(k > 1)
        BY <1>1, <2>5
      <4> HIDE DEF k
      <4>2. i \in 1..k
        BY <3>1, <4>1
      <4>3. k = 1
        BY ONLY <4>1, <4>2
      <4> QED BY <4>3 DEF k
    <3>3. i \in Indices(f, e.kind)
      BY <2>3, <3>1 DEF Indices
    <3>4. x.dropped = DOMAIN f.streams \ {i}
      <4>1. DOMAIN f.streams = {1}
        BY ONLY <1>1, <3>2
      <4> QED BY <2>1, <3>1, <4>1
    <3>5. AllTold(o, f, x.dropped)
      BY <2>2, <3>3, <3>4, OneLeft
    <3> QED BY <2>1, <3>5
  <2> QED BY <2>4, <2>5
<1> QED BY <1>3, <1>4, <1>5, <1>6, <1>7 DEF MediaPlanned

LEMMA NothingOfMediaIsLost ==
    ASSUME Judged
    PROVE  MediaLossIsDeclared
<1> SUFFICES ASSUME stage = "committed", out = Obeyed, plan.lane \in MediaAdapters
             PROVE  MediaLossIsDeclared
  BY DEF MediaLossIsDeclared
<1> DEFINE p == Probe(plan.lane)
           f == asked.file
           r == Request
           x == plan
<1>1. MediaJudged(p)
  BY WhatMediaIsJudged
<1> HIDE DEF p
<1>2. MediaFile(f) /\ MediaPlanned(f, r, p, x) /\ out = Engine(p, x, r.ext)
  BY <1>1 DEF MediaJudged
<1> HIDE DEF f, r, x
<1>3. IF x.operation = "metadata-clean"
      THEN f.keys \ out.keys = x.dropped
      ELSE \/ x.target = "mp4" /\ ForeignSubtitles(f) \notin {{}, Indices(f, Subtitle)}
           \/ x.target \in ImageOutputs /\ Len(f.streams) > 1
           \/ AllTold(out, f, x.dropped)
  BY ONLY <1>2, MediaLoss
<1> QED BY <1>3 DEF MediaLossIsDeclared, MixedSubtitles, OtherPictures, AllTold, f, x

LEMMA AdaptersKnown ==
    ASSUME NEW ext, NEW content, NEW t, NEW h
    PROVE  /\ LaneOf(ext, content, t, h).adapter \in
                 MediaAdapters \cup PdfAdapters \cup DataAdapters \cup MailAdapters
                   \cup DocumentAdapters
BY DEF LaneOf, Lane, DocumentToPdf, MediaLane, MediaAdapters, PdfAdapters, DataAdapters,
       MailAdapters, DocumentAdapters, OfficeAdapters

\* every plan is that of one of the lanes
LEMMA LanesKnown ==
    ASSUME Judged
    PROVE  plan.lane \in MediaAdapters \cup PdfAdapters \cup DataAdapters \cup MailAdapters
                            \cup DocumentAdapters
<1>1. CaseAssumption(asked) /\ Origin(plan, asked)
  BY DEF Judged
<1> DEFINE x == plan
           c == asked
<1> HIDE DEF x, c
<1>2. \/ x.lane = "Ffmpeg"
      \/ \E lane : LaneFor(lane, c.file, c.request, c.op) /\ x.lane = lane.adapter
  <2>1. CaseAssumption(c) /\ Origin(x, c)
    BY <1>1 DEF x, c
  <2> QED BY <2>1, OriginLane
<1>3. ASSUME NEW lane, LaneFor(lane, c.file, c.request, c.op)
      PROVE  lane.adapter \in MediaAdapters \cup PdfAdapters \cup DataAdapters \cup MailAdapters
                                \cup DocumentAdapters
  <2>1. CASE c.op \in PdfOperations /\ lane = OperationLane(c.op)
    BY <2>1 DEF OperationLane, Lane, PdfAdapters
  <2>2. CASE \E h : lane = LaneOf(ClassOf(c.file.ext), ClassOf(c.file.container),
                                  c.request.target, h)
    BY <2>2, AdaptersKnown
  <2> QED BY <1>3, <2>1, <2>2 DEF LaneFor
<1>4. "Ffmpeg" \in MediaAdapters
  BY DEF MediaAdapters
<1> QED BY <1>2, <1>3, <1>4 DEF x

LEMMA VerdictsRightHere ==
    ASSUME PlanInv, VerdictInv
    PROVE  VerdictsRight
<1>1. ASSUME Judged
      PROVE  /\ Condemned /\ out = Obeyed => HonestGaps
             /\ stage = "committed" /\ out # Obeyed => DamageIsCaught
  <2>1. plan.lane \in MediaAdapters \cup PdfAdapters \cup DataAdapters \cup MailAdapters
                         \cup DocumentAdapters
    BY <1>1, LanesKnown
  <2> QED BY <1>1, <2>1, MediaRight, PdfRight, DataRight, MailsRight, DocumentsRight
<1> QED BY <1>1, RightWhenJudged

LEMMA LossDeclaredHere ==
    ASSUME PlanInv, VerdictInv
    PROVE  LossIsDeclared
<1>1. MediaLossIsDeclared
  <2>1. CASE stage = "committed"
    BY <2>1, WhatIsJudged, NothingOfMediaIsLost
  <2>2. CASE stage # "committed"
    BY <2>2 DEF MediaLossIsDeclared
  <2> QED BY <2>1, <2>2
<1>2. MailsAreKept
  BY WhatIsJudged, NothingOfMailsIsLost DEF MailsAreKept
<1> QED BY <1>1, <1>2 DEF LossIsDeclared

-----------------------------------------------------------------------------
(* The theorems.                                                           *)

\* An output that is what the plan says is refused only in the named gaps, and one that is anything
\* else is committed only where no check looks at the difference (validation.rs and pdf.rs against
\* planner.rs and the adapters), for every file of the lanes of media, documents, mail, data and
\* PDF, every plan that the planners make of it and every way of being wrong that the lane knows.
THEOREM VerdictsAreRight == Spec => []VerdictsRight
BY SpecPlanInvariant, SpecVerdictInvariant, VerdictsRightHere, PTL

\* What a media output lacks was declared as dropped in the plan, and every message of a mailbox is
\* in the output with the text that its reader sees, or a named gap is there (planner.rs, eml.rs,
\* msg.rs, mbox.rs), for every file and every request.
THEOREM LossIsAlwaysDeclared == Spec => []LossIsDeclared
BY SpecPlanInvariant, SpecVerdictInvariant, LossDeclaredHere, PTL
=============================================================================
