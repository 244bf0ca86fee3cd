-------------------------- MODULE CollectionLemmas --------------------------
(* What the models' operators on sequences and finite sets return, for the   *)
(* proofs about them to cite.                                                *)
EXTENDS SequencesExt, FiniteSetsExt, SequenceTheorems, FiniteSetTheorems,
        WellFoundedInduction, TLAPS

-----------------------------------------------------------------------------
(* Sequences *)

\* What appending an element makes of a sequence.
LEMMA AppendMeans ==
    ASSUME NEW M, NEW s \in Seq(M), NEW m \in M
    PROVE  /\ Append(s, m) \in Seq(M)
           /\ ToSet(Append(s, m)) = ToSet(s) \union {m}
           /\ DOMAIN Append(s, m) = 1 .. Len(s) + 1
           /\ Len(s) \in Nat /\ DOMAIN s = 1 .. Len(s)
           /\ \A j \in 1 .. Len(s) : Append(s, m)[j] = s[j]
           /\ Append(s, m)[Len(s) + 1] = m
  <1>1. /\ Append(s, m) \in Seq(M) /\ Len(s) \in Nat
        /\ DOMAIN s = 1 .. Len(s) /\ DOMAIN Append(s, m) = 1 .. Len(s) + 1
    OBVIOUS
  <1>2. /\ \A j \in 1 .. Len(s) : Append(s, m)[j] = s[j]
        /\ Append(s, m)[Len(s) + 1] = m
    OBVIOUS
  <1>3. 1 .. Len(s) + 1 = (1 .. Len(s)) \union {Len(s) + 1}
    BY <1>1
  <1>4. ToSet(Append(s, m)) = ToSet(s) \union {m}
    BY <1>1, <1>2, <1>3 DEF ToSet
  <1> QED
    BY <1>1, <1>2, <1>4

\* A new element keeps a sequence free of repetitions.
LEMMA AppendNew ==
    ASSUME NEW M, NEW s \in Seq(M), NEW m \in M,
           IsInjective(s), m \notin ToSet(s)
    PROVE  IsInjective(Append(s, m))
  <1>1. /\ DOMAIN s = 1 .. Len(s) /\ DOMAIN Append(s, m) = 1 .. Len(s) + 1
        /\ \A j \in 1 .. Len(s) : Append(s, m)[j] = s[j]
        /\ Append(s, m)[Len(s) + 1] = m
        /\ Len(s) \in Nat
    BY AppendMeans
  <1>2. 1 .. Len(s) + 1 = (1 .. Len(s)) \union {Len(s) + 1}
    BY <1>1
  <1> QED
    BY <1>1, <1>2 DEF IsInjective, ToSet

\* What removing an element makes of a sequence without repetitions.
LEMMA RemoveMeans ==
    ASSUME NEW M, NEW s \in Seq(M), NEW i \in DOMAIN s, IsInjective(s)
    PROVE  /\ RemoveAt(s, i) \in Seq(M)
           /\ ToSet(RemoveAt(s, i)) = ToSet(s) \ {s[i]}
           /\ IsInjective(RemoveAt(s, i))
  <1> DEFINE n == Len(s)
             t == RemoveAt(s, i)
  <1>1. n \in Nat /\ DOMAIN s = 1 .. n /\ i \in 1 .. n
    OBVIOUS
  <1>2. /\ SubSeq(s, 1, i - 1) \in Seq(M)
        /\ Len(SubSeq(s, 1, i - 1)) = i - 1
        /\ \A j \in 1 .. i - 1 : SubSeq(s, 1, i - 1)[j] = s[j]
    BY <1>1, SubSeqProperties
  <1>3. /\ SubSeq(s, i + 1, n) \in Seq(M)
        /\ Len(SubSeq(s, i + 1, n)) = n - i
        /\ \A j \in 1 .. n - i : SubSeq(s, i + 1, n)[j] = s[i + j]
    BY <1>1, SubSeqProperties
  <1>4. /\ t \in Seq(M) /\ Len(t) = n - 1
        /\ \A j \in 1 .. n - 1 : t[j] = IF j < i THEN s[j] ELSE s[j + 1]
    <2> DEFINE u == SubSeq(s, 1, i - 1)
               v == SubSeq(s, i + 1, n)
    <2> HIDE DEF u, v
    <2>1. /\ u \o v \in Seq(M)
          /\ Len(u \o v) = Len(u) + Len(v)
          /\ \A j \in 1 .. Len(u) + Len(v) :
                (u \o v)[j] = IF j <= Len(u) THEN u[j] ELSE v[j - Len(u)]
      BY <1>2, <1>3, ConcatProperties DEF u, v
    <2>2. Len(u) = i - 1 /\ Len(v) = n - i /\ Len(u) + Len(v) = n - 1
      BY <1>1, <1>2, <1>3 DEF u, v
    <2>3. \A j \in 1 .. n - 1 : (u \o v)[j] = IF j < i THEN s[j] ELSE s[j + 1]
      <3> SUFFICES ASSUME NEW j \in 1 .. n - 1
                   PROVE  (u \o v)[j] = IF j < i THEN s[j] ELSE s[j + 1]
        OBVIOUS
      <3>1. CASE j < i
        <4>1. j \in 1 .. i - 1 /\ j <= Len(u)
          BY <1>1, <2>2, <3>1
        <4> QED
          BY <1>2, <2>1, <2>2, <3>1, <4>1 DEF u
      <3>2. CASE ~ (j < i)
        <4>1. /\ j - (i - 1) \in 1 .. n - i /\ ~ (j <= Len(u))
              /\ i + (j - (i - 1)) = j + 1
          BY <1>1, <2>2, <3>2
        <4> QED
          BY <1>3, <2>1, <2>2, <3>2, <4>1 DEF v
      <3> QED
        BY <3>1, <3>2
    <2>4. t = u \o v
      BY DEF RemoveAt, u, v
    <2> QED
      BY <2>1, <2>2, <2>3, <2>4
  <1>5. DOMAIN t = 1 .. n - 1
    BY <1>4
  <1>6. ASSUME NEW j \in 1 .. n, j # i
        PROVE  s[j] \in ToSet(t)
    <2>1. CASE j < i
      BY <1>1, <1>4, <1>5, <2>1 DEF ToSet
    <2>2. CASE j > i
      <3>1. j - 1 \in 1 .. n - 1 /\ t[j - 1] = s[j]
        BY <1>1, <1>4, <2>2
      <3> QED
        BY <1>5, <3>1 DEF ToSet
    <2> QED
      BY <1>1, <1>6, <2>1, <2>2
  <1>7. ASSUME NEW j \in 1 .. n - 1
        PROVE  \E k \in 1 .. n : k # i /\ t[j] = s[k]
                                 /\ (j < i => k = j) /\ (j >= i => k = j + 1)
    <2>1. CASE j < i
      BY <1>1, <1>4, <2>1
    <2>2. CASE j >= i
      <3>1. j + 1 \in 1 .. n /\ j + 1 # i /\ t[j] = s[j + 1]
        BY <1>1, <1>4, <2>2
      <3> QED
        BY <2>2, <3>1
    <2> QED
      BY <1>1, <2>1, <2>2
  <1>8. \A j, k \in 1 .. n : s[j] = s[k] => j = k
    BY <1>1 DEF IsInjective
  <1>9. ToSet(t) = ToSet(s) \ {s[i]}
    <2>1. ToSet(t) \subseteq ToSet(s) \ {s[i]}
      BY <1>1, <1>5, <1>7, <1>8 DEF ToSet
    <2>2. ToSet(s) \ {s[i]} \subseteq ToSet(t)
      BY <1>1, <1>6 DEF ToSet
    <2> QED
      BY <2>1, <2>2
  <1>10. IsInjective(t)
    <2> SUFFICES ASSUME NEW a \in 1 .. n - 1, NEW b \in 1 .. n - 1, t[a] = t[b]
                 PROVE  a = b
      BY <1>5 DEF IsInjective
    <2>1. PICK k \in 1 .. n : k # i /\ t[a] = s[k]
                              /\ (a < i => k = a) /\ (a >= i => k = a + 1)
      BY <1>7
    <2>2. PICK l \in 1 .. n : l # i /\ t[b] = s[l]
                              /\ (b < i => l = b) /\ (b >= i => l = b + 1)
      BY <1>7
    <2>3. k = l
      BY <1>8, <2>1, <2>2
    <2> QED
      BY <1>1, <2>1, <2>2, <2>3
  <1> QED
    BY <1>4, <1>9, <1>10

-----------------------------------------------------------------------------
(* Numbers *)

\* A set of numbers that is not empty has a least one.
LEMMA LeastNumber ==
    ASSUME NEW T \in SUBSET Nat, T # {}
    PROVE  \E m \in T : \A n \in T : m <= n
  <1>1. PICK m \in T : \A n \in T : ~ (<<n, m>> \in OpToRel(<, Nat))
    BY NatLessThanWellFounded, WFMin
  <1>2. \A n \in T : ~ (n < m)
    BY <1>1 DEF OpToRel
  <1> QED
    BY <1>2

-----------------------------------------------------------------------------
(* Folds over finite sets *)

\* c chooses an element of each subset of S that has one.
IsChoice(c, S) == \A s \in SUBSET S : s # {} => c[s] \in s

\* A set of subsets of S that has the empty one and, with what is left of a
\* subset without the chosen element, that subset, has them all.
LEMMA SetInduction ==
    ASSUME NEW S, IsFiniteSet(S), NEW c, IsChoice(c, S),
           NEW T, {} \in T,
           \A s \in SUBSET S : s # {} /\ s \ {c[s]} \in T => s \in T
    PROVE  SUBSET S \subseteq T
  <1> DEFINE Bad == {s \in SUBSET S : s \notin T}
             Sizes == {Cardinality(s) : s \in Bad}
  <1> SUFFICES ASSUME Bad # {}
               PROVE  FALSE
    OBVIOUS
  <1>1. \A s \in SUBSET S : IsFiniteSet(s) /\ Cardinality(s) \in Nat
    BY FS_Subset, FS_CardinalityType
  <1>2. Sizes \in SUBSET Nat /\ Sizes # {}
    BY <1>1
  <1>3. PICK m \in Sizes : \A n \in Sizes : m <= n
    BY <1>2, LeastNumber
  <1>4. PICK s \in Bad : Cardinality(s) = m
    BY <1>3
  <1>5. s # {} /\ c[s] \in s /\ s \ {c[s]} \in SUBSET S
    BY <1>4 DEF IsChoice
  <1>6. Cardinality(s \ {c[s]}) = Cardinality(s) - 1 /\ Cardinality(s) \in Nat
    BY <1>1, <1>5, FS_RemoveElement
  <1>7. s \ {c[s]} \notin Bad
    <2>1. ~ (m <= Cardinality(s \ {c[s]}))
      BY <1>4, <1>6
    <2> QED
      BY <1>3, <2>1
  <1> QED
    BY <1>4, <1>5, <1>7

\* f is the fold of G over the subsets of S, from b, with values in V.
FoldsTo(f, S, c, V, b, G) ==
    /\ f \in [SUBSET S -> V]
    /\ \A s \in SUBSET S :
          f[s] = IF s = {} THEN b ELSE G[<<c[s], f[s \ {c[s]}]>>]

\* There is one over every finite set.
LEMMA FoldExists ==
    ASSUME NEW S, IsFiniteSet(S), NEW c, IsChoice(c, S),
           NEW V, NEW b \in V, NEW G \in [S \X V -> V]
    PROVE  \E f : FoldsTo(f, S, c, V, b, G)
  <1> DEFINE Eq(f, s) ==
               f[s] = IF s = {} THEN b ELSE G[<<c[s], f[s \ {c[s]}]>>]
             P(n) == \E f \in [SUBSET S -> V] : \A s \in SUBSET S :
                        Cardinality(s) <= n => Eq(f, s)
  <1>1. \A s \in SUBSET S : /\ Cardinality(s) \in Nat
                            /\ Cardinality(s) <= Cardinality(S)
                            /\ Cardinality(s) = 0 <=> s = {}
    BY FS_Subset, FS_CardinalityType, FS_EmptySet
  <1>2. ASSUME NEW s \in SUBSET S, s # {}
        PROVE  /\ c[s] \in s
               /\ Cardinality(s \ {c[s]}) = Cardinality(s) - 1
    <2>1. c[s] \in s
      BY <1>2 DEF IsChoice
    <2> QED
      BY <2>1, FS_Subset, FS_RemoveElement
  <1>3. P(0)
    <2> DEFINE f == [s \in SUBSET S |-> b]
    <2>1. f \in [SUBSET S -> V]
      OBVIOUS
    <2>2. \A s \in SUBSET S : Cardinality(s) <= 0 => Eq(f, s)
      BY <1>1
    <2> QED
      BY <2>1, <2>2
  <1>4. ASSUME NEW n \in Nat, P(n)
        PROVE  P(n + 1)
    <2>1. PICK f \in [SUBSET S -> V] : \A s \in SUBSET S :
                        Cardinality(s) <= n => Eq(f, s)
      BY <1>4
    <2> DEFINE g == [s \in SUBSET S |->
                       IF Cardinality(s) = n + 1
                         THEN G[<<c[s], f[s \ {c[s]}]>>]
                         ELSE f[s]]
    <2>2. g \in [SUBSET S -> V]
      <3>1. \A s \in SUBSET S : Cardinality(s) = n + 1 =>
               <<c[s], f[s \ {c[s]}]>> \in S \X V
        BY <1>1, <1>2
      <3> QED
        BY <3>1
    <2>3. ASSUME NEW s \in SUBSET S, Cardinality(s) <= n + 1
          PROVE  Eq(g, s)
      <3>1. CASE s = {}
        BY <1>1, <2>1, <3>1
      <3>2. CASE s # {}
        <4>1. /\ c[s] \in s /\ s \ {c[s]} \in SUBSET S
              /\ Cardinality(s \ {c[s]}) = Cardinality(s) - 1
              /\ Cardinality(s) \in Nat
          BY <1>1, <1>2, <3>2
        <4>2. g[s \ {c[s]}] = f[s \ {c[s]}]
          BY <2>3, <4>1
        <4>3. CASE Cardinality(s) = n + 1
          BY <3>2, <4>2, <4>3
        <4>4. CASE Cardinality(s) # n + 1
          <5>1. Cardinality(s) <= n
            BY <2>3, <4>1, <4>4
          <5>2. f[s] = G[<<c[s], f[s \ {c[s]}]>>]
            BY <2>1, <3>2, <5>1
          <5> QED
            BY <3>2, <4>2, <4>4, <5>2
        <4> QED
          BY <4>3, <4>4
      <3> QED
        BY <3>1, <3>2
    <2> HIDE DEF g
    <2> QED
      BY <2>2, <2>3
  <1>5. P(Cardinality(S))
    <2> DEFINE Bad == {n \in Nat : ~ P(n)}
    <2> HIDE DEF P
    <2>1. ASSUME Bad # {}
          PROVE  FALSE
      <3>1. PICK m \in Bad : \A n \in Bad : m <= n
        BY <2>1, LeastNumber
      <3>2. m # 0 /\ m \in Nat
        BY <1>3
      <3>3. m - 1 \in Nat /\ P(m - 1)
        BY <3>1, <3>2
      <3>4. P((m - 1) + 1)
        BY <1>4, <3>3
      <3>5. (m - 1) + 1 = m
        BY <3>2
      <3> QED
        BY <3>4, <3>5
    <2> QED
      BY <2>1, FS_CardinalityType
  <1> QED
    BY <1>1, <1>5 DEF FoldsTo

-----------------------------------------------------------------------------
(* Sums over finite sets *)

\* The weights w of the elements of S, as a pile with an item for each unit.
Pile(w, S) == {p \in S \X Nat : 1 <= p[2] /\ p[2] <= w[p[1]]}

\* The sum of w over S is the height of the pile.
Total(w, S) == Cardinality(Pile(w, S))

\* One element has a pile of its weight.
LEMMA PileOfOne ==
    ASSUME NEW w, NEW x, w[x] \in Nat
    PROVE  IsFiniteSet(Pile(w, {x})) /\ Total(w, {x}) = w[x]
  <1> DEFINE n == w[x]
             T == Pile(w, {x})
             f == [i \in 1 .. n |-> <<x, i>>]
  <1>1. T = {p \in {x} \X Nat : 1 <= p[2] /\ p[2] <= n}
    BY DEF Pile
  <1>2. f \in [1 .. n -> T]
    BY <1>1
  <1>3. \A i, j \in 1 .. n : f[i] = f[j] => i = j
    OBVIOUS
  <1>4. ASSUME NEW p \in T
        PROVE  \E i \in 1 .. n : f[i] = p
    <2>1. p = <<x, p[2]>> /\ p[2] \in 1 .. n
      BY <1>1, <1>4
    <2> QED
      BY <2>1
  <1>5. f \in Bijection(1 .. n, T)
    <2> HIDE DEF T, f
    <2> QED
      BY <1>2, <1>3, <1>4
         DEF Bijection, Injection, Surjection, IsInjective
  <1>6. ExistsBijection(1 .. n, T)
    BY <1>5 DEF ExistsBijection
  <1> QED
    BY <1>6, FS_NatBijection, FS_CountingElements DEF Total

\* A new element adds its weight, and the pile of none is empty.
LEMMA PileAdds ==
    ASSUME NEW w, NEW S, NEW x, x \notin S, w[x] \in Nat,
           IsFiniteSet(Pile(w, S))
    PROVE  /\ IsFiniteSet(Pile(w, S \union {x}))
           /\ Total(w, S \union {x}) = w[x] + Total(w, S)
  <1>1. /\ Pile(w, S \union {x}) = Pile(w, S) \union Pile(w, {x})
        /\ Pile(w, S) \intersect Pile(w, {x}) = {}
    BY DEF Pile
  <1>2. IsFiniteSet(Pile(w, {x})) /\ Total(w, {x}) = w[x]
    BY PileOfOne
  <1>3. IsFiniteSet(Pile(w, S) \union Pile(w, {x}))
        /\ Cardinality(Pile(w, S) \union Pile(w, {x}))
             = Total(w, S) + Total(w, {x}) - Cardinality({})
    BY <1>1, <1>2, FS_Union DEF Total
  <1>4. Total(w, S) \in Nat /\ Cardinality({}) = 0
    BY FS_CardinalityType, FS_EmptySet DEF Total
  <1>5. Total(w, S \union {x}) = Cardinality(Pile(w, S) \union Pile(w, {x}))
    BY <1>1 DEF Total
  <1>6. Total(w, S \union {x}) = Total(w, S) + w[x] - 0
    BY <1>2, <1>3, <1>4, <1>5
  <1>7. IsFiniteSet(Pile(w, S \union {x}))
    BY <1>1, <1>3
  <1>8. \A m, n \in Int : m + n - 0 = n + m
    OBVIOUS
  <1>9. Total(w, S \union {x}) = w[x] + Total(w, S)
    BY <1>4, <1>6, <1>8
  <1> QED
    BY <1>7, <1>9

\* h adds the weights of the elements of each subset of S as they are chosen.
AddsUp(h, S, c, w) ==
    \A s \in SUBSET S : h[s] = IF s = {} THEN 0 ELSE w[c[s]] + h[s \ {c[s]}]

\* A fold that adds the weight of each element chosen gives the sum, whatever
\* the order.
LEMMA FoldIsTotal ==
    ASSUME NEW S, IsFiniteSet(S), NEW c, IsChoice(c, S),
           NEW w, \A x \in S : w[x] \in Nat,
           NEW h, AddsUp(h, S, c, w)
    PROVE  \A s \in SUBSET S :
              /\ IsFiniteSet(Pile(w, s))
              /\ Total(w, s) \in Nat
              /\ h[s] = Total(w, s)
  <1> DEFINE T == {s \in SUBSET S : /\ IsFiniteSet(Pile(w, s))
                                    /\ h[s] = Total(w, s)}
  <1>1. {} \in T
    <2>1. Pile(w, {}) = {} /\ h[{}] = 0
      BY DEF Pile, AddsUp
    <2> QED
      BY <2>1, FS_EmptySet DEF Total
  <1>2. ASSUME NEW s \in SUBSET S, s # {}, s \ {c[s]} \in T
        PROVE  s \in T
    <2>1. c[s] \in s /\ w[c[s]] \in Nat
      BY <1>2 DEF IsChoice
    <2>2. s = (s \ {c[s]}) \union {c[s]} /\ c[s] \notin s \ {c[s]}
      BY <2>1
    <2>3. /\ IsFiniteSet(Pile(w, s))
          /\ Total(w, s) = w[c[s]] + Total(w, s \ {c[s]})
      BY <1>2, <2>1, <2>2, PileAdds
    <2>4. h[s] = w[c[s]] + h[s \ {c[s]}]
      BY <1>2 DEF AddsUp
    <2> QED
      BY <1>2, <2>3, <2>4
  <1> HIDE DEF T
  <1>3. SUBSET S \subseteq T
    BY <1>1, <1>2, SetInduction
  <1> QED
    BY <1>3, FS_CardinalityType DEF T, Total

\* What CHOOSE takes, it takes from the set.
AnyOf(S) == [s \in SUBSET S |-> CHOOSE x \in s : TRUE]

LEMMA AnyOfChooses == \A S : IsChoice(AnyOf(S), S)
  BY DEF IsChoice, AnyOf

\* A sum is a number, and what is left out makes it no greater.
LEMMA TotalGrows ==
    ASSUME NEW S, IsFiniteSet(S), NEW w, \A x \in S : w[x] \in Nat
    PROVE  \A s \in SUBSET S : /\ IsFiniteSet(Pile(w, s))
                               /\ Total(w, s) \in Nat
                               /\ Total(w, s) <= Total(w, S)
  <1> DEFINE c == AnyOf(S)
             T == {s \in SUBSET S : IsFiniteSet(Pile(w, s))}
  <1>0. IsChoice(c, S)
    BY AnyOfChooses
  <1> HIDE DEF c
  <1>1. {} \in T
    <2>1. Pile(w, {}) = {}
      BY DEF Pile
    <2> QED
      BY <2>1, FS_EmptySet
  <1>2. ASSUME NEW s \in SUBSET S, s # {}, s \ {c[s]} \in T
        PROVE  s \in T
    <2>1. c[s] \in s /\ w[c[s]] \in Nat
      BY <1>0, <1>2 DEF IsChoice
    <2>2. s = (s \ {c[s]}) \union {c[s]} /\ c[s] \notin s \ {c[s]}
      BY <2>1
    <2>3. IsFiniteSet(Pile(w, s))
      BY <1>2, <2>1, <2>2, PileAdds
    <2> QED
      BY <2>3
  <1> HIDE DEF T
  <1>3. SUBSET S \subseteq T
    BY <1>0, <1>1, <1>2, SetInduction
  <1>4. ASSUME NEW s \in SUBSET S
        PROVE  /\ IsFiniteSet(Pile(w, s))
               /\ Total(w, s) \in Nat
               /\ Total(w, s) <= Total(w, S)
    <2>1. IsFiniteSet(Pile(w, s)) /\ IsFiniteSet(Pile(w, S))
      BY <1>3 DEF T
    <2>2. Pile(w, s) \in SUBSET Pile(w, S)
      BY DEF Pile
    <2> QED
      BY <2>1, <2>2, FS_Subset, FS_CardinalityType DEF Total
  <1> QED
    BY <1>4

\* The sums over two parts of S add up to the sum over S, as their sizes do.
LEMMA SplitAdds ==
    ASSUME NEW S, IsFiniteSet(S), NEW w, \A x \in S : w[x] \in Nat,
           NEW s \in SUBSET S
    PROVE  /\ Cardinality(s) + Cardinality(S \ s) = Cardinality(S)
           /\ Total(w, s) + Total(w, S \ s) = Total(w, S)
  <1>1. IsFiniteSet(s) /\ IsFiniteSet(S \ s)
    BY FS_Subset
  <1>2. IsFiniteSet(Pile(w, s)) /\ IsFiniteSet(Pile(w, S \ s))
    BY TotalGrows
  <1>3. ASSUME NEW A, NEW B, IsFiniteSet(A), IsFiniteSet(B),
               A \intersect B = {}
        PROVE  Cardinality(A) + Cardinality(B) = Cardinality(A \union B)
    <2>1. /\ Cardinality(A \union B) = Cardinality(A) + Cardinality(B)
                                         - Cardinality(A \intersect B)
          /\ Cardinality(A) \in Nat /\ Cardinality(B) \in Nat
          /\ Cardinality(A \intersect B) = 0
      BY <1>3, FS_Union, FS_CardinalityType, FS_EmptySet
    <2> QED
      BY <2>1
  <1>4. /\ s \union (S \ s) = S /\ s \intersect (S \ s) = {}
        /\ Pile(w, s) \union Pile(w, S \ s) = Pile(w, S)
        /\ Pile(w, s) \intersect Pile(w, S \ s) = {}
    BY DEF Pile
  <1>5. Cardinality(s) + Cardinality(S \ s) = Cardinality(s \union (S \ s))
    BY <1>1, <1>3, <1>4
  <1>6. Total(w, s) + Total(w, S \ s)
          = Cardinality(Pile(w, s) \union Pile(w, S \ s))
    BY <1>2, <1>3, <1>4 DEF Total
  <1> QED
    BY <1>4, <1>5, <1>6 DEF Total

\* Weights that agree on S have the same sum.
LEMMA SameTotal ==
    ASSUME NEW S, NEW v, NEW w, \A x \in S : v[x] = w[x]
    PROVE  Total(v, S) = Total(w, S)
  <1>1. Pile(v, S) = Pile(w, S)
    BY DEF Pile
  <1> QED
    BY <1>1 DEF Total

\* The sizes of disjoint sets add up to the size of their union.
LEMMA PartsAdd ==
    ASSUME NEW S, IsFiniteSet(S), NEW A, \A x \in S : IsFiniteSet(A[x]),
           \A x, y \in S : x # y => A[x] \intersect A[y] = {},
           NEW w, \A x \in S : w[x] = Cardinality(A[x])
    PROVE  Total(w, S) = Cardinality(UNION {A[x] : x \in S})
  <1> DEFINE c == AnyOf(S)
             U(s) == UNION {A[x] : x \in s}
             T == {s \in SUBSET S : /\ IsFiniteSet(U(s))
                                    /\ Total(w, s) = Cardinality(U(s))}
  <1>0. IsChoice(c, S) /\ \A x \in S : w[x] \in Nat
    BY AnyOfChooses, FS_CardinalityType
  <1> HIDE DEF c
  <1>1. {} \in T
    <2>1. Pile(w, {}) = {} /\ U({}) = {}
      BY DEF Pile
    <2> QED
      BY <2>1, FS_EmptySet DEF Total
  <1>2. ASSUME NEW s \in SUBSET S, s # {}, s \ {c[s]} \in T
        PROVE  s \in T
    <2> DEFINE r == s \ {c[s]}
    <2>1. c[s] \in s /\ c[s] \in S /\ w[c[s]] \in Nat
      BY <1>0, <1>2 DEF IsChoice
    <2>2. s = r \union {c[s]} /\ c[s] \notin r /\ r \in SUBSET S
      BY <2>1
    <2>3. U(s) = U(r) \union A[c[s]] /\ U(r) \intersect A[c[s]] = {}
      BY <2>1
    <2>4. /\ IsFiniteSet(U(r)) /\ Total(w, r) = Cardinality(U(r))
          /\ IsFiniteSet(A[c[s]]) /\ w[c[s]] = Cardinality(A[c[s]])
      BY <1>2, <2>1
    <2> HIDE DEF U, r
    <2>5. /\ IsFiniteSet(U(s))
          /\ Cardinality(U(s))
               = Cardinality(U(r)) + w[c[s]] - Cardinality({})
      <3>1. /\ IsFiniteSet(U(r) \union A[c[s]])
            /\ Cardinality(U(r) \union A[c[s]])
                 = Cardinality(U(r)) + Cardinality(A[c[s]])
                     - Cardinality(U(r) \intersect A[c[s]])
        BY <2>4, FS_Union
      <3> QED
        BY <2>3, <2>4, <3>1
    <2>6. Cardinality(U(r)) \in Nat /\ Cardinality({}) = 0
      BY <2>4, FS_CardinalityType, FS_EmptySet
    <2>7. IsFiniteSet(Pile(w, r))
      BY <1>0, <2>2, TotalGrows
    <2>8. Total(w, s) = w[c[s]] + Total(w, r)
      BY <2>1, <2>2, <2>7, PileAdds
    <2>9. Total(w, s) = Cardinality(U(s))
      BY <2>1, <2>4, <2>5, <2>6, <2>8
    <2> QED
      BY <2>5, <2>9
  <1> HIDE DEF T
  <1>3. S \in T
    BY <1>0, <1>1, <1>2, SetInduction
  <1> QED
    BY <1>3 DEF T

\* What a function makes of a finite set is finite, and not larger.
LEMMA ImageIsFinite ==
    ASSUME NEW S, IsFiniteSet(S), NEW f
    PROVE  /\ IsFiniteSet({f[x] : x \in S})
           /\ Cardinality({f[x] : x \in S}) <= Cardinality(S)
  <1> DEFINE g == [x \in S |-> f[x]]
             T == {f[x] : x \in S}
  <1>1. g \in Surjection(S, T)
    BY DEF Surjection
  <1> HIDE DEF g, T
  <1>2. IsFiniteSet(T) /\ Cardinality(T) <= Cardinality(S)
    BY <1>1, FS_Surjection
  <1> QED
    BY <1>2 DEF T

\* A fold as MapThenSumSet has it computes the sum.
LEMMA SumFold ==
    ASSUME NEW S, IsFiniteSet(S), NEW w, \A x \in S : w[x] \in Nat
    PROVE  /\ \E f : f = [s \in SUBSET S |->
                            IF s = {} THEN 0
                            ELSE w[CHOOSE x \in s : TRUE]
                                   + f[s \ {CHOOSE x \in s : TRUE}]]
           /\ \A f : f = [s \in SUBSET S |->
                            IF s = {} THEN 0
                            ELSE w[CHOOSE x \in s : TRUE]
                                   + f[s \ {CHOOSE x \in s : TRUE}]]
                => f[S] = Total(w, S)
  <1> DEFINE c == AnyOf(S)
             G == [p \in S \X Nat |-> w[p[1]] + p[2]]
             Step(f) == [s \in SUBSET S |->
                           IF s = {} THEN 0
                           ELSE w[CHOOSE x \in s : TRUE]
                                  + f[s \ {CHOOSE x \in s : TRUE}]]
  <1>0. IsChoice(c, S)
    BY AnyOfChooses
  <1>1. \A s \in SUBSET S : c[s] = CHOOSE x \in s : TRUE
    BY DEF AnyOf
  <1>2. \E f : f = Step(f)
    <2>1. G \in [S \X Nat -> Nat]
      OBVIOUS
    <2>2. PICK f : FoldsTo(f, S, c, Nat, 0, G)
      <3> HIDE DEF G, c
      <3> QED
        BY <1>0, <2>1, FoldExists
    <2>3. ASSUME NEW s \in SUBSET S
          PROVE  f[s] = IF s = {} THEN 0 ELSE w[c[s]] + f[s \ {c[s]}]
      <3>1. s # {} => <<c[s], f[s \ {c[s]}]>> \in S \X Nat
        BY <1>0, <2>2 DEF IsChoice, FoldsTo
      <3> QED
        BY <2>2, <3>1 DEF FoldsTo
    <2>4. f = Step(f)
      BY <1>1, <2>2, <2>3 DEF FoldsTo
    <2> QED
      BY <2>4
  <1>3. ASSUME NEW f, f = Step(f)
        PROVE  f[S] = Total(w, S)
    <2>1. AddsUp(f, S, c, w)
      BY <1>1, <1>3 DEF AddsUp
    <2> HIDE DEF c, G, Step
    <2>2. \A s \in SUBSET S : f[s] = Total(w, s)
      BY <1>0, <2>1, FoldIsTotal
    <2> QED
      BY <2>2
  <1> QED
    BY <1>2, <1>3

\* A fold that counts the elements and adds their weights computes both.
LEMMA TallyFold ==
    ASSUME NEW S, IsFiniteSet(S), NEW w, \A x \in S : w[x] \in Nat
    PROVE  /\ \E f : f = [s \in SUBSET S |->
                IF s = {} THEN [count |-> 0, total |-> 0]
                ELSE [count |-> f[s \ {CHOOSE x \in s : TRUE}].count + 1,
                      total |-> f[s \ {CHOOSE x \in s : TRUE}].total
                                  + w[CHOOSE x \in s : TRUE]]]
           /\ \A f : f = [s \in SUBSET S |->
                IF s = {} THEN [count |-> 0, total |-> 0]
                ELSE [count |-> f[s \ {CHOOSE x \in s : TRUE}].count + 1,
                      total |-> f[s \ {CHOOSE x \in s : TRUE}].total
                                  + w[CHOOSE x \in s : TRUE]]]
                => f[S] = [count |-> Cardinality(S), total |-> Total(w, S)]
  <1> DEFINE c == AnyOf(S)
             tally(s) == [count |-> Cardinality(s), total |-> Total(w, s)]
             g == [s \in SUBSET S |-> tally(s)]
             Step(f) == [s \in SUBSET S |->
                IF s = {} THEN [count |-> 0, total |-> 0]
                ELSE [count |-> f[s \ {CHOOSE x \in s : TRUE}].count + 1,
                      total |-> f[s \ {CHOOSE x \in s : TRUE}].total
                                  + w[CHOOSE x \in s : TRUE]]]
  <1>0. IsChoice(c, S)
    BY AnyOfChooses
  <1>1. \A s \in SUBSET S : c[s] = CHOOSE x \in s : TRUE
    BY DEF AnyOf
  <1>2. tally({}) = [count |-> 0, total |-> 0]
    <2>1. Pile(w, {}) = {}
      BY DEF Pile
    <2> QED
      BY <2>1, FS_EmptySet DEF Total
  <1>3. ASSUME NEW s \in SUBSET S, s # {}
        PROVE  /\ c[s] \in s /\ s \ {c[s]} \in SUBSET S
               /\ tally(s) = [count |-> tally(s \ {c[s]}).count + 1,
                              total |-> tally(s \ {c[s]}).total + w[c[s]]]
    <2> DEFINE r == s \ {c[s]}
    <2>1. /\ c[s] \in s /\ w[c[s]] \in Nat
          /\ r \in SUBSET S /\ c[s] \notin r /\ s = r \union {c[s]}
      BY <1>0, <1>3 DEF IsChoice
    <2> HIDE DEF c, r
    <2>2. IsFiniteSet(s) /\ IsFiniteSet(r) /\ Cardinality(r) \in Nat
      BY <2>1, FS_Subset, FS_CardinalityType
    <2>3. Cardinality(s) = Cardinality(r) + 1
      BY <2>1, <2>2, FS_AddElement
    <2>4. IsFiniteSet(Pile(w, r)) /\ Total(w, r) \in Nat
      BY <2>1, TotalGrows
    <2>5. Total(w, s) = w[c[s]] + Total(w, r)
      BY <2>1, <2>4, PileAdds
    <2>6. Total(w, s) = Total(w, r) + w[c[s]]
      BY <2>1, <2>4, <2>5
    <2>7. tally(s) = [count |-> tally(r).count + 1,
                      total |-> tally(r).total + w[c[s]]]
      BY <2>3, <2>6
    <2> QED
      BY <2>1, <2>7 DEF r
  <1>4. g = Step(g)
    <2> HIDE DEF c, tally
    <2> QED
      BY <1>1, <1>2, <1>3
  <1>5. ASSUME NEW f, f = Step(f)
        PROVE  f[S] = tally(S)
    <2> DEFINE T == {s \in SUBSET S : f[s] = tally(s)}
    <2>1. {} \in T
      BY <1>2, <1>5
    <2>2. ASSUME NEW s \in SUBSET S, s # {}, s \ {c[s]} \in T
          PROVE  s \in T
      <3>1. f[s] = [count |-> f[s \ {c[s]}].count + 1,
                    total |-> f[s \ {c[s]}].total + w[c[s]]]
        <4> HIDE DEF c, tally
        <4> QED
          BY <1>1, <1>5, <2>2
      <3> HIDE DEF c, tally
      <3> QED
        BY <1>3, <2>2, <3>1
    <2> HIDE DEF T, c
    <2>3. SUBSET S \subseteq T
      BY <1>0, <2>1, <2>2, SetInduction
    <2> QED
      BY <2>3 DEF T
  <1> QED
    BY <1>4, <1>5

-----------------------------------------------------------------------------
(* Folds over sequences *)

\* The positions of a sequence are taken from the last one.
LastOf(n) == [s \in SUBSET (1 .. n) |-> Max(s)]

LEMMA LastOfChooses ==
    ASSUME NEW n \in Nat
    PROVE  /\ IsChoice(LastOf(n), 1 .. n)
           /\ \A s \in SUBSET (1 .. n) : s # {} =>
                 Max(s) \in s /\ \A x \in s : x <= Max(s)
  <1>1. ASSUME NEW s \in SUBSET (1 .. n), s # {}
        PROVE  Max(s) \in s /\ \A x \in s : x <= Max(s)
    <2> DEFINE T == {n - x : x \in s}
    <2>1. T \in SUBSET Nat /\ T # {}
      BY <1>1
    <2>2. PICK m \in T : \A k \in T : m <= k
      BY <2>1, LeastNumber
    <2>3. PICK x \in s : m = n - x
      BY <2>2
    <2>4. \A y \in s : x >= y
      <3> SUFFICES ASSUME NEW y \in s
                   PROVE  x >= y
        OBVIOUS
      <3>1. n - y \in T
        OBVIOUS
      <3>2. n - x <= n - y
        BY <2>2, <2>3, <3>1
      <3> QED
        BY <3>2
    <2>5. Max(s) \in s /\ \A y \in s : Max(s) >= y
      BY <2>4 DEF Max
    <2> QED
      BY <2>5
  <1> QED
    BY <1>1 DEF IsChoice, LastOf

\* f is the fold of G over the elements of q from the left, from b.
LeftFold(f, q, b, G) ==
    f = [s \in SUBSET DOMAIN q |->
           IF s = {} THEN b ELSE G[<<f[s \ {Max(s)}], q[Max(s)]>>]]

\* There is one for every sequence.
LEMMA LeftFoldExists ==
    ASSUME NEW M, NEW q \in Seq(M), NEW V, NEW b \in V,
           NEW G \in [V \X M -> V]
    PROVE  \E f \in [SUBSET DOMAIN q -> V] : LeftFold(f, q, b, G)
  <1> DEFINE n == Len(q)
             c == LastOf(n)
             H == [p \in (1 .. n) \X V |-> G[<<p[2], q[p[1]]>>]]
  <1>1. n \in Nat /\ DOMAIN q = 1 .. n /\ \A i \in 1 .. n : q[i] \in M
    OBVIOUS
  <1>2. IsFiniteSet(1 .. n) /\ IsChoice(c, 1 .. n)
    BY <1>1, FS_Interval, LastOfChooses
  <1>3. \A s \in SUBSET (1 .. n) : c[s] = Max(s)
    BY DEF LastOf
  <1>4. H \in [(1 .. n) \X V -> V]
    BY <1>1
  <1>5. PICK f : FoldsTo(f, 1 .. n, c, V, b, H)
    <2> HIDE DEF c, H, n
    <2> QED
      BY <1>2, <1>4, FoldExists
  <1>6. ASSUME NEW s \in SUBSET (1 .. n), s # {}
        PROVE  f[s] = G[<<f[s \ {Max(s)}], q[Max(s)]>>]
    <2>1. /\ c[s] = Max(s) /\ Max(s) \in 1 .. n
          /\ f[s \ {Max(s)}] \in V
      BY <1>2, <1>3, <1>5, <1>6 DEF IsChoice, FoldsTo
    <2>2. f[s] = H[<<Max(s), f[s \ {Max(s)}]>>]
      BY <1>5, <1>6, <2>1 DEF FoldsTo
    <2> QED
      BY <2>1, <2>2
  <1>7. f \in [SUBSET (1 .. n) -> V] /\ f[{}] = b
    BY <1>5 DEF FoldsTo
  <1>8. LeftFold(f, q, b, G)
    <2> HIDE DEF n, c, H
    <2> QED
      BY <1>1, <1>6, <1>7 DEF LeftFold
  <1> QED
    BY <1>1, <1>7, <1>8

\* Two sequences that agree on the positions of the shorter one have folds
\* that agree there.
LEMMA LeftFoldsAgree ==
    ASSUME NEW M, NEW q \in Seq(M), NEW r \in Seq(M), Len(q) <= Len(r),
           \A i \in 1 .. Len(q) : r[i] = q[i],
           NEW b, NEW G, NEW f, LeftFold(f, q, b, G),
           NEW g, LeftFold(g, r, b, G)
    PROVE  g[DOMAIN q] = f[DOMAIN q]
  <1> DEFINE n == Len(q)
             S == 1 .. n
             c == LastOf(n)
             T == {s \in SUBSET S : g[s] = f[s]}
  <1>1. /\ n \in Nat /\ DOMAIN q = S
        /\ SUBSET S \subseteq SUBSET DOMAIN r
    OBVIOUS
  <1>2. IsFiniteSet(S) /\ IsChoice(c, S)
    BY <1>1, FS_Interval, LastOfChooses
  <1>3. {} \in T
    BY <1>1 DEF LeftFold
  <1>4. ASSUME NEW s \in SUBSET S, s # {}, s \ {c[s]} \in T
        PROVE  s \in T
    <2>1. c[s] = Max(s) /\ Max(s) \in S
      BY <1>1, <1>4, LastOfChooses DEF LastOf
    <2>2. /\ g[s] = G[<<g[s \ {Max(s)}], r[Max(s)]>>]
          /\ f[s] = G[<<f[s \ {Max(s)}], q[Max(s)]>>]
      BY <1>1, <1>4 DEF LeftFold
    <2> QED
      BY <1>4, <2>1, <2>2
  <1> HIDE DEF T, S, c
  <1>5. SUBSET S \subseteq T
    BY <1>2, <1>3, <1>4, SetInduction
  <1> QED
    BY <1>1, <1>5 DEF T, S

\* One more element is one more step.
LEMMA LeftFoldAppends ==
    ASSUME NEW M, NEW q \in Seq(M), NEW m \in M, NEW b, NEW G,
           NEW f, LeftFold(f, q, b, G),
           NEW g, LeftFold(g, Append(q, m), b, G)
    PROVE  g[DOMAIN Append(q, m)] = G[<<f[DOMAIN q], m>>]
  <1> DEFINE n == Len(q)
             r == Append(q, m)
             D == 1 .. n + 1
  <1>1. /\ n \in Nat /\ DOMAIN q = 1 .. n /\ DOMAIN r = D
        /\ r \in Seq(M) /\ Len(r) = n + 1
        /\ \A i \in 1 .. n : r[i] = q[i]
        /\ r[n + 1] = m
    BY AppendMeans
  <1>2. Max(D) = n + 1
    <2>1. \A k \in Nat : 1 .. k # {} =>
             Max(1 .. k) \in 1 .. k /\ \A x \in 1 .. k : x <= Max(1 .. k)
      BY LastOfChooses
    <2>2. n + 1 \in Nat /\ n + 1 \in D
      <3>1. \A k \in Nat : k + 1 \in Nat /\ k + 1 \in 1 .. k + 1
        OBVIOUS
      <3> QED
        BY <1>1, <3>1
    <2>3. Max(D) \in D /\ \A x \in D : x <= Max(D)
      <3>1. D # {}
        BY <2>2
      <3> QED
        BY <2>1, <2>2, <3>1
    <2> QED
      BY <1>1, <2>2, <2>3
  <1>3. D # {} /\ D \ {n + 1} = 1 .. n
    BY <1>1
  <1>6. LeftFold(g, r, b, G) /\ \A i \in 1 .. Len(q) : r[i] = q[i]
    BY <1>1
  <1>7. Len(q) <= Len(r)
    BY <1>1
  <1> HIDE DEF r, D, n
  <1>4. g[D] = G[<<g[D \ {Max(D)}], r[Max(D)]>>]
    BY <1>1, <1>3 DEF LeftFold, r
  <1>5. g[DOMAIN q] = f[DOMAIN q]
    BY <1>1, <1>6, <1>7, LeftFoldsAgree
  <1> QED
    BY <1>1, <1>2, <1>3, <1>4, <1>5 DEF r
=============================================================================
