-------------------------- MODULE ConsensusPool_proofs --------------------------
(***************************************************************************)
(* Proofs about the pool's methods, for any pending list and any batch:    *)
(* what a proposal holds, in which order, and what is left of one; and     *)
(* about the execution of one: what is left waits for an ancestor.         *)
(***************************************************************************)
EXTENDS ConsensusPool, Executor, FiniteSetTheorems, SequenceTheorems, WellFoundedInduction,
        TLAPS

-----------------------------------------------------------------------------
(* Numbers.                                                                *)

\* A non-empty set of numbers has a least element.
LEMMA LeastOf ==
    ASSUME NEW S \in SUBSET Nat, S # {}
    PROVE  Min(S) \in S /\ \A x \in S : Min(S) <= x
<1>1. PICK x \in S : \A y \in S : <<y, x>> \notin OpToRel(<, Nat)
  BY NatLessThanWellFounded, WFMin
<1>2. \A y \in S : ~(y < x)
  BY <1>1, Zenon DEF OpToRel
<1>4. \A y \in S : x <= y
  BY <1>2
<1>3. Min(S) = CHOOSE z \in S : \A y \in S : z <= y
  BY DEF Min
<1> QED BY <1>4, <1>3

\* What holds of a, and of each number up to n if of the one before it, holds of n.
LEMMA UpTo ==
    ASSUME NEW G, NEW a \in Nat, NEW n \in Nat, a <= n,
           a \in G, \A m \in (a + 1)..n : m - 1 \in G => m \in G
    PROVE  n \in G
<1> DEFINE Bad == {m \in a..n : m \notin G}
           m == Min(Bad)
<1> SUFFICES ASSUME n \notin G PROVE FALSE
  OBVIOUS
<1>1. Bad # {} /\ Bad \in SUBSET Nat
  OBVIOUS
<1>2. m \in Bad /\ \A x \in Bad : m <= x
  BY <1>1, LeastOf
<1> HIDE DEF m
<1>3. m # a /\ m \in (a + 1)..n
  BY <1>2
<1>4. m - 1 \in G
  BY <1>2, <1>3
<1> QED BY <1>2, <1>3, <1>4

-----------------------------------------------------------------------------
(* Flattening.                                                             *)

\* f is the list of partial flattenings of the first n lists.
Flattens(f, ss, n) ==
    f = [i \in 1..n |-> IF i = 1 THEN ss[i] ELSE f[i - 1] \o ss[i]]

\* The recursive function that FlattenSeq is written with exists.
LEMMA FlatteningExists ==
    ASSUME NEW ss, NEW n \in Nat
    PROVE  \E f : Flattens(f, ss, n)
<1> DEFINE Bad == {m \in Nat : ~ \E f : Flattens(f, ss, m)}
           m == Min(Bad)
<1> SUFFICES ASSUME Bad # {} PROVE FALSE
  OBVIOUS
<1>1. m \in Nat /\ m \in Bad /\ \A x \in Bad : m <= x
  BY LeastOf
<1> HIDE DEF m
<1>2. CASE m = 0
  <2>1. Flattens([i \in 1..0 |-> ss[i]], ss, 0)
    BY DEF Flattens
  <2> QED BY <1>1, <1>2, <2>1
<1>3. CASE m # 0
  <2>1. m - 1 \in Nat /\ m - 1 \notin Bad
    BY <1>1, <1>3
  <2>2. PICK f : Flattens(f, ss, m - 1)
    BY <2>1
  <2> DEFINE g == [i \in 1..m |-> IF i = 1 THEN ss[i] ELSE f[i - 1] \o ss[i]]
  <2>3. \A i \in 1..(m - 1) : f[i] = IF i = 1 THEN ss[i] ELSE f[i - 1] \o ss[i]
    BY <2>2, Zenon DEF Flattens
  <2>4. \A i \in 1..(m - 1) : g[i] = f[i]
    BY <1>1, <2>3
  <2>5. \A i \in 1..m : i # 1 => i - 1 \in 1..(m - 1)
    BY <1>1
  <2>6. g = [i \in 1..m |-> IF i = 1 THEN ss[i] ELSE g[i - 1] \o ss[i]]
    BY <2>4, <2>5
  <2>7. Flattens(g, ss, m)
    BY <2>6, Zenon DEF Flattens
  <2> QED BY <1>1, <2>7
<1> QED BY <1>2, <1>3

\* What FlattenSeq gives is the last of the partial flattenings.
LEMMA Flattening ==
    ASSUME NEW ss, Len(ss) \in Nat, Len(ss) # 0
    PROVE  \E f : Flattens(f, ss, Len(ss)) /\ FlattenSeq(ss) = f[Len(ss)]
<1> DEFINE f == CHOOSE f : Flattens(f, ss, Len(ss))
<1>1. Flattens(f, ss, Len(ss))
  BY FlatteningExists
<1>2. FlattenSeq(ss) = f[Len(ss)]
  BY DEF FlattenSeq, Flattens
<1> QED BY <1>1, <1>2

\* A list, given by its elements.
LEMMA ListOf ==
    ASSUME NEW S, NEW n \in Nat, NEW f, f = [i \in 1..n |-> f[i]], \A i \in 1..n : f[i] \in S
    PROVE  f \in Seq(S) /\ Len(f) = n
<1>1. f \in [1..n -> S]
  OBVIOUS
<1>2. Seq(S) = UNION {[1..m -> S] : m \in Nat}
  BY SeqDef
<1>3. [1..n -> S] \in {[1..m -> S] : m \in Nat}
  OBVIOUS
<1>4. f \in Seq(S)
  BY <1>1, <1>2, <1>3
<1> QED BY <1>1, <1>4

\* A flattening is a list, of the elements of the lists it is made of.
LEMMA FlatIsSeq ==
    ASSUME NEW S, NEW ss \in Seq(Seq(S))
    PROVE  /\ FlattenSeq(ss) \in Seq(S)
           /\ Range(FlattenSeq(ss)) = UNION {Range(ss[i]) : i \in 1..Len(ss)}
<1>1. Len(ss) \in Nat /\ \A i \in 1..Len(ss) : ss[i] \in Seq(S)
  BY LenProperties, ElementOfSeq
<1>2. CASE Len(ss) = 0
  <2>1. FlattenSeq(ss) = << >>
    BY <1>2, EmptySeq DEF FlattenSeq
  <2>2. Range(<< >>) = {} /\ 1..Len(ss) = {} /\ << >> \in Seq(S)
    BY <1>2 DEF Range
  <2> QED BY <2>1, <2>2
<1>3. CASE Len(ss) # 0
  <2>1. PICK f : Flattens(f, ss, Len(ss)) /\ FlattenSeq(ss) = f[Len(ss)]
    BY <1>1, <1>3, Flattening
  <2> DEFINE G == {m \in 1..Len(ss) : /\ f[m] \in Seq(S)
                                      /\ Range(f[m]) = UNION {Range(ss[i]) : i \in 1..m}}
  <2>2. \A m \in 1..Len(ss) : f[m] = IF m = 1 THEN ss[m] ELSE f[m - 1] \o ss[m]
    BY <2>1, Zenon DEF Flattens
  <2>3. 1 \in G
    <3>1. f[1] = ss[1] /\ 1..1 = {1} /\ 1 \in 1..Len(ss)
      BY <1>1, <1>3, <2>2
    <3> QED BY <1>1, <3>1
  <2>4. ASSUME NEW m \in (1 + 1)..Len(ss), m - 1 \in G PROVE m \in G
    <3>1. m \in 1..Len(ss) /\ m # 1 /\ 1..m = 1..(m - 1) \cup {m}
      BY <1>1
    <3>2. PICK u \in Seq(S), v \in Seq(S) : u = f[m - 1] /\ v = ss[m]
      BY <1>1, <2>4, <3>1
    <3>3. u \o v \in Seq(S) /\ Range(u \o v) = Range(u) \cup Range(v)
      BY ConcatProperties, RangeConcatenation
    <3>4. f[m] = u \o v
      BY <2>2, <3>1, <3>2
    <3> QED BY <2>4, <3>1, <3>2, <3>3, <3>4
  <2> HIDE DEF G
  <2>5. Len(ss) \in G
    BY <1>1, <1>3, <2>3, <2>4, UpTo
  <2> QED BY <2>1, <2>5 DEF G
<1> QED BY <1>2, <1>3

\* e gives the place of each element of s among the first n lists, none of
\* which has more than one element.
Places(e, ss, n, s) ==
    /\ e \in [1..Len(s) -> 1..n]
    /\ \A k \in 1..Len(s) : ss[e[k]] = <<s[k]>>
    /\ \A k, l \in 1..Len(s) : k < l => e[k] < e[l]
    /\ \A i \in 1..n : ss[i] # << >> => \E k \in 1..Len(s) : e[k] = i

\* A list of at most one element is empty or has one.
LEMMA AtMostOne ==
    ASSUME NEW S, NEW u \in Seq(S), Len(u) <= 1
    PROVE  u = << >> \/ \E x \in S : u = <<x>>
<1>1. Len(u) = 0 \/ Len(u) = 1
  BY LenProperties
<1>2. CASE Len(u) = 0
  BY <1>2, EmptySeq
<1>3. CASE Len(u) = 1
  <2>1. u[1] \in S
    <3>1. \A i \in 1..Len(u) : u[i] \in S
      BY ElementOfSeq
    <3>2. 1 \in 1..Len(u)
      BY <1>3
    <3> QED BY <3>1, <3>2
  <2>2. u = <<u[1]>>
    BY <1>3, <2>1, SeqEqual
  <2> QED BY <2>1, <2>2
<1> QED BY <1>1, <1>2, <1>3

\* An empty list takes no place ...
LEMMA PlacesSkip ==
    ASSUME NEW ss, NEW n \in Nat \ {0}, NEW s, NEW e,
           Places(e, ss, n - 1, s), ss[n] = << >>
    PROVE  Places(e, ss, n, s)
<1>1. 1..(n - 1) \subseteq 1..n /\ \A i \in 1..n : i # n => i \in 1..(n - 1)
  OBVIOUS
<1>2. e \in [1..Len(s) -> 1..n]
  BY <1>1 DEF Places
<1>3. \A i \in 1..n : ss[i] # << >> => \E k \in 1..Len(s) : e[k] = i
  BY <1>1 DEF Places
<1> QED BY <1>2, <1>3 DEF Places

\* ... and a list of one element the next one.
LEMMA PlacesAppend ==
    ASSUME NEW S, NEW ss, NEW n \in Nat \ {0}, NEW s \in Seq(S), NEW e,
           Places(e, ss, n - 1, s), NEW x \in S, ss[n] = <<x>>
    PROVE  \E d : Places(d, ss, n, Append(s, x))
<1> DEFINE t == Append(s, x)
           d == [k \in 1..(Len(s) + 1) |-> IF k <= Len(s) THEN e[k] ELSE n]
<1>1. /\ Len(t) = Len(s) + 1
      /\ t[Len(s) + 1] = x
      /\ \A k \in 1..Len(s) : t[k] = s[k]
      /\ Len(s) \in Nat
  BY AppendProperties, LenProperties
<1> HIDE DEF t
<1>2. \A k \in 1..Len(t) :
         (k \in 1..Len(s) /\ d[k] = e[k]) \/ (k = Len(s) + 1 /\ d[k] = n)
  BY <1>1
<1>3. \A k \in 1..Len(s) : k \in 1..Len(t) /\ d[k] = e[k]
  BY <1>1
<1>4. Len(s) + 1 \in 1..Len(t) /\ d[Len(s) + 1] = n
  BY <1>1
<1>5. DOMAIN d = 1..Len(t) /\ d = [k \in 1..Len(t) |-> d[k]]
  BY <1>1
<1> HIDE DEF d
<1>6. \A k \in 1..Len(s) : e[k] \in 1..(n - 1) /\ e[k] \in 1..n /\ e[k] < n
  BY DEF Places
<1>7. d \in [1..Len(t) -> 1..n]
  BY <1>2, <1>5, <1>6
<1>8. \A k \in 1..Len(t) : ss[d[k]] = <<t[k]>>
  BY <1>1, <1>2 DEF Places
<1>9. ASSUME NEW k \in 1..Len(t), NEW l \in 1..Len(t), k < l PROVE d[k] < d[l]
  <2>1. k \in 1..Len(s) /\ d[k] = e[k]
    BY <1>1, <1>2, <1>9
  <2>2. CASE l \in 1..Len(s) /\ d[l] = e[l]
    BY <1>9, <2>1, <2>2 DEF Places
  <2>3. CASE d[l] = n
    BY <1>6, <2>1, <2>3
  <2> QED BY <1>2, <2>2, <2>3
<1>10. ASSUME NEW i \in 1..n, ss[i] # << >>
       PROVE  \E k \in 1..Len(t) : d[k] = i
  <2>1. CASE i = n
    BY <1>4, <2>1
  <2>2. CASE i # n
    <3>1. i \in 1..(n - 1)
      BY <2>2
    <3>2. PICK k \in 1..Len(s) : e[k] = i
      BY <1>10, <3>1 DEF Places
    <3> QED BY <1>3, <3>2
  <2> QED BY <2>1, <2>2
<1>11. Places(d, ss, n, t)
  BY <1>7, <1>8, <1>9, <1>10 DEF Places
<1> QED BY <1>11 DEF t

LEMMA PlacesStep ==
    ASSUME NEW S, NEW ss, NEW n \in Nat \ {0}, NEW s \in Seq(S), NEW e,
           Places(e, ss, n - 1, s), ss[n] \in Seq(S), Len(ss[n]) <= 1
    PROVE  \E d : Places(d, ss, n, s \o ss[n])
<1>1. PICK u \in Seq(S) : u = ss[n]
  OBVIOUS
<1>2. CASE u = << >>
  <2>1. Places(e, ss, n, s)
    BY <1>1, <1>2, PlacesSkip
  <2>2. s \o << >> = s
    BY ConcatEmptySeq
  <2> QED BY <1>1, <1>2, <2>1, <2>2
<1>3. CASE \E x \in S : u = <<x>>
  <2>1. PICK x \in S : u = <<x>>
    BY <1>3
  <2>2. \E d : Places(d, ss, n, Append(s, x))
    BY <1>1, <2>1, PlacesAppend
  <2>3. s \o <<x>> = Append(s, x)
    BY AppendIsConcat
  <2> QED BY <1>1, <2>1, <2>2, <2>3
<1> QED BY <1>1, <1>2, <1>3, AtMostOne

\* The flattening of lists of at most one element keeps their order.
LEMMA FlatInPlace ==
    ASSUME NEW S, NEW ss \in Seq(Seq(S)), \A i \in 1..Len(ss) : Len(ss[i]) <= 1
    PROVE  \E e : Places(e, ss, Len(ss), FlattenSeq(ss))
<1>1. Len(ss) \in Nat /\ \A i \in 1..Len(ss) : ss[i] \in Seq(S)
  BY LenProperties, ElementOfSeq
<1>2. \E e : Places(e, ss, 0, << >>)
  <2>1. Places([k \in 1..0 |-> 0], ss, 0, << >>)
    BY DEF Places
  <2> QED BY <2>1
<1>3. CASE Len(ss) = 0
  <2>1. FlattenSeq(ss) = << >>
    BY <1>3, EmptySeq DEF FlattenSeq
  <2> QED BY <1>2, <1>3, <2>1
<1>4. CASE Len(ss) # 0
  <2>1. PICK f : Flattens(f, ss, Len(ss)) /\ FlattenSeq(ss) = f[Len(ss)]
    BY <1>1, <1>4, Flattening
  <2> DEFINE G == {m \in 1..Len(ss) :
                     f[m] \in Seq(S) /\ \E e : Places(e, ss, m, f[m])}
  <2>2. \A m \in 1..Len(ss) : f[m] = IF m = 1 THEN ss[m] ELSE f[m - 1] \o ss[m]
    BY <2>1, Zenon DEF Flattens
  <2>3. 1 \in G
    <3>1. f[1] = ss[1] /\ 1 \in 1..Len(ss)
      BY <1>1, <1>4, <2>2
    <3>2. PICK e : Places(e, ss, 1 - 1, << >>)
      BY <1>2
    <3>3. PICK u \in Seq(S) : u = ss[1]
      BY <1>1, <3>1
    <3>4. << >> \o u = u /\ << >> \in Seq(S) /\ Len(u) <= 1 /\ 1 \in Nat \ {0}
      BY <1>1, <3>1, <3>3, ConcatEmptySeq
    <3> HIDE DEF G
    <3>5. \E d : Places(d, ss, 1, << >> \o u)
      BY <3>2, <3>3, <3>4, PlacesStep
    <3> QED BY <1>1, <3>1, <3>3, <3>4, <3>5 DEF G
  <2>4. ASSUME NEW m \in (1 + 1)..Len(ss), m - 1 \in G PROVE m \in G
    <3>1. m \in 1..Len(ss) /\ m # 1 /\ m \in Nat \ {0}
      BY <1>1
    <3>2. PICK u \in Seq(S), v \in Seq(S) : u = f[m - 1] /\ v = ss[m]
      BY <1>1, <2>4, <3>1
    <3>3. PICK e : Places(e, ss, m - 1, u)
      BY <2>4, <3>2
    <3>4. Len(v) <= 1 /\ f[m] = u \o v
      BY <2>2, <3>1, <3>2
    <3> HIDE DEF G
    <3>5. \E d : Places(d, ss, m, u \o v)
      BY <3>1, <3>2, <3>3, <3>4, PlacesStep
    <3>6. u \o v \in Seq(S)
      BY ConcatProperties
    <3> QED BY <3>1, <3>4, <3>5, <3>6 DEF G
  <2> HIDE DEF G
  <2>5. Len(ss) \in G
    BY <1>1, <1>4, <2>3, <2>4, UpTo
  <2> QED BY <2>1, <2>5 DEF G
<1> QED BY <1>3, <1>4

\* The partial flattenings, from none of the lists to all of them.
LEMMA FlatSteps ==
    ASSUME NEW S, NEW ss \in Seq(Seq(S))
    PROVE  \E f : /\ f[0] = << >> /\ f[Len(ss)] = FlattenSeq(ss)
                  /\ \A m \in 0..Len(ss) : f[m] \in Seq(S)
                  /\ \A m \in 1..Len(ss) : f[m] = f[m - 1] \o ss[m]
<1>1. Len(ss) \in Nat /\ \A i \in 1..Len(ss) : ss[i] \in Seq(S)
  BY LenProperties, ElementOfSeq
<1>2. CASE Len(ss) = 0
  <2> DEFINE f == [m \in {0} |-> << >>]
  <2>1. FlattenSeq(ss) = << >>
    BY <1>2, EmptySeq DEF FlattenSeq
  <2>2. f[0] = << >> /\ f[0] \in Seq(S) /\ 0..Len(ss) = {0} /\ 1..Len(ss) = {}
    BY <1>2
  <2> QED BY <1>2, <2>1, <2>2
<1>3. CASE Len(ss) # 0
  <2>1. PICK f : Flattens(f, ss, Len(ss)) /\ FlattenSeq(ss) = f[Len(ss)]
    BY <1>1, <1>3, Flattening
  <2>2. \A m \in 1..Len(ss) : f[m] = IF m = 1 THEN ss[m] ELSE f[m - 1] \o ss[m]
    BY <2>1, Zenon DEF Flattens
  <2> DEFINE g == [m \in 0..Len(ss) |-> IF m = 0 THEN << >> ELSE f[m]]
             G == {m \in 0..Len(ss) : g[m] \in Seq(S) /\ (m # 0 => g[m] = g[m - 1] \o ss[m])}
  <2>3. 0 \in 0..Len(ss) /\ g[0] = << >>
    BY <1>1
  <2>4. \A m \in 1..Len(ss) : m \in 0..Len(ss) /\ m # 0 /\ g[m] = f[m]
    BY <1>1
  <2> HIDE DEF g
  <2>5. 0 \in G
    <3>1. << >> \in Seq(S)
      OBVIOUS
    <3> QED BY <2>3, <3>1
  <2>6. ASSUME NEW m \in (0 + 1)..Len(ss), m - 1 \in G PROVE m \in G
    <3>1. PICK u \in Seq(S), v \in Seq(S) : u = g[m - 1] /\ v = ss[m]
      BY <1>1, <2>6
    <3>2. g[m] = u \o v
      <4>1. CASE m = 1
        <5>1. g[m] = v /\ u = << >>
          BY <1>1, <2>2, <2>3, <2>4, <3>1, <4>1
        <5> QED BY <5>1, ConcatEmptySeq
      <4>2. CASE m # 1
        <5>1. m \in 1..Len(ss) /\ m - 1 \in 1..Len(ss)
          BY <1>1, <4>2
        <5>2. g[m] = f[m] /\ g[m - 1] = f[m - 1] /\ f[m] = f[m - 1] \o ss[m]
          BY <2>2, <2>4, <4>2, <5>1
        <5> QED BY <3>1, <5>2
      <4> QED BY <4>1, <4>2
    <3>3. u \o v \in Seq(S)
      BY ConcatProperties
    <3>4. m \in 0..Len(ss)
      BY <1>1
    <3> QED BY <3>1, <3>2, <3>3, <3>4
  <2> HIDE DEF G
  <2>7. ASSUME NEW m \in 0..Len(ss) PROVE m \in G
    <3>1. \A k \in (0 + 1)..m : k - 1 \in G => k \in G
      BY <1>1, <2>6
    <3> QED BY <2>5, <3>1, UpTo
  <2>8. \A m \in 0..Len(ss) : g[m] \in Seq(S) /\ (m # 0 => g[m] = g[m - 1] \o ss[m])
    BY <2>7 DEF G
  <2>9. Len(ss) \in 1..Len(ss) /\ g[Len(ss)] = FlattenSeq(ss)
    BY <1>1, <1>3, <2>1, <2>4
  <2> QED BY <2>3, <2>4, <2>8, <2>9
<1> QED BY <1>2, <1>3

-----------------------------------------------------------------------------
(* Ranks.                                                                  *)

\* Those of S that lie below x, and how many they are.
Below(S, x) == {y \in S : y < x}
Rank(S, x) == Cardinality(Below(S, x))

LEMMA InBelow ==
    ASSUME NEW S \in SUBSET Nat, NEW x \in Nat
    PROVE  \A y : y \in Below(S, x) <=> y \in S /\ y \in Nat /\ y < x
BY DEF Below

LEMMA RankType ==
    ASSUME NEW S \in SUBSET Nat, IsFiniteSet(S), NEW x
    PROVE  /\ Below(S, x) \in SUBSET S
           /\ IsFiniteSet(Below(S, x))
           /\ Rank(S, x) \in Nat
<1>1. Below(S, x) \in SUBSET S
  BY DEF Below
<1>2. IsFiniteSet(Below(S, x))
  BY <1>1, FS_Subset
<1> QED BY <1>1, <1>2, FS_CardinalityType DEF Rank

\* A part of a finite set that leaves out an element is smaller.
LEMMA SmallerPart ==
    ASSUME NEW T, IsFiniteSet(T), NEW U \in SUBSET T, NEW x \in T, x \notin U
    PROVE  Cardinality(U) < Cardinality(T)
<1>1. IsFiniteSet(U) /\ Cardinality(U) <= Cardinality(T)
  BY FS_Subset
<1>2. Cardinality(T) = Cardinality(U) => T = U
  BY FS_Subset
<1>3. T # U
  OBVIOUS
<1>4. Cardinality(U) \in Nat /\ Cardinality(T) \in Nat
  BY <1>1, FS_CardinalityType
<1> QED BY <1>1, <1>2, <1>3, <1>4

\* Ranks are in the order of the elements, below their number.
LEMMA RankOrder ==
    ASSUME NEW S \in SUBSET Nat, IsFiniteSet(S), NEW x \in S
    PROVE  /\ \A y \in S : x < y => Rank(S, x) < Rank(S, y)
           /\ Rank(S, x) < Cardinality(S)
<1>1. \A y \in S : y \in Nat
  OBVIOUS
<1>2. x \notin Below(S, x) /\ Below(S, x) \in SUBSET S
  BY <1>1 DEF Below
<1>3. ASSUME NEW y \in S, x < y PROVE Rank(S, x) < Rank(S, y)
  <2>1. x \in Below(S, y) /\ Below(S, x) \in SUBSET Below(S, y)
    <3>1. x \in Nat /\ y \in Nat
      BY <1>1
    <3>2. ASSUME NEW z \in Below(S, x) PROVE z \in Below(S, y)
      <4>1. z \in S /\ z \in Nat /\ z < x
        BY <3>1, InBelow
      <4>2. z < y
        BY <1>3, <3>1, <4>1
      <4> QED BY <3>1, <4>1, <4>2, InBelow
    <3> QED BY <1>3, <3>1, <3>2, InBelow
  <2>2. IsFiniteSet(Below(S, y))
    BY RankType
  <2> QED BY <1>2, <2>1, <2>2, SmallerPart DEF Rank
<1>4. Rank(S, x) < Cardinality(S)
  BY <1>2, SmallerPart DEF Rank
<1> QED BY <1>3, <1>4

\* The least one has rank 0, and the next one after x the next rank.
LEMMA RankOfLeast ==
    ASSUME NEW S \in SUBSET Nat, S # {}
    PROVE  Min(S) \in S /\ Rank(S, Min(S)) = 0
<1>1. PICK m \in S : m = Min(S) /\ \A y \in S : m <= y
  BY LeastOf
<1>2. \A y \in S : y \in Nat
  OBVIOUS
<1>3. m \in Nat /\ \A y \in S : ~(y < m)
  BY <1>1, <1>2
<1>4. Below(S, m) = {}
  BY <1>3, InBelow
<1> QED BY <1>1, <1>4, FS_EmptySet DEF Rank

LEMMA RankOfNext ==
    ASSUME NEW S \in SUBSET Nat, IsFiniteSet(S), NEW x \in S,
           Rank(S, x) + 1 < Cardinality(S)
    PROVE  \E y \in S : Rank(S, y) = Rank(S, x) + 1
<1> DEFINE above == {y \in S : x < y}
<1>1. \A y \in S : y \in Nat
  OBVIOUS
<1>2. Below(S, x) \in SUBSET S /\ IsFiniteSet(Below(S, x)) /\ x \notin Below(S, x)
  BY <1>1, RankType DEF Below
<1>3. Cardinality(Below(S, x) \cup {x}) = Rank(S, x) + 1
  BY <1>2, FS_AddElement DEF Rank
<1>4. S # Below(S, x) \cup {x}
  <2>1. Cardinality(S) \in Nat
    BY FS_CardinalityType
  <2>2. Rank(S, x) \in Nat
    BY RankType
  <2>3. Cardinality(Below(S, x) \cup {x}) # Cardinality(S)
    BY <1>3, <2>1, <2>2
  <2> QED BY <2>3
<1>5. above # {}
  <2>1. PICK y \in S : y \notin Below(S, x) /\ y # x
    BY <1>2, <1>4
  <2>2. y \in Nat /\ x \in Nat
    BY <1>1
  <2>3. ~(y < x)
    BY <2>1, <2>2, InBelow
  <2>4. x < y
    BY <2>1, <2>2, <2>3
  <2> QED BY <2>4
<1>6. Min(above) \in above /\ \A y \in above : Min(above) <= y
  BY <1>5, LeastOf
<1> DEFINE z == Min(above)
<1>7. z \in S /\ x < z /\ \A y \in S : x < y => z <= y
  BY <1>6
<1> HIDE DEF z, above
<1>8. Below(S, z) = Below(S, x) \cup {x}
  <2>1. x \in Nat /\ z \in Nat
    BY <1>1, <1>7
  <2>2. ASSUME NEW y \in S PROVE y < z <=> y < x \/ y = x
    <3>1. y \in Nat
      BY <1>1
    <3>2. x < y => z <= y
      BY <1>7
    <3> QED BY <1>7, <2>1, <3>1, <3>2
  <2>3. \A y : y \in Below(S, z) <=> y \in Below(S, x) \cup {x}
    <3>1. \A y : y \in Below(S, z) <=> y \in S /\ y < z
      BY DEF Below
    <3>2. \A y : y \in Below(S, x) <=> y \in S /\ y < x
      BY DEF Below
    <3>3. \A y : y \in Below(S, x) \cup {x} <=> y \in Below(S, x) \/ y = x
      OBVIOUS
    <3> QED BY <2>2, <3>1, <3>2, <3>3
  <2> QED BY <2>3
<1> QED BY <1>3, <1>7, <1>8 DEF Rank

\* Each number below their number is the rank of one of them.
LEMMA RankOfSome ==
    ASSUME NEW S \in SUBSET Nat, IsFiniteSet(S), NEW r \in Nat, r < Cardinality(S)
    PROVE  \E x \in S : Rank(S, x) = r
<1> DEFINE G == {q \in 0..r : \E x \in S : Rank(S, x) = q}
<1>0. Cardinality(S) \in Nat
  BY FS_CardinalityType
<1>1. 0 \in G
  <2>1. S # {}
    BY <1>0, FS_EmptySet
  <2>2. 0 \in 0..r /\ Min(S) \in S /\ Rank(S, Min(S)) = 0
    BY <2>1, RankOfLeast
  <2> QED BY <2>2
<1>2. ASSUME NEW q \in (0 + 1)..r, q - 1 \in G PROVE q \in G
  <2>1. PICK x \in S : Rank(S, x) = q - 1
    BY <1>2
  <2>2. q \in 0..r /\ (q - 1) + 1 = q /\ q < Cardinality(S)
    BY <1>0
  <2>3. \E y \in S : Rank(S, y) = Rank(S, x) + 1
    BY <2>1, <2>2, RankOfNext
  <2> QED BY <2>1, <2>2, <2>3
<1> HIDE DEF G
<1>3. r \in G
  BY <1>1, <1>2, UpTo
<1> QED BY <1>3 DEF G

-----------------------------------------------------------------------------
(* What create_proposal_transactions does with its slots.                  *)

\* The slots of a sender, the nonces it has, the slots a nonce is given in, and
\* the transaction that is kept of them.
Own(slots, s)         == {i \in DOMAIN slots : slots[i].sender = s}
Nonces(slots, s)      == {slots[i].nonce : i \in Own(slots, s)}
Given(slots, s, n)    == {i \in Own(slots, s) : slots[i].nonce = n}
LatestOf(slots, s, n) == slots[Max(Given(slots, s, n))]

\* Slot i takes nonce n of its sender.
Fills(slots, i, n) ==
    /\ n \in Nonces(slots, slots[i].sender)
    /\ Rank(Nonces(slots, slots[i].sender), n) = Rank(Own(slots, slots[i].sender), i)

\* A list of transactions, whose nonces are numbers.
IsTxs(slots) ==
    /\ Len(slots) \in Nat /\ DOMAIN slots = 1..Len(slots)
    /\ \A i \in 1..Len(slots) : slots[i].nonce \in Nat

LEMMA OwnFacts ==
    ASSUME NEW slots, IsTxs(slots), NEW s
    PROVE  /\ Own(slots, s) \in SUBSET Nat /\ IsFiniteSet(Own(slots, s))
           /\ Nonces(slots, s) \in SUBSET Nat /\ IsFiniteSet(Nonces(slots, s))
           /\ Cardinality(Nonces(slots, s)) <= Cardinality(Own(slots, s))
<1>1. Own(slots, s) \in SUBSET (1..Len(slots))
  BY DEF Own, IsTxs
<1>2. IsFiniteSet(Own(slots, s)) /\ Own(slots, s) \in SUBSET Nat
  <2>1. IsFiniteSet(1..Len(slots)) /\ 1..Len(slots) \in SUBSET Nat
    BY FS_Interval DEF IsTxs
  <2>2. IsFiniteSet(Own(slots, s))
    BY <1>1, <2>1, FS_Subset
  <2> QED BY <1>1, <2>1, <2>2
<1> DEFINE f == [i \in Own(slots, s) |-> slots[i].nonce]
<1>3. f \in Surjection(Own(slots, s), Nonces(slots, s))
  BY DEF Surjection, Nonces
<1>4. Nonces(slots, s) \in SUBSET Nat
  BY <1>1 DEF Nonces, IsTxs
<1> QED BY <1>2, <1>3, <1>4, FS_Surjection

\* A finite, non-empty set of numbers has a greatest element.
LEMMA GreatestOf ==
    ASSUME NEW S \in SUBSET Nat, NEW n \in Nat, S # {}, \A x \in S : x <= n
    PROVE  Max(S) \in S /\ \A x \in S : Max(S) >= x
<1> DEFINE T == {b \in Nat : \A x \in S : x <= b}
<1>1. PICK m \in T : m = Min(T) /\ \A b \in T : m <= b
  <2>1. T \in SUBSET Nat /\ n \in T
    OBVIOUS
  <2> QED BY <2>1, LeastOf
<1>2. m \in Nat /\ \A x \in S : x \in Nat /\ x <= m
  OBVIOUS
<1>3. m \in S
  <2> SUFFICES ASSUME m \notin S PROVE FALSE
    OBVIOUS
  <2>1. \A x \in S : x < m
    BY <1>2
  <2>2. m # 0
    <3>1. PICK x \in S : TRUE
      OBVIOUS
    <3>2. x \in Nat /\ x < m
      BY <1>2, <2>1, <3>1
    <3> QED BY <3>2
  <2>3. m - 1 \in Nat /\ \A x \in S : x <= m - 1
    BY <1>2, <2>1, <2>2
  <2>4. m - 1 \in T
    BY <2>3
  <2> QED BY <1>1, <1>2, <2>4
<1>4. \E x \in S : \A y \in S : x >= y
  BY <1>2, <1>3
<1> QED BY <1>4 DEF Max

\* The kept transaction of a nonce is the last one given for it.
LEMMA LatestIs ==
    ASSUME NEW slots, IsTxs(slots), NEW s, NEW n \in Nonces(slots, s)
    PROVE  /\ Max(Given(slots, s, n)) \in 1..Len(slots)
           /\ LatestOf(slots, s, n).sender = s
           /\ LatestOf(slots, s, n).nonce = n
           /\ \A i \in 1..Len(slots) :
                 slots[i].sender = s /\ slots[i].nonce = n => i <= Max(Given(slots, s, n))
<1>1. Given(slots, s, n) # {}
  BY DEF Given, Nonces
<1>2. Given(slots, s, n) \in SUBSET Nat /\ \A i \in Given(slots, s, n) : i <= Len(slots)
  BY DEF Given, Own, IsTxs
<1>3. /\ Max(Given(slots, s, n)) \in Given(slots, s, n)
      /\ \A i \in Given(slots, s, n) : Max(Given(slots, s, n)) >= i
  BY <1>1, <1>2, GreatestOf DEF IsTxs
<1> DEFINE m == Max(Given(slots, s, n))
<1> HIDE DEF m
<1>4. m \in 1..Len(slots) /\ slots[m].sender = s /\ slots[m].nonce = n
  BY <1>3 DEF m, Given, Own, IsTxs
<1>5. ASSUME NEW i \in 1..Len(slots), slots[i].sender = s, slots[i].nonce = n PROVE i <= m
  <2>1. i \in Given(slots, s, n)
    BY <1>5 DEF Given, Own, IsTxs
  <2> QED BY <1>3, <1>4, <2>1 DEF m
<1> QED BY <1>4, <1>5 DEF m, LatestOf

\* No slot takes two nonces, each nonce is taken by a slot of its sender, and
\* earlier slots of a sender take lower nonces.
LEMMA FillsOnce ==
    ASSUME NEW slots, IsTxs(slots), NEW i, NEW m, NEW n,
           Fills(slots, i, m), Fills(slots, i, n)
    PROVE  m = n
<1> DEFINE N == Nonces(slots, slots[i].sender)
<1>1. N \in SUBSET Nat /\ IsFiniteSet(N) /\ m \in N /\ n \in N /\ Rank(N, m) = Rank(N, n)
  BY OwnFacts DEF Fills
<1> HIDE DEF N
<1>2. m \in Nat /\ n \in Nat /\ Rank(N, m) \in Nat
  BY <1>1, RankType
<1>3. m < n => Rank(N, m) < Rank(N, n)
  BY <1>1, RankOrder
<1>4. n < m => Rank(N, n) < Rank(N, m)
  BY <1>1, RankOrder
<1> QED BY <1>1, <1>2, <1>3, <1>4

LEMMA FillsEach ==
    ASSUME NEW slots, IsTxs(slots), NEW s, NEW n \in Nonces(slots, s)
    PROVE  \E i \in Own(slots, s) : Fills(slots, i, n)
<1>1. /\ Rank(Nonces(slots, s), n) \in Nat
      /\ Rank(Nonces(slots, s), n) < Cardinality(Nonces(slots, s))
  BY OwnFacts, RankType, RankOrder
<1>2. Cardinality(Nonces(slots, s)) \in Nat /\ Cardinality(Own(slots, s)) \in Nat
  BY OwnFacts, FS_CardinalityType
<1>3. Rank(Nonces(slots, s), n) < Cardinality(Own(slots, s))
  BY <1>1, <1>2, OwnFacts
<1>4. PICK i \in Own(slots, s) : Rank(Own(slots, s), i) = Rank(Nonces(slots, s), n)
  BY <1>1, <1>3, OwnFacts, RankOfSome
<1>5. slots[i].sender = s
  BY DEF Own
<1> QED BY <1>4, <1>5 DEF Fills

LEMMA FillsInOrder ==
    ASSUME NEW slots, IsTxs(slots), NEW i \in DOMAIN slots, NEW j \in DOMAIN slots,
           i < j, slots[i].sender = slots[j].sender,
           NEW m, NEW n, Fills(slots, i, m), Fills(slots, j, n)
    PROVE  m < n
<1> DEFINE s == slots[i].sender
           N == Nonces(slots, s)
           O == Own(slots, s)
<1>1. /\ N \in SUBSET Nat /\ IsFiniteSet(N) /\ O \in SUBSET Nat /\ IsFiniteSet(O)
      /\ m \in N /\ n \in N /\ i \in O /\ j \in O
      /\ Rank(N, m) = Rank(O, i) /\ Rank(N, n) = Rank(O, j)
  BY OwnFacts DEF Fills, Own
<1> HIDE DEF N, O
<1>2. m \in Nat /\ n \in Nat /\ Rank(N, m) \in Nat /\ Rank(N, n) \in Nat
  BY <1>1, RankType
<1>3. Rank(O, i) < Rank(O, j)
  BY <1>1, RankOrder
<1>4. n < m => Rank(N, n) < Rank(N, m)
  BY <1>1, RankOrder
<1> QED BY <1>1, <1>2, <1>3, <1>4

\* The list that a set of at most one element is made into.
LEMMA SetToSeqOfNone == SetToSeq({}) = << >>
<1> DEFINE F == {f \in [1..Cardinality({}) -> {}] : IsInjective(f)}
<1>1. Cardinality({}) = 0 /\ 1..0 = {}
  BY FS_EmptySet
<1>2. << >> \in [1..Cardinality({}) -> {}] /\ IsInjective(<< >>)
  BY <1>1 DEF IsInjective
<1>3. \A f \in [1..Cardinality({}) -> {}] : f = << >>
  BY <1>1
<1> QED BY <1>2, <1>3 DEF SetToSeq

LEMMA SetToSeqOfOne ==
    ASSUME NEW x
    PROVE  SetToSeq({x}) = <<x>>
<1>1. Cardinality({x}) = 1 /\ 1..1 = {1}
  BY FS_Singleton
<1>2. <<x>> \in [1..Cardinality({x}) -> {x}] /\ IsInjective(<<x>>)
  BY <1>1 DEF IsInjective
<1>3. \A f \in [1..Cardinality({x}) -> {x}] : f = <<x>>
  <2> SUFFICES ASSUME NEW f \in [{1} -> {x}] PROVE f = <<x>>
    BY <1>1
  <2>1. f = [i \in 1..1 |-> x]
    BY <1>1
  <2> QED BY <1>1, <2>1
<1> QED BY <1>2, <1>3 DEF SetToSeq

\* What slot i gets: the kept transaction of the nonce it takes, if any.
LEMMA PoppedIs ==
    ASSUME NEW slots, IsTxs(slots), NEW i \in DOMAIN slots
    PROVE  Popped(map_sender_txs(slots), slots, i) =
               {LatestOf(slots, slots[i].sender, n) :
                   n \in {m \in Nonces(slots, slots[i].sender) : Fills(slots, i, m)}}
<1> DEFINE s == slots[i].sender
           N == Nonces(slots, s)
           B == {j \in 1..(i - 1) : slots[j].sender = s}
<1>1. map_sender_txs(slots)[s] = [n \in N |-> LatestOf(slots, s, n)]
  BY DEF map_sender_txs, Inserted, LatestOf, Nonces, Own, Given
<1>2. B = Below(Own(slots, s), i)
  <2>1. i \in 1..Len(slots) /\ Len(slots) \in Nat
    BY DEF IsTxs
  <2>2. \A j : j \in 1..(i - 1) <=> j \in 1..Len(slots) /\ j < i
    BY <2>1
  <2> QED BY <2>2 DEF Below, Own, IsTxs
<1>3. Popped(map_sender_txs(slots), slots, i) =
          {map_sender_txs(slots)[s][n] : n \in {m \in DOMAIN map_sender_txs(slots)[s] :
               Cardinality({l \in DOMAIN map_sender_txs(slots)[s] : l < m}) = Cardinality(B)}}
  BY DEF Popped
<1> HIDE DEF N, B
<1>4. PICK f : f = map_sender_txs(slots)[s]
  OBVIOUS
<1>5. DOMAIN f = N /\ \A n \in N : f[n] = LatestOf(slots, s, n)
  BY <1>1, <1>4
<1>6. \A m : {l \in DOMAIN f : l < m} = Below(N, m)
  BY <1>5 DEF Below
<1>7. Popped(map_sender_txs(slots), slots, i) =
          {f[n] : n \in {m \in N : Cardinality(Below(N, m)) = Cardinality(B)}}
  BY <1>3, <1>4, <1>5, <1>6
<1>8. {m \in N : Cardinality(Below(N, m)) = Cardinality(B)} = {m \in N : Fills(slots, i, m)}
  BY <1>2 DEF Fills, Rank, N
<1>9. \A n \in {m \in N : Fills(slots, i, m)} : f[n] = LatestOf(slots, s, n)
  BY <1>5
<1> QED BY <1>7, <1>8, <1>9 DEF N

\* A slot gets one transaction or none.
LEMMA SlotGets ==
    ASSUME NEW slots, IsTxs(slots), NEW i \in DOMAIN slots
    PROVE  \/ /\ ~ \E n : Fills(slots, i, n)
              /\ SetToSeq(Popped(map_sender_txs(slots), slots, i)) = << >>
           \/ \E n : /\ Fills(slots, i, n)
                     /\ SetToSeq(Popped(map_sender_txs(slots), slots, i)) =
                           <<LatestOf(slots, slots[i].sender, n)>>
<1> DEFINE N == {m \in Nonces(slots, slots[i].sender) : Fills(slots, i, m)}
           M == Popped(map_sender_txs(slots), slots, i)
<1>1. M = {LatestOf(slots, slots[i].sender, n) : n \in N}
  BY PoppedIs
<1>2. \A n : n \in N <=> Fills(slots, i, n)
  BY DEF Fills
<1> HIDE DEF N, M
<1>3. CASE N = {}
  <2>1. M = {} /\ ~ \E n : Fills(slots, i, n)
    BY <1>1, <1>2, <1>3
  <2> QED BY <2>1, SetToSeqOfNone DEF M
<1>4. CASE N # {}
  <2>1. PICK n \in N : TRUE
    BY <1>4
  <2>2. N = {n}
    BY <1>2, <2>1, FillsOnce
  <2>3. M = {LatestOf(slots, slots[i].sender, n)}
    BY <1>1, <2>2
  <2>4. SetToSeq(M) = <<LatestOf(slots, slots[i].sender, n)>>
    BY <2>3, SetToSeqOfOne
  <2> QED BY <1>2, <2>1, <2>4 DEF M
<1> QED BY <1>3, <1>4

\* The list txs is what the slots get, in their order: e gives the slot of each
\* of its transactions.
Proposes(e, slots, txs) ==
    /\ e \in [1..Len(txs) -> 1..Len(slots)]
    /\ \A k \in 1..Len(txs) : \E n :
          Fills(slots, e[k], n) /\ txs[k] = LatestOf(slots, slots[e[k]].sender, n)
    /\ \A k, l \in 1..Len(txs) : k < l => e[k] < e[l]
    /\ \A i \in 1..Len(slots) : (\E n : Fills(slots, i, n)) =>
          \E k \in 1..Len(txs) : e[k] = i

\* A set whose elements f numbers from 1 to n has n elements.
LEMMA Numbered ==
    ASSUME NEW n \in Nat, NEW T, NEW f,
           \A k \in 1..n : f[k] \in T,
           \A x \in T : \E k \in 1..n : f[k] = x,
           \A i, j \in 1..n : f[i] = f[j] => i = j
    PROVE  IsFiniteSet(T) /\ Cardinality(T) = n
<1> DEFINE g == [k \in 1..n |-> f[k]]
<1>1. g \in Bijection(1..n, T)
  BY DEF Bijection, Injection, Surjection, IsInjective
<1>2. ExistsBijection(1..n, T)
  BY <1>1 DEF ExistsBijection
<1>3. IsFiniteSet(1..n) /\ Cardinality(1..n) = n
  BY FS_Interval
<1> QED BY <1>2, <1>3, FS_Bijection

LEMMA KeptIsGiven ==
    ASSUME NEW S, NEW slots \in Seq(S), IsTxs(slots), NEW s, NEW n \in Nonces(slots, s)
    PROVE  LatestOf(slots, s, n) \in S
<1>1. Max(Given(slots, s, n)) \in 1..Len(slots)
  BY LatestIs
<1> QED BY <1>1, ElementOfSeq DEF LatestOf

\* A proposal is such a list.
LEMMA ProposalFills ==
    ASSUME NEW S, NEW pending, NEW batch,
           pending \o BatchTransactions(batch) \in Seq(S), \A x \in S : x.nonce \in Nat
    PROVE  /\ create_proposal_transactions(pending, batch) \in Seq(S)
           /\ \E e : Proposes(e, pending \o BatchTransactions(batch),
                              create_proposal_transactions(pending, batch))
<1>1. PICK slots \in Seq(S) : slots = pending \o BatchTransactions(batch)
  OBVIOUS
<1>2. IsTxs(slots)
  BY LenProperties, ElementOfSeq DEF IsTxs
<1>3. PICK map : map = map_sender_txs(slots)
  OBVIOUS
<1> DEFINE ss == [i \in DOMAIN slots |-> SetToSeq(Popped(map, slots, i))]
<1>4. create_proposal_transactions(pending, batch) = FlattenSeq(ss)
  BY <1>1, <1>3 DEF create_proposal_transactions
<1>5. DOMAIN slots = 1..Len(slots) /\ Len(slots) \in Nat
  BY LenProperties
<1>6. ASSUME NEW i \in 1..Len(slots)
      PROVE  /\ ss[i] \in Seq(S) /\ Len(ss[i]) <= 1
             /\ (\E n : Fills(slots, i, n)) <=> ss[i] # << >>
             /\ \A x : ss[i] = <<x>> =>
                   \E n : Fills(slots, i, n) /\ x = LatestOf(slots, slots[i].sender, n)
  <2>1. PICK u : u = ss[i]
    OBVIOUS
  <2>2. u = SetToSeq(Popped(map_sender_txs(slots), slots, i))
    BY <1>3, <1>5, <2>1
  <2> HIDE DEF ss
  <2>3. \/ (~ \E n : Fills(slots, i, n)) /\ u = << >>
        \/ \E n : Fills(slots, i, n) /\ u = <<LatestOf(slots, slots[i].sender, n)>>
    BY <1>2, <1>5, <2>2, SlotGets
  <2>4. CASE (~ \E n : Fills(slots, i, n)) /\ u = << >>
    <3>1. u \in Seq(S) /\ Len(u) = 0 /\ \A x : u # <<x>>
      BY <2>4
    <3> QED BY <2>1, <2>4, <3>1
  <2>5. CASE \E n : Fills(slots, i, n) /\ u = <<LatestOf(slots, slots[i].sender, n)>>
    <3>1. PICK n : Fills(slots, i, n) /\ u = <<LatestOf(slots, slots[i].sender, n)>>
      BY <2>5
    <3>2. PICK x \in S : x = LatestOf(slots, slots[i].sender, n)
      BY <1>2, <3>1, KeptIsGiven DEF Fills
    <3>3. u = <<x>> /\ u \in Seq(S) /\ Len(u) = 1 /\ u # << >> /\ \A y : u = <<y>> => y = x
      BY <3>1, <3>2
    <3> QED BY <2>1, <3>1, <3>2, <3>3
  <2> QED BY <2>3, <2>4, <2>5
<1>7. ss \in Seq(Seq(S)) /\ Len(ss) = Len(slots)
  <2>1. ss = [i \in 1..Len(slots) |-> ss[i]]
    BY <1>5
  <2> HIDE DEF ss
  <2>2. \A i \in 1..Len(slots) : ss[i] \in Seq(S)
    BY <1>6
  <2> QED BY <1>5, <2>1, <2>2, ListOf
<1>8. PICK txs : txs = FlattenSeq(ss)
  OBVIOUS
<1> HIDE DEF ss
<1>9. txs \in Seq(S)
  BY <1>7, <1>8, FlatIsSeq
<1>10. PICK e : Places(e, ss, Len(slots), txs)
  BY <1>6, <1>7, <1>8, FlatInPlace
<1>11. Proposes(e, slots, txs)
  <2>1. e \in [1..Len(txs) -> 1..Len(slots)]
    BY <1>10 DEF Places
  <2>2. \A k \in 1..Len(txs) : \E n :
           Fills(slots, e[k], n) /\ txs[k] = LatestOf(slots, slots[e[k]].sender, n)
    <3> SUFFICES ASSUME NEW k \in 1..Len(txs)
                 PROVE  \E n : Fills(slots, e[k], n)
                            /\ txs[k] = LatestOf(slots, slots[e[k]].sender, n)
      OBVIOUS
    <3>1. PICK i \in 1..Len(slots) : i = e[k]
      BY <2>1
    <3>2. PICK x : x = txs[k]
      OBVIOUS
    <3>3. ss[i] = <<x>>
      BY <1>10, <3>1, <3>2 DEF Places
    <3> QED BY <1>6, <3>1, <3>2, <3>3
  <2>3. \A k, l \in 1..Len(txs) : k < l => e[k] < e[l]
    BY <1>10 DEF Places
  <2>4. \A i \in 1..Len(slots) : (\E n : Fills(slots, i, n)) =>
           \E k \in 1..Len(txs) : e[k] = i
    BY <1>6, <1>10 DEF Places
  <2> QED BY <2>1, <2>2, <2>3, <2>4 DEF Proposes
<1> QED BY <1>1, <1>4, <1>8, <1>9, <1>11

\* What is known of the k-th transaction of a proposal.
LEMMA Placed ==
    ASSUME NEW slots, IsTxs(slots), NEW txs, Len(txs) \in Nat, NEW e,
           Proposes(e, slots, txs), NEW k \in 1..Len(txs)
    PROVE  /\ e[k] \in 1..Len(slots)
           /\ txs[k].sender = slots[e[k]].sender
           /\ Fills(slots, e[k], txs[k].nonce)
           /\ txs[k] = LatestOf(slots, slots[e[k]].sender, txs[k].nonce)
<1>1. e[k] \in 1..Len(slots)
  BY DEF Proposes
<1>2. PICK n : Fills(slots, e[k], n) /\ txs[k] = LatestOf(slots, slots[e[k]].sender, n)
  BY DEF Proposes
<1>3. n \in Nonces(slots, slots[e[k]].sender)
  BY <1>2 DEF Fills
<1>4. txs[k].sender = slots[e[k]].sender /\ txs[k].nonce = n
  BY <1>2, <1>3, LatestIs
<1> QED BY <1>1, <1>2, <1>4

LEMMA ProposalInNonceOrder ==
    ASSUME NEW slots, IsTxs(slots), NEW txs, Len(txs) \in Nat, DOMAIN txs = 1..Len(txs),
           NEW e, Proposes(e, slots, txs)
    PROVE  NonceOrder(txs)
<1> SUFFICES ASSUME NEW i \in 1..Len(txs), NEW j \in 1..Len(txs), i < j,
                    txs[i].sender = txs[j].sender
             PROVE  txs[i].nonce < txs[j].nonce
  BY DEF NonceOrder
<1>1. e[i] < e[j] /\ DOMAIN slots = 1..Len(slots)
  BY DEF Proposes, IsTxs
<1>2. /\ e[i] \in 1..Len(slots) /\ txs[i].sender = slots[e[i]].sender
      /\ Fills(slots, e[i], txs[i].nonce)
  BY Placed
<1>3. /\ e[j] \in 1..Len(slots) /\ txs[j].sender = slots[e[j]].sender
      /\ Fills(slots, e[j], txs[j].nonce)
  BY Placed
<1>4. slots[e[i]].sender = slots[e[j]].sender
  BY <1>2, <1>3
<1> QED BY <1>1, <1>2, <1>3, <1>4, FillsInOrder

LEMMA ProposalIsTheLatest ==
    ASSUME NEW slots, IsTxs(slots), NEW txs, Len(txs) \in Nat, DOMAIN txs = 1..Len(txs),
           NEW e, Proposes(e, slots, txs)
    PROVE  LatestOfEachKey(slots, txs)
<1> DEFINE last == {j \in DOMAIN slots :
                       \A k \in DOMAIN slots : k > j => Key(slots[k]) # Key(slots[j])}
<1>0. DOMAIN slots = 1..Len(slots) /\ Len(slots) \in Nat
  BY DEF IsTxs
<1>1. ASSUME NEW k \in 1..Len(txs)
      PROVE  /\ txs[k].nonce \in Nat
             /\ \E m \in last : txs[k] = slots[m]
  <2> DEFINE s == slots[e[k]].sender
             n == txs[k].nonce
             m == Max(Given(slots, s, n))
  <2>1. n \in Nonces(slots, s) /\ txs[k] = slots[m]
    BY Placed DEF Fills, LatestOf
  <2>2. n \in Nat
    BY <2>1, OwnFacts
  <2>3. m \in 1..Len(slots) /\ slots[m].sender = s /\ slots[m].nonce = n
    BY <2>1, LatestIs DEF LatestOf
  <2>4. \A i \in 1..Len(slots) : slots[i].sender = s /\ slots[i].nonce = n => i <= m
    BY <2>1, LatestIs
  <2> HIDE DEF s, m
  <2>5. m \in last
    BY <1>0, <2>3, <2>4 DEF Key
  <2> QED BY <2>1, <2>2, <2>5
<1>2. ASSUME NEW m \in last
      PROVE  \E k \in 1..Len(txs) : txs[k] = slots[m]
  <2> DEFINE s == slots[m].sender
             n == slots[m].nonce
             g == Max(Given(slots, s, n))
  <2>1. m \in 1..Len(slots) /\ \A k \in 1..Len(slots) : k > m => Key(slots[k]) # Key(slots[m])
    BY <1>0
  <2>2. n \in Nonces(slots, s)
    BY <1>0, <2>1 DEF Nonces, Own
  <2>3. g \in 1..Len(slots) /\ slots[g].sender = s /\ slots[g].nonce = n /\ m <= g
    BY <2>1, <2>2, LatestIs DEF LatestOf
  <2> HIDE DEF g
  <2>4. g = m
    BY <1>0, <2>1, <2>3 DEF Key
  <2>5. PICK i \in Own(slots, s) : Fills(slots, i, n)
    BY <2>2, FillsEach
  <2>6. i \in 1..Len(slots) /\ slots[i].sender = s
    BY <1>0 DEF Own
  <2>7. PICK k \in 1..Len(txs) : e[k] = i
    BY <2>5, <2>6 DEF Proposes
  <2>8. Fills(slots, i, txs[k].nonce) /\ txs[k] = LatestOf(slots, s, txs[k].nonce)
    BY <2>6, <2>7, Placed
  <2>9. txs[k].nonce = n
    BY <2>5, <2>8, FillsOnce
  <2> QED BY <2>4, <2>8, <2>9 DEF LatestOf, g
<1>3. Range(txs) = {slots[m] : m \in last}
  <2>1. \A x : x \in Range(txs) <=> \E k \in 1..Len(txs) : x = txs[k]
    BY DEF Range
  <2> HIDE DEF last
  <2> QED BY <1>1, <1>2, <2>1
<1>4. Cardinality(Keys(Range(txs))) = Len(txs)
  <2> DEFINE f == [k \in 1..Len(txs) |-> Key(txs[k])]
  <2>1. \A k \in 1..Len(txs) : f[k] \in Keys(Range(txs))
    BY DEF Keys, Range
  <2>2. \A x \in Keys(Range(txs)) : \E k \in 1..Len(txs) : f[k] = x
    BY DEF Keys, Range
  <2>3. ASSUME NEW i \in 1..Len(txs), NEW j \in 1..Len(txs), f[i] = f[j]
        PROVE  i = j
    <3>1. txs[i].sender = txs[j].sender /\ txs[i].nonce = txs[j].nonce
      BY <2>3 DEF Key
    <3>2. NonceOrder(txs)
      BY ProposalInNonceOrder
    <3>3. i < j => txs[i].nonce < txs[j].nonce
      BY <3>1, <3>2 DEF NonceOrder
    <3>4. j < i => txs[j].nonce < txs[i].nonce
      BY <3>1, <3>2 DEF NonceOrder
    <3>5. txs[i].nonce \in Nat /\ txs[j].nonce \in Nat
      BY <1>1
    <3> HIDE DEF f
    <3> QED BY <3>1, <3>3, <3>4, <3>5
  <2> HIDE DEF f
  <2> QED BY <2>1, <2>2, <2>3, Numbered
<1> QED BY <1>3, <1>4 DEF LatestOfEachKey

\* The slots that get a transaction are those of each sender that come before
\* the number of its nonces is used up.
LEMMA SlotsThatFill ==
    ASSUME NEW slots, IsTxs(slots), NEW i \in 1..Len(slots)
    PROVE  /\ (\E n : Fills(slots, i, n)) <=>
                 Rank(Own(slots, slots[i].sender), i)
                     < Cardinality(Nonces(slots, slots[i].sender))
           /\ Cardinality({j \in 1..i : slots[j].sender = slots[i].sender}) =
                 Rank(Own(slots, slots[i].sender), i) + 1
<1> DEFINE s == slots[i].sender
           O == Own(slots, s)
           N == Nonces(slots, s)
           C == {j \in 1..i : slots[j].sender = s}
<1>1. /\ O \in SUBSET Nat /\ IsFiniteSet(O) /\ N \in SUBSET Nat /\ IsFiniteSet(N)
      /\ i \in O
  BY OwnFacts DEF Own, IsTxs
<1>2. Len(slots) \in Nat /\ DOMAIN slots = 1..Len(slots)
  BY DEF IsTxs
<1>3. Rank(O, i) \in Nat
  BY <1>1, RankType
<1>4. C = Below(O, i) \cup {i}
  <2>1. \A j : j \in 1..i <=> j \in 1..Len(slots) /\ (j < i \/ j = i)
    BY <1>2
  <2>2. \A j : j \in Below(O, i) <=> j \in 1..Len(slots) /\ slots[j].sender = s /\ j < i
    BY <1>2 DEF Below, Own
  <2> QED BY <2>1, <2>2
<1>5. (\E n : Fills(slots, i, n)) <=> \E n \in N : Rank(N, n) = Rank(O, i)
  BY DEF Fills
<1> HIDE DEF O, N, C
<1>6. Cardinality(C) = Rank(O, i) + 1
  <2>1. IsFiniteSet(Below(O, i)) /\ Below(O, i) \in SUBSET O /\ i \in Nat
    BY <1>1, RankType DEF Below
  <2>2. ~(i < i)
    BY <2>1
  <2>3. i \notin Below(O, i)
    BY <1>1, <2>2, InBelow
  <2> QED BY <1>4, <2>1, <2>3, FS_AddElement DEF Rank
<1>7. (\E n \in N : Rank(N, n) = Rank(O, i)) <=> Rank(O, i) < Cardinality(N)
  <2>1. ASSUME NEW n \in N PROVE Rank(N, n) < Cardinality(N)
    BY <1>1, RankOrder
  <2>2. Rank(O, i) < Cardinality(N) => \E n \in N : Rank(N, n) = Rank(O, i)
    BY <1>1, <1>3, RankOfSome
  <2> QED BY <2>1, <2>2
<1> QED BY <1>5, <1>6, <1>7 DEF O, N, C

LEMMA ProposalInTheSlots ==
    ASSUME NEW slots, IsTxs(slots), NEW txs, Len(txs) \in Nat, DOMAIN txs = 1..Len(txs),
           NEW e, Proposes(e, slots, txs)
    PROVE  SenderSlots(slots, txs)
<1> DEFINE kept == {i \in DOMAIN slots :
                       Cardinality({j \in 1..i : slots[j].sender = slots[i].sender})
                           <= Cardinality(Nonces(slots, slots[i].sender))}
<1>0. DOMAIN slots = 1..Len(slots) /\ Len(slots) \in Nat
  BY DEF IsTxs
<1>1. ASSUME NEW i \in 1..Len(slots) PROVE i \in kept <=> \E n : Fills(slots, i, n)
  <2> DEFINE r == Rank(Own(slots, slots[i].sender), i)
             c == Cardinality(Nonces(slots, slots[i].sender))
  <2>1. r \in Nat /\ c \in Nat
    <3>1. PICK O, N : O = Own(slots, slots[i].sender) /\ N = Nonces(slots, slots[i].sender)
      OBVIOUS
    <3>2. O \in SUBSET Nat /\ IsFiniteSet(O) /\ IsFiniteSet(N)
      BY <3>1, OwnFacts
    <3>3. i \in O
      BY <1>0, <3>1 DEF Own
    <3>4. Rank(O, i) \in Nat /\ Cardinality(N) \in Nat
      BY <3>2, <3>3, RankType, FS_CardinalityType
    <3> QED BY <3>1, <3>4
  <2>2. /\ (\E n : Fills(slots, i, n)) <=> r < c
        /\ Cardinality({j \in 1..i : slots[j].sender = slots[i].sender}) = r + 1
    BY SlotsThatFill
  <2>3. i \in kept <=> Cardinality({j \in 1..i : slots[j].sender = slots[i].sender}) <= c
    BY <1>0
  <2> HIDE DEF kept, r, c
  <2> QED BY <2>1, <2>2, <2>3
<1>2. SenderSlots(slots, txs) <=>
         /\ Len(txs) = Cardinality(kept)
         /\ \A k \in DOMAIN txs, i \in kept :
               Cardinality({j \in kept : j <= i}) = k => txs[k].sender = slots[i].sender
  BY DEF SenderSlots, Nonces, Own
<1>3. \A i \in kept : i \in 1..Len(slots)
  BY <1>0
<1> HIDE DEF kept
<1>4. \A k \in 1..Len(txs) : e[k] \in kept
  <2> SUFFICES ASSUME NEW k \in 1..Len(txs) PROVE e[k] \in kept
    OBVIOUS
  <2> QED BY <1>1, Placed
<1>5. \A i \in kept : \E k \in 1..Len(txs) : e[k] = i
  BY <1>1, <1>3 DEF Proposes
<1>6. \A k, l \in 1..Len(txs) : k < l => e[k] < e[l]
  BY DEF Proposes
<1>7. \A k \in 1..Len(txs) : e[k] \in Nat
  BY <1>3, <1>4
<1>8. Len(txs) = Cardinality(kept)
  <2>1. \A k, l \in 1..Len(txs) : e[k] = e[l] => k = l
    BY <1>6, <1>7
  <2> QED BY <1>4, <1>5, <2>1, Numbered
<1>9. ASSUME NEW k \in 1..Len(txs), NEW i \in kept, Cardinality({j \in kept : j <= i}) = k
      PROVE  txs[k].sender = slots[i].sender
  <2>1. PICK l \in 1..Len(txs) : e[l] = i
    BY <1>5
  <2> DEFINE T == {j \in kept : j <= i}
  <2>2. \A m \in 1..l : m \in 1..Len(txs) /\ (m < l \/ m = l)
    BY <2>1
  <2>3. \A m \in 1..l : e[m] \in T
    <3> SUFFICES ASSUME NEW m \in 1..l PROVE e[m] \in kept /\ e[m] <= i
      OBVIOUS
    <3>1. m < l => e[m] < e[l]
      BY <1>6, <2>2
    <3> QED BY <1>4, <1>7, <2>1, <2>2, <3>1
  <2>4. \A x \in T : \E m \in 1..l : e[m] = x
    <3> SUFFICES ASSUME NEW x \in kept, x <= i PROVE \E m \in 1..l : e[m] = x
      OBVIOUS
    <3>1. PICK m \in 1..Len(txs) : e[m] = x
      BY <1>5
    <3>2. ~(l < m)
      BY <1>6, <1>7, <2>1, <3>1
    <3>3. m \in 1..l
      BY <2>1, <3>2
    <3> QED BY <3>1, <3>3
  <2>5. \A a, b \in 1..l : e[a] = e[b] => a = b
    BY <1>6, <1>7, <2>2
  <2> HIDE DEF T
  <2>6. Cardinality(T) = l
    <3>1. l \in Nat
      OBVIOUS
    <3> QED BY <3>1, <2>3, <2>4, <2>5, Numbered
  <2>7. l = k
    BY <1>9, <2>6 DEF T
  <2> QED BY <2>1, <2>7, Placed
<1> QED BY <1>2, <1>8, <1>9

\* For every pending list and every batch: a proposal holds the latest
\* transaction of each key and no other, each sender's in nonce order, and in
\* places its sender's slots had (create_proposal_transactions).
THEOREM ProposalsAreAsCommitted ==
    ASSUME NEW S, NEW pending, NEW batch,
           pending \o BatchTransactions(batch) \in Seq(S), \A x \in S : x.nonce \in Nat
    PROVE  AsCommitted(pending \o BatchTransactions(batch),
                       create_proposal_transactions(pending, batch))
<1>1. PICK slots \in Seq(S) : slots = pending \o BatchTransactions(batch)
  OBVIOUS
<1>2. IsTxs(slots)
  BY LenProperties, ElementOfSeq DEF IsTxs
<1>3. PICK txs \in Seq(S) : txs = create_proposal_transactions(pending, batch)
  BY ProposalFills
<1>4. PICK e : Proposes(e, slots, txs)
  BY <1>1, <1>3, ProposalFills
<1>5. Len(txs) \in Nat /\ DOMAIN txs = 1..Len(txs)
  BY LenProperties
<1>6. LatestOfEachKey(slots, txs)
  BY <1>2, <1>4, <1>5, ProposalIsTheLatest
<1>7. NonceOrder(txs)
  BY <1>2, <1>4, <1>5, ProposalInNonceOrder
<1>8. SenderSlots(slots, txs)
  BY <1>2, <1>4, <1>5, ProposalInTheSlots
<1> QED BY <1>1, <1>3, <1>6, <1>7, <1>8 DEF AsCommitted

-----------------------------------------------------------------------------
(* What a proposal is made of, and what is left of it.                     *)

\* The transactions of a proposal were given, each key that was given is there.
LEMMA ProposalKeys ==
    ASSUME NEW S, NEW pending, NEW batch,
           pending \o BatchTransactions(batch) \in Seq(S), \A x \in S : x.nonce \in Nat
    PROVE  /\ Range(create_proposal_transactions(pending, batch))
                  \subseteq Range(pending \o BatchTransactions(batch))
           /\ Keys(Range(create_proposal_transactions(pending, batch))) =
                  Keys(Range(pending \o BatchTransactions(batch)))
<1>1. PICK slots \in Seq(S) : slots = pending \o BatchTransactions(batch)
  OBVIOUS
<1>2. PICK txs : txs = create_proposal_transactions(pending, batch)
  OBVIOUS
<1> DEFINE last == {j \in DOMAIN slots :
                       \A k \in DOMAIN slots : k > j => Key(slots[k]) # Key(slots[j])}
<1>3. Range(txs) = {slots[i] : i \in last}
  BY <1>1, <1>2, ProposalsAreAsCommitted DEF AsCommitted, LatestOfEachKey
<1>4. DOMAIN slots = 1..Len(slots) /\ Len(slots) \in Nat
  BY LenProperties
<1>5. Range(slots) = {slots[i] : i \in 1..Len(slots)}
  BY <1>4 DEF Range
<1>6. ASSUME NEW i \in 1..Len(slots) PROVE \E j \in last : Key(slots[j]) = Key(slots[i])
  <2> DEFINE same == {j \in 1..Len(slots) : Key(slots[j]) = Key(slots[i])}
  <2>1. same \in SUBSET Nat /\ i \in same /\ \A x \in same : x <= Len(slots)
    BY <1>4
  <2> HIDE DEF same
  <2>2. PICK m \in same : m = Max(same) /\ \A x \in same : m >= x
    BY <1>4, <2>1, GreatestOf
  <2>3. m \in Nat /\ m \in 1..Len(slots) /\ Key(slots[m]) = Key(slots[i])
    BY <2>1 DEF same
  <2>4. ASSUME NEW k \in 1..Len(slots), k > m PROVE Key(slots[k]) # Key(slots[m])
    <3>1. k \notin same
      BY <2>2, <2>3, <2>4
    <3> QED BY <2>3, <3>1 DEF same
  <2> QED BY <1>4, <2>3, <2>4
<1>7. \A i \in last : i \in 1..Len(slots)
  BY <1>4
<1> HIDE DEF last
<1>8. Range(txs) \subseteq Range(slots)
  BY <1>3, <1>5, <1>7
<1>9. ASSUME NEW x \in Range(slots) PROVE Key(x) \in Keys(Range(txs))
  <2>1. PICK i \in 1..Len(slots) : x = slots[i]
    BY <1>5
  <2>2. PICK j \in last : Key(slots[j]) = Key(x)
    BY <1>6, <2>1
  <2> QED BY <1>3, <2>2 DEF Keys
<1>10. Keys(Range(txs)) = Keys(Range(slots))
  BY <1>8, <1>9 DEF Keys
<1> QED BY <1>1, <1>2, <1>8, <1>10

\* Without drops the mined transactions and keeps the order of the others.
LEMMA WithoutKeeps ==
    ASSUME NEW S, NEW txs \in Seq(S), NEW tx_hashes
    PROVE  /\ Without(txs, tx_hashes) \in Seq(S)
           /\ Range(Without(txs, tx_hashes)) = Range(txs) \ tx_hashes
           /\ NonceOrder(txs) => NonceOrder(Without(txs, tx_hashes))
<1> DEFINE ss == [i \in DOMAIN txs |-> IF txs[i] \in tx_hashes THEN << >> ELSE <<txs[i]>>]
<1>1. DOMAIN txs = 1..Len(txs) /\ Len(txs) \in Nat /\ \A i \in 1..Len(txs) : txs[i] \in S
  BY LenProperties, ElementOfSeq
<1>2. Without(txs, tx_hashes) = FlattenSeq(ss)
  BY DEF Without
<1>3. ASSUME NEW i \in 1..Len(txs)
      PROVE  /\ ss[i] \in Seq(S) /\ Len(ss[i]) <= 1
             /\ txs[i] \in tx_hashes => ss[i] = << >>
             /\ txs[i] \notin tx_hashes => ss[i] = <<txs[i]>> /\ ss[i] # << >>
  <2>1. PICK x \in S : x = txs[i]
    BY <1>1
  <2>2. ss[i] = IF x \in tx_hashes THEN << >> ELSE <<x>>
    BY <1>1, <2>1
  <2> HIDE DEF ss
  <2>3. <<x>> \in Seq(S) /\ Len(<<x>>) = 1 /\ <<x>> # << >> /\ << >> \in Seq(S) /\ Len(<< >>) = 0
    OBVIOUS
  <2> QED BY <2>1, <2>2, <2>3
<1>4. ss \in Seq(Seq(S)) /\ Len(ss) = Len(txs)
  <2>1. ss = [i \in 1..Len(txs) |-> ss[i]]
    BY <1>1
  <2> HIDE DEF ss
  <2>2. \A i \in 1..Len(txs) : ss[i] \in Seq(S)
    BY <1>3
  <2> QED BY <1>1, <2>1, <2>2, ListOf
<1> HIDE DEF ss
<1>5. PICK left : left = FlattenSeq(ss)
  OBVIOUS
<1>6. left \in Seq(S) /\ Len(left) \in Nat /\ DOMAIN left = 1..Len(left)
  BY <1>4, <1>5, FlatIsSeq, LenProperties
<1>7. PICK e : Places(e, ss, Len(txs), left)
  BY <1>3, <1>4, <1>5, FlatInPlace
<1>8. ASSUME NEW k \in 1..Len(left)
      PROVE  e[k] \in 1..Len(txs) /\ left[k] = txs[e[k]] /\ left[k] \notin tx_hashes
  <2>1. PICK i \in 1..Len(txs) : i = e[k]
    BY <1>7 DEF Places
  <2>2. PICK x : x = left[k] /\ ss[i] = <<x>>
    BY <1>7, <2>1 DEF Places
  <2>3. txs[i] \notin tx_hashes
    <3>1. <<x>> # << >>
      OBVIOUS
    <3> QED BY <1>3, <2>2, <3>1
  <2>4. <<x>> = <<txs[i]>>
    BY <1>3, <2>2, <2>3
  <2> QED BY <2>1, <2>2, <2>3, <2>4
<1>9. Range(left) = Range(txs) \ tx_hashes
  <2>1. ASSUME NEW x \in Range(left) PROVE x \in Range(txs) \ tx_hashes
    <3>1. PICK k \in 1..Len(left) : x = left[k]
      BY <1>6 DEF Range
    <3> QED BY <1>1, <1>8, <3>1 DEF Range
  <2>2. ASSUME NEW x \in Range(txs), x \notin tx_hashes PROVE x \in Range(left)
    <3>1. PICK i \in 1..Len(txs) : x = txs[i]
      BY <1>1 DEF Range
    <3>2. ss[i] # << >>
      BY <1>3, <2>2, <3>1
    <3>3. PICK k \in 1..Len(left) : e[k] = i
      BY <1>7, <3>2 DEF Places
    <3> QED BY <1>6, <1>8, <3>1, <3>3 DEF Range
  <2> QED BY <2>1, <2>2
<1>10. ASSUME NonceOrder(txs) PROVE NonceOrder(left)
  <2> SUFFICES ASSUME NEW i \in 1..Len(left), NEW j \in 1..Len(left), i < j,
                      left[i].sender = left[j].sender
               PROVE  left[i].nonce < left[j].nonce
    BY <1>6 DEF NonceOrder
  <2>1. e[i] < e[j]
    BY <1>7 DEF Places
  <2>2. /\ e[i] \in DOMAIN txs /\ e[j] \in DOMAIN txs
        /\ left[i] = txs[e[i]] /\ left[j] = txs[e[j]]
    BY <1>1, <1>8
  <2> QED BY <1>10, <2>1, <2>2 DEF NonceOrder
<1> QED BY <1>2, <1>5, <1>6, <1>9, <1>10

\* The transactions of a batch are those of its sub-DAGs.
LEMMA BatchTransactionsAre ==
    ASSUME NEW S, NEW n \in Nat, NEW batch, batch = [i \in 1..n |-> batch[i]],
           \A i \in 1..n : batch[i].transactions \in Seq(S)
    PROVE  /\ BatchTransactions(batch) \in Seq(S)
           /\ \A x : x \in Range(BatchTransactions(batch)) <=>
                        \E i \in 1..n : x \in Range(batch[i].transactions)
<1> DEFINE ss == [i \in DOMAIN batch |-> batch[i].transactions]
<1>1. DOMAIN batch = 1..n
  OBVIOUS
<1>2. ss = [i \in 1..n |-> ss[i]] /\ \A i \in 1..n : ss[i] = batch[i].transactions
  BY <1>1
<1>3. BatchTransactions(batch) = FlattenSeq(ss)
  BY DEF BatchTransactions
<1> HIDE DEF ss
<1>4. \A i \in 1..n : ss[i] \in Seq(S)
  BY <1>2
<1>5. ss \in Seq(Seq(S)) /\ Len(ss) = n
  BY <1>2, <1>4, ListOf
<1>6. /\ FlattenSeq(ss) \in Seq(S)
      /\ Range(FlattenSeq(ss)) = UNION {Range(ss[i]) : i \in 1..Len(ss)}
  BY <1>5, FlatIsSeq
<1>7. \A x : x \in UNION {Range(ss[i]) : i \in 1..Len(ss)} <=>
                \E i \in 1..n : x \in Range(batch[i].transactions)
  <2>1. \A i \in 1..n : Range(ss[i]) = Range(batch[i].transactions)
    BY <1>2, Zenon
  <2>2. 1..Len(ss) = 1..n
    BY <1>5
  <2> QED BY <2>1, <2>2, Zenon
<1> QED BY <1>3, <1>6, <1>7

\* What a batch adds to the pending transactions, and what is then mined: the
\* rest is pending, in nonce order, and no key disappears.
LEMMA SettlesTheBatch ==
    ASSUME NEW S, NEW n \in Nat, NEW batch, batch = [i \in 1..n |-> batch[i]],
           \A i \in 1..n : batch[i].transactions \in Seq(S),
           NEW pending \in Seq(S), \A x \in S : x.nonce \in Nat, NEW tx_hashes, NEW left,
           left = Without(create_proposal_transactions(pending, batch), tx_hashes)
    PROVE  /\ create_proposal_transactions(pending, batch) \in Seq(S)
           /\ left \in Seq(S) /\ NonceOrder(left)
           /\ Range(left) \subseteq Range(pending) \cup Range(BatchTransactions(batch))
           /\ Keys(Range(pending) \cup Range(BatchTransactions(batch)))
                  \subseteq Keys(tx_hashes) \cup Keys(Range(left))
<1>1. PICK given : given = BatchTransactions(batch)
  OBVIOUS
<1>2. given \in Seq(S)
  BY <1>1, BatchTransactionsAre
<1>3. pending \o given \in Seq(S) /\ Range(pending \o given) = Range(pending) \cup Range(given)
  BY <1>2, ConcatProperties, RangeConcatenation
<1>4. PICK txs : txs = create_proposal_transactions(pending, batch)
  OBVIOUS
<1>5. /\ txs \in Seq(S)
      /\ Range(txs) \subseteq Range(pending) \cup Range(given)
      /\ Keys(Range(txs)) = Keys(Range(pending) \cup Range(given))
  BY <1>1, <1>3, <1>4, ProposalFills, ProposalKeys
<1>6. NonceOrder(txs)
  BY <1>1, <1>3, <1>4, ProposalsAreAsCommitted DEF AsCommitted
<1>7. /\ left \in Seq(S) /\ NonceOrder(left)
      /\ Range(left) = Range(txs) \ tx_hashes
  BY <1>4, <1>5, <1>6, WithoutKeeps
<1>8. Keys(Range(txs)) \subseteq Keys(tx_hashes) \cup Keys(Range(left))
  BY <1>7 DEF Keys
<1> QED BY <1>1, <1>4, <1>5, <1>7, <1>8

\* The lists of the sub-DAGs.
LEMMA GivenTypes ==
    /\ \A s \in Subdags : s.transactions \in Seq(GivenTxs)
    /\ \A x \in GivenTxs : x.nonce \in Nat
<1>1. ASSUME NEW s \in Subdags PROVE s.transactions \in Seq(GivenTxs)
  <2>1. Range(s.transactions) \subseteq GivenTxs
    BY DEF GivenTxs
  <2> QED BY <2>1, SubdagsHaveTransactions, SeqMonotonic
<1> QED BY <1>1, SubdagsHaveTransactions DEF GivenTxs

-----------------------------------------------------------------------------
(* The queue, and what the calls leave of the pool.                        *)

\* A sub-DAG of the queue after an insertion was there or was inserted.
LEMMA InsertedOrKept ==
    ASSUME NEW queue, NEW v, DOMAIN v = 1..Len(v), Len(v) \in Nat,
           NEW r \in DOMAIN WithSubdags(queue, v)
    PROVE  \/ r \in DOMAIN queue /\ WithSubdags(queue, v)[r] = queue[r]
           \/ \E i \in DOMAIN v : v[i].round = r /\ WithSubdags(queue, v)[r] = v[i]
<1> DEFINE Of == {i \in DOMAIN v : v[i].round = r}
<1>1. /\ r \in DOMAIN queue \cup {v[i].round : i \in DOMAIN v}
      /\ WithSubdags(queue, v)[r] = IF Of = {} THEN queue[r] ELSE v[Max(Of)]
  BY DEF WithSubdags
<1>2. CASE Of = {}
  BY <1>1, <1>2
<1>3. CASE Of # {}
  <2>1. Of \in SUBSET Nat /\ \A x \in Of : x <= Len(v)
    OBVIOUS
  <2> HIDE DEF Of
  <2>2. Max(Of) \in Of
    BY <1>3, <2>1, GreatestOf
  <2> QED BY <1>1, <1>3, <2>2 DEF Of
<1> QED BY <1>2, <1>3

\* Adding one sub-DAG files it under its round and keeps the other rounds.
LEMMA AddingOne ==
    ASSUME NEW queue, NEW s \in Subdags
    PROVE  /\ DOMAIN WithSubdags(queue, <<s>>) = DOMAIN queue \cup {s.round}
           /\ \A r \in DOMAIN WithSubdags(queue, <<s>>) :
                 WithSubdags(queue, <<s>>)[r] = IF r = s.round THEN s ELSE queue[r]
<1> DEFINE v == <<s>>
           Of(r) == {i \in DOMAIN v : v[i].round = r}
<1>1. DOMAIN v = {1} /\ v[1] = s
  OBVIOUS
<1>2. \A r : Of(r) = IF r = s.round THEN {1} ELSE {}
  BY <1>1
<1>3. Max({1}) = 1
  <2>1. \E x \in {1} : \A y \in {1} : x >= y
    OBVIOUS
  <2>2. Max({1}) = CHOOSE x \in {1} : \A y \in {1} : x >= y
    BY DEF Max
  <2> QED BY <2>1, <2>2
<1>4. WithSubdags(queue, v) =
         [r \in DOMAIN queue \cup {v[i].round : i \in DOMAIN v} |->
            IF Of(r) = {} THEN queue[r] ELSE v[Max(Of(r))]]
  BY DEF WithSubdags
<1>5. {v[i].round : i \in DOMAIN v} = {s.round}
  BY <1>1
<1> HIDE DEF Of, v
<1>6. /\ DOMAIN WithSubdags(queue, v) = DOMAIN queue \cup {s.round}
      /\ \A r \in DOMAIN WithSubdags(queue, v) :
            WithSubdags(queue, v)[r] = IF r = s.round THEN s ELSE queue[r]
  BY <1>1, <1>2, <1>3, <1>4, <1>5
<1> QED BY <1>6 DEF v

\* A queued batch is enough for a proposal.
LEMMA BatchIsEnough ==
    ASSUME NEW index \in Nat, NEW queue, HasBatch(index, queue),
           IsFiniteSet(DOMAIN queue)
    PROVE  ProposalHasEnough(queue)
<1>1. K \in Nat
  BY BatchSizeIsNat DEF K
<1>2. Cardinality(BatchRounds(index)) = K
  <2>1. index + K - 1 \in Int
    BY <1>1
  <2>2. Cardinality(index .. (index + K - 1)) =
           IF index > index + K - 1 THEN 0 ELSE (index + K - 1) - index + 1
    BY <2>1, FS_Interval
  <2> QED BY <1>1, <2>2 DEF BatchRounds
<1>3. BatchRounds(index) \subseteq DOMAIN queue
  BY DEF HasBatch
<1>4. Cardinality(BatchRounds(index)) <= Cardinality(DOMAIN queue)
  BY <1>3, FS_Subset
<1>5. Cardinality(DOMAIN queue) \in Nat
  BY FS_CardinalityType
<1> QED BY <1>1, <1>2, <1>4, <1>5 DEF ProposalHasEnough

\* The sub-DAGs of a batch that is queued.
LEMMA BatchIsQueued ==
    ASSUME PoolTypeOK, HasBatch(next_committed_index, commited_queue), NEW i \in 1..K
    PROVE  /\ next_committed_index + i - 1 \in DOMAIN commited_queue
           /\ Batch(next_committed_index, commited_queue)[i] =
                 commited_queue[next_committed_index + i - 1]
           /\ Batch(next_committed_index, commited_queue)[i].transactions \in Seq(GivenTxs)
<1>0. K \in Nat
  BY BatchSizeIsNat DEF K
<1>1. next_committed_index + i - 1 \in BatchRounds(next_committed_index)
  BY <1>0 DEF BatchRounds, PoolTypeOK
<1>2. next_committed_index + i - 1 \in DOMAIN commited_queue
  BY <1>1 DEF HasBatch
<1>3. Batch(next_committed_index, commited_queue)[i] =
         commited_queue[next_committed_index + i - 1]
  BY DEF Batch
<1> QED BY <1>2, <1>3, GivenTypes DEF PoolTypeOK

\* A pool without sub-DAGs has nothing pending and nothing drained.
LEMMA RestAtFirst == PoolInit => PendingIsTheRest
<1> SUFFICES ASSUME PoolInit PROVE PendingIsTheRest
  OBVIOUS
<1> USE DEF PoolInit
<1>1. Range(<< >>) = {} /\ DOMAIN << >> = {} /\ << >> \in Seq(GivenTxs)
  BY DEF Range
<1>2. PendingInNonceOrder
  BY <1>1 DEF PendingInNonceOrder, NonceOrder
<1>3. NothingDisappears
  BY DEF NothingDisappears, Keys
<1> QED BY <1>1, <1>2, <1>3 DEF PendingIsTheRest, PoolTypeOK

LEMMA RestUntouched ==
    ASSUME PendingIsTheRest, UNCHANGED poolVars
    PROVE  PendingIsTheRest'
BY DEF PendingIsTheRest, PoolTypeOK, poolVars, PendingInNonceOrder, NothingDisappears

\* Sub-DAGs that are added leave what is pending alone.
LEMMA RestAfterAdd ==
    ASSUME PendingIsTheRest, NEW v \in Seq(Subdags), add_committed_subdags(v)
    PROVE  /\ PendingIsTheRest'
           /\ \A r \in DOMAIN commited_queue' :
                 \/ r \in DOMAIN commited_queue /\ commited_queue'[r] = commited_queue[r]
                 \/ \E i \in DOMAIN v : v[i].round = r /\ commited_queue'[r] = v[i]
<1> USE DEF PendingIsTheRest, PoolTypeOK
<1>0. DOMAIN v = 1..Len(v) /\ Len(v) \in Nat /\ \A i \in DOMAIN v : v[i] \in Subdags
  BY LenProperties, ElementOfSeq
<1>1. /\ v # << >>
      /\ commited_queue' = WithSubdags(commited_queue, v)
      /\ UNCHANGED <<next_committed_index, pending_transactions, drained, mined>>
      /\ first_committed_subdag' \in {first_committed_subdag, Head(v)}
  BY DEF add_committed_subdags
<1>2. Head(v) \in Subdags
  <2>1. 1 \in 1..Len(v)
    BY <1>0, <1>1, EmptySeq
  <2> QED BY <1>0, <2>1
<1>3. DOMAIN commited_queue' = DOMAIN commited_queue \cup {v[i].round : i \in DOMAIN v}
  BY <1>1 DEF WithSubdags
<1>4. \A i \in DOMAIN v : v[i].round \in Nat
  BY <1>0, SubdagsHaveRounds
<1>5. ASSUME NEW r \in DOMAIN commited_queue'
      PROVE  \/ r \in DOMAIN commited_queue /\ commited_queue'[r] = commited_queue[r]
             \/ \E i \in DOMAIN v : v[i].round = r /\ commited_queue'[r] = v[i]
  BY <1>0, <1>1, InsertedOrKept
<1>6. \A r \in DOMAIN commited_queue' :
         commited_queue'[r] \in Subdags /\ commited_queue'[r].round = r
  BY <1>0, <1>5
<1>7. NothingDisappears' /\ PendingInNonceOrder'
  BY <1>1 DEF NothingDisappears, PendingInNonceOrder
<1> QED BY <1>1, <1>2, <1>3, <1>4, <1>5, <1>6, <1>7

\* A batch that is settled leaves no key of it behind.
LEMMA RestAfterMine ==
    ASSUME PendingIsTheRest, NEW tx_hashes, update_mined_block(tx_hashes)
    PROVE  /\ PendingIsTheRest'
           /\ \A r \in DOMAIN commited_queue' :
                 r \in DOMAIN commited_queue /\ commited_queue'[r] = commited_queue[r]
           /\ \A i \in 1..K :
                 Range(commited_queue[next_committed_index + i - 1].transactions)
                     \subseteq drained'
<1> USE DEF PendingIsTheRest, PoolTypeOK
<1> DEFINE taken == Batch(next_committed_index, commited_queue)
<1>0. K \in Nat
  BY BatchSizeIsNat DEF K
<1>1. /\ HasBatch(next_committed_index, commited_queue)
      /\ commited_queue' = Restrict(commited_queue,
             DOMAIN commited_queue \ BatchRounds(next_committed_index))
      /\ pending_transactions' =
             Without(create_proposal_transactions(pending_transactions, taken), tx_hashes)
      /\ next_committed_index' = next_committed_index + K
      /\ drained' = drained \cup Range(BatchTransactions(taken))
      /\ mined' = mined \cup tx_hashes
      /\ UNCHANGED first_committed_subdag
  BY DEF update_mined_block, Unmined
<1>2. ASSUME NEW i \in 1..K
      PROVE  /\ taken[i] = commited_queue[next_committed_index + i - 1]
             /\ taken[i].transactions \in Seq(GivenTxs)
  BY <1>1, BatchIsQueued
<1>3. taken = [i \in 1..K |-> taken[i]]
  BY DEF Batch
<1> HIDE DEF taken
<1>4. PICK given : given = Range(BatchTransactions(taken))
  OBVIOUS
<1>5. ASSUME NEW i \in 1..K PROVE Range(taken[i].transactions) \subseteq given
  <2>1. \A l \in 1..K : taken[l].transactions \in Seq(GivenTxs)
    BY <1>2
  <2>2. \A x : x \in Range(BatchTransactions(taken)) <=>
                  \E l \in 1..K : x \in Range(taken[l].transactions)
    BY <1>0, <1>3, <2>1, BatchTransactionsAre
  <2> QED BY <1>4, <2>2
<1>6. /\ pending_transactions' \in Seq(GivenTxs) /\ NonceOrder(pending_transactions')
      /\ Range(pending_transactions') \subseteq Range(pending_transactions) \cup given
      /\ Keys(Range(pending_transactions) \cup given)
             \subseteq Keys(tx_hashes) \cup Keys(Range(pending_transactions'))
  <2>1. PICK left : left = Without(
           create_proposal_transactions(pending_transactions, taken), tx_hashes)
    OBVIOUS
  <2>2. /\ left \in Seq(GivenTxs) /\ NonceOrder(left)
        /\ Range(left) \subseteq Range(pending_transactions) \cup given
        /\ Keys(Range(pending_transactions) \cup given)
               \subseteq Keys(tx_hashes) \cup Keys(Range(left))
    BY <1>0, <1>2, <1>3, <1>4, <2>1, GivenTypes, SettlesTheBatch
  <2> QED BY <1>1, <2>1, <2>2
<1>7. NothingDisappears'
  <2>1. Keys(drained \cup given) \subseteq Keys(mined \cup tx_hashes) \cup
                                           Keys(Range(pending_transactions'))
    BY <1>6 DEF NothingDisappears, Keys
  <2> QED BY <1>1, <1>4, <2>1 DEF NothingDisappears
<1>8. ASSUME NEW r \in DOMAIN commited_queue'
      PROVE  r \in DOMAIN commited_queue /\ commited_queue'[r] = commited_queue[r]
  BY <1>1 DEF Restrict
<1>9. /\ DOMAIN commited_queue' \subseteq Nat
      /\ \A r \in DOMAIN commited_queue' :
            commited_queue'[r] \in Subdags /\ commited_queue'[r].round = r
  BY <1>8
<1>10. Range(pending_transactions') \subseteq drained'
  BY <1>1, <1>4, <1>6
<1>11. next_committed_index' \in Nat \ {0}
  BY <1>0, <1>1
<1>12. \A i \in 1..K :
          Range(commited_queue[next_committed_index + i - 1].transactions) \subseteq drained'
  BY <1>1, <1>2, <1>4, <1>5
<1> QED BY <1>1, <1>6, <1>7, <1>8, <1>9, <1>10, <1>11, <1>12 DEF PendingInNonceOrder

-----------------------------------------------------------------------------
(* What executes of a list.                                                *)

\* f gives the account nonces after each of the first n transactions.
Counts(f, nonces, txs, n) ==
    f = [i \in 0..n |->
            IF i = 0 THEN nonces
            ELSE [f[i - 1] EXCEPT ![txs[i].sender] =
                     IF txs[i].nonce = @ THEN @ + 1 ELSE @]]

\* The recursive function that NoncesAfter is written with exists.
LEMMA CountsExist ==
    ASSUME NEW nonces, NEW txs, NEW n \in Nat
    PROVE  \E f : Counts(f, nonces, txs, n)
<1> DEFINE Then(f, i) == [f EXCEPT ![txs[i].sender] = IF txs[i].nonce = @ THEN @ + 1 ELSE @]
           Bad == {m \in Nat : ~ \E f : Counts(f, nonces, txs, m)}
           m == Min(Bad)
<1>0. \A f, l : Counts(f, nonces, txs, l) <=>
                   f = [i \in 0..l |-> IF i = 0 THEN nonces ELSE Then(f[i - 1], i)]
  BY Zenon DEF Counts
<1> HIDE DEF Then
<1> SUFFICES ASSUME Bad # {} PROVE FALSE
  OBVIOUS
<1>1. m \in Nat /\ m \in Bad /\ \A x \in Bad : m <= x
  BY LeastOf
<1> HIDE DEF m
<1>2. CASE m = 0
  <2> DEFINE g == [i \in 0..0 |-> nonces]
  <2>1. \A i \in 0..0 : i = 0
    OBVIOUS
  <2>2. g = [i \in 0..0 |-> IF i = 0 THEN nonces ELSE Then(g[i - 1], i)]
    BY <2>1
  <2>3. Counts(g, nonces, txs, 0)
    BY <1>0, <2>2, Zenon
  <2> QED BY <1>1, <1>2, <2>3
<1>3. CASE m # 0
  <2>1. m - 1 \in Nat /\ m - 1 \notin Bad
    BY <1>1, <1>3
  <2>2. PICK f : Counts(f, nonces, txs, m - 1)
    BY <2>1
  <2> DEFINE g == [i \in 0..m |-> IF i = 0 THEN nonces ELSE Then(f[i - 1], i)]
  <2>3. f = [i \in 0..(m - 1) |-> IF i = 0 THEN nonces ELSE Then(f[i - 1], i)]
    BY <1>0, <2>2, Zenon
  <2>4. \A i \in 0..(m - 1) : g[i] = f[i]
    <3>1. \A i \in 0..(m - 1) : i \in 0..m
      BY <1>1
    <3>2. \A i \in 0..(m - 1) : f[i] = IF i = 0 THEN nonces ELSE Then(f[i - 1], i)
      BY <2>3, Zenon
    <3> QED BY <3>1, <3>2
  <2>5. \A i \in 0..m : i # 0 => i - 1 \in 0..(m - 1)
    BY <1>1
  <2>6. g = [i \in 0..m |-> IF i = 0 THEN nonces ELSE Then(g[i - 1], i)]
    BY <2>4, <2>5
  <2>7. Counts(g, nonces, txs, m)
    BY <1>0, <2>6, Zenon
  <2> QED BY <1>1, <2>7
<1> QED BY <1>2, <1>3

\* The account nonces after a list are those after each of its transactions.
LEMMA NoncesCount ==
    ASSUME NEW nonces, NEW txs, Len(txs) \in Nat
    PROVE  Counts(NoncesAfter(nonces, txs), nonces, txs, Len(txs))
<1>1. PICK n \in Nat : n = Len(txs)
  OBVIOUS
<1> DEFINE f == CHOOSE f : Counts(f, nonces, txs, n)
<1>2. Counts(f, nonces, txs, n)
  BY CountsExist
<1>3. NoncesAfter(nonces, txs) = f
  BY <1>1 DEF NoncesAfter, Counts
<1> QED BY <1>1, <1>2, <1>3

\* A list of transactions of the accounts S.
IsList(S, nonces, txs) ==
    /\ nonces \in [S -> Nat]
    /\ Len(txs) \in Nat /\ DOMAIN txs = 1..Len(txs)
    /\ \A i \in 1..Len(txs) : txs[i].sender \in S /\ txs[i].nonce \in Nat

\* The i-th transaction executes.
Runs(f, txs, i) == txs[i].nonce = f[i - 1][txs[i].sender]

LEMMA NoncesTyped ==
    ASSUME NEW S, NEW nonces, NEW txs, IsList(S, nonces, txs),
           NEW f, f = NoncesAfter(nonces, txs)
    PROVE  /\ f[0] = nonces
           /\ \A i \in 0..Len(txs) : f[i] \in [S -> Nat]
           /\ \A i \in 1..Len(txs) : \A s \in S :
                 f[i][s] = IF txs[i].sender = s /\ Runs(f, txs, i)
                           THEN f[i - 1][s] + 1 ELSE f[i - 1][s]
<1>1. PICK n \in Nat : n = Len(txs)
  BY DEF IsList
<1>2. Counts(f, nonces, txs, n)
  BY <1>1, NoncesCount
<1>3. f[0] = nonces
  <2>1. 0 \in 0..n
    BY <1>1
  <2> QED BY <1>2, <2>1, Zenon DEF Counts
<1>4. ASSUME NEW i \in 1..n
      PROVE  f[i] = [f[i - 1] EXCEPT ![txs[i].sender] =
                        IF txs[i].nonce = @ THEN @ + 1 ELSE @]
  <2>1. i \in 0..n /\ i # 0
    BY <1>1
  <2> QED BY <1>2, <2>1, Zenon DEF Counts
<1> DEFINE G == {i \in 0..n : f[i] \in [S -> Nat]}
<1>5. ASSUME NEW m \in (0 + 1)..n, m - 1 \in G PROVE m \in G
  <2>1. m \in 1..n /\ f[m - 1] \in [S -> Nat]
    BY <1>1, <1>5
  <2>2. PICK g \in [S -> Nat] : g = f[m - 1]
    BY <2>1
  <2>3. PICK s \in S, k \in Nat : s = txs[m].sender /\ k = txs[m].nonce
    BY <1>1, <2>1 DEF IsList
  <2>4. f[m] = [g EXCEPT ![s] = IF k = @ THEN @ + 1 ELSE @]
    BY <1>4, <2>1, <2>2, <2>3
  <2>5. f[m] \in [S -> Nat]
    BY <2>4
  <2> QED BY <1>1, <2>5
<1>6. 0 \in G
  BY <1>1, <1>3 DEF IsList
<1> HIDE DEF G
<1>7. ASSUME NEW i \in 0..n PROVE i \in G
  <2>1. \A m \in (0 + 1)..i : m - 1 \in G => m \in G
    BY <1>1, <1>5
  <2> QED BY <1>6, <2>1, UpTo
<1>8. \A i \in 0..n : f[i] \in [S -> Nat]
  BY <1>7 DEF G
<1>9. ASSUME NEW i \in 1..n, NEW s \in S
      PROVE  f[i][s] = IF txs[i].sender = s /\ Runs(f, txs, i)
                       THEN f[i - 1][s] + 1 ELSE f[i - 1][s]
  <2>1. f[i - 1] \in [S -> Nat]
    BY <1>1, <1>8
  <2>2. PICK g \in [S -> Nat] : g = f[i - 1]
    BY <2>1
  <2>3. PICK t \in S, k \in Nat : t = txs[i].sender /\ k = txs[i].nonce
    BY <1>1 DEF IsList
  <2>4. f[i] = [g EXCEPT ![t] = IF k = @ THEN @ + 1 ELSE @]
    BY <1>4, <2>2, <2>3
  <2>5. f[i][s] = IF t = s /\ k = g[t] THEN g[s] + 1 ELSE g[s]
    BY <2>4
  <2>6. Runs(f, txs, i) <=> k = g[t]
    BY <2>2, <2>3 DEF Runs
  <2> QED BY <2>2, <2>3, <2>5, <2>6
<1> QED BY <1>1, <1>3, <1>8, <1>9

\* A nonce that an account has passed was the nonce of a transaction that executed.
LEMMA PassedByOne ==
    ASSUME NEW S, NEW nonces, NEW txs, IsList(S, nonces, txs),
           NEW f, f = NoncesAfter(nonces, txs), NEW s \in S,
           NEW i \in 0..Len(txs), NEW m \in 0..Len(txs), i <= m
    PROVE  /\ f[i][s] \in Nat /\ f[m][s] \in Nat
           /\ f[i][s] <= f[m][s]
           /\ \A k \in Nat : f[i][s] <= k /\ k < f[m][s] =>
                 \E j \in (i + 1)..m :
                     txs[j].sender = s /\ txs[j].nonce = k /\ Runs(f, txs, j)
<1>1. PICK n \in Nat : n = Len(txs)
  BY DEF IsList
<1>2. \A l \in 0..n : f[l] \in [S -> Nat]
  BY <1>1, NoncesTyped
<1>3. \A l \in 1..n : f[l][s] = IF txs[l].sender = s /\ Runs(f, txs, l)
                                THEN f[l - 1][s] + 1 ELSE f[l - 1][s]
  BY <1>1, NoncesTyped
<1> DEFINE Passed(l) == \A k \in Nat : f[i][s] <= k /\ k < f[l][s] =>
                           \E j \in (i + 1)..l :
                               txs[j].sender = s /\ txs[j].nonce = k /\ Runs(f, txs, j)
           G == {l \in i..m : f[i][s] <= f[l][s] /\ Passed(l)}
<1>4. \A l \in i..m : f[l][s] \in Nat
  BY <1>1, <1>2
<1>5. i \in G
  <2>1. f[i][s] \in Nat
    BY <1>1, <1>2
  <2>2. Passed(i)
    BY <2>1
  <2> QED BY <1>1, <2>1, <2>2
<1>6. ASSUME NEW l \in (i + 1)..m, l - 1 \in G PROVE l \in G
  <2>1. l \in 1..n /\ l - 1 \in i..m /\ l \in i..m
    BY <1>1
  <2>2. /\ f[i][s] \in Nat /\ f[l - 1][s] \in Nat /\ f[l][s] \in Nat
        /\ f[i][s] <= f[l - 1][s] /\ Passed(l - 1)
    BY <1>1, <1>4, <1>6, <2>1
  <2>3. CASE txs[l].sender = s /\ Runs(f, txs, l)
    <3>1. f[l][s] = f[l - 1][s] + 1 /\ txs[l].nonce = f[l - 1][s]
      BY <1>3, <2>1, <2>3 DEF Runs
    <3>2. ASSUME NEW k \in Nat, f[i][s] <= k, k < f[l][s]
          PROVE  \E j \in (i + 1)..l :
                     txs[j].sender = s /\ txs[j].nonce = k /\ Runs(f, txs, j)
      <4>1. CASE k = f[l - 1][s]
        BY <2>3, <3>1, <4>1
      <4>2. CASE k # f[l - 1][s]
        <5>1. k < f[l - 1][s]
          BY <2>2, <3>1, <3>2, <4>2
        <5>2. PICK j \in (i + 1)..(l - 1) :
                  txs[j].sender = s /\ txs[j].nonce = k /\ Runs(f, txs, j)
          BY <2>2, <3>2, <5>1
        <5>3. j \in (i + 1)..l
          BY <1>1
        <5> QED BY <5>2, <5>3
      <4> QED BY <4>1, <4>2
    <3>3. f[i][s] <= f[l][s]
      BY <2>2, <3>1
    <3> QED BY <2>1, <3>2, <3>3
  <2>4. CASE ~(txs[l].sender = s /\ Runs(f, txs, l))
    <3>1. f[l][s] = f[l - 1][s]
      BY <1>3, <2>1, <2>4
    <3>2. ASSUME NEW k \in Nat, f[i][s] <= k, k < f[l][s]
          PROVE  \E j \in (i + 1)..l :
                     txs[j].sender = s /\ txs[j].nonce = k /\ Runs(f, txs, j)
      <4>1. PICK j \in (i + 1)..(l - 1) :
                txs[j].sender = s /\ txs[j].nonce = k /\ Runs(f, txs, j)
        BY <2>2, <3>1, <3>2
      <4>2. j \in (i + 1)..l
        BY <1>1
      <4> QED BY <4>1, <4>2
    <3> QED BY <2>1, <2>2, <3>1, <3>2
  <2> QED BY <2>3, <2>4
<1> HIDE DEF G
<1>7. m \in G
  BY <1>1, <1>5, <1>6, UpTo
<1> QED BY <1>1, <1>4, <1>7 DEF G

\* The transactions of a list that execute, and the nonces after them.
LEMMA ExecutedAre ==
    ASSUME NEW S, NEW nonces, NEW txs, IsList(S, nonces, txs),
           NEW f, f = NoncesAfter(nonces, txs)
    PROVE  /\ \A x : x \in Executed(nonces, txs) <=>
                        \E i \in 1..Len(txs) : x = txs[i] /\ Runs(f, txs, i)
           /\ \A i, j \in 1..Len(txs) :
                 /\ Runs(f, txs, i) /\ Runs(f, txs, j)
                 /\ txs[i].sender = txs[j].sender /\ txs[i].nonce = txs[j].nonce
                 => i = j
           /\ Advance(nonces, Executed(nonces, txs)) = f[Len(txs)]
<1>1. PICK n \in Nat : n = Len(txs) /\ DOMAIN txs = 1..n
  BY DEF IsList
<1>2. \A l \in 0..n : f[l] \in [S -> Nat]
  BY <1>1, NoncesTyped
<1>3. \A x : x \in Executed(nonces, txs) <=> \E i \in 1..n : x = txs[i] /\ Runs(f, txs, i)
  <2>1. Executed(nonces, txs) =
            {txs[i] : i \in {j \in 1..n : txs[j].nonce = f[j - 1][txs[j].sender]}}
    BY <1>1 DEF Executed
  <2> QED BY <2>1 DEF Runs
<1>4. \A i \in 1..n : txs[i].sender \in S /\ txs[i].nonce \in Nat
  BY <1>1 DEF IsList
<1>5. ASSUME NEW i \in 1..n, NEW j \in 1..n, Runs(f, txs, i), Runs(f, txs, j),
             txs[i].sender = txs[j].sender, txs[i].nonce = txs[j].nonce, i < j
      PROVE  FALSE
  <2>1. PICK s \in S : s = txs[i].sender
    BY <1>4
  <2>2. f[i][s] = f[i - 1][s] + 1
    BY <1>1, <1>5, <2>1, NoncesTyped
  <2>3. i \in 0..n /\ j - 1 \in 0..n /\ i <= j - 1 /\ i - 1 \in 0..n
    BY <1>5
  <2>4. f[i][s] <= f[j - 1][s]
    BY <1>1, <2>3, PassedByOne
  <2>5. f[i - 1][s] = f[j - 1][s]
    BY <1>5, <2>1 DEF Runs
  <2>6. f[i - 1][s] \in Nat
    BY <1>2, <2>3
  <2> QED BY <2>2, <2>4, <2>5, <2>6
<1>6. \A i, j \in 1..n :
         /\ Runs(f, txs, i) /\ Runs(f, txs, j)
         /\ txs[i].sender = txs[j].sender /\ txs[i].nonce = txs[j].nonce
         => i = j
  <2> SUFFICES ASSUME NEW i \in 1..n, NEW j \in 1..n, Runs(f, txs, i), Runs(f, txs, j),
                      txs[i].sender = txs[j].sender, txs[i].nonce = txs[j].nonce
               PROVE  i = j
    OBVIOUS
  <2>1. ~(i < j) /\ ~(j < i)
    BY <1>5
  <2> QED BY <2>1
<1> DEFINE E == Executed(nonces, txs)
<1>7. ASSUME NEW s \in S
      PROVE  nonces[s] + Cardinality({tx \in E : tx.sender = s}) = f[n][s]
  <2> DEFINE T == {tx \in E : tx.sender = s}
  <2>1. /\ f[0] = nonces
        /\ f[0][s] \in Nat /\ f[n][s] \in Nat /\ f[0][s] <= f[n][s]
        /\ \A k \in Nat : f[0][s] <= k /\ k < f[n][s] =>
              \E j \in 1..n : txs[j].sender = s /\ txs[j].nonce = k /\ Runs(f, txs, j)
    <3>1. 0 \in 0..n /\ n \in 0..n /\ 0 <= n /\ 0 + 1 = 1
      OBVIOUS
    <3> QED BY <1>1, <3>1, NoncesTyped, PassedByOne
  <2>2. PICK a \in Nat : a = nonces[s]
    BY <2>1
  <2>3. PICK b \in Nat : a + b = f[n][s]
    <3>1. PICK c \in Nat : c = f[n][s]
      BY <2>1
    <3>2. c - a \in Nat /\ a + (c - a) = c
      BY <2>1, <2>2, <3>1
    <3> QED BY <3>1, <3>2
  <2>4. \A tx \in T : tx \in E /\ tx.sender = s
    OBVIOUS
  <2>5. \A k \in 1..b : \E tx \in T : tx.nonce = a + k - 1
    <3> SUFFICES ASSUME NEW k \in 1..b PROVE \E tx \in T : tx.nonce = a + k - 1
      OBVIOUS
    <3>1. a + k - 1 \in Nat /\ f[0][s] <= a + k - 1 /\ a + k - 1 < f[n][s]
      BY <2>1, <2>2, <2>3
    <3>2. PICK j \in 1..n :
              txs[j].sender = s /\ txs[j].nonce = a + k - 1 /\ Runs(f, txs, j)
      BY <2>1, <3>1
    <3>3. txs[j] \in E
      BY <1>3, <3>2
    <3> QED BY <3>2, <3>3
  <2>6. \A tx \in T : \E k \in 1..b : tx.nonce = a + k - 1
    <3> SUFFICES ASSUME NEW tx \in T PROVE \E k \in 1..b : tx.nonce = a + k - 1
      OBVIOUS
    <3>1. PICK j \in 1..n : tx = txs[j] /\ Runs(f, txs, j)
      BY <1>3
    <3>2. txs[j].sender = s /\ txs[j].nonce = f[j - 1][s]
      BY <3>1 DEF Runs
    <3>3. f[j][s] = f[j - 1][s] + 1
      BY <1>1, <3>1, <3>2, NoncesTyped
    <3>4. /\ j - 1 \in 0..n /\ j \in 0..n /\ 0 \in 0..n /\ n \in 0..n
          /\ 0 <= j - 1 /\ j <= n
      OBVIOUS
    <3>5. f[0][s] <= f[j - 1][s] /\ f[j][s] <= f[n][s]
      BY <1>1, <3>4, PassedByOne
    <3>6. PICK c \in Nat : c = f[j - 1][s]
      BY <1>2, <3>4
    <3>7. a <= c /\ c + 1 <= a + b
      BY <2>1, <2>2, <2>3, <3>3, <3>5, <3>6
    <3>8. c - a + 1 \in 1..b /\ c = a + (c - a + 1) - 1
      BY <3>7
    <3> QED BY <3>1, <3>2, <3>6, <3>8
  <2>7. \A x, y \in T : x.nonce = y.nonce => x = y
    <3> SUFFICES ASSUME NEW x \in T, NEW y \in T, x.nonce = y.nonce PROVE x = y
      OBVIOUS
    <3>1. PICK i \in 1..n : x = txs[i] /\ Runs(f, txs, i)
      BY <1>3
    <3>2. PICK j \in 1..n : y = txs[j] /\ Runs(f, txs, j)
      BY <1>3
    <3>3. i = j
      BY <1>6, <3>1, <3>2
    <3> QED BY <3>1, <3>2, <3>3
  <2> HIDE DEF T
  <2> DEFINE g == [k \in 1..b |-> CHOOSE tx \in T : tx.nonce = a + k - 1]
  <2>8. \A k \in 1..b : g[k] \in T /\ g[k].nonce = a + k - 1
    BY <2>5
  <2> HIDE DEF g
  <2>9. \A x \in T : \E k \in 1..b : g[k] = x
    <3> SUFFICES ASSUME NEW x \in T PROVE \E k \in 1..b : g[k] = x
      OBVIOUS
    <3>1. PICK k \in 1..b : x.nonce = a + k - 1
      BY <2>6
    <3>2. g[k] \in T /\ g[k].nonce = x.nonce
      BY <2>8, <3>1
    <3> QED BY <2>7, <3>2
  <2>10. \A k, l \in 1..b : g[k] = g[l] => k = l
    <3> SUFFICES ASSUME NEW k \in 1..b, NEW l \in 1..b, g[k] = g[l] PROVE k = l
      OBVIOUS
    <3>1. a + k - 1 = a + l - 1
      BY <2>8
    <3> QED BY <3>1
  <2>11. Cardinality(T) = b
    BY <2>8, <2>9, <2>10, Numbered
  <2> QED BY <2>2, <2>3, <2>11 DEF T
<1> HIDE DEF E
<1>8. Advance(nonces, E) = f[n]
  <2>1. DOMAIN nonces = S /\ f[n] \in [S -> Nat]
    BY <1>1, <1>2 DEF IsList
  <2>2. Advance(nonces, E) = [s \in S |-> nonces[s] + Cardinality({tx \in E : tx.sender = s})]
    BY <2>1 DEF Advance
  <2>3. \A s \in S : Advance(nonces, E)[s] = f[n][s]
    BY <1>7, <2>2
  <2>4. PICK g \in [S -> Nat] : g = f[n]
    BY <2>1
  <2>5. g = [s \in S |-> g[s]]
    BY <2>4
  <2> QED BY <1>7, <2>2, <2>4, <2>5, Zenon
<1> QED BY <1>1, <1>3, <1>6, <1>8 DEF E

-----------------------------------------------------------------------------
(* What stays pending once all of a proposal that can execute has.         *)

\* What is left has not the next nonce of its sender; what has a nonce that its
\* sender had not reached when the block was built has not reached it since.
LEMMA LeftWait ==
    ASSUME NEW S, NEW nonces, NEW txs, IsList(S, nonces, txs), NonceOrder(txs),
           NEW i \in 1..Len(txs), txs[i] \notin Executed(nonces, txs),
           NEW next, next = Advance(nonces, Executed(nonces, txs))
    PROVE  /\ txs[i].nonce # next[txs[i].sender]
           /\ txs[i].nonce >= nonces[txs[i].sender] => txs[i].nonce >= next[txs[i].sender]
<1>1. PICK n \in Nat : n = Len(txs) /\ DOMAIN txs = 1..n
  BY DEF IsList
<1>2. PICK f : f = NoncesAfter(nonces, txs)
  OBVIOUS
<1>3. next = f[n]
  BY <1>1, <1>2, ExecutedAre
<1>4. PICK s \in S, k \in Nat : s = txs[i].sender /\ k = txs[i].nonce
  BY DEF IsList
<1>5. \A j \in 1..n : Runs(f, txs, j) => txs[j] \in Executed(nonces, txs)
  BY <1>1, <1>2, ExecutedAre
<1>6. i \in 1..n /\ i - 1 \in 0..n /\ i \in 0..n /\ n \in 0..n /\ 0 \in 0..n
      /\ i - 1 <= i /\ i <= n /\ 0 <= n /\ i - 1 <= n
  BY <1>1
<1>7. ~ Runs(f, txs, i)
  BY <1>5, <1>6
<1>8. ASSUME NEW j \in 1..n, Runs(f, txs, j), txs[j].sender = s PROVE txs[j].nonce # k
  <2>1. SUFFICES ASSUME txs[j].nonce = k PROVE FALSE
    OBVIOUS
  <2>2. i # j
    BY <1>7, <1>8
  <2>3. i \in DOMAIN txs /\ j \in DOMAIN txs /\ (i < j \/ j < i)
    BY <1>1, <1>6, <2>2
  <2>4. k < k
    BY <1>4, <1>8, <2>1, <2>3 DEF NonceOrder
  <2> QED BY <2>4
<1>9. k # f[n][s]
  <2>1. SUFFICES ASSUME k = f[n][s] PROVE FALSE
    OBVIOUS
  <2>2. f[i - 1][s] \in Nat /\ f[n][s] \in Nat /\ f[i - 1][s] <= f[n][s]
    BY <1>1, <1>2, <1>6, PassedByOne
  <2>3. f[i][s] = f[i - 1][s] /\ f[i - 1][s] # k
    <3>1. f[i][s] = IF txs[i].sender = s /\ Runs(f, txs, i)
                    THEN f[i - 1][s] + 1 ELSE f[i - 1][s]
      BY <1>1, <1>2, <1>6, NoncesTyped
    <3> QED BY <1>4, <1>7, <3>1 DEF Runs
  <2>4. f[i][s] <= f[i][s] /\ f[i][s] < f[n][s]
    BY <2>1, <2>2, <2>3
  <2>5. \A q \in Nat : f[i][s] <= q /\ q < f[n][s] =>
           \E j \in (i + 1)..n : txs[j].sender = s /\ txs[j].nonce = q /\ Runs(f, txs, j)
    BY <1>1, <1>2, <1>6, PassedByOne
  <2>6. PICK q \in Nat : q = f[i][s]
    BY <2>2, <2>3
  <2>7. PICK j \in (i + 1)..n : txs[j].sender = s /\ txs[j].nonce = q
    BY <2>4, <2>5, <2>6
  <2>8. i \in DOMAIN txs /\ j \in DOMAIN txs /\ i < j
    BY <1>1, <1>6
  <2>9. k < q
    BY <1>4, <2>7, <2>8 DEF NonceOrder
  <2> QED BY <2>1, <2>2, <2>3, <2>6, <2>9
<1>10. ASSUME k >= nonces[s] PROVE k >= f[n][s]
  <2>1. SUFFICES ASSUME k < f[n][s] PROVE FALSE
    <3>1. f[n][s] \in Nat
      BY <1>1, <1>2, <1>6, PassedByOne
    <3> QED BY <2>1, <3>1
  <2>2. f[0] = nonces /\ f[0][s] \in Nat
    BY <1>1, <1>2, <1>6, NoncesTyped, PassedByOne
  <2>3. f[0][s] <= k
    BY <1>10, <2>2
  <2>4. \A q \in Nat : f[0][s] <= q /\ q < f[n][s] =>
           \E j \in (0 + 1)..n : txs[j].sender = s /\ txs[j].nonce = q /\ Runs(f, txs, j)
    BY <1>1, <1>2, <1>6, PassedByOne
  <2>5. PICK j \in (0 + 1)..n : txs[j].sender = s /\ txs[j].nonce = k /\ Runs(f, txs, j)
    BY <2>1, <2>3, <2>4
  <2> QED BY <1>8, <2>5
<1> QED BY <1>3, <1>4, <1>9, <1>10

\* The nonces only grow, and a nonce passed is that of a transaction that executed.
LEMMA NoncesPassed ==
    ASSUME NEW S, NEW nonces, NEW txs, IsList(S, nonces, txs),
           NEW next, next = Advance(nonces, Executed(nonces, txs))
    PROVE  /\ next \in [S -> Nat]
           /\ \A s \in S, k \in Nat : nonces[s] <= k /\ k < next[s] =>
                 \E j \in 1..Len(txs) : txs[j].sender = s /\ txs[j].nonce = k
<1>1. PICK n \in Nat : n = Len(txs)
  BY DEF IsList
<1>2. PICK f : f = NoncesAfter(nonces, txs)
  OBVIOUS
<1>3. next = f[n]
  BY <1>1, <1>2, ExecutedAre
<1>4. f[0] = nonces /\ next \in [S -> Nat]
  BY <1>1, <1>2, <1>3, NoncesTyped
<1>5. ASSUME NEW s \in S, NEW k \in Nat, nonces[s] <= k, k < next[s]
      PROVE  \E j \in 1..Len(txs) : txs[j].sender = s /\ txs[j].nonce = k
  <2>1. 0 \in 0..n /\ n \in 0..n /\ 0 <= n /\ 0 + 1 = 1
    OBVIOUS
  <2>2. \E j \in (0 + 1)..n : txs[j].sender = s /\ txs[j].nonce = k /\ Runs(f, txs, j)
    BY <1>1, <1>2, <1>3, <1>4, <1>5, <2>1, PassedByOne
  <2> QED BY <1>1, <2>1, <2>2
<1> QED BY <1>4, <1>5

\* A transaction of the first m commits of a log.
CommittedBy(log, m, tx) == \E i \in 1..m : tx \in Range(log[i].transactions)

\* No transaction of a commit competes with one of another commit.
Unrivalled(log) ==
    \A i, j \in DOMAIN log :
        i # j => Keys(Range(log[i].transactions)) \cap Keys(Range(log[j].transactions)) = {}

\* Where a ledger that has taken the first m commits stands: what is pending was
\* committed and cannot execute, and a nonce that was passed was committed.
Waits(log, m, pending, nonces) ==
    /\ m \in 0..Len(log)
    /\ pending \in Seq(GivenTxs)
    /\ nonces \in [Senders(log) -> Nat]
    /\ \A tx \in Range(pending) :
          CommittedBy(log, m, tx) /\ tx.nonce # nonces[tx.sender]
    /\ \A s \in Senders(log), k \in Nat : k < nonces[s] =>
          \E tx : CommittedBy(log, m, tx) /\ tx.sender = s /\ tx.nonce = k
    /\ Unrivalled(log) => \A tx \in Range(pending) : tx.nonce >= nonces[tx.sender]

LEMMA CommittedIsGiven ==
    ASSUME NEW log \in Seq(Subdags), NEW m \in 0..Len(log), NEW tx, CommittedBy(log, m, tx)
    PROVE  tx \in GivenTxs /\ tx.sender \in Senders(log) /\ tx.nonce \in Nat
<1>1. PICK i \in 1..m : tx \in Range(log[i].transactions)
  BY DEF CommittedBy
<1>2. i \in DOMAIN log /\ log[i] \in Subdags
  BY LenProperties, ElementOfSeq
<1>3. tx \in GivenTxs
  BY <1>1, <1>2 DEF GivenTxs
<1>4. tx.sender \in Senders(log)
  BY <1>1, <1>2 DEF Senders
<1> QED BY <1>3, <1>4, GivenTypes

LEMMA WaitsAtFirst ==
    ASSUME NEW log \in Seq(Subdags)
    PROVE  Waits(log, 0, << >>, [s \in Senders(log) |-> 0])
<1>1. << >> \in Seq(GivenTxs) /\ Range(<< >>) = {}
  BY DEF Range
<1>2. 0 \in 0..Len(log)
  BY LenProperties
<1> QED BY <1>1, <1>2 DEF Waits

\* The batch after the first m commits of a log.
NextBatch(log, m, batch) ==
    /\ log \in Seq(Subdags) /\ m \in Nat /\ m + K <= Len(log)
    /\ batch = [i \in 1..K |-> log[m + i]]

LEMMA NextBatchTypes ==
    ASSUME NEW log, NEW m, NEW batch, NextBatch(log, m, batch)
    PROVE  /\ K \in Nat /\ m \in Nat /\ log \in Seq(Subdags)
           /\ m + K \in Nat /\ m \in 0..Len(log) /\ m + K \in 0..Len(log)
           /\ \A i \in 1..K : batch[i].transactions \in Seq(GivenTxs)
           /\ \A i \in 1..K : batch[i] = log[m + i]
           /\ batch = [i \in 1..K |-> batch[i]]
<1>1. K \in Nat /\ m \in Nat /\ log \in Seq(Subdags) /\ Len(log) \in Nat /\ m + K <= Len(log)
  BY BatchSizeIsNat, LenProperties DEF K, NextBatch
<1>2. batch = [i \in 1..K |-> log[m + i]]
  BY DEF NextBatch
<1>3. \A i \in 1..K : m + i \in DOMAIN log /\ batch[i] = log[m + i] /\ log[m + i] \in Subdags
  BY <1>1, <1>2, LenProperties, ElementOfSeq
<1>4. \A i \in 1..K : batch[i].transactions \in Seq(GivenTxs)
  BY <1>3, GivenTypes
<1>5. batch = [i \in 1..K |-> batch[i]]
  BY <1>2
<1> QED BY <1>1, <1>3, <1>4, <1>5

\* The slots of the next block hold what is pending and what the next commits bring.
LEMMA NextSlots ==
    ASSUME NEW log, NEW m, NEW batch, NextBatch(log, m, batch),
           NEW pending, NEW nonces, Waits(log, m, pending, nonces)
    PROVE  /\ pending \o BatchTransactions(batch) \in Seq(GivenTxs)
           /\ \A tx \in Range(pending \o BatchTransactions(batch)) :
                 /\ CommittedBy(log, m + K, tx)
                 /\ \/ tx \in Range(pending)
                    \/ \E i \in (m + 1)..(m + K) : tx \in Range(log[i].transactions)
<1>1. /\ K \in Nat /\ m \in Nat /\ pending \in Seq(GivenTxs)
      /\ \A i \in 1..K : batch[i].transactions \in Seq(GivenTxs)
      /\ \A i \in 1..K : batch[i] = log[m + i]
      /\ batch = [i \in 1..K |-> batch[i]]
  BY NextBatchTypes DEF Waits
<1>2. PICK given : given = BatchTransactions(batch)
  OBVIOUS
<1>5. /\ given \in Seq(GivenTxs)
      /\ \A x : x \in Range(given) <=> \E i \in 1..K : x \in Range(batch[i].transactions)
  BY <1>1, <1>2, BatchTransactionsAre
<1>6. Range(pending \o given) = Range(pending) \cup Range(given)
  BY <1>1, <1>5, RangeConcatenation
<1>3. pending \o given \in Seq(GivenTxs)
  BY <1>1, <1>5, ConcatProperties
<1> SUFFICES ASSUME NEW tx \in Range(pending \o given)
             PROVE  /\ CommittedBy(log, m + K, tx)
                    /\ \/ tx \in Range(pending)
                       \/ \E i \in (m + 1)..(m + K) : tx \in Range(log[i].transactions)
  BY <1>2, <1>3
<1>7. CASE tx \in Range(pending)
  <2>1. PICK i \in 1..m : tx \in Range(log[i].transactions)
    BY <1>7 DEF Waits, CommittedBy
  <2>2. i \in 1..(m + K)
    BY <1>1
  <2> QED BY <1>7, <2>1, <2>2 DEF CommittedBy
<1>8. CASE tx \in Range(given)
  <2>1. PICK i \in 1..K : tx \in Range(batch[i].transactions)
    BY <1>5, <1>8
  <2>2. tx \in Range(log[m + i].transactions)
    BY <1>1, <2>1
  <2>3. m + i \in (m + 1)..(m + K) /\ m + i \in 1..(m + K)
    BY <1>1
  <2> QED BY <2>2, <2>3 DEF CommittedBy
<1> QED BY <1>6, <1>7, <1>8

\* In a log without rivals none of them has a nonce that its sender has passed.
LEMMA NoSlotPassed ==
    ASSUME NEW log, NEW m, NEW batch, NextBatch(log, m, batch), Unrivalled(log),
           NEW pending, NEW nonces, Waits(log, m, pending, nonces),
           NEW tx \in Range(pending \o BatchTransactions(batch))
    PROVE  tx.nonce >= nonces[tx.sender]
<1>1. CASE tx \in Range(pending)
  BY <1>1 DEF Waits
<1>2. CASE \E i \in (m + 1)..(m + K) : tx \in Range(log[i].transactions)
  <2>1. K \in Nat /\ m \in Nat /\ log \in Seq(Subdags) /\ m + K \in 0..Len(log)
    BY NextBatchTypes
  <2>2. PICK i \in (m + 1)..(m + K) : tx \in Range(log[i].transactions)
    BY <1>2
  <2>3. CommittedBy(log, m + K, tx)
    BY NextSlots
  <2>4. PICK s, k : s = tx.sender /\ k = tx.nonce
    OBVIOUS
  <2>5. s \in Senders(log) /\ k \in Nat
    BY <2>1, <2>3, <2>4, CommittedIsGiven
  <2>6. SUFFICES ASSUME k < nonces[s] PROVE FALSE
    <3>1. nonces[s] \in Nat
      BY <2>5 DEF Waits
    <3> QED BY <2>4, <2>5, <2>6, <3>1
  <2>7. PICK other : CommittedBy(log, m, other) /\ other.sender = s /\ other.nonce = k
    BY <2>5, <2>6 DEF Waits
  <2>8. PICK j \in 1..m : other \in Range(log[j].transactions)
    BY <2>7 DEF CommittedBy
  <2>9. i \in DOMAIN log /\ j \in DOMAIN log /\ i # j
    BY <2>1, LenProperties
  <2>10. /\ Key(tx) \in Keys(Range(log[i].transactions))
         /\ Key(other) \in Keys(Range(log[j].transactions))
    BY <2>2, <2>8 DEF Keys
  <2>11. Key(tx) = Key(other)
    BY <2>4, <2>7 DEF Key
  <2> QED BY <2>9, <2>10, <2>11 DEF Unrivalled
<1> QED BY <1>1, <1>2, NextSlots

LEMMA WaitsStep ==
    ASSUME NEW log, NEW m, NEW batch, NextBatch(log, m, batch),
           NEW pending, NEW nonces, Waits(log, m, pending, nonces)
    PROVE  LET proposed == create_proposal_transactions(pending, batch)
               executed == Executed(nonces, proposed)
           IN  Waits(log, m + K, Without(proposed, executed), Advance(nonces, executed))
<1>d. PICK slots : slots = pending \o BatchTransactions(batch)
  OBVIOUS
<1>e. PICK proposed : proposed = create_proposal_transactions(pending, batch)
  OBVIOUS
<1>f. PICK executed : executed = Executed(nonces, proposed)
  OBVIOUS
<1>a. PICK S : S = Senders(log)
  OBVIOUS
<1>b. PICK left : left = Without(proposed, executed)
  OBVIOUS
<1>c. PICK next : next = Advance(nonces, Executed(nonces, proposed))
  OBVIOUS
<1>1. /\ K \in Nat /\ m \in Nat /\ log \in Seq(Subdags)
      /\ m + K \in 0..Len(log) /\ m + K \in Nat
  BY NextBatchTypes
<1>2. pending \in Seq(GivenTxs) /\ nonces \in [S -> Nat]
  BY <1>a DEF Waits
<1>3. slots \in Seq(GivenTxs)
  BY <1>d, NextSlots
<1>4. /\ proposed \in Seq(GivenTxs) /\ NonceOrder(proposed)
      /\ Range(proposed) \subseteq Range(slots)
  <2>1. slots \in Seq(GivenTxs) /\ \A x \in GivenTxs : x.nonce \in Nat
    BY <1>3, GivenTypes
  <2>2. AsCommitted(slots, proposed)
    BY <1>d, <1>e, <2>1, ProposalsAreAsCommitted
  <2>3. proposed \in Seq(GivenTxs)
    BY <1>d, <1>e, <2>1, ProposalFills
  <2>4. Range(proposed) \subseteq Range(slots)
    BY <1>d, <1>e, <2>1, ProposalKeys
  <2> QED BY <2>2, <2>3, <2>4 DEF AsCommitted
<1>5. PICK n \in Nat : n = Len(proposed) /\ DOMAIN proposed = 1..n
  BY <1>4, LenProperties
<1>6. \A x : x \in Range(proposed) <=> \E i \in 1..n : x = proposed[i]
  BY <1>5 DEF Range
<1>7. \A tx \in Range(proposed) :
         CommittedBy(log, m + K, tx) /\ tx.sender \in S /\ tx.nonce \in Nat
  <2> SUFFICES ASSUME NEW tx \in Range(proposed)
               PROVE  CommittedBy(log, m + K, tx) /\ tx.sender \in S /\ tx.nonce \in Nat
    OBVIOUS
  <2>1. CommittedBy(log, m + K, tx)
    BY <1>d, <1>4, NextSlots
  <2> QED BY <1>a, <1>1, <2>1, CommittedIsGiven
<1>8. IsList(S, nonces, proposed)
  BY <1>2, <1>5, <1>6, <1>7 DEF IsList
<1>9. /\ left \in Seq(GivenTxs)
      /\ Range(left) = Range(proposed) \ executed
  BY <1>b, <1>4, WithoutKeeps
<1>10. /\ next \in [S -> Nat]
       /\ \A s \in S, k \in Nat : nonces[s] <= k /\ k < next[s] =>
             \E j \in 1..n : proposed[j].sender = s /\ proposed[j].nonce = k
  BY <1>c, <1>5, <1>8, NoncesPassed
<1>11. ASSUME NEW tx \in Range(left)
       PROVE  /\ CommittedBy(log, m + K, tx) /\ tx.nonce # next[tx.sender]
              /\ Unrivalled(log) => tx.nonce >= next[tx.sender]
  <2>1. tx \in Range(proposed) /\ tx \notin executed
    BY <1>9
  <2>2. PICK i \in 1..n : tx = proposed[i]
    BY <1>6, <2>1
  <2>3. /\ tx.nonce # next[tx.sender]
        /\ tx.nonce >= nonces[tx.sender] => tx.nonce >= next[tx.sender]
    <3>1. NonceOrder(proposed) /\ proposed[i] \notin Executed(nonces, proposed)
      BY <1>f, <1>4, <2>1, <2>2
    <3>2. i \in 1..Len(proposed)
      BY <1>5
    <3>3. /\ proposed[i].nonce # next[proposed[i].sender]
          /\ proposed[i].nonce >= nonces[proposed[i].sender] =>
                proposed[i].nonce >= next[proposed[i].sender]
      BY <1>c, <1>8, <3>1, <3>2, LeftWait
    <3> QED BY <2>2, <3>3
  <2>4. Unrivalled(log) => tx.nonce >= nonces[tx.sender]
    BY <1>d, <1>4, <2>1, NoSlotPassed
  <2> QED BY <1>7, <2>1, <2>3, <2>4
<1>12. ASSUME NEW s \in S, NEW k \in Nat, k < next[s]
       PROVE  \E tx : CommittedBy(log, m + K, tx) /\ tx.sender = s /\ tx.nonce = k
  <2>1. CASE k < nonces[s]
    <3>1. PICK tx : CommittedBy(log, m, tx) /\ tx.sender = s /\ tx.nonce = k
      BY <1>a, <2>1 DEF Waits
    <3>2. \A i \in 1..m : i \in 1..(m + K)
      BY <1>1
    <3> QED BY <3>1, <3>2 DEF CommittedBy
  <2>2. CASE ~(k < nonces[s])
    <3>1. nonces[s] <= k
      BY <1>2, <2>2
    <3>2. PICK j \in 1..n : proposed[j].sender = s /\ proposed[j].nonce = k
      BY <1>10, <1>12, <3>1
    <3> QED BY <1>6, <1>7, <3>2
  <2> QED BY <2>1, <2>2
<1>13. next = Advance(nonces, executed)
  BY <1>c, <1>f
<1>14. Unrivalled(log) => \A tx \in Range(left) : tx.nonce >= next[tx.sender]
  BY <1>11
<1>15. \A tx \in Range(left) : CommittedBy(log, m + K, tx) /\ tx.nonce # next[tx.sender]
  BY <1>11
<1>16. \A s \in S, k \in Nat : k < next[s] =>
          \E tx : CommittedBy(log, m + K, tx) /\ tx.sender = s /\ tx.nonce = k
  BY <1>12
<1>17. Waits(log, m + K, left, next)
  BY <1>a, <1>1, <1>9, <1>10, <1>14, <1>15, <1>16, Zenon DEF Waits
<1> QED BY <1>b, <1>e, <1>f, <1>13, <1>17

\* The same of a ledger that has one block for each batch.
LedgerWaits(log, ledger, pending, nonces) ==
    /\ log \in Seq(Subdags)
    /\ \E n \in Nat : /\ ledger = [i \in 1..n |-> ledger[i]]
                      /\ Waits(log, n * K, pending, nonces)

LEMMA LedgerWaitsAtFirst ==
    ASSUME NEW log \in Seq(Subdags)
    PROVE  LedgerWaits(log, << >>, << >>, [s \in Senders(log) |-> 0])
<1>1. << >> = [i \in 1..0 |-> << >>[i]]
  OBVIOUS
<1>2. 0 * K = 0
  BY BatchSizeIsNat DEF K
<1> QED BY <1>1, <1>2, WaitsAtFirst DEF LedgerWaits

LEMMA LedgerWaitsStep ==
    ASSUME NEW log, NEW ledger, NEW pending, NEW nonces,
           LedgerWaits(log, ledger, pending, nonces),
           (Len(ledger) + 1) * K <= Len(log), NEW block
    PROVE  LET batch    == [i \in 1..K |-> log[Len(ledger) * K + i]]
               proposed == create_proposal_transactions(pending, batch)
               executed == Executed(nonces, proposed)
           IN  LedgerWaits(log, Append(ledger, block),
                           Without(proposed, executed), Advance(nonces, executed))
<1>1. PICK n \in Nat : /\ ledger = [i \in 1..n |-> ledger[i]]
                       /\ Waits(log, n * K, pending, nonces)
  BY DEF LedgerWaits
<1>2. log \in Seq(Subdags) /\ Len(ledger) = n /\ K \in Nat
  BY <1>1, BatchSizeIsNat DEF LedgerWaits, K
<1>3. PICK batch : batch = [i \in 1..K |-> log[Len(ledger) * K + i]]
  OBVIOUS
<1>4. n * K \in Nat /\ (n + 1) * K = n * K + K
  BY <1>2
<1>5. NextBatch(log, n * K, batch)
  BY <1>2, <1>3, <1>4 DEF NextBatch
<1>6. PICK proposed : proposed = create_proposal_transactions(pending, batch)
  OBVIOUS
<1>7. PICK executed : executed = Executed(nonces, proposed)
  OBVIOUS
<1>8. Waits(log, n * K + K, Without(proposed, executed), Advance(nonces, executed))
  BY <1>1, <1>5, <1>6, <1>7, WaitsStep
<1>9. Append(ledger, block) = [i \in 1..(n + 1) |-> Append(ledger, block)[i]]
  BY <1>1, <1>2
<1>10. LedgerWaits(log, Append(ledger, block),
                   Without(proposed, executed), Advance(nonces, executed))
  <2>1. Waits(log, (n + 1) * K, Without(proposed, executed), Advance(nonces, executed))
    BY <1>4, <1>8
  <2>2. n + 1 \in Nat
    OBVIOUS
  <2> QED BY <1>2, <1>9, <2>1, <2>2, Zenon DEF LedgerWaits
<1> QED BY <1>3, <1>6, <1>7, <1>10

-----------------------------------------------------------------------------
(* What a log determines.                                                  *)

\* The n-th block of a log, and what it leaves, after what the blocks before it left.
NextOf(last, log, n) ==
    LET proposed == create_proposal_transactions(
                        last.pending, [i \in 1..K |-> log[(n - 1) * K + i]])
        executed == Executed(last.nonces, proposed)
    IN  [ledger  |-> Append(last.ledger,
            [transactions |-> proposed,
             timestamp |-> log[n * K].timestamp_ms \div 1000]),
         pending |-> Without(proposed, executed),
         nonces  |-> Advance(last.nonces, executed)]

FirstOf(log) ==
    [ledger |-> << >>, pending |-> << >>, nonces |-> [s \in Senders(log) |-> 0]]

\* f gives the ledgers of the log's first 0, ..., m blocks.
Decides(f, log, m) ==
    f = [n \in 0..m |-> IF n = 0 THEN FirstOf(log) ELSE NextOf(f[n - 1], log, n)]

LEMMA DecisionsExist ==
    ASSUME NEW log, NEW n \in Nat
    PROVE  \E f : Decides(f, log, n)
<1> DEFINE Bad == {m \in Nat : ~ \E f : Decides(f, log, m)}
           m == Min(Bad)
<1> SUFFICES ASSUME Bad # {} PROVE FALSE
  OBVIOUS
<1>1. m \in Nat /\ m \in Bad /\ \A x \in Bad : m <= x
  BY LeastOf
<1> HIDE DEF m
<1>2. CASE m = 0
  <2> DEFINE g == [i \in 0..0 |-> FirstOf(log)]
  <2>1. \A i \in 0..0 : i = 0
    OBVIOUS
  <2>2. g = [i \in 0..0 |-> IF i = 0 THEN FirstOf(log) ELSE NextOf(g[i - 1], log, i)]
    BY <2>1
  <2> HIDE DEF g
  <2>3. Decides(g, log, 0)
    BY <2>2, Zenon DEF Decides
  <2> QED BY <1>1, <1>2, <2>3
<1>3. CASE m # 0
  <2>1. m - 1 \in Nat /\ m - 1 \notin Bad
    BY <1>1, <1>3
  <2>2. PICK f : Decides(f, log, m - 1)
    BY <2>1
  <2> DEFINE g == [i \in 0..m |-> IF i = 0 THEN FirstOf(log) ELSE NextOf(f[i - 1], log, i)]
  <2>3. \A i \in 0..(m - 1) : f[i] = IF i = 0 THEN FirstOf(log) ELSE NextOf(f[i - 1], log, i)
    BY <2>2, Zenon DEF Decides
  <2>4. \A i \in 0..(m - 1) : g[i] = f[i]
    BY <1>1, <2>3
  <2>5. \A i \in 0..m : i # 0 => i - 1 \in 0..(m - 1)
    BY <1>1
  <2>6. g = [i \in 0..m |-> IF i = 0 THEN FirstOf(log) ELSE NextOf(g[i - 1], log, i)]
    BY <2>4, <2>5
  <2>7. Decides(g, log, m)
    BY <2>6, Zenon DEF Decides
  <2> QED BY <1>1, <2>7
<1> QED BY <1>2, <1>3

Decisions(log) == CHOOSE f : Decides(f, log, Len(log))

LEMMA DecisionsDecide ==
    ASSUME NEW log, Len(log) \in Nat
    PROVE  /\ Decisions(log)[0] = FirstOf(log)
           /\ \A n \in 1..Len(log) :
                 Decisions(log)[n] = NextOf(Decisions(log)[n - 1], log, n)
<1>1. PICK f : f = Decisions(log)
  OBVIOUS
<1>2. Decides(f, log, Len(log))
  BY <1>1, DecisionsExist, Zenon DEF Decisions
<1>3. \A n \in 0..Len(log) : f[n] = IF n = 0 THEN FirstOf(log) ELSE NextOf(f[n - 1], log, n)
  BY <1>2, Zenon DEF Decides
<1>4. 0 \in 0..Len(log) /\ \A n \in 1..Len(log) : n \in 0..Len(log) /\ n # 0
  OBVIOUS
<1> QED BY <1>1, <1>3, <1>4

\* A ledger, what it leaves pending and the nonces after it are those of the log.
Decided(log, ledger, pending, nonces) ==
    /\ Len(log) \in Nat
    /\ \E n \in 0..Len(log) :
          /\ ledger = [i \in 1..n |-> ledger[i]]
          /\ Decisions(log)[n] = [ledger |-> ledger, pending |-> pending, nonces |-> nonces]

LEMMA DecidedIs ==
    ASSUME NEW log, NEW ledger, NEW pending, NEW nonces,
           Decided(log, ledger, pending, nonces)
    PROVE  Decisions(log)[Len(ledger)] = [ledger |-> ledger, pending |-> pending,
                                          nonces |-> nonces]
<1>1. PICK n \in 0..Len(log) :
          /\ ledger = [i \in 1..n |-> ledger[i]]
          /\ Decisions(log)[n] = [ledger |-> ledger, pending |-> pending, nonces |-> nonces]
  BY DEF Decided
<1>2. Len(log) \in Nat
  BY DEF Decided
<1>3. Len(ledger) = n
  BY <1>1, <1>2
<1> QED BY <1>1, <1>3

LEMMA DecidedAtFirst ==
    ASSUME NEW log, Len(log) \in Nat
    PROVE  Decided(log, << >>, << >>, [s \in Senders(log) |-> 0])
<1>2. Decisions(log)[0] = FirstOf(log) /\ 0 \in 0..Len(log)
  BY DecisionsDecide
<1>3. << >> = [i \in 1..0 |-> << >>[i]]
  OBVIOUS
<1> QED BY <1>2, <1>3 DEF Decided, FirstOf

LEMMA DecidedStep ==
    ASSUME NEW log, NEW ledger, NEW pending, NEW nonces,
           Decided(log, ledger, pending, nonces),
           K > 0, (Len(ledger) + 1) * K <= Len(log)
    PROVE  LET next == NextOf([ledger |-> ledger, pending |-> pending, nonces |-> nonces],
                              log, Len(ledger) + 1)
           IN  Decided(log, next.ledger, next.pending, next.nonces)
<1> DEFINE f == Decisions(log)
<1>1. PICK n \in 0..Len(log) :
          /\ ledger = [i \in 1..n |-> ledger[i]]
          /\ f[n] = [ledger |-> ledger, pending |-> pending, nonces |-> nonces]
  BY DEF Decided
<1>2. n \in Nat /\ Len(ledger) = n /\ K \in Nat /\ Len(log) \in Nat
  BY <1>1, BatchSizeIsNat DEF K, Decided
<1>3. n + 1 \in 0..Len(log) /\ (n + 1) - 1 = n /\ n + 1 # 0
  <2>1. n + 1 <= (n + 1) * K
    BY <1>2
  <2> QED BY <1>2, <2>1
<1>4. f[n + 1] = NextOf(f[n], log, n + 1)
  <2>1. n + 1 \in 1..Len(log)
    BY <1>2, <1>3
  <2>2. f[n + 1] = NextOf(f[(n + 1) - 1], log, n + 1)
    BY <1>2, <2>1, DecisionsDecide
  <2> QED BY <1>3, <2>2
<1> HIDE DEF f
<1>5. PICK next : next = NextOf(f[n], log, n + 1)
  OBVIOUS
<1>6. PICK block : next.ledger = Append(ledger, block)
  <2>1. PICK last : last = f[n]
    OBVIOUS
  <2>2. \E block : NextOf(last, log, n + 1).ledger = Append(last.ledger, block)
    BY DEF NextOf
  <2>3. last.ledger = ledger
    BY <1>1, <2>1
  <2> QED BY <1>5, <2>1, <2>2, <2>3
<1>7. next = [ledger |-> next.ledger, pending |-> next.pending, nonces |-> next.nonces]
  BY <1>5 DEF NextOf
<1>8. next.ledger = [i \in 1..(n + 1) |-> next.ledger[i]]
  BY <1>1, <1>2, <1>6
<1>9. Decided(log, next.ledger, next.pending, next.nonces)
  BY <1>1, <1>2, <1>3, <1>4, <1>5, <1>7, <1>8 DEF Decided, f
<1> QED BY <1>1, <1>2, <1>5, <1>9
=============================================================================
