----------------------------- MODULE SumsProofs ------------------------------
(***************************************************************************)
(* Lemmas about finite sums, and about lots of goods, which are such sums. *)
(* SumFunctionOnSet is a fold, a recursion over sets that CHOOSEs which    *)
(* element is next: that it depends on no choice is proved here, by        *)
(* looking at a smallest set for which it would.                           *)
(***************************************************************************)
EXTENDS FifoLots, Sequences, FiniteSetTheorems, TLAPS

\* A family of subsets of a finite set has a smallest member: the induction over
\* finite sets that the lemmas below use.
LEMMA SmallestSubset ==
  ASSUME NEW S, IsFiniteSet(S), NEW T, T \subseteq SUBSET S, T # {}
  PROVE  \E U \in T : \A V \in T : ~(V \subseteq U /\ V # U)
<1>1. IsWellFoundedOn(StrictSubsetOrdering(S), SUBSET S)
  BY FS_StrictSubsetOrderingWellFounded, FS_FiniteSubsetsOfFinite
<1>2. PICK U \in T : \A V \in T : ~(<<V, U>> \in StrictSubsetOrdering(S))
  BY <1>1, WFMin
<1>3. ASSUME NEW V \in T PROVE ~(V \subseteq U /\ V # U)
  BY <1>2 DEF StrictSubsetOrdering
<1>4. QED
  BY <1>3

\* The element of s that a fold takes first.
First(s) == CHOOSE x \in s : TRUE

\* The recursion equation of the fold behind SumFunctionOnSet.
IsIteration(iter, f, S) ==
  iter = [s \in SUBSET S |->
            IF s = {} THEN 0 ELSE f[First(s)] + iter[s \ {First(s)}]]

\* The choice is never out of nothing.
LEMMA FirstIsIn ==
  ASSUME NEW s, s # {}
  PROVE  First(s) \in s
  BY DEF First

\* A sum is the value, for the whole set, of a chosen solution of that equation.
LEMMA SumIsIteration ==
  ASSUME NEW f, NEW S
  PROVE  SumFunctionOnSet(f, S) = (CHOOSE iter : IsIteration(iter, f, S))[S]
  BY DEF SumFunctionOnSet, FoldFunctionOnSet, MapThenFoldSet, IsIteration, First

\* The chosen iteration satisfies its equation as soon as any function does.
LEMMA ChosenIteration ==
  ASSUME NEW f, NEW S, \E iter : IsIteration(iter, f, S)
  PROVE  \E iter : IsIteration(iter, f, S) /\ SumFunctionOnSet(f, S) = iter[S]
<1>1. IsIteration(CHOOSE iter : IsIteration(iter, f, S), f, S)
  OBVIOUS
<1>2. QED
  BY <1>1, SumIsIteration

\* What the equation says of one subset.
LEMMA IterationStep ==
  ASSUME NEW f, NEW S, NEW iter, IsIteration(iter, f, S), NEW s \in SUBSET S
  PROVE  /\ s = {} => iter[s] = 0
         /\ s # {} => iter[s] = f[First(s)] + iter[s \ {First(s)}]
  BY DEF IsIteration

\* Two iterations agree wherever both are defined.
LEMMA IterationsAgree ==
  ASSUME NEW f, NEW S, NEW T, IsFiniteSet(S),
         NEW i, IsIteration(i, f, S), NEW j, IsIteration(j, f, T),
         NEW s, s \subseteq S, s \subseteq T
  PROVE  i[s] = j[s]
<1> DEFINE Differ == {u \in SUBSET S : u \subseteq T /\ i[u] # j[u]}
<1>1. SUFFICES ASSUME Differ # {} PROVE FALSE
  OBVIOUS
<1>2. PICK u \in Differ : \A v \in Differ : ~(v \subseteq u /\ v # u)
  <2>1. Differ \subseteq SUBSET S
    OBVIOUS
  <2> HIDE DEF Differ
  <2> QED BY <1>1, <2>1, SmallestSubset
<1>3. u # {}
  BY <1>2, IterationStep
<1> DEFINE v == u \ {First(u)}
<1>4. v \subseteq u /\ v # u /\ v \in SUBSET S /\ v \subseteq T
  BY <1>2, <1>3, FirstIsIn
<1>5. i[v] = j[v]
  BY <1>2, <1>4
<1>6. i[u] = f[First(u)] + i[v] /\ j[u] = f[First(u)] + j[v]
  <2>1. u \in SUBSET S /\ u \in SUBSET T
    BY <1>2
  <2>2. i[u] = f[First(u)] + i[u \ {First(u)}]
    BY <1>3, <2>1, IterationStep
  <2>3. j[u] = f[First(u)] + j[u \ {First(u)}]
    BY <1>3, <2>1, IterationStep
  <2>4. QED
    BY <2>2, <2>3
<1>7. QED
  BY <1>2, <1>5, <1>6

\* Every finite set has an iteration: the recursive definition is not empty.
LEMMA IterationExists ==
  ASSUME NEW f, NEW S, IsFiniteSet(S)
  PROVE  \E iter : IsIteration(iter, f, S)
<1> DEFINE Without == {s \in SUBSET S : ~ \E iter : IsIteration(iter, f, s)}
<1>1. SUFFICES ASSUME Without # {} PROVE FALSE
  OBVIOUS
<1>2. PICK s \in Without : \A v \in Without : ~(v \subseteq s /\ v # s)
  <2>1. Without \subseteq SUBSET S
    OBVIOUS
  <2> HIDE DEF Without
  <2> QED BY <1>1, <2>1, SmallestSubset
<1> DEFINE sum(u) == SumFunctionOnSet(f, u)
<1> HIDE DEF sum
<1>3. ASSUME NEW u, u \subseteq s, u # s
      PROVE  \E i : IsIteration(i, f, u) /\ sum(u) = i[u]
  <2>1. \E i : IsIteration(i, f, u)
    BY <1>2, <1>3
  <2>2. QED
    BY <2>1, ChosenIteration DEF sum
<1> DEFINE rest == s \ {First(s)}
           k == [u \in SUBSET s |-> IF u = {} THEN 0 ELSE
                   IF u = s THEN f[First(s)] + sum(rest) ELSE sum(u)]
<1>4. ASSUME NEW u \in SUBSET s
      PROVE  k[u] = IF u = {} THEN 0 ELSE f[First(u)] + k[u \ {First(u)}]
  <2>1. CASE u = {}
    BY <2>1
  <2>2. CASE u # {}
    <3> DEFINE w == u \ {First(u)}
    <3>1. w \subseteq s /\ w # s /\ w \subseteq u /\ First(u) \in u
      BY <2>2, FirstIsIn
    <3>2. k[w] = sum(w)
      <4>1. sum({}) = 0
        <5>1. PICK i : IsIteration(i, f, {}) /\ sum({}) = i[{}]
          BY <1>3, <3>1
        <5>2. QED
          BY <5>1, IterationStep
      <4>2. QED
        BY <3>1, <4>1
    <3>3. k[u] = f[First(u)] + sum(w)
      <4>1. CASE u = s
        BY <2>2, <4>1
      <4>2. CASE u # s
        <5>1. PICK i : IsIteration(i, f, u) /\ sum(u) = i[u]
          BY <1>3, <4>2
        <5>2. PICK j : IsIteration(j, f, w) /\ sum(w) = j[w]
          BY <1>3, <3>1
        <5>3. i[u] = f[First(u)] + i[w]
          BY <2>2, <5>1, IterationStep
        <5>4. IsFiniteSet(u)
          BY FS_Subset
        <5>5. i[w] = j[w]
          <6> HIDE DEF w
          <6> QED BY <3>1, <5>1, <5>2, <5>4, IterationsAgree
        <5>6. k[u] = sum(u)
          BY <2>2, <4>2
        <5>7. QED
          BY <5>1, <5>2, <5>3, <5>5, <5>6
      <4>3. QED
        BY <4>1, <4>2
    <3>4. QED
      BY <2>2, <3>2, <3>3
  <2>3. QED
    BY <2>1, <2>2
<1>5. k = [u \in SUBSET s |-> IF u = {} THEN 0 ELSE f[First(u)] + k[u \ {First(u)}]]
  <2> DEFINE rhs == [u \in SUBSET s |-> IF u = {} THEN 0 ELSE f[First(u)] + k[u \ {First(u)}]]
  <2>1. \A u \in SUBSET s : k[u] = rhs[u]
    BY <1>4
  <2>2. QED
    BY <2>1
<1>6. IsIteration(k, f, s)
  BY <1>5 DEF IsIteration
<1>7. QED
  BY <1>2, <1>6

\* The sum over a finite set satisfies the equation of the fold.
LEMMA SumStep ==
  ASSUME NEW f, NEW S, IsFiniteSet(S)
  PROVE  /\ S = {} => SumFunctionOnSet(f, S) = 0
         /\ S # {} => SumFunctionOnSet(f, S) =
                        f[First(S)] + SumFunctionOnSet(f, S \ {First(S)})
<1> DEFINE R == S \ {First(S)}
<1>1. PICK i : IsIteration(i, f, S) /\ SumFunctionOnSet(f, S) = i[S]
  BY IterationExists, ChosenIteration
<1>2. R \in SUBSET S /\ IsFiniteSet(R)
  BY FS_Subset
<1>3. PICK j : IsIteration(j, f, R) /\ SumFunctionOnSet(f, R) = j[R]
  BY <1>2, IterationExists, ChosenIteration
<1>4. i[R] = j[R]
  BY <1>1, <1>2, <1>3, IterationsAgree
<1>5. QED
  BY <1>1, <1>3, <1>4, IterationStep

-----------------------------------------------------------------------------
(* What the models need of sums, without the order of the fold *)

\* A sum of integers is an integer, and a sum of naturals a natural.
LEMMA SumType ==
  ASSUME NEW S, IsFiniteSet(S), NEW f, \A x \in S : f[x] \in Int
  PROVE  /\ SumFunctionOnSet(f, S) \in Int
         /\ (\A x \in S : f[x] >= 0) => SumFunctionOnSet(f, S) >= 0
<1> DEFINE sum(u) == SumFunctionOnSet(f, u)
           Bad == {u \in SUBSET S : ~(sum(u) \in Int /\ ((\A x \in S : f[x] >= 0) => sum(u) >= 0))}
<1>1. SUFFICES ASSUME Bad # {} PROVE FALSE
  OBVIOUS
<1>2. PICK u \in Bad : \A v \in Bad : ~(v \subseteq u /\ v # u)
  <2>1. Bad \subseteq SUBSET S
    OBVIOUS
  <2> HIDE DEF Bad
  <2> QED BY <1>1, <2>1, SmallestSubset
<1>3. u \subseteq S /\ IsFiniteSet(u)
  BY <1>2, FS_Subset
<1>4. u # {}
  <2>1. SUFFICES ASSUME u = {} PROVE FALSE
    OBVIOUS
  <2>2. sum(u) = 0
    BY <1>3, <2>1, SumStep
  <2>3. QED
    <3> HIDE DEF sum
    <3> QED BY <1>2, <2>2
<1> DEFINE v == u \ {First(u)}
<1>5. First(u) \in S /\ v \subseteq u /\ v # u /\ v \subseteq S
  BY <1>3, <1>4, FirstIsIn
<1>6. v \notin Bad
  BY <1>2, <1>5
<1>7. sum(u) = f[First(u)] + sum(v)
  BY <1>3, <1>4, SumStep
<1>8. QED
  <2> HIDE DEF sum, v
  <2> QED BY <1>2, <1>5, <1>6, <1>7

\* Whichever element is taken first, a sum is that element's part and the rest.
LEMMA SumRemove ==
  ASSUME NEW S, IsFiniteSet(S), NEW f, \A y \in S : f[y] \in Int, NEW x \in S
  PROVE  SumFunctionOnSet(f, S) = f[x] + SumFunctionOnSet(f, S \ {x})
<1> DEFINE sum(u) == SumFunctionOnSet(f, u)
           Bad == {u \in SUBSET S : \E y \in u : sum(u) # f[y] + sum(u \ {y})}
<1>1. SUFFICES ASSUME Bad # {} PROVE FALSE
  OBVIOUS
<1>2. PICK u \in Bad : \A v \in Bad : ~(v \subseteq u /\ v # u)
  <2>1. Bad \subseteq SUBSET S
    OBVIOUS
  <2> HIDE DEF Bad
  <2> QED BY <1>1, <2>1, SmallestSubset
<1>3. PICK y \in u : sum(u) # f[y] + sum(u \ {y})
  BY <1>2
<1> DEFINE p == First(u)
           rest == u \ {p, y}
<1>4. u \subseteq S /\ IsFiniteSet(u) /\ p \in u
  BY <1>2, <1>3, FS_Subset, FirstIsIn
<1>5. sum(u) = f[p] + sum(u \ {p})
  BY <1>3, <1>4, SumStep
<1>6. p # y
  BY <1>3, <1>5
<1>7. /\ y \in u \ {p} /\ u \ {p} \subseteq u /\ u \ {p} # u /\ (u \ {p}) \ {y} = rest
      /\ p \in u \ {y} /\ u \ {y} \subseteq u /\ u \ {y} # u /\ (u \ {y}) \ {p} = rest
  BY <1>3, <1>4, <1>6
<1>8. u \ {p} \notin Bad /\ u \ {y} \notin Bad
  BY <1>2, <1>7
<1>9. sum(u \ {p}) = f[y] + sum(rest)
  BY <1>4, <1>7, <1>8
<1>10. sum(u \ {y}) = f[p] + sum(rest)
  BY <1>4, <1>7, <1>8
<1>11. f[p] \in Int /\ f[y] \in Int /\ sum(rest) \in Int
  <2>1. rest \subseteq S /\ IsFiniteSet(rest)
    BY <1>4, FS_Subset
  <2>2. QED
    BY <1>3, <1>4, <2>1, SumType
<1>12. QED
  <2> HIDE DEF sum, p, rest
  <2> QED BY <1>3, <1>5, <1>9, <1>10, <1>11

\* The empty sum.
LEMMA SumEmpty ==
  ASSUME NEW f
  PROVE  SumFunctionOnSet(f, {}) = 0
  BY SumStep, FS_EmptySet

\* A new element adds its part.
LEMMA SumAdd ==
  ASSUME NEW S, IsFiniteSet(S), NEW x, x \notin S,
         NEW f, \A y \in S \cup {x} : f[y] \in Int
  PROVE  SumFunctionOnSet(f, S \cup {x}) = SumFunctionOnSet(f, S) + f[x]
<1>1. IsFiniteSet(S \cup {x}) /\ (S \cup {x}) \ {x} = S
  BY FS_AddElement
<1>2. SumFunctionOnSet(f, S \cup {x}) = f[x] + SumFunctionOnSet(f, S)
  BY <1>1, SumRemove
<1>3. SumFunctionOnSet(f, S) \in Int
  BY SumType
<1>4. QED
  BY <1>2, <1>3

\* A sum depends on nothing but what it adds up.
LEMMA SumSame ==
  ASSUME NEW S, IsFiniteSet(S), NEW f, NEW g, \A x \in S : f[x] = g[x]
  PROVE  SumFunctionOnSet(f, S) = SumFunctionOnSet(g, S)
<1> DEFINE Bad == {u \in SUBSET S : SumFunctionOnSet(f, u) # SumFunctionOnSet(g, u)}
<1>1. SUFFICES ASSUME Bad # {} PROVE FALSE
  OBVIOUS
<1>2. PICK u \in Bad : \A v \in Bad : ~(v \subseteq u /\ v # u)
  <2>1. Bad \subseteq SUBSET S
    OBVIOUS
  <2> HIDE DEF Bad
  <2> QED BY <1>1, <2>1, SmallestSubset
<1>3. u \subseteq S /\ IsFiniteSet(u)
  BY <1>2, FS_Subset
<1>4. u # {}
  BY <1>2, SumEmpty
<1> DEFINE v == u \ {First(u)}
<1>5. First(u) \in S /\ v \subseteq u /\ v # u /\ v \subseteq S
  BY <1>3, <1>4, FirstIsIn
<1>6. SumFunctionOnSet(f, v) = SumFunctionOnSet(g, v)
  BY <1>2, <1>5
<1>7. QED
  BY <1>2, <1>3, <1>4, <1>5, <1>6, SumStep

\* Nothing adds up to nothing.
LEMMA SumZero ==
  ASSUME NEW S, IsFiniteSet(S), NEW f, \A x \in S : f[x] = 0
  PROVE  SumFunctionOnSet(f, S) = 0
<1> DEFINE Bad == {u \in SUBSET S : SumFunctionOnSet(f, u) # 0}
<1>1. SUFFICES ASSUME Bad # {} PROVE FALSE
  OBVIOUS
<1>2. PICK u \in Bad : \A v \in Bad : ~(v \subseteq u /\ v # u)
  <2>1. Bad \subseteq SUBSET S
    OBVIOUS
  <2> HIDE DEF Bad
  <2> QED BY <1>1, <2>1, SmallestSubset
<1>3. u \subseteq S /\ IsFiniteSet(u)
  BY <1>2, FS_Subset
<1>4. u # {}
  BY <1>2, SumEmpty
<1> DEFINE v == u \ {First(u)}
<1>5. f[First(u)] = 0 /\ SumFunctionOnSet(f, v) = 0
  BY <1>2, <1>3, <1>4, FirstIsIn
<1>6. SumFunctionOnSet(f, u) = f[First(u)] + SumFunctionOnSet(f, v)
  BY <1>3, <1>4, SumStep
<1>7. QED
  <2> HIDE DEF v
  <2> QED BY <1>2, <1>5, <1>6

\* Changing what one element contributes changes the sum by the difference.
LEMMA SumChange ==
  ASSUME NEW S, IsFiniteSet(S), NEW x \in S,
         NEW f, \A y \in S : f[y] \in Int, NEW g, g[x] \in Int,
         \A y \in S \ {x} : g[y] = f[y]
  PROVE  SumFunctionOnSet(g, S) = SumFunctionOnSet(f, S) - f[x] + g[x]
<1> DEFINE R == S \ {x}
<1>1. IsFiniteSet(R) /\ R \subseteq S
  BY FS_Subset
<1>2. SumFunctionOnSet(f, R) = SumFunctionOnSet(g, R)
  BY <1>1, SumSame
<1>3. SumFunctionOnSet(f, S) = f[x] + SumFunctionOnSet(f, R)
  BY SumRemove
<1>4. SumFunctionOnSet(g, S) = g[x] + SumFunctionOnSet(g, R)
  BY SumRemove
<1>5. SumFunctionOnSet(f, R) \in Int /\ f[x] \in Int
  BY <1>1, SumType
<1>6. QED
  <2> HIDE DEF R
  <2> QED BY <1>2, <1>3, <1>4, <1>5

\* The difference of two sums is the sum of the differences.
LEMMA SumMinus ==
  ASSUME NEW S, IsFiniteSet(S), NEW f, NEW g, NEW h,
         \A x \in S : f[x] \in Int /\ g[x] \in Int /\ h[x] = f[x] - g[x]
  PROVE  SumFunctionOnSet(h, S) = SumFunctionOnSet(f, S) - SumFunctionOnSet(g, S)
<1> DEFINE Sum(k, u) == SumFunctionOnSet(k, u)
           Bad == {u \in SUBSET S : Sum(h, u) # Sum(f, u) - Sum(g, u)}
<1>1. SUFFICES ASSUME Bad # {} PROVE FALSE
  OBVIOUS
<1>2. PICK u \in Bad : \A v \in Bad : ~(v \subseteq u /\ v # u)
  <2>1. Bad \subseteq SUBSET S
    OBVIOUS
  <2> HIDE DEF Bad
  <2> QED BY <1>1, <2>1, SmallestSubset
<1>3. u \subseteq S /\ IsFiniteSet(u)
  BY <1>2, FS_Subset
<1>4. u # {}
  <2>1. SUFFICES ASSUME u = {} PROVE FALSE
    OBVIOUS
  <2>2. Sum(f, u) = 0 /\ Sum(g, u) = 0 /\ Sum(h, u) = 0
    BY <2>1, SumEmpty
  <2>3. QED
    <3> HIDE DEF Sum
    <3> QED BY <1>2, <2>2
<1> DEFINE x == First(u)
           v == u \ {x}
<1>5. x \in S /\ v \subseteq u /\ v # u /\ v \subseteq S /\ IsFiniteSet(v)
  BY <1>3, <1>4, FirstIsIn, FS_Subset
<1>6. Sum(h, v) = Sum(f, v) - Sum(g, v)
  BY <1>2, <1>5
<1>7. Sum(f, v) \in Int /\ Sum(g, v) \in Int
  BY <1>5, SumType
<1>8. /\ Sum(h, u) = h[x] + Sum(h, v)
      /\ Sum(f, u) = f[x] + Sum(f, v)
      /\ Sum(g, u) = g[x] + Sum(g, v)
  BY <1>3, <1>4, SumStep
<1>9. f[x] \in Int /\ g[x] \in Int /\ h[x] = f[x] - g[x]
  BY <1>5
<1>10. Sum(h, u) # Sum(f, u) - Sum(g, u)
  BY <1>2
<1>11. QED
  <2> HIDE DEF Sum, x, v
  <2> QED BY <1>6, <1>7, <1>8, <1>9, <1>10

-----------------------------------------------------------------------------
(* What a FIFO deduction takes from the lots of a variant *)

\* The lots of a variant are numbered from the oldest, and there are finitely many.
LEMMA LotsNumbered ==
  ASSUME NEW ls \in Seq(Nat)
  PROVE  /\ DOMAIN ls = 1..Len(ls) /\ Len(ls) \in Nat
         /\ \A i \in DOMAIN ls : ls[i] \in Nat
         /\ \A D \in SUBSET DOMAIN ls : IsFiniteSet(D)
<1>1. DOMAIN ls = 1..Len(ls) /\ Len(ls) \in Nat
  OBVIOUS
<1>2. IsFiniteSet(1..Len(ls))
  BY <1>1, FS_Interval
<1>3. QED
  BY <1>1, <1>2, FS_Subset

\* Units are counted in naturals.
LEMMA LotTotalType ==
  ASSUME NEW ls \in Seq(Nat)
  PROVE  LotTotal(ls) \in Nat
<1>1. IsFiniteSet(DOMAIN ls) /\ \A i \in DOMAIN ls : ls[i] \in Nat
  BY LotsNumbered
<1>2. SumFunctionOnSet(ls, DOMAIN ls) \in Int /\ SumFunctionOnSet(ls, DOMAIN ls) >= 0
  BY <1>1, SumType
<1>3. QED
  BY <1>2 DEF LotTotal

\* The units before a lot are counted in naturals.
LEMMA OlderType ==
  ASSUME NEW ls \in Seq(Nat), NEW i
  PROVE  Older(ls, i) \in Nat
<1> DEFINE D == {j \in DOMAIN ls : j < i}
<1>1. IsFiniteSet(D) /\ \A j \in D : ls[j] \in Nat
  BY LotsNumbered
<1>2. SumFunctionOnSet(ls, D) \in Nat
  <2> HIDE DEF D
  <2> QED BY <1>1, SumType
<1>3. QED
  BY <1>2 DEF Older

\* The units older than a lot, one lot after the other.
LEMMA OlderStep ==
  ASSUME NEW ls \in Seq(Nat)
  PROVE  /\ Older(ls, 1) = 0
         /\ \A i \in 1..Len(ls) : Older(ls, i + 1) = Older(ls, i) + ls[i]
         /\ Older(ls, Len(ls) + 1) = LotTotal(ls)
<1>1. Older(ls, 1) = 0
  <2>1. {j \in DOMAIN ls : j < 1} = {}
    BY LotsNumbered
  <2>2. QED
    BY <2>1, SumEmpty DEF Older
<1>2. ASSUME NEW i \in 1..Len(ls)
      PROVE  Older(ls, i + 1) = Older(ls, i) + ls[i]
  <2> DEFINE D == {j \in DOMAIN ls : j < i}
  <2>1. {j \in DOMAIN ls : j < i + 1} = D \cup {i} /\ i \notin D
    BY LotsNumbered
  <2>2. IsFiniteSet(D) /\ \A j \in D \cup {i} : ls[j] \in Int
    BY LotsNumbered
  <2>3. SumFunctionOnSet(ls, D \cup {i}) = SumFunctionOnSet(ls, D) + ls[i]
    <3> HIDE DEF D
    <3> QED BY <2>1, <2>2, SumAdd
  <2>4. QED
    BY <2>1, <2>3 DEF Older
<1>3. Older(ls, Len(ls) + 1) = LotTotal(ls)
  <2>1. {j \in DOMAIN ls : j < Len(ls) + 1} = DOMAIN ls
    <3>1. \A j \in DOMAIN ls : j < Len(ls) + 1
      BY LotsNumbered
    <3>2. QED
      BY <3>1
  <2>2. QED
    BY <2>1 DEF Older, LotTotal
<1>4. QED
  BY <1>1, <1>2, <1>3

\* A set of naturals has a least element: the induction along the lots.
LEMMA LeastNatural ==
  ASSUME NEW T, T \subseteq Nat, T # {}
  PROVE  \E n \in T : \A m \in T : n <= m
<1> DEFINE Less == {p \in Nat \X Nat : p[1] < p[2]}
<1>1. IsWellFoundedOn(Less, Nat)
  BY NatLessThanWellFounded DEF OpToRel
<1>2. PICK n \in T : \A m \in T : ~(<<m, n>> \in Less)
  <2> HIDE DEF Less
  <2> QED BY <1>1, WFMin
<1>3. ASSUME NEW m \in T PROVE n <= m
  <2>1. <<m, n>> \in Nat \X Nat /\ ~(<<m, n>> \in Less)
    BY <1>2
  <2>2. QED
    BY <2>1
<1>4. QED
  BY <1>3

\* No lot gives more than it has.
LEMMA TakenType ==
  ASSUME NEW ls \in Seq(Nat), NEW need \in Nat
  PROVE  /\ Taken(ls, need) \in Seq(Nat) /\ Len(Taken(ls, need)) = Len(ls)
         /\ \A i \in DOMAIN ls : Taken(ls, need)[i] \in 0..ls[i]
<1>1. ASSUME NEW i \in 1..Len(ls)
      PROVE  /\ Taken(ls, need)[i] \in 0..ls[i]
             /\ Taken(ls, need)[i] =
                  IF need <= Older(ls, i) THEN 0 ELSE Smaller(ls[i], need - Older(ls, i))
  <2>1. ls[i] \in Nat /\ Older(ls, i) \in Nat /\ i \in DOMAIN ls
    BY OlderType
  <2>2. Taken(ls, need)[i] =
          IF need <= Older(ls, i) THEN 0 ELSE Smaller(ls[i], need - Older(ls, i))
    BY <2>1 DEF Taken
  <2>3. QED
    BY <2>1, <2>2 DEF Smaller
<1>2. Taken(ls, need) = [i \in 1..Len(ls) |-> Taken(ls, need)[i]]
  BY LotsNumbered DEF Taken
<1>3. QED
  BY <1>1, <1>2, LotsNumbered

\* The oldest lots together give what is asked, or all that they have.
LEMMA TakenOlder ==
  ASSUME NEW ls \in Seq(Nat), NEW need \in Nat, NEW i \in 1..(Len(ls) + 1)
  PROVE  Older(Taken(ls, need), i) = Smaller(need, Older(ls, i))
<1> DEFINE tk == Taken(ls, need)
           Bad == {n \in 1..(Len(ls) + 1) : Older(tk, n) # Smaller(need, Older(ls, n))}
<1>1. SUFFICES ASSUME Bad # {} PROVE FALSE
  OBVIOUS
<1>2. PICK n \in Bad : \A m \in Bad : n <= m
  <2>1. Bad \subseteq Nat
    OBVIOUS
  <2> HIDE DEF Bad
  <2> QED BY <1>1, <2>1, LeastNatural
<1>3. tk \in Seq(Nat) /\ Len(tk) = Len(ls)
  BY TakenType
<1> HIDE DEF tk
<1>4. n # 1
  <2>1. Older(tk, 1) = 0 /\ Older(ls, 1) = 0
    BY <1>3, OlderStep
  <2>2. QED
    BY <1>2, <2>1 DEF Smaller
<1> DEFINE k == n - 1
<1>5. k \in 1..Len(ls) /\ k + 1 = n /\ k \notin Bad
  BY <1>2, <1>4, LotsNumbered
<1>6. Older(tk, k) = Smaller(need, Older(ls, k))
  BY <1>5
<1>7. Older(tk, n) = Older(tk, k) + tk[k] /\ Older(ls, n) = Older(ls, k) + ls[k]
  BY <1>3, <1>5, OlderStep
<1>8. tk[k] = IF need <= Older(ls, k) THEN 0 ELSE Smaller(ls[k], need - Older(ls, k))
  BY <1>5, LotsNumbered DEF tk, Taken
<1>9. Older(ls, k) \in Nat /\ ls[k] \in Nat
  BY <1>5, OlderType, LotsNumbered
<1>10. Older(tk, n) # Smaller(need, Older(ls, n))
  BY <1>2
<1> DEFINE a == Older(ls, k)
           b == ls[k]
<1>11. Older(tk, n) = Smaller(need, a) + (IF need <= a THEN 0 ELSE Smaller(b, need - a))
  BY <1>6, <1>7, <1>8
<1>12. Smaller(need, a) + (IF need <= a THEN 0 ELSE Smaller(b, need - a)) = Smaller(need, a + b)
  <2> HIDE DEF a, b
  <2>1. a \in Nat /\ b \in Nat
    BY <1>9 DEF a, b
  <2>2. CASE need <= a
    BY <2>1, <2>2 DEF Smaller
  <2>3. CASE need > a
    BY <2>1, <2>3 DEF Smaller
  <2>4. QED
    BY <2>1, <2>2, <2>3
<1>13. QED
  BY <1>7, <1>10, <1>11, <1>12

\* A deduction takes what is asked, or everything when the lots run out.
LEMMA TakenTotal ==
  ASSUME NEW ls \in Seq(Nat), NEW need \in Nat
  PROVE  LotTotal(Taken(ls, need)) = Smaller(need, LotTotal(ls))
<1>1. Taken(ls, need) \in Seq(Nat) /\ Len(Taken(ls, need)) = Len(ls)
  BY TakenType
<1>2. Older(Taken(ls, need), Len(ls) + 1) = LotTotal(Taken(ls, need))
  BY <1>1, OlderStep
<1>3. Len(ls) + 1 \in 1..(Len(ls) + 1)
  BY LotsNumbered
<1>4. QED
  BY <1>2, <1>3, OlderStep, TakenOlder

\* Written back over any state of the lots, a deduction leaves lots.
LEMMA DeductedType ==
  ASSUME NEW ls \in Seq(Nat), NEW seen \in Seq(Nat), NEW need \in Nat
  PROVE  Deducted(ls, seen, need) \in Seq(Nat) /\ Len(Deducted(ls, seen, need)) = Len(ls)
<1> DEFINE d == Deducted(ls, seen, need)
<1>1. ASSUME NEW i \in 1..Len(ls)
      PROVE  d[i] \in Nat
  <2>1. i \in DOMAIN ls /\ ls[i] \in Nat
    OBVIOUS
  <2>2. i \in DOMAIN seen => seen[i] \in Nat /\ Taken(seen, need)[i] \in 0..seen[i]
    BY TakenType, LotsNumbered
  <2>3. d[i] = IF i \in DOMAIN seen /\ Taken(seen, need)[i] > 0
               THEN seen[i] - Taken(seen, need)[i] ELSE ls[i]
    BY <2>1 DEF Deducted
  <2>4. QED
    <3> HIDE DEF d
    <3> QED BY <2>1, <2>2, <2>3
<1>2. d = [i \in 1..Len(ls) |-> d[i]] /\ Len(ls) \in Nat
  BY LotsNumbered DEF Deducted
<1>3. d \in Seq(Nat) /\ Len(d) = Len(ls)
  <2> HIDE DEF d
  <2>1. d \in [1..Len(ls) -> Nat]
    BY <1>1, <1>2
  <2>2. QED
    BY <1>2, <2>1
<1>4. QED
  BY <1>3

\* Written back over the lots it was computed from, it takes out of them exactly
\* what it says.
LEMMA DeductedTotal ==
  ASSUME NEW ls \in Seq(Nat), NEW need \in Nat
  PROVE  /\ LotTotal(Deducted(ls, ls, need)) = LotTotal(ls) - LotTotal(Taken(ls, need))
         /\ LotTotal(Deducted(ls, ls, need)) = LotTotal(ls) - Smaller(need, LotTotal(ls))
<1> DEFINE d == Deducted(ls, ls, need)
           tk == Taken(ls, need)
<1>1. d \in Seq(Nat) /\ Len(d) = Len(ls) /\ tk \in Seq(Nat) /\ Len(tk) = Len(ls)
  BY DeductedType, TakenType
<1>2. DOMAIN d = DOMAIN ls /\ DOMAIN tk = DOMAIN ls /\ IsFiniteSet(DOMAIN ls)
  <2> HIDE DEF d, tk
  <2> QED BY <1>1, LotsNumbered
<1>3. ASSUME NEW i \in DOMAIN ls
      PROVE  ls[i] \in Int /\ tk[i] \in Int /\ d[i] = ls[i] - tk[i]
  <2>1. ls[i] \in Nat /\ tk[i] \in 0..ls[i]
    BY TakenType, LotsNumbered
  <2>2. d[i] = IF tk[i] > 0 THEN ls[i] - tk[i] ELSE ls[i]
    BY DEF Deducted
  <2>3. QED
    <3> HIDE DEF d, tk
    <3> QED BY <2>1, <2>2
<1>4. SumFunctionOnSet(d, DOMAIN ls) =
        SumFunctionOnSet(ls, DOMAIN ls) - SumFunctionOnSet(tk, DOMAIN ls)
  <2> HIDE DEF d, tk
  <2> QED BY <1>2, <1>3, SumMinus
<1>5. QED
  BY <1>2, <1>4, TakenTotal DEF LotTotal

\* A new lot adds its units.
LEMMA AppendTotal ==
  ASSUME NEW ls \in Seq(Nat), NEW n \in Nat
  PROVE  Append(ls, n) \in Seq(Nat) /\ LotTotal(Append(ls, n)) = LotTotal(ls) + n
<1> DEFINE new == Append(ls, n)
           k == Len(ls) + 1
<1>1. /\ new \in Seq(Nat) /\ Len(new) = k /\ new[k] = n
      /\ \A i \in 1..Len(ls) : new[i] = ls[i]
  OBVIOUS
<1>2. DOMAIN new = DOMAIN ls \cup {k} /\ k \notin DOMAIN ls /\ IsFiniteSet(DOMAIN ls)
  <2> HIDE DEF new
  <2> QED BY <1>1, LotsNumbered
<1>3. \A i \in DOMAIN ls \cup {k} : new[i] \in Int
  <2> HIDE DEF new
  <2> QED BY <1>1, <1>2, LotsNumbered
<1>4. SumFunctionOnSet(new, DOMAIN ls \cup {k}) = SumFunctionOnSet(new, DOMAIN ls) + new[k]
  <2> HIDE DEF new, k
  <2> QED BY <1>2, <1>3, SumAdd
<1>5. SumFunctionOnSet(new, DOMAIN ls) = SumFunctionOnSet(ls, DOMAIN ls)
  <2> HIDE DEF new
  <2> QED BY <1>1, <1>2, LotsNumbered, SumSame
<1>6. QED
  BY <1>1, <1>2, <1>4, <1>5 DEF LotTotal
=============================================================================
