---------------------------- MODULE DailyProofs ----------------------------
(***************************************************************************)
(* What the analytics pipeline counts, and what its reports say of it, for *)
(* any locations, vehicles, drivers and failures (DailyStats,              *)
(* DailyReports).  The first part is about sums over finite sets.          *)
(***************************************************************************)
EXTENDS DailyReports, FiniteSetTheorems, NaturalsInduction, TLAPS

-----------------------------------------------------------------------------
\* A set of naturals that is not empty has a least element.
LEMMA LeastNatural ==
  ASSUME NEW T, T \subseteq Nat, T # {}
  PROVE  \E x \in T : \A y \in T : x <= y
<1>1. PICK R : R = OpToRel(<, Nat)
  OBVIOUS
<1>2. IsWellFoundedOn(R, Nat)
  BY <1>1, NatLessThanWellFounded
<1>3. PICK x \in T : \A y \in T : ~(<<y, x>> \in R)
  BY <1>2, WFMin, Zenon
<1>4. ASSUME NEW y \in T PROVE x <= y
  <2>1. <<y, x>> \in R <=> y < x
    BY <1>1 DEF OpToRel
  <2> QED  BY <1>3, <2>1
<1> QED  BY <1>3, <1>4

\* What is so for the empty set, and for a finite set whenever it is for all
\* smaller ones, is so for every finite set: the members of Bad are smaller
\* counterexamples.
LEMMA NoLeastCounterexample ==
  ASSUME NEW S, IsFiniteSet(S), NEW Bad, Bad \subseteq SUBSET S, Bad # {}
  PROVE  \E T \in Bad : /\ IsFiniteSet(T)
                        /\ \A x \in T : T \ {x} \notin Bad
<1>1. \A T \in Bad : IsFiniteSet(T) /\ Cardinality(T) \in Nat
  BY FS_Subset, FS_CardinalityType
<1>s. PICK sizes : sizes = {Cardinality(T) : T \in Bad}
  OBVIOUS
<1>2. PICK n \in sizes : \A m \in sizes : n <= m
  BY <1>1, <1>s, LeastNatural
<1>3. PICK T \in Bad : n = Cardinality(T)
  BY <1>2, <1>s
<1>4. ASSUME NEW x \in T, T \ {x} \in Bad PROVE FALSE
  <2>1. Cardinality(T \ {x}) = Cardinality(T) - 1
    BY <1>1, <1>3, FS_RemoveElement
  <2>2. Cardinality(T) <= Cardinality(T \ {x}) /\ Cardinality(T) \in Nat
    BY <1>1, <1>2, <1>3, <1>4, <1>s
  <2> QED  BY <2>1, <2>2
<1> QED  BY <1>1, <1>3, <1>4

-----------------------------------------------------------------------------
(***************************************************************************)
(* Sums.  One is the last value of a recursive function on the subsets.    *)
(***************************************************************************)
Pick(s) == CHOOSE x \in s : TRUE

Adds(it, g, S) ==
  it = [s \in SUBSET S |-> IF s = {} THEN 0 ELSE g[Pick(s)] + it[s \ {Pick(s)}]]

LEMMA Picked == ASSUME NEW s, s # {} PROVE Pick(s) \in s
BY DEF Pick

LEMMA AddsIsUnique ==
  ASSUME NEW S, IsFiniteSet(S), NEW T, NEW U, S \subseteq T, S \subseteq U,
         NEW g, NEW h, \A x \in S : g[x] = h[x],
         NEW i, Adds(i, g, T), NEW j, Adds(j, h, U)
  PROVE  i[S] = j[S]
<1>b. PICK Bad : Bad = {s \in SUBSET S : i[s] # j[s]}
  OBVIOUS
<1>1. ASSUME NEW s \in SUBSET S
      PROVE  /\ i[s] = IF s = {} THEN 0 ELSE g[Pick(s)] + i[s \ {Pick(s)}]
             /\ j[s] = IF s = {} THEN 0 ELSE h[Pick(s)] + j[s \ {Pick(s)}]
  <2>1. s \in SUBSET T /\ s \in SUBSET U
    OBVIOUS
  <2>2. i[s] = IF s = {} THEN 0 ELSE g[Pick(s)] + i[s \ {Pick(s)}]
    BY <2>1 DEF Adds
  <2>3. j[s] = IF s = {} THEN 0 ELSE h[Pick(s)] + j[s \ {Pick(s)}]
    BY <2>1 DEF Adds
  <2> QED  BY <2>2, <2>3
<1>2. ASSUME Bad # {} PROVE FALSE
  <2>1. PICK s \in Bad : \A x \in s : s \ {x} \notin Bad
    BY <1>b, <1>2, NoLeastCounterexample
  <2>2. s # {}
    BY <1>b, <1>1, <2>1
  <2>x. PICK x : x = Pick(s)
    OBVIOUS
  <2>3. x \in s /\ x \in S
    BY <1>b, <2>1, <2>2, <2>x, Picked
  <2>4. i[s \ {x}] = j[s \ {x}]
    BY <1>b, <2>1, <2>3
  <2>5. i[s] = g[x] + i[s \ {x}] /\ j[s] = h[x] + j[s \ {x}]
    BY <1>b, <1>1, <2>1, <2>2, <2>x
  <2> QED  BY <1>b, <2>1, <2>3, <2>4, <2>5
<1> QED  BY <1>b, <1>2

LEMMA AddsExists ==
  ASSUME NEW S, IsFiniteSet(S), NEW g
  PROVE  \E it : Adds(it, g, S)
<1>b. PICK Bad : Bad = {s \in SUBSET S : ~\E it : Adds(it, g, s)}
  OBVIOUS
<1>1. ASSUME Bad # {} PROVE FALSE
  <2>1. PICK s \in Bad : IsFiniteSet(s) /\ \A x \in s : s \ {x} \notin Bad
    BY <1>b, <1>1, NoLeastCounterexample
  <2> DEFINE Sub(x) == CHOOSE it : Adds(it, g, s \ {x})
  <2>2. ASSUME NEW x \in s PROVE Adds(Sub(x), g, s \ {x})
    <3>1. s \ {x} \in SUBSET S
      BY <1>b, <2>1
    <3>2. \E it : Adds(it, g, s \ {x})
      BY <1>b, <2>1, <3>1
    <3> QED  BY <3>2
  <2> HIDE DEF Sub
  \* A proper subset lacks some element of s.
  <2> DEFINE Lacks(t) == CHOOSE x \in s : x \notin t
             Val(t) == Sub(Lacks(t))[t]
  <2>3. ASSUME NEW t \in SUBSET s, t # s
        PROVE  Lacks(t) \in s /\ t \in SUBSET (s \ {Lacks(t)})
    <3>1. \E x \in s : x \notin t
      BY <2>3
    <3>2. Lacks(t) \in s /\ Lacks(t) \notin t
      BY <3>1
    <3> HIDE DEF Lacks
    <3> QED  BY <3>2
  <2> HIDE DEF Lacks
  <2>4. ASSUME NEW t \in SUBSET s, t # s
        PROVE  Val(t) = IF t = {} THEN 0 ELSE g[Pick(t)] + Val(t \ {Pick(t)})
    <3>x. PICK x : x = Lacks(t)
      OBVIOUS
    <3>1. x \in s /\ t \in SUBSET (s \ {x})
      BY <2>3, <2>4, <3>x
    <3>i. PICK i : i = Sub(x)
      OBVIOUS
    <3>2. Adds(i, g, s \ {x}) /\ Val(t) = i[t]
      BY <2>2, <3>1, <3>x, <3>i
    <3>3. i[t] = IF t = {} THEN 0 ELSE g[Pick(t)] + i[t \ {Pick(t)}]
      BY <3>1, <3>2 DEF Adds
    <3>4. ASSUME t # {} PROVE i[t \ {Pick(t)}] = Val(t \ {Pick(t)})
      <4>p. PICK p : p = Pick(t)
        OBVIOUS
      <4>0. p \in t
        BY <3>4, <4>p, Picked
      <4>u. PICK u : u = t \ {p}
        OBVIOUS
      <4>1. u \in SUBSET s /\ u # s /\ u \subseteq s \ {x} /\ IsFiniteSet(u)
        BY <2>1, <3>1, <4>0, <4>u, FS_Subset
      <4>y. PICK y : y = Lacks(u)
        OBVIOUS
      <4>2. y \in s /\ u \subseteq s \ {y}
        BY <2>3, <4>1, <4>y
      <4>j. PICK j : j = Sub(y)
        OBVIOUS
      <4>3. Adds(j, g, s \ {y}) /\ Val(u) = j[u]
        BY <2>2, <4>2, <4>y, <4>j
      <4>4. i[u] = j[u]
        BY <3>2, <4>1, <4>2, <4>3, AddsIsUnique
      <4> QED  BY <4>3, <4>4, <4>u, <4>p
    <3> QED  BY <3>2, <3>3, <3>4
  <2> HIDE DEF Val
  <2>i. PICK it : it = [t \in SUBSET s |->
                          IF t # s THEN Val(t)
                          ELSE IF s = {} THEN 0 ELSE g[Pick(s)] + Val(s \ {Pick(s)})]
    OBVIOUS
  <2>5. ASSUME NEW t \in SUBSET s
        PROVE  it[t] = IF t = {} THEN 0 ELSE g[Pick(t)] + it[t \ {Pick(t)}]
    <3>1. CASE t = {}
      BY <2>4, <2>i, <3>1
    <3>2. CASE t # {}
      <4>p. PICK p : p = Pick(t)
        OBVIOUS
      <4>1. p \in t
        BY <3>2, <4>p, Picked
      <4>2. it[t \ {p}] = Val(t \ {p})
        BY <2>i, <4>1
      <4>3. it[t] = g[p] + Val(t \ {p})
        <5>1. CASE t = s
          BY <2>i, <3>2, <4>p, <5>1
        <5>2. CASE t # s
          BY <2>i, <2>4, <3>2, <4>p, <5>2
        <5> QED  BY <5>1, <5>2
      <4> QED  BY <3>2, <4>p, <4>2, <4>3
    <3> QED  BY <3>1, <3>2
  <2>6. Adds(it, g, s)
    <3>1. it = [t \in SUBSET s |-> it[t]]
      BY <2>i
    <3> QED  BY <2>5, <3>1 DEF Adds
  <2> QED  BY <1>b, <2>1, <2>6
<1>2. S \notin Bad
  BY <1>1
<1> QED  BY <1>b, <1>2

LEMMA SumAdds ==
  ASSUME NEW g, NEW S, IsFiniteSet(S)
  PROVE  \E it : Adds(it, g, S) /\ SumFunctionOnSet(g, S) = it[S]
<1>1. PICK it : it = CHOOSE k : Adds(k, g, S)
  OBVIOUS
<1>2. Adds(it, g, S)
  BY <1>1, AddsExists
<1>3. SumFunctionOnSet(g, S) = it[S]
  BY <1>1 DEF Adds, Pick, SumFunctionOnSet, FoldFunctionOnSet, MapThenFoldSet
<1> QED  BY <1>2, <1>3

LEMMA SumEmpty == ASSUME NEW g PROVE SumFunctionOnSet(g, {}) = 0
<1>1. PICK it : Adds(it, g, {}) /\ SumFunctionOnSet(g, {}) = it[{}]
  BY FS_EmptySet, SumAdds
<1> QED  BY <1>1 DEF Adds

\* Sums over equal values are equal.
LEMMA SumSame ==
  ASSUME NEW S, IsFiniteSet(S), NEW g, NEW h, \A x \in S : g[x] = h[x]
  PROVE  SumFunctionOnSet(g, S) = SumFunctionOnSet(h, S)
<1>1. PICK i : Adds(i, g, S) /\ SumFunctionOnSet(g, S) = i[S]
  BY SumAdds
<1>2. PICK j : Adds(j, h, S) /\ SumFunctionOnSet(h, S) = j[S]
  BY SumAdds
<1> QED  BY <1>1, <1>2, AddsIsUnique

\* The equation of the recursion: the element that is picked comes first.
LEMMA SumPicked ==
  ASSUME NEW S, IsFiniteSet(S), S # {}, NEW g
  PROVE  SumFunctionOnSet(g, S) = g[Pick(S)] + SumFunctionOnSet(g, S \ {Pick(S)})
<1>p. PICK p : p = Pick(S)
  OBVIOUS
<1>u. PICK U : U = S \ {p}
  OBVIOUS
<1>0. p \in S /\ IsFiniteSet(U) /\ U \subseteq S
  BY <1>p, <1>u, Picked, FS_Subset
<1>1. PICK i : Adds(i, g, S) /\ SumFunctionOnSet(g, S) = i[S]
  BY SumAdds
<1>2. PICK j : Adds(j, g, U) /\ SumFunctionOnSet(g, U) = j[U]
  BY <1>0, SumAdds
<1>3. i[S] = g[p] + i[U]
  BY <1>1, <1>p, <1>u DEF Adds
<1>4. i[U] = j[U]
  BY <1>0, <1>1, <1>2, AddsIsUnique
<1> QED  BY <1>1, <1>2, <1>3, <1>4, <1>p, <1>u

LEMMA SumType ==
  ASSUME NEW S, IsFiniteSet(S), NEW T, T \in {Nat, Int}, NEW g, \A x \in S : g[x] \in T
  PROVE  SumFunctionOnSet(g, S) \in T
<1>b. PICK Bad : Bad = {s \in SUBSET S : SumFunctionOnSet(g, s) \notin T}
  OBVIOUS
<1>1. ASSUME Bad # {} PROVE FALSE
  <2>1. PICK s \in Bad : IsFiniteSet(s) /\ \A x \in s : s \ {x} \notin Bad
    BY <1>b, <1>1, NoLeastCounterexample
  <2>2. s # {}
    BY <1>b, <2>1, SumEmpty
  <2>p. PICK p : p = Pick(s)
    OBVIOUS
  <2>3. p \in s /\ s \in SUBSET S /\ SumFunctionOnSet(g, s) \notin T
    BY <1>b, <2>1, <2>2, <2>p, Picked
  <2>m. PICK m : m = SumFunctionOnSet(g, s \ {p})
    OBVIOUS
  <2>4. m \in T /\ g[p] \in T
    BY <1>b, <2>1, <2>3, <2>m
  <2>5. SumFunctionOnSet(g, s) = g[p] + m
    BY <2>1, <2>2, <2>p, <2>m, SumPicked
  <2>6. g[p] + m \in T
    BY ONLY <2>4, T \in {Nat, Int}
  <2> QED  BY <2>3, <2>5, <2>6
<1> QED  BY <1>b, <1>1

\* Any element can come first.
LEMMA SumElement ==
  ASSUME NEW S, IsFiniteSet(S), NEW g, \A x \in S : g[x] \in Int, NEW x \in S
  PROVE  SumFunctionOnSet(g, S) = g[x] + SumFunctionOnSet(g, S \ {x})
<1> DEFINE Sum(s) == SumFunctionOnSet(g, s)
<1>b. PICK Bad : Bad = {s \in SUBSET S : \E y \in s : Sum(s) # g[y] + Sum(s \ {y})}
  OBVIOUS
<1>i. \A s \in SUBSET S : Sum(s) \in Int
  BY FS_Subset, SumType
<1>1. ASSUME Bad # {} PROVE FALSE
  <2>1. PICK s \in Bad : IsFiniteSet(s) /\ \A y \in s : s \ {y} \notin Bad
    BY <1>b, <1>1, NoLeastCounterexample
  <2>2. PICK y \in s : Sum(s) # g[y] + Sum(s \ {y})
    BY <1>b, <2>1
  <2>p. PICK p : p = Pick(s)
    OBVIOUS
  <2>3. p \in s /\ Sum(s) = g[p] + Sum(s \ {p})
    BY <2>1, <2>2, <2>p, Picked, SumPicked
  <2> HIDE DEF Sum
  <2>4. p # y
    BY <2>2, <2>3
  <2>5. s \in SUBSET S /\ s \ {p} \in SUBSET S /\ s \ {y} \in SUBSET S
    BY <1>b, <2>1
  <2>6. Sum(s \ {p}) = g[y] + Sum((s \ {p}) \ {y})
    BY <1>b, <2>1, <2>2, <2>3, <2>4, <2>5
  <2>7. Sum(s \ {y}) = g[p] + Sum((s \ {y}) \ {p})
    BY <1>b, <2>1, <2>2, <2>3, <2>4, <2>5
  <2>8. (s \ {p}) \ {y} = (s \ {y}) \ {p}
    OBVIOUS
  <2>r. PICK rest : rest = Sum((s \ {p}) \ {y})
    OBVIOUS
  <2>9. rest \in Int /\ g[y] \in Int /\ g[p] \in Int
    <3>1. (s \ {p}) \ {y} \in SUBSET S
      BY <2>5
    <3> QED  BY <1>i, <2>2, <2>3, <2>5, <2>r, <3>1
  <2>10. Sum(s) = g[p] + (g[y] + rest)
    BY <2>3, <2>6, <2>r
  <2>11. Sum(s \ {y}) = g[p] + rest
    BY <2>7, <2>8, <2>r
  <2> QED  BY <2>2, <2>9, <2>10, <2>11
<1>2. S \notin Bad
  BY <1>1
<1> QED  BY <1>b, <1>2

\* Zeros can be left out.
LEMMA SumZeros ==
  ASSUME NEW S, IsFiniteSet(S), NEW g, \A x \in S : g[x] \in Int,
         NEW T \in SUBSET S, \A x \in S \ T : g[x] = 0
  PROVE  SumFunctionOnSet(g, S) = SumFunctionOnSet(g, T)
<1>b. PICK Bad : Bad = {s \in SUBSET S : SumFunctionOnSet(g, s) # SumFunctionOnSet(g, s \cap T)}
  OBVIOUS
<1>1. ASSUME Bad # {} PROVE FALSE
  <2>1. PICK s \in Bad : IsFiniteSet(s) /\ \A x \in s : s \ {x} \notin Bad
    BY <1>b, <1>1, NoLeastCounterexample
  <2>2. s \in SUBSET S /\ SumFunctionOnSet(g, s) # SumFunctionOnSet(g, s \cap T)
    BY <1>b, <2>1
  <2>3. s # {} /\ s \cap T # s
    BY <2>2
  <2>4. PICK x \in s : x \notin T
    BY <2>3
  <2>u. PICK u : u = s \ {x}
    OBVIOUS
  <2>5. u \cap T = s \cap T
    BY <2>4, <2>u
  <2>6. SumFunctionOnSet(g, s) = g[x] + SumFunctionOnSet(g, u)
    BY <2>1, <2>2, <2>4, <2>u, SumElement
  <2>7. SumFunctionOnSet(g, u) = SumFunctionOnSet(g, u \cap T)
    BY <1>b, <2>1, <2>2, <2>4, <2>u
  <2>8. SumFunctionOnSet(g, u) \in Int
    <3>1. IsFiniteSet(u) /\ \A y \in u : g[y] \in Int
      BY <2>1, <2>2, <2>u, FS_Subset
    <3> QED  BY <3>1, SumType
  <2>9. g[x] = 0
    BY <2>2, <2>4
  <2>10. SumFunctionOnSet(g, s) = SumFunctionOnSet(g, u)
    BY ONLY <2>6, <2>8, <2>9
  <2> QED  BY ONLY <2>2, <2>5, <2>7, <2>10
<1>2. S \notin Bad /\ S \cap T = T
  BY <1>1
<1> QED  BY <1>b, <1>2

\* Sums can be added term by term.
LEMMA SumPlus ==
  ASSUME NEW S, IsFiniteSet(S), NEW g, NEW h, NEW k,
         \A x \in S : g[x] \in Int /\ h[x] \in Int /\ k[x] = g[x] + h[x]
  PROVE  SumFunctionOnSet(k, S) = SumFunctionOnSet(g, S) + SumFunctionOnSet(h, S)
<1>b. PICK Bad : Bad = {s \in SUBSET S : SumFunctionOnSet(k, s)
                                         # SumFunctionOnSet(g, s) + SumFunctionOnSet(h, s)}
  OBVIOUS
<1>1. ASSUME Bad # {} PROVE FALSE
  <2>1. PICK s \in Bad : IsFiniteSet(s) /\ \A x \in s : s \ {x} \notin Bad
    BY <1>b, <1>1, NoLeastCounterexample
  <2>2. /\ s \in SUBSET S
        /\ SumFunctionOnSet(k, s) # SumFunctionOnSet(g, s) + SumFunctionOnSet(h, s)
    BY <1>b, <2>1
  <2>0. /\ SumFunctionOnSet(k, {}) = 0 /\ SumFunctionOnSet(g, {}) = 0
        /\ SumFunctionOnSet(h, {}) = 0
    BY SumEmpty
  <2>3. s # {}
    BY ONLY <2>2, <2>0
  <2>4. PICK x \in s : TRUE
    BY <2>3
  <2>u. PICK u : u = s \ {x}
    OBVIOUS
  <2>5. IsFiniteSet(u) /\ u \in SUBSET S
    BY <2>1, <2>2, <2>u, FS_Subset
  <2>6. \A y \in s : g[y] \in Int /\ h[y] \in Int /\ k[y] \in Int /\ k[y] = g[y] + h[y]
    BY <2>2
  <2>a. PICK a : a = SumFunctionOnSet(g, u)
    OBVIOUS
  <2>c. PICK c : c = SumFunctionOnSet(h, u)
    OBVIOUS
  <2>7. SumFunctionOnSet(g, s) = g[x] + a
    BY <2>1, <2>6, <2>u, <2>a, SumElement
  <2>8. SumFunctionOnSet(h, s) = h[x] + c
    BY <2>1, <2>6, <2>u, <2>c, SumElement
  <2>9. SumFunctionOnSet(k, s) = k[x] + SumFunctionOnSet(k, u)
    BY <2>1, <2>6, <2>u, SumElement
  <2>10. SumFunctionOnSet(k, u) = a + c
    BY <1>b, <2>1, <2>5, <2>u, <2>a, <2>c
  <2>11. a \in Int
    BY <2>5, <2>6, <2>u, <2>a, SumType
  <2>12. c \in Int
    BY <2>5, <2>6, <2>u, <2>c, SumType
  <2>13. g[x] \in Int /\ h[x] \in Int /\ k[x] = g[x] + h[x]
    BY <2>4, <2>6
  <2> QED  BY ONLY <2>2, <2>7, <2>8, <2>9, <2>10, <2>11, <2>12, <2>13
<1>2. S \notin Bad
  BY <1>1
<1> QED  BY <1>b, <1>2

\* The order of summation of a table does not matter.
LEMMA SumSwap ==
  ASSUME NEW S, IsFiniteSet(S), NEW T, IsFiniteSet(T),
         NEW m, \A x \in S, y \in T : m[x][y] \in Int
  PROVE  SumFunctionOnSet([x \in S |-> SumFunctionOnSet(m[x], T)], S)
         = SumFunctionOnSet([y \in T |-> SumFunctionOnSet([x \in S |-> m[x][y]], S)], T)
<1>r. PICK row : row = [x \in S |-> SumFunctionOnSet(m[x], T)]
  OBVIOUS
<1>k. PICK col : col = [y \in T |-> [x \in S |-> m[x][y]]]
  OBVIOUS
<1> DEFINE Left(s) == SumFunctionOnSet(row, s)
           Part(s) == [y \in T |-> SumFunctionOnSet(col[y], s)]
           Right(s) == SumFunctionOnSet(Part(s), T)
<1>0. /\ \A x \in S : row[x] \in Int
      /\ \A y \in T : \A x \in S : col[y][x] = m[x][y] /\ col[y][x] \in Int
  <2>1. \A x \in S : SumFunctionOnSet(m[x], T) \in Int
    BY SumType
  <2> QED  BY <1>r, <1>k, <2>1
<1>p. ASSUME NEW s \in SUBSET S PROVE \A y \in T : Part(s)[y] \in Int
  <2>1. IsFiniteSet(s)
    BY FS_Subset
  <2>2. \A y \in T : SumFunctionOnSet(col[y], s) \in Int
    BY <1>0, <2>1, SumType
  <2> QED  BY <2>2
<1>b. PICK Bad : Bad = {s \in SUBSET S : Left(s) # Right(s)}
  OBVIOUS
<1>1. ASSUME Bad # {} PROVE FALSE
  <2>1. PICK s \in Bad : IsFiniteSet(s) /\ \A x \in s : s \ {x} \notin Bad
    BY <1>b, <1>1, NoLeastCounterexample
  <2>2. s \in SUBSET S /\ Left(s) # Right(s)
    BY <1>b, <2>1
  <2>3. CASE s = {}
    <3>1. Left(s) = 0
      BY <2>3, SumEmpty
    <3>e. PICK empty : empty = Part(s)
      OBVIOUS
    <3>2. \A y \in T : empty[y] = 0
      BY <2>3, <3>e, SumEmpty
    <3>3. SumFunctionOnSet(empty, T) = SumFunctionOnSet(empty, {})
      BY <3>2, SumZeros
    <3>4. Right(s) = 0
      BY <3>3, <3>e, SumEmpty
    <3> QED  BY <2>2, <3>1, <3>4
  <2>4. CASE s # {}
    <3>1. PICK x \in s : TRUE
      BY <2>4
    <3>u. PICK u : u = s \ {x}
      OBVIOUS
    <3>2. IsFiniteSet(u) /\ u \in SUBSET S /\ x \in S
      BY <2>1, <2>2, <3>u, FS_Subset
    <3>3. Left(s) = row[x] + Left(u)
      BY <1>0, <2>1, <2>2, <3>u, SumElement
    <3>4. \A y \in T : SumFunctionOnSet(col[y], s) = col[y][x] + SumFunctionOnSet(col[y], u)
      BY <1>0, <2>1, <2>2, <3>u, SumElement
    <3>a. PICK a : a = Part(s)
      OBVIOUS
    <3>c. PICK c : c = Part(u)
      OBVIOUS
    <3>m. PICK mx : mx = m[x]
      OBVIOUS
    <3>5. \A y \in T : mx[y] \in Int /\ c[y] \in Int /\ a[y] = mx[y] + c[y]
      BY <1>0, <1>p, <3>2, <3>4, <3>a, <3>c, <3>m
    <3>6. SumFunctionOnSet(a, T) = SumFunctionOnSet(mx, T) + SumFunctionOnSet(c, T)
      BY <3>5, SumPlus
    <3>7. row[x] = SumFunctionOnSet(mx, T)
      BY <1>r, <3>2, <3>m
    <3>8. Left(u) = Right(u)
      BY <1>b, <2>1, <3>1, <3>2, <3>u
    <3>9. Right(s) = SumFunctionOnSet(a, T) /\ Right(u) = SumFunctionOnSet(c, T)
      BY <3>a, <3>c
    <3> HIDE DEF Left, Right
    <3> QED  BY <2>2, <3>3, <3>6, <3>7, <3>8, <3>9
  <2> QED  BY <2>3, <2>4
<1>2. Left(S) = Right(S)
  <2>1. S \notin Bad
    BY <1>1
  <2> QED  BY <1>b, <2>1
<1>3. Part(S) = [y \in T |-> SumFunctionOnSet([x \in S |-> m[x][y]], S)]
  BY <1>k
<1> QED  BY <1>2, <1>3, <1>r

-----------------------------------------------------------------------------
(***************************************************************************)
(* The analytics pipeline: the inductive invariant, and its parts.         *)
(***************************************************************************)
\* The locations that have an id.
Drawn == pending \cup locations

IdsDrawn ==
  /\ IsFiniteSet(Drawn) /\ pending \cap locations = {}
  /\ \A l \in Drawn : /\ l.id \in 1 .. Cardinality(Drawn)
                      /\ l.packet \in Packets
                      /\ l.vehicle = l.packet.vehicle
                      /\ l.time = l.packet.time
  /\ \A l, k \in Drawn : l.id = k.id \/ l.packet = k.packet => l = k

\* What the rows b of the vehicles have counted, a row that is not there nothing.
SeenIn(b, v, d) == IF b[v][d] = NoRow THEN {} ELSE b[v][d].seen

Rowed(b) ==
  /\ b = [v \in Vehicles |-> b[v]]
  /\ \A v \in Vehicles : b[v] = [d \in Days |-> b[v][d]]

\* What was counted is committed, lies before c, and has a number of its own.
Booked(b, c, locs) ==
  \A v \in Vehicles, d \in Days : \A x \in SeenIn(b, v, d) :
    /\ x = <<x[1], x[2]>> /\ x[2] \in 0 .. Cardinality(Packets)
    /\ x[1] <= c /\ \E l \in locs : l.id = x[1]

NoneTwice(b) ==
  \A v, w \in Vehicles, d, e \in Days :
    \A x \in SeenIn(b, v, d), y \in SeenIn(b, w, e) :
      x[1] = y[1] => v = w /\ d = e /\ x = y

CountedIn(b, id) ==
  \E v \in Vehicles, d \in Days : \E x \in SeenIn(b, v, d) : x[1] = id

Complete(b, c, locs, missed) ==
  \A l \in locs : l.id <= c /\ l.id \notin missed => CountedIn(b, l.id)

\* The rows b are the account of the locations up to c: they counted those that
\* are committed and no other, none of them twice, and all but those that became
\* visible too late.
Accounts(b, c, locs, missed) ==
  Rowed(b) /\ Booked(b, c, locs) /\ NoneTwice(b) /\ Complete(b, c, locs, missed)

RunOK ==
  /\ run \in [on : {TRUE}, date : Days, start : {cursor + 1}, end : Nat,
              todo : SUBSET DOMAIN Stage, draft : {run.draft}]
  /\ cursor < run.end
  /\ DOMAIN run.draft = DOMAIN NoTables
  /\ IF "vehicle" \in run.todo
     THEN run.draft.vehicle = tables.vehicle
     ELSE Accounts(run.draft.vehicle, run.end, locations, late)

DailyIInv ==
  /\ IdsDrawn
  /\ cursor \in Nat
  /\ DOMAIN tables = DOMAIN NoTables
  /\ Accounts(tables.vehicle, cursor, locations, late)
  /\ run = NoRun \/ RunOK

-----------------------------------------------------------------------------
(***************************************************************************)
(* Least and greatest ids, and the days of locations.                      *)
(***************************************************************************)
LEMMA GreatestNatural ==
  ASSUME NEW T, NEW n \in Nat, T \subseteq 0 .. n, T # {}
  PROVE  Max(T) \in T /\ \A y \in T : y <= Max(T)
<1>1. PICK U : U = {n - x : x \in T}
  OBVIOUS
<1>2. U \subseteq Nat /\ U # {}
  <2>1. \A x \in T : x \in 0 .. n /\ n - x \in U
    BY <1>1
  <2>2. \A u \in U : \E x \in T : u = n - x
    BY <1>1
  <2>3. \A x \in 0 .. n : n - x \in Nat
    OBVIOUS
  <2> QED  BY <2>1, <2>2, <2>3
<1>3. PICK u \in U : \A w \in U : u <= w
  BY <1>2, LeastNatural
<1>4. PICK x \in T : u = n - x
  BY <1>1, <1>3
<1>5. \A y \in T : n - y \in U
  BY <1>1
<1>6. \A y \in T : u <= n - y
  BY <1>3, <1>5
<1>7. \A y \in T : x >= y
  BY <1>4, <1>6
<1>8. Max(T) \in T /\ \A y \in T : Max(T) >= y
  BY <1>7 DEF Max
<1> QED  BY <1>8

LEMMA DaysOfLocations ==
  ASSUME IdsDrawn
  PROVE  \A l \in Drawn : DayOf(l) \in Days /\ l.vehicle \in Vehicles
BY DailyConstants DEF IdsDrawn, Days, DayOf

LEMMA CountsToPackets == IdsDrawn => Cardinality(Drawn) \in Nat
BY FS_CardinalityType DEF IdsDrawn

\* A row counts each packet once at most, so that it counts no more than there are.
LEMMA CountsBounded ==
  ASSUME IdsDrawn, NEW b, NEW c, NEW locs, NEW missed, locs \subseteq Drawn,
         Accounts(b, c, locs, missed), NEW v \in Vehicles, NEW d \in Days
  PROVE  /\ IsFiniteSet(SeenIn(b, v, d))
         /\ Cardinality(SeenIn(b, v, d)) \in 0 .. Cardinality(Packets)
<1>s. PICK S : S = SeenIn(b, v, d)
  OBVIOUS
<1>f. PICK f : f = [x \in S |-> (CHOOSE l \in locs : l.id = x[1]).packet]
  OBVIOUS
<1>1. \A x \in S : \E l \in locs : l.id = x[1] /\ f[x] = l.packet
  BY <1>s, <1>f DEF Accounts, Booked
<1>2. f \in [S -> Packets]
  BY <1>f, <1>1 DEF IdsDrawn
<1>3. ASSUME NEW x \in S, NEW y \in S, f[x] = f[y] PROVE x = y
  <2>1. PICK l \in locs, k \in locs :
          l.id = x[1] /\ f[x] = l.packet /\ k.id = y[1] /\ f[y] = k.packet
    BY <1>1
  <2>2. l = k
    BY <1>3, <2>1 DEF IdsDrawn
  <2> QED  BY <1>s, <2>1, <2>2 DEF Accounts, NoneTwice
<1>4. f \in Injection(S, Packets)
  BY <1>2, <1>3 DEF Injection, IsInjective
<1>5. IsFiniteSet(S) /\ Cardinality(S) <= Cardinality(Packets)
  BY <1>4, FS_Injection, DailyConstants
<1> QED  BY <1>s, <1>5, FS_CardinalityType, DailyConstants

-----------------------------------------------------------------------------
(***************************************************************************)
(* What a run makes of the account.                                        *)
(***************************************************************************)
\* Locations become visible; those up to c too late.
LEMMA AccountsStay ==
  ASSUME NEW b, NEW c, NEW locs, NEW missed, NEW l,
         Accounts(b, c, locs, missed), NEW more, missed \subseteq more,
         l.id <= c => l.id \in more
  PROVE  Accounts(b, c, locs \cup {l}, more)
BY DEF Accounts, Booked, Complete

Part(r, v) == {l \in Window(r) : l.vehicle = v}
Numbered(S, n) == {<<l.id, n>> : l \in S}

\* The rows of the day of the run count the window as well.
Grown(new, b, r) ==
  \A v \in Vehicles, d \in Days :
    SeenIn(new, v, d) =
      IF d = r.date
      THEN SeenIn(b, v, d) \cup Numbered(Part(r, v), Cardinality(SeenIn(b, v, d)))
      ELSE SeenIn(b, v, d)

\* The first stage changes the rows of the day of the run and no other.
LEMMA SeenAfter ==
  ASSUME NEW t, NEW b, NEW r, t.vehicle = b, DOMAIN t = DOMAIN NoTables,
         r.date \in Days, Rowed(b), NEW new, new = VehicleStats(t, r).vehicle
  PROVE  Rowed(new) /\ Grown(new, b, r)
<1>d. PICK date : date = r.date
  OBVIOUS
<1> DEFINE Old(v) == IF b[v][date] = NoRow THEN EmptyDay ELSE b[v][date]
           Row(v, S) ==
             LET ran == Runtime(S, 30, 0)
             IN  [dist |-> Old(v).dist + Distance(S, "meter"),
                  fuel |-> Old(v).fuel + Burnt(S),
                  engine |-> Old(v).engine + ran.engine,
                  driving |-> Old(v).driving + ran.driving,
                  idle |-> Old(v).idle + ran.idle,
                  max |-> Larger(Old(v).max, TopSpeed(S)),
                  seen |-> Old(v).seen \cup {<<l.id, Cardinality(Old(v).seen)>> : l \in S}]
<1>1. \A v \in Vehicles : Old(v).seen = SeenIn(b, v, date)
  BY DEF SeenIn, EmptyDay
<1>2. ASSUME NEW v, NEW S
      PROVE  /\ Row(v, S).seen = Old(v).seen \cup Numbered(S, Cardinality(Old(v).seen))
             /\ Row(v, S) # NoRow
  <2>1. Row(v, S).seen = Old(v).seen \cup Numbered(S, Cardinality(Old(v).seen))
    BY DEF Numbered
  <2>2. "seen" \in DOMAIN Row(v, S) /\ "seen" \notin DOMAIN NoRow
    BY DEF NoRow
  <2> QED  BY <2>1, <2>2
<1>3. new = [v \in Vehicles |->
               IF Part(r, v) = {} THEN b[v]
               ELSE [b[v] EXCEPT ![date] = Row(v, Part(r, v))]]
  BY <1>d DEF VehicleStats, Part, NoTables, Rowed
<1> HIDE DEF Row, Old
<1>4. ASSUME NEW v \in Vehicles
      PROVE  /\ new[v] = [d \in Days |-> new[v][d]]
             /\ \A d \in Days :
                  SeenIn(new, v, d) =
                    IF d = date
                    THEN SeenIn(b, v, d) \cup Numbered(Part(r, v), Cardinality(SeenIn(b, v, d)))
                    ELSE SeenIn(b, v, d)
  <2>p. PICK part : part = Part(r, v)
    OBVIOUS
  <2>1. new[v] = IF part = {} THEN b[v] ELSE [b[v] EXCEPT ![date] = Row(v, part)]
    BY <1>3, <2>p
  <2>2. CASE part = {}
    <3>1. Numbered(part, Cardinality(SeenIn(b, v, date))) = {}
      BY <2>2 DEF Numbered
    <3>2. new[v] = b[v]
      BY <2>1, <2>2
    <3> QED  BY <2>p, <3>1, <3>2 DEF SeenIn, Rowed
  <2>3. CASE part # {}
    <3>1. /\ new[v] = [d \in Days |-> new[v][d]]
          /\ \A d \in Days : new[v][d] = IF d = date THEN Row(v, part) ELSE b[v][d]
      BY <1>d, <2>1, <2>3 DEF Rowed
    <3>2. SeenIn(new, v, date) =
            SeenIn(b, v, date) \cup Numbered(part, Cardinality(SeenIn(b, v, date)))
      BY <1>d, <1>1, <1>2, <3>1 DEF SeenIn
    <3>3. \A d \in Days : d # date => SeenIn(new, v, d) = SeenIn(b, v, d)
      BY <3>1 DEF SeenIn
    <3> QED  BY <2>p, <3>1, <3>2, <3>3
  <2> QED  BY <2>2, <2>3
<1>5. new = [v \in Vehicles |-> new[v]]
  BY <1>3
<1> QED  BY <1>d, <1>4, <1>5 DEF Rowed, Grown

LEMMA VehiclesAccounted ==
  ASSUME IdsDrawn, cursor \in Nat, NEW b, Accounts(b, cursor, locations, late),
         NEW t, t.vehicle = b, DOMAIN t = DOMAIN NoTables,
         NEW r, r.date \in Days, r.start = cursor + 1, r.end \in Nat, cursor < r.end
  PROVE  Accounts(VehicleStats(t, r).vehicle, r.end, locations, late)
<1>b. PICK new : new = VehicleStats(t, r).vehicle
  OBVIOUS
<1>1. Rowed(b) /\ Booked(b, cursor, locations) /\ NoneTwice(b)
      /\ Complete(b, cursor, locations, late)
  BY DEF Accounts
<1>2. Rowed(new) /\ Grown(new, b, r)
  BY <1>b, <1>1, SeenAfter
<1>3. \A v \in Vehicles, d \in Days : Cardinality(SeenIn(b, v, d)) \in 0 .. Cardinality(Packets)
  BY CountsBounded DEF Drawn
<1>4. \A v \in Vehicles : \A l \in Part(r, v) :
        l \in locations /\ l.vehicle = v /\ l.id \in Nat /\ cursor < l.id /\ l.id <= r.end
  BY CountsToPackets DEF Part, Window, IdsDrawn, Drawn
\* What is counted was counted before the run, or is in its window.
<1>5. ASSUME NEW v \in Vehicles, NEW d \in Days, NEW x \in SeenIn(new, v, d)
      PROVE  \/ x \in SeenIn(b, v, d)
             \/ /\ d = r.date
                /\ \E l \in Part(r, v) : x = <<l.id, Cardinality(SeenIn(b, v, d))>>
  <2>1. SeenIn(new, v, d) =
          IF d = r.date
          THEN SeenIn(b, v, d) \cup Numbered(Part(r, v), Cardinality(SeenIn(b, v, d)))
          ELSE SeenIn(b, v, d)
    BY <1>2 DEF Grown
  <2> QED  BY <2>1 DEF Numbered
<1>6. ASSUME NEW v \in Vehicles, NEW d \in Days, NEW x \in SeenIn(b, v, d)
      PROVE  /\ x \in SeenIn(new, v, d)
             /\ x = <<x[1], x[2]>> /\ x[2] \in 0 .. Cardinality(Packets)
             /\ \E l \in locations : l.id = x[1] /\ l.id \in Nat /\ l.id <= cursor
  <2>1. x \in SeenIn(new, v, d)
    BY <1>2 DEF Grown
  <2>2. /\ x = <<x[1], x[2]>> /\ x[2] \in 0 .. Cardinality(Packets)
        /\ x[1] <= cursor /\ \E l \in locations : l.id = x[1]
    BY <1>1 DEF Booked
  <2>3. \A l \in locations : l.id \in Nat
    BY CountsToPackets DEF IdsDrawn, Drawn
  <2> QED  BY <2>1, <2>2, <2>3
<1>7. ASSUME NEW v \in Vehicles, NEW d \in Days, NEW x \in SeenIn(new, v, d)
      PROVE  /\ x = <<x[1], x[2]>> /\ x[2] \in 0 .. Cardinality(Packets)
             /\ x[1] <= r.end /\ \E l \in locations : l.id = x[1]
  <2>1. CASE x \in SeenIn(b, v, d)
    BY <1>6, <2>1
  <2>2. CASE \E l \in Part(r, v) : x = <<l.id, Cardinality(SeenIn(b, v, d))>>
    BY <1>3, <1>4, <2>2
  <2> QED  BY <1>5, <2>1, <2>2
<1>8. ASSUME NEW v \in Vehicles, NEW w \in Vehicles, NEW d \in Days, NEW e \in Days,
             NEW x \in SeenIn(new, v, d), NEW y \in SeenIn(new, w, e), x[1] = y[1]
      PROVE  v = w /\ d = e /\ x = y
  <2>1. CASE x \in SeenIn(b, v, d) /\ y \in SeenIn(b, w, e)
    BY <1>1, <1>8, <2>1 DEF NoneTwice
  <2>2. CASE x \in SeenIn(b, v, d) /\ \E l \in Part(r, w) : y[1] = l.id
    <3>1. PICK l \in Part(r, w) : y[1] = l.id
      BY <2>2
    <3>2. l.id \in Nat /\ cursor < l.id
      BY <1>4, <3>1
    <3>3. x[1] \in Nat /\ x[1] <= cursor
      BY <1>6, <2>2
    <3> QED  BY <1>8, <3>1, <3>2, <3>3
  <2>3. CASE y \in SeenIn(b, w, e) /\ \E l \in Part(r, v) : x[1] = l.id
    <3>1. PICK l \in Part(r, v) : x[1] = l.id
      BY <2>3
    <3>2. l.id \in Nat /\ cursor < l.id
      BY <1>4, <3>1
    <3>3. y[1] \in Nat /\ y[1] <= cursor
      BY <1>6, <2>3
    <3> QED  BY <1>8, <3>1, <3>2, <3>3
  <2>4. CASE /\ d = r.date /\ \E l \in Part(r, v) : x = <<l.id, Cardinality(SeenIn(b, v, d))>>
             /\ e = r.date /\ \E l \in Part(r, w) : y = <<l.id, Cardinality(SeenIn(b, w, e))>>
    <3>1. PICK l \in Part(r, v) : x = <<l.id, Cardinality(SeenIn(b, v, d))>>
      BY <2>4
    <3>2. PICK k \in Part(r, w) : y = <<k.id, Cardinality(SeenIn(b, w, e))>>
      BY <2>4
    <3>3. l = k
      BY <1>4, <1>8, <3>1, <3>2 DEF IdsDrawn, Drawn
    <3>4. v = w
      BY <1>4, <3>3
    <3> QED  BY <2>4, <3>1, <3>2, <3>3, <3>4
  <2> QED  BY <1>5, <2>1, <2>2, <2>3, <2>4
<1>9. ASSUME NEW l \in locations, l.id <= r.end, l.id \notin late
      PROVE  CountedIn(new, l.id)
  <2>1. l \in Drawn
    BY DEF Drawn
  <2>2. l.id \in Nat /\ l.vehicle \in Vehicles
    BY <2>1, CountsToPackets, DaysOfLocations DEF IdsDrawn
  <2>3. CASE l.id <= cursor
    <3>1. CountedIn(b, l.id)
      BY <1>1, <1>9, <2>3 DEF Complete
    <3> QED  BY <1>6, <3>1 DEF CountedIn
  <2>4. CASE cursor < l.id
    <3>1. l \in Part(r, l.vehicle)
      BY <1>9, <2>2, <2>4 DEF Part, Window
    <3>2. <<l.id, Cardinality(SeenIn(b, l.vehicle, r.date))>> \in SeenIn(new, l.vehicle, r.date)
      BY <1>2, <2>2, <3>1 DEF Numbered, Grown
    <3> QED  BY <2>2, <3>2 DEF CountedIn
  <2> QED  BY <2>2, <2>3, <2>4
<1>10. Booked(new, r.end, locations)
  BY <1>7 DEF Booked
<1>11. NoneTwice(new)
  BY <1>8 DEF NoneTwice
<1>12. Complete(new, r.end, locations, late)
  BY <1>9 DEF Complete
<1> QED  BY <1>b, <1>2, <1>10, <1>11, <1>12 DEF Accounts

-----------------------------------------------------------------------------
(***************************************************************************)
(* The steps of telemetry jobs.                                            *)
(***************************************************************************)
LEMMA InitCounts == DailyInit => DailyIInv
<1> SUFFICES ASSUME DailyInit PROVE DailyIInv
  OBVIOUS
<1>1. IdsDrawn /\ cursor \in Nat /\ run = NoRun
  BY FS_EmptySet DEF DailyInit, IdsDrawn, Drawn
<1>2. DOMAIN tables = DOMAIN NoTables
  BY DEF DailyInit
<1>b. PICK b : b = tables.vehicle
  OBVIOUS
<1>3. b = [v \in Vehicles |-> [d \in Days |-> NoRow]]
  BY <1>b DEF DailyInit, NoTables
<1>4. \A v \in Vehicles, d \in Days : SeenIn(b, v, d) = {}
  BY <1>3 DEF SeenIn
<1>5. Rowed(b)
  BY <1>3 DEF Rowed
<1>6. Booked(b, cursor, locations) /\ NoneTwice(b)
  BY <1>4 DEF Booked, NoneTwice
<1>7. Complete(b, cursor, locations, late)
  BY DEF DailyInit, Complete
<1> QED  BY <1>b, <1>1, <1>2, <1>5, <1>6, <1>7 DEF DailyIInv, Accounts

LEMMA FlushCounts ==
  ASSUME DailyIInv, NEW p \in Packets, Flush(p)
  PROVE  DailyIInv'
<1>1. PICK l : /\ pending' = pending \cup {l}
               /\ l.id = NextId /\ l.packet = p /\ l.vehicle = p.vehicle /\ l.time = p.time
  <2> DEFINE new == [id |-> NextId, packet |-> p, vehicle |-> p.vehicle, time |-> p.time,
                     pos |-> p.pos, speed |-> p.speed, ign |-> p.ign, fuel |-> p.fuel,
                     odo |-> p.odo, meter |-> None, rpm |-> p.rpm, engine |-> p.engine,
                     driving |-> p.driving, idle |-> p.idle, alerts |-> p.alerts,
                     flags |-> p.flags]
  <2>1. pending' = pending \cup {new}
    BY DEF Flush
  <2>2. new.id = NextId /\ new.packet = p /\ new.vehicle = p.vehicle /\ new.time = p.time
    OBVIOUS
  <2> QED  BY <2>1, <2>2
<1>2. /\ UNCHANGED <<locations, cursor, tables, run, late>>
      /\ \A k \in Drawn : k.packet # p
  BY DEF Flush, Drawn
<1>n. PICK n : n = Cardinality(Drawn)
  OBVIOUS
<1>3. IdsDrawn /\ n \in Nat /\ l.id = n + 1 /\ IsFiniteSet(Drawn)
  <2>1. IdsDrawn /\ n \in Nat
    BY <1>n, CountsToPackets DEF DailyIInv
  <2>2. NextId = 1 + n
    BY <1>n DEF NextId, Drawn
  <2>3. l.id = 1 + n
    BY <1>1, <2>2
  <2> QED  BY <2>1, <2>3 DEF IdsDrawn
<1>4. Drawn' = Drawn \cup {l}
  BY <1>1, <1>2 DEF Drawn
<1>5. \A k \in Drawn : k.id \in 1 .. n /\ k.id # l.id /\ k # l
  BY <1>n, <1>3 DEF IdsDrawn
<1>6. IsFiniteSet(Drawn') /\ Cardinality(Drawn') = n + 1
  BY <1>n, <1>3, <1>4, <1>5, FS_AddElement
<1>7. IdsDrawn'
  <2>1. (pending \cap locations = {})'
    BY <1>1, <1>2, <1>3, <1>5 DEF IdsDrawn, Drawn
  <2>2. \A k \in Drawn' : /\ k.id \in 1 .. n + 1 /\ k.packet \in Packets
                          /\ k.vehicle = k.packet.vehicle /\ k.time = k.packet.time
    BY <1>1, <1>3, <1>4, <1>5 DEF IdsDrawn
  <2>3. \A k, m \in Drawn' : k.id = m.id \/ k.packet = m.packet => k = m
    BY <1>1, <1>2, <1>3, <1>4, <1>5 DEF IdsDrawn
  <2> QED  BY <1>6, <2>1, <2>2, <2>3 DEF IdsDrawn
<1> QED  BY <1>2, <1>7 DEF DailyIInv, RunOK

LEMMA StoreCounts ==
  ASSUME DailyIInv, NEW l \in pending, Store(l)
  PROVE  DailyIInv'
<1>1. /\ UNCHANGED <<cursor, tables, run>> /\ locations' = locations \cup {l}
      /\ pending' = pending \ {l}
      /\ late' = IF l.id <= cursor \/ (run.on /\ l.id <= run.end)
                 THEN late \cup {l.id} ELSE late
  BY DEF Store
<1>2. IdsDrawn'
  <2>1. Drawn' = Drawn
    BY <1>1 DEF Drawn
  <2>2. (pending \cap locations = {})'
    BY <1>1 DEF DailyIInv, IdsDrawn
  <2> QED  BY <2>1, <2>2 DEF DailyIInv, IdsDrawn
<1>m. PICK more : more = late'
  OBVIOUS
<1>3. late \subseteq more /\ (l.id <= cursor => l.id \in more)
  BY <1>1, <1>m
<1>4. Accounts(tables.vehicle, cursor, locations \cup {l}, more)
  BY <1>3, AccountsStay DEF DailyIInv
<1>5. ASSUME RunOK PROVE RunOK'
  <2>1. run.on = TRUE
    BY <1>5 DEF RunOK
  <2>2. l.id <= run.end => l.id \in more
    BY <1>1, <1>m, <2>1
  <2>3. Accounts(run.draft.vehicle, run.end, locations, late)
           => Accounts(run.draft.vehicle, run.end, locations \cup {l}, more)
    BY <1>3, <2>2, AccountsStay
  <2> QED  BY <1>1, <1>5, <1>m, <2>3 DEF RunOK
<1> QED  BY <1>1, <1>2, <1>4, <1>5, <1>m DEF DailyIInv

-----------------------------------------------------------------------------
(***************************************************************************)
(* The steps of a run.                                                     *)
(***************************************************************************)
LEMMA BeginCounts ==
  ASSUME DailyIInv, Begin
  PROVE  DailyIInv'
<1>n. PICK n : n = Cardinality(Drawn)
  OBVIOUS
<1>0. n \in Nat /\ IdsDrawn /\ \A l \in locations : l.id \in 1 .. n
  BY <1>n, CountsToPackets DEF DailyIInv, IdsDrawn, Drawn
<1>new. PICK new : new = {l \in locations : l.id > cursor}
  OBVIOUS
<1>first. PICK first : first = CHOOSE l \in new : \A k \in new : l.id <= k.id
  OBVIOUS
<1>same. PICK same : same = {l.id : l \in {k \in new : DayOf(k) = DayOf(first)}}
  OBVIOUS
<1>1. /\ new # {}
      /\ run' = [on |-> TRUE, date |-> DayOf(first), start |-> cursor + 1,
                 end |-> Max(same), todo |-> DOMAIN Stage, draft |-> tables]
      /\ UNCHANGED <<pending, locations, cursor, tables, late>>
  BY <1>new, <1>first, <1>same DEF Begin
<1>2. first \in new
  <2>i. PICK ids : ids = {l.id : l \in new}
    OBVIOUS
  <2>1. ids \subseteq Nat /\ ids # {}
    <3>1. \A l \in new : l.id \in Nat /\ l.id \in ids
      BY <1>0, <1>new, <2>i
    <3>2. \A x \in ids : \E l \in new : x = l.id
      BY <2>i
    <3> QED  BY <1>1, <3>1, <3>2
  <2>2. PICK least \in ids : \A x \in ids : least <= x
    BY <2>1, LeastNatural
  <2>3. \E l \in new : \A k \in new : l.id <= k.id
    BY <2>2, <2>i
  <2> QED  BY <1>first, <2>3
<1>3. DayOf(first) \in Days
  BY <1>0, <1>2, <1>new, DaysOfLocations DEF Drawn
<1>4. same # {} /\ same \subseteq 0 .. n /\ \A x \in same : x \in Nat /\ cursor < x
  BY <1>0, <1>2, <1>new, <1>same DEF DailyIInv
<1>e. PICK e : e = Max(same)
  OBVIOUS
<1>5. e \in Nat /\ cursor < e
  BY <1>0, <1>4, <1>e, GreatestNatural
<1>6. "vehicle" \in DOMAIN Stage
  BY DEF Stage
<1>7. RunOK'
  BY <1>1, <1>3, <1>5, <1>6, <1>e DEF RunOK, DailyIInv
<1> QED  BY <1>1, <1>7 DEF DailyIInv, IdsDrawn, Drawn

\* The other processors leave the rows of the vehicles alone.
LEMMA OtherTables ==
  ASSUME NEW t, NEW r, NEW now, DOMAIN t = DOMAIN NoTables,
         NEW u \in {DriverStats(t, r), Maintenance(t, r), FleetStats(t, r), FleetOperations(t, now)}
  PROVE  u.vehicle = t.vehicle /\ DOMAIN u = DOMAIN NoTables
<1>1. "vehicle" \in DOMAIN t
  BY DEF NoTables
<1>2. /\ DriverStats(t, r).vehicle = t.vehicle
      /\ DOMAIN DriverStats(t, r) = DOMAIN t
  BY <1>1 DEF DriverStats
<1>3. /\ Maintenance(t, r).vehicle = t.vehicle
      /\ DOMAIN Maintenance(t, r) = DOMAIN t
  BY <1>1 DEF Maintenance
<1>4. /\ FleetStats(t, r).vehicle = t.vehicle
      /\ DOMAIN FleetStats(t, r) = DOMAIN t
  BY <1>1 DEF FleetStats
<1>5. /\ FleetOperations(t, now).vehicle = t.vehicle
      /\ DOMAIN FleetOperations(t, now) = DOMAIN t
  BY <1>1 DEF FleetOperations
<1> QED  BY <1>2, <1>3, <1>4, <1>5

LEMMA ProcessCounts ==
  ASSUME DailyIInv, NEW p \in DOMAIN Stage, Process(p)
  PROVE  DailyIInv'
<1>1. run.on /\ p \in run.todo /\ UNCHANGED <<pending, locations, cursor, tables, late>>
  BY DEF Process, Due
<1>2. RunOK /\ IdsDrawn /\ cursor \in Nat /\ Accounts(tables.vehicle, cursor, locations, late)
  BY <1>1 DEF DailyIInv, NoRun
<1>t. PICK t : t = run.draft
  OBVIOUS
<1>3. DOMAIN t = DOMAIN NoTables
  BY <1>2, <1>t DEF RunOK
<1>4. PICK u : /\ run' = [run EXCEPT !.todo = @ \ {p}, !.draft = u]
               /\ \/ p = "vehicle" /\ u = VehicleStats(t, run)
                  \/ /\ p # "vehicle"
                     /\ \E now \in {0} \cup Clock :
                          u \in {DriverStats(t, run), Maintenance(t, run), FleetStats(t, run),
                                 FleetOperations(t, now)}
  <2>1. PICK u \in CASE p = "vehicle"     -> {VehicleStats(run.draft, run)}
                     [] p = "driver"      -> {DriverStats(run.draft, run)}
                     [] p = "maintenance" -> {Maintenance(run.draft, run)}
                     [] p = "fleet"       -> {FleetStats(run.draft, run)}
                     [] OTHER -> {FleetOperations(run.draft, now) : now \in Clock} :
          run' = [run EXCEPT !.todo = @ \ {p}, !.draft = u]
    BY DEF Process
  <2>2. \/ p = "vehicle" /\ u = VehicleStats(t, run)
        \/ p = "driver" /\ u = DriverStats(t, run)
        \/ p = "maintenance" /\ u = Maintenance(t, run)
        \/ p = "fleet" /\ u = FleetStats(t, run)
        \/ p # "vehicle" /\ \E now \in Clock : u = FleetOperations(t, now)
    BY <1>t, <2>1
  <2> QED  BY <2>1, <2>2
<1>5. /\ run.date \in Days /\ run.start = cursor + 1 /\ run.end \in Nat /\ cursor < run.end
      /\ run' \in [on : {TRUE}, date : Days, start : {cursor + 1}, end : Nat,
                   todo : SUBSET DOMAIN Stage, draft : {u}]
      /\ run'.end = run.end /\ run'.todo = run.todo \ {p} /\ run'.draft = u
  BY <1>2, <1>4 DEF RunOK
<1>6. CASE p = "vehicle"
  <2>1. u = VehicleStats(t, run) /\ t.vehicle = tables.vehicle
    BY <1>1, <1>2, <1>4, <1>6, <1>t DEF RunOK
  <2>2. Accounts(u.vehicle, run.end, locations, late)
    BY <1>2, <1>3, <1>5, <2>1, VehiclesAccounted
  <2>3. DOMAIN u = DOMAIN NoTables
    BY <1>3, <2>1 DEF VehicleStats
  <2>4. RunOK'
    BY <1>1, <1>5, <1>6, <2>2, <2>3 DEF RunOK
  <2> QED  BY <1>1, <2>4 DEF DailyIInv, IdsDrawn, Drawn
<1>7. CASE p # "vehicle"
  <2>1. u.vehicle = t.vehicle /\ DOMAIN u = DOMAIN NoTables
    BY <1>3, <1>4, <1>7, OtherTables
  <2>2. RunOK'
    BY <1>1, <1>2, <1>5, <1>7, <1>t, <2>1 DEF RunOK
  <2> QED  BY <1>1, <2>2 DEF DailyIInv, IdsDrawn, Drawn
<1> QED  BY <1>6, <1>7

LEMMA EndCounts ==
  ASSUME DailyIInv, CommitRun \/ RollBack
  PROVE  DailyIInv'
<1>1. run.on /\ UNCHANGED <<pending, locations, late>> /\ run' = NoRun
  BY DEF CommitRun, RollBack
<1>2. RunOK
  BY <1>1 DEF DailyIInv, NoRun
<1>3. IdsDrawn'
  BY <1>1 DEF DailyIInv, IdsDrawn, Drawn
<1>4. CASE CommitRun
  <2>1. tables' = run.draft /\ cursor' = run.end /\ "vehicle" \notin run.todo
    BY <1>4 DEF CommitRun
  <2>2. /\ run.end \in Nat /\ DOMAIN run.draft = DOMAIN NoTables
        /\ Accounts(run.draft.vehicle, run.end, locations, late)
    BY <1>2, <2>1 DEF RunOK
  <2> QED  BY <1>1, <1>3, <2>1, <2>2 DEF DailyIInv
<1>5. CASE RollBack
  BY <1>1, <1>3, <1>5 DEF DailyIInv, RollBack
<1> QED  BY <1>4, <1>5

(***************************************************************************)
(* The inductive invariant of the pipeline: between runs the summaries are *)
(* the account of the locations up to the checkpoint, and during a run     *)
(* those of its draft, once the first stage is done, up to its end.        *)
(***************************************************************************)
THEOREM DailyInvariant == DailySpec => []DailyIInv
<1>1. DailyIInv /\ [DailyNext]_dailyVars => DailyIInv'
  <2> SUFFICES ASSUME DailyIInv, [DailyNext]_dailyVars PROVE DailyIInv'
    OBVIOUS
  <2>1. CASE \E p \in Packets : Flush(p)
    BY <2>1, FlushCounts
  <2>2. CASE \E l \in pending : Store(l)
    BY <2>2, StoreCounts
  <2>3. CASE Begin
    BY <2>3, BeginCounts
  <2>4. CASE CommitRun \/ RollBack
    BY <2>4, EndCounts
  <2>5. CASE \E p \in DOMAIN Stage : Process(p)
    BY <2>5, ProcessCounts
  <2>6. CASE UNCHANGED dailyVars
    BY <2>6 DEF dailyVars, DailyIInv, IdsDrawn, Drawn, RunOK
  <2> QED  BY <2>1, <2>2, <2>3, <2>4, <2>5, <2>6 DEF DailyNext
<1> QED  BY InitCounts, <1>1, PTL DEF DailySpec

(***************************************************************************)
(* However runs fail and whatever is stored meanwhile, a location up to    *)
(* the checkpoint is counted by one row, once, and one after it by none.   *)
(***************************************************************************)
THEOREM LocationsAreCountedOnce == DailySpec => []CountedOnce
<1>1. ASSUME DailyIInv PROVE CountedOnce
  <2>b. PICK b : b = tables.vehicle
    OBVIOUS
  <2>1. /\ Booked(b, cursor, locations) /\ NoneTwice(b)
        /\ Complete(b, cursor, locations, late)
        /\ IdsDrawn /\ cursor \in Nat
    BY <1>1, <2>b DEF DailyIInv, Accounts
  <2> DEFINE Places(id) ==
               {s \in Vehicles \X Days \X (0 .. Cardinality(Packets)) :
                  b[s[1]][s[2]] # NoRow /\ <<id, s[3]>> \in b[s[1]][s[2]].seen}
  <2>2. \A id : TimesCounted(id) = Cardinality(Places(id))
    BY <2>b DEF TimesCounted
  <2>3. ASSUME NEW id, NEW s \in Places(id)
        PROVE  /\ s[1] \in Vehicles /\ s[2] \in Days /\ s = <<s[1], s[2], s[3]>>
               /\ <<id, s[3]>> \in SeenIn(b, s[1], s[2])
    BY DEF SeenIn
  <2>4. ASSUME NEW id, NEW s \in Places(id), NEW u \in Places(id) PROVE s = u
    <3>1. <<id, s[3]>> \in SeenIn(b, s[1], s[2]) /\ <<id, u[3]>> \in SeenIn(b, u[1], u[2])
      BY <2>3
    <3>2. s[1] = u[1] /\ s[2] = u[2] /\ <<id, s[3]>> = <<id, u[3]>>
      BY <2>1, <2>3, <3>1 DEF NoneTwice
    <3> QED  BY <2>3, <3>2
  <2>5. ASSUME NEW id, CountedIn(b, id) PROVE Places(id) # {}
    <3>1. PICK v \in Vehicles, d \in Days : \E x \in SeenIn(b, v, d) : x[1] = id
      BY <2>5 DEF CountedIn
    <3>2. PICK x \in SeenIn(b, v, d) : x[1] = id
      BY <3>1
    <3>3. x = <<id, x[2]>> /\ x[2] \in 0 .. Cardinality(Packets)
      BY <2>1, <3>2 DEF Booked
    <3>4. <<v, d, x[2]>> \in Places(id)
      BY <3>2, <3>3 DEF SeenIn
    <3> QED  BY <3>4
  <2>6. ASSUME NEW id, NEW s \in Places(id)
        PROVE  id <= cursor /\ \E l \in locations : l.id = id
    <3>1. <<id, s[3]>>[1] = id
      OBVIOUS
    <3> QED  BY <2>1, <2>3, <3>1 DEF Booked
  <2> HIDE DEF Places
  <2>7. \A id : Cardinality(Places(id)) = IF Places(id) = {} THEN 0 ELSE 1
    <3> SUFFICES ASSUME NEW id
                 PROVE  Cardinality(Places(id)) = IF Places(id) = {} THEN 0 ELSE 1
      OBVIOUS
    <3>1. CASE Places(id) = {}
      BY <3>1, FS_EmptySet
    <3>2. CASE Places(id) # {}
      <4>1. PICK s \in Places(id) : TRUE
        BY <3>2
      <4>2. Places(id) = {s}
        BY <2>4, <4>1
      <4> QED  BY <3>2, <4>2, FS_Singleton
    <3> QED  BY <3>1, <3>2
  <2>8. ASSUME NEW l \in locations
        PROVE  TimesCounted(l.id) \in
                 IF l.id > cursor THEN {0} ELSE IF l.id \in late THEN {0, 1} ELSE {1}
    <3>1. l.id \in Nat
      BY <2>1, CountsToPackets DEF IdsDrawn, Drawn
    <3>2. l.id > cursor => Places(l.id) = {}
      BY <2>1, <2>6, <3>1
    <3>3. l.id <= cursor /\ l.id \notin late => Places(l.id) # {}
      BY <2>1, <2>5 DEF Complete
    <3>4. TimesCounted(l.id) = IF Places(l.id) = {} THEN 0 ELSE 1
      BY <2>2, <2>7
    <3> QED  BY <2>1, <3>1, <3>2, <3>3, <3>4
  <2>9. ASSUME NEW l \in pending PROVE TimesCounted(l.id) = 0
    <3>1. Places(l.id) = {}
      <4>1. \A k \in locations : k.id # l.id
        BY <2>1 DEF IdsDrawn, Drawn
      <4> QED  BY <2>6, <4>1
    <3> QED  BY <2>2, <2>7, <3>1
  <2> QED  BY <2>8, <2>9 DEF CountedOnce
<1> QED  BY <1>1, DailyInvariant, PTL
-----------------------------------------------------------------------------
(***************************************************************************)
(* What dispatchers are told of rests on the order of the stages: the view *)
(* of the fleet is made after the maintenance rows of the day.             *)
(***************************************************************************)
Serviced(m, v) == {d \in Days : m[v][d] # NoRow}

\* The thresholds of the reports.  (The provers write a number out in full.)
ServiceSoon(row) == row.remaining < 1000000
InPoorHealth(health) == health < 7000

ToldOf(m, ops, v) ==
  LET last == m[v][Max(Serviced(m, v))]
  IN  /\ Serviced(m, v) # {}
      /\ InPoorHealth(last.overall) => InPoorHealth(ops[v].health)
      /\ ServiceSoon(last) => ops[v].flags # {}

Told(t) == t.ops # NoRow => \A v \in Vehicles : ToldOf(t.maintenance, t.ops, v)

RowsOfDays(t) ==
  /\ {"maintenance", "ops"} \subseteq DOMAIN t
  /\ Rowed(t.maintenance)

ToldIInv ==
  /\ RowsOfDays(tables) /\ Told(tables)
  /\ run # NoRun =>
       /\ run \in [on : {TRUE}, date : Days, start : {run.start}, end : {run.end},
                   todo : SUBSET DOMAIN Stage, draft : {run.draft}]
       /\ RowsOfDays(run.draft)
       /\ "maintenance" \in run.todo => "operations" \in run.todo
       /\ "maintenance" \notin run.todo =>
            \A v \in Vehicles : run.draft.maintenance[v][run.date] # NoRow
       /\ "operations" \notin run.todo => Told(run.draft)

LEMMA ToldInit == DailyInit => ToldIInv
<1> SUFFICES ASSUME DailyInit PROVE ToldIInv
  OBVIOUS
<1>1. RowsOfDays(tables)
  BY DEF DailyInit, NoTables, RowsOfDays, Rowed
<1>2. Told(tables) /\ run = NoRun
  BY DEF DailyInit, NoTables, Told
<1> QED  BY <1>1, <1>2 DEF ToldIInv

\* The rows of the last stage say what the maintenance rows say.
LEMMA OperationsTell ==
  ASSUME NEW t, RowsOfDays(t), NEW date \in Days,
         \A v \in Vehicles : t.maintenance[v][date] # NoRow,
         NEW now, NEW u, u = FleetOperations(t, now)
  PROVE  RowsOfDays(u) /\ u.maintenance = t.maintenance /\ Told(u)
<1>o. PICK ops : ops = [v \in Vehicles |-> Operations(t, v, now)]
  OBVIOUS
<1>l. PICK live : live = LiveFigures(ops, now)
  OBVIOUS
<1>w. PICK w : w = [t EXCEPT !.ops = ops]
  OBVIOUS
<1>u. u = [w EXCEPT !.live = live]
  BY <1>o, <1>l, <1>w, Zenon DEF FleetOperations
<1>1. /\ RowsOfDays(u) /\ u.maintenance = t.maintenance
      /\ u.ops = [v \in Vehicles |-> Operations(t, v, now)]
  BY <1>o, <1>w, <1>u DEF RowsOfDays
<1>2. ASSUME NEW v \in Vehicles PROVE ToldOf(u.maintenance, u.ops, v)
  <2>r. PICK rows : rows = {d \in Days : t.maintenance[v][d] # NoRow}
    OBVIOUS
  <2>1. date \in rows /\ rows # {}
    BY <2>r
  <2>2. Operations(t, v, now).health = t.maintenance[v][Max(rows)].overall
    BY <2>r, <2>1, SMTT(30) DEF Operations
  <2>3. ServiceSoon(t.maintenance[v][Max(rows)])
          => "maintenance due" \in Operations(t, v, now).flags
    BY <2>r, <2>1, SMTT(30) DEF Operations, ServiceSoon
  <2>4. u.ops[v] = Operations(t, v, now) /\ u.maintenance = t.maintenance
    BY <1>1
  <2>5. Serviced(u.maintenance, v) = rows
    BY <2>r, <2>4 DEF Serviced
  <2> QED  BY <2>1, <2>2, <2>3, <2>4, <2>5 DEF ToldOf
<1> QED  BY <1>1, <1>2 DEF Told

LEMMA MaintenanceRows ==
  ASSUME NEW t, RowsOfDays(t), NEW r, r.date \in Days, NEW u, u = Maintenance(t, r)
  PROVE  RowsOfDays(u) /\ \A v \in Vehicles : u.maintenance[v][r.date] # NoRow
<1>1. ASSUME NEW v, NEW d PROVE MaintenanceDay(t, v, d) # NoRow
  <2>1. "days" \in DOMAIN MaintenanceDay(t, v, d)
    BY DEF MaintenanceDay
  <2>2. "days" \notin DOMAIN NoRow
    BY DEF NoRow
  <2> QED  BY <2>1, <2>2
<1>2. u.maintenance =
        [v \in Vehicles |-> [t.maintenance[v] EXCEPT ![r.date] = MaintenanceDay(t, v, r.date)]]
  BY DEF Maintenance, RowsOfDays
<1>3. \A v \in Vehicles : t.maintenance[v] = [d \in Days |-> t.maintenance[v][d]]
  BY DEF RowsOfDays, Rowed
<1>4. ASSUME NEW v \in Vehicles
      PROVE  /\ u.maintenance[v] = [d \in Days |-> u.maintenance[v][d]]
             /\ u.maintenance[v][r.date] = MaintenanceDay(t, v, r.date)
  <2>r. PICK row : row = MaintenanceDay(t, v, r.date)
    OBVIOUS
  <2>o. PICK old : old = t.maintenance[v]
    OBVIOUS
  <2>1. u.maintenance[v] = [old EXCEPT ![r.date] = row]
    BY <1>2, <2>r, <2>o
  <2>2. old = [d \in Days |-> old[d]]
    BY <1>3, <2>o
  <2> QED  BY <2>1, <2>2, <2>r
<1>5. u.maintenance = [v \in Vehicles |-> u.maintenance[v]]
  BY <1>2
<1>6. {"maintenance", "ops"} \subseteq DOMAIN u
  BY DEF Maintenance, RowsOfDays
<1>7. Rowed(u.maintenance)
  BY <1>4, <1>5 DEF Rowed
<1>8. ASSUME NEW v \in Vehicles PROVE u.maintenance[v][r.date] # NoRow
  <2>1. u.maintenance[v][r.date] = MaintenanceDay(t, v, r.date)
    BY <1>4
  <2>2. MaintenanceDay(t, v, r.date) # NoRow
    BY <1>1
  <2> QED  BY ONLY <2>1, <2>2
<1> QED  BY <1>6, <1>7, <1>8 DEF RowsOfDays

LEMMA OthersTellNothing ==
  ASSUME NEW t, RowsOfDays(t), NEW r,
         NEW u \in {VehicleStats(t, r), DriverStats(t, r), FleetStats(t, r)}
  PROVE  RowsOfDays(u) /\ u.maintenance = t.maintenance /\ u.ops = t.ops
<1>1. LET w == VehicleStats(t, r)
      IN  w.maintenance = t.maintenance /\ w.ops = t.ops /\ DOMAIN w = DOMAIN t
  BY DEF VehicleStats, RowsOfDays
<1>2. LET w == DriverStats(t, r)
      IN  w.maintenance = t.maintenance /\ w.ops = t.ops /\ DOMAIN w = DOMAIN t
  BY DEF DriverStats, RowsOfDays
<1>3. LET w == FleetStats(t, r)
      IN  w.maintenance = t.maintenance /\ w.ops = t.ops /\ DOMAIN w = DOMAIN t
  BY DEF FleetStats, RowsOfDays
<1> QED  BY <1>1, <1>2, <1>3 DEF RowsOfDays

LEMMA ProcessTells ==
  ASSUME ToldIInv, NEW p \in DOMAIN Stage, Process(p)
  PROVE  ToldIInv'
<1>1. run.on /\ p \in run.todo /\ UNCHANGED tables
  BY DEF Process, Due
<1>t. PICK t : t = run.draft
  OBVIOUS
<1>d. PICK date : date = run.date
  OBVIOUS
<1>2. /\ run \in [on : {TRUE}, date : Days, start : {run.start}, end : {run.end},
                  todo : SUBSET DOMAIN Stage, draft : {run.draft}]
      /\ RowsOfDays(t) /\ date \in Days
      /\ "maintenance" \in run.todo => "operations" \in run.todo
      /\ "maintenance" \notin run.todo => \A v \in Vehicles : t.maintenance[v][date] # NoRow
      /\ "operations" \notin run.todo => Told(t)
  <2>1. run # NoRun
    BY <1>1 DEF NoRun
  <2>2. run \in [on : {TRUE}, date : Days, start : {run.start}, end : {run.end},
                 todo : SUBSET DOMAIN Stage, draft : {run.draft}]
    BY <2>1 DEF ToldIInv
  <2>3. run.date \in Days
    BY <2>2
  <2> QED  BY <1>t, <1>d, <2>1, <2>2, <2>3 DEF ToldIInv
<1>3. PICK u : /\ run' = [run EXCEPT !.todo = @ \ {p}, !.draft = u]
               /\ \/ p \in {"vehicle", "driver", "fleet"}
                     /\ u \in {VehicleStats(t, run), DriverStats(t, run), FleetStats(t, run)}
                  \/ p = "maintenance" /\ u = Maintenance(t, run)
                  \/ p = "operations" /\ \E now \in Clock : u = FleetOperations(t, now)
  <2>1. PICK u \in CASE p = "vehicle"     -> {VehicleStats(run.draft, run)}
                     [] p = "driver"      -> {DriverStats(run.draft, run)}
                     [] p = "maintenance" -> {Maintenance(run.draft, run)}
                     [] p = "fleet"       -> {FleetStats(run.draft, run)}
                     [] OTHER -> {FleetOperations(run.draft, now) : now \in Clock} :
          run' = [run EXCEPT !.todo = @ \ {p}, !.draft = u]
    BY DEF Process
  <2>2. p \in {"vehicle", "driver", "maintenance", "fleet", "operations"}
    BY DEF Stage
  <2>3. \/ p = "vehicle" /\ u = VehicleStats(t, run)
        \/ p = "driver" /\ u = DriverStats(t, run)
        \/ p = "maintenance" /\ u = Maintenance(t, run)
        \/ p = "fleet" /\ u = FleetStats(t, run)
        \/ p = "operations" /\ \E now \in Clock : u = FleetOperations(t, now)
    BY <1>t, <2>1, <2>2
  <2> QED  BY <2>1, <2>3
<1>4. /\ run'.todo = run.todo \ {p} /\ run'.draft = u /\ run'.date = date
      /\ run' \in [on : {TRUE}, date : Days, start : {run.start}, end : {run.end},
                   todo : SUBSET DOMAIN Stage, draft : {u}]
      /\ run'.start = run.start /\ run'.end = run.end
  BY <1>2, <1>3, <1>d
<1>5. /\ RowsOfDays(u)
      /\ "maintenance" \in run.todo \ {p} => "operations" \in run.todo \ {p}
      /\ "maintenance" \notin run.todo \ {p} => \A v \in Vehicles : u.maintenance[v][date] # NoRow
      /\ "operations" \notin run.todo \ {p} => Told(u)
  <2>1. CASE p \in {"vehicle", "driver", "fleet"}
    <3>1. RowsOfDays(u) /\ u.maintenance = t.maintenance /\ u.ops = t.ops
      BY <1>2, <1>3, <2>1, OthersTellNothing
    <3>2. Told(t) => Told(u)
      BY <3>1 DEF Told
    <3> QED  BY <1>2, <2>1, <3>1, <3>2
  <2>2. CASE p = "maintenance"
    <3>1. RowsOfDays(u) /\ \A v \in Vehicles : u.maintenance[v][date] # NoRow
      BY <1>2, <1>3, <1>d, <2>2, MaintenanceRows
    <3> QED  BY <1>1, <1>2, <2>2, <3>1
  <2>3. CASE p = "operations"
    <3>1. "maintenance" \notin run.todo
      BY <2>3 DEF Process, Due, Stage
    <3>2. RowsOfDays(u) /\ u.maintenance = t.maintenance /\ Told(u)
      BY <1>2, <1>3, <2>3, <3>1, OperationsTell
    <3> QED  BY <1>2, <2>3, <3>1, <3>2
  <2> QED  BY <1>3, <2>1, <2>2, <2>3
<1> QED  BY <1>1, <1>4, <1>5 DEF ToldIInv

LEMMA BeginTells ==
  ASSUME DailyIInv, ToldIInv, Begin
  PROVE  ToldIInv'
<1>1. DailyIInv'
  BY BeginCounts
<1>2. /\ run'.todo = DOMAIN Stage /\ run'.draft = tables /\ UNCHANGED tables
      /\ run'.on
  BY DEF Begin
<1>3. RunOK'
  BY <1>1, <1>2 DEF DailyIInv, NoRun
<1>4. run' \in [on : {TRUE}, date : Days, start : {run'.start}, end : {run'.end},
                todo : SUBSET DOMAIN Stage, draft : {run'.draft}]
  BY <1>3 DEF RunOK
<1>5. {"maintenance", "operations"} \subseteq DOMAIN Stage
  BY DEF Stage
<1> QED  BY <1>2, <1>4, <1>5 DEF ToldIInv

LEMMA EndTells ==
  ASSUME ToldIInv, CommitRun \/ RollBack
  PROVE  ToldIInv'
<1>1. CASE CommitRun
  <2>1. run # NoRun /\ run.todo = {} /\ tables' = run.draft /\ run' = NoRun
    BY <1>1 DEF CommitRun, NoRun
  <2>2. RowsOfDays(run.draft) /\ Told(run.draft)
    BY <2>1 DEF ToldIInv
  <2> QED  BY <2>1, <2>2 DEF ToldIInv
<1>2. CASE RollBack
  BY <1>2 DEF RollBack, ToldIInv
<1> QED  BY <1>1, <1>2

\* A finite set of naturals that is not empty has a greatest element.
LEMMA GreatestOfFinite ==
  ASSUME NEW T, T \subseteq Nat, IsFiniteSet(T), T # {}
  PROVE  Max(T) \in T /\ \A y \in T : y <= Max(T)
<1> DEFINE Above(x) == {y \in T : y > x}
<1>1. \A x \in T : IsFiniteSet(Above(x)) /\ Cardinality(Above(x)) \in Nat
  <2> SUFFICES ASSUME NEW x \in T
               PROVE  IsFiniteSet(Above(x)) /\ Cardinality(Above(x)) \in Nat
    OBVIOUS
  <2>1. Above(x) \in SUBSET T
    OBVIOUS
  <2> QED  BY <2>1, FS_Subset, FS_CardinalityType
<1>s. PICK sizes : sizes = {Cardinality(Above(x)) : x \in T}
  OBVIOUS
<1>2. sizes \subseteq Nat /\ sizes # {}
  BY <1>1, <1>s
<1>3. PICK least \in sizes : \A k \in sizes : least <= k
  BY <1>2, LeastNatural
<1>4. PICK x \in T : least = Cardinality(Above(x))
  BY <1>3, <1>s
<1>5. \A y \in T : y <= x
  <2> SUFFICES ASSUME NEW y \in T, ~(y <= x) PROVE FALSE
    OBVIOUS
  <2>0. x \in Nat /\ y \in Nat /\ y > x
    OBVIOUS
  <2>1. y \in Above(x) /\ y \notin Above(y) /\ Above(y) \in SUBSET Above(x)
    <3>1. \A z \in T : z \in Nat /\ (z > y => z > x)
      BY <2>0
    <3>2. y \in Above(x)
      BY <2>0
    <3>3. y \notin Above(y)
      BY <2>0
    <3>4. Above(y) \in SUBSET Above(x)
      BY <3>1
    <3> QED  BY <3>2, <3>3, <3>4
  <2>2. Cardinality(Above(y)) <= Cardinality(Above(x)) /\ Above(x) # Above(y)
    BY <1>1, <2>1, FS_Subset
  <2>3. Cardinality(Above(y)) # Cardinality(Above(x))
    BY <1>1, <2>1, <2>2, FS_Subset
  <2>4. Cardinality(Above(x)) <= Cardinality(Above(y))
    BY <1>3, <1>4, <1>s
  <2> QED  BY <1>1, <2>2, <2>3, <2>4
<1>6. \A y \in T : x >= y
  BY <1>5
<1>7. Max(T) \in T /\ \A y \in T : Max(T) >= y
  BY <1>6 DEF Max
<1> QED  BY <1>7

LEMMA DaysAreFinite == Days \subseteq Nat /\ IsFiniteSet(Days)
<1>f. PICK f : f = [p \in Packets |-> DayOf(p)]
  OBVIOUS
<1>1. \A p \in Packets : DayOf(p) \in Nat
  BY DailyConstants DEF DayOf, Day
<1>2. f \in Surjection(Packets, Days)
  BY <1>f DEF Days, Surjection
<1> QED  BY <1>1, <1>2, FS_Surjection, DailyConstants DEF Days

(***************************************************************************)
(* Dispatchers are told of each vehicle that the health report of its last *)
(* day calls critical, and of each one that is due for service, whatever   *)
(* the order in which the processors were registered.                      *)
(***************************************************************************)
THEOREM DispatchersKnow == DailySpec => []DispatchersAreTold
<1>1. DailyIInv /\ ToldIInv /\ [DailyNext]_dailyVars => ToldIInv'
  <2> SUFFICES ASSUME DailyIInv, ToldIInv, [DailyNext]_dailyVars PROVE ToldIInv'
    OBVIOUS
  <2>1. CASE (\E p \in Packets : Flush(p)) \/ (\E l \in pending : Store(l)) \/ UNCHANGED dailyVars
    <3>1. UNCHANGED <<tables, run>>
      BY <2>1 DEF Flush, Store, dailyVars
    <3> QED  BY <3>1 DEF ToldIInv
  <2>2. CASE Begin
    BY <2>2, BeginTells
  <2>3. CASE CommitRun \/ RollBack
    BY <2>3, EndTells
  <2>4. CASE \E p \in DOMAIN Stage : Process(p)
    BY <2>4, ProcessTells
  <2> QED  BY <2>1, <2>2, <2>3, <2>4 DEF DailyNext
<1>2. ToldIInv => DispatchersAreTold
  <2> SUFFICES ASSUME ToldIInv, tables.ops # NoRow, NEW v \in Vehicles,
                      NEW days, days = {d \in Days : tables.maintenance[v][d] # NoRow},
                      \/ v \in FleetHealth(Max(days)).critical
                      \/ MaintenanceReport({v}, Max(days), Max(days)).due > 0
               PROVE  tables.ops[v].flags # {} \/ tables.ops[v].health < 7000
    BY DEF DispatchersAreTold
  <2>m. PICK m : m = tables.maintenance
    OBVIOUS
  <2>1. ToldOf(m, tables.ops, v) /\ days = Serviced(m, v)
    BY <2>m DEF ToldIInv, Told, Serviced
  <2>2. CASE v \in FleetHealth(Max(days)).critical
    <3>1. InPoorHealth(m[v][Max(days)].overall)
      BY <2>2, <2>m, SMTT(30) DEF FleetHealth, InPoorHealth
    <3>2. InPoorHealth(tables.ops[v].health)
      BY <2>1, <3>1 DEF ToldOf
    <3> QED  BY <3>2 DEF InPoorHealth
  <2>3. CASE MaintenanceReport({v}, Max(days), Max(days)).due > 0
    <3> DEFINE Reported == {x \in {v} \X Days : x[2] \in Between(m[x[1]], Max(days), Max(days))}
               Dues == {x \in Reported : ServiceSoon(m[x[1]][x[2]])}
    <3>1. MaintenanceReport({v}, Max(days), Max(days)).due = Cardinality(Dues)
      BY <2>m, SMTT(30) DEF MaintenanceReport, ServiceSoon
    <3>d. PICK dues : dues = Dues
      OBVIOUS
    <3>2. dues # {}
      BY ONLY <2>3, <3>1, <3>d, FS_EmptySet, SMTT(60)
    <3>3. PICK x \in Dues : TRUE
      BY <3>2, <3>d
    <3>4. /\ x[1] = v /\ x[2] \in Days /\ Max(days) <= x[2] /\ x[2] <= Max(days)
          /\ ServiceSoon(m[v][x[2]])
      BY <3>3 DEF Between
    <3>5. Max(days) \in Nat
      <4>1. days \subseteq Days /\ days # {}
        BY <2>1 DEF ToldOf
      <4>2. IsFiniteSet(days) /\ days \subseteq Nat
        BY <4>1, DaysAreFinite, FS_Subset
      <4> QED  BY <4>1, <4>2, GreatestOfFinite
    <3>6. x[2] = Max(days)
      <4>1. x[2] \in Nat
        BY <3>4, DaysAreFinite
      <4> QED  BY ONLY <3>4, <3>5, <4>1
    <3> QED  BY <2>1, <3>4, <3>6 DEF ToldOf
  <2> QED  BY <2>2, <2>3
<1> QED  BY ToldInit, DailyInvariant, <1>1, <1>2, PTL DEF DailySpec

-----------------------------------------------------------------------------
(***************************************************************************)
(* The figures of a vehicle over a set of its locations.                   *)
(***************************************************************************)
LocationOK(l) ==
  /\ l.id \in Nat /\ l.time \in Nat /\ l.pos \in Int /\ l.speed \in Nat /\ l.rpm \in Nat
  /\ l.vehicle \in Vehicles /\ DayOf(l) \in Days
  /\ l.fuel \in Nat \cup {None} /\ l.odo \in Nat \cup {None} /\ l.meter = None
  /\ l.engine \in Nat \cup {None} /\ l.driving \in Nat \cup {None}
  /\ l.idle \in Nat \cup {None}
  /\ IsFiniteSet(l.alerts)

\* A finite set of locations with ids of their own.
Located(S) ==
  /\ IsFiniteSet(S)
  /\ \A l \in S : LocationOK(l)
  /\ \A l, k \in S : l.id = k.id => l = k

LEMMA SubsetLocated == ASSUME NEW S, Located(S), NEW T \in SUBSET S PROVE Located(T)
BY FS_Subset DEF Located

LEMMA EarlierOrders ==
  ASSUME NEW S, Located(S)
  PROVE  /\ \A a, b \in S : a = b \/ Earlier(a, b) \/ Earlier(b, a)
         /\ \A a, b, c \in S : Earlier(a, b) /\ Earlier(b, c) => Earlier(a, c)
         /\ \A a, b \in S : ~(Earlier(a, b) /\ Earlier(b, a))
         /\ \A a, b \in S : Earlier(a, b) => a.time <= b.time
<1>1. \A a \in S : a.time \in Nat /\ a.id \in Nat
  BY DEF Located, LocationOK
<1>2. ASSUME NEW a \in S, NEW b \in S PROVE a = b \/ Earlier(a, b) \/ Earlier(b, a)
  <2>1. a.id = b.id => a = b
    BY DEF Located
  <2> QED  BY <1>1, <2>1 DEF Earlier
<1>3. \A a, b, c \in S : Earlier(a, b) /\ Earlier(b, c) => Earlier(a, c)
  BY <1>1 DEF Earlier
<1>4. \A a, b \in S : ~(Earlier(a, b) /\ Earlier(b, a)) /\ (Earlier(a, b) => a.time <= b.time)
  BY <1>1 DEF Earlier
<1> QED  BY <1>2, <1>3, <1>4

\* There is a first location, and a last one.
LEMMA FirstAndLast ==
  ASSUME NEW S, Located(S), S # {}
  PROVE  /\ First(S) \in S /\ \A b \in S \ {First(S)} : Earlier(First(S), b)
         /\ Last(S) \in S /\ \A b \in S \ {Last(S)} : Earlier(b, Last(S))
<1> DEFINE LeastOf(T, a) == a \in T /\ \A b \in T \ {a} : Earlier(a, b)
           MostOf(T, a) == a \in T /\ \A b \in T \ {a} : Earlier(b, a)
<1>b. PICK Bad : Bad = {T \in SUBSET S : T # {} /\ ~((\E a : LeastOf(T, a)) /\ (\E a : MostOf(T, a)))}
  OBVIOUS
<1>o. /\ \A a, b \in S : a = b \/ Earlier(a, b) \/ Earlier(b, a)
      /\ \A a, b, c \in S : Earlier(a, b) /\ Earlier(b, c) => Earlier(a, c)
  BY EarlierOrders
<1>1. ASSUME Bad # {} PROVE FALSE
  <2>1. PICK T \in Bad : \A x \in T : T \ {x} \notin Bad
    <3>1. IsFiniteSet(S) /\ Bad \subseteq SUBSET S
      BY <1>b DEF Located
    <3> HIDE <1>b
    <3> QED  BY ONLY <1>1, <3>1, NoLeastCounterexample
  <2>2. T \in SUBSET S /\ T # {} /\ ~((\E a : LeastOf(T, a)) /\ (\E a : MostOf(T, a)))
    BY <1>b, <2>1
  <2>3. PICK x \in T : TRUE
    BY <2>2
  <2>u. PICK U : U = T \ {x}
    OBVIOUS
  <2>4. CASE U = {}
    <3>1. LeastOf(T, x) /\ MostOf(T, x)
      BY <2>u, <2>4
    <3> QED  BY <2>2, <3>1
  <2>5. CASE U # {}
    <3>1. (\E a : LeastOf(U, a)) /\ (\E a : MostOf(U, a))
      BY <1>b, <2>1, <2>2, <2>3, <2>5, <2>u
    <3>2. PICK a : LeastOf(U, a)
      BY <3>1
    <3>3. PICK c : MostOf(U, c)
      BY <3>1
    <3>4. a \in S /\ x \in S /\ c \in S /\ a # x /\ c # x /\ U \subseteq S /\ T = U \cup {x}
      BY <2>2, <2>3, <2>u, <3>2, <3>3
    <3>5. \E e : LeastOf(T, e)
      <4>1. CASE Earlier(a, x)
        <5>1. LeastOf(T, a)
          BY <3>2, <3>4, <4>1
        <5> QED  BY <5>1
      <4>2. CASE Earlier(x, a)
        <5>1. \A b \in T \ {x} : Earlier(x, b)
          BY <1>o, <3>2, <3>4, <4>2
        <5>2. LeastOf(T, x)
          BY <2>3, <5>1
        <5> QED  BY <5>2
      <4> QED  BY <1>o, <3>4, <4>1, <4>2
    <3>6. \E e : MostOf(T, e)
      <4>1. CASE Earlier(x, c)
        <5>1. MostOf(T, c)
          BY <3>3, <3>4, <4>1
        <5> QED  BY <5>1
      <4>2. CASE Earlier(c, x)
        <5>1. \A b \in T \ {x} : Earlier(b, x)
          BY <1>o, <3>3, <3>4, <4>2
        <5>2. MostOf(T, x)
          BY <2>3, <5>1
        <5> QED  BY <5>2
      <4> QED  BY <1>o, <3>4, <4>1, <4>2
    <3> QED  BY <2>2, <3>5, <3>6
  <2> QED  BY <2>4, <2>5
<1>2. (\E a : LeastOf(S, a)) /\ (\E a : MostOf(S, a))
  <2>1. S \notin Bad
    BY <1>1
  <2> QED  BY <1>b, <2>1
<1>3. LeastOf(S, First(S))
  BY <1>2 DEF First
<1>4. MostOf(S, Last(S))
  BY <1>2 DEF Last
<1> QED  BY <1>3, <1>4

LEMMA StepsFollow ==
  ASSUME NEW S, Located(S)
  PROVE  /\ IsFiniteSet(Steps(S))
         /\ \A s \in Steps(S) : s[1] \in S /\ s[2] \in S /\ s[1].time <= s[2].time
<1>1. IsFiniteSet(S \X S)
  BY FS_Product DEF Located
<1>2. Steps(S) \subseteq S \X S
  BY DEF Steps
<1>3. \A s \in Steps(S) : s[1] \in S /\ s[2] \in S /\ Earlier(s[1], s[2])
  BY DEF Steps
<1>4. \A a, b \in S : Earlier(a, b) => a.time <= b.time
  BY EarlierOrders
<1> QED  BY <1>1, <1>2, <1>3, <1>4, FS_Subset

LEMMA PathIsNat == ASSUME NEW S, Located(S) PROVE Path(S) \in Nat
<1>g. PICK g : g = [s \in Steps(S) |-> Larger(s[1].pos - s[2].pos, s[2].pos - s[1].pos)]
  OBVIOUS
<1>1. ASSUME NEW s \in Steps(S) PROVE g[s] \in Nat
  <2>1. s[1].pos \in Int /\ s[2].pos \in Int
    BY StepsFollow DEF Located, LocationOK
  <2> QED  BY <1>g, <2>1 DEF Larger
<1>2. SumFunctionOnSet(g, Steps(S)) \in Nat
  BY <1>1, StepsFollow, SumType
<1>3. Path(S) = SumFunctionOnSet(g, Steps(S))
  BY <1>g DEF Path, Total, SumFunction
<1> QED  BY <1>2, <1>3

LEMMA MinutesAreNat ==
  ASSUME NEW S, Located(S), NEW T \in SUBSET Steps(S) PROVE Minutes(T) \in Nat
<1>g. PICK g : g = [s \in T |-> s[2].time - s[1].time]
  OBVIOUS
<1>1. ASSUME NEW s \in T PROVE g[s] \in Nat
  <2>1. s[1].time \in Nat /\ s[2].time \in Nat /\ s[1].time <= s[2].time
    BY StepsFollow DEF Located, LocationOK
  <2> QED  BY <1>g, <2>1
<1>2. IsFiniteSet(T)
  BY StepsFollow, FS_Subset
<1>3. SumFunctionOnSet(g, T) \in Nat
  BY <1>1, <1>2, SumType
<1>4. Minutes(T) = SumFunctionOnSet(g, T)
  BY <1>g DEF Minutes, Total, SumFunction
<1> QED  BY <1>3, <1>4

LEMMA DistanceIsNat ==
  ASSUME NEW S, Located(S), S # {}, NEW odo \in {"odo", "meter"}
  PROVE  Distance(S, odo) \in Nat
<1>a. PICK a : a = First(S)
  OBVIOUS
<1>b. PICK b : b = Last(S)
  OBVIOUS
<1>1. LocationOK(a) /\ LocationOK(b)
  BY <1>a, <1>b, FirstAndLast DEF Located
<1>2. CASE Counted(S, odo)
  <2>1. a[odo] # None /\ b[odo] # None /\ b[odo] >= a[odo]
    BY <1>2, <1>a, <1>b DEF Counted
  <2>2. a[odo] \in Nat /\ b[odo] \in Nat
    BY <1>1, <2>1 DEF LocationOK
  <2>3. Distance(S, odo) = b[odo] - a[odo]
    BY <1>2, <1>a, <1>b, <2>1 DEF Distance, Gained
  <2> QED  BY <2>1, <2>2, <2>3
<1>3. CASE ~Counted(S, odo)
  BY <1>3, PathIsNat DEF Distance
<1> QED  BY <1>2, <1>3

\* With device counters the hours can shrink, when one of them was reset or not
\* sent at first.
LEMMA RuntimeIsInt ==
  ASSUME NEW S, Located(S), S # {}, NEW longest, NEW slow, NEW f \in {"engine", "driving", "idle"}
  PROVE  Runtime(S, longest, slow)[f] \in Int
<1>a. PICK a : a = First(S)
  OBVIOUS
<1>b. PICK b : b = Last(S)
  OBVIOUS
<1>1. LocationOK(a) /\ LocationOK(b)
  BY <1>a, <1>b, FirstAndLast DEF Located
<1>2. CASE Counted(S, "engine")
  <2>2. a[f] \in Int /\ b[f] \in Int
    BY <1>1 DEF LocationOK, None
  <2>3. Runtime(S, longest, slow)[f] = IF b[f] = None THEN 0 ELSE b[f] - a[f]
    BY <1>2, <1>a, <1>b DEF Runtime, Gained
  <2> QED  BY <2>2, <2>3
<1>3. CASE ~Counted(S, "engine")
  <2>r. PICK ran : ran = Ran(S, longest, slow)
    OBVIOUS
  <2>d. PICK drove : drove = {s \in ran : s[2].speed > slow}
    OBVIOUS
  <2>1. ran \in SUBSET Steps(S) /\ drove \in SUBSET Steps(S) /\ ran \ drove \in SUBSET Steps(S)
    BY <2>r, <2>d DEF Ran
  <2>2. Minutes(ran) \in Int /\ Minutes(drove) \in Int /\ Minutes(ran \ drove) \in Int
    BY <2>1, MinutesAreNat
  <2>3. Runtime(S, longest, slow) =
          [engine |-> Minutes(ran), driving |-> Minutes(drove), idle |-> Minutes(ran \ drove)]
    BY <1>3, <2>r, <2>d DEF Runtime
  <2> QED  BY <2>2, <2>3
<1> QED  BY <1>2, <1>3

LEMMA BurntIsInt == ASSUME NEW S, Located(S) PROVE Burnt(S) \in Int
<1>t. PICK T : T = {l \in S : l.fuel # None}
  OBVIOUS
<1>0. Located(T)
  BY <1>t, SubsetLocated
<1>g. PICK g : g = [s \in Steps(T) |-> LET d == s[1].fuel - s[2].fuel
                                        IN  IF d > 0 /\ d < 50 THEN d ELSE 0]
  OBVIOUS
<1>1. ASSUME NEW s \in Steps(T) PROVE g[s] \in Int
  <2>1. s[1].fuel \in Int /\ s[2].fuel \in Int
    BY <1>0, <1>t, StepsFollow DEF Located, LocationOK
  <2> QED  BY <1>g, <2>1
<1>2. SumFunctionOnSet(g, Steps(T)) \in Int
  BY <1>0, <1>1, StepsFollow, SumType
<1>3. Burnt(S) = SumFunctionOnSet(g, Steps(T))
  BY <1>g, <1>t DEF Burnt, Total, SumFunction
<1> QED  BY <1>2, <1>3

LEMMA AlertsAreNat == ASSUME NEW S, Located(S), NEW kinds PROVE Alerts(S, kinds) \in Nat
<1>g. PICK g : g = [l \in S |-> Cardinality(l.alerts \cap kinds)]
  OBVIOUS
<1>1. ASSUME NEW l \in S PROVE g[l] \in Nat
  <2>1. IsFiniteSet(l.alerts)
    BY DEF Located, LocationOK
  <2>2. IsFiniteSet(l.alerts \cap kinds)
    BY <2>1, FS_Subset
  <2> QED  BY <1>g, <2>2, FS_CardinalityType
<1>2. SumFunctionOnSet(g, S) \in Nat
  BY <1>1, SumType DEF Located
<1>3. Alerts(S, kinds) = SumFunctionOnSet(g, S)
  BY <1>g DEF Alerts, Total, SumFunction
<1> QED  BY <1>2, <1>3

-----------------------------------------------------------------------------
(***************************************************************************)
(* The reports agree because a run leaves the row of the fleet behind that *)
(* is the sum of the rows of the vehicles, for every day: the fleet is     *)
(* added up after the vehicles, and no run writes a row of another day.    *)
(***************************************************************************)
Summed == {"dist", "fuel", "engine", "idle"}

\* The rows of a table over days hold whole numbers.
Numeric(rows) ==
  \A d \in Days : rows[d] # NoRow => \A f \in Summed : rows[d][f] \in Int

WithRow(b, d) == {v \in Vehicles : b[v][d] # NoRow}

FleetIsSum(b, fleet, d) ==
  IF fleet[d] = NoRow THEN WithRow(b, d) = {}
  ELSE \A f \in Summed :
         fleet[d][f] = SumFunctionOnSet([v \in WithRow(b, d) |-> b[v][d][f]], WithRow(b, d))

\* The hours of the engine do not shrink: a counter that was reset is not used.
EngineHours(b) ==
  \A v \in Vehicles, d \in Days : b[v][d] # NoRow => b[v][d].engine >= 0

Tabled(t) ==
  /\ {"vehicle", "fleet"} \subseteq DOMAIN t
  /\ Rowed(t.vehicle) /\ t.fleet = [d \in Days |-> t.fleet[d]]
  /\ \A v \in Vehicles : Numeric(t.vehicle[v])
  /\ EngineHours(t.vehicle)

FiguresIInv ==
  /\ \A l \in Drawn : LocationOK(l)
  /\ Tabled(tables)
  /\ \A d \in Days : FleetIsSum(tables.vehicle, tables.fleet, d)
  /\ run # NoRun =>
       /\ Tabled(run.draft)
       /\ \A d \in Days \ {run.date} : FleetIsSum(run.draft.vehicle, run.draft.fleet, d)
       /\ "fleet" \notin run.todo =>
            /\ "vehicle" \notin run.todo
            /\ FleetIsSum(run.draft.vehicle, run.draft.fleet, run.date)

LEMMA FiguresInit == DailyInit => FiguresIInv
<1> SUFFICES ASSUME DailyInit PROVE FiguresIInv
  OBVIOUS
<1>1. Drawn = {} /\ run = NoRun
  BY DEF DailyInit, Drawn
<1>2. /\ tables.vehicle = [v \in Vehicles |-> [d \in Days |-> NoRow]]
      /\ tables.fleet = [d \in Days |-> NoRow]
      /\ {"vehicle", "fleet"} \subseteq DOMAIN tables
  BY DEF DailyInit, NoTables
<1>3. Tabled(tables)
  BY <1>2 DEF Tabled, Rowed, Numeric, EngineHours
<1>4. \A d \in Days : FleetIsSum(tables.vehicle, tables.fleet, d)
  BY <1>2 DEF FleetIsSum, WithRow
<1> QED  BY <1>1, <1>3, <1>4 DEF FiguresIInv

LEMMA FlushFigures ==
  ASSUME FiguresIInv, NEW p \in Packets, Flush(p), NextId \in Nat
  PROVE  FiguresIInv'
<1>l. PICK l : l = [id |-> NextId, packet |-> p, vehicle |-> p.vehicle, time |-> p.time,
                    pos |-> p.pos, speed |-> p.speed, ign |-> p.ign, fuel |-> p.fuel,
                    odo |-> p.odo, meter |-> None, rpm |-> p.rpm, engine |-> p.engine,
                    driving |-> p.driving, idle |-> p.idle, alerts |-> p.alerts,
                    flags |-> p.flags]
  OBVIOUS
<1>1. Drawn' = Drawn \cup {l} /\ UNCHANGED <<tables, run>>
  BY <1>l DEF Flush, Drawn
<1>2. LocationOK(l)
  <2>1. /\ p.vehicle \in Vehicles /\ p.time \in Nat /\ p.pos \in Int
        /\ p.speed \in Nat /\ p.rpm \in Nat
        /\ p.fuel \in Nat \cup {None} /\ p.odo \in Nat \cup {None}
        /\ {p.engine, p.driving, p.idle} \subseteq Nat \cup {None}
        /\ IsFiniteSet(p.alerts)
    BY DailyConstants
  <2>2. DayOf(l) \in Days
    BY <1>l DEF Days, DayOf
  <2> QED  BY <1>l, <2>1, <2>2 DEF LocationOK
<1> QED  BY <1>1, <1>2 DEF FiguresIInv

-----------------------------------------------------------------------------
(***************************************************************************)
(* The processors.                                                         *)
(***************************************************************************)
\* The hours of the engine do not shrink.
LEMMA EngineRuns ==
  ASSUME NEW S, Located(S), S # {}, NEW longest, NEW slow
  PROVE  Runtime(S, longest, slow).engine \in Nat
<1>a. PICK a : a = First(S)
  OBVIOUS
<1>b. PICK b : b = Last(S)
  OBVIOUS
<1>1. CASE Counted(S, "engine")
  <2>1. LocationOK(a) /\ LocationOK(b)
    BY <1>a, <1>b, FirstAndLast DEF Located
  <2>2. a.engine # None /\ b.engine # None /\ b.engine >= a.engine
    BY <1>1, <1>a, <1>b DEF Counted
  <2>3. a.engine \in Nat /\ b.engine \in Nat
    BY <2>1, <2>2 DEF LocationOK
  <2>4. Runtime(S, longest, slow).engine = b.engine - a.engine
    BY <1>1, <1>a, <1>b, <2>2 DEF Runtime, Gained
  <2> QED  BY <2>2, <2>3, <2>4
<1>2. CASE ~Counted(S, "engine")
  <2>1. Runtime(S, longest, slow).engine = Minutes(Ran(S, longest, slow))
    BY <1>2 DEF Runtime
  <2>2. Ran(S, longest, slow) \in SUBSET Steps(S)
    BY DEF Ran
  <2> QED  BY <2>1, <2>2, MinutesAreNat
<1> QED  BY <1>1, <1>2

\* The first stage adds whole numbers to the rows of the day.
LEMMA VehiclesNumeric ==
  ASSUME NEW t, Tabled(t), NEW r, r.date \in Days, Located(Window(r)),
         NEW u, u = VehicleStats(t, r)
  PROVE  /\ Tabled(u) /\ u.fleet = t.fleet
         /\ \A v \in Vehicles, d \in Days : d # r.date => u.vehicle[v][d] = t.vehicle[v][d]
<1>d. PICK date : date = r.date
  OBVIOUS
<1>b. PICK b : b = t.vehicle
  OBVIOUS
<1> DEFINE Old(v) == IF b[v][date] = NoRow THEN EmptyDay ELSE b[v][date]
           Row(v, S) ==
             LET ran == Runtime(S, 30, 0)
             IN  [dist |-> Old(v).dist + Distance(S, "meter"),
                  fuel |-> Old(v).fuel + Burnt(S),
                  engine |-> Old(v).engine + ran.engine,
                  driving |-> Old(v).driving + ran.driving,
                  idle |-> Old(v).idle + ran.idle,
                  max |-> Larger(Old(v).max, TopSpeed(S)),
                  seen |-> Old(v).seen \cup {<<l.id, Cardinality(Old(v).seen)>> : l \in S}]
<1>1. ASSUME NEW v \in Vehicles, NEW S, Located(S), S # {}, NEW f \in Summed
      PROVE  Row(v, S)[f] \in Int /\ Row(v, S).engine >= 0
  <2>1. \A g \in Summed : Old(v)[g] \in Int
    <3>1. CASE b[v][date] = NoRow
      BY <3>1 DEF Summed, EmptyDay
    <3>2. CASE b[v][date] # NoRow
      BY <1>b, <1>d, <3>2 DEF Tabled, Numeric
    <3> QED  BY <3>1, <3>2
  <2>2. /\ Old(v).dist \in Int /\ Old(v).fuel \in Int /\ Old(v).engine \in Int
        /\ Old(v).idle \in Int
    BY <2>1 DEF Summed
  <2>e. Old(v).engine >= 0
    <3>1. CASE b[v][date] = NoRow
      BY <3>1 DEF EmptyDay
    <3>2. CASE b[v][date] # NoRow
      BY <1>b, <1>d, <3>2 DEF Tabled, EngineHours
    <3> QED  BY <3>1, <3>2
  <2> HIDE DEF Old
  <2>3. Distance(S, "meter") \in Int /\ Burnt(S) \in Int
    BY <1>1, DistanceIsNat, BurntIsInt
  <2>r. PICK ran : ran = Runtime(S, 30, 0)
    OBVIOUS
  <2>4. ran.engine \in Nat /\ ran.idle \in Int
    BY <1>1, <2>r, RuntimeIsInt, EngineRuns
  <2>5. /\ Row(v, S).dist = Old(v).dist + Distance(S, "meter")
        /\ Row(v, S).fuel = Old(v).fuel + Burnt(S)
        /\ Row(v, S).engine = Old(v).engine + ran.engine
        /\ Row(v, S).idle = Old(v).idle + ran.idle
    BY <2>r
  <2> HIDE DEF Row
  <2>6. Row(v, S).engine >= 0
    BY <2>2, <2>e, <2>4, <2>5
  <2>7. Row(v, S)[f] \in Int
    BY <2>2, <2>3, <2>4, <2>5 DEF Summed
  <2> QED  BY <2>6, <2>7
<1>2. u = [t EXCEPT !.vehicle =
             [v \in Vehicles |->
               IF Part(r, v) = {} THEN b[v] ELSE [b[v] EXCEPT ![date] = Row(v, Part(r, v))]]]
  BY <1>b, <1>d DEF VehicleStats, Part
<1> HIDE DEF Row, Old
<1>3. /\ u.vehicle = [v \in Vehicles |->
            IF Part(r, v) = {} THEN b[v] ELSE [b[v] EXCEPT ![date] = Row(v, Part(r, v))]]
      /\ u.fleet = t.fleet /\ DOMAIN u = DOMAIN t
  BY <1>2 DEF Tabled
<1>4. ASSUME NEW v \in Vehicles
      PROVE  /\ u.vehicle[v] = [d \in Days |-> u.vehicle[v][d]]
             /\ \A d \in Days : d # date => u.vehicle[v][d] = b[v][d]
             /\ Numeric(u.vehicle[v])
             /\ \A d \in Days : u.vehicle[v][d] # NoRow => u.vehicle[v][d].engine >= 0
  <2>p. PICK part : part = Part(r, v)
    OBVIOUS
  <2>1. u.vehicle[v] = IF part = {} THEN b[v] ELSE [b[v] EXCEPT ![date] = Row(v, part)]
    BY <1>3, <2>p
  <2>2. /\ b[v] = [d \in Days |-> b[v][d]] /\ Numeric(b[v])
        /\ \A d \in Days : b[v][d] # NoRow => b[v][d].engine >= 0
    BY <1>b DEF Tabled, Rowed, EngineHours
  <2>3. CASE part = {}
    BY <2>1, <2>2, <2>3
  <2>4. CASE part # {}
    <3>1. Located(part)
      BY <2>p, SubsetLocated DEF Part
    <3>2. (\A f \in Summed : Row(v, part)[f] \in Int) /\ Row(v, part).engine >= 0
      BY <1>1, <2>4, <3>1 DEF Summed
    <3>3. /\ u.vehicle[v] = [d \in Days |-> u.vehicle[v][d]]
          /\ \A d \in Days : u.vehicle[v][d] = IF d = date THEN Row(v, part) ELSE b[v][d]
      BY <1>d, <2>1, <2>2, <2>4
    <3>4. Numeric(u.vehicle[v])
      BY <2>2, <3>2, <3>3 DEF Numeric
    <3>5. \A d \in Days : u.vehicle[v][d] # NoRow => u.vehicle[v][d].engine >= 0
      BY <2>2, <3>2, <3>3
    <3> QED  BY <3>3, <3>4, <3>5
  <2> QED  BY <2>3, <2>4
<1>5. u.vehicle = [v \in Vehicles |-> u.vehicle[v]]
  BY <1>3
<1>6. Tabled(u)
  BY <1>3, <1>4, <1>5 DEF Tabled, Rowed, EngineHours
<1> QED  BY <1>3, <1>4, <1>6, <1>b, <1>d

\* The last stage writes the sum of the rows of the vehicles.
LEMMA FleetSummed ==
  ASSUME NEW t, Tabled(t), NEW r, r.date \in Days, NEW u, u = FleetStats(t, r)
  PROVE  /\ Tabled(u) /\ u.vehicle = t.vehicle
         /\ \A d \in Days : d # r.date => u.fleet[d] = t.fleet[d]
         /\ FleetIsSum(u.vehicle, u.fleet, r.date)
<1>d. PICK date : date = r.date
  OBVIOUS
<1>b. PICK b : b = t.vehicle
  OBVIOUS
<1>V. PICK V : V = WithRow(b, date)
  OBVIOUS
<1>y. PICK day : day = FleetDay(t, date, V)
  OBVIOUS
<1>1. u = [t EXCEPT !.fleet[date] = day]
  BY <1>d, <1>b, <1>V, <1>y DEF FleetStats, WithRow
<1>2. /\ u.vehicle = b /\ DOMAIN u = DOMAIN t
      /\ u.fleet = [t.fleet EXCEPT ![date] = day]
  BY <1>1, <1>b DEF Tabled
<1>3. /\ u.fleet = [d \in Days |-> u.fleet[d]] /\ u.fleet[date] = day
      /\ \A d \in Days : d # date => u.fleet[d] = t.fleet[d]
  BY <1>2, <1>d DEF Tabled
<1>4. day # NoRow
  <2>1. "dist" \in DOMAIN day /\ "dist" \notin DOMAIN NoRow
    BY <1>y DEF FleetDay, NoRow
  <2> QED  BY <2>1
<1>5. /\ day.dist = SumFunctionOnSet([v \in V |-> b[v][date].dist], V)
      /\ day.fuel = SumFunctionOnSet([v \in V |-> b[v][date].fuel], V)
      /\ day.engine = SumFunctionOnSet([v \in V |-> b[v][date].engine], V)
      /\ day.idle = SumFunctionOnSet([v \in V |-> b[v][date].idle], V)
  BY <1>y, <1>b DEF FleetDay, Total, SumFunction
<1>6. \A f \in Summed : day[f] = SumFunctionOnSet([v \in V |-> b[v][date][f]], V)
  BY <1>5 DEF Summed
<1>7. FleetIsSum(u.vehicle, u.fleet, date)
  BY <1>2, <1>3, <1>4, <1>6, <1>V DEF FleetIsSum
<1>8. Tabled(u)
  BY <1>b, <1>2, <1>3 DEF Tabled
<1> QED  BY <1>b, <1>d, <1>2, <1>3, <1>7, <1>8

LEMMA OtherFigures ==
  ASSUME NEW t, Tabled(t), NEW r, NEW now,
         NEW u \in {DriverStats(t, r), Maintenance(t, r), FleetOperations(t, now)}
  PROVE  Tabled(u) /\ u.vehicle = t.vehicle /\ u.fleet = t.fleet
<1>1. LET w == DriverStats(t, r)
      IN  w.vehicle = t.vehicle /\ w.fleet = t.fleet /\ DOMAIN w = DOMAIN t
  BY DEF DriverStats, Tabled
<1>2. LET w == Maintenance(t, r)
      IN  w.vehicle = t.vehicle /\ w.fleet = t.fleet /\ DOMAIN w = DOMAIN t
  BY DEF Maintenance, Tabled
<1>3. LET w == FleetOperations(t, now)
      IN  w.vehicle = t.vehicle /\ w.fleet = t.fleet /\ DOMAIN w = DOMAIN t
  BY DEF FleetOperations, Tabled
<1> QED  BY <1>1, <1>2, <1>3 DEF Tabled

\* Rows of the day of another date do not matter.
LEMMA SameFleet ==
  ASSUME NEW b, NEW c, NEW fleet, NEW more, NEW d, fleet[d] = more[d],
         \A v \in Vehicles : b[v][d] = c[v][d], FleetIsSum(b, fleet, d)
  PROVE  FleetIsSum(c, more, d)
<1>1. WithRow(c, d) = WithRow(b, d)
  BY DEF WithRow
<1>2. ASSUME NEW f
      PROVE  [v \in WithRow(c, d) |-> c[v][d][f]] = [v \in WithRow(b, d) |-> b[v][d][f]]
  BY <1>1 DEF WithRow
<1> QED  BY <1>1, <1>2 DEF FleetIsSum

LEMMA ProcessFigures ==
  ASSUME FiguresIInv, RunOK, IdsDrawn, NEW p \in DOMAIN Stage, Process(p)
  PROVE  FiguresIInv'
<1>1. run.on /\ p \in run.todo /\ UNCHANGED <<pending, locations, tables>> /\ run # NoRun
  BY DEF Process, Due, NoRun
<1>t. PICK t : t = run.draft
  OBVIOUS
<1>d. PICK date : date = run.date
  OBVIOUS
<1>2. /\ Tabled(t) /\ date \in Days
      /\ \A d \in Days \ {date} : FleetIsSum(t.vehicle, t.fleet, d)
      /\ "fleet" \notin run.todo =>
           "vehicle" \notin run.todo /\ FleetIsSum(t.vehicle, t.fleet, date)
  BY <1>1, <1>t, <1>d DEF FiguresIInv, RunOK
<1>3. PICK u : /\ run' = [run EXCEPT !.todo = @ \ {p}, !.draft = u]
               /\ \/ p = "vehicle" /\ u = VehicleStats(t, run)
                  \/ p = "fleet" /\ u = FleetStats(t, run)
                  \/ /\ p \notin {"vehicle", "fleet"}
                     /\ \E now \in {0} \cup Clock :
                          u \in {DriverStats(t, run), Maintenance(t, run), FleetOperations(t, now)}
  <2>1. PICK u \in CASE p = "vehicle"     -> {VehicleStats(run.draft, run)}
                     [] p = "driver"      -> {DriverStats(run.draft, run)}
                     [] p = "maintenance" -> {Maintenance(run.draft, run)}
                     [] p = "fleet"       -> {FleetStats(run.draft, run)}
                     [] OTHER -> {FleetOperations(run.draft, now) : now \in Clock} :
          run' = [run EXCEPT !.todo = @ \ {p}, !.draft = u]
    BY DEF Process
  <2>2. p \in {"vehicle", "driver", "maintenance", "fleet", "operations"}
    BY DEF Stage
  <2>3. \/ p = "vehicle" /\ u = VehicleStats(t, run)
        \/ p = "driver" /\ u = DriverStats(t, run)
        \/ p = "maintenance" /\ u = Maintenance(t, run)
        \/ p = "fleet" /\ u = FleetStats(t, run)
        \/ p = "operations" /\ \E now \in Clock : u = FleetOperations(t, now)
    BY <1>t, <2>1, <2>2
  <2> QED  BY <2>1, <2>3
<1>4. /\ run'.todo = run.todo \ {p} /\ run'.draft = u /\ run'.date = date
      /\ Drawn' = Drawn
  BY <1>1, <1>3, <1>d DEF RunOK, Drawn
<1>5. /\ Tabled(u)
      /\ \A d \in Days \ {date} : FleetIsSum(u.vehicle, u.fleet, d)
      /\ "fleet" \notin run.todo \ {p} =>
           "vehicle" \notin run.todo \ {p} /\ FleetIsSum(u.vehicle, u.fleet, date)
  <2>1. CASE p = "vehicle"
    <3>1. Located(Window(run))
      <4>1. Window(run) \in SUBSET Drawn
        BY DEF Window, Drawn
      <4>2. Located(Drawn)
        BY DEF FiguresIInv, IdsDrawn, Located
      <4> QED  BY <4>1, <4>2, SubsetLocated
    <3>2. /\ Tabled(u) /\ u.fleet = t.fleet
          /\ \A v \in Vehicles, d \in Days : d # date => u.vehicle[v][d] = t.vehicle[v][d]
      BY <1>2, <1>3, <1>d, <2>1, <3>1, VehiclesNumeric
    <3>3. \A d \in Days \ {date} : FleetIsSum(u.vehicle, u.fleet, d)
      BY <1>2, <3>2, SameFleet
    <3>4. "fleet" \in run.todo \ {p}
      BY <1>1, <1>2, <2>1
    <3> QED  BY <3>2, <3>3, <3>4
  <2>2. CASE p = "fleet"
    <3>1. "vehicle" \notin run.todo
      BY <2>2 DEF Process, Due, Stage
    <3>2. /\ Tabled(u) /\ u.vehicle = t.vehicle
          /\ \A d \in Days : d # date => u.fleet[d] = t.fleet[d]
          /\ FleetIsSum(u.vehicle, u.fleet, date)
      BY <1>2, <1>3, <1>d, <2>2, FleetSummed
    <3>3. \A d \in Days \ {date} : FleetIsSum(u.vehicle, u.fleet, d)
      BY <1>2, <3>2, SameFleet
    <3> QED  BY <3>1, <3>2, <3>3
  <2>3. CASE p \notin {"vehicle", "fleet"}
    <3>1. Tabled(u) /\ u.vehicle = t.vehicle /\ u.fleet = t.fleet
      BY <1>2, <1>3, <2>3, OtherFigures
    <3> QED  BY <1>2, <2>3, <3>1
  <2> QED  BY <2>1, <2>2, <2>3
<1>6. run' # NoRun => /\ Tabled(run'.draft)
                      /\ \A d \in Days \ {run'.date} :
                           FleetIsSum(run'.draft.vehicle, run'.draft.fleet, d)
                      /\ "fleet" \notin run'.todo =>
                           /\ "vehicle" \notin run'.todo
                           /\ FleetIsSum(run'.draft.vehicle, run'.draft.fleet, run'.date)
  BY <1>4, <1>5
<1> QED  BY <1>1, <1>4, <1>6 DEF FiguresIInv

LEMMA RunFigures ==
  ASSUME FiguresIInv, DailyIInv, Begin \/ CommitRun \/ RollBack
  PROVE  FiguresIInv'
<1>1. Drawn' = Drawn
  BY DEF Begin, CommitRun, RollBack, Drawn
<1>2. CASE Begin
  <2>1. /\ UNCHANGED tables /\ run'.draft = tables /\ run'.todo = DOMAIN Stage
    BY <1>2 DEF Begin
  <2>2. "fleet" \in DOMAIN Stage
    BY DEF Stage
  <2> QED  BY <1>1, <2>1, <2>2 DEF FiguresIInv
<1>3. CASE CommitRun
  <2>1. run # NoRun /\ run.todo = {} /\ tables' = run.draft /\ run' = NoRun
    BY <1>3 DEF CommitRun, NoRun
  <2>2. /\ Tabled(run.draft)
        /\ \A d \in Days : FleetIsSum(run.draft.vehicle, run.draft.fleet, d)
    BY <2>1 DEF FiguresIInv
  <2> QED  BY <1>1, <2>1, <2>2 DEF FiguresIInv
<1>4. CASE RollBack
  BY <1>1, <1>4 DEF FiguresIInv, RollBack
<1> QED  BY <1>2, <1>3, <1>4

LEMMA FiguresStep ==
  ASSUME DailyIInv, FiguresIInv, [DailyNext]_dailyVars
  PROVE  FiguresIInv'
<1>1. CASE \E p \in Packets : Flush(p)
  <2>1. Cardinality(Drawn) \in Nat
    BY CountsToPackets DEF DailyIInv
  <2>2. NextId = 1 + Cardinality(Drawn)
    BY DEF NextId, Drawn
  <2> QED  BY <1>1, <2>1, <2>2, FlushFigures
<1>2. CASE (\E l \in pending : Store(l)) \/ UNCHANGED dailyVars
  <2>1. UNCHANGED <<tables, run>> /\ Drawn' = Drawn
    BY <1>2 DEF Store, dailyVars, Drawn
  <2> QED  BY <2>1 DEF FiguresIInv
<1>3. CASE Begin \/ CommitRun \/ RollBack
  BY <1>3, RunFigures
<1>4. CASE \E p \in DOMAIN Stage : Process(p)
  <2>1. RunOK /\ IdsDrawn
    BY <1>4 DEF DailyIInv, Process, NoRun
  <2> QED  BY <1>4, <2>1, ProcessFigures
<1> QED  BY <1>1, <1>2, <1>3, <1>4 DEF DailyNext

-----------------------------------------------------------------------------
(***************************************************************************)
(* The reports.                                                            *)
(***************************************************************************)
LEMMA TotalsAreSums ==
  ASSUME NEW rows, NEW D, NEW f \in Summed
  PROVE  Totals(rows, D)[f] = SumFunctionOnSet([d \in D |-> rows[d][f]], D)
<1>1. /\ Totals(rows, D).dist = SumFunctionOnSet([d \in D |-> rows[d].dist], D)
      /\ Totals(rows, D).fuel = SumFunctionOnSet([d \in D |-> rows[d].fuel], D)
      /\ Totals(rows, D).engine = SumFunctionOnSet([d \in D |-> rows[d].engine], D)
      /\ Totals(rows, D).idle = SumFunctionOnSet([d \in D |-> rows[d].idle], D)
  BY DEF Totals, Total, SumFunction
<1> QED  BY <1>1 DEF Summed

\* The total of a table over a period is that of all its days, with 0 for a day
\* that has no row.
LEMMA TotalOfPeriod ==
  ASSUME NEW rows, Numeric(rows), NEW from, NEW to, NEW f \in Summed,
         NEW P, P = {d \in Days : from <= d /\ d <= to},
         NEW g, \A d \in P : g[d] = IF rows[d] = NoRow THEN 0 ELSE rows[d][f]
  PROVE  Totals(rows, Between(rows, from, to))[f] = SumFunctionOnSet(g, P)
<1>D. PICK D : D = Between(rows, from, to)
  OBVIOUS
<1>1. D \in SUBSET P /\ P \subseteq Days /\ \A d \in P : d \in D <=> rows[d] # NoRow
  BY <1>D DEF Between
<1>2. IsFiniteSet(P) /\ IsFiniteSet(D)
  BY <1>1, DaysAreFinite, FS_Subset
<1>3. (\A d \in P : g[d] \in Int) /\ \A d \in P \ D : g[d] = 0
  BY <1>1 DEF Numeric
<1>4. SumFunctionOnSet(g, P) = SumFunctionOnSet(g, D)
  BY <1>1, <1>2, <1>3, SumZeros
<1>h. PICK h : h = [d \in D |-> rows[d][f]]
  OBVIOUS
<1>5. \A d \in D : h[d] = g[d]
  BY <1>1, <1>h
<1>6. SumFunctionOnSet(h, D) = SumFunctionOnSet(g, D)
  BY <1>2, <1>5, SumSame
<1> QED  BY <1>4, <1>6, <1>h, <1>D, TotalsAreSums

LEMMA FleetIsTotal ==
  ASSUME Tabled(tables), \A d \in Days : FleetIsSum(tables.vehicle, tables.fleet, d),
         NEW from, NEW to, NEW f \in Summed
  PROVE  DailyFleet(from, to)[f]
         = SumFunctionOnSet([v \in Vehicles |-> VehiclePerformance(v, from, to)[f]], Vehicles)
<1>b. PICK b : b = tables.vehicle
  OBVIOUS
<1>P. PICK P : P = {d \in Days : from <= d /\ d <= to}
  OBVIOUS
<1>m. PICK m : m = [v \in Vehicles |->
                      [d \in P |-> IF b[v][d] = NoRow THEN 0 ELSE b[v][d][f]]]
  OBVIOUS
<1>1. IsFiniteSet(P) /\ P \subseteq Days /\ IsFiniteSet(Vehicles)
  BY <1>P, DaysAreFinite, DailyConstants, FS_Subset
<1>2. /\ \A v \in Vehicles, d \in P : m[v][d] = IF b[v][d] = NoRow THEN 0 ELSE b[v][d][f]
      /\ \A v \in Vehicles, d \in P : m[v][d] \in Int
  BY <1>1, <1>b, <1>m DEF Tabled, Numeric
<1>c. PICK col : col = [d \in P |-> SumFunctionOnSet([v \in Vehicles |-> m[v][d]], Vehicles)]
  OBVIOUS
<1>3. ASSUME NEW v \in Vehicles
      PROVE  VehiclePerformance(v, from, to)[f] = SumFunctionOnSet(m[v], P)
  <2>1. Numeric(b[v])
    BY <1>b DEF Tabled
  <2>2. Totals(b[v], Between(b[v], from, to))[f] = SumFunctionOnSet(m[v], P)
    BY <1>2, <1>P, <2>1, TotalOfPeriod
  <2> QED  BY <1>b, <2>2 DEF VehiclePerformance
<1>4. [v \in Vehicles |-> VehiclePerformance(v, from, to)[f]]
      = [v \in Vehicles |-> SumFunctionOnSet(m[v], P)]
  BY <1>3
<1>5. SumFunctionOnSet([v \in Vehicles |-> SumFunctionOnSet(m[v], P)], Vehicles)
      = SumFunctionOnSet(col, P)
  BY <1>1, <1>2, <1>c, SumSwap
<1>6. ASSUME NEW d \in P
      PROVE  col[d] = IF tables.fleet[d] = NoRow THEN 0 ELSE tables.fleet[d][f]
  <2>g. PICK g : g = [v \in Vehicles |-> m[v][d]]
    OBVIOUS
  <2>W. PICK W : W = WithRow(b, d)
    OBVIOUS
  <2>1. W \in SUBSET Vehicles /\ IsFiniteSet(W) /\ \A v \in Vehicles : v \in W <=> b[v][d] # NoRow
    BY <1>1, <2>W, FS_Subset DEF WithRow
  <2>2. (\A v \in Vehicles : g[v] \in Int) /\ \A v \in Vehicles \ W : g[v] = 0
    BY <1>2, <2>g, <2>1
  <2>3. col[d] = SumFunctionOnSet(g, W)
    <3>1. SumFunctionOnSet(g, Vehicles) = SumFunctionOnSet(g, W)
      BY <1>1, <2>1, <2>2, SumZeros
    <3> QED  BY <1>c, <2>g, <3>1
  <2>4. CASE tables.fleet[d] = NoRow
    <3>1. W = {}
      BY <1>1, <1>b, <2>W, <2>4 DEF FleetIsSum
    <3> QED  BY <2>3, <2>4, <3>1, SumEmpty
  <2>5. CASE tables.fleet[d] # NoRow
    <3>h. PICK h : h = [v \in W |-> b[v][d][f]]
      OBVIOUS
    <3>1. tables.fleet[d][f] = SumFunctionOnSet(h, W)
      BY <1>1, <1>b, <2>W, <2>5, <3>h DEF FleetIsSum
    <3>2. \A v \in W : h[v] = g[v]
      BY <1>2, <2>g, <2>1, <3>h
    <3> QED  BY <2>1, <2>3, <2>5, <3>1, <3>2, SumSame
  <2> QED  BY <2>4, <2>5
<1>7. DailyFleet(from, to)[f] = SumFunctionOnSet(col, P)
  <2>1. Numeric(tables.fleet)
    <3>1. ASSUME NEW d \in Days, tables.fleet[d] # NoRow, NEW k \in Summed
          PROVE  tables.fleet[d][k] \in Int
      <4>W. PICK W : W = WithRow(b, d)
        OBVIOUS
      <4>h. PICK h : h = [v \in W |-> b[v][d][k]]
        OBVIOUS
      <4>1. tables.fleet[d][k] = SumFunctionOnSet(h, W)
        BY <3>1, <1>b, <4>W, <4>h DEF FleetIsSum
      <4>2. IsFiniteSet(W) /\ \A v \in W : h[v] \in Int
        BY <1>1, <1>b, <4>W, <4>h, FS_Subset DEF WithRow, Tabled, Numeric
      <4> QED  BY <4>1, <4>2, SumType
    <3> QED  BY <3>1 DEF Numeric
  <2> QED  BY <1>6, <1>P, <2>1, TotalOfPeriod DEF DailyFleet
<1> QED  BY <1>4, <1>5, <1>7

(***************************************************************************)
(* For every period the report on the fleet, the reports on its vehicles   *)
(* and the report on fuel add up to the same distance, fuel, engine hours  *)
(* and idle hours, however locations were spread over runs, and whichever  *)
(* runs failed.                                                            *)
(***************************************************************************)
THEOREM ReportsAddUp == DailySpec => []ReportsAgree
<1>1. ASSUME FiguresIInv PROVE ReportsAgree
  <2>1. ASSUME NEW from \in Days, NEW to \in Days, NEW f \in Summed
        PROVE  LET fuel == FuelConsumption(from, to)
                   fleet == DailyFleet(from, to)
               IN  /\ fleet[f] = Total(LAMBDA v : fuel[v][f], DOMAIN fuel)
                   /\ fleet[f] = Total(LAMBDA v : VehiclePerformance(v, from, to)[f], Vehicles)
    <3>V. PICK V : V = {v \in Vehicles : Between(tables.vehicle[v], from, to) # {}}
      OBVIOUS
    <3>g. PICK g : g = [v \in Vehicles |-> VehiclePerformance(v, from, to)[f]]
      OBVIOUS
    <3>u. PICK fuel : fuel = FuelConsumption(from, to)
      OBVIOUS
    <3>1. DailyFleet(from, to)[f] = SumFunctionOnSet(g, Vehicles)
      BY <1>1, <3>g, FleetIsTotal DEF FiguresIInv
    <3>2. \A v \in Vehicles \ V : g[v] = 0
      <4> SUFFICES ASSUME NEW v \in Vehicles \ V PROVE g[v] = 0
        OBVIOUS
      <4>1. Between(tables.vehicle[v], from, to) = {}
        BY <3>V
      <4>2. VehiclePerformance(v, from, to)[f]
            = SumFunctionOnSet([d \in {} |-> tables.vehicle[v][d][f]], {})
        BY <4>1, TotalsAreSums, ZenonT(30) DEF VehiclePerformance
      <4> QED  BY <3>g, <4>2, SumEmpty
    <3>3. \A v \in Vehicles : g[v] \in Int
      <4> SUFFICES ASSUME NEW v \in Vehicles PROVE g[v] \in Int
        OBVIOUS
      <4>D. PICK D : D = Between(tables.vehicle[v], from, to)
        OBVIOUS
      <4>h. PICK h : h = [d \in D |-> tables.vehicle[v][d][f]]
        OBVIOUS
      <4>1. IsFiniteSet(D) /\ \A d \in D : h[d] \in Int
        <5>1. D \in SUBSET Days
          BY <4>D DEF Between
        <5>2. \A d \in D : h[d] \in Int
          BY <1>1, <4>D, <4>h DEF Between, FiguresIInv, Tabled, Numeric
        <5> QED  BY <5>1, <5>2, DaysAreFinite, FS_Subset
      <4>2. g[v] = SumFunctionOnSet(h, D)
        BY <3>g, <4>D, <4>h, TotalsAreSums DEF VehiclePerformance
      <4> QED  BY <4>1, <4>2, SumType
    <3>4. SumFunctionOnSet(g, Vehicles) = SumFunctionOnSet(g, V)
      BY <3>V, <3>2, <3>3, DailyConstants, SumZeros
    <3>5. DOMAIN fuel = V /\ [v \in V |-> fuel[v][f]] = [v \in V |-> g[v]]
      BY <3>V, <3>g, <3>u DEF FuelConsumption
    <3>6. SumFunctionOnSet([v \in V |-> g[v]], V) = SumFunctionOnSet(g, V)
      <4>1. IsFiniteSet(V)
        BY <3>V, DailyConstants, FS_Subset
      <4> QED  BY <4>1, SumSame
    <3>7. Total(LAMBDA v : fuel[v][f], DOMAIN fuel) = SumFunctionOnSet(g, V)
      BY <3>5, <3>6 DEF Total, SumFunction
    <3>8. Total(LAMBDA v : VehiclePerformance(v, from, to)[f], Vehicles)
          = SumFunctionOnSet(g, Vehicles)
      BY <3>g DEF Total, SumFunction
    <3> QED  BY <3>1, <3>4, <3>7, <3>8, <3>u
  <2> QED  BY <2>1 DEF ReportsAgree, Summed
<1> QED  BY <1>1, FiguresInit, FiguresStep, DailyInvariant, PTL DEF DailySpec

-----------------------------------------------------------------------------
(***************************************************************************)
(* The scores of drivers and the service dates of vehicles.                *)
(***************************************************************************)
BeforeService(n) == n \in Nat /\ 1 <= n /\ n <= 10000000

DriverOK(row) == row.safety \in Scores /\ row.eco \in Nat

ServiceOK(row) ==
  BeforeService(row.remaining) /\ row.days \in 1 .. 365 /\ row.overall \in Scores

ScoresOf(t) ==
  /\ {"driver", "maintenance"} \subseteq DOMAIN t
  /\ Rowed(t.maintenance)
  /\ t.driver = [k \in Drivers |-> t.driver[k]]
  /\ \A k \in Drivers : t.driver[k] = [d \in Days |-> t.driver[k][d]]

Scored(t) ==
  /\ ScoresOf(t)
  /\ \A k \in Drivers, d \in Days : t.driver[k][d] # NoRow => DriverOK(t.driver[k][d])
  /\ \A v \in Vehicles, d \in Days :
       t.maintenance[v][d] # NoRow => ServiceOK(t.maintenance[v][d])

ScoresIInv ==
  /\ failures \in 0 .. MaxFailures
  /\ Scored(tables)
  /\ run # NoRun => Scored(run.draft)

\* The locations of a driver on a day.
LEMMA DutyLocated ==
  ASSUME Located(Drawn), NEW a, NEW d PROVE Located(Duty(a, d))
<1>1. Duty(a, d) \in SUBSET Drawn
  BY DEF Duty, Drawn
<1> QED  BY <1>1, SubsetLocated

LEMMA NatProduct == ASSUME NEW a \in Nat, NEW b \in Nat PROVE a * b \in Nat
OBVIOUS

LEMMA PointsOfSafety ==
  /\ IsFiniteSet(SafetyPoints)
  /\ \A p \in SafetyPoints : p[2] \in Nat
<1>a. PICK a : a = <<{"Overspeed", "Overspeed Alert", "Speed Limit Exceeded"}, 5>>
  OBVIOUS
<1>b. PICK b : b = <<{"Harsh Braking", "Harsh Brake"}, 10>>
  OBVIOUS
<1>c. PICK c : c = <<{"Harsh Acceleration", "Over Acceleration"}, 8>>
  OBVIOUS
<1>d. PICK d : d = <<{"Sharp Turn", "Harsh Turn"}, 5>>
  OBVIOUS
<1>e. PICK e : e = <<{"Engine Over Temperature"}, 15>>
  OBVIOUS
<1>f. PICK f : f = <<{"Power Failure"}, 12>>
  OBVIOUS
<1>1. SafetyPoints = {a, b, c, d, e, f}
  BY <1>a, <1>b, <1>c, <1>d, <1>e, <1>f DEF SafetyPoints
<1>2. a[2] \in Nat /\ b[2] \in Nat /\ c[2] \in Nat /\ d[2] \in Nat /\ e[2] \in Nat /\ f[2] \in Nat
  BY <1>a, <1>b, <1>c, <1>d, <1>e, <1>f
<1>3. IsFiniteSet({a, b, c, d, e, f})
  <2>0. \A S, x : IsFiniteSet(S) => IsFiniteSet(S \cup {x})
    BY FS_AddElement
  <2>p. PICK p : p = {a} \cup {b}
    OBVIOUS
  <2>q. PICK q : q = p \cup {c}
    OBVIOUS
  <2>r. PICK r : r = q \cup {d}
    OBVIOUS
  <2>s. PICK s : s = r \cup {e}
    OBVIOUS
  <2>1. IsFiniteSet(p)
    BY <2>0, <2>p, FS_Singleton
  <2>2. IsFiniteSet(q)
    BY <2>0, <2>1, <2>q
  <2>3. IsFiniteSet(r)
    BY <2>0, <2>2, <2>r
  <2>4. IsFiniteSet(s)
    BY <2>0, <2>3, <2>s
  <2>5. {a, b, c, d, e, f} = s \cup {f}
    BY ONLY <2>p, <2>q, <2>r, <2>s
  <2> QED  BY <2>0, <2>4, <2>5
<1> QED  BY <1>1, <1>2, <1>3

\* Counts of alerts over all that a driver drove.
AlertCount(D, d, kinds) == SumFunctionOnSet([a \in D |-> Alerts(Duty(a, d), kinds)], D)

LEMMA CountsAreNat ==
  ASSUME Located(Drawn), NEW D, IsFiniteSet(D), NEW d, NEW kinds
  PROVE  AlertCount(D, d, kinds) \in Nat
<1>g. PICK g : g = [a \in D |-> Alerts(Duty(a, d), kinds)]
  OBVIOUS
<1>1. \A a \in D : g[a] \in Nat
  BY <1>g, DutyLocated, AlertsAreNat
<1> QED  BY <1>g, <1>1, SumType DEF AlertCount

Points(D, d) ==
  SumFunctionOnSet([p \in SafetyPoints |-> p[2] * AlertCount(D, d, p[1])], SafetyPoints)

LEMMA PointsAreNat ==
  ASSUME Located(Drawn), NEW D, IsFiniteSet(D), NEW d
  PROVE  Points(D, d) \in Nat
<1>g. PICK g : g = [p \in SafetyPoints |-> p[2] * AlertCount(D, d, p[1])]
  OBVIOUS
<1>1. \A p \in SafetyPoints : g[p] \in Nat
  BY <1>g, PointsOfSafety, CountsAreNat, NatProduct
<1> QED  BY <1>g, <1>1, PointsOfSafety, SumType DEF Points

HoursDriven(D, d, f) == SumFunctionOnSet([a \in D |-> Runtime(Duty(a, d), 29, 1)[f]], D)

LEMMA HoursAreInt ==
  ASSUME Located(Drawn), NEW D, IsFiniteSet(D), NEW d, \A a \in D : Duty(a, d) # {},
         NEW f \in {"engine", "driving", "idle"}
  PROVE  HoursDriven(D, d, f) \in Int
<1>g. PICK g : g = [a \in D |-> Runtime(Duty(a, d), 29, 1)[f]]
  OBVIOUS
<1>1. \A a \in D : g[a] \in Int
  BY <1>g, DutyLocated, RuntimeIsInt
<1> QED  BY <1>g, <1>1, SumType DEF HoursDriven

Metres(D, d) == SumFunctionOnSet([a \in D |-> Distance(Duty(a, d), "odo")], D)

LEMMA MetresAreNat ==
  ASSUME Located(Drawn), NEW D, IsFiniteSet(D), NEW d, \A a \in D : Duty(a, d) # {}
  PROVE  Metres(D, d) \in Nat
<1>g. PICK g : g = [a \in D |-> Distance(Duty(a, d), "odo")]
  OBVIOUS
<1>1. \A a \in D : g[a] \in Nat
  BY <1>g, DutyLocated, DistanceIsNat
<1> QED  BY <1>g, <1>1, SumType DEF Metres

HighRevs(D, d) ==
  SumFunctionOnSet([a \in D |-> Cardinality({l \in Duty(a, d) : l.rpm > 3500})], D)

LEMMA RevsAreNat ==
  ASSUME Located(Drawn), NEW D, IsFiniteSet(D), NEW d
  PROVE  HighRevs(D, d) \in Nat
<1>g. PICK g : g = [a \in D |-> Cardinality({l \in Duty(a, d) : l.rpm > 3500})]
  OBVIOUS
<1>1. ASSUME NEW a \in D PROVE g[a] \in Nat
  <2>1. IsFiniteSet(Duty(a, d))
    BY DutyLocated DEF Located
  <2>2. IsFiniteSet({l \in Duty(a, d) : l.rpm > 3500})
    BY <2>1, FS_Subset
  <2> QED  BY <1>g, <2>2, FS_CardinalityType
<1> QED  BY <1>g, <1>1, SumType DEF HighRevs

LEMMA FuelIsInt ==
  ASSUME Located(Drawn), NEW D, D \subseteq Assignments, NEW d, \A a \in D : Duty(a, d) # {}
  PROVE  DriverFuel(D, d) \in Int
<1>0. IsFiniteSet(D)
  BY DailyConstants, FS_Subset
<1>p. PICK past : past = [a \in D |-> {b \in D : b.id <= a.id}]
  OBVIOUS
<1>g. PICK g : g = [a \in D |->
          LET S == Duty(a, d)
          IN  IF First(S).fuel # None /\ Last(S).fuel # None
              THEN Larger(0, First(S).fuel - Last(S).fuel)
              ELSE (HoursDriven(past[a], d, "idle") * 15
                    + HoursDriven(past[a], d, "driving") * 80) \div 60]
  OBVIOUS
<1>1. ASSUME NEW a \in D PROVE g[a] \in Int
  <2>S. PICK S : S = Duty(a, d)
    OBVIOUS
  <2>1. Located(S) /\ S # {}
    BY <2>S, DutyLocated
  <2>f. PICK f : f = First(S)
    OBVIOUS
  <2>l. PICK l : l = Last(S)
    OBVIOUS
  <2>2. LocationOK(f) /\ LocationOK(l)
    BY <2>1, <2>f, <2>l, FirstAndLast DEF Located
  <2>3. past[a] \subseteq D /\ IsFiniteSet(past[a])
    BY <1>0, <1>p, FS_Subset
  <2>i. PICK i : i = HoursDriven(past[a], d, "idle")
    OBVIOUS
  <2>j. PICK j : j = HoursDriven(past[a], d, "driving")
    OBVIOUS
  <2>4. i \in Int /\ j \in Int
    BY <2>3, <2>i, <2>j, HoursAreInt
  <2>5. g[a] = IF f.fuel # None /\ l.fuel # None THEN Larger(0, f.fuel - l.fuel)
               ELSE (i * 15 + j * 80) \div 60
    BY <1>g, <2>S, <2>f, <2>l, <2>i, <2>j
  <2>6. CASE f.fuel # None /\ l.fuel # None
    <3>1. f.fuel \in Int /\ l.fuel \in Int
      BY <2>2, <2>6 DEF LocationOK
    <3> QED  BY <2>5, <2>6, <3>1 DEF Larger
  <2>7. CASE ~(f.fuel # None /\ l.fuel # None)
    BY <2>4, <2>5, <2>7
  <2> QED  BY <2>6, <2>7
<1>2. DriverFuel(D, d) = SumFunctionOnSet(g, D)
  <2>1. DriverFuel(D, d) = SumFunctionOnSet(
          [a \in D |->
             LET S == Duty(a, d)
                 older == {b \in D : b.id <= a.id}
                 hours(f) == SumFunctionOnSet([b \in older |-> Runtime(Duty(b, d), 29, 1)[f]], older)
             IN  IF First(S).fuel # None /\ Last(S).fuel # None
                 THEN Larger(0, First(S).fuel - Last(S).fuel)
                 ELSE (hours("idle") * 15 + hours("driving") * 80) \div 60], D)
    BY DEF DriverFuel, Total, SumFunction
  <2> QED  BY <1>g, <1>p, <2>1 DEF HoursDriven
<1> QED  BY <1>0, <1>1, <1>2, SumType

\* The deductions from the eco score, in hundredths.
Economy(D, d) == IF DriverFuel(D, d) > 0 THEN Metres(D, d) \div DriverFuel(D, d) ELSE 0

Thirst(economy) == IF economy > 0 /\ economy < 1000 THEN (1000 - economy) \div 2 ELSE 0

HarshStarts(D, d) == AlertCount(D, d, {"Harsh Acceleration", "Over Acceleration"})

Deducted(D, d) ==
  (HoursDriven(D, d, "idle") * 20) \div 3 + 500 * HarshStarts(D, d) + 250 * HighRevs(D, d)
  + Thirst(Economy(D, d))

LEMMA DriverScores ==
  ASSUME NEW D, NEW d
  PROVE  /\ DriverDay(D, d).safety = Larger(0, 10000 - 100 * Points(D, d))
         /\ DriverDay(D, d).eco = Larger(0, 10000 - Deducted(D, d))
<1>1. DriverDay(D, d).safety = Larger(0, 10000 - 100 * Points(D, d))
  BY SMTT(60) DEF DriverDay, Points, AlertCount, Total, SumFunction
<1>2. DriverDay(D, d).eco = Larger(0, 10000 - Deducted(D, d))
  BY SMTT(60) DEF DriverDay, Deducted, Economy, Thirst, HarshStarts, Metres,
     HoursDriven, HighRevs, AlertCount, Total, SumFunction
<1> QED  BY <1>1, <1>2

LEMMA ThirstIsNat == ASSUME NEW economy \in Int PROVE Thirst(economy) \in Nat
<1>1. CASE economy > 0 /\ economy < 1000
  <2>1. Thirst(economy) = (1000 - economy) \div 2 /\ 1000 - economy \in Nat
    BY <1>1 DEF Thirst
  <2>2. \A n \in Nat : n \div 2 \in Nat
    OBVIOUS
  <2> QED  BY ONLY <2>1, <2>2
<1>2. CASE ~(economy > 0 /\ economy < 1000)
  BY <1>2 DEF Thirst
<1> QED  BY <1>1, <1>2

\* With counters that were reset less than nothing may be deducted.
LEMMA DeductedIsInt ==
  ASSUME Located(Drawn), NEW D, D \subseteq Assignments, NEW d, \A a \in D : Duty(a, d) # {}
  PROVE  /\ Deducted(D, d) \in Int
         /\ HoursDriven(D, d, "idle") >= 0 => Deducted(D, d) >= 0
<1>0. IsFiniteSet(D)
  BY DailyConstants, FS_Subset
<1>i. PICK idle : idle = HoursDriven(D, d, "idle")
  OBVIOUS
<1>c. PICK count : count = HarshStarts(D, d)
  OBVIOUS
<1>r. PICK revs : revs = HighRevs(D, d)
  OBVIOUS
<1>p. PICK part : part = Thirst(Economy(D, d))
  OBVIOUS
<1>1. idle \in Int /\ count \in Nat /\ revs \in Nat
  BY <1>0, <1>i, <1>c, <1>r, HoursAreInt, CountsAreNat, RevsAreNat DEF HarshStarts
<1>2. Economy(D, d) \in Int
  <2>1. Metres(D, d) \in Int /\ DriverFuel(D, d) \in Int
    <3>1. Metres(D, d) \in Nat
      BY <1>0, MetresAreNat
    <3>2. DriverFuel(D, d) \in Int
      BY FuelIsInt
    <3> QED  BY ONLY <3>1, <3>2
  <2>2. \A m, n \in Int : n > 0 => m \div n \in Int
    OBVIOUS
  <2> QED  BY ONLY <2>1, <2>2 DEF Economy
<1>3. part \in Nat
  BY <1>2, <1>p, ThirstIsNat
<1>4. Deducted(D, d) = (idle * 20) \div 3 + 500 * count + 250 * revs + part
  BY <1>i, <1>c, <1>r, <1>p DEF Deducted
<1>5. (idle * 20) \div 3 \in Int /\ (idle >= 0 => (idle * 20) \div 3 >= 0)
  BY ONLY <1>1, SMTT(30)
<1>q. PICK q : q = (idle * 20) \div 3
  OBVIOUS
<1>6. /\ q + 500 * count + 250 * revs + part \in Int
      /\ idle >= 0 => q + 500 * count + 250 * revs + part >= 0
  BY ONLY <1>1, <1>3, <1>5, <1>q, SMTT(30)
<1> QED  BY ONLY <1>4, <1>6, <1>q, <1>i

\* The end of the scale of scores: one hundred percent, in hundredths.
Full == 10000

LEMMA ScaleEnds == Full \in Nat /\ Scores = 0 .. Full
<1>1. Full \in Nat
  BY DEF Full
<1>2. Scores = 0 .. Full
  BY DEF Full, Scores
<1> QED  BY <1>1, <1>2

LEMMA Deducting ==
  ASSUME NEW n \in Nat, NEW x \in Nat
  PROVE  Larger(0, n - x) \in 0 .. n
BY DEF Larger

LEMMA DriverDayOK ==
  ASSUME Located(Drawn), NEW D, D \subseteq Assignments, NEW d, \A a \in D : Duty(a, d) # {}
  PROVE  DriverOK(DriverDay(D, d))
<1>r. PICK row : row = DriverDay(D, d)
  OBVIOUS
<1>p. PICK points : points = Points(D, d)
  OBVIOUS
<1>e. PICK deducted : deducted = Deducted(D, d)
  OBVIOUS
<1>1. points \in Nat /\ deducted \in Int
  BY <1>p, <1>e, PointsAreNat, DeductedIsInt, DailyConstants, FS_Subset
<1>2. row.safety = Larger(0, 10000 - 100 * points) /\ row.eco = Larger(0, 10000 - deducted)
  BY <1>r, <1>p, <1>e, DriverScores
<1>3. DriverOK(row)
  <2>1. row.safety \in Scores
    <3>1. row.safety = Larger(0, Full - 100 * points)
      BY <1>2 DEF Full
    <3>2. 100 * points \in Nat
      BY ONLY <1>1
    <3> QED  BY ScaleEnds, <3>1, <3>2, Deducting
  <2>2. row.eco \in Nat
    BY ONLY <1>1, <1>2, SMTT(30) DEF Larger
  <2> QED  BY <2>1, <2>2 DEF DriverOK
<1> QED  BY <1>3, <1>r

(***************************************************************************)
(* Maintenance.                                                            *)
(***************************************************************************)
LEMMA OdometerIsInt ==
  ASSUME Located(Drawn), NEW t, Scored(t), NEW v \in Vehicles, NEW d
  PROVE  Odometer(t, v, d) \in Int
<1>p. PICK past : past = {l \in locations : l.vehicle = v /\ DayOf(l) <= d}
  OBVIOUS
<1>r. PICK rows : rows = {k \in Days : k < d /\ t.maintenance[v][k] # NoRow}
  OBVIOUS
<1>m. PICK back : back = t.maintenance[v][Max(rows)].remaining
  OBVIOUS
<1>o. PICK odo : odo = Last(past).odo
  OBVIOUS
<1>1. Odometer(t, v, d) = IF past # {} /\ odo # None THEN odo
                          ELSE IF rows # {} THEN 10000000 - back ELSE v * 15300000 + 120000
  BY <1>p, <1>r, <1>m, <1>o, SMTT(30) DEF Odometer
<1>2. past # {} /\ odo # None => odo \in Int
  <2>1. Located(past)
    <3>1. past \in SUBSET Drawn
      BY <1>p DEF Drawn
    <3> QED  BY <3>1, SubsetLocated
  <2>2. past # {} => LocationOK(Last(past))
    BY <2>1, FirstAndLast DEF Located
  <2> QED  BY <1>o, <2>2 DEF LocationOK
<1>3. rows # {} => back \in Int
  <2>1. rows \in SUBSET Days
    BY <1>r
  <2>2. rows # {} => Max(rows) \in rows
    BY <2>1, DaysAreFinite, FS_Subset, GreatestOfFinite
  <2>3. rows # {} => ServiceOK(t.maintenance[v][Max(rows)])
    BY <1>r, <2>2 DEF Scored
  <2>4. ASSUME NEW row, ServiceOK(row) PROVE row.remaining \in Int
    <3>1. BeforeService(row.remaining)
      BY <2>4 DEF ServiceOK
    <3> QED  BY ONLY <3>1 DEF BeforeService
  <2> QED  BY <1>m, <2>3, <2>4
<1>4. v \in Int
  BY DailyConstants
<1> QED  BY ONLY <1>1, <1>2, <1>3, <1>4, SMTT(30)

\* What MaintenanceDay makes of the odometer and of the alerts of the day.
Remaining(odo) == 10000000 - (odo % 10000000)
OilLife(odo) == Remaining(odo) \div 1000
BrakeWear(odo, harsh) == Smaller(10000, ((odo % 20000000) \div 2000) + 50 * harsh)
TyreLife(odo, harsh) == Larger(0, 10000 - ((odo % 40000000) \div 4000) - 30 * harsh)
BatteryLife(low, cut) == Larger(0, 10000 - 500 * low - 500 * cut)
EngineLife(heat, harsh, hours) == Larger(0, 10000 - 1500 * heat - 200 * harsh - (hours \div 6))

Overall(oil, brake, tyre, battery, engine) ==
  (15 * oil + 15 * (10000 - brake) + 15 * tyre + 20 * battery + 35 * engine) \div 100

LEMMA PartsLast ==
  ASSUME NEW odo \in Int, NEW harsh \in Nat, NEW heat \in Nat, NEW low \in Nat, NEW cut \in Nat,
         NEW hours \in Nat
  PROVE  /\ BeforeService(Remaining(odo)) /\ ServiceDays(Remaining(odo)) \in 1 .. 365
         /\ OilLife(odo) \in Scores
         /\ BrakeWear(odo, harsh) \in Scores /\ TyreLife(odo, harsh) \in Scores
         /\ BatteryLife(low, cut) \in Scores
         /\ EngineLife(heat, harsh, hours) \in Scores
<1>1. BeforeService(Remaining(odo))
  BY SMTT(30) DEF BeforeService, Remaining
<1>2. OilLife(odo) \in Scores
  BY SMTT(30) DEF Scores, Remaining, OilLife
<1>3. BrakeWear(odo, harsh) \in Scores
  <2>x. PICK x : x = ((odo % 20000000) \div 2000) + 50 * harsh
    OBVIOUS
  <2>1. x \in Nat
    BY ONLY odo \in Int, harsh \in Nat, <2>x, SMTT(30)
  <2>2. BrakeWear(odo, harsh) = Smaller(Full, x)
    BY <2>x DEF Full, BrakeWear
  <2>3. Smaller(Full, x) \in 0 .. Full
    BY <2>1, ScaleEnds DEF Smaller
  <2> QED  BY ScaleEnds, <2>2, <2>3
<1>4. TyreLife(odo, harsh) \in Scores
  <2>x. PICK x : x = (odo % 40000000) \div 4000
    OBVIOUS
  <2>1. x \in Nat /\ x + 30 * harsh \in Nat
    BY ONLY odo \in Int, harsh \in Nat, <2>x, SMTT(30)
  <2>2. TyreLife(odo, harsh) = Larger(0, Full - x - 30 * harsh)
    BY <2>x DEF Full, TyreLife
  <2>3. Full - x - 30 * harsh = Full - (x + 30 * harsh)
    BY <2>1, ScaleEnds
  <2> QED  BY ScaleEnds, <2>1, <2>2, <2>3, Deducting
<1>5. BatteryLife(low, cut) \in Scores
  <2>1. BatteryLife(low, cut) = Larger(0, Full - 500 * low - 500 * cut)
    BY DEF Full, BatteryLife
  <2>2. /\ 500 * low + 500 * cut \in Nat
        /\ Full - 500 * low - 500 * cut = Full - (500 * low + 500 * cut)
    BY ScaleEnds
  <2> QED  BY ScaleEnds, <2>1, <2>2, Deducting
<1>6. ServiceDays(Remaining(odo)) \in 1 .. 365
  BY SMTT(30) DEF ServiceDays, Larger, Remaining
<1>7. EngineLife(heat, harsh, hours) \in Scores
  <2>n. PICK n : n = hours \div 6
    OBVIOUS
  <2>1. n \in Nat
    BY ONLY hours \in Nat, <2>n, SMTT(30)
  <2>2. EngineLife(heat, harsh, hours) = Larger(0, Full - 1500 * heat - 200 * harsh - n)
    BY <2>n DEF Full, EngineLife
  <2>3. /\ 1500 * heat + 200 * harsh + n \in Nat
        /\ Full - 1500 * heat - 200 * harsh - n = Full - (1500 * heat + 200 * harsh + n)
    BY <2>1, ScaleEnds
  <2>x. PICK x : x = 1500 * heat + 200 * harsh + n
    OBVIOUS
  <2>4. x \in Nat /\ EngineLife(heat, harsh, hours) = Larger(0, Full - x)
    BY <2>2, <2>3, <2>x
  <2> QED  BY ScaleEnds, <2>4, Deducting
<1> QED  BY ONLY <1>1, <1>2, <1>3, <1>4, <1>5, <1>6, <1>7

LEMMA Weighted ==
  ASSUME NEW oil \in Scores, NEW brake \in Scores, NEW tyre \in Scores, NEW battery \in Scores,
         NEW engine \in Scores
  PROVE  Overall(oil, brake, tyre, battery, engine) \in Scores
<1>1. /\ oil \in Int /\ brake \in Int /\ tyre \in Int /\ battery \in Int /\ engine \in Int
      /\ 0 <= oil /\ oil <= Full /\ 0 <= brake /\ brake <= Full /\ 0 <= tyre /\ tyre <= Full
      /\ 0 <= battery /\ battery <= Full /\ 0 <= engine /\ engine <= Full
  BY ScaleEnds
<1>s. PICK sum : sum = 15 * oil + 15 * (Full - brake) + 15 * tyre + 20 * battery + 35 * engine
  OBVIOUS
<1>2. sum \in Int /\ 0 <= sum /\ sum <= 100 * Full
  BY ScaleEnds, <1>1, <1>s, SMTT(30)
<1>3. sum \div 100 \in 0 .. Full
  BY ScaleEnds, <1>2, SMTT(30)
<1>4. Overall(oil, brake, tyre, battery, engine) = sum \div 100
  BY <1>s DEF Full, Overall
<1> QED  BY ScaleEnds, <1>3, <1>4

Today(v, d) == {l \in locations : l.vehicle = v /\ DayOf(l) = d}
Harsh(v, d) == Alerts(Today(v, d), {"Harsh Braking", "Harsh Acceleration", "Sharp Turn"})
Heat(v, d) == Alerts(Today(v, d), {"Engine Over Temperature"})
Low(v, d) == Alerts(Today(v, d), {"Low Battery"})
Cut(v, d) == Alerts(Today(v, d), {"Power Failure"})
HoursOf(t, v, d) == IF t.vehicle[v][d] = NoRow THEN 0 ELSE t.vehicle[v][d].engine

LEMMA PartsOfDay ==
  ASSUME NEW t, NEW v, NEW d
  PROVE  LET row == MaintenanceDay(t, v, d)
             odo == Odometer(t, v, d)
         IN  /\ row.remaining = Remaining(odo) /\ row.days = ServiceDays(Remaining(odo))
             /\ row.oil = OilLife(odo)
             /\ row.brake = BrakeWear(odo, Harsh(v, d)) /\ row.tyre = TyreLife(odo, Harsh(v, d))
             /\ row.battery = BatteryLife(Low(v, d), Cut(v, d))
             /\ row.engine = EngineLife(Heat(v, d), Harsh(v, d), HoursOf(t, v, d))
             /\ row.overall = Overall(row.oil, row.brake, row.tyre, row.battery, row.engine)
<1>1. MaintenanceDay(t, v, d).remaining = Remaining(Odometer(t, v, d))
  BY SMTT(30) DEF MaintenanceDay, Remaining
<1>2. MaintenanceDay(t, v, d).days = ServiceDays(Remaining(Odometer(t, v, d)))
  BY SMTT(30) DEF MaintenanceDay, Remaining
<1>3. MaintenanceDay(t, v, d).oil = OilLife(Odometer(t, v, d))
  BY SMTT(30) DEF MaintenanceDay, Remaining, OilLife
<1>4. MaintenanceDay(t, v, d).brake = BrakeWear(Odometer(t, v, d), Harsh(v, d))
  BY SMTT(30) DEF MaintenanceDay, BrakeWear, Harsh, Today
<1>5. MaintenanceDay(t, v, d).tyre = TyreLife(Odometer(t, v, d), Harsh(v, d))
  BY SMTT(30) DEF MaintenanceDay, TyreLife, Harsh, Today
<1>6. MaintenanceDay(t, v, d).battery = BatteryLife(Low(v, d), Cut(v, d))
  BY SMTT(30) DEF MaintenanceDay, BatteryLife, Low, Cut, Today
<1>7. MaintenanceDay(t, v, d).engine = EngineLife(Heat(v, d), Harsh(v, d), HoursOf(t, v, d))
  BY SMTT(30) DEF MaintenanceDay, EngineLife, Heat, Harsh, HoursOf, Today
<1>8. MaintenanceDay(t, v, d).overall =
        Overall(MaintenanceDay(t, v, d).oil, MaintenanceDay(t, v, d).brake,
                MaintenanceDay(t, v, d).tyre, MaintenanceDay(t, v, d).battery,
                MaintenanceDay(t, v, d).engine)
  BY SMTT(30) DEF MaintenanceDay, Overall
<1> QED  BY ONLY <1>1, <1>2, <1>3, <1>4, <1>5, <1>6, <1>7, <1>8

LEMMA MaintenanceDayOK ==
  ASSUME Located(Drawn), NEW t, Scored(t), Tabled(t),
         NEW v \in Vehicles, NEW d \in Days
  PROVE  ServiceOK(MaintenanceDay(t, v, d))
<1>o. PICK odo : odo = Odometer(t, v, d)
  OBVIOUS
<1>h. PICK hours : hours = HoursOf(t, v, d)
  OBVIOUS
<1>w. PICK row : row = MaintenanceDay(t, v, d)
  OBVIOUS
<1>1. Harsh(v, d) \in Nat /\ Heat(v, d) \in Nat /\ Low(v, d) \in Nat /\ Cut(v, d) \in Nat
  <2>1. Located(Today(v, d))
    <3>1. Today(v, d) \in SUBSET Drawn
      BY DEF Drawn, Today
    <3> QED  BY <3>1, SubsetLocated
  <2> QED  BY <2>1, AlertsAreNat DEF Harsh, Heat, Low, Cut
<1>2. odo \in Int
  BY <1>o, OdometerIsInt
<1>3. hours \in Nat
  <2>1. CASE t.vehicle[v][d] = NoRow
    BY <1>h, <2>1 DEF HoursOf
  <2>2. CASE t.vehicle[v][d] # NoRow
    <3>1. t.vehicle[v][d].engine \in Int /\ t.vehicle[v][d].engine >= 0
      BY <2>2 DEF Tabled, Numeric, Summed, EngineHours
    <3> QED  BY <1>h, <2>2, <3>1 DEF HoursOf
  <2> QED  BY <2>1, <2>2
<1>4. /\ row.remaining = Remaining(odo) /\ row.days = ServiceDays(Remaining(odo))
      /\ row.oil = OilLife(odo)
      /\ row.brake = BrakeWear(odo, Harsh(v, d)) /\ row.tyre = TyreLife(odo, Harsh(v, d))
      /\ row.battery = BatteryLife(Low(v, d), Cut(v, d))
      /\ row.engine = EngineLife(Heat(v, d), Harsh(v, d), hours)
      /\ row.overall = Overall(row.oil, row.brake, row.tyre, row.battery, row.engine)
  BY <1>o, <1>h, <1>w, PartsOfDay
<1>5. /\ BeforeService(row.remaining) /\ row.days \in 1 .. 365
      /\ row.oil \in Scores /\ row.brake \in Scores /\ row.tyre \in Scores
      /\ row.battery \in Scores /\ row.engine \in Scores
  BY <1>1, <1>2, <1>3, <1>4, PartsLast, SMTT(60)
<1>6. row.overall \in Scores
  BY <1>4, <1>5, Weighted
<1> QED  BY <1>5, <1>6, <1>w DEF ServiceOK

-----------------------------------------------------------------------------
(***************************************************************************)
(* The scores through a run.                                               *)
(***************************************************************************)
LEMMA ScoresInit == DailyInit => ScoresIInv
<1> SUFFICES ASSUME DailyInit PROVE ScoresIInv
  OBVIOUS
<1>1. /\ tables.driver = [k \in Drivers |-> [d \in Days |-> NoRow]]
      /\ tables.maintenance = [v \in Vehicles |-> [d \in Days |-> NoRow]]
      /\ {"driver", "maintenance"} \subseteq DOMAIN tables
  BY DEF DailyInit, NoTables
<1>2. Scored(tables)
  BY <1>1 DEF Scored, ScoresOf, Rowed
<1>3. failures \in 0 .. MaxFailures /\ run = NoRun
  BY DailyConstants DEF DailyInit
<1> QED  BY <1>2, <1>3 DEF ScoresIInv

LEMMA DriversScored ==
  ASSUME Located(Drawn), NEW t, Scored(t), NEW r, r.date \in Days, NEW u, u = DriverStats(t, r)
  PROVE  Scored(u)
<1>d. PICK date : date = r.date
  OBVIOUS
<1>a. PICK D : D = [k \in Drivers |-> {a \in Assignments : a.driver = k /\ Duty(a, date) # {}}]
  OBVIOUS
<1>1. /\ u.maintenance = t.maintenance /\ DOMAIN u = DOMAIN t
      /\ u.driver = [k \in Drivers |->
           IF D[k] = {} THEN t.driver[k]
           ELSE [t.driver[k] EXCEPT ![date] = DriverDay(D[k], date)]]
  <2>1. u = [t EXCEPT !.driver = [k \in Drivers |->
               LET E == {a \in Assignments : a.driver = k /\ Duty(a, date) # {}}
               IN  IF E = {} THEN t.driver[k]
                   ELSE [t.driver[k] EXCEPT ![date] = DriverDay(E, date)]]]
    BY <1>d DEF DriverStats
  <2>2. [k \in Drivers |->
           LET E == {a \in Assignments : a.driver = k /\ Duty(a, date) # {}}
           IN  IF E = {} THEN t.driver[k]
               ELSE [t.driver[k] EXCEPT ![date] = DriverDay(E, date)]]
        = [k \in Drivers |->
             IF D[k] = {} THEN t.driver[k]
             ELSE [t.driver[k] EXCEPT ![date] = DriverDay(D[k], date)]]
    BY <1>a
  <2> QED  BY <2>1, <2>2 DEF Scored, ScoresOf
<1>2. ASSUME NEW k \in Drivers
      PROVE  /\ u.driver[k] = [d \in Days |-> u.driver[k][d]]
             /\ \A d \in Days : u.driver[k][d] # NoRow => DriverOK(u.driver[k][d])
  <2>o. PICK old : old = t.driver[k]
    OBVIOUS
  <2>n. PICK new : new = DriverDay(D[k], date)
    OBVIOUS
  <2>1. u.driver[k] = IF D[k] = {} THEN old ELSE [old EXCEPT ![date] = new]
    BY <1>1, <2>o, <2>n
  <2>2. /\ old = [d \in Days |-> old[d]]
        /\ \A d \in Days : old[d] # NoRow => DriverOK(old[d])
    BY <2>o DEF Scored, ScoresOf
  <2>3. DriverOK(new)
    <3>1. D[k] \subseteq Assignments /\ \A a \in D[k] : Duty(a, date) # {}
      BY <1>a
    <3> QED  BY <2>n, <3>1, DriverDayOK
  <2>4. CASE D[k] = {}
    BY <2>1, <2>2, <2>4
  <2>5. CASE D[k] # {}
    <3>1. u.driver[k] = [old EXCEPT ![date] = new]
      BY <2>1, <2>5
    <3>2. \A d \in Days : u.driver[k][d] = IF d = date THEN new ELSE old[d]
      BY ONLY <2>2, <3>1
    <3>3. u.driver[k] = [d \in Days |-> u.driver[k][d]]
      BY ONLY <2>2, <3>1
    <3>4. ASSUME NEW d \in Days, u.driver[k][d] # NoRow PROVE DriverOK(u.driver[k][d])
      BY <2>2, <2>3, <3>2, <3>4
    <3> QED  BY <3>3, <3>4
  <2> QED  BY <2>4, <2>5
<1>3. u.driver = [k \in Drivers |-> u.driver[k]]
  BY <1>1
<1> QED  BY <1>1, <1>2, <1>3 DEF Scored, ScoresOf

LEMMA MaintenanceScored ==
  ASSUME Located(Drawn), NEW t, Scored(t), Tabled(t), NEW r, r.date \in Days,
         NEW u, u = Maintenance(t, r)
  PROVE  Scored(u)
<1>d. PICK date : date = r.date
  OBVIOUS
<1>1. /\ u.driver = t.driver /\ DOMAIN u = DOMAIN t
      /\ u.maintenance = [v \in Vehicles |->
           [t.maintenance[v] EXCEPT ![date] = MaintenanceDay(t, v, date)]]
  BY <1>d DEF Maintenance, Scored, ScoresOf
<1>2. ASSUME NEW v \in Vehicles
      PROVE  /\ u.maintenance[v] = [d \in Days |-> u.maintenance[v][d]]
             /\ \A d \in Days : u.maintenance[v][d] # NoRow => ServiceOK(u.maintenance[v][d])
  <2>o. PICK old : old = t.maintenance[v]
    OBVIOUS
  <2>n. PICK new : new = MaintenanceDay(t, v, date)
    OBVIOUS
  <2>1. u.maintenance[v] = [old EXCEPT ![date] = new]
    BY <1>1, <2>o, <2>n
  <2>2. /\ old = [d \in Days |-> old[d]]
        /\ \A d \in Days : old[d] # NoRow => ServiceOK(old[d])
    BY <2>o DEF Scored, ScoresOf, Rowed
  <2>3. ServiceOK(new)
    BY <1>d, <2>n, MaintenanceDayOK
  <2>4. /\ \A d \in Days : u.maintenance[v][d] = IF d = date THEN new ELSE old[d]
        /\ u.maintenance[v] = [d \in Days |-> u.maintenance[v][d]]
    BY ONLY <2>1, <2>2
  <2>5. ASSUME NEW d \in Days, u.maintenance[v][d] # NoRow PROVE ServiceOK(u.maintenance[v][d])
    BY <2>2, <2>3, <2>4, <2>5
  <2> QED  BY <2>4, <2>5
<1>3. u.maintenance = [v \in Vehicles |-> u.maintenance[v]]
  BY <1>1
<1>4. Rowed(u.maintenance)
  BY <1>2, <1>3 DEF Rowed
<1>5. ScoresOf(u)
  BY <1>1, <1>4 DEF Scored, ScoresOf
<1> QED  BY <1>1, <1>2, <1>5 DEF Scored

LEMMA OthersScored ==
  ASSUME NEW t, Scored(t), NEW r, NEW now,
         NEW u \in {VehicleStats(t, r), FleetStats(t, r), FleetOperations(t, now)}
  PROVE  Scored(u)
<1>1. LET w == VehicleStats(t, r)
      IN  w.driver = t.driver /\ w.maintenance = t.maintenance /\ DOMAIN w = DOMAIN t
  BY DEF VehicleStats, Scored, ScoresOf
<1>2. LET w == FleetStats(t, r)
      IN  w.driver = t.driver /\ w.maintenance = t.maintenance /\ DOMAIN w = DOMAIN t
  BY DEF FleetStats, Scored, ScoresOf
<1>3. LET w == FleetOperations(t, now)
      IN  w.driver = t.driver /\ w.maintenance = t.maintenance /\ DOMAIN w = DOMAIN t
  BY DEF FleetOperations, Scored, ScoresOf
<1>4. u.driver = t.driver /\ u.maintenance = t.maintenance /\ DOMAIN u = DOMAIN t
  BY <1>1, <1>2, <1>3
<1> QED  BY <1>4 DEF Scored, ScoresOf

LEMMA ProcessScores ==
  ASSUME ScoresIInv, FiguresIInv, RunOK, IdsDrawn, NEW p \in DOMAIN Stage, Process(p)
  PROVE  ScoresIInv'
<1>1. run.on /\ p \in run.todo /\ UNCHANGED <<tables, failures>> /\ run # NoRun
  BY DEF Process, Due, NoRun
<1>t. PICK t : t = run.draft
  OBVIOUS
<1>2. Scored(t) /\ Tabled(t) /\ Scored(tables) /\ run.date \in Days
  BY <1>1, <1>t DEF ScoresIInv, FiguresIInv, RunOK
<1>3. Located(Drawn)
  BY DEF FiguresIInv, IdsDrawn, Located
<1>4. PICK u : /\ run' = [run EXCEPT !.todo = @ \ {p}, !.draft = u]
               /\ \/ u = DriverStats(t, run)
                  \/ u = Maintenance(t, run)
                  \/ \E now \in {0} \cup Clock :
                       u \in {VehicleStats(t, run), FleetStats(t, run), FleetOperations(t, now)}
  <2>1. PICK u \in CASE p = "vehicle"     -> {VehicleStats(run.draft, run)}
                     [] p = "driver"      -> {DriverStats(run.draft, run)}
                     [] p = "maintenance" -> {Maintenance(run.draft, run)}
                     [] p = "fleet"       -> {FleetStats(run.draft, run)}
                     [] OTHER -> {FleetOperations(run.draft, now) : now \in Clock} :
          run' = [run EXCEPT !.todo = @ \ {p}, !.draft = u]
    BY DEF Process
  <2>2. p \in {"vehicle", "driver", "maintenance", "fleet", "operations"}
    BY DEF Stage
  <2>3. \/ u = VehicleStats(t, run) \/ u = DriverStats(t, run)
        \/ u = Maintenance(t, run) \/ u = FleetStats(t, run)
        \/ \E now \in Clock : u = FleetOperations(t, now)
    BY <1>t, <2>1, <2>2
  <2> QED  BY <2>1, <2>3
<1>5. Scored(u)
  BY <1>2, <1>3, <1>4, DriversScored, MaintenanceScored, OthersScored
<1>6. run'.draft = u
  BY <1>4 DEF RunOK
<1> QED  BY <1>1, <1>5, <1>6 DEF ScoresIInv

LEMMA ScoresStep ==
  ASSUME DailyIInv, FiguresIInv, ScoresIInv, [DailyNext]_dailyVars
  PROVE  ScoresIInv'
<1>1. CASE \/ \E p \in Packets : Flush(p)
           \/ \E l \in pending : Store(l)
           \/ UNCHANGED dailyVars
  <2>1. UNCHANGED <<tables, run, failures>>
    BY <1>1 DEF Flush, Store, dailyVars
  <2> QED  BY <2>1 DEF ScoresIInv
<1>2. CASE Begin
  <2>1. UNCHANGED <<tables, failures>> /\ run'.draft = tables
    BY <1>2 DEF Begin
  <2> QED  BY <2>1 DEF ScoresIInv
<1>3. CASE CommitRun
  <2>1. run # NoRun /\ tables' = run.draft /\ run' = NoRun /\ UNCHANGED failures
    BY <1>3 DEF CommitRun, NoRun
  <2> QED  BY <2>1 DEF ScoresIInv
<1>4. CASE RollBack
  <2>1. UNCHANGED tables /\ run' = NoRun /\ failures' = failures + 1 /\ failures < MaxFailures
    BY <1>4 DEF RollBack
  <2>2. failures' \in 0 .. MaxFailures
    BY <2>1, DailyConstants DEF ScoresIInv
  <2> QED  BY <2>1, <2>2 DEF ScoresIInv
<1>5. CASE \E p \in DOMAIN Stage : Process(p)
  <2>1. RunOK /\ IdsDrawn
    BY <1>5 DEF DailyIInv, Process, NoRun
  <2> QED  BY <1>5, <2>1, ProcessScores
<1> QED  BY <1>1, <1>2, <1>3, <1>4, <1>5 DEF DailyNext

(***************************************************************************)
(* The figures of the pipeline are what they claim to be, whatever was     *)
(* received: ids are unique, a run covers at least one location, no safety *)
(* score leaves its scale, a service is at most a year and at least a day  *)
(* away, and the health of a vehicle is out of a hundred.                  *)
(***************************************************************************)
THEOREM DailyTypes == DailySpec => []DailyTypeOK
<1>1. ASSUME DailyIInv, ScoresIInv PROVE DailyTypeOK
  <2>1. /\ cursor \in Nat
        /\ \A l, k \in pending \cup locations : l.id = k.id => l = k
    BY <1>1 DEF DailyIInv, IdsDrawn, Drawn
  <2>2. run.on => run.start <= run.end
    <3>1. CASE run = NoRun
      BY <3>1 DEF NoRun
    <3>2. CASE run # NoRun
      <4>1. run.start = cursor + 1 /\ run.end \in Nat /\ cursor < run.end
        BY <1>1, <3>2 DEF DailyIInv, RunOK
      <4> QED  BY <2>1, <4>1
    <3> QED  BY <3>1, <3>2
  <2>3. ASSUME NEW d \in Drivers, NEW k \in Days, tables.driver[d][k] # NoRow
        PROVE  tables.driver[d][k].safety \in Scores /\ tables.driver[d][k].eco \in Nat
    <3>1. DriverOK(tables.driver[d][k])
      BY <1>1, <2>3 DEF ScoresIInv, Scored
    <3> QED  BY <3>1 DEF DriverOK
  <2>4. ASSUME NEW v \in Vehicles, NEW k \in Days, tables.maintenance[v][k] # NoRow
        PROVE  /\ tables.maintenance[v][k].days \in 1 .. 365
               /\ tables.maintenance[v][k].overall \in Scores
    <3>1. ServiceOK(tables.maintenance[v][k])
      BY <1>1, <2>4 DEF ScoresIInv, Scored
    <3> QED  BY <3>1 DEF ServiceOK
  <2>5. failures \in 0 .. MaxFailures
    BY <1>1 DEF ScoresIInv
  <2> QED  BY <2>1, <2>2, <2>3, <2>4, <2>5 DEF DailyTypeOK
<1> QED  BY <1>1, FiguresInit, FiguresStep, ScoresInit, ScoresStep, DailyInvariant, PTL
         DEF DailySpec

-----------------------------------------------------------------------------
(***************************************************************************)
(* Averages of scores.                                                     *)
(***************************************************************************)
Hundred(n) == 10000 * n

LEMMA HundredMore ==
  /\ Hundred(0) = 0
  /\ \A n \in Nat : Hundred(n) \in Nat
  /\ \A n \in Nat : n > 0 => Hundred(n) = 10000 + Hundred(n - 1)
BY SMTT(30) DEF Hundred

InScale(n) == n \in Nat /\ n <= 10000

LEMMA ScoreRange == \A n \in Scores : InScale(n)
BY SMTT(30) DEF Scores, InScale

LEMMA ScoresAtMost ==
  ASSUME NEW S, IsFiniteSet(S), NEW g, \A x \in S : g[x] \in Scores
  PROVE  SumFunctionOnSet(g, S) \in Nat /\ SumFunctionOnSet(g, S) <= Hundred(Cardinality(S))
<1>0. \A x \in S : InScale(g[x])
  BY ScoreRange
<1>1. ASSUME NEW s \in SUBSET S PROVE SumFunctionOnSet(g, s) \in Nat
  <2>1. IsFiniteSet(s) /\ \A x \in s : g[x] \in Nat
    BY <1>0, FS_Subset DEF InScale
  <2> QED  BY <2>1, SumType
<1>b. PICK Bad : Bad = {s \in SUBSET S : ~(SumFunctionOnSet(g, s) <= Hundred(Cardinality(s)))}
  OBVIOUS
<1>2. ASSUME Bad # {} PROVE FALSE
  <2>1. PICK s \in Bad : IsFiniteSet(s) /\ \A x \in s : s \ {x} \notin Bad
    BY <1>b, <1>2, NoLeastCounterexample
  <2>2. s \in SUBSET S /\ ~(SumFunctionOnSet(g, s) <= Hundred(Cardinality(s)))
    BY <1>b, <2>1
  <2>3. s # {}
    <3> SUFFICES ASSUME s = {} PROVE FALSE
      OBVIOUS
    <3>1. SumFunctionOnSet(g, s) = 0 /\ Cardinality(s) = 0
      BY SumEmpty, FS_EmptySet
    <3>2. Hundred(Cardinality(s)) = 0
      BY <3>1, HundredMore
    <3> QED  BY ONLY <2>2, <3>1, <3>2
  <2>4. PICK x \in s : TRUE
    BY <2>3
  <2>u. PICK u : u = s \ {x}
    OBVIOUS
  <2>n. PICK n : n = Cardinality(s)
    OBVIOUS
  <2>5. /\ SumFunctionOnSet(g, u) <= Hundred(Cardinality(u))
        /\ SumFunctionOnSet(g, u) \in Nat
    BY <1>1, <1>b, <2>1, <2>2, <2>4, <2>u
  <2>6. n \in Nat /\ Cardinality(u) = n - 1 /\ n > 0
    <3>1. Cardinality(u) = n - 1
      BY <2>1, <2>4, <2>u, <2>n, FS_RemoveElement
    <3>2. n \in Nat /\ n # 0
      BY <2>1, <2>3, <2>n, FS_CardinalityType, FS_EmptySet
    <3> QED  BY <3>1, <3>2
  <2>7. SumFunctionOnSet(g, s) = g[x] + SumFunctionOnSet(g, u)
    <3>1. \A y \in s : g[y] \in Int
      BY <1>0, <2>2 DEF InScale
    <3> QED  BY <2>1, <2>4, <2>u, <3>1, SumElement
  <2>8. Hundred(n) = 10000 + Hundred(n - 1) /\ Hundred(n - 1) \in Nat
    BY <2>6, HundredMore
  <2>9. g[x] \in Nat /\ g[x] <= 10000
    BY <1>0, <2>2, <2>4, SMTT(30) DEF InScale
  <2>10. SumFunctionOnSet(g, s) <= Hundred(n)
    BY ONLY <2>5, <2>6, <2>7, <2>8, <2>9, SMTT(30)
  <2> QED  BY ONLY <2>2, <2>10, <2>n
<1>3. S \notin Bad
  BY <1>2
<1> QED  BY <1>1, <1>3, <1>b

LEMMA ShareInScale ==
  ASSUME NEW sum \in Nat, NEW n \in Nat, n > 0, sum <= Hundred(n)
  PROVE  sum \div n \in Scores
<1>q. PICK q : q = sum \div n
  OBVIOUS
<1>1. q \in Nat /\ n * q <= sum
  BY <1>q, SMTT(30)
<1>2. ASSUME q > 10000 PROVE FALSE
  <2>1. n * q >= n * 10001
    BY <1>1, <1>2, SMTT(30)
  <2>2. n * 10001 > 10000 * n
    BY SMTT(30)
  <2>3. n * q \in Int /\ n * 10001 \in Int /\ 10000 * n \in Int
    BY <1>1, SMTT(30)
  <2> QED  BY <1>1, <2>1, <2>2, <2>3, SMTT(30) DEF Hundred
<1> QED  BY <1>1, <1>2, <1>q, SMTT(30) DEF Scores

\* The average of scores is a score, and without any it is a hundred percent.
LEMMA AverageInScale ==
  ASSUME NEW S, IsFiniteSet(S), NEW g, \A x \in S : g[x] \in Scores
  PROVE  Share(SumFunctionOnSet(g, S), Cardinality(S), 10000) \in Scores
<1>1. Cardinality(S) \in Nat
  BY FS_CardinalityType
<1>2. CASE Cardinality(S) > 0
  <2>1. SumFunctionOnSet(g, S) \div Cardinality(S) \in Scores
    BY <1>1, <1>2, ScoresAtMost, ShareInScale
  <2> QED  BY <1>2, <2>1, SMTT(30) DEF Share
<1>3. CASE ~(Cardinality(S) > 0)
  <2>1. Full \in Scores
    BY ScaleEnds
  <2>2. Share(SumFunctionOnSet(g, S), Cardinality(S), 10000) = Full
    BY <1>3 DEF Share, Full
  <2> QED  BY <2>1, <2>2
<1> QED  BY <1>2, <1>3

-----------------------------------------------------------------------------
(***************************************************************************)
(* The reports on drivers.                                                 *)
(***************************************************************************)
LEMMA DriverAverages ==
  ASSUME NEW k \in Drivers, NEW from, NEW to
  PROVE  /\ (\A d \in Days : tables.driver[k][d] # NoRow
                               => tables.driver[k][d].safety \in Scores)
              => DriverPerformance(k, from, to).safety \in Scores
         /\ (\A d \in Days : tables.driver[k][d] # NoRow
                               => tables.driver[k][d].eco \in Scores)
              => DriverPerformance(k, from, to).eco \in Scores
<1>D. PICK D : D = Between(tables.driver[k], from, to)
  OBVIOUS
<1>1. D \subseteq Days /\ \A d \in D : tables.driver[k][d] # NoRow
  BY <1>D DEF Between
<1>2. IsFiniteSet(D)
  BY <1>1, DaysAreFinite, FS_Subset
<1>g. PICK g : g = [d \in D |-> tables.driver[k][d].safety]
  OBVIOUS
<1>h. PICK h : h = [d \in D |-> tables.driver[k][d].eco]
  OBVIOUS
<1>3. DriverPerformance(k, from, to).safety
      = Share(SumFunctionOnSet(g, D), Cardinality(D), 10000)
  BY <1>D, <1>g, SMTT(30) DEF DriverPerformance, Total, SumFunction
<1>4. DriverPerformance(k, from, to).eco
      = Share(SumFunctionOnSet(h, D), Cardinality(D), 10000)
  BY <1>D, <1>h, SMTT(30) DEF DriverPerformance, Total, SumFunction
<1>5. (\A d \in D : g[d] \in Scores)
        => Share(SumFunctionOnSet(g, D), Cardinality(D), 10000) \in Scores
  BY <1>2, AverageInScale, SMTT(30)
<1>6. (\A d \in D : h[d] \in Scores)
        => Share(SumFunctionOnSet(h, D), Cardinality(D), 10000) \in Scores
  BY <1>2, AverageInScale, SMTT(30)
<1>7. ASSUME \A d \in Days : tables.driver[k][d] # NoRow => tables.driver[k][d].safety \in Scores
      PROVE  \A d \in D : g[d] \in Scores
  BY <1>1, <1>7, <1>g
<1>8. ASSUME \A d \in Days : tables.driver[k][d] # NoRow => tables.driver[k][d].eco \in Scores
      PROVE  \A d \in D : h[d] \in Scores
  BY <1>1, <1>8, <1>h
<1>9. ASSUME \A d \in Days : tables.driver[k][d] # NoRow => tables.driver[k][d].safety \in Scores
      PROVE  DriverPerformance(k, from, to).safety \in Scores
  BY ONLY <1>3, <1>5, <1>7, <1>9, SMTT(30)
<1>10. ASSUME \A d \in Days : tables.driver[k][d] # NoRow => tables.driver[k][d].eco \in Scores
       PROVE  DriverPerformance(k, from, to).eco \in Scores
  BY ONLY <1>4, <1>6, <1>8, <1>10, SMTT(30)
<1> QED  BY <1>9, <1>10

SafetyOutOfHundred ==
  \A d \in Drivers, from, to \in Days : DriverPerformance(d, from, to).safety \in Scores

(***************************************************************************)
(* The safety score that a report shows for a period is one out of 100.    *)
(***************************************************************************)
THEOREM SafetyScoreIsOutOfHundred == DailySpec => []SafetyOutOfHundred
<1>1. ASSUME DailyTypeOK PROVE SafetyOutOfHundred
  <2>1. ASSUME NEW k \in Drivers, NEW from \in Days, NEW to \in Days
        PROVE  DriverPerformance(k, from, to).safety \in Scores
    <3>1. \A d \in Days : tables.driver[k][d] # NoRow => tables.driver[k][d].safety \in Scores
      BY <1>1 DEF DailyTypeOK
    <3> QED  BY <3>1, DriverAverages
  <2> QED  BY <2>1 DEF SafetyOutOfHundred
<1> QED  BY <1>1, DailyTypes, PTL

-----------------------------------------------------------------------------
(***************************************************************************)
(* The eco score stays in its scale as long as no device starts its        *)
(* counters again: the idle hours of a day are then not negative.  With    *)
(* counters that start again it does not: a vehicle that idles, is         *)
(* restarted, and has run its engine for longer than before when it        *)
(* reports the next time, has a last idle reading below the first one.     *)
(***************************************************************************)
CountersNeverReset ==
  \A p, q \in Packets :
    /\ p.vehicle = q.vehicle /\ p.time <= q.time
    /\ p.engine # None /\ q.engine # None /\ p.engine <= q.engine
    /\ p.idle # None /\ q.idle # None
    => p.idle <= q.idle

\* A location carries what was received.
Carries(l) ==
  /\ l.packet \in Packets
  /\ l.vehicle = l.packet.vehicle /\ l.time = l.packet.time
  /\ l.engine = l.packet.engine /\ l.idle = l.packet.idle

EcoScored(t) ==
  \A k \in Drivers, d \in Days : t.driver[k][d] # NoRow => t.driver[k][d].eco \in Scores

\* The report on a driver calls the eco score one out of 100.
EcoOutOfHundred ==
  \A d \in Drivers, from, to \in Days : DriverPerformance(d, from, to).eco \in Scores

EcoIInv ==
  /\ \A l \in Drawn : Carries(l)
  /\ EcoScored(tables)
  /\ run # NoRun => EcoScored(run.draft)

LEMMA IdleGrows ==
  ASSUME CountersNeverReset, NEW S, Located(S), S # {}, \A l \in S : Carries(l),
         NEW v, \A l \in S : l.vehicle = v, NEW longest, NEW slow
  PROVE  Runtime(S, longest, slow).idle \in Nat
<1>a. PICK a : a = First(S)
  OBVIOUS
<1>b. PICK b : b = Last(S)
  OBVIOUS
<1>1. CASE Counted(S, "engine")
  <2>1. /\ LocationOK(a) /\ LocationOK(b) /\ Carries(a) /\ Carries(b)
        /\ a.vehicle = v /\ b.vehicle = v
    BY <1>a, <1>b, FirstAndLast DEF Located
  <2>2. a.engine # None /\ b.engine # None /\ b.engine >= a.engine
    BY <1>1, <1>a, <1>b DEF Counted
  <2>3. a.time <= b.time
    <3>1. a \in S /\ b \in S /\ (a = b \/ Earlier(a, b))
      BY <1>a, <1>b, FirstAndLast
    <3>2. a.time \in Nat /\ b.time \in Nat
      BY <2>1 DEF LocationOK
    <3> QED  BY <3>1, <3>2 DEF Earlier
  <2>4. /\ a.idle \in Nat \cup {None} /\ b.idle \in Nat \cup {None}
        /\ a.engine \in Nat /\ b.engine \in Nat
    BY <2>1, <2>2 DEF LocationOK
  <2>5. a.idle = None \/ b.idle = None \/ a.idle <= b.idle
    <3> SUFFICES ASSUME a.idle # None, b.idle # None PROVE a.idle <= b.idle
      OBVIOUS
    <3>p. PICK p : p = a.packet
      OBVIOUS
    <3>q. PICK q : q = b.packet
      OBVIOUS
    <3>1. /\ p \in Packets /\ q \in Packets /\ p.vehicle = q.vehicle
          /\ p.time = a.time /\ q.time = b.time /\ p.engine = a.engine /\ q.engine = b.engine
          /\ p.idle = a.idle /\ q.idle = b.idle
      BY <2>1, <3>p, <3>q DEF Carries
    <3>2. p.time <= q.time /\ p.engine # None /\ q.engine # None /\ p.engine <= q.engine
      BY <2>2, <2>3, <2>4, <3>1
    <3>3. p.idle <= q.idle
      BY <3>1, <3>2 DEF CountersNeverReset
    <3> QED  BY <3>1, <3>3
  <2>6. Runtime(S, longest, slow).idle = IF b.idle = None THEN 0 ELSE b.idle - a.idle
    BY <1>1, <1>a, <1>b DEF Runtime, Gained
  <2>7. b.idle # None => b.idle - a.idle \in Nat
    BY <2>4, <2>5 DEF None
  <2> QED  BY <2>6, <2>7
<1>2. CASE ~Counted(S, "engine")
  <2>T. PICK T : T = Ran(S, longest, slow) \ {s \in Ran(S, longest, slow) : s[2].speed > slow}
    OBVIOUS
  <2>1. Runtime(S, longest, slow).idle = Minutes(T)
    BY <1>2, <2>T DEF Runtime
  <2>2. T \in SUBSET Steps(S)
    BY <2>T DEF Ran
  <2> QED  BY <2>1, <2>2, MinutesAreNat
<1> QED  BY <1>1, <1>2

LEMMA EcoDay ==
  ASSUME CountersNeverReset, Located(Drawn), \A l \in Drawn : Carries(l),
         NEW D, D \subseteq Assignments, NEW d, \A a \in D : Duty(a, d) # {}
  PROVE  DriverDay(D, d).eco \in Scores
<1>g. PICK g : g = [a \in D |-> Runtime(Duty(a, d), 29, 1)["idle"]]
  OBVIOUS
<1>1. ASSUME NEW a \in D PROVE g[a] \in Nat
  <2>S. PICK S : S = Duty(a, d)
    OBVIOUS
  <2>1. /\ S # {} /\ Located(S) /\ \A l \in S : l.vehicle = a.vehicle
        /\ \A l \in S : Carries(l)
    BY <2>S, DutyLocated DEF Duty, Drawn
  <2> QED  BY <1>g, <2>S, <2>1, IdleGrows
<1>2. HoursDriven(D, d, "idle") \in Nat
  <2>1. IsFiniteSet(D)
    BY DailyConstants, FS_Subset
  <2>2. SumFunctionOnSet(g, D) \in Nat
    BY <1>1, <2>1, SumType
  <2> QED  BY <1>g, <2>2 DEF HoursDriven
<1>e. PICK deducted : deducted = Deducted(D, d)
  OBVIOUS
<1>3. deducted \in Nat
  <2>1. HoursDriven(D, d, "idle") >= 0
    BY <1>2
  <2>2. Deducted(D, d) \in Int /\ (HoursDriven(D, d, "idle") >= 0 => Deducted(D, d) >= 0)
    BY DeductedIsInt
  <2>3. Deducted(D, d) \in Int /\ Deducted(D, d) >= 0
    BY ONLY <2>1, <2>2
  <2> QED  BY ONLY <1>e, <2>3
<1>4. DriverDay(D, d).eco = Larger(0, 10000 - deducted)
  BY <1>e, DriverScores
<1> QED  BY ONLY <1>3, <1>4, SMTT(30) DEF Larger, Scores

LEMMA DriversEco ==
  ASSUME CountersNeverReset, Located(Drawn), \A l \in Drawn : Carries(l),
         NEW t, ScoresOf(t), EcoScored(t), NEW r, r.date \in Days, NEW u, u = DriverStats(t, r)
  PROVE  EcoScored(u)
<1>d. PICK date : date = r.date
  OBVIOUS
<1> DEFINE E(k) == {a \in Assignments : a.driver = k /\ Duty(a, date) # {}}
<1>1. u.driver = [k \in Drivers |->
                    IF E(k) = {} THEN t.driver[k]
                    ELSE [t.driver[k] EXCEPT ![date] = DriverDay(E(k), date)]]
  BY <1>d DEF DriverStats, ScoresOf
<1>2. ASSUME NEW k \in Drivers, NEW d \in Days, u.driver[k][d] # NoRow
      PROVE  u.driver[k][d].eco \in Scores
  <2>D. PICK D : D = E(k)
    OBVIOUS
  <2>o. PICK old : old = t.driver[k]
    OBVIOUS
  <2>n. PICK new : new = DriverDay(D, date)
    OBVIOUS
  <2>1. u.driver[k] = IF D = {} THEN old ELSE [old EXCEPT ![date] = new]
    BY <1>1, <2>D, <2>o, <2>n
  <2>2. /\ old = [e \in Days |-> old[e]]
        /\ \A e \in Days : old[e] # NoRow => old[e].eco \in Scores
    BY <2>o DEF EcoScored, ScoresOf
  <2>3. new.eco \in Scores
    <3>1. D \subseteq Assignments /\ \A a \in D : Duty(a, date) # {}
      BY <2>D
    <3> QED  BY <2>n, <3>1, EcoDay
  <2>4. u.driver[k][d] = IF D # {} /\ d = date THEN new ELSE old[d]
    BY ONLY <2>1, <2>2, d \in Days
  <2> QED  BY <1>2, <2>2, <2>3, <2>4
<1> QED  BY <1>2 DEF EcoScored

LEMMA EcoStep ==
  ASSUME CountersNeverReset, DailyIInv, FiguresIInv, ScoresIInv, EcoIInv, [DailyNext]_dailyVars
  PROVE  EcoIInv'
<1>1. CASE \E p \in Packets : Flush(p)
  <2>1. PICK p \in Packets : Flush(p)
    BY <1>1
  <2>l. PICK l : l = [id |-> NextId, packet |-> p, vehicle |-> p.vehicle, time |-> p.time,
                      pos |-> p.pos, speed |-> p.speed, ign |-> p.ign, fuel |-> p.fuel,
                      odo |-> p.odo, meter |-> None, rpm |-> p.rpm, engine |-> p.engine,
                      driving |-> p.driving, idle |-> p.idle, alerts |-> p.alerts,
                      flags |-> p.flags]
    OBVIOUS
  <2>2. Drawn' = Drawn \cup {l} /\ UNCHANGED <<tables, run>>
    BY <2>1, <2>l DEF Flush, Drawn
  <2>3. Carries(l)
    BY <2>l DEF Carries
  <2> QED  BY <2>2, <2>3 DEF EcoIInv, EcoScored
<1>2. CASE (\E l \in pending : Store(l)) \/ UNCHANGED dailyVars
  <2>1. UNCHANGED <<tables, run>> /\ Drawn' = Drawn
    BY <1>2 DEF Store, dailyVars, Drawn
  <2> QED  BY <2>1 DEF EcoIInv, EcoScored
<1>3. CASE Begin
  <2>1. UNCHANGED tables /\ run'.draft = tables /\ Drawn' = Drawn
    BY <1>3 DEF Begin, Drawn
  <2> QED  BY <2>1 DEF EcoIInv, EcoScored
<1>4. CASE CommitRun
  <2>1. run # NoRun /\ tables' = run.draft /\ run' = NoRun /\ Drawn' = Drawn
    BY <1>4 DEF CommitRun, NoRun, Drawn
  <2> QED  BY <2>1 DEF EcoIInv, EcoScored
<1>5. CASE RollBack
  <2>1. UNCHANGED tables /\ run' = NoRun /\ Drawn' = Drawn
    BY <1>5 DEF RollBack, Drawn
  <2> QED  BY <2>1 DEF EcoIInv, EcoScored
<1>6. CASE \E p \in DOMAIN Stage : Process(p)
  <2>p. PICK p \in DOMAIN Stage : Process(p)
    BY <1>6
  <2>t. PICK t : t = run.draft
    OBVIOUS
  <2>1. run # NoRun /\ UNCHANGED tables /\ Drawn' = Drawn
    BY <2>p DEF Process, NoRun, Drawn
  <2>2. /\ RunOK /\ EcoScored(t) /\ ScoresOf(t) /\ run.date \in Days
        /\ Located(Drawn) /\ \A l \in Drawn : Carries(l)
    BY <2>1, <2>t DEF DailyIInv, RunOK, EcoIInv, ScoresIInv, Scored, FiguresIInv, IdsDrawn, Located
  <2>3. PICK u \in CASE p = "vehicle"     -> {VehicleStats(run.draft, run)}
                     [] p = "driver"      -> {DriverStats(run.draft, run)}
                     [] p = "maintenance" -> {Maintenance(run.draft, run)}
                     [] p = "fleet"       -> {FleetStats(run.draft, run)}
                     [] OTHER -> {FleetOperations(run.draft, now) : now \in Clock} :
          run' = [run EXCEPT !.todo = @ \ {p}, !.draft = u]
    BY <2>p DEF Process
  <2>4. \/ u = DriverStats(t, run)
        \/ u = VehicleStats(t, run) \/ u = Maintenance(t, run) \/ u = FleetStats(t, run)
        \/ \E now \in Clock : u = FleetOperations(t, now)
    <3>1. p \in {"vehicle", "driver", "maintenance", "fleet", "operations"}
      BY DEF Stage
    <3> QED  BY <2>3, <2>t, <3>1
  <2>5. ASSUME u # DriverStats(t, run) PROVE u.driver = t.driver
    BY <2>2, <2>4, <2>5 DEF ScoresOf, VehicleStats, Maintenance, FleetStats, FleetOperations
  <2>6. EcoScored(u)
    <3>1. CASE u = DriverStats(t, run)
      BY <2>2, <3>1, DriversEco
    <3>2. CASE u # DriverStats(t, run)
      BY <2>2, <2>5, <3>2 DEF EcoScored
    <3> QED  BY <3>1, <3>2
  <2>7. run'.draft = u
    BY <2>2, <2>3 DEF RunOK
  <2> QED  BY <2>1, <2>2, <2>6, <2>7 DEF EcoIInv, EcoScored
<1> QED  BY <1>1, <1>2, <1>3, <1>4, <1>5, <1>6 DEF DailyNext

(***************************************************************************)
(* If the counters of the devices never start again, the eco score that a  *)
(* report shows for a period is one out of 100: the reset is all that can  *)
(* drive it out of its scale.                                              *)
(***************************************************************************)
THEOREM EcoScoreWithoutResets ==
  ASSUME CountersNeverReset
  PROVE  DailySpec => []EcoOutOfHundred
<1>1. DailyInit => EcoIInv
  <2> SUFFICES ASSUME DailyInit PROVE EcoIInv
    OBVIOUS
  <2>1. Drawn = {} /\ run = NoRun
    BY DEF DailyInit, Drawn
  <2>2. tables.driver = [k \in Drivers |-> [d \in Days |-> NoRow]]
    BY DEF DailyInit, NoTables
  <2> QED  BY <2>1, <2>2 DEF EcoIInv, EcoScored
<1>2. ASSUME EcoIInv PROVE EcoOutOfHundred
  <2>1. ASSUME NEW k \in Drivers, NEW from \in Days, NEW to \in Days
        PROVE  DriverPerformance(k, from, to).eco \in Scores
    <3>1. \A d \in Days : tables.driver[k][d] # NoRow => tables.driver[k][d].eco \in Scores
      BY <1>2 DEF EcoIInv, EcoScored
    <3> QED  BY <3>1, DriverAverages
  <2> QED  BY <2>1 DEF EcoOutOfHundred
<1>3. ASSUME DailyIInv, FiguresIInv, ScoresIInv, EcoIInv, [DailyNext]_dailyVars PROVE EcoIInv'
  BY <1>3, EcoStep
<1> QED  BY <1>1, <1>2, <1>3, FiguresInit, FiguresStep, ScoresInit, ScoresStep, DailyInvariant,
            PTL DEF DailySpec

-----------------------------------------------------------------------------
(***************************************************************************)
(* A kilometre is nobody's twice.  Three hypotheses: a device sends its    *)
(* odometer always or never on a day and it does not start again, a        *)
(* vehicle is in one place at a time, and it has one driver at a time      *)
(* (what DutiesStayDisjoint of AssignmentsProofs proves of the assignments *)
(* themselves).  The mark of a location is its odometer, or its position   *)
(* where the device has none; the trail of a set of locations is what      *)
(* their marks move from one to the next.  What a driver is credited with  *)
(* for a duty is at most the trail of the duty; the duties of a vehicle    *)
(* share no step of its day but one at the instant of the handover, which  *)
(* has no length; so the trails of its duties add up to at most the trail  *)
(* of its day, and neither shrinks when a location is stored.              *)
(***************************************************************************)
Mark(l) == IF l.odo # None THEN l.odo ELSE l.pos

\* What a step between two locations adds to a trail.
Gap(x, y) == Span(Mark(x), Mark(y))

Trail(S) == Total(LAMBDA s : Gap(s[1], s[2]), Steps(S))

OdometersRunOn ==
  \A p, q \in Packets :
    /\ p.vehicle = q.vehicle /\ DayOf(p) = DayOf(q) /\ p.time <= q.time
    => (p.odo = None <=> q.odo = None) /\ p.odo <= q.odo

OnePlaceAtATime ==
  \A p, q \in Packets : p.vehicle = q.vehicle /\ p.time = q.time => p.pos = q.pos

OneDriverAtATime ==
  \A a, b \in Assignments :
    a # b /\ a.vehicle = b.vehicle
    => \/ a.to # None /\ a.to <= b.from
       \/ b.to # None /\ b.to <= a.from

\* A part of a sum of naturals is at most the sum, and values that are at most
\* others add up to at most as much.
LEMMA SumPart ==
  ASSUME NEW S, IsFiniteSet(S), NEW g, \A x \in S : g[x] \in Nat, NEW T \in SUBSET S
  PROVE  SumFunctionOnSet(g, T) <= SumFunctionOnSet(g, S)
<1>h. PICK h : h = [x \in S |-> IF x \in T THEN g[x] ELSE 0]
  OBVIOUS
<1>k. PICK k : k = [x \in S |-> IF x \in T THEN 0 ELSE g[x]]
  OBVIOUS
<1>1. IsFiniteSet(T)
  BY FS_Subset
<1>2. \A x \in S : h[x] \in Int /\ k[x] \in Int /\ k[x] \in Nat /\ g[x] = h[x] + k[x]
  BY <1>h, <1>k
<1>3. SumFunctionOnSet(g, S) = SumFunctionOnSet(h, S) + SumFunctionOnSet(k, S)
  BY <1>2, SumPlus
<1>4. SumFunctionOnSet(h, S) = SumFunctionOnSet(h, T)
  <2>1. \A x \in S \ T : h[x] = 0
    BY <1>h
  <2> QED  BY <1>2, <2>1, SumZeros
<1>5. SumFunctionOnSet(h, T) = SumFunctionOnSet(g, T)
  <2>1. \A x \in T : h[x] = g[x]
    BY <1>h
  <2> QED  BY <1>1, <2>1, SumSame
<1>6. SumFunctionOnSet(k, S) \in Nat /\ SumFunctionOnSet(g, T) \in Nat
  <2>1. \A x \in T : g[x] \in Nat
    OBVIOUS
  <2>2. \A x \in S : k[x] \in Nat
    BY <1>2
  <2>3. SumFunctionOnSet(k, S) \in Nat
    BY <2>2, SumType
  <2>4. SumFunctionOnSet(g, T) \in Nat
    BY <1>1, <2>1, SumType
  <2> QED  BY <2>3, <2>4
<1> QED  BY ONLY <1>3, <1>4, <1>5, <1>6

LEMMA SumAtMost ==
  ASSUME NEW S, IsFiniteSet(S), NEW g, NEW h,
         \A x \in S : g[x] \in Int /\ h[x] \in Int /\ g[x] <= h[x]
  PROVE  SumFunctionOnSet(g, S) <= SumFunctionOnSet(h, S)
<1>k. PICK k : k = [x \in S |-> h[x] - g[x]]
  OBVIOUS
<1>1. \A x \in S : g[x] \in Int /\ k[x] \in Int /\ k[x] \in Nat /\ h[x] = g[x] + k[x]
  BY <1>k
<1>2. SumFunctionOnSet(h, S) = SumFunctionOnSet(g, S) + SumFunctionOnSet(k, S)
  BY <1>1, SumPlus
<1>3. SumFunctionOnSet(k, S) \in Nat
  <2>1. \A x \in S : k[x] \in Nat
    BY <1>1
  <2> QED  BY <2>1, SumType
<1>4. SumFunctionOnSet(g, S) \in Int
  <2>1. \A x \in S : g[x] \in Int
    OBVIOUS
  <2> QED  BY <2>1, SumType
<1> QED  BY ONLY <1>2, <1>3, <1>4

\* A sum of which one member counts.
LEMMA SumOne ==
  ASSUME NEW S, IsFiniteSet(S), NEW g, NEW x \in S, g[x] \in Int,
         \A y \in S \ {x} : g[y] = 0
  PROVE  SumFunctionOnSet(g, S) = g[x]
<1>1. \A y \in S : g[y] \in Int
  OBVIOUS
<1>2. SumFunctionOnSet(g, S) = SumFunctionOnSet(g, {x})
  BY <1>1, SumZeros
<1>3. SumFunctionOnSet(g, {x}) = g[x] + SumFunctionOnSet(g, {x} \ {x})
  <2>1. IsFiniteSet({x})
    BY FS_Singleton
  <2> QED  BY <2>1, SumElement
<1>4. {x} \ {x} = {}
  OBVIOUS
<1>5. SumFunctionOnSet(g, {x} \ {x}) = 0
  BY <1>4, SumEmpty
<1> QED  BY ONLY <1>2, <1>3, <1>5, g[x] \in Int

\* A sum of zeros.
LEMMA SumNone ==
  ASSUME NEW S, IsFiniteSet(S), NEW g, \A y \in S : g[y] = 0
  PROVE  SumFunctionOnSet(g, S) = 0
<1>1. SumFunctionOnSet(g, S) = SumFunctionOnSet(g, {})
  <2>1. {} \in SUBSET S /\ \A y \in S : g[y] \in Int
    OBVIOUS
  <2> QED  BY <2>1, SumZeros
<1> QED  BY <1>1, SumEmpty

\* The sums over the classes of the members of S.
LEMMA SumOfClasses ==
  ASSUME NEW S, IsFiniteSet(S), NEW C, IsFiniteSet(C), NEW g, NEW f,
         \A x \in S : g[x] \in Nat
  PROVE  LET sums == [c \in C |-> SumFunctionOnSet(g, {x \in S : f[x] = c})]
         IN  /\ SumFunctionOnSet(sums, C) <= SumFunctionOnSet(g, S)
             /\ (\A x \in S : f[x] \in C \/ g[x] = 0)
                  => SumFunctionOnSet(sums, C) = SumFunctionOnSet(g, S)
<1>s. PICK sums : sums = [c \in C |-> SumFunctionOnSet(g, {x \in S : f[x] = c})]
  OBVIOUS
<1>m. PICK m : m = [c \in C |-> [x \in S |-> IF f[x] = c THEN g[x] ELSE 0]]
  OBVIOUS
<1>h. PICK h : h = [x \in S |-> SumFunctionOnSet([c \in C |-> m[c][x]], C)]
  OBVIOUS
<1>1. SumFunctionOnSet([c \in C |-> SumFunctionOnSet(m[c], S)], C) = SumFunctionOnSet(h, S)
  <2>1. \A c \in C, x \in S : m[c][x] \in Int
    BY <1>m
  <2> QED  BY <1>h, <2>1, SumSwap
<1>2. ASSUME NEW c \in C PROVE SumFunctionOnSet(m[c], S) = sums[c]
  <2>T. PICK T : T = {x \in S : f[x] = c}
    OBVIOUS
  <2>1. \A x \in S : m[c][x] \in Int /\ (x \in T => m[c][x] = g[x]) /\ (x \notin T => m[c][x] = 0)
    BY <1>m, <2>T
  <2>2. T \in SUBSET S /\ IsFiniteSet(T)
    BY <2>T, FS_Subset
  <2>3. SumFunctionOnSet(m[c], S) = SumFunctionOnSet(m[c], T)
    BY <2>1, <2>2, SumZeros
  <2>4. SumFunctionOnSet(m[c], T) = SumFunctionOnSet(g, T)
    BY <2>1, <2>2, SumSame
  <2> QED  BY <1>s, <2>T, <2>3, <2>4
<1>3. SumFunctionOnSet(sums, C) = SumFunctionOnSet(h, S)
  <2>r. PICK r : r = [c \in C |-> SumFunctionOnSet(m[c], S)]
    OBVIOUS
  <2>1. \A c \in C : sums[c] = r[c]
    BY <1>2, <2>r
  <2>2. SumFunctionOnSet(sums, C) = SumFunctionOnSet(r, C)
    BY <2>1, SumSame
  <2> QED  BY <1>1, <2>r, <2>2
<1>4. ASSUME NEW x \in S PROVE h[x] = IF f[x] \in C THEN g[x] ELSE 0
  <2>w. PICK w : w = [c \in C |-> m[c][x]]
    OBVIOUS
  <2>1. \A c \in C : w[c] = IF f[x] = c THEN g[x] ELSE 0
    BY <1>m, <2>w
  <2>2. h[x] = SumFunctionOnSet(w, C)
    BY <1>h, <2>w
  <2>3. CASE f[x] \in C
    <3>y. PICK y : y = f[x]
      OBVIOUS
    <3>1. y \in C /\ w[y] = g[x] /\ w[y] \in Int /\ \A c \in C \ {y} : w[c] = 0
      BY <2>1, <2>3, <3>y
    <3>2. SumFunctionOnSet(w, C) = w[y]
      BY <3>1, SumOne
    <3> QED  BY <2>2, <2>3, <3>1, <3>2
  <2>4. CASE f[x] \notin C
    <3>1. \A c \in C : w[c] = 0
      BY <2>1, <2>4
    <3> QED  BY <2>2, <2>4, <3>1, SumNone
  <2> QED  BY <2>3, <2>4
<1>5. SumFunctionOnSet(h, S) <= SumFunctionOnSet(g, S)
  <2>1. \A x \in S : h[x] \in Int /\ g[x] \in Int /\ h[x] <= g[x]
    BY <1>4
  <2> QED  BY <2>1, SumAtMost
<1>6. ASSUME \A x \in S : f[x] \in C \/ g[x] = 0
      PROVE  SumFunctionOnSet(h, S) = SumFunctionOnSet(g, S)
  <2>1. \A x \in S : h[x] = g[x]
    BY <1>4, <1>6
  <2> QED  BY <2>1, SumSame
<1> QED  BY <1>3, <1>5, <1>6, <1>s

\* The marks of locations.
LEMMA MarkIsInt == ASSUME NEW l, LocationOK(l) PROVE Mark(l) \in Int
BY DEF LocationOK, Mark, None

LEMMA GapIsNat == ASSUME NEW x, NEW y, LocationOK(x), LocationOK(y) PROVE Gap(x, y) \in Nat
<1>1. Mark(x) \in Int /\ Mark(y) \in Int
  BY MarkIsInt
<1> QED  BY <1>1 DEF Gap, Span, Larger

LEMMA GapOfDetour ==
  ASSUME NEW x, NEW y, NEW z, LocationOK(x), LocationOK(y), LocationOK(z)
  PROVE  Gap(x, z) <= Gap(x, y) + Gap(y, z)
<1>1. Mark(x) \in Int /\ Mark(y) \in Int /\ Mark(z) \in Int
  BY MarkIsInt
<1>m. PICK a, b, c : a = Mark(x) /\ b = Mark(y) /\ c = Mark(z)
  OBVIOUS
<1> QED  BY <1>1, <1>m DEF Gap, Span, Larger

\* A trail is the sum of its gaps.
LEMMA TrailAddsGaps ==
  ASSUME NEW S, Located(S), NEW g, g = [s \in Steps(S) |-> Gap(s[1], s[2])]
  PROVE  /\ Trail(S) = SumFunctionOnSet(g, Steps(S))
         /\ \A s \in Steps(S) : g[s] \in Nat
<1>1. Trail(S) = SumFunctionOnSet(g, Steps(S))
  BY DEF Trail, Total, SumFunction
<1>2. ASSUME NEW s \in Steps(S) PROVE g[s] \in Nat
  <2>1. LocationOK(s[1]) /\ LocationOK(s[2])
    BY StepsFollow DEF Located
  <2> QED  BY <2>1, GapIsNat
<1> QED  BY <1>1, <1>2

LEMMA TrailIsNat == ASSUME NEW S, Located(S) PROVE Trail(S) \in Nat
<1>g. PICK g : g = [s \in Steps(S) |-> Gap(s[1], s[2])]
  OBVIOUS
<1>1. Trail(S) = SumFunctionOnSet(g, Steps(S)) /\ \A s \in Steps(S) : g[s] \in Nat
  BY <1>g, TrailAddsGaps
<1> QED  BY <1>1, StepsFollow, SumType

\* The gaps of some steps are at most the trail.
LEMMA TrailOfSteps ==
  ASSUME NEW S, Located(S), NEW T \in SUBSET Steps(S)
  PROVE  SumFunctionOnSet([s \in T |-> Gap(s[1], s[2])], T) <= Trail(S)
<1>g. PICK g : g = [s \in Steps(S) |-> Gap(s[1], s[2])]
  OBVIOUS
<1>h. PICK h : h = [s \in T |-> Gap(s[1], s[2])]
  OBVIOUS
<1>1. IsFiniteSet(Steps(S)) /\ IsFiniteSet(T)
  BY StepsFollow, FS_Subset
<1>2. Trail(S) = SumFunctionOnSet(g, Steps(S)) /\ \A s \in Steps(S) : g[s] \in Nat
  BY <1>g, TrailAddsGaps
<1>3. SumFunctionOnSet(g, T) <= SumFunctionOnSet(g, Steps(S))
  BY <1>1, <1>2, SumPart
<1>4. SumFunctionOnSet(g, T) = SumFunctionOnSet(h, T)
  <2>1. \A s \in T : g[s] = h[s]
    BY <1>g, <1>h
  <2> QED  BY <1>1, <2>1, SumSame
<1> QED  BY <1>2, <1>3, <1>4, <1>h

\* A location between two others, or beyond them, makes no trail shorter.
LEMMA OneMoreLocation ==
  ASSUME NEW T, Located(T), NEW l \in T
  PROVE  Trail(T \ {l}) <= Trail(T)
<1>S. PICK S : S = T \ {l}
  OBVIOUS
<1>1. Located(S) /\ S \subseteq T /\ l \notin S
  BY <1>S, SubsetLocated
<1>o. /\ \A a, b \in T : a = b \/ Earlier(a, b) \/ Earlier(b, a)
      /\ \A a, b, c \in T : Earlier(a, b) /\ Earlier(b, c) => Earlier(a, c)
      /\ \A a, b \in T : ~(Earlier(a, b) /\ Earlier(b, a))
  BY EarlierOrders
<1>g. PICK g : g = [s \in Steps(S) |-> Gap(s[1], s[2])]
  OBVIOUS
<1>2. Trail(S) = SumFunctionOnSet(g, Steps(S)) /\ \A s \in Steps(S) : g[s] \in Nat
  BY <1>1, <1>g, TrailAddsGaps
<1>3. IsFiniteSet(Steps(S))
  BY <1>1, StepsFollow
\* The step that l divides, if there is one.
<1>4. CASE \E s \in Steps(S) : Earlier(s[1], l) /\ Earlier(l, s[2])
  <2>s. PICK s \in Steps(S) : Earlier(s[1], l) /\ Earlier(l, s[2])
    BY <1>4
  <2>x. PICK x, y : x = s[1] /\ y = s[2]
    OBVIOUS
  <2>1. /\ s = <<x, y>> /\ x \in S /\ y \in S /\ Earlier(x, y) /\ x # l /\ y # l
        /\ Earlier(x, l) /\ Earlier(l, y)
        /\ ~\E c \in S : Earlier(x, c) /\ Earlier(c, y)
    BY <1>1, <2>s, <2>x DEF Steps
  <2>2. <<x, l>> \in Steps(T) /\ <<l, y>> \in Steps(T)
    <3>1. ~\E c \in T : Earlier(x, c) /\ Earlier(c, l)
      <4> SUFFICES ASSUME NEW c \in T, Earlier(x, c), Earlier(c, l) PROVE FALSE
        OBVIOUS
      <4>1. c # l /\ c \in S
        BY <1>S, <1>o
      <4>2. Earlier(c, y)
        BY <1>1, <1>o, <2>1
      <4> QED  BY <2>1, <4>1, <4>2
    <3>2. ~\E c \in T : Earlier(l, c) /\ Earlier(c, y)
      <4> SUFFICES ASSUME NEW c \in T, Earlier(l, c), Earlier(c, y) PROVE FALSE
        OBVIOUS
      <4>1. c # l /\ c \in S
        BY <1>S, <1>o
      <4>2. Earlier(x, c)
        BY <1>1, <1>o, <2>1
      <4> QED  BY <2>1, <4>1, <4>2
    <3>3. x \in T /\ y \in T
      BY <1>1, <2>1
    <3> QED  BY <2>1, <3>1, <3>2, <3>3 DEF Steps
  <2>3. \A c \in Steps(S) \ {s} : c \in Steps(T)
    <3> SUFFICES ASSUME NEW c \in Steps(S), c # s PROVE c \in Steps(T)
      OBVIOUS
    <3>1. /\ c = <<c[1], c[2]>> /\ c[1] \in S /\ c[2] \in S /\ Earlier(c[1], c[2])
          /\ ~\E e \in S : Earlier(c[1], e) /\ Earlier(e, c[2])
      BY DEF Steps
    <3>p. PICK p, q : p = c[1] /\ q = c[2]
      OBVIOUS
    <3>2. ~(Earlier(p, l) /\ Earlier(l, q))
      <4> SUFFICES ASSUME Earlier(p, l), Earlier(l, q) PROVE FALSE
        OBVIOUS
      <4>0. p \in T /\ q \in T /\ x \in T /\ y \in T /\ p \in S /\ q \in S
        BY <1>1, <2>1, <3>1, <3>p
      <4>1. p = x
        <5>1. ~Earlier(x, p)
          <6>1. Earlier(x, p) => Earlier(p, y)
            BY <1>o, <2>1, <4>0
          <6> QED  BY <2>1, <4>0, <6>1
        <5>2. ~Earlier(p, x)
          <6>1. Earlier(p, x) => Earlier(x, q)
            BY <1>o, <2>1, <4>0
          <6> QED  BY <2>1, <3>1, <3>p, <6>1
        <5> QED  BY <1>o, <4>0, <5>1, <5>2
      <4>2. q = y
        <5>1. ~Earlier(q, y)
          <6>1. Earlier(q, y) => Earlier(x, q)
            BY <1>o, <2>1, <4>0
          <6> QED  BY <2>1, <4>0, <6>1
        <5>2. ~Earlier(y, q)
          <6>1. Earlier(y, q) => Earlier(p, y)
            BY <1>o, <2>1, <4>0
          <6> QED  BY <2>1, <3>1, <3>p, <6>1
        <5> QED  BY <1>o, <4>0, <5>1, <5>2
      <4> QED  BY <2>1, <3>1, <3>p, <4>1, <4>2
    <3>3. ~\E e \in T : Earlier(p, e) /\ Earlier(e, q)
      BY <1>S, <3>1, <3>2, <3>p
    <3>4. p \in T /\ q \in T /\ Earlier(p, q) /\ c = <<p, q>>
      BY <1>1, <3>1, <3>p
    <3> QED  BY <3>3, <3>4 DEF Steps
  <2>R. PICK R : R = Steps(S) \ {s}
    OBVIOUS
  <2>i. PICK i, j : i = <<x, l>> /\ j = <<l, y>>
    OBVIOUS
  <2>U. PICK U : U = R \cup {i, j}
    OBVIOUS
  <2>h. PICK h : h = [u \in U |-> Gap(u[1], u[2])]
    OBVIOUS
  <2>4. U \in SUBSET Steps(T) /\ IsFiniteSet(U) /\ IsFiniteSet(R)
    <3>1. U \subseteq Steps(T)
      BY <2>2, <2>3, <2>R, <2>U, <2>i
    <3>2. IsFiniteSet(Steps(T))
      BY StepsFollow
    <3> QED  BY <1>3, <2>R, <3>1, <3>2, FS_Subset
  <2>5. SumFunctionOnSet(h, U) <= Trail(T)
    BY <2>4, <2>h, TrailOfSteps
  <2>6. /\ \A u \in U : h[u] \in Nat
        /\ h[i] = Gap(x, l) /\ h[j] = Gap(l, y)
        /\ g[s] = Gap(x, y)
        /\ \A u \in R : h[u] = g[u]
    <3>1. \A u \in U : h[u] \in Nat
      <4>1. ASSUME NEW u \in U PROVE h[u] \in Nat
        <5>1. LocationOK(u[1]) /\ LocationOK(u[2])
          <6>1. u[1] \in T /\ u[2] \in T
            BY <2>4, StepsFollow
          <6> QED  BY <6>1 DEF Located
        <5>2. h[u] = Gap(u[1], u[2])
          BY <2>h
        <5> QED  BY <5>1, <5>2, GapIsNat
      <4> QED  BY <4>1
    <3>2. h[i] = Gap(x, l) /\ h[j] = Gap(l, y)
      BY <2>U, <2>h, <2>i
    <3>3. g[s] = Gap(x, y)
      BY <1>g, <2>x
    <3>4. \A u \in R : h[u] = g[u]
      BY <1>g, <2>R, <2>U, <2>h
    <3> QED  BY <3>1, <3>2, <3>3, <3>4
  <2>7. i \notin R /\ j \notin R /\ i # j
    <3>1. \A u \in R : u[1] \in S /\ u[2] \in S
      BY <2>R DEF Steps
    <3>2. i[2] = l /\ j[1] = l /\ i[1] = x
      BY <2>i
    <3> QED  BY <1>1, <2>1, <3>1, <3>2
  <2>8. SumFunctionOnSet(h, U) = h[i] + (h[j] + SumFunctionOnSet(h, R))
    <3>V. PICK V : V = R \cup {j}
      OBVIOUS
    <3>1. U \ {i} = V /\ V \ {j} = R /\ i \in U /\ j \in V
      BY <2>7, <2>U, <3>V
    <3>2. IsFiniteSet(V) /\ \A u \in V : h[u] \in Int
      BY <2>4, <2>6, <3>1, FS_Subset
    <3>3. SumFunctionOnSet(h, U) = h[i] + SumFunctionOnSet(h, U \ {i})
      <4>1. \A u \in U : h[u] \in Int
        BY <2>6
      <4> QED  BY <2>4, <3>1, <4>1, SumElement
    <3>4. SumFunctionOnSet(h, V) = h[j] + SumFunctionOnSet(h, V \ {j})
      BY <3>1, <3>2, SumElement
    <3> QED  BY <3>1, <3>3, <3>4
  <2>9. SumFunctionOnSet(h, R) = SumFunctionOnSet(g, R)
    BY <2>4, <2>6, SumSame
  <2>10. Trail(S) = g[s] + SumFunctionOnSet(g, R)
    <3>1. \A u \in Steps(S) : g[u] \in Int
      BY <1>2
    <3> QED  BY <1>2, <1>3, <2>R, <3>1, SumElement
  <2>11. Gap(x, y) <= Gap(x, l) + Gap(l, y) /\ Gap(x, y) \in Nat /\ Gap(x, l) \in Nat /\ Gap(l, y) \in Nat
    <3>1. LocationOK(x) /\ LocationOK(y) /\ LocationOK(l)
      BY <1>1, <2>1 DEF Located
    <3> QED  BY <3>1, GapIsNat, GapOfDetour
  <2>12. SumFunctionOnSet(g, R) \in Nat
    <3>1. \A u \in R : g[u] \in Nat
      BY <1>2, <2>R
    <3> QED  BY <2>4, <3>1, SumType
  <2>z. PICK m, n, o, p, q : /\ m = SumFunctionOnSet(g, R) /\ n = Gap(x, y) /\ o = Gap(x, l)
                             /\ p = Gap(l, y) /\ q = SumFunctionOnSet(h, U)
    OBVIOUS
  <2>13. Trail(S) = n + m /\ q = o + (p + m)
    BY <2>6, <2>8, <2>9, <2>10, <2>z
  <2>14. m \in Nat /\ n \in Nat /\ o \in Nat /\ p \in Nat /\ n <= o + p
    BY <2>11, <2>12, <2>z
  <2>15. Trail(T) \in Nat /\ q <= Trail(T)
    BY <2>5, <2>z, TrailIsNat
  <2> QED  BY ONLY <1>S, <2>13, <2>14, <2>15
<1>5. CASE ~\E s \in Steps(S) : Earlier(s[1], l) /\ Earlier(l, s[2])
  <2>1. \A s \in Steps(S) : s \in Steps(T)
    <3> SUFFICES ASSUME NEW s \in Steps(S) PROVE s \in Steps(T)
      OBVIOUS
    <3>1. /\ s = <<s[1], s[2]>> /\ s[1] \in S /\ s[2] \in S /\ Earlier(s[1], s[2])
          /\ ~\E e \in S : Earlier(s[1], e) /\ Earlier(e, s[2])
      BY DEF Steps
    <3>2. ~\E e \in T : Earlier(s[1], e) /\ Earlier(e, s[2])
      BY <1>S, <1>5, <3>1
    <3> QED  BY <1>1, <3>1, <3>2 DEF Steps
  <2>2. SumFunctionOnSet(g, Steps(S)) <= Trail(T)
    BY <1>g, <2>1, TrailOfSteps
  <2> QED  BY <1>S, <1>2, <2>2
<1> QED  BY <1>4, <1>5

\* Some of the locations of a trail make no longer trail.
LEMMA TrailGrows ==
  ASSUME NEW T, Located(T), NEW S \in SUBSET T
  PROVE  Trail(S) <= Trail(T)
<1>b. PICK Bad : Bad = {R \in SUBSET T : ~(Trail(T \ R) <= Trail(T))}
  OBVIOUS
<1>1. ASSUME Bad # {} PROVE FALSE
  <2>1. IsFiniteSet(T) /\ Bad \subseteq SUBSET T
    BY <1>b DEF Located
  <2>2. PICK R \in Bad : \A x \in R : R \ {x} \notin Bad
    BY ONLY <1>1, <2>1, NoLeastCounterexample
  <2>3. R \in SUBSET T /\ ~(Trail(T \ R) <= Trail(T))
    BY <1>b, <2>2
  <2>4. CASE R = {}
    <3>1. T \ R = T /\ Trail(T) \in Nat
      BY <2>4, TrailIsNat
    <3> QED  BY <2>3, <3>1
  <2>5. CASE R # {}
    <3>x. PICK x \in R : TRUE
      BY <2>5
    <3>Q. PICK Q : Q = R \ {x}
      OBVIOUS
    <3>1. Trail(T \ Q) <= Trail(T)
      BY <1>b, <2>2, <2>3, <3>Q
    <3>2. x \in T \ Q /\ T \ R = (T \ Q) \ {x} /\ Located(T \ Q)
      BY <2>3, <3>Q, SubsetLocated
    <3>3. Trail(T \ R) <= Trail(T \ Q)
      BY <3>2, OneMoreLocation
    <3>4. Trail(T) \in Nat /\ Trail(T \ Q) \in Nat /\ Trail(T \ R) \in Nat
      <4>1. Located(T \ R)
        BY SubsetLocated
      <4> QED  BY <3>2, <4>1, TrailIsNat
    <3> QED  BY <2>3, <3>1, <3>3, <3>4
  <2> QED  BY <2>4, <2>5
<1>2. T \ (T \ S) = S /\ T \ S \in SUBSET T
  OBVIOUS
<1> QED  BY <1>b, <1>1, <1>2

\* A trail is at least as long as its ends are apart.
LEMMA TrailSpansEnds ==
  ASSUME NEW S, Located(S), S # {}
  PROVE  Gap(First(S), Last(S)) <= Trail(S)
<1>a. PICK a, b : a = First(S) /\ b = Last(S)
  OBVIOUS
<1>1. /\ a \in S /\ b \in S /\ Mark(a) \in Int /\ Mark(b) \in Int /\ Gap(a, b) \in Nat
      /\ (a = b \/ Earlier(a, b)) /\ Trail(S) \in Nat
  <2>1. a \in S /\ b \in S /\ (a = b \/ Earlier(a, b)) /\ LocationOK(a) /\ LocationOK(b)
    BY <1>a, FirstAndLast DEF Located
  <2> QED  BY <2>1, MarkIsInt, GapIsNat, TrailIsNat
<1>2. CASE a = b
  <2>1. Gap(a, b) = 0
    BY <1>1, <1>2 DEF Gap, Span, Larger
  <2> QED  BY <1>a, <1>1, <2>1
<1>3. CASE a # b
  <2>1. {a, b} \in SUBSET S /\ Located({a, b}) /\ Earlier(a, b)
    BY <1>1, <1>3, SubsetLocated
  <2>2. <<a, b>> \in Steps({a, b})
    <3>1. \A e \in {a, b} : ~(Earlier(a, e) /\ Earlier(e, b))
      BY <2>1, EarlierOrders
    <3> QED  BY <2>1, <3>1 DEF Steps
  <2>s. PICK s : s = <<a, b>>
    OBVIOUS
  <2>h. PICK h : h = [t \in {s} |-> Gap(t[1], t[2])]
    OBVIOUS
  <2>3. h[s] = Gap(a, b) /\ h[s] \in Int
    BY <1>1, <2>s, <2>h
  <2>4. SumFunctionOnSet(h, {s}) = h[s]
    BY <2>3, FS_Singleton, SumOne
  <2>5. SumFunctionOnSet(h, {s}) <= Trail({a, b})
    BY <2>1, <2>2, <2>s, <2>h, TrailOfSteps
  <2>6. Trail({a, b}) <= Trail(S) /\ Trail({a, b}) \in Nat
    BY <2>1, TrailGrows, TrailIsNat
  <2> QED  BY <1>a, <1>1, <2>3, <2>4, <2>5, <2>6
<1> QED  BY <1>2, <1>3

\* A location tells what was received.
Tells(l) ==
  /\ l.packet \in Packets
  /\ l.vehicle = l.packet.vehicle /\ l.time = l.packet.time
  /\ l.pos = l.packet.pos /\ l.odo = l.packet.odo

\* Two locations of a vehicle and a day carry an odometer both or neither, and
\* it does not run back.
LEMMA OdometerRunsOn ==
  ASSUME OdometersRunOn, NEW a, NEW b, LocationOK(a), LocationOK(b), Tells(a), Tells(b),
         a.vehicle = b.vehicle, DayOf(a) = DayOf(b), a.time <= b.time
  PROVE  (a.odo = None <=> b.odo = None) /\ a.odo <= b.odo
<1>p. PICK p, q : p = a.packet /\ q = b.packet
  OBVIOUS
<1>1. /\ p \in Packets /\ q \in Packets /\ p.vehicle = q.vehicle /\ p.time <= q.time
      /\ p.odo = a.odo /\ q.odo = b.odo
  BY <1>p DEF Tells
<1>2. DayOf(p) = DayOf(q)
  BY <1>p DEF Tells, DayOf
<1> QED  BY <1>1, <1>2 DEF OdometersRunOn

\* Without odometers the trail is the path.
LEMMA TrailOfPositions ==
  ASSUME NEW S, Located(S), \A l \in S : l.odo = None
  PROVE  Trail(S) = Path(S)
<1>g. PICK g : g = [s \in Steps(S) |-> Gap(s[1], s[2])]
  OBVIOUS
<1>h. PICK h : h = [s \in Steps(S) |-> Larger(s[1].pos - s[2].pos, s[2].pos - s[1].pos)]
  OBVIOUS
<1>1. Trail(S) = SumFunctionOnSet(g, Steps(S))
  BY <1>g, TrailAddsGaps
<1>2. Path(S) = SumFunctionOnSet(h, Steps(S))
  BY <1>h DEF Path, Total, SumFunction
<1>3. ASSUME NEW s \in Steps(S) PROVE g[s] = h[s]
  <2>1. s[1].odo = None /\ s[2].odo = None
    BY StepsFollow
  <2> QED  BY <1>g, <1>h, <2>1 DEF Gap, Mark, Span
<1> QED  BY <1>1, <1>2, <1>3, StepsFollow, SumSame

\* A distance is at most the trail, also when the odometer tells it.
LEMMA DistanceIsDriven ==
  ASSUME OdometersRunOn, NEW S, Located(S), S # {}, \A l \in S : Tells(l),
         NEW v, NEW d, \A l \in S : l.vehicle = v /\ DayOf(l) = d
  PROVE  Distance(S, "odo") <= Trail(S)
<1>a. PICK a, b : a = First(S) /\ b = Last(S)
  OBVIOUS
<1>0. Trail(S) \in Nat
  BY TrailIsNat
<1>1. /\ a \in S /\ b \in S /\ LocationOK(a) /\ LocationOK(b) /\ Tells(a) /\ Tells(b)
      /\ (a = b \/ Earlier(a, b))
  BY <1>a, FirstAndLast DEF Located
<1>2. a.time <= b.time
  <2>1. a.time \in Nat /\ b.time \in Nat
    BY <1>1 DEF LocationOK
  <2> QED  BY <1>1, <2>1 DEF Earlier
<1>3. (a.odo = None <=> b.odo = None) /\ a.odo <= b.odo
  BY <1>1, <1>2, OdometerRunsOn
<1>4. a.odo \in Nat \cup {None} /\ b.odo \in Nat \cup {None}
  BY <1>1 DEF LocationOK
<1>5. CASE a.odo # None
  <2>1. Distance(S, "odo") = b.odo - a.odo
    BY <1>a, <1>3, <1>4, <1>5 DEF Distance, Gained, Counted
  <2>2. Gap(a, b) = b.odo - a.odo
    BY <1>3, <1>4, <1>5 DEF Gap, Mark, Span, Larger
  <2>3. Gap(a, b) <= Trail(S)
    BY <1>a, TrailSpansEnds
  <2> QED  BY <2>1, <2>2, <2>3
<1>6. CASE a.odo = None
  <2>1. ASSUME NEW l \in S PROVE l.odo = None
    <3>1. LocationOK(l) /\ Tells(l) /\ LocationOK(a) /\ a.vehicle = l.vehicle /\ DayOf(a) = DayOf(l)
      BY <1>1 DEF Located
    <3>2. a.time \in Nat /\ l.time \in Nat
      BY <3>1 DEF LocationOK
    <3>3. CASE a.time <= l.time
      BY <1>1, <1>6, <3>1, <3>3, OdometerRunsOn
    <3>4. CASE l.time <= a.time
      BY <1>1, <1>6, <3>1, <3>4, OdometerRunsOn
    <3> QED  BY <3>2, <3>3, <3>4
  <2>2. Distance(S, "odo") = Path(S)
    BY <1>a, <1>6 DEF Distance, Counted
  <2> QED  BY <1>0, <2>1, <2>2, TrailOfPositions
<1> QED  BY <1>5, <1>6

\* By its steps a day has its mileage.
LEMMA TrailOfDay ==
  ASSUME OdometersRunOn, NEW S, Located(S), \A l \in S : Tells(l),
         NEW v, NEW d, \A l \in S : l.vehicle = v /\ DayOf(l) = d
  PROVE  Mileage(S) = Trail(S)
<1>g. PICK g : g = [s \in Steps(S) |-> Gap(s[1], s[2])]
  OBVIOUS
<1>h. PICK h : h = [s \in Steps(S) |-> IF s[1].odo # None /\ s[2].odo # None
                                       THEN Span(s[1].odo, s[2].odo)
                                       ELSE Span(s[1].pos, s[2].pos)]
  OBVIOUS
<1>1. Trail(S) = SumFunctionOnSet(g, Steps(S))
  BY <1>g, TrailAddsGaps
<1>2. Mileage(S) = SumFunctionOnSet(h, Steps(S))
  BY <1>h DEF Mileage, Total, SumFunction
<1>3. ASSUME NEW s \in Steps(S) PROVE g[s] = h[s]
  <2>x. PICK x, y : x = s[1] /\ y = s[2]
    OBVIOUS
  <2>1. /\ x \in S /\ y \in S /\ x.time <= y.time
        /\ LocationOK(x) /\ LocationOK(y) /\ Tells(x) /\ Tells(y)
    BY <2>x, StepsFollow DEF Located
  <2>2. x.odo = None <=> y.odo = None
    BY <2>1, OdometerRunsOn
  <2>3. g[s] = Gap(x, y) /\ h[s] = IF x.odo # None /\ y.odo # None THEN Span(x.odo, y.odo)
                                  ELSE Span(x.pos, y.pos)
    BY <1>g, <1>h, <2>x
  <2> QED  BY <2>2, <2>3 DEF Gap, Mark
<1> QED  BY <1>1, <1>2, <1>3, StepsFollow, SumSame

\* The steps of a duty are steps of the day.
LEMMA DutySteps ==
  ASSUME Located(Drawn), NEW a \in Assignments, NEW d
  PROVE  Steps(Duty(a, d)) \subseteq Steps(Today(a.vehicle, d))
<1>S. PICK S, T : S = Duty(a, d) /\ T = Today(a.vehicle, d)
  OBVIOUS
<1>1. S \subseteq T /\ Located(T)
  <2>1. S \subseteq T /\ T \in SUBSET Drawn
    BY <1>S DEF Duty, Today, Drawn
  <2> QED  BY <2>1, SubsetLocated
<1>t. a.from \in Nat /\ a.to \in Nat \cup {None}
  BY DailyConstants
<1>2. ASSUME NEW x \in S, NEW y \in T, NEW z \in S, Earlier(x, y), Earlier(y, z)
      PROVE  y \in S
  <2>1. x.time <= y.time /\ y.time <= z.time /\ x.time \in Nat /\ y.time \in Nat /\ z.time \in Nat
    <3>1. x \in T /\ z \in T
      BY <1>1
    <3> QED  BY <1>1, <1>2, <3>1, EarlierOrders DEF Located, LocationOK
  <2>2. x.time >= a.from /\ (a.to = None \/ z.time <= a.to)
    BY <1>S DEF Duty
  <2>3. y \in locations /\ y.vehicle = a.vehicle /\ DayOf(y) = d
    BY <1>S DEF Today
  <2>4. y.time >= a.from /\ (a.to = None \/ y.time <= a.to)
    <3>1. CASE a.to = None
      BY <1>t, <2>1, <2>2, <3>1
    <3>2. CASE a.to # None
      BY <1>t, <2>1, <2>2, <3>2
    <3> QED  BY <3>1, <3>2
  <2> QED  BY <1>S, <2>3, <2>4 DEF Duty
<1>3. ASSUME NEW s \in Steps(S) PROVE s \in Steps(T)
  <2>1. /\ s = <<s[1], s[2]>> /\ s[1] \in S /\ s[2] \in S /\ Earlier(s[1], s[2])
        /\ ~\E e \in S : Earlier(s[1], e) /\ Earlier(e, s[2])
    BY DEF Steps
  <2>2. ~\E e \in T : Earlier(s[1], e) /\ Earlier(e, s[2])
    BY <1>2, <2>1
  <2> QED  BY <1>1, <2>1, <2>2 DEF Steps
<1> QED  BY <1>3, <1>S

\* Two duties share a step only at the instant of the handover.
LEMMA OneDutyMoves ==
  ASSUME OdometersRunOn, OnePlaceAtATime, OneDriverAtATime, Located(Drawn), \A l \in Drawn : Tells(l),
         NEW a \in Assignments, NEW b \in Assignments, a # b, a.vehicle = b.vehicle,
         NEW d, NEW s \in Steps(Duty(a, d)), s \in Steps(Duty(b, d))
  PROVE  Gap(s[1], s[2]) = 0
<1>x. PICK x, y : x = s[1] /\ y = s[2]
  OBVIOUS
<1>1. x \in Duty(a, d) /\ y \in Duty(a, d) /\ x \in Duty(b, d) /\ y \in Duty(b, d)
  BY <1>x DEF Steps
<1>2. /\ x \in Drawn /\ y \in Drawn /\ x.vehicle = a.vehicle /\ y.vehicle = a.vehicle
      /\ DayOf(x) = d /\ DayOf(y) = d
      /\ x.time >= a.from /\ y.time >= a.from /\ x.time >= b.from /\ y.time >= b.from
      /\ a.to # None => x.time <= a.to /\ y.time <= a.to
      /\ b.to # None => x.time <= b.to /\ y.time <= b.to
  BY <1>1 DEF Duty, Drawn
<1>3. /\ x.time \in Nat /\ y.time \in Nat /\ x.pos \in Int /\ y.pos \in Int
      /\ x.odo \in Nat \cup {None} /\ y.odo \in Nat \cup {None}
      /\ Tells(x) /\ Tells(y) /\ LocationOK(x) /\ LocationOK(y)
  BY <1>2 DEF Located, LocationOK
<1>4. /\ a.from \in Nat /\ b.from \in Nat
      /\ (a.to # None => a.to \in Nat) /\ (b.to # None => b.to \in Nat)
  BY DailyConstants
<1>5. (a.to # None /\ a.to <= b.from) \/ (b.to # None /\ b.to <= a.from)
  BY DEF OneDriverAtATime
<1>6. x.time = y.time
  <2>1. CASE a.to # None /\ a.to <= b.from
    BY <1>2, <1>3, <1>4, <2>1
  <2>2. CASE b.to # None /\ b.to <= a.from
    BY <1>2, <1>3, <1>4, <2>2
  <2> QED  BY <1>5, <2>1, <2>2
<1>7. x.pos = y.pos
  <2>p. PICK p, q : p = x.packet /\ q = y.packet
    OBVIOUS
  <2>1. /\ p \in Packets /\ q \in Packets /\ p.vehicle = q.vehicle /\ p.time = q.time
        /\ p.pos = x.pos /\ q.pos = y.pos
    BY <1>2, <1>3, <1>6, <2>p DEF Tells
  <2>2. p.pos = q.pos
    BY <2>1 DEF OnePlaceAtATime
  <2> QED  BY <2>1, <2>2
<1>8. x.odo = y.odo
  <2>1. x.odo <= y.odo /\ y.odo <= x.odo
    BY <1>2, <1>3, <1>6, OdometerRunsOn
  <2> QED  BY <1>3, <2>1 DEF None
<1>9. Mark(x) = Mark(y) /\ Mark(x) \in Int
  BY <1>3, <1>7, <1>8, MarkIsInt DEF Mark
<1>10. Gap(x, y) = 0
  BY <1>9 DEF Gap, Span, Larger
<1> QED  BY <1>10, <1>x

\* The duties of a vehicle on a day are no longer than its day.
LEMMA HandoversOfVehicle ==
  ASSUME OdometersRunOn, OnePlaceAtATime, OneDriverAtATime, Located(Drawn), \A l \in Drawn : Tells(l),
         NEW v, NEW d, NEW A, A = {a \in Assignments : a.vehicle = v},
         NEW lengths, \A a \in A : lengths[a] = Trail(Duty(a, d))
  PROVE  SumFunctionOnSet(lengths, A) <= Trail(Today(v, d))
<1>T. PICK T : T = Today(v, d)
  OBVIOUS
<1>St. PICK St : St = Steps(T)
  OBVIOUS
<1>g. PICK g : g = [s \in St |-> Gap(s[1], s[2])]
  OBVIOUS
<1>m. PICK m : m = [a \in A |-> [s \in St |-> IF s \in Steps(Duty(a, d)) THEN g[s] ELSE 0]]
  OBVIOUS
<1>1. Located(T) /\ IsFiniteSet(St) /\ IsFiniteSet(A)
  <2>1. T \in SUBSET Drawn
    BY <1>T DEF Today, Drawn
  <2>2. Located(T)
    BY <2>1, SubsetLocated
  <2>3. IsFiniteSet(A)
    BY DailyConstants, FS_Subset
  <2> QED  BY <1>St, <2>2, <2>3, StepsFollow
<1>2. Trail(T) = SumFunctionOnSet(g, St) /\ \A s \in St : g[s] \in Nat
  BY <1>1, <1>g, <1>St, TrailAddsGaps
<1>3. ASSUME NEW a \in A PROVE SumFunctionOnSet(m[a], St) = lengths[a]
  <2>D. PICK D : D = Steps(Duty(a, d))
    OBVIOUS
  <2>h. PICK h : h = [s \in D |-> Gap(s[1], s[2])]
    OBVIOUS
  <2>1. D \in SUBSET St /\ IsFiniteSet(D)
    <3>1. D \subseteq St
      BY <1>T, <1>St, <2>D, DutySteps
    <3> QED  BY <1>1, <3>1, FS_Subset
  <2>2. \A s \in St : m[a][s] \in Int /\ (s \notin D => m[a][s] = 0) /\ (s \in D => m[a][s] = g[s])
    BY <1>2, <1>m, <2>D
  <2>3. SumFunctionOnSet(m[a], St) = SumFunctionOnSet(m[a], D)
    BY <1>1, <2>1, <2>2, SumZeros
  <2>4. SumFunctionOnSet(m[a], D) = SumFunctionOnSet(h, D)
    <3>1. \A s \in D : m[a][s] = h[s]
      BY <1>g, <2>1, <2>2, <2>h
    <3> QED  BY <2>1, <3>1, SumSame
  <2>5. Trail(Duty(a, d)) = SumFunctionOnSet(h, D)
    <3>1. Located(Duty(a, d))
      BY DutyLocated
    <3> QED  BY <2>D, <2>h, <3>1, TrailAddsGaps
  <2> QED  BY <2>3, <2>4, <2>5
<1>c. PICK c : c = [s \in St |-> SumFunctionOnSet([a \in A |-> m[a][s]], A)]
  OBVIOUS
<1>4. SumFunctionOnSet([a \in A |-> SumFunctionOnSet(m[a], St)], A) = SumFunctionOnSet(c, St)
  <2>1. \A a \in A, s \in St : m[a][s] \in Int
    BY <1>2, <1>m
  <2>2. IsFiniteSet(A) /\ IsFiniteSet(St)
    BY <1>1
  <2> QED  BY ONLY <1>c, <2>1, <2>2, SumSwap
<1>5. SumFunctionOnSet(lengths, A) = SumFunctionOnSet(c, St)
  <2>r. PICK r : r = [a \in A |-> SumFunctionOnSet(m[a], St)]
    OBVIOUS
  <2>1. \A a \in A : lengths[a] = r[a]
    BY <1>3, <2>r
  <2>2. SumFunctionOnSet(lengths, A) = SumFunctionOnSet(r, A)
    BY <1>1, <2>1, SumSame
  <2> QED  BY <1>4, <2>r, <2>2
<1>6. ASSUME NEW s \in St PROVE c[s] \in Int /\ g[s] \in Int /\ c[s] <= g[s]
  <2>w. PICK w : w = [a \in A |-> m[a][s]]
    OBVIOUS
  <2>1. \A a \in A : w[a] = IF s \in Steps(Duty(a, d)) THEN g[s] ELSE 0
    BY <1>m, <2>w
  <2>2. c[s] = SumFunctionOnSet(w, A) /\ g[s] \in Nat
    BY <1>2, <1>c, <2>w
  <2>3. CASE \A a \in A : w[a] = 0
    <3>1. SumFunctionOnSet(w, A) = 0
      BY <1>1, <2>3, SumNone
    <3> QED  BY <2>2, <3>1
  <2>4. CASE \E a \in A : w[a] # 0
    <3>1. PICK a \in A : w[a] # 0
      BY <2>4
    <3>2. s \in Steps(Duty(a, d)) /\ w[a] = g[s] /\ g[s] # 0
      BY <2>1, <3>1
    <3>3. ASSUME NEW b \in A \ {a} PROVE w[b] = 0
      <4> SUFFICES ASSUME s \in Steps(Duty(b, d)) PROVE FALSE
        BY <2>1
      <4>1. a \in Assignments /\ b \in Assignments /\ a # b /\ a.vehicle = b.vehicle
        OBVIOUS
      <4>2. Gap(s[1], s[2]) = 0
        BY <3>2, <4>1, OneDutyMoves
      <4> QED  BY <1>g, <3>2, <4>2
    <3>4. w[a] \in Int
      BY <2>2, <3>2
    <3>5. SumFunctionOnSet(w, A) = w[a]
      BY <1>1, <3>3, <3>4, SumOne
    <3> QED  BY <2>2, <3>2, <3>5
  <2> QED  BY <2>3, <2>4
<1>7. SumFunctionOnSet(c, St) <= SumFunctionOnSet(g, St)
  BY <1>1, <1>6, SumAtMost
<1> QED  BY <1>2, <1>5, <1>7, <1>T

\* How long the trails of the duties of driver k on day d are.
Driven(k, d) ==
  SumFunctionOnSet([a \in Assignments |-> Trail(Duty(a, d))],
                   {a \in Assignments : a.driver = k})

\* A row of a driver has no more metres than that.
Credited(t) ==
  \A k \in Drivers, d \in Days :
    t.driver[k][d] # NoRow
      => t.driver[k][d].dist \in Nat /\ t.driver[k][d].dist <= Driven(k, d)

HandoverIInv ==
  /\ \A l \in Drawn : Tells(l)
  /\ Credited(tables)
  /\ run # NoRun => Credited(run.draft)

LEMMA DutyTrails ==
  ASSUME Located(Drawn), NEW d
  PROVE  /\ IsFiniteSet(Assignments)
         /\ \A a \in Assignments : Trail(Duty(a, d)) \in Nat
<1>1. \A a \in Assignments : Located(Duty(a, d))
  BY DutyLocated
<1> QED  BY <1>1, TrailIsNat, DailyConstants

\* A duty has no fewer locations when a job commits, and no shorter trail.
LEMMA DrivenGrows ==
  ASSUME Located(Drawn), locations \subseteq locations', locations' \subseteq Drawn, NEW k, NEW d
  PROVE  /\ Driven(k, d) \in Nat /\ Driven(k, d)' \in Nat
         /\ Driven(k, d) <= Driven(k, d)'
<1>g. PICK g : g = [a \in Assignments |-> Trail(Duty(a, d))]
  OBVIOUS
<1>h. PICK h : h = [a \in Assignments |-> Trail(Duty(a, d)')]
  OBVIOUS
<1>D. PICK D : D = {a \in Assignments : a.driver = k}
  OBVIOUS
<1>1. ASSUME NEW a \in Assignments PROVE g[a] \in Nat /\ h[a] \in Nat /\ g[a] <= h[a]
  <2>S. PICK S, T : S = Duty(a, d) /\ T = Duty(a, d)'
    OBVIOUS
  <2>1. S \in SUBSET T /\ T \in SUBSET Drawn
    BY <2>S DEF Duty
  <2>2. Located(T) /\ Located(S)
    <3>1. S \in SUBSET Drawn
      BY <2>1
    <3> QED  BY <2>1, <3>1, SubsetLocated
  <2>3. Trail(S) <= Trail(T) /\ Trail(S) \in Nat /\ Trail(T) \in Nat
    BY <2>1, <2>2, TrailGrows, TrailIsNat
  <2> QED  BY <1>g, <1>h, <2>S, <2>3
<1>2. IsFiniteSet(D)
  BY <1>D, DailyConstants, FS_Subset
<1>3. \A a \in D : g[a] \in Int /\ h[a] \in Int /\ g[a] <= h[a]
  BY <1>1, <1>D
<1>n. SumFunctionOnSet(g, D) \in Nat /\ SumFunctionOnSet(h, D) \in Nat
  <2>1. (\A a \in D : g[a] \in Nat) /\ \A a \in D : h[a] \in Nat
    BY <1>1, <1>D
  <2> QED  BY <1>2, <2>1, SumType
<1>4. SumFunctionOnSet(g, D) <= SumFunctionOnSet(h, D)
  BY <1>2, <1>3, SumAtMost
<1>5. Driven(k, d) = SumFunctionOnSet(g, D)
  BY <1>g, <1>D DEF Driven
<1>6. Driven(k, d)' = SumFunctionOnSet(h, D)
  BY <1>h, <1>D DEF Driven, Trail, Gap, Mark, Span, Total, Steps, Earlier, Larger, SumFunction
<1> QED  BY <1>4, <1>5, <1>6, <1>n

LEMMA DriverMetres == ASSUME NEW D, NEW d PROVE DriverDay(D, d).dist = Metres(D, d)
BY SMTT(30) DEF DriverDay, Metres, Total, SumFunction

\* A new row of a driver credits what the duties of the day cover.
LEMMA DriversCredited ==
  ASSUME OdometersRunOn, Located(Drawn), \A l \in Drawn : Tells(l),
         NEW t, ScoresOf(t), Credited(t), NEW r, r.date \in Days, NEW u, u = DriverStats(t, r)
  PROVE  Credited(u)
<1>d. PICK date : date = r.date
  OBVIOUS
<1> DEFINE E(k) == {a \in Assignments : a.driver = k /\ Duty(a, date) # {}}
<1>1. u.driver = [k \in Drivers |->
                    IF E(k) = {} THEN t.driver[k]
                    ELSE [t.driver[k] EXCEPT ![date] = DriverDay(E(k), date)]]
  BY <1>d DEF DriverStats, ScoresOf
<1>2. ASSUME NEW k \in Drivers, NEW d \in Days, u.driver[k][d] # NoRow
      PROVE  u.driver[k][d].dist \in Nat /\ u.driver[k][d].dist <= Driven(k, d)
  <2>D. PICK D : D = E(k)
    OBVIOUS
  <2>o. PICK old : old = t.driver[k]
    OBVIOUS
  <2>n. PICK new : new = DriverDay(D, date)
    OBVIOUS
  <2>1. u.driver[k] = IF D = {} THEN old ELSE [old EXCEPT ![date] = new]
    BY <1>1, <2>D, <2>o, <2>n
  <2>2. /\ old = [e \in Days |-> old[e]]
        /\ \A e \in Days : old[e] # NoRow => old[e].dist \in Nat /\ old[e].dist <= Driven(k, e)
    BY <2>o DEF Credited, ScoresOf
  <2>3. new.dist \in Nat /\ new.dist <= Driven(k, date)
    <3>f. PICK f : f = [a \in D |-> Distance(Duty(a, date), "odo")]
      OBVIOUS
    <3>g. PICK g : g = [a \in Assignments |-> Trail(Duty(a, date))]
      OBVIOUS
    <3>A. PICK A : A = {a \in Assignments : a.driver = k}
      OBVIOUS
    <3>1. new.dist = SumFunctionOnSet(f, D)
      BY <2>n, <3>f, DriverMetres DEF Metres
    <3>2. D \in SUBSET A /\ IsFiniteSet(A) /\ IsFiniteSet(D) /\ \A a \in A : g[a] \in Nat
      BY <2>D, <3>A, <3>g, DutyTrails, FS_Subset
    <3>3. ASSUME NEW a \in D PROVE f[a] \in Nat /\ f[a] <= g[a]
      <4>S. PICK S : S = Duty(a, date)
        OBVIOUS
      <4>1. /\ S # {} /\ Located(S) /\ \A l \in S : l.vehicle = a.vehicle /\ DayOf(l) = date
            /\ \A l \in S : Tells(l)
        BY <2>D, <4>S, DutyLocated DEF Duty, Drawn
      <4>2. Distance(S, "odo") \in Nat
        BY <4>1, DistanceIsNat
      <4>3. Distance(S, "odo") <= Trail(S)
        BY <4>1, DistanceIsDriven
      <4>4. f[a] = Distance(S, "odo") /\ g[a] = Trail(S)
        BY <2>D, <3>f, <3>g, <4>S
      <4> QED  BY <4>2, <4>3, <4>4
    <3>4. SumFunctionOnSet(f, D) \in Nat
      BY <3>2, <3>3, SumType
    <3>5. SumFunctionOnSet(f, D) <= SumFunctionOnSet(g, D)
      <4>1. \A a \in D : f[a] \in Int /\ g[a] \in Int /\ f[a] <= g[a]
        BY <3>2, <3>3
      <4> QED  BY <3>2, <4>1, SumAtMost
    <3>6. SumFunctionOnSet(g, D) <= SumFunctionOnSet(g, A)
      BY <3>2, SumPart
    <3>7. SumFunctionOnSet(g, D) \in Nat /\ SumFunctionOnSet(g, A) \in Nat
      <4>1. \A a \in D : g[a] \in Nat
        BY <3>2
      <4> QED  BY <3>2, <4>1, SumType
    <3>8. Driven(k, date) = SumFunctionOnSet(g, A)
      BY <3>g, <3>A DEF Driven
    <3> QED  BY ONLY <3>1, <3>4, <3>5, <3>6, <3>7, <3>8
  <2>4. u.driver[k][d] = IF D # {} /\ d = date THEN new ELSE old[d]
    BY ONLY <2>1, <2>2, d \in Days
  <2> QED  BY <1>2, <2>2, <2>3, <2>4
<1> QED  BY <1>2 DEF Credited

\* The steps of the pipeline and of the telemetry jobs.
LEMMA StoreCredits ==
  ASSUME DailyIInv, FiguresIInv, HandoverIInv, NEW l \in pending, Store(l)
  PROVE  HandoverIInv'
<1>1. /\ UNCHANGED <<tables, run>> /\ Drawn' = Drawn
      /\ locations \subseteq locations' /\ locations' \subseteq Drawn
  BY DEF Store, Drawn
<1>2. Located(Drawn)
  BY DEF DailyIInv, FiguresIInv, IdsDrawn, Located
<1>3. ASSUME NEW k \in Drivers, NEW d \in Days
      PROVE  /\ Driven(k, d) \in Nat /\ Driven(k, d)' \in Nat
             /\ Driven(k, d) <= Driven(k, d)'
  BY <1>1, <1>2, DrivenGrows
<1>4. Credited(tables)'
  BY <1>1, <1>3 DEF HandoverIInv, Credited
<1>5. run' # NoRun => Credited(run.draft)'
  BY <1>1, <1>3 DEF HandoverIInv, Credited
<1> QED  BY <1>1, <1>4, <1>5 DEF HandoverIInv, Tells

LEMMA DrivenStays ==
  ASSUME locations' = locations, NEW k, NEW d PROVE Driven(k, d)' = Driven(k, d)
BY DEF Driven, Duty

LEMMA ProcessCredits ==
  ASSUME OdometersRunOn, DailyIInv, FiguresIInv, ScoresIInv, HandoverIInv,
         NEW p \in DOMAIN Stage, Process(p)
  PROVE  HandoverIInv'
<1>t. PICK t : t = run.draft
  OBVIOUS
<1>1. run # NoRun /\ UNCHANGED tables /\ Drawn' = Drawn /\ locations' = locations
  BY DEF Process, NoRun, Drawn
<1>2. /\ RunOK /\ Credited(t) /\ ScoresOf(t) /\ run.date \in Days
      /\ Located(Drawn) /\ \A l \in Drawn : Tells(l)
  BY <1>1, <1>t DEF DailyIInv, RunOK, HandoverIInv, ScoresIInv, Scored, FiguresIInv, IdsDrawn, Located
<1>3. PICK u \in CASE p = "vehicle"     -> {VehicleStats(run.draft, run)}
                   [] p = "driver"      -> {DriverStats(run.draft, run)}
                   [] p = "maintenance" -> {Maintenance(run.draft, run)}
                   [] p = "fleet"       -> {FleetStats(run.draft, run)}
                   [] OTHER -> {FleetOperations(run.draft, now) : now \in Clock} :
        run' = [run EXCEPT !.todo = @ \ {p}, !.draft = u]
  BY DEF Process
<1>4. \/ u = DriverStats(t, run)
      \/ u = VehicleStats(t, run) \/ u = Maintenance(t, run) \/ u = FleetStats(t, run)
      \/ \E now \in Clock : u = FleetOperations(t, now)
  <2>1. p \in {"vehicle", "driver", "maintenance", "fleet", "operations"}
    BY DEF Stage
  <2> QED  BY <1>3, <1>t, <2>1
<1>5. ASSUME u # DriverStats(t, run) PROVE u.driver = t.driver
  BY <1>2, <1>4, <1>5 DEF ScoresOf, VehicleStats, Maintenance, FleetStats, FleetOperations
<1>6. Credited(u)
  <2>1. CASE u = DriverStats(t, run)
    BY <1>2, <2>1, DriversCredited
  <2>2. CASE u # DriverStats(t, run)
    BY <1>2, <1>5, <2>2 DEF Credited
  <2> QED  BY <2>1, <2>2
<1>7. run'.draft = u
  BY <1>2, <1>3 DEF RunOK
<1>8. \A k \in Drivers, d \in Days : Driven(k, d)' = Driven(k, d)
  BY <1>1, DrivenStays
<1>9. Credited(tables)' /\ Credited(run.draft)'
  BY <1>1, <1>6, <1>7, <1>8 DEF HandoverIInv, Credited
<1> QED  BY <1>1, <1>2, <1>9 DEF HandoverIInv, Tells

LEMMA HandoverStep ==
  ASSUME OdometersRunOn, DailyIInv, FiguresIInv, ScoresIInv, HandoverIInv,
         [DailyNext]_dailyVars
  PROVE  HandoverIInv'
<1>s. ASSUME locations' = locations
      PROVE  \A k \in Drivers, d \in Days : Driven(k, d)' = Driven(k, d)
  BY <1>s, DrivenStays
<1>1. CASE \E p \in Packets : Flush(p)
  <2>1. PICK p \in Packets : Flush(p)
    BY <1>1
  <2>l. PICK l : l = [id |-> NextId, packet |-> p, vehicle |-> p.vehicle, time |-> p.time,
                      pos |-> p.pos, speed |-> p.speed, ign |-> p.ign, fuel |-> p.fuel,
                      odo |-> p.odo, meter |-> None, rpm |-> p.rpm, engine |-> p.engine,
                      driving |-> p.driving, idle |-> p.idle, alerts |-> p.alerts,
                      flags |-> p.flags]
    OBVIOUS
  <2>2. Drawn' = Drawn \cup {l} /\ UNCHANGED <<tables, run, locations>>
    BY <2>1, <2>l DEF Flush, Drawn
  <2>3. Tells(l)
    BY <2>l DEF Tells
  <2>4. \A k \in Drivers, d \in Days : Driven(k, d)' = Driven(k, d)
    BY <1>s, <2>2
  <2>5. \A e \in Drawn' : Tells(e)
    BY <2>2, <2>3 DEF HandoverIInv
  <2>6. Credited(tables)' /\ (run' # NoRun => Credited(run.draft)')
    BY <2>2, <2>4 DEF HandoverIInv, Credited
  <2> QED  BY <2>5, <2>6 DEF HandoverIInv
<1>2. CASE \E l \in pending : Store(l)
  BY <1>2, StoreCredits
<1>3. CASE Begin \/ CommitRun \/ RollBack \/ UNCHANGED dailyVars
  <2>1. Drawn' = Drawn /\ locations' = locations
    BY <1>3 DEF Begin, CommitRun, RollBack, Drawn, dailyVars
  <2>2. \A k \in Drivers, d \in Days : Driven(k, d)' = Driven(k, d)
    BY <1>s, <2>1
  <2>3. CASE Begin
    <3>1. UNCHANGED tables /\ run'.draft = tables
      BY <2>3 DEF Begin
    <3> QED  BY <2>1, <2>2, <3>1 DEF HandoverIInv, Credited
  <2>4. CASE CommitRun
    <3>1. run # NoRun /\ tables' = run.draft /\ run' = NoRun
      BY <2>4 DEF CommitRun, NoRun
    <3> QED  BY <2>1, <2>2, <3>1 DEF HandoverIInv, Credited
  <2>5. CASE RollBack
    <3>1. UNCHANGED tables /\ run' = NoRun
      BY <2>5 DEF RollBack
    <3> QED  BY <2>1, <2>2, <3>1 DEF HandoverIInv, Credited
  <2>6. CASE UNCHANGED dailyVars
    BY <2>1, <2>2, <2>6 DEF HandoverIInv, Credited, dailyVars
  <2> QED  BY <1>3, <2>3, <2>4, <2>5, <2>6
<1>4. CASE \E p \in DOMAIN Stage : Process(p)
  BY <1>4, ProcessCredits
<1> QED  BY <1>1, <1>2, <1>3, <1>4 DEF DailyNext

\* All the drivers together drove no more than the vehicles.
LEMMA DriversShareVehicles ==
  ASSUME OdometersRunOn, OnePlaceAtATime, OneDriverAtATime, Located(Drawn), \A l \in Drawn : Tells(l), NEW d,
         NEW driven, driven = [k \in Drivers |-> Driven(k, d)],
         NEW trails, trails = [v \in Vehicles |-> Trail(Today(v, d))]
  PROVE  /\ SumFunctionOnSet(driven, Drivers) <= SumFunctionOnSet(trails, Vehicles)
         /\ SumFunctionOnSet(driven, Drivers) \in Nat
         /\ SumFunctionOnSet(trails, Vehicles) \in Nat
         /\ \A k \in Drivers : driven[k] \in Nat
<1>g. PICK g : g = [a \in Assignments |-> Trail(Duty(a, d))]
  OBVIOUS
<1>0. /\ IsFiniteSet(Assignments) /\ IsFiniteSet(Drivers) /\ IsFiniteSet(Vehicles)
      /\ \A a \in Assignments : g[a] \in Nat
  BY <1>g, DutyTrails, DailyConstants
<1>f. PICK f, h : f = [a \in Assignments |-> a.driver] /\ h = [a \in Assignments |-> a.vehicle]
  OBVIOUS
<1>r. PICK r : r = [k \in Drivers |-> SumFunctionOnSet(g, {a \in Assignments : f[a] = k})]
  OBVIOUS
<1>s. PICK s : s = [v \in Vehicles |-> SumFunctionOnSet(g, {a \in Assignments : h[a] = v})]
  OBVIOUS
<1>1. SumFunctionOnSet(r, Drivers) <= SumFunctionOnSet(g, Assignments)
  BY ONLY <1>0, <1>r, SumOfClasses
<1>2. ASSUME NEW k \in Drivers PROVE driven[k] = r[k] /\ driven[k] \in Nat
  <2>A. PICK A : A = {a \in Assignments : a.driver = k}
    OBVIOUS
  <2>1. A = {a \in Assignments : f[a] = k}
    BY <1>f, <2>A
  <2>2. driven[k] = SumFunctionOnSet(g, A)
    BY <1>g, <2>A DEF Driven
  <2>3. IsFiniteSet(A) /\ \A a \in A : g[a] \in Nat
    BY <1>0, <2>A, FS_Subset
  <2>4. SumFunctionOnSet(g, A) \in Nat
    BY <2>3, SumType
  <2> QED  BY <1>r, <2>1, <2>2, <2>4
<1>3. SumFunctionOnSet(driven, Drivers) = SumFunctionOnSet(r, Drivers)
  BY <1>0, <1>2, SumSame
<1>4. ASSUME NEW a \in Assignments PROVE h[a] \in Vehicles \/ g[a] = 0
  <2> SUFFICES ASSUME a.vehicle \notin Vehicles PROVE g[a] = 0
    BY <1>f
  <2>1. Duty(a, d) = {}
    BY DEF Duty, Drawn, Located, LocationOK
  <2>2. Steps(Duty(a, d)) = {}
    BY <2>1 DEF Steps
  <2>3. Trail(Duty(a, d)) = 0
    BY <2>2, SumEmpty DEF Trail, Total, SumFunction
  <2> QED  BY <1>g, <2>3
<1>5. SumFunctionOnSet(s, Vehicles) = SumFunctionOnSet(g, Assignments)
  BY ONLY <1>0, <1>4, <1>s, SumOfClasses
<1>6. ASSUME NEW v \in Vehicles
      PROVE  s[v] \in Nat /\ trails[v] \in Nat /\ s[v] <= trails[v]
  <2>A. PICK A : A = {a \in Assignments : a.vehicle = v}
    OBVIOUS
  <2>1. A = {a \in Assignments : h[a] = v}
    BY <1>f, <2>A
  <2>2. s[v] = SumFunctionOnSet(g, A)
    BY <1>s, <2>1
  <2>3. \A a \in A : g[a] = Trail(Duty(a, d))
    BY <1>g, <2>A
  <2>4. SumFunctionOnSet(g, A) <= Trail(Today(v, d))
    BY <2>A, <2>3, HandoversOfVehicle
  <2>5. SumFunctionOnSet(g, A) \in Nat
    <3>1. IsFiniteSet(A) /\ \A a \in A : g[a] \in Nat
      BY <1>0, <2>A, FS_Subset
    <3> QED  BY <3>1, SumType
  <2>6. Trail(Today(v, d)) \in Nat
    <3>1. Today(v, d) \in SUBSET Drawn
      BY DEF Today, Drawn
    <3> QED  BY <3>1, SubsetLocated, TrailIsNat
  <2> QED  BY <2>2, <2>4, <2>5, <2>6
<1>7. SumFunctionOnSet(s, Vehicles) <= SumFunctionOnSet(trails, Vehicles)
  <2>1. \A v \in Vehicles : s[v] \in Int /\ trails[v] \in Int /\ s[v] <= trails[v]
    BY <1>6
  <2> QED  BY <1>0, <2>1, SumAtMost
<1>8. SumFunctionOnSet(r, Drivers) \in Nat
  <2>1. \A k \in Drivers : r[k] \in Nat
    BY <1>2
  <2> QED  BY <1>0, <2>1, SumType
<1>9. SumFunctionOnSet(trails, Vehicles) \in Nat /\ SumFunctionOnSet(s, Vehicles) \in Nat
  <2>1. (\A v \in Vehicles : trails[v] \in Nat) /\ \A v \in Vehicles : s[v] \in Nat
    BY <1>6
  <2> QED  BY <1>0, <2>1, SumType
<1>10. SumFunctionOnSet(driven, Drivers) <= SumFunctionOnSet(trails, Vehicles)
  BY ONLY <1>1, <1>3, <1>5, <1>7, <1>8, <1>9
<1> QED  BY <1>2, <1>3, <1>8, <1>9, <1>10

\* The kilometres of a driver on one day.
LEMMA DayOfDriver ==
  ASSUME NEW k \in Drivers, NEW d \in Days,
         NEW row, row = tables.driver[k][d], row # NoRow => row.dist \in Nat
  PROVE  DriverPerformance(k, d, d).dist = IF row = NoRow THEN 0 ELSE row.dist
<1>D. PICK D : D = Between(tables.driver[k], d, d)
  OBVIOUS
<1>g. PICK g : g = [e \in D |-> tables.driver[k][e].dist]
  OBVIOUS
<1>1. DriverPerformance(k, d, d).dist = SumFunctionOnSet(g, D)
  BY <1>D, <1>g DEF DriverPerformance, Total, SumFunction
<1>2. D = IF row = NoRow THEN {} ELSE {d}
  BY <1>D, DaysAreFinite DEF Between
<1>3. CASE row = NoRow
  BY <1>1, <1>2, <1>3, SumEmpty
<1>4. CASE row # NoRow
  <2>1. D = {d} /\ g[d] = row.dist /\ g[d] \in Int
    BY <1>2, <1>4, <1>g
  <2>2. SumFunctionOnSet(g, D) = g[d]
    BY <2>1, FS_Singleton, SumOne
  <2> QED  BY <1>1, <1>4, <2>1, <2>2
<1> QED  BY <1>3, <1>4

(***************************************************************************)
(* The drivers who handed vehicles over to each other have no more         *)
(* kilometres in the reports of a day than the vehicles drove that day,    *)
(* whatever was stored while a run went on and whichever runs failed       *)
(* (driver_stats.py and crud/analytics.py, HandoversAddUp).                *)
(***************************************************************************)
THEOREM HandoversAreFair ==
  ASSUME OdometersRunOn, OnePlaceAtATime, OneDriverAtATime
  PROVE  DailySpec => []HandoversAddUp
<1>1. DailyInit => HandoverIInv
  <2> SUFFICES ASSUME DailyInit PROVE HandoverIInv
    OBVIOUS
  <2>1. Drawn = {} /\ run = NoRun
    BY DEF DailyInit, Drawn
  <2>2. tables.driver = [k \in Drivers |-> [d \in Days |-> NoRow]]
    BY DEF DailyInit, NoTables
  <2> QED  BY <2>1, <2>2 DEF HandoverIInv, Credited
<1>2. ASSUME DailyIInv, FiguresIInv, HandoverIInv PROVE HandoversAddUp
  <2>1. Located(Drawn) /\ \A l \in Drawn : Tells(l)
    BY <1>2 DEF DailyIInv, FiguresIInv, HandoverIInv, IdsDrawn, Located
  <2>2. ASSUME NEW d \in Days
        PROVE  Total(LAMBDA k : DriverPerformance(k, d, d).dist, Drivers)
               <= Total(LAMBDA v : Mileage({l \in locations : l.vehicle = v /\ DayOf(l) = d}),
                        Vehicles)
    <3>n. PICK driven : driven = [k \in Drivers |-> Driven(k, d)]
      OBVIOUS
    <3>p. PICK trails : trails = [v \in Vehicles |-> Trail(Today(v, d))]
      OBVIOUS
    <3>m. PICK metres : metres = [k \in Drivers |-> DriverPerformance(k, d, d).dist]
      OBVIOUS
    <3>1. Total(LAMBDA k : DriverPerformance(k, d, d).dist, Drivers)
          = SumFunctionOnSet(metres, Drivers)
      BY <3>m DEF Total, SumFunction
    <3>2. Total(LAMBDA v : Mileage({l \in locations : l.vehicle = v /\ DayOf(l) = d}), Vehicles)
          = SumFunctionOnSet(trails, Vehicles)
      <4>q. PICK q : q = [v \in Vehicles |-> Mileage(Today(v, d))]
        OBVIOUS
      <4>1. Total(LAMBDA v : Mileage({l \in locations : l.vehicle = v /\ DayOf(l) = d}), Vehicles)
            = SumFunctionOnSet(q, Vehicles)
        BY <4>q DEF Total, SumFunction, Today
      <4>2. ASSUME NEW v \in Vehicles PROVE q[v] = trails[v]
        <5>S. PICK S : S = Today(v, d)
          OBVIOUS
        <5>1. S \in SUBSET Drawn /\ \A l \in S : l.vehicle = v /\ DayOf(l) = d
          BY <5>S DEF Today, Drawn
        <5>2. Located(S) /\ \A l \in S : Tells(l)
          BY <2>1, <5>1, SubsetLocated
        <5>3. Mileage(S) = Trail(S)
          BY <5>1, <5>2, TrailOfDay
        <5> QED  BY <3>p, <4>q, <5>S, <5>3
      <4>3. IsFiniteSet(Vehicles)
        BY DailyConstants
      <4>4. SumFunctionOnSet(q, Vehicles) = SumFunctionOnSet(trails, Vehicles)
        BY <4>2, <4>3, SumSame
      <4> QED  BY <4>1, <4>4
    <3>3. /\ SumFunctionOnSet(driven, Drivers) <= SumFunctionOnSet(trails, Vehicles)
          /\ SumFunctionOnSet(driven, Drivers) \in Nat
          /\ SumFunctionOnSet(trails, Vehicles) \in Nat
          /\ \A k \in Drivers : driven[k] \in Nat
      BY <2>1, <3>n, <3>p, DriversShareVehicles
    <3>4. ASSUME NEW k \in Drivers
          PROVE  metres[k] \in Int /\ metres[k] \in Nat /\ driven[k] \in Int
                 /\ metres[k] <= driven[k]
      <4>r. PICK row : row = tables.driver[k][d]
        OBVIOUS
      <4>1. row # NoRow => row.dist \in Nat /\ row.dist <= driven[k]
        BY <1>2, <3>n, <4>r DEF HandoverIInv, Credited
      <4>2. metres[k] = IF row = NoRow THEN 0 ELSE row.dist
        BY <3>m, <4>r, <4>1, DayOfDriver
      <4> QED  BY <3>3, <4>1, <4>2
    <3>5. IsFiniteSet(Drivers)
      BY DailyConstants
    <3>6. SumFunctionOnSet(metres, Drivers) <= SumFunctionOnSet(driven, Drivers)
      BY <3>4, <3>5, SumAtMost
    <3>7. SumFunctionOnSet(metres, Drivers) \in Nat
      <4>1. \A k \in Drivers : metres[k] \in Nat
        BY <3>4
      <4> QED  BY <3>5, <4>1, SumType
    <3> QED  BY ONLY <3>1, <3>2, <3>3, <3>6, <3>7
  <2> QED  BY <2>2 DEF HandoversAddUp
<1>3. ASSUME DailyIInv, FiguresIInv, ScoresIInv, HandoverIInv, [DailyNext]_dailyVars
      PROVE  HandoverIInv'
  BY <1>3, HandoverStep
<1> QED  BY <1>1, <1>2, <1>3, FiguresInit, FiguresStep, ScoresInit, ScoresStep, DailyInvariant,
            PTL DEF DailySpec
=============================================================================
