----------------------------- MODULE Iteration -----------------------------
(***************************************************************************)
(* Facts about least elements, about iterating a step and about sums over  *)
(* finite sets, which the proofs about the map server cite.  Its loops are *)
(* recursive functions on an interval, and sums are folds over the subsets *)
(* of a set; the induction is on the least exception.                      *)
(***************************************************************************)
EXTENDS Integers, FiniteSetsExt, WellFoundedInduction, FiniteSetTheorems, TLAPS

(* A non-empty set of naturals has a least element. *)
LEMMA LeastNatural ==
    ASSUME NEW S, S \subseteq Nat, S # {}
    PROVE  \E x \in S : \A y \in S : x <= y
<1>1. PICK x \in S : \A y \in S : ~ (<<y, x>> \in OpToRel(<, Nat))
    BY NatLessThanWellFounded, WFMin
<1>2. \A y \in S : ~ (y < x)
    BY <1>1 DEF OpToRel
<1> QED BY <1>2

(* Min is that element. *)
LEMMA MinIsLeast ==
    ASSUME NEW S, S \subseteq Nat, S # {}
    PROVE  Min(S) \in S /\ \A y \in S : Min(S) <= y
BY LeastNatural DEF Min

(* The values that iterating step from b goes through exist. *)
LEMMA IterationExists ==
    ASSUME NEW T, NEW b \in T, NEW N \in Nat, NEW step \in [1 .. N -> [T -> T]]
    PROVE  \E f \in [0 .. N -> T] :
               /\ f[0] = b
               /\ \A i \in 1 .. N : f[i] = step[i][f[i - 1]]
<1> DEFINE Good(n, f) == /\ f \in [0 .. n -> T]
                         /\ f[0] = b
                         /\ \A i \in 1 .. n : f[i] = step[i][f[i - 1]]
           Bad == {n \in 0 .. N : ~ \E f : Good(n, f)}
<1>1. SUFFICES ASSUME N \in Bad PROVE FALSE
  <2>1. N \in 0 .. N
      OBVIOUS
  <2>2. \E f : Good(N, f)
      BY <2>1, Zenon
  <2> QED BY <2>2, Zenon
<1>2. PICK n \in Bad : \A m \in Bad : n <= m
  <2>1. Bad \subseteq Nat /\ Bad # {}
      BY <1>1
  <2> HIDE DEF Bad
  <2> QED BY <2>1, LeastNatural
<1>3. n # 0
  <2>1. Good(0, [i \in 0 .. 0 |-> b])
      OBVIOUS
  <2> QED BY <2>1
<1>4. n \in 1 .. N /\ n - 1 \in 0 .. N /\ n - 1 \notin Bad
  <2>1. n \in 0 .. N
      OBVIOUS
  <2> HIDE DEF Bad
  <2> QED BY <1>2, <1>3, <2>1
<1>5. PICK f : Good(n - 1, f)
    BY <1>4
<1> DEFINE g == [i \in 0 .. n |-> IF i = n THEN step[n][f[n - 1]] ELSE f[i]]
<1>6. Good(n, g)
  <2>1. f[n - 1] \in T
      BY <1>4, <1>5
  <2>2. step[n][f[n - 1]] \in T
      BY <1>4, <2>1
  <2>3. g \in [0 .. n -> T]
      BY <1>4, <1>5, <2>2
  <2>4. g[0] = b
      BY <1>4, <1>5
  <2>5. ASSUME NEW i \in 1 .. n
        PROVE  g[i] = step[i][g[i - 1]]
    <3>1. g[i - 1] = f[i - 1]
        BY <1>4
    <3>2. CASE i = n
        BY <3>1, <3>2, <1>4
    <3>3. CASE i # n
      <4>1. i \in 1 .. n - 1
          BY <1>4, <3>3
      <4>2. g[i] = f[i] /\ f[i] = step[i][f[i - 1]]
          BY <1>4, <1>5, <4>1
      <4> QED BY <3>1, <4>2
    <3> QED BY <3>2, <3>3
  <2> QED BY <2>3, <2>4, <2>5
<1> QED BY <1>6

(* What holds at the start of an iteration and survives each turn holds at its end. *)
LEMMA IterationInvariant ==
    ASSUME NEW T, NEW N \in Nat, NEW f,
           f[0] \in T,
           \A i \in 1 .. N : f[i - 1] \in T => f[i] \in T
    PROVE  \A i \in 0 .. N : f[i] \in T
<1> DEFINE Bad == {n \in 0 .. N : f[n] \notin T}
<1>1. SUFFICES ASSUME Bad # {} PROVE FALSE
    OBVIOUS
<1>2. PICK n \in Bad : \A m \in Bad : n <= m
  <2>1. Bad \subseteq Nat
      OBVIOUS
  <2> HIDE DEF Bad
  <2> QED BY <1>1, <2>1, LeastNatural
<1>3. n \in 1 .. N /\ n - 1 \in 0 .. N
    OBVIOUS
<1>4. f[n - 1] \in T
    BY <1>2, <1>3
<1> QED BY <1>3, <1>4

(* The same for what holds of each turn in its own way: T[i] are the values that turn i may end with. *)
LEMMA TurnInvariant ==
    ASSUME NEW N \in Nat, NEW T, NEW f,
           f[0] \in T[0],
           \A i \in 1 .. N : f[i - 1] \in T[i - 1] => f[i] \in T[i]
    PROVE  \A i \in 0 .. N : f[i] \in T[i]
<1> DEFINE Bad == {n \in 0 .. N : f[n] \notin T[n]}
<1>1. SUFFICES ASSUME Bad # {} PROVE FALSE
    OBVIOUS
<1>2. PICK n \in Bad : \A m \in Bad : n <= m
  <2>1. Bad \subseteq Nat
      OBVIOUS
  <2> HIDE DEF Bad
  <2> QED BY <1>1, <2>1, LeastNatural
<1>3. n \in 1 .. N /\ n - 1 \in 0 .. N
    OBVIOUS
<1>4. f[n - 1] \in T[n - 1]
    BY <1>2, <1>3
<1> QED BY <1>3, <1>4

----------------------------------------------------------------------------
(* One element more or less. *)
LEMMA OneMore ==
    ASSUME NEW S, IsFiniteSet(S), NEW x, x \notin S, NEW T, T = S \cup {x}
    PROVE  Cardinality(T) = Cardinality(S) + 1
<1>1. Cardinality(S \cup {x}) = IF x \in S THEN Cardinality(S) ELSE Cardinality(S) + 1
    BY FS_AddElement
<1> QED BY <1>1, Zenon

LEMMA OneLess ==
    ASSUME NEW S, IsFiniteSet(S), NEW x, x \in S, NEW T, T = S \ {x}
    PROVE  Cardinality(T) = Cardinality(S) - 1
<1>1. Cardinality(S \ {x}) = IF x \in S THEN Cardinality(S) - 1 ELSE Cardinality(S)
    BY FS_RemoveElement
<1> QED BY <1>1, Zenon

(* Among subsets of a finite set one has no other below it. *)
LEMMA LeastSubset ==
    ASSUME NEW S, IsFiniteSet(S), NEW Q, Q \subseteq SUBSET S, Q # {}
    PROVE  \E t \in Q : \A u \in Q : u \subseteq t => u = t
<1> DEFINE Sizes == {Cardinality(t) : t \in Q}
<1>1. \A t \in Q : IsFiniteSet(t) /\ Cardinality(t) \in Nat
    BY FS_Subset, FS_CardinalityType
<1>2. Sizes \subseteq Nat /\ Sizes # {}
    BY <1>1
<1>3. PICK n \in Sizes : \A m \in Sizes : n <= m
  <2> HIDE DEF Sizes
  <2> QED BY <1>2, LeastNatural
<1>4. PICK t \in Q : n = Cardinality(t)
    OBVIOUS
<1>5. ASSUME NEW u \in Q, u \subseteq t
      PROVE  u = t
  <2>1. Cardinality(t) <= Cardinality(u)
      BY <1>3, <1>4
  <2>2. IsFiniteSet(t) /\ Cardinality(u) <= Cardinality(t) /\ (Cardinality(t) = Cardinality(u) => t = u)
      BY <1>1, <1>5, FS_Subset
  <2> QED BY <2>1, <2>2, <1>1
<1> QED BY <1>5

(* The sum of f over S as the library works it out: g holds the sums over all subsets of S, each
   by taking one element out. *)
Picked(s) == CHOOSE x \in s : TRUE
Adds(g, f, S) == g = [s \in SUBSET S |-> IF s = {} THEN 0 ELSE f[Picked(s)] + g[s \ {Picked(s)}]]
Sum(f, S) == MapThenSumSet(LAMBDA x : f[x], S)

LEMMA AddsStep ==
    ASSUME NEW S, NEW f, NEW g, Adds(g, f, S), NEW u, u \subseteq S
    PROVE  /\ u = {} => g[u] = 0
           /\ u # {} => /\ Picked(u) \in u /\ u \ {Picked(u)} \subseteq u /\ u \ {Picked(u)} # u
                        /\ g[u] = f[Picked(u)] + g[u \ {Picked(u)}]
<1> u \in SUBSET S
    OBVIOUS
<1>1. u # {} => Picked(u) \in u
    BY DEF Picked
<1>2. g[u] = IF u = {} THEN 0 ELSE f[Picked(u)] + g[u \ {Picked(u)}]
    BY Zenon DEF Adds
<1> QED BY <1>1, <1>2

(* What is added up does not depend on what is around. *)
LEMMA AddsSame ==
    ASSUME NEW T, IsFiniteSet(T), NEW S, NEW R, T \subseteq S, T \subseteq R,
           NEW f, NEW g, Adds(g, f, S), NEW h, NEW k, Adds(k, h, R), \A x \in T : f[x] = h[x]
    PROVE  g[T] = k[T]
<1> DEFINE Bad == {u \in SUBSET T : g[u] # k[u]}
<1>1. SUFFICES ASSUME Bad # {} PROVE FALSE
  <2>1. T \notin Bad
      BY <1>1
  <2> QED BY <2>1
<1>2. PICK t \in Bad : \A u \in Bad : u \subseteq t => u = t
  <2>1. Bad \subseteq SUBSET T
      OBVIOUS
  <2> HIDE DEF Bad
  <2> QED BY <1>1, <2>1, LeastSubset
<1>3. t \subseteq T /\ t \subseteq S /\ t \subseteq R /\ g[t] # k[t]
    OBVIOUS
<1>4. t # {}
    BY <1>3, AddsStep
<1> DEFINE r == t \ {Picked(t)}
<1>5. /\ Picked(t) \in t /\ r \subseteq t /\ r # t
      /\ g[t] = f[Picked(t)] + g[r] /\ k[t] = h[Picked(t)] + k[r]
  <2>1. Picked(t) \in t /\ r \subseteq t /\ r # t /\ g[t] = f[Picked(t)] + g[r]
      BY <1>3, <1>4, AddsStep
  <2>2. k[t] = h[Picked(t)] + k[r]
      BY <1>3, <1>4, AddsStep
  <2> QED BY <2>1, <2>2
<1>6. g[r] = k[r]
  <2>1. r \in SUBSET T /\ r \notin Bad
      BY <1>2, <1>3, <1>5
  <2> QED BY <2>1
<1>7. f[Picked(t)] = h[Picked(t)]
    BY <1>3, <1>5
<1> QED BY <1>3, <1>5, <1>6, <1>7

(* A sum of integers is one. *)
LEMMA AddsType ==
    ASSUME NEW T, IsFiniteSet(T), NEW S, T \subseteq S, NEW f, NEW g, Adds(g, f, S), \A x \in T : f[x] \in Int
    PROVE  g[T] \in Int
<1> DEFINE Bad == {u \in SUBSET T : g[u] \notin Int}
<1>1. SUFFICES ASSUME Bad # {} PROVE FALSE
  <2>1. T \notin Bad
      BY <1>1
  <2> QED BY <2>1
<1>2. PICK t \in Bad : \A u \in Bad : u \subseteq t => u = t
  <2>1. Bad \subseteq SUBSET T
      OBVIOUS
  <2> HIDE DEF Bad
  <2> QED BY <1>1, <2>1, LeastSubset
<1>3. t \subseteq T /\ t \subseteq S /\ g[t] \notin Int
    OBVIOUS
<1>4. t # {}
    BY <1>3, AddsStep
<1> DEFINE r == t \ {Picked(t)}
<1>5. /\ Picked(t) \in t /\ r \subseteq t /\ r # t
      /\ g[t] = f[Picked(t)] + g[r]
    BY <1>3, <1>4, AddsStep
<1>6. g[r] \in Int
  <2>1. r \in SUBSET T /\ r \notin Bad
      BY <1>2, <1>3, <1>5
  <2> QED BY <2>1
<1>7. f[Picked(t)] \in Int
    BY <1>3, <1>5
<1> QED BY <1>3, <1>5, <1>6, <1>7

(* Any element may be added last. *)
LEMMA AddsAny ==
    ASSUME NEW T, IsFiniteSet(T), NEW S, T \subseteq S, NEW f, NEW g, Adds(g, f, S),
           \A y \in T : f[y] \in Int, NEW x \in T
    PROVE  g[T] = f[x] + g[T \ {x}]
<1> DEFINE Bad == {u \in SUBSET T : \E y \in u : g[u] # f[y] + g[u \ {y}]}
<1>1. SUFFICES ASSUME Bad # {} PROVE FALSE
  <2>1. T \notin Bad
      BY <1>1
  <2> QED BY <2>1
<1>2. PICK t \in Bad : \A u \in Bad : u \subseteq t => u = t
  <2>1. Bad \subseteq SUBSET T
      OBVIOUS
  <2> HIDE DEF Bad
  <2> QED BY <1>1, <2>1, LeastSubset
<1>3. PICK y \in t : g[t] # f[y] + g[t \ {y}]
    OBVIOUS
<1>4. t \subseteq T /\ t \subseteq S /\ t # {}
    OBVIOUS
<1> DEFINE p == Picked(t)
           both == t \ {p, y}
<1>5. /\ p \in t /\ g[t] = f[p] + g[t \ {p}]
    BY <1>4, AddsStep
<1>6. y # p
    BY <1>3, <1>5
<1>7. g[t \ {p}] = f[y] + g[both]
  <2>1. t \ {p} \in SUBSET T /\ t \ {p} # t /\ y \in t \ {p} /\ (t \ {p}) \ {y} = both
      BY <1>4, <1>5, <1>6
  <2>2. t \ {p} \notin Bad
      BY <1>2, <2>1
  <2> QED BY <2>1, <2>2
<1>8. g[t \ {y}] = f[p] + g[both]
  <2>1. t \ {y} \in SUBSET T /\ t \ {y} # t /\ p \in t \ {y} /\ (t \ {y}) \ {p} = both
      BY <1>4, <1>5, <1>6
  <2>2. t \ {y} \notin Bad
      BY <1>2, <2>1
  <2> QED BY <2>1, <2>2
<1>9. f[p] \in Int /\ f[y] \in Int /\ g[both] \in Int
  <2>1. both \subseteq T /\ both \subseteq S /\ IsFiniteSet(both)
      BY <1>4, FS_Subset
  <2>2. g[both] \in Int
      BY <2>1, AddsType
  <2> QED BY <1>4, <1>5, <2>2
<1> QED BY <1>3, <1>5, <1>7, <1>8, <1>9

(* There is such a function. *)
LEMMA AddsExists ==
    ASSUME NEW S, IsFiniteSet(S), NEW f
    PROVE  \E g : Adds(g, f, S)
<1> DEFINE Bad == {u \in SUBSET S : ~ \E g : Adds(g, f, u)}
<1>1. SUFFICES ASSUME Bad # {} PROVE FALSE
  <2>1. S \notin Bad
      BY <1>1
  <2> QED BY <2>1
<1>2. PICK t \in Bad : \A u \in Bad : u \subseteq t => u = t
  <2>1. Bad \subseteq SUBSET S
      OBVIOUS
  <2> HIDE DEF Bad
  <2> QED BY <1>1, <2>1, LeastSubset
<1>3. t \subseteq S /\ ~ \E g : Adds(g, f, t)
    OBVIOUS
<1>4. \A u \in SUBSET t : u # t => \E g : Adds(g, f, u)
  <2> TAKE u \in SUBSET t
  <2>1. u \in SUBSET S /\ (u # t => u \notin Bad)
      BY <1>2, <1>3
  <2> QED BY <2>1
<1> DEFINE below(u) == CHOOSE g : Adds(g, f, u)
           r == t \ {Picked(t)}
           low(u) == below(u)[u]
           G == [u \in SUBSET t |-> IF u # t THEN low(u)
                                    ELSE IF t = {} THEN 0 ELSE f[Picked(t)] + low(r)]
<1>5. \A u \in SUBSET t : u # t => Adds(below(u), f, u)
    BY <1>4
<1>6. ASSUME NEW u \in SUBSET t
      PROVE  G[u] = IF u = {} THEN 0 ELSE f[Picked(u)] + G[u \ {Picked(u)}]
  <2> DEFINE v == u \ {Picked(u)}
  <2>1. u # {} => Picked(u) \in u
      BY DEF Picked
  <2>2. v \in SUBSET t /\ (u # {} => v # t /\ v # u)
      BY <2>1
  <2>3. u # {} => G[v] = low(v)
      BY <2>2
  <2>4. CASE u = t
    <3>1. G[u] = IF t = {} THEN 0 ELSE f[Picked(t)] + low(r)
        BY <2>4
    <3> QED BY <3>1, <2>3, <2>4
  <2>5. CASE u # t
    <3>1. G[u] = below(u)[u] /\ Adds(below(u), f, u)
        BY <2>5, <1>5
    <3>2. u = {} => below(u)[u] = 0
        BY <3>1, AddsStep
    <3>3. ASSUME u # {} PROVE below(u)[u] = f[Picked(u)] + G[v]
      <4>1. below(u)[u] = f[Picked(u)] + below(u)[v]
          BY <3>1, <3>3, AddsStep
      <4>2. Adds(below(v), f, v) /\ IsFiniteSet(v)
          BY <1>5, <2>2, <3>3, <1>3, FS_Subset
      <4>3. below(u)[v] = below(v)[v]
        <5> HIDE DEF below
        <5> QED BY <3>1, <4>2, AddsSame
      <4> QED BY <4>1, <4>3, <2>3, <3>3
    <3> QED BY <3>1, <3>2, <3>3
  <2> QED BY <2>4, <2>5
<1>7. Adds(G, f, t)
  <2> DEFINE H == [u \in SUBSET t |-> IF u = {} THEN 0 ELSE f[Picked(u)] + G[u \ {Picked(u)}]]
  <2>1. G = [u \in SUBSET t |-> G[u]]
      OBVIOUS
  <2> HIDE DEF G
  <2>2. G = H
      BY <2>1, <1>6
  <2> QED BY <2>2 DEF Adds
<1> QED BY <1>3, <1>7

LEMMA SumAdds ==
    ASSUME NEW S, IsFiniteSet(S), NEW f
    PROVE  \E g : Adds(g, f, S) /\ Sum(f, S) = g[S]
<1>1. Sum(f, S) = (CHOOSE g : Adds(g, f, S))[S]
    BY DEF Sum, MapThenSumSet, MapThenFoldSet, Adds, Picked
<1>2. \E g : Adds(g, f, S)
    BY AddsExists
<1> QED BY <1>1, <1>2

LEMMA SumType ==
    ASSUME NEW S, IsFiniteSet(S), NEW f, \A x \in S : f[x] \in Int
    PROVE  Sum(f, S) \in Int
<1>1. PICK g : Adds(g, f, S) /\ Sum(f, S) = g[S]
    BY SumAdds
<1> QED BY <1>1, AddsType

LEMMA SumEmpty == \A f : Sum(f, {}) = 0
<1> TAKE f
<1>1. PICK g : Adds(g, f, {}) /\ Sum(f, {}) = g[{}]
    BY SumAdds, FS_EmptySet
<1> QED BY <1>1, AddsStep

(* Equal summands have equal sums. *)
LEMMA SumSame ==
    ASSUME NEW S, IsFiniteSet(S), NEW f, NEW h, \A x \in S : f[x] = h[x]
    PROVE  Sum(f, S) = Sum(h, S)
<1>1. PICK g : Adds(g, f, S) /\ Sum(f, S) = g[S]
    BY SumAdds
<1>2. PICK k : Adds(k, h, S) /\ Sum(h, S) = k[S]
    BY SumAdds
<1> QED BY <1>1, <1>2, AddsSame

(* Any summand may be taken out. *)
LEMMA SumWithout ==
    ASSUME NEW S, IsFiniteSet(S), NEW f, \A y \in S : f[y] \in Int, NEW x \in S
    PROVE  Sum(f, S) = f[x] + Sum(f, S \ {x})
<1> DEFINE T == S \ {x}
<1>1. PICK g : Adds(g, f, S) /\ Sum(f, S) = g[S]
    BY SumAdds
<1>2. IsFiniteSet(T) /\ T \subseteq S
    BY FS_RemoveElement
<1>3. PICK k : Adds(k, f, T) /\ Sum(f, T) = k[T]
    BY <1>2, SumAdds
<1>4. g[T] = k[T]
    BY <1>1, <1>2, <1>3, AddsSame
<1>5. g[S] = f[x] + g[T]
    BY <1>1, AddsAny
<1> QED BY <1>1, <1>3, <1>4, <1>5

(* A change of one summand changes the sum by as much. *)
LEMMA SumChange ==
    ASSUME NEW S, IsFiniteSet(S), NEW f \in [S -> Int], NEW h \in [S -> Int], NEW x \in S,
           \A y \in S : y # x => h[y] = f[y]
    PROVE  Sum(h, S) = Sum(f, S) + h[x] - f[x]
<1>1. IsFiniteSet(S \ {x})
    BY FS_RemoveElement
<1>2. Sum(h, S) = h[x] + Sum(h, S \ {x}) /\ Sum(f, S) = f[x] + Sum(f, S \ {x})
    BY SumWithout
<1>3. Sum(h, S \ {x}) = Sum(f, S \ {x}) /\ Sum(f, S \ {x}) \in Int
    BY <1>1, SumSame, SumType
<1> QED BY <1>2, <1>3

(* What two summands exchange leaves the sum alone. *)
Exchanged(f, h, S, x, y) ==
    x # y /\ h[x] + h[y] = f[x] + f[y] /\ \A z \in S \ {x, y} : h[z] = f[z]

LEMMA SumExchange ==
    ASSUME NEW S, IsFiniteSet(S), NEW f \in [S -> Int], NEW h \in [S -> Int], NEW x \in S, NEW y \in S,
           Exchanged(f, h, S, x, y)
    PROVE  Sum(h, S) = Sum(f, S)
<1> DEFINE m == [f EXCEPT ![x] = h[x]]
<1>1. m \in [S -> Int] /\ m[x] = h[x] /\ m[y] = f[y] /\ \A z \in S : z # x => m[z] = f[z]
    BY DEF Exchanged
<1>2. \A z \in S : z # y => h[z] = m[z]
    BY <1>1 DEF Exchanged
<1> HIDE DEF m
<1>3. Sum(m, S) = Sum(f, S) + m[x] - f[x]
    BY <1>1, SumChange
<1>4. Sum(h, S) = Sum(m, S) + h[y] - m[y]
    BY <1>1, <1>2, SumChange
<1>5. h[x] \in Int /\ h[y] \in Int /\ f[x] \in Int /\ f[y] \in Int
    OBVIOUS
<1>6. Sum(f, S) \in Int /\ Sum(m, S) \in Int
  <2>1. (\A z \in S : f[z] \in Int) /\ (\A z \in S : m[z] \in Int)
      BY <1>1
  <2> QED BY <2>1, SumType
<1>7. h[x] + h[y] = f[x] + f[y] /\ m[x] = h[x] /\ m[y] = f[y]
    BY <1>1 DEF Exchanged
<1> HIDE DEF m
<1> QED BY <1>3, <1>4, <1>5, <1>6, <1>7

(* Summands that are zero need not be added. *)
LEMMA SumOfParts ==
    ASSUME NEW S, IsFiniteSet(S), NEW T \in SUBSET S, NEW f \in [S -> Int], \A y \in S \ T : f[y] = 0
    PROVE  Sum(f, T) = Sum(f, S)
<1> DEFINE Bad == {u \in SUBSET S : T \subseteq u /\ Sum(f, u) # Sum(f, T)}
<1>1. SUFFICES ASSUME Bad # {} PROVE FALSE
  <2>1. S \notin Bad
      BY <1>1
  <2> QED BY <2>1
<1>2. PICK t \in Bad : \A u \in Bad : u \subseteq t => u = t
  <2>1. Bad \subseteq SUBSET S
      OBVIOUS
  <2> HIDE DEF Bad
  <2> QED BY <1>1, <2>1, LeastSubset
<1>3. t \subseteq S /\ T \subseteq t /\ Sum(f, t) # Sum(f, T) /\ t # T
    OBVIOUS
<1>4. PICK x \in t : x \notin T
    BY <1>3
<1>5. IsFiniteSet(t) /\ IsFiniteSet(t \ {x}) /\ \A y \in t : f[y] \in Int
    BY <1>3, FS_Subset, FS_RemoveElement
<1>6. Sum(f, t) = 0 + Sum(f, t \ {x}) /\ Sum(f, t \ {x}) \in Int
  <2>1. f[x] = 0
      BY <1>3, <1>4
  <2> QED BY <1>5, <2>1, SumWithout, SumType
<1>7. t \ {x} \in SUBSET S /\ T \subseteq t \ {x} /\ t \ {x} # t
    BY <1>3, <1>4
<1>8. Sum(f, t \ {x}) = Sum(f, T)
    BY <1>2, <1>7
<1> QED BY <1>3, <1>6, <1>8

(* Larger summands have larger sums. *)
LEMMA SumOrder ==
    ASSUME NEW S, IsFiniteSet(S), NEW f \in [S -> Int], NEW h \in [S -> Int],
           \A x \in S : f[x] <= h[x]
    PROVE  Sum(f, S) <= Sum(h, S)
<1> DEFINE Bad == {u \in SUBSET S : ~ (Sum(f, u) <= Sum(h, u))}
<1>1. SUFFICES ASSUME Bad # {} PROVE FALSE
  <2>1. S \notin Bad
      BY <1>1
  <2> QED BY <2>1
<1>2. PICK t \in Bad : \A u \in Bad : u \subseteq t => u = t
  <2>1. Bad \subseteq SUBSET S
      OBVIOUS
  <2> HIDE DEF Bad
  <2> QED BY <1>1, <2>1, LeastSubset
<1>3. t \subseteq S /\ ~ (Sum(f, t) <= Sum(h, t))
    OBVIOUS
<1>4. t # {}
    BY <1>3, SumEmpty
<1>5. PICK x \in t : TRUE
    BY <1>4
<1>6. /\ IsFiniteSet(t) /\ IsFiniteSet(t \ {x})
      /\ \A y \in t : f[y] \in Int /\ h[y] \in Int
    BY <1>3, FS_Subset, FS_RemoveElement
<1>7. /\ Sum(f, t) = f[x] + Sum(f, t \ {x}) /\ Sum(f, t \ {x}) \in Int
      /\ Sum(h, t) = h[x] + Sum(h, t \ {x}) /\ Sum(h, t \ {x}) \in Int
    BY <1>6, SumWithout, SumType
<1>8. Sum(f, t \ {x}) <= Sum(h, t \ {x})
    BY <1>2, <1>3
<1>9. f[x] \in Int /\ h[x] \in Int /\ f[x] <= h[x]
    BY <1>3
<1> QED BY <1>3, <1>7, <1>8, <1>9

(* A sum that a fold over a set of something else than applications of f works out. *)
LEMMA AddsIsSum ==
    ASSUME NEW S, IsFiniteSet(S), NEW f, NEW g, Adds(g, f, S)
    PROVE  g[S] = Sum(f, S)
<1>1. PICK k : Adds(k, f, S) /\ Sum(f, S) = k[S]
    BY SumAdds
<1> QED BY <1>1, AddsSame

(* A sum of what is not negative is not. *)
LEMMA SumNotNegative ==
    ASSUME NEW S, IsFiniteSet(S), NEW f \in [S -> Int], \A x \in S : 0 <= f[x]
    PROVE  Sum(f, S) \in Nat
<1> DEFINE z == [x \in S |-> 0]
<1>1. z \in [S -> Int] /\ \A x \in S : z[x] = 0
    OBVIOUS
<1> HIDE DEF z
<1>2. Sum(z, {}) = Sum(z, S)
    BY <1>1, SumOfParts
<1>3. Sum(z, S) <= Sum(f, S)
    BY <1>1, SumOrder
<1>4. Sum(f, S) \in Int /\ Sum(z, {}) = 0
    BY SumType, SumEmpty
<1> QED BY <1>2, <1>3, <1>4

(* The sums over the first elements of a sequence of numbers. *)
LEMMA SumUpTo ==
    ASSUME NEW N \in Nat, NEW f \in [1 .. N -> Int], NEW i \in 1 .. N
    PROVE  /\ Sum(f, 1 .. i - 1) \in Int
           /\ Sum(f, 1 .. i) = Sum(f, 1 .. i - 1) + f[i]
<1> DEFINE S == 1 .. i
           T == 1 .. i - 1
<1>1. IsFiniteSet(S) /\ IsFiniteSet(T)
    BY FS_Interval
<1>2. S \ {i} = T /\ i \in S
    OBVIOUS
<1>3. (\A j \in S : f[j] \in Int) /\ (\A j \in T : f[j] \in Int) /\ f[i] \in Int
    OBVIOUS
<1> HIDE DEF S, T
<1>4. Sum(f, S) = f[i] + Sum(f, S \ {i})
    BY <1>1, <1>2, <1>3, SumWithout
<1>5. Sum(f, T) \in Int
    BY <1>1, <1>3, SumType
<1>6. Sum(f, S) = f[i] + Sum(f, T)
    BY <1>2, <1>4, Zenon
<1> QED BY <1>3, <1>5, <1>6 DEF S, T
=============================================================================
