----------------------------- MODULE SumTheorems -----------------------------
(***************************************************************************)
(* What SumFunctionOnSet of the community modules computes.  It is a fold  *)
(* over a finite set that takes the elements in an order nobody knows; the *)
(* proofs about money, quantities and counters need to know what happens   *)
(* to a sum when one element comes, goes or changes.  Induction is by the  *)
(* smallest counterexample, as induction theorems that take a predicate as *)
(* a parameter are out of the provers' reach.                              *)
(***************************************************************************)
EXTENDS Integers, FiniteSets, Functions, FiniteSetTheorems, WellFoundedInduction, TLAPS

(* What holds of the empty set and spreads to larger ones holds of all: among *)
(* the subsets of a finite set that fail, one is smallest.                   *)
LEMMA SmallestSet ==
  ASSUME NEW S, IsFiniteSet(S), NEW Bad, Bad \subseteq SUBSET S, Bad # {}
  PROVE  \E T \in Bad : \A U \in Bad : U \subseteq T => U = T
<1>1. FiniteSubsetsOf(S) = SUBSET S
  BY FS_FiniteSubsetsOfFinite
<1>2. IsWellFoundedOn(StrictSubsetOrdering(S), SUBSET S)
  BY <1>1, FS_StrictSubsetOrderingWellFounded
<1>3. \E T \in Bad : \A U \in Bad : ~(<<U, T>> \in StrictSubsetOrdering(S))
  BY <1>2, WFMin
<1> QED BY <1>3 DEF StrictSubsetOrdering

(* The smallest of the numbers up to n that are in S: the set of the numbers *)
(* up to it is the smallest of its kind.                                     *)
LEMMA SmallestNumber ==
  ASSUME NEW n \in Nat, NEW S, S \subseteq 1 .. n, S # {}
  PROVE  \E x \in S : \A y \in S : x <= y
<1> DEFINE All == 1 .. n
           Upto(x) == {j \in All : j <= x}
           Bad == {Upto(x) : x \in S}
<1>1. IsFiniteSet(All)
  BY FS_Interval
<1>2. Bad \subseteq SUBSET All /\ Bad # {}
  <2>1. \A x \in S : Upto(x) \in SUBSET All
    OBVIOUS
  <2>2. \E x \in S : Upto(x) \in Bad
    OBVIOUS
  <2> QED BY <2>1, <2>2
<1>3. PICK T \in Bad : \A U \in Bad : U \subseteq T => U = T
  <2> HIDE DEF Bad, All
  <2> QED BY <1>1, <1>2, SmallestSet
<1>4. PICK x \in S : T = Upto(x)
  OBVIOUS
<1>5. ASSUME NEW y \in S, y < x PROVE FALSE
  <2>1. Upto(y) \in Bad /\ Upto(y) \subseteq Upto(x)
    BY <1>5
  <2>2. Upto(y) = Upto(x)
    BY <1>3, <1>4, <2>1, Zenon
  <2> QED BY <2>2, <1>5
<1> QED BY <1>5

(* What holds of 0, and of a number when of the one before it, holds of all. *)
LEMMA CountingUp ==
  ASSUME NEW n \in Nat, NEW S, 0 \in S, \A k \in 1 .. n : k - 1 \in S => k \in S
  PROVE  \A k \in 0 .. n : k \in S
<1> DEFINE Bad == (1 .. n) \ S
<1>1. SUFFICES ASSUME Bad # {} PROVE FALSE
  OBVIOUS
<1>2. PICK x \in Bad : \A y \in Bad : x <= y
  <2>1. Bad \subseteq 1 .. n
    OBVIOUS
  <2> HIDE DEF Bad
  <2> QED BY <1>1, <2>1, SmallestNumber
<1>3. x - 1 \notin S /\ x \in 1 .. n
  OBVIOUS
<1>4. x - 1 # 0 /\ x - 1 \in 1 .. n
  BY <1>3
<1>5. x - 1 \in Bad
  BY <1>3, <1>4
<1> QED BY <1>2, <1>3, <1>5

(* The element the fold takes first, and the table of its partial sums.      *)
Pick(s) == CHOOSE x \in s : TRUE

IsSum(f, F, S) ==
  f = [s \in SUBSET S |-> IF s = {} THEN 0 ELSE F[Pick(s)] + f[s \ {Pick(s)}]]

LEMMA PickIn == ASSUME NEW s, s # {} PROVE Pick(s) \in s
  BY DEF Pick

(* Two tables of partial sums agree wherever both are defined.               *)
LEMMA SameSum ==
  ASSUME NEW S, IsFiniteSet(S), NEW T, NEW F, NEW f, IsSum(f, F, S), NEW g, IsSum(g, F, T),
         NEW U, U \subseteq S, U \subseteq T
  PROVE  f[U] = g[U]
<1> DEFINE Bad == {V \in SUBSET S : V \subseteq T /\ f[V] # g[V]}
<1>1. SUFFICES Bad = {}
  OBVIOUS
<1>2. SUFFICES ASSUME Bad # {} PROVE FALSE
  OBVIOUS
<1>3. PICK V \in Bad : \A W \in Bad : W \subseteq V => W = V
  <2>1. Bad \subseteq SUBSET S
    OBVIOUS
  <2> HIDE DEF Bad
  <2> QED BY <1>2, <2>1, SmallestSet
<1>4. \A s \in SUBSET S : f[s] = IF s = {} THEN 0 ELSE F[Pick(s)] + f[s \ {Pick(s)}]
  BY Zenon DEF IsSum
<1>5. \A s \in SUBSET T : g[s] = IF s = {} THEN 0 ELSE F[Pick(s)] + g[s \ {Pick(s)}]
  BY Zenon DEF IsSum
<1>6. V # {}
  BY <1>4, <1>5
<1>7. Pick(V) \in V
  BY <1>6, PickIn
<1> DEFINE W == V \ {Pick(V)}
<1>8. f[W] = g[W]
  BY <1>3, <1>7
<1> QED BY <1>3, <1>4, <1>5, <1>6, <1>8

(* The table that the fold's recursion describes exists.                     *)
LEMMA SumExists ==
  ASSUME NEW F, NEW S, IsFiniteSet(S)
  PROVE  \E f : IsSum(f, F, S)
<1> DEFINE Bad == {T \in SUBSET S : ~\E f : IsSum(f, F, T)}
<1>1. SUFFICES ASSUME Bad # {} PROVE FALSE
  OBVIOUS
<1>2. PICK T \in Bad : \A U \in Bad : U \subseteq T => U = T
  <2>1. Bad \subseteq SUBSET S
    OBVIOUS
  <2> HIDE DEF Bad
  <2> QED BY <1>1, <2>1, SmallestSet
<1> DEFINE it(U) == CHOOSE f : IsSum(f, F, U)
           g == [s \in SUBSET T |-> IF s = {} THEN 0
                   ELSE F[Pick(s)] + it(s \ {Pick(s)})[s \ {Pick(s)}]]
<1>3. ASSUME NEW U, U \subseteq T, U # T PROVE IsSum(it(U), F, U)
  <2>1. \E f : IsSum(f, F, U)
    BY <1>2, <1>3
  <2> QED BY <2>1
<1>4. ASSUME NEW s, s \subseteq T, s # T PROVE g[s] = it(s)[s]
  <2>1. IsSum(it(s), F, s)
    BY <1>3, <1>4
  <2> HIDE DEF it
  <2>2. it(s)[s] = IF s = {} THEN 0 ELSE F[Pick(s)] + it(s)[s \ {Pick(s)}]
    BY <2>1, Zenon DEF IsSum
  <2>3. CASE s = {}
    BY <2>2, <2>3
  <2>4. CASE s # {}
    <3> DEFINE u == s \ {Pick(s)}
    <3>1. u \subseteq s /\ u # T
      BY <1>4, <2>4, PickIn
    <3>2. IsSum(it(u), F, u)
      BY <1>3, <1>4, <3>1
    <3>3. IsFiniteSet(s)
      BY <1>2, <1>4, FS_Subset
    <3>4. it(s)[u] = it(u)[u]
      BY <2>1, <3>1, <3>2, <3>3, SameSum
    <3> QED BY <1>4, <2>2, <2>4, <3>4
  <2> QED BY <2>3, <2>4
<1>5. \A s \in SUBSET T : g[s] = IF s = {} THEN 0 ELSE F[Pick(s)] + g[s \ {Pick(s)}]
  <2>1. \A s \in SUBSET T :
          g[s] = IF s = {} THEN 0 ELSE F[Pick(s)] + it(s \ {Pick(s)})[s \ {Pick(s)}]
    BY Zenon
  <2> HIDE DEF it, g
  <2>2. ASSUME NEW s \in SUBSET T, s # {}
        PROVE  g[s \ {Pick(s)}] = it(s \ {Pick(s)})[s \ {Pick(s)}]
    <3>1. s \ {Pick(s)} \subseteq T /\ s \ {Pick(s)} # T
      BY <2>2, PickIn
    <3> QED BY <1>4, <3>1
  <2> QED BY <2>1, <2>2
<1>6. IsSum(g, F, T)
  <2>1. g = [s \in SUBSET T |-> g[s]]
    OBVIOUS
  <2> HIDE DEF g
  <2> QED BY <1>5, <2>1 DEF IsSum
<1> QED BY <1>2, <1>6

(* ... and its last entry is the sum.                                        *)
LEMMA SumIs ==
  ASSUME NEW F, NEW S, IsFiniteSet(S), NEW f, IsSum(f, F, S)
  PROVE  SumFunctionOnSet(F, S) = f[S]
<1> DEFINE it == CHOOSE g : IsSum(g, F, S)
<1>1. IsSum(it, F, S)
  OBVIOUS
<1>2. SumFunctionOnSet(F, S) = it[S]
  BY Zenon DEF SumFunctionOnSet, FoldFunctionOnSet, MapThenFoldSet, IsSum, Pick
<1> HIDE DEF it
<1> QED BY <1>1, <1>2, SameSum

-----------------------------------------------------------------------------
(* Facts about sums, whatever order the fold takes the elements in.          *)
LEMMA SumEmpty == ASSUME NEW F PROVE SumFunctionOnSet(F, {}) = 0
<1>1. PICK f : IsSum(f, F, {})
  BY SumExists, FS_EmptySet
<1>2. f[{}] = 0
  BY <1>1, Zenon DEF IsSum
<1> QED BY <1>1, <1>2, SumIs, FS_EmptySet

LEMMA SumFirst ==
  ASSUME NEW F, NEW S, IsFiniteSet(S), S # {}
  PROVE  SumFunctionOnSet(F, S) = F[Pick(S)] + SumFunctionOnSet(F, S \ {Pick(S)})
<1> DEFINE T == S \ {Pick(S)}
<1>1. IsFiniteSet(T) /\ T \subseteq S
  BY FS_Subset
<1>2. PICK f : IsSum(f, F, S)
  BY SumExists
<1>3. PICK g : IsSum(g, F, T)
  BY <1>1, SumExists
<1>4. f[S] = F[Pick(S)] + f[T]
  BY <1>2, Zenon DEF IsSum
<1>5. f[T] = g[T]
  BY <1>1, <1>2, <1>3, SameSum
<1>6. SumFunctionOnSet(F, S) = f[S]
  BY <1>2, SumIs
<1>7. SumFunctionOnSet(F, T) = g[T]
  BY <1>1, <1>3, SumIs
<1> QED BY <1>4, <1>5, <1>6, <1>7

LEMMA SumType ==
  ASSUME NEW F, NEW S, IsFiniteSet(S), \A x \in S : F[x] \in Int
  PROVE  SumFunctionOnSet(F, S) \in Int
<1> DEFINE Bad == {T \in SUBSET S : SumFunctionOnSet(F, T) \notin Int}
<1>1. SUFFICES ASSUME Bad # {} PROVE FALSE
  OBVIOUS
<1>2. PICK T \in Bad : \A U \in Bad : U \subseteq T => U = T
  <2>1. Bad \subseteq SUBSET S
    OBVIOUS
  <2> HIDE DEF Bad
  <2> QED BY <1>1, <2>1, SmallestSet
<1>3. T # {}
  <2>1. SumFunctionOnSet(F, {}) = 0 /\ SumFunctionOnSet(F, {}) \in Int
    BY SumEmpty
  <2> SUFFICES ASSUME T = {} PROVE FALSE
    OBVIOUS
  <2> QED BY <1>2, <2>1
<1>4. Pick(T) \in T /\ IsFiniteSet(T)
  BY <1>2, <1>3, PickIn, FS_Subset
<1>5. SumFunctionOnSet(F, T \ {Pick(T)}) \in Int
  BY <1>2, <1>4
<1>6. SumFunctionOnSet(F, T) = F[Pick(T)] + SumFunctionOnSet(F, T \ {Pick(T)})
  BY <1>3, <1>4, SumFirst
<1> QED BY <1>2, <1>4, <1>5, <1>6

(* Any element may be taken first.                                           *)
LEMMA SumRemove ==
  ASSUME NEW F, NEW S, IsFiniteSet(S), \A x \in S : F[x] \in Int, NEW x \in S
  PROVE  SumFunctionOnSet(F, S) = F[x] + SumFunctionOnSet(F, S \ {x})
<1> DEFINE Sum(T) == SumFunctionOnSet(F, T)
           Bad == {T \in SUBSET S : \E y \in T : Sum(T) # F[y] + Sum(T \ {y})}
<1>1. SUFFICES ASSUME Bad # {} PROVE FALSE
  OBVIOUS
<1>2. PICK T \in Bad : \A U \in Bad : U \subseteq T => U = T
  <2>1. Bad \subseteq SUBSET S
    OBVIOUS
  <2> HIDE DEF Bad
  <2> QED BY <1>1, <2>1, SmallestSet
<1>3. PICK y \in T : Sum(T) # F[y] + Sum(T \ {y})
  BY <1>2
<1> DEFINE p == Pick(T)
<1>4. p \in T /\ IsFiniteSet(T) /\ T \subseteq S
  BY <1>2, <1>3, PickIn, FS_Subset
<1>5. Sum(T) = F[p] + Sum(T \ {p})
  BY <1>3, <1>4, SumFirst
<1>6. p # y
  BY <1>3, <1>5
<1>a. \A U \in SUBSET T : U # T => \A z \in U : Sum(U) = F[z] + Sum(U \ {z})
  BY <1>2
<1> HIDE DEF Sum, p, Bad
<1>7. Sum(T \ {p}) = F[y] + Sum((T \ {p}) \ {y})
  <2>1. T \ {p} \in SUBSET T /\ T \ {p} # T /\ y \in T \ {p}
    BY <1>4, <1>6
  <2> QED BY <1>a, <2>1, Zenon
<1>8. Sum(T \ {y}) = F[p] + Sum((T \ {y}) \ {p})
  <2>1. T \ {y} \in SUBSET T /\ T \ {y} # T /\ p \in T \ {y}
    BY <1>4, <1>6
  <2> QED BY <1>a, <2>1, Zenon
<1>9. Sum((T \ {p}) \ {y}) = Sum((T \ {y}) \ {p})
  <2>1. (T \ {p}) \ {y} = (T \ {y}) \ {p}
    OBVIOUS
  <2> QED BY <2>1, Zenon
<1>10. Sum((T \ {y}) \ {p}) \in Int
  <2>1. (T \ {y}) \ {p} \subseteq S
    BY <1>4
  <2>2. IsFiniteSet((T \ {y}) \ {p})
    BY <2>1, FS_Subset
  <2> QED BY <2>1, <2>2, SumType DEF Sum
<1>11. F[p] \in Int /\ F[y] \in Int
  BY <1>3, <1>4
<1> QED BY <1>3, <1>5, <1>7, <1>8, <1>9, <1>10, <1>11

(* Adding an element.                                                        *)
LEMMA SumAdd ==
  ASSUME NEW F, NEW S, IsFiniteSet(S), \A y \in S : F[y] \in Int,
         NEW x, x \notin S, F[x] \in Int
  PROVE  SumFunctionOnSet(F, S \cup {x}) = SumFunctionOnSet(F, S) + F[x]
<1>1. IsFiniteSet(S \cup {x}) /\ (S \cup {x}) \ {x} = S
  BY FS_AddElement
<1>2. SumFunctionOnSet(F, S) \in Int
  BY SumType
<1>3. SumFunctionOnSet(F, S \cup {x}) = F[x] + SumFunctionOnSet(F, (S \cup {x}) \ {x})
  BY <1>1, SumRemove
<1>4. SumFunctionOnSet(F, S \cup {x}) = F[x] + SumFunctionOnSet(F, S)
  BY <1>1, <1>3, Zenon
<1> QED BY <1>2, <1>4

(* Only the values on the set count.                                         *)
LEMMA SumSame ==
  ASSUME NEW F, NEW G, NEW S, IsFiniteSet(S), \A x \in S : F[x] = G[x]
  PROVE  SumFunctionOnSet(F, S) = SumFunctionOnSet(G, S)
<1> DEFINE Bad == {T \in SUBSET S : SumFunctionOnSet(F, T) # SumFunctionOnSet(G, T)}
<1>1. SUFFICES ASSUME Bad # {} PROVE FALSE
  OBVIOUS
<1>2. PICK T \in Bad : \A U \in Bad : U \subseteq T => U = T
  <2>1. Bad \subseteq SUBSET S
    OBVIOUS
  <2> HIDE DEF Bad
  <2> QED BY <1>1, <2>1, SmallestSet
<1>3. T # {}
  <2>1. SumFunctionOnSet(F, {}) = 0 /\ SumFunctionOnSet(G, {}) = 0
    BY SumEmpty
  <2> SUFFICES ASSUME T = {} PROVE FALSE
    OBVIOUS
  <2> QED BY <1>2, <2>1
<1>4. Pick(T) \in T /\ IsFiniteSet(T)
  BY <1>2, <1>3, PickIn, FS_Subset
<1>5. SumFunctionOnSet(F, T \ {Pick(T)}) = SumFunctionOnSet(G, T \ {Pick(T)})
  BY <1>2, <1>4
<1>6. /\ SumFunctionOnSet(F, T) = F[Pick(T)] + SumFunctionOnSet(F, T \ {Pick(T)})
      /\ SumFunctionOnSet(G, T) = G[Pick(T)] + SumFunctionOnSet(G, T \ {Pick(T)})
  BY <1>3, <1>4, SumFirst
<1> QED BY <1>2, <1>4, <1>5, <1>6

(* Changing the value of one element.                                        *)
LEMMA SumChange ==
  ASSUME NEW F, NEW G, NEW S, IsFiniteSet(S), NEW x \in S,
         \A y \in S : F[y] \in Int /\ G[y] \in Int, \A y \in S \ {x} : F[y] = G[y]
  PROVE  SumFunctionOnSet(G, S) = SumFunctionOnSet(F, S) + (G[x] - F[x])
<1>1. IsFiniteSet(S \ {x})
  BY FS_Subset
<1>2. SumFunctionOnSet(F, S \ {x}) = SumFunctionOnSet(G, S \ {x})
  BY <1>1, SumSame
<1>3. SumFunctionOnSet(F, S \ {x}) \in Int
  BY <1>1, SumType
<1>4. SumFunctionOnSet(F, S) = F[x] + SumFunctionOnSet(F, S \ {x})
  BY SumRemove
<1>5. SumFunctionOnSet(G, S) = G[x] + SumFunctionOnSet(G, S \ {x})
  BY SumRemove
<1> QED BY <1>2, <1>3, <1>4, <1>5

(* Larger values, larger sum.                                                *)
LEMMA SumMonotone ==
  ASSUME NEW F, NEW G, NEW S, IsFiniteSet(S),
         \A x \in S : F[x] \in Int /\ G[x] \in Int /\ F[x] <= G[x]
  PROVE  SumFunctionOnSet(F, S) <= SumFunctionOnSet(G, S)
<1> DEFINE Bad == {T \in SUBSET S : ~(SumFunctionOnSet(F, T) <= SumFunctionOnSet(G, T))}
<1>1. SUFFICES ASSUME Bad # {} PROVE FALSE
  OBVIOUS
<1>2. PICK T \in Bad : \A U \in Bad : U \subseteq T => U = T
  <2>1. Bad \subseteq SUBSET S
    OBVIOUS
  <2> HIDE DEF Bad
  <2> QED BY <1>1, <2>1, SmallestSet
<1>3. T # {}
  <2>1. SumFunctionOnSet(F, {}) = 0 /\ SumFunctionOnSet(G, {}) = 0
    BY SumEmpty
  <2> SUFFICES ASSUME T = {} PROVE FALSE
    OBVIOUS
  <2> QED BY <1>2, <2>1
<1> DEFINE p == Pick(T)
           U == T \ {p}
<1>4. p \in T /\ p \in S /\ IsFiniteSet(T) /\ IsFiniteSet(U) /\ U \subseteq S
  BY <1>2, <1>3, PickIn, FS_Subset
<1>5. SumFunctionOnSet(F, U) <= SumFunctionOnSet(G, U)
  BY <1>2, <1>4
<1>6. /\ SumFunctionOnSet(F, T) = F[p] + SumFunctionOnSet(F, U)
      /\ SumFunctionOnSet(G, T) = G[p] + SumFunctionOnSet(G, U)
  BY <1>3, <1>4, SumFirst
<1> HIDE DEF p, U
<1>7. SumFunctionOnSet(F, U) \in Int /\ SumFunctionOnSet(G, U) \in Int
  BY <1>4, SumType
<1>8. F[p] \in Int /\ G[p] \in Int /\ F[p] <= G[p]
  BY <1>4
<1>9. SumFunctionOnSet(F, T) <= SumFunctionOnSet(G, T)
  BY <1>5, <1>6, <1>7, <1>8
<1> QED BY <1>2, <1>9

LEMMA SumConstantZero ==
  ASSUME NEW F, NEW S, IsFiniteSet(S), \A x \in S : F[x] = 0
  PROVE  SumFunctionOnSet(F, S) = 0
<1> DEFINE Bad == {T \in SUBSET S : SumFunctionOnSet(F, T) # 0}
<1>1. SUFFICES ASSUME Bad # {} PROVE FALSE
  OBVIOUS
<1>2. PICK T \in Bad : \A U \in Bad : U \subseteq T => U = T
  <2>1. Bad \subseteq SUBSET S
    OBVIOUS
  <2> HIDE DEF Bad
  <2> QED BY <1>1, <2>1, SmallestSet
<1>3. T # {}
  <2>1. SumFunctionOnSet(F, {}) = 0 /\ SumFunctionOnSet(F, {}) \in Int
    BY SumEmpty
  <2> SUFFICES ASSUME T = {} PROVE FALSE
    OBVIOUS
  <2> QED BY <1>2, <2>1
<1>4. Pick(T) \in T /\ IsFiniteSet(T)
  BY <1>2, <1>3, PickIn, FS_Subset
<1>5. SumFunctionOnSet(F, T \ {Pick(T)}) = 0
  BY <1>2, <1>4
<1>6. SumFunctionOnSet(F, T) = F[Pick(T)] + SumFunctionOnSet(F, T \ {Pick(T)})
  BY <1>3, <1>4, SumFirst
<1> QED BY <1>2, <1>4, <1>5, <1>6

LEMMA SumNat ==
  ASSUME NEW F, NEW S, IsFiniteSet(S), \A x \in S : F[x] \in Nat
  PROVE  SumFunctionOnSet(F, S) \in Nat
<1> DEFINE Z == [x \in S |-> 0]
<1>1. SumFunctionOnSet(Z, S) = 0
  BY SumConstantZero
<1>2. SumFunctionOnSet(Z, S) <= SumFunctionOnSet(F, S)
  BY SumMonotone
<1> QED BY <1>1, <1>2, SumType

(* A part of a sum of natural numbers is no larger than the whole.           *)
LEMMA SumSubset ==
  ASSUME NEW F, NEW S, IsFiniteSet(S), \A x \in S : F[x] \in Nat, NEW T, T \subseteq S
  PROVE  SumFunctionOnSet(F, T) <= SumFunctionOnSet(F, S)
<1> DEFINE Bad == {U \in SUBSET S : /\ T \subseteq U
                                     /\ ~(SumFunctionOnSet(F, T) <= SumFunctionOnSet(F, U))}
<1>1. SUFFICES ASSUME Bad # {} PROVE FALSE
  OBVIOUS
<1>2. PICK U \in Bad : \A V \in Bad : V \subseteq U => V = U
  <2>1. Bad \subseteq SUBSET S
    OBVIOUS
  <2> HIDE DEF Bad
  <2> QED BY <1>1, <2>1, SmallestSet
<1>3. /\ SumFunctionOnSet(F, T) \in Nat /\ IsFiniteSet(U)
      /\ \A V \in SUBSET S : IsFiniteSet(V) /\ SumFunctionOnSet(F, V) \in Nat
  <2>1. \A V \in SUBSET S : IsFiniteSet(V) /\ SumFunctionOnSet(F, V) \in Nat
    BY FS_Subset, SumNat
  <2> QED BY <2>1
<1>4. PICK x \in U : x \notin T
  <2> SUFFICES ASSUME U = T PROVE FALSE
    BY <1>2
  <2> QED BY <1>2, <1>3
<1>5. SumFunctionOnSet(F, T) <= SumFunctionOnSet(F, U \ {x})
  BY <1>2, <1>4
<1>6. SumFunctionOnSet(F, U) = F[x] + SumFunctionOnSet(F, U \ {x})
  BY <1>3, SumRemove
<1>7. F[x] \in Nat /\ SumFunctionOnSet(F, U \ {x}) \in Nat
  BY <1>3
<1> QED BY <1>2, <1>3, <1>5, <1>6, <1>7

(* Elements that count for nothing may be left out.                          *)
LEMMA SumWithoutZeros ==
  ASSUME NEW F, NEW S, IsFiniteSet(S), \A x \in S : F[x] \in Int,
         NEW T, T \subseteq S, \A x \in S \ T : F[x] = 0
  PROVE  SumFunctionOnSet(F, T) = SumFunctionOnSet(F, S)
<1> DEFINE Bad == {U \in SUBSET S : /\ T \subseteq U
                                     /\ SumFunctionOnSet(F, T) # SumFunctionOnSet(F, U)}
<1>1. SUFFICES ASSUME Bad # {} PROVE FALSE
  OBVIOUS
<1>2. PICK U \in Bad : \A V \in Bad : V \subseteq U => V = U
  <2>1. Bad \subseteq SUBSET S
    OBVIOUS
  <2> HIDE DEF Bad
  <2> QED BY <1>1, <2>1, SmallestSet
<1>3. PICK x \in U : x \notin T
  <2> SUFFICES ASSUME U = T PROVE FALSE
    BY <1>2
  <2> QED BY <1>2
<1>4. IsFiniteSet(U) /\ IsFiniteSet(U \ {x})
  BY <1>2, FS_Subset
<1>5. SumFunctionOnSet(F, T) = SumFunctionOnSet(F, U \ {x})
  BY <1>2, <1>3
<1>6. SumFunctionOnSet(F, U) = F[x] + SumFunctionOnSet(F, U \ {x})
  BY <1>4, SumRemove
<1>7. SumFunctionOnSet(F, U \ {x}) \in Int
  BY <1>4, SumType
<1> QED BY <1>2, <1>3, <1>5, <1>6, <1>7

(* A sum over a part is one over the whole in which the rest counts for 0.   *)
LEMMA SumOfPart ==
  ASSUME NEW F, NEW G, NEW S, IsFiniteSet(S), NEW T, T \subseteq S,
         \A x \in T : F[x] \in Int /\ G[x] = F[x], \A x \in S \ T : G[x] = 0
  PROVE  SumFunctionOnSet(F, T) = SumFunctionOnSet(G, S)
<1>1. IsFiniteSet(T)
  BY FS_Subset
<1>2. SumFunctionOnSet(F, T) = SumFunctionOnSet(G, T)
  BY <1>1, SumSame
<1>3. \A x \in S : G[x] \in Int
  OBVIOUS
<1>4. SumFunctionOnSet(G, T) = SumFunctionOnSet(G, S)
  BY <1>3, SumWithoutZeros
<1> QED BY <1>2, <1>4

(* Counting is summing ones.                                                 *)
LEMMA SumOfOnes ==
  ASSUME NEW F, NEW S, IsFiniteSet(S), \A x \in S : F[x] = 1
  PROVE  SumFunctionOnSet(F, S) = Cardinality(S)
<1> DEFINE Bad == {T \in SUBSET S : SumFunctionOnSet(F, T) # Cardinality(T)}
<1>1. SUFFICES ASSUME Bad # {} PROVE FALSE
  OBVIOUS
<1>2. PICK T \in Bad : \A U \in Bad : U \subseteq T => U = T
  <2>1. Bad \subseteq SUBSET S
    OBVIOUS
  <2> HIDE DEF Bad
  <2> QED BY <1>1, <2>1, SmallestSet
<1>3. T # {}
  <2>1. SumFunctionOnSet(F, {}) = 0 /\ Cardinality({}) = 0
    BY SumEmpty, FS_EmptySet
  <2> SUFFICES ASSUME T = {} PROVE FALSE
    OBVIOUS
  <2> QED BY <1>2, <2>1
<1>4. Pick(T) \in T /\ IsFiniteSet(T)
  BY <1>2, <1>3, PickIn, FS_Subset
<1>5. SumFunctionOnSet(F, T \ {Pick(T)}) = Cardinality(T \ {Pick(T)})
  BY <1>2, <1>4
<1>6. Cardinality(T \ {Pick(T)}) = Cardinality(T) - 1 /\ Cardinality(T) \in Nat
  BY <1>4, FS_RemoveElement, FS_CardinalityType
<1>7. SumFunctionOnSet(F, T) = F[Pick(T)] + SumFunctionOnSet(F, T \ {Pick(T)})
  BY <1>3, <1>4, SumFirst
<1> QED BY <1>2, <1>4, <1>5, <1>6, <1>7
=============================================================================
