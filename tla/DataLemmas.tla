------------------------------ MODULE DataLemmas -----------------------------
(***************************************************************************)
(* Lemmas about data that several proofs need: induction over the natural  *)
(* numbers, finite sums, remainders and sequences.                         *)
(*                                                                         *)
(* The library states induction for a predicate, which is an operator      *)
(* parameter that the provers cannot instantiate.  Here it is stated for a *)
(* set of numbers, so that what recursive functions compute can be proved. *)
(***************************************************************************)
EXTENDS Sequences, Functions, FiniteSetTheorems, TLAPS

(* Every non-empty set of natural numbers has a least element. *)
LEMMA LeastNumber ==
    ASSUME NEW T \in SUBSET Nat, T # {}
    PROVE  \E x \in T : \A y \in T : x <= y
<1> DEFINE R == OpToRel(<, Nat)
<1>1. IsWellFoundedOn(R, Nat)
  BY Zenon, NatLessThanWellFounded
<1>2. \A x, y \in Nat : <<x, y>> \in R <=> x < y
  BY DEF OpToRel
<1> HIDE DEF R
<1>3. PICK x \in T : \A y \in T : ~ (<<y, x>> \in R)
  BY Zenon, <1>1, WFMin
<1>4. ASSUME NEW y \in T
      PROVE  x <= y
  <2>1. ~ (y < x)
    BY Zenon, <1>2, <1>3
  <2>2. QED
    BY <2>1
<1>5. QED
  BY <1>4

(* Mathematical induction, for a set of numbers in place of a predicate. *)
LEMMA Induction ==
    ASSUME NEW S, 0 \in S, \A n \in Nat : n \in S => n + 1 \in S
    PROVE  \A n \in Nat : n \in S
<1> DEFINE T == Nat \ S
<1>1. SUFFICES ASSUME T # {}
               PROVE  FALSE
  OBVIOUS
<1>2. PICK x \in T : \A y \in T : x <= y
  BY Zenon, <1>1, LeastNumber
<1>3. x - 1 \in Nat /\ x - 1 \notin T
  BY <1>2
<1>4. QED
  BY <1>3

(* f is a, and then G of its value before. *)
Iterates(f, a, G, k) == f[0] = a /\ \A n \in 1 .. k : f[n] = G[n][f[n - 1]]

(* A function that is defined from its value before exists. *)
LEMMA Recursion ==
    ASSUME NEW V, NEW a \in V, NEW N \in Nat, NEW G \in [1 .. N -> [V -> V]]
    PROVE  \E f \in [0 .. N -> V] : Iterates(f, a, G, N)
<1> DEFINE S == {k \in Nat : k <= N => \E f \in [0 .. k -> V] : Iterates(f, a, G, k)}
<1>1. 0 \in S
  <2> DEFINE f == [n \in 0 .. 0 |-> a]
  <2>1. f \in [0 .. 0 -> V] /\ Iterates(f, a, G, 0)
    BY DEF Iterates
  <2>2. QED
    BY <2>1
<1>2. ASSUME NEW k \in Nat, k \in S
      PROVE  k + 1 \in S
  <2>1. SUFFICES ASSUME k + 1 <= N
                 PROVE  \E g \in [0 .. k + 1 -> V] : Iterates(g, a, G, k + 1)
    OBVIOUS
  <2>2. PICK f \in [0 .. k -> V] : Iterates(f, a, G, k)
    BY <1>2, <2>1
  <2> DEFINE g == [n \in 0 .. k + 1 |-> IF n = k + 1 THEN G[k + 1][f[k]] ELSE f[n]]
  <2>3. f[k] \in V /\ k + 1 \in 1 .. N
    BY <2>1
  <2>4. G[k + 1][f[k]] \in V
    BY <2>3
  <2>5. g \in [0 .. k + 1 -> V]
    BY <2>4
  <2>6. \A n \in 0 .. k : g[n] = f[n]
    OBVIOUS
  <2>7. g[k + 1] = G[k + 1][f[k]]
    OBVIOUS
  <2> HIDE DEF g
  <2>8. ASSUME NEW n \in 1 .. k + 1
        PROVE  g[n] = G[n][g[n - 1]]
    <3>1. CASE n = k + 1
      BY <2>6, <2>7, <3>1
    <3>2. CASE n # k + 1
      <4>1. n \in 1 .. k /\ n \in 0 .. k /\ n - 1 \in 0 .. k
        BY <3>2
      <4>2. QED
        BY <2>2, <2>6, <4>1 DEF Iterates
    <3>3. QED
      BY <3>1, <3>2
  <2>9. g[0] = a
    BY <2>2, <2>6 DEF Iterates
  <2>10. QED
    BY <2>5, <2>8, <2>9 DEF Iterates
<1>3. N \in S
  <2> HIDE DEF S
  <2>1. QED
    BY <1>1, <1>2, Induction
<1>4. QED
  BY <1>3

(* Functions agree at first, and then as long as they agree before. *)
InStep(f, g, N) == f[0] = g[0] /\ \A n \in 1 .. N : f[n - 1] = g[n - 1] => f[n] = g[n]

(* Such functions agree. *)
LEMMA StepByStep ==
    ASSUME NEW N \in Nat, NEW f, NEW g, InStep(f, g, N)
    PROVE  \A n \in 0 .. N : f[n] = g[n]
<1> USE DEF InStep
<1> DEFINE S == {n \in Nat : n <= N => f[n] = g[n]}
<1>1. 0 \in S
  OBVIOUS
<1>2. ASSUME NEW n \in Nat, n \in S
      PROVE  n + 1 \in S
  <2>1. SUFFICES ASSUME n + 1 <= N
                 PROVE  f[n + 1] = g[n + 1]
    OBVIOUS
  <2>2. n + 1 \in 1 .. N /\ (n + 1) - 1 = n /\ f[n] = g[n]
    BY <1>2, <2>1
  <2>3. QED
    BY <2>2
<1> HIDE DEF S
<1>3. \A n \in Nat : n \in S
  BY <1>1, <1>2, Induction
<1>4. QED
  BY <1>3 DEF S

------------------------------------------------------------------------------
(* Sums. *)

Pick(s) == CHOOSE x \in s : TRUE

SumStep(it, f, s) == IF s = {} THEN 0 ELSE f[Pick(s)] + it[s \ {Pick(s)}]

(* it gives the sum of f over every set of D. *)
Sums(it, f, D) == it \in [D -> Int] /\ \A s \in D : it[s] = SumStep(it, f, s)

(* The subsets of S with at most n elements. *)
UpTo(S, n) == {s \in SUBSET S : Cardinality(s) <= n}

(* The first element that a sum takes leaves a smaller set. *)
LEMMA PickSmaller ==
    ASSUME NEW s, IsFiniteSet(s), s # {}
    PROVE  /\ Pick(s) \in s
           /\ IsFiniteSet(s \ {Pick(s)})
           /\ Cardinality(s) \in Nat /\ Cardinality(s) # 0
           /\ Cardinality(s \ {Pick(s)}) = Cardinality(s) - 1
<1>1. Pick(s) \in s
  BY DEF Pick
<1> HIDE DEF Pick
<1>2. QED
  BY <1>1, FS_RemoveElement, FS_CardinalityType, FS_EmptySet

(* What SumStep does for the subsets of a finite set. *)
LEMMA Subsets ==
    ASSUME NEW S, IsFiniteSet(S), NEW s \in SUBSET S
    PROVE  /\ IsFiniteSet(s) /\ Cardinality(s) \in Nat
           /\ Cardinality(s) = 0 <=> s = {}
           /\ Cardinality(s) <= Cardinality(S)
           /\ s # {} => /\ Pick(s) \in s /\ Pick(s) \in S
                        /\ s \ {Pick(s)} \in SUBSET S
                        /\ Cardinality(s \ {Pick(s)}) = Cardinality(s) - 1
<1>1. IsFiniteSet(s) /\ Cardinality(s) <= Cardinality(S)
  BY FS_Subset
<1>2. Cardinality(s) \in Nat /\ (Cardinality(s) = 0 <=> s = {})
  BY <1>1, FS_CardinalityType, FS_EmptySet
<1>3. QED
  BY <1>1, <1>2, PickSmaller

(* Sums over the subsets of a finite set exist. *)
LEMMA SumsExist ==
    ASSUME NEW S, IsFiniteSet(S), NEW f \in [S -> Int]
    PROVE  \E it : Sums(it, f, SUBSET S)
<1> DEFINE G == {n \in Nat : \E it : Sums(it, f, UpTo(S, n))}
<1>1. 0 \in G
  <2> DEFINE it == [s \in UpTo(S, 0) |-> 0]
  <2>1. ASSUME NEW s \in UpTo(S, 0)
        PROVE  s = {}
    <3>1. s \in SUBSET S /\ Cardinality(s) <= 0
      BY DEF UpTo
    <3>2. Cardinality(s) \in Nat
      BY Zenon, <3>1, Subsets
    <3>3. Cardinality(s) = 0
      BY <3>1, <3>2
    <3>4. QED
      BY Zenon, <3>1, <3>3, Subsets
  <2>2. Sums(it, f, UpTo(S, 0))
    BY <2>1 DEF Sums, SumStep
  <2>3. QED
    BY <2>2
<1>2. ASSUME NEW n \in Nat, n \in G
      PROVE  n + 1 \in G
  <2>1. PICK it : Sums(it, f, UpTo(S, n))
    BY <1>2
  <2> DEFINE jt == [s \in UpTo(S, n + 1) |-> SumStep(it, f, s)]
  <2>2. ASSUME NEW s \in UpTo(S, n + 1), s # {}
        PROVE  s \ {Pick(s)} \in UpTo(S, n) /\ Pick(s) \in S
    <3>1. s \in SUBSET S /\ Cardinality(s) <= n + 1
      BY DEF UpTo
    <3>2. /\ Pick(s) \in S /\ s \ {Pick(s)} \in SUBSET S
          /\ Cardinality(s) \in Nat /\ Cardinality(s \ {Pick(s)}) = Cardinality(s) - 1
      BY Zenon, <2>2, <3>1, Subsets
    <3>3. Cardinality(s \ {Pick(s)}) <= n
      BY <3>1, <3>2
    <3>4. QED
      BY <3>2, <3>3 DEF UpTo
  <2>3. ASSUME NEW s \in UpTo(S, n)
        PROVE  s \in UpTo(S, n + 1) /\ jt[s] = it[s]
    <3>1. s \in SUBSET S /\ Cardinality(s) <= n
      BY DEF UpTo
    <3>2. Cardinality(s) \in Nat
      BY Zenon, <3>1, Subsets
    <3>3. s \in UpTo(S, n + 1)
      BY <3>1, <3>2 DEF UpTo
    <3>4. QED
      BY <2>1, <3>3 DEF Sums
  <2>4. ASSUME NEW s \in UpTo(S, n + 1)
        PROVE  jt[s] \in Int /\ jt[s] = SumStep(jt, f, s)
    <3>1. jt[s] = SumStep(it, f, s)
      OBVIOUS
    <3>2. CASE s = {}
      BY <3>1, <3>2 DEF SumStep
    <3>3. CASE s # {}
      <4>1. jt[s \ {Pick(s)}] = it[s \ {Pick(s)}]
        BY <2>2, <2>3, <3>3
      <4>2. it[s \ {Pick(s)}] \in Int /\ f[Pick(s)] \in Int
        BY <2>1, <2>2, <3>3 DEF Sums
      <4> HIDE DEF jt
      <4>3. QED
        BY <3>1, <3>3, <4>1, <4>2 DEF SumStep
    <3>4. QED
      BY <3>2, <3>3
  <2>5. Sums(jt, f, UpTo(S, n + 1))
    <3>1. jt = [s \in UpTo(S, n + 1) |-> jt[s]]
      OBVIOUS
    <3> HIDE DEF jt
    <3>2. jt \in [UpTo(S, n + 1) -> Int]
      BY <2>4, <3>1
    <3>3. QED
      BY <2>4, <3>2 DEF Sums
  <2> HIDE DEF jt
  <2>6. QED
    BY <2>5
<1> HIDE DEF G
<1>3. Cardinality(S) \in Nat
  BY FS_CardinalityType
<1>4. Cardinality(S) \in G
  BY <1>1, <1>2, <1>3, Induction
<1>5. UpTo(S, Cardinality(S)) = SUBSET S
  BY Zenon, Subsets DEF UpTo
<1>6. QED
  BY Zenon, <1>4, <1>5 DEF G

(* Sums of functions that agree on a set agree on it. *)
LEMMA SumsAgree ==
    ASSUME NEW S, NEW R, IsFiniteSet(S), IsFiniteSet(R), NEW f, NEW g, NEW it, NEW jt,
           \A s \in SUBSET S : it[s] = SumStep(it, f, s),
           \A s \in SUBSET R : jt[s] = SumStep(jt, g, s),
           NEW s \in SUBSET S, s \in SUBSET R, \A x \in s : f[x] = g[x]
    PROVE  it[s] = jt[s]
<1> DEFINE Agrees(t) == it[t] = jt[t]
           G == {n \in Nat : \A t \in SUBSET s : Cardinality(t) = n => Agrees(t)}
<1>0. IsFiniteSet(s)
  BY FS_Subset
<1>1. 0 \in G
  <2>1. ASSUME NEW t \in SUBSET s, Cardinality(t) = 0
        PROVE  it[t] = jt[t]
    <3>1. t = {} /\ t \in SUBSET S /\ t \in SUBSET R
      BY Zenon, <1>0, <2>1, Subsets
    <3>2. QED
      BY Zenon, <3>1 DEF SumStep
  <2>2. QED
    BY <2>1
<1>2. ASSUME NEW n \in Nat, n \in G
      PROVE  n + 1 \in G
  <2>1. ASSUME NEW t \in SUBSET s, Cardinality(t) = n + 1
        PROVE  it[t] = jt[t]
    <3> DEFINE r == t \ {Pick(t)}
    <3>0. t # {} /\ Pick(t) \in t /\ Cardinality(r) = n
      BY <1>0, <2>1, Subsets
    <3>1. t # {} /\ Pick(t) \in s /\ r \in SUBSET s /\ Cardinality(r) = n
      BY <3>0
    <3>2. it[r] = jt[r]
      BY <1>2, <3>1
    <3>3. t \in SUBSET S /\ t \in SUBSET R /\ f[Pick(t)] = g[Pick(t)]
      BY <3>1
    <3>4. it[t] = f[Pick(t)] + it[r] /\ jt[t] = g[Pick(t)] + jt[r]
      BY Zenon, <3>1, <3>3 DEF SumStep
    <3>5. QED
      BY <3>2, <3>3, <3>4
  <2>2. QED
    BY <2>1
<1>3. Cardinality(s) \in Nat
  BY <1>0, FS_CardinalityType
<1> HIDE DEF G
<1>4. Cardinality(s) \in G
  BY <1>1, <1>2, <1>3, Induction
<1>5. QED
  BY <1>4 DEF G

(* A sum may begin with any element. *)
LEMMA SumsAnyFirst ==
    ASSUME NEW S, IsFiniteSet(S), NEW f \in [S -> Int], NEW it, Sums(it, f, SUBSET S),
           NEW s \in SUBSET S, NEW x \in s
    PROVE  it[s] = f[x] + it[s \ {x}]
<1> DEFINE G == {n \in Nat : \A t \in SUBSET S : Cardinality(t) = n =>
                                \A y \in t : it[t] = f[y] + it[t \ {y}]}
<1>1. 0 \in G
  BY Zenon, Subsets
<1>2. ASSUME NEW n \in Nat, n \in G
      PROVE  n + 1 \in G
  <2>1. ASSUME NEW t \in SUBSET S, Cardinality(t) = n + 1, NEW y \in t
        PROVE  it[t] = f[y] + it[t \ {y}]
    <3> DEFINE c == Pick(t)
               r == t \ {c}
               q == t \ {y}
               p == (t \ {c}) \ {y}
    <3>1. t # {} /\ c \in t /\ r \in SUBSET S /\ Cardinality(r) = n
      BY <2>1, Subsets
    <3>2. it[t] = f[c] + it[r]
      BY <3>1 DEF Sums, SumStep
    <3>3. CASE y = c
      BY <3>2, <3>3
    <3>4. CASE y # c
      <4>1. y \in r /\ c \in q /\ q \in SUBSET S /\ p \in SUBSET S /\ q \ {c} = p
        BY <3>1, <3>4
      <4>2. Cardinality(q) = n
        <5>1. IsFiniteSet(t)
          BY FS_Subset
        <5>2. Cardinality(q) = Cardinality(t) - 1
          BY Zenon, <5>1, FS_RemoveElement
        <5>3. QED
          BY <2>1, <5>2
      <4>3. it[r] = f[y] + it[p]
        BY <1>2, <3>1, <4>1
      <4>4. it[q] = f[c] + it[p]
        BY <1>2, <4>1, <4>2
      <4>5. f[c] \in Int /\ f[y] \in Int /\ it[p] \in Int
        BY <3>1, <4>1 DEF Sums
      <4> HIDE DEF c, r, q, p
      <4>6. QED
        BY <3>2, <4>3, <4>4, <4>5 DEF q
    <3>5. QED
      BY <3>3, <3>4
  <2>2. QED
    BY <2>1
<1>3. Cardinality(s) \in Nat
  <2> HIDE DEF G
  <2>1. IsFiniteSet(s)
    BY FS_Subset
  <2>2. QED
    BY <2>1, FS_CardinalityType
<1> HIDE DEF G
<1>4. Cardinality(s) \in G
  BY <1>1, <1>2, <1>3, Induction
<1>5. QED
  BY <1>4 DEF G

(* SumFunction is such a sum. *)
LEMMA SumFunctionSums ==
    ASSUME NEW S, IsFiniteSet(S), NEW f \in [S -> Int]
    PROVE  \E it : Sums(it, f, SUBSET S) /\ SumFunction(f) = it[S]
<1> DEFINE Is(it) == it = [s \in SUBSET S |-> SumStep(it, f, s)]
           iter == CHOOSE it : Is(it)
<1>1. \E it : Is(it)
  <2>1. PICK it : Sums(it, f, SUBSET S)
    BY Zenon, SumsExist
  <2>2. it = [s \in SUBSET S |-> SumStep(it, f, s)]
    BY <2>1 DEF Sums
  <2>3. QED
    BY <2>2
<1>2. Is(iter)
  <2> HIDE DEF Is
  <2>1. QED
    BY <1>1
<1>3. SumFunction(f) = iter[S]
  BY DEF SumFunction, SumFunctionOnSet, FoldFunctionOnSet, MapThenFoldSet, SumStep, Pick
<1> HIDE DEF iter
<1>4. PICK it : Sums(it, f, SUBSET S)
  BY Zenon, SumsExist
<1>5. ASSUME NEW s \in SUBSET S
      PROVE  iter[s] = SumStep(iter, f, s)
  BY <1>2
<1>6. ASSUME NEW s \in SUBSET S
      PROVE  it[s] = SumStep(it, f, s)
  BY <1>4 DEF Sums
<1>7. iter[S] = it[S]
  BY <1>5, <1>6, SumsAgree
<1>8. QED
  BY <1>3, <1>4, <1>7

(* A sum of integers is an integer. *)
LEMMA SumType ==
    ASSUME NEW S, IsFiniteSet(S), NEW f \in [S -> Int]
    PROVE  SumFunction(f) \in Int
<1>1. PICK it : Sums(it, f, SUBSET S) /\ SumFunction(f) = it[S]
  BY SumFunctionSums
<1>2. QED
  BY <1>1 DEF Sums

(* The sum over a set with x is f[x] and the sum over the rest. *)
LEMMA SumRest ==
    ASSUME NEW S, IsFiniteSet(S), NEW f \in [S -> Int], NEW x \in S, NEW g \in [S \ {x} -> Int],
           \A y \in S \ {x} : g[y] = f[y]
    PROVE  SumFunction(f) = f[x] + SumFunction(g)
<1> DEFINE R == S \ {x}
<1>1. IsFiniteSet(R)
  BY FS_RemoveElement
<1>2. PICK it : Sums(it, f, SUBSET S) /\ SumFunction(f) = it[S]
  BY SumFunctionSums
<1>3. PICK jt : Sums(jt, g, SUBSET R) /\ SumFunction(g) = jt[R]
  <2> HIDE DEF R
  <2>1. g \in [R -> Int]
    BY DEF R
  <2>2. QED
    BY Zenon, <1>1, <2>1, SumFunctionSums
<1>4. it[S] = f[x] + it[S \ {x}]
  <2> DEFINE T == S
  <2>1. T \in SUBSET S /\ x \in T
    OBVIOUS
  <2> HIDE DEF T
  <2>2. it[T] = f[x] + it[T \ {x}]
    BY <1>2, <2>1, SumsAnyFirst
  <2>3. QED
    BY <2>2 DEF T
<1>5. it[R] = jt[R]
  <2>1. \A s \in SUBSET S : it[s] = SumStep(it, f, s)
    BY <1>2 DEF Sums
  <2>2. \A s \in SUBSET R : jt[s] = SumStep(jt, g, s)
    BY <1>3 DEF Sums
  <2>3. R \in SUBSET S /\ R \in SUBSET R /\ \A y \in R : f[y] = g[y]
    OBVIOUS
  <2> HIDE DEF R
  <2>4. QED
    BY <1>1, <2>1, <2>2, <2>3, SumsAgree
<1>6. QED
  BY <1>2, <1>3, <1>4, <1>5

(* The empty sum is 0. *)
LEMMA SumEmpty ==
    ASSUME NEW f \in [{} -> Int]
    PROVE  SumFunction(f) = 0
<1>1. IsFiniteSet({})
  BY FS_EmptySet
<1>2. PICK it : Sums(it, f, SUBSET {}) /\ SumFunction(f) = it[{}]
  BY Zenon, <1>1, SumFunctionSums
<1>3. QED
  BY Zenon, <1>2 DEF Sums, SumStep

(* g has the values of f on D. *)
Same(f, g, D) == \A y \in D : g[y] = f[y]

(* To change one term is to change the sum by the difference. *)
LEMMA SumExcept ==
    ASSUME NEW S, IsFiniteSet(S), NEW f \in [S -> Int], NEW g \in [S -> Int], NEW x \in S,
           Same(f, g, S \ {x})
    PROVE  SumFunction(g) = SumFunction(f) - f[x] + g[x]
<1> USE DEF Same
<1> DEFINE h == [y \in S \ {x} |-> f[y]]
<1>1. h \in [S \ {x} -> Int] /\ IsFiniteSet(S \ {x})
  BY FS_RemoveElement
<1>2. \A y \in S \ {x} : h[y] = f[y] /\ h[y] = g[y]
  OBVIOUS
<1> HIDE DEF h
<1>3. SumFunction(f) = f[x] + SumFunction(h)
  BY <1>1, <1>2, SumRest
<1>4. SumFunction(g) = g[x] + SumFunction(h)
  BY <1>1, <1>2, SumRest
<1>5. SumFunction(h) \in Int
  BY <1>1, SumType
<1>6. QED
  BY <1>3, <1>4, <1>5

(* A sum of zeros is 0. *)
LEMMA SumZero ==
    ASSUME NEW S, IsFiniteSet(S), NEW f \in [S -> Int], \A x \in S : f[x] = 0
    PROVE  SumFunction(f) = 0
<1>1. PICK it : Sums(it, f, SUBSET S) /\ SumFunction(f) = it[S]
  BY SumFunctionSums
<1> DEFINE zero == [s \in SUBSET S |-> 0]
<1>2. ASSUME NEW s \in SUBSET S
      PROVE  zero[s] = SumStep(zero, f, s)
  <2>1. CASE s = {}
    BY <2>1 DEF SumStep
  <2>2. CASE s # {}
    <3>1. Pick(s) \in S
      BY Zenon, <2>2, Subsets
    <3>2. QED
      BY <2>2, <3>1 DEF SumStep
  <2>3. QED
    BY <2>1, <2>2
<1>3. \A s \in SUBSET S : it[s] = SumStep(it, f, s)
  BY <1>1 DEF Sums
<1>4. zero[S] = 0
  OBVIOUS
<1> HIDE DEF zero
<1>5. it[S] = zero[S]
  BY <1>2, <1>3, SumsAgree
<1>6. QED
  BY <1>1, <1>4, <1>5

(* A sum of natural numbers is one. *)
LEMMA SumNat ==
    ASSUME NEW S, IsFiniteSet(S), NEW f \in [S -> Nat]
    PROVE  SumFunction(f) \in Nat
<1> DEFINE G(it) == {n \in Nat : \A t \in SUBSET S : Cardinality(t) = n => it[t] \in Nat}
<1>1. PICK it : Sums(it, f, SUBSET S) /\ SumFunction(f) = it[S]
  <2>1. f \in [S -> Int]
    OBVIOUS
  <2>2. QED
    BY <2>1, SumFunctionSums
<1>2. 0 \in G(it)
  <2>1. ASSUME NEW t \in SUBSET S, Cardinality(t) = 0
        PROVE  it[t] \in Nat
    <3>1. t = {}
      BY Zenon, <2>1, Subsets
    <3>2. it[t] = SumStep(it, f, t)
      BY <1>1 DEF Sums
    <3>3. QED
      BY <3>1, <3>2 DEF SumStep
  <2>2. QED
    BY <2>1
<1>3. ASSUME NEW n \in Nat, n \in G(it)
      PROVE  n + 1 \in G(it)
  <2>1. ASSUME NEW t \in SUBSET S, Cardinality(t) = n + 1
        PROVE  it[t] \in Nat
    <3> DEFINE r == t \ {Pick(t)}
    <3>1. t # {} /\ Pick(t) \in S /\ r \in SUBSET S /\ Cardinality(r) = n
      BY <2>1, Subsets
    <3>2. it[r] \in Nat
      BY <1>3, <3>1
    <3>3. it[t] = f[Pick(t)] + it[r]
      BY <1>1, <3>1 DEF Sums, SumStep
    <3>4. f[Pick(t)] \in Nat
      BY <3>1
    <3> HIDE DEF r
    <3>5. QED
      BY <3>2, <3>3, <3>4
  <2>2. QED
    BY <2>1
<1>4. Cardinality(S) \in Nat
  BY FS_CardinalityType
<1>5. Cardinality(S) \in G(it)
  <2> HIDE DEF G
  <2>1. QED
    BY <1>2, <1>3, <1>4, Induction
<1>6. QED
  BY <1>1, <1>5

(* The sum of sums, term by term. *)
LEMMA SumAdd ==
    ASSUME NEW S, IsFiniteSet(S), NEW f \in [S -> Int], NEW g \in [S -> Int], NEW h \in [S -> Int],
           \A x \in S : h[x] = f[x] + g[x]
    PROVE  SumFunction(h) = SumFunction(f) + SumFunction(g)
<1>1. PICK it : Sums(it, f, SUBSET S) /\ SumFunction(f) = it[S]
  BY Zenon, SumFunctionSums
<1>2. PICK jt : Sums(jt, g, SUBSET S) /\ SumFunction(g) = jt[S]
  BY Zenon, SumFunctionSums
<1>3. PICK kt : Sums(kt, h, SUBSET S) /\ SumFunction(h) = kt[S]
  BY Zenon, SumFunctionSums
<1> DEFINE both == [s \in SUBSET S |-> it[s] + jt[s]]
<1>4. ASSUME NEW s \in SUBSET S
      PROVE  both[s] = SumStep(both, h, s)
  <2>1. it[s] = SumStep(it, f, s) /\ jt[s] = SumStep(jt, g, s)
    BY <1>1, <1>2 DEF Sums
  <2>2. CASE s = {}
    BY <2>1, <2>2 DEF SumStep
  <2>3. CASE s # {}
    <3> DEFINE x == Pick(s)
               r == s \ {x}
    <3>1. x \in S /\ r \in SUBSET S
      BY Zenon, <2>3, Subsets
    <3>2. it[s] = f[x] + it[r] /\ jt[s] = g[x] + jt[r]
      BY <2>1, <2>3 DEF SumStep
    <3>3. SumStep(both, h, s) = h[x] + both[r]
      BY <2>3 DEF SumStep
    <3>4. h[x] = f[x] + g[x] /\ f[x] \in Int /\ g[x] \in Int
      BY <3>1
    <3>5. it[r] \in Int /\ jt[r] \in Int /\ both[r] = it[r] + jt[r] /\ both[s] = it[s] + jt[s]
      BY <1>1, <1>2, <3>1 DEF Sums
    <3> HIDE DEF x, r, both
    <3>6. QED
      BY <3>2, <3>3, <3>4, <3>5
  <2>4. QED
    BY <2>2, <2>3
<1>5. \A s \in SUBSET S : kt[s] = SumStep(kt, h, s)
  BY <1>3 DEF Sums
<1>6. both[S] = it[S] + jt[S]
  OBVIOUS
<1> HIDE DEF both
<1>7. kt[S] = both[S]
  BY <1>4, <1>5, SumsAgree
<1>8. QED
  BY <1>1, <1>2, <1>3, <1>6, <1>7

(* No term exceeds a sum of natural numbers. *)
LEMMA SumTerm ==
    ASSUME NEW S, IsFiniteSet(S), NEW f \in [S -> Nat], NEW x \in S
    PROVE  f[x] <= SumFunction(f)
<1> DEFINE h == [y \in S \ {x} |-> f[y]]
<1>1. h \in [S \ {x} -> Nat] /\ IsFiniteSet(S \ {x})
  BY FS_RemoveElement
<1>2. \A y \in S \ {x} : h[y] = f[y]
  OBVIOUS
<1>3. f \in [S -> Int] /\ h \in [S \ {x} -> Int] /\ f[x] \in Nat
  BY <1>1
<1> HIDE DEF h
<1>4. SumFunction(f) = f[x] + SumFunction(h)
  BY <1>2, <1>3, SumRest
<1>5. SumFunction(h) \in Nat
  BY <1>1, SumNat
<1>6. QED
  BY <1>3, <1>4, <1>5
------------------------------------------------------------------------------
(* Remainders. *)

(* Division with rest is unique ... *)
LEMMA RestUnique ==
    ASSUME NEW n \in Nat, n > 0, NEW q \in Nat, NEW r \in 0 .. n - 1
    PROVE  (n * q + r) % n = r
OBVIOUS

(* ... and possible. *)
LEMMA DivideWithRest ==
    ASSUME NEW n \in Nat, n > 0, NEW a \in Nat
    PROVE  \E q \in Nat, r \in 0 .. n - 1 : a = n * q + r
<1> DEFINE G == {m \in Nat : \E q \in Nat, r \in 0 .. n - 1 : m = n * q + r}
<1>1. 0 \in G
  <2>1. 0 = n * 0 + 0 /\ 0 \in 0 .. n - 1
    OBVIOUS
  <2>2. QED
    BY <2>1
<1>2. ASSUME NEW m \in Nat, m \in G
      PROVE  m + 1 \in G
  <2>1. PICK q \in Nat, r \in 0 .. n - 1 : m = n * q + r
    BY <1>2
  <2>2. n * q \in Nat /\ n * (q + 1) = n * q + n
    OBVIOUS
  <2>3. CASE r + 1 = n
    <3>1. m + 1 = n * (q + 1) + 0 /\ q + 1 \in Nat /\ 0 \in 0 .. n - 1
      BY <2>1, <2>2, <2>3
    <3>2. \E p \in Nat, s \in 0 .. n - 1 : m + 1 = n * p + s
      BY ONLY Zenon, <3>1
    <3>3. QED
      BY <3>2
  <2>4. CASE r + 1 # n
    <3>1. m + 1 = n * q + (r + 1) /\ r + 1 \in 0 .. n - 1
      BY <2>1, <2>2, <2>4
    <3>2. QED
      BY <3>1
  <2>5. QED
    BY <2>3, <2>4
<1>3. G \subseteq Nat
  OBVIOUS
<1> HIDE DEF G
<1>4. a \in G
  BY <1>1, <1>2, <1>3, Induction
<1>5. QED
  BY <1>4 DEF G

(* Counting round a circle. *)
LEMMA NextRest ==
    ASSUME NEW n \in Nat, n > 0, NEW a \in Nat
    PROVE  a % n \in 0 .. n - 1 /\ ((a % n) + 1) % n = (a + 1) % n
<1>1. PICK q \in Nat, r \in 0 .. n - 1 : a = n * q + r
  BY Zenon, DivideWithRest
<1>2. a % n = r
  BY <1>1, RestUnique
<1>3. n * q \in Nat /\ n * (q + 1) = n * q + n
  OBVIOUS
<1>4. CASE r + 1 = n
  <2>1. a + 1 = n * (q + 1) + 0 /\ q + 1 \in Nat /\ 0 \in 0 .. n - 1
    BY <1>1, <1>3, <1>4
  <2>2. (n * (q + 1) + 0) % n = 0
    BY ONLY <2>1, n \in Nat, n > 0, RestUnique
  <2>3. n % n = 0
    OBVIOUS
  <2>4. QED
    BY <1>2, <1>4, <2>1, <2>2, <2>3
<1>5. CASE r + 1 # n
  <2>1. a + 1 = n * q + (r + 1) /\ r + 1 \in 0 .. n - 1
    BY <1>1, <1>3, <1>5
  <2>2. (n * q + (r + 1)) % n = r + 1
    BY ONLY Zenon, <2>1, n \in Nat, n > 0, q \in Nat, RestUnique
  <2>3. (r + 1) % n = r + 1
    BY ONLY <2>1, n \in Nat, n > 0
  <2>4. QED
    BY <1>2, <2>1, <2>2, <2>3
<1>6. QED
  BY <1>4, <1>5

------------------------------------------------------------------------------
(* Sequences. *)

Rising(s) == \A m, n \in DOMAIN s : m < n => s[m] < s[n]

(* A sequence with one more element. *)
LEMMA AppendIs ==
    ASSUME NEW V, NEW s \in Seq(V), NEW x \in V
    PROVE  /\ Append(s, x) \in Seq(V)
           /\ DOMAIN Append(s, x) = DOMAIN s \cup {Len(s) + 1}
           /\ Append(s, x)[Len(s) + 1] = x
           /\ \A n \in DOMAIN s : n \in Nat /\ n < Len(s) + 1 /\ Append(s, x)[n] = s[n]
           /\ Len(s) \in Nat
OBVIOUS

(* A sequence over a set is one over a larger set. *)
LEMMA SeqWiden ==
    ASSUME NEW V, NEW W, V \subseteq W, NEW s \in Seq(V)
    PROVE  s \in Seq(W)
OBVIOUS

(* The elements of a sequence. *)
LEMMA ElementIs ==
    ASSUME NEW V, NEW s \in Seq(V)
    PROVE  \A n \in DOMAIN s : s[n] \in V
OBVIOUS

(* u is s, of length A, and then t. *)
Concatenates(u, s, t, A) ==
    /\ \A n \in DOMAIN u : /\ n \in Nat
                            /\ \/ n \in DOMAIN s /\ u[n] = s[n]
                               \/ n > A /\ n - A \in DOMAIN t /\ u[n] = t[n - A]
    /\ \A n \in DOMAIN s : n \in Nat /\ n <= A /\ n \in DOMAIN u /\ u[n] = s[n]
    /\ \A n \in DOMAIN t : n \in Nat /\ A + n \in DOMAIN u /\ u[A + n] = t[n]

(* One sequence after another. *)
LEMMA ConcatIs ==
    ASSUME NEW V, NEW s \in Seq(V), NEW t \in Seq(V)
    PROVE  s \o t \in Seq(V) /\ Len(s) \in Nat /\ Concatenates(s \o t, s, t, Len(s))
<1>1. /\ Len(s) \in Nat /\ Len(t) \in Nat /\ DOMAIN s = 1 .. Len(s) /\ DOMAIN t = 1 .. Len(t)
      /\ s \o t \in Seq(V) /\ Len(s \o t) = Len(s) + Len(t)
      /\ DOMAIN (s \o t) = 1 .. Len(s) + Len(t)
  OBVIOUS
<1>2. \A n \in 1 .. Len(s) + Len(t) : (s \o t)[n] = IF n <= Len(s) THEN s[n] ELSE t[n - Len(s)]
  BY <1>1
<1> DEFINE st == s \o t
           A == Len(s)
           B == Len(t)
<1> HIDE DEF st, A, B
<1>3. /\ A \in Nat /\ B \in Nat /\ DOMAIN s = 1 .. A /\ DOMAIN t = 1 .. B
      /\ DOMAIN st = 1 .. A + B
      /\ \A n \in 1 .. A + B : st[n] = IF n <= A THEN s[n] ELSE t[n - A]
  BY <1>1, <1>2 DEF st, A, B
<1>4. \A n \in DOMAIN st : /\ n \in Nat
                           /\ \/ n \in DOMAIN s /\ st[n] = s[n]
                              \/ n > A /\ n - A \in DOMAIN t /\ st[n] = t[n - A]
  BY <1>3
<1>5. \A n \in DOMAIN s : n \in Nat /\ n <= A /\ n \in DOMAIN st /\ st[n] = s[n]
  BY <1>3
<1>6. ASSUME NEW n \in DOMAIN t
      PROVE  n \in Nat /\ A + n \in DOMAIN st /\ st[A + n] = t[n]
  <2>1. n \in 1 .. B /\ A + n \in 1 .. A + B /\ ~(A + n <= A) /\ (A + n) - A = n
    BY ONLY <1>3, <1>6
  <2>2. QED
    BY <1>3, <2>1
<1>7. Concatenates(st, s, t, A)
  BY <1>4, <1>5, <1>6 DEF Concatenates
<1>8. QED
  BY Zenon, <1>1, <1>7 DEF st, A

==============================================================================
