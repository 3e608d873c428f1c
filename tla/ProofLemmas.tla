----------------------------- MODULE ProofLemmas -----------------------------
(***************************************************************************)
(* Facts that the proofs of several components use: induction over numbers *)
(* and finite sets, stated with sets instead of predicates, recursive      *)
(* functions, sums over finite sets, and sizes of sets that change by one  *)
(* member.                                                                 *)
(***************************************************************************)
EXTENDS Integers, FiniteSetsExt, FiniteSetTheorems, WellFoundedInduction, TLAPS

\* A non-empty set of numbers has a least member.
LEMMA NatLeast ==
  ASSUME NEW T, T \subseteq Nat, T # {}
  PROVE  \E x \in T : \A y \in T : x <= y
<1> DEFINE R == OpToRel(<, Nat)
<1>1. IsWellFoundedOn(R, Nat)
  BY NatLessThanWellFounded, Zenon
<1> HIDE DEF R
<1>2. PICK x \in T : \A y \in T : ~ (<<y, x>> \in R)
  BY <1>1, WFMin
<1>3. \A u, v \in Nat : <<v, u>> \in R <=> v < u
  BY DEF R, OpToRel
<1>4. ASSUME NEW y \in T PROVE x <= y
  <2>1. /\ x \in Nat
        /\ y \in Nat
        /\ ~ (<<y, x>> \in R)
    BY <1>2
  <2>2. ~ (y < x)
    BY <1>3, <2>1
  <2>3. QED
    BY <2>1, <2>2
<1>5. QED
  BY <1>4

\* Induction: Good stands for the numbers with the property.
LEMMA NatInduct ==
  ASSUME NEW Good, 0 \in Good, \A n \in Nat : n \in Good => n + 1 \in Good
  PROVE  \A n \in Nat : n \in Good
<1> SUFFICES ASSUME ~ (\A n \in Nat : n \in Good) PROVE FALSE
  OBVIOUS
<1>1. PICK x \in Nat \ Good : \A y \in Nat \ Good : x <= y
  BY NatLeast
<1>2. QED
  BY <1>1

\* The same for a function over an initial segment.
LEMMA StaysIn ==
  ASSUME NEW V, NEW N \in Nat, NEW f, f[0] \in V,
         \A n \in 1..N : f[n - 1] \in V => f[n] \in V
  PROVE  \A n \in 0..N : f[n] \in V
<1> DEFINE Good == {n \in Nat : n <= N => f[n] \in V}
<1>1. 0 \in Good
  OBVIOUS
<1>2. ASSUME NEW n \in Nat, n \in Good PROVE n + 1 \in Good
  <2>1. ASSUME n + 1 <= N PROVE f[n + 1] \in V
    <3>1. f[n] \in V
      BY <1>2, <2>1
    <3>2. /\ n + 1 \in 1..N
          /\ (n + 1) - 1 = n
      BY <2>1
    <3>3. QED
      BY <3>1, <3>2
  <2>2. QED
    BY <2>1
<1>3. \A n \in Nat : n \in Good
  <2> HIDE DEF Good
  <2>1. QED
    BY <1>1, <1>2, NatInduct
<1>4. QED
  BY <1>3

\* A function that is defined by recursion over 0..N, by a start and a step,
\* exists.
LEMMA Recursion ==
  ASSUME NEW V, NEW base \in V, NEW N \in Nat, NEW step \in [1..N -> [V -> V]]
  PROVE  \E f \in [0..N -> V] :
           /\ f[0] = base
           /\ \A n \in 1..N : f[n] = step[n][f[n - 1]]
<1> DEFINE Upto(k, f) == /\ f[0] = base
                         /\ \A n \in 1..k : f[n] = step[n][f[n - 1]]
           Good == {k \in Nat : k <= N => \E f \in [0..k -> V] : Upto(k, f)}
<1>1. 0 \in Good
  <2>1. [n \in 0..0 |-> base] \in [0..0 -> V] /\ Upto(0, [n \in 0..0 |-> base])
    OBVIOUS
  <2>2. QED
    BY <2>1
<1>2. ASSUME NEW k \in Nat, k \in Good PROVE k + 1 \in Good
  <2>1. ASSUME k + 1 <= N PROVE \E f \in [0..(k + 1) -> V] : Upto(k + 1, f)
    <3>1. PICK f \in [0..k -> V] : Upto(k, f)
      BY <1>2, <2>1
    <3> DEFINE g == [n \in 0..(k + 1) |-> IF n <= k THEN f[n] ELSE step[k + 1][f[k]]]
    <3>2. step[k + 1][f[k]] \in V
      BY <2>1
    <3>3. g \in [0..(k + 1) -> V]
      BY <3>2
    <3>4. g[0] = base
      BY <3>1
    <3>5. ASSUME NEW n \in 1..(k + 1) PROVE g[n] = step[n][g[n - 1]]
      <4>1. CASE n <= k
        BY <3>1, <4>1
      <4>2. CASE n = k + 1
        <5>1. /\ g[n] = step[k + 1][f[k]]
              /\ g[k] = f[k]
              /\ n - 1 = k
          BY <4>2
        <5>2. QED
          BY <4>2, <5>1
      <4>3. QED
        BY <4>1, <4>2
    <3>6. QED
      BY <3>3, <3>4, <3>5
  <2>2. QED
    BY <2>1
<1>3. \A k \in Nat : k \in Good
  <2> HIDE DEF Good
  <2>1. QED
    BY <1>1, <1>2, NatInduct
<1>4. QED
  BY <1>3

\* Induction over the subsets of a finite set.
LEMMA SubsetInduct ==
  ASSUME NEW S, IsFiniteSet(S), NEW Good,
         \A T \in SUBSET S :
           (\A U \in SUBSET T : U # T => U \in Good) => T \in Good
  PROVE  \A T \in SUBSET S : T \in Good
<1> DEFINE R == StrictSubsetOrdering(S)
           Bad == {T \in SUBSET S : T \notin Good}
<1> SUFFICES ASSUME Bad # {} PROVE FALSE
  OBVIOUS
<1>1. IsWellFoundedOn(R, SUBSET S)
  <2>1. FiniteSubsetsOf(S) = SUBSET S
    BY FS_FiniteSubsetsOfFinite
  <2>2. IsWellFoundedOn(R, FiniteSubsetsOf(S))
    BY FS_StrictSubsetOrderingWellFounded
  <2>3. QED
    BY <2>1, <2>2
<1>2. PICK T \in Bad : \A U \in Bad : ~ (<<U, T>> \in R)
  <2> HIDE DEF R
  <2>1. Bad \subseteq SUBSET S
    OBVIOUS
  <2> HIDE DEF Bad
  <2>2. QED
    BY <1>1, <2>1, WFMin
<1>3. ASSUME NEW U \in SUBSET T, U # T PROVE U \in Good
  <2>1. <<U, T>> \in R
    BY <1>3 DEF StrictSubsetOrdering
  <2>2. U \notin Bad
    BY <1>2, <2>1
  <2>3. QED
    BY <2>2
<1>4. QED
  BY <1>3
-----------------------------------------------------------------------------
\* g sums the weights w over the subsets of S, picking the members one by one
\* as the folds of the library do.
Picked(s) == CHOOSE x \in s : TRUE
SumsUp(g, w, S) ==
  g = [s \in SUBSET S |->
         IF s = {} THEN 0 ELSE w[Picked(s)] + g[s \ {Picked(s)}]]

\* The sum of the weights w over S.
Weigh(w, S) == (CHOOSE g : SumsUp(g, w, S))[S]

\* What is picked from a set is in it.
LEMMA PickedIn == ASSUME NEW s, s # {} PROVE Picked(s) \in s
BY DEF Picked

\* Such a function exists,
LEMMA SumExists ==
  ASSUME NEW S, IsFiniteSet(S), NEW w, \A x \in S : w[x] \in Nat
  PROVE  \E g : SumsUp(g, w, S)
<1> DEFINE Small(k) == {s \in SUBSET S : Cardinality(s) <= k}
           Body(g, s) == IF s = {} THEN 0 ELSE w[Picked(s)] + g[s \ {Picked(s)}]
           Solved(k) == \E g : g = [s \in Small(k) |-> Body(g, s)]
           Good == {k \in Nat : Solved(k)}
<1>0. \A s \in SUBSET S : IsFiniteSet(s) /\ Cardinality(s) \in Nat
  BY FS_Subset, FS_CardinalityType
<1>1. 0 \in Good
  <2>1. \A s \in Small(0) : s = {}
    BY <1>0, FS_EmptySet
  <2> DEFINE z == [s \in Small(0) |-> 0]
  <2>2. z = [s \in Small(0) |-> Body(z, s)]
    BY <2>1
  <2>3. QED
    BY <2>2
<1>2. ASSUME NEW k \in Nat, k \in Good PROVE k + 1 \in Good
  <2>1. PICK g : g = [s \in Small(k) |-> Body(g, s)]
    BY <1>2
  <2> DEFINE h == [s \in Small(k + 1) |-> Body(g, s)]
  <2>2. ASSUME NEW s \in Small(k + 1), s # {}
        PROVE  s \ {Picked(s)} \in Small(k) /\ s \ {Picked(s)} \in Small(k + 1)
    <3>1. Cardinality(s \ {Picked(s)}) = Cardinality(s) - 1
      BY <1>0, <2>2, PickedIn, FS_RemoveElement
    <3>2. QED
      BY <1>0, <3>1
  <2>3. ASSUME NEW s \in Small(k + 1) PROVE h[s] = Body(h, s)
    <3>1. CASE s = {}
      BY <3>1
    <3>2. CASE s # {}
      <4> DEFINE r == s \ {Picked(s)}
      <4>1. r \in Small(k) /\ r \in Small(k + 1)
        BY <2>2, <3>2
      <4> HIDE DEF r
      <4>2. g[r] = Body(g, r)
        BY <2>1, <4>1
      <4>3. h[r] = Body(g, r)
        BY <4>1
      <4>4. h[s] = w[Picked(s)] + g[r]
        BY <3>2 DEF r
      <4>5. Body(h, s) = w[Picked(s)] + h[r]
        BY <3>2 DEF r
      <4>6. QED
        BY <4>2, <4>3, <4>4, <4>5
    <3>3. QED
      BY <3>1, <3>2
  <2>4. h = [s \in Small(k + 1) |-> Body(h, s)]
    <3>1. h = [s \in Small(k + 1) |-> h[s]]
      OBVIOUS
    <3> HIDE DEF h
    <3>2. QED
      BY <2>3, <3>1
  <2> HIDE DEF h
  <2>5. Solved(k + 1)
    BY <2>4
  <2> HIDE DEF Solved
  <2>6. QED
    BY <2>5
<1>3. \A k \in Nat : k \in Good
  <2> HIDE DEF Good
  <2>1. QED
    BY <1>1, <1>2, NatInduct
<1>4. Small(Cardinality(S)) = SUBSET S
  BY FS_Subset
<1>5. PICK g : g = [s \in Small(Cardinality(S)) |-> Body(g, s)]
  BY <1>3, FS_CardinalityType
<1>6. SumsUp(g, w, S)
  BY <1>4, <1>5 DEF SumsUp
<1>7. QED
  BY <1>6

\* What a sum does, whatever the order in which the members are picked.
SumLaws(g, w, S) ==
  /\ g[{}] = 0
  /\ \A T \in SUBSET S : g[T] \in Nat
  /\ \A T \in SUBSET S : \A x \in T : g[T] = w[x] + g[T \ {x}]

\* it obeys them,
LEMMA SumSteps ==
  ASSUME NEW S, IsFiniteSet(S), NEW w, \A x \in S : w[x] \in Nat,
         NEW g, SumsUp(g, w, S)
  PROVE  SumLaws(g, w, S)
<1>1. g[{}] = 0
  BY DEF SumsUp
<1>2. \A T \in SUBSET S : T # {} =>
        /\ Picked(T) \in T
        /\ g[T] = w[Picked(T)] + g[T \ {Picked(T)}]
  BY PickedIn DEF SumsUp
<1>3. \A T \in SUBSET S : g[T] \in Nat
  <2> DEFINE Good == {T \in SUBSET S : g[T] \in Nat}
  <2>1. ASSUME NEW T \in SUBSET S, \A U \in SUBSET T : U # T => U \in Good
        PROVE  T \in Good
    <3>1. CASE T = {}
      BY <1>1, <3>1
    <3>2. CASE T # {}
      <4>1. T \ {Picked(T)} \in Good
        BY <1>2, <2>1, <3>2
      <4>2. QED
        BY <1>2, <3>2, <4>1
    <3>3. QED
      BY <3>1, <3>2
  <2> HIDE DEF Good
  <2>2. \A T \in SUBSET S : T \in Good
    BY <2>1, SubsetInduct
  <2>3. QED
    BY <2>2 DEF Good
<1>4. \A T \in SUBSET S : \A x \in T : g[T] = w[x] + g[T \ {x}]
  <2> DEFINE Good == {T \in SUBSET S : \A x \in T : g[T] = w[x] + g[T \ {x}]}
  <2>1. ASSUME NEW T \in SUBSET S, \A U \in SUBSET T : U # T => U \in Good
        PROVE  T \in Good
    <3>1. ASSUME NEW x \in T PROVE g[T] = w[x] + g[T \ {x}]
      <4> DEFINE p == Picked(T)
      <4>1. p \in T /\ g[T] = w[p] + g[T \ {p}]
        BY <1>2
      <4> HIDE DEF p
      <4>2. CASE x = p
        BY <4>1, <4>2
      <4>3. CASE x # p
        <5>1. /\ T \ {p} \in Good
              /\ T \ {x} \in Good
              /\ x \in T \ {p}
              /\ p \in T \ {x}
              /\ (T \ {p}) \ {x} = (T \ {x}) \ {p}
          BY <2>1, <4>1, <4>3
        <5>2. /\ g[T \ {p}] = w[x] + g[(T \ {p}) \ {x}]
              /\ g[T \ {x}] = w[p] + g[(T \ {x}) \ {p}]
          BY <5>1
        <5>3. /\ w[x] \in Nat /\ w[p] \in Nat
              /\ g[(T \ {x}) \ {p}] \in Nat
          BY <1>3, <4>1
        <5> DEFINE r == g[(T \ {x}) \ {p}]
                   wx == w[x]
                   wp == w[p]
        <5>4. /\ g[T] = wp + (wx + r)
              /\ w[x] + g[T \ {x}] = wx + (wp + r)
              /\ wx \in Nat /\ wp \in Nat /\ r \in Nat
          BY <4>1, <5>1, <5>2, <5>3
        <5> HIDE DEF r, wx, wp
        <5>5. QED
          BY <5>4
      <4>4. QED
        BY <4>2, <4>3
    <3>2. QED
      BY <3>1
  <2> HIDE DEF Good
  <2>2. \A T \in SUBSET S : T \in Good
    BY <2>1, SubsetInduct
  <2>3. QED
    BY <2>2 DEF Good
<1>5. QED
  BY <1>1, <1>3, <1>4 DEF SumLaws

\* and is the only one.
LEMMA SumUnique ==
  ASSUME NEW S, IsFiniteSet(S), NEW w, NEW g, SumsUp(g, w, S),
         NEW T \in SUBSET S, NEW v, NEW h, SumsUp(h, v, T),
         \A x \in T : v[x] = w[x]
  PROVE  g[T] = h[T]
<1> DEFINE Good == {U \in SUBSET T : g[U] = h[U]}
<1>0. IsFiniteSet(T)
  BY FS_Subset
<1>1. ASSUME NEW U \in SUBSET T, \A V \in SUBSET U : V # U => V \in Good
      PROVE  U \in Good
  <2>1. CASE U = {}
    BY <2>1 DEF SumsUp
  <2>2. CASE U # {}
    <3>1. U \ {Picked(U)} \in Good /\ Picked(U) \in U
      BY <1>1, <2>2, PickedIn
    <3>2. /\ g[U] = w[Picked(U)] + g[U \ {Picked(U)}]
          /\ h[U] = v[Picked(U)] + h[U \ {Picked(U)}]
      BY <2>2 DEF SumsUp
    <3>3. QED
      BY <3>1, <3>2
  <2>3. QED
    BY <2>1, <2>2
<1> HIDE DEF Good
<1>2. \A U \in SUBSET T : U \in Good
  BY <1>0, <1>1, SubsetInduct
<1>3. QED
  BY <1>2 DEF Good
-----------------------------------------------------------------------------
\* The sum over a set is that over the rest and the weight of a member.
LEMMA WeighMember ==
  ASSUME NEW S, IsFiniteSet(S), NEW w, \A x \in S : w[x] \in Nat
  PROVE  /\ Weigh(w, S) \in Nat
         /\ S = {} => Weigh(w, S) = 0
         /\ \A x \in S : Weigh(w, S) = w[x] + Weigh(w, S \ {x})
<1>1. PICK g : SumsUp(g, w, S) /\ Weigh(w, S) = g[S]
  BY SumExists DEF Weigh
<1>3. SumLaws(g, w, S)
  BY <1>1, SumSteps
<1>4. ASSUME NEW x \in S PROVE g[S \ {x}] = Weigh(w, S \ {x})
  <2> DEFINE T == S \ {x}
  <2>1. T \in SUBSET S /\ IsFiniteSet(T) /\ \A y \in T : w[y] \in Nat
    BY FS_Subset
  <2> HIDE DEF T
  <2>2. PICK h : SumsUp(h, w, T) /\ Weigh(w, T) = h[T]
    BY <2>1, SumExists DEF Weigh
  <2>4. g[T] = h[T]
    BY <1>1, <2>1, <2>2, SumUnique
  <2>5. QED
    BY <2>2, <2>4 DEF T
<1>5. QED
  BY <1>1, <1>3, <1>4 DEF SumLaws

\* A sum is the sum over a part and over the rest.
LEMMA WeighSplit ==
  ASSUME NEW S, IsFiniteSet(S), NEW w, \A x \in S : w[x] \in Nat
  PROVE  \A T \in SUBSET S : Weigh(w, S) = Weigh(w, T) + Weigh(w, S \ T)
<1> DEFINE Good == {T \in SUBSET S : Weigh(w, S) = Weigh(w, T) + Weigh(w, S \ T)}
<1>0. \A T \in SUBSET S : IsFiniteSet(T) /\ Weigh(w, T) \in Nat
  BY FS_Subset, WeighMember
<1>1. ASSUME NEW T \in SUBSET S, \A U \in SUBSET T : U # T => U \in Good
      PROVE  T \in Good
  <2>1. CASE T = {}
    <3>1. Weigh(w, {}) = 0
      BY FS_EmptySet, WeighMember
    <3>2. S \ T = S
      BY <2>1
    <3>3. QED
      BY <1>0, <2>1, <3>1, <3>2
  <2>2. CASE T # {}
    <3>1. PICK x \in T : TRUE
      BY <2>2
    <3>2. T \ {x} \in Good
      BY <1>1, <3>1
    <3>3. Weigh(w, T) = w[x] + Weigh(w, T \ {x})
      BY <1>0, WeighMember
    <3>4. S \ (T \ {x}) = (S \ T) \cup {x}
      OBVIOUS
    <3>5. Weigh(w, (S \ T) \cup {x}) = w[x] + Weigh(w, S \ T)
      <4> DEFINE W == (S \ T) \cup {x}
      <4>1. W \in SUBSET S /\ x \in W /\ W \ {x} = S \ T
        BY <3>1
      <4> HIDE DEF W
      <4>2. Weigh(w, W) = w[x] + Weigh(w, W \ {x})
        BY <1>0, <4>1, WeighMember
      <4>3. QED
        BY <4>1, <4>2 DEF W
    <3>6. /\ w[x] \in Nat
          /\ Weigh(w, S) \in Nat
          /\ Weigh(w, T \ {x}) \in Nat
          /\ Weigh(w, S \ T) \in Nat
      BY <1>0
    <3>7. Weigh(w, S) = Weigh(w, T \ {x}) + (w[x] + Weigh(w, S \ T))
      BY <3>2, <3>4, <3>5
    <3>8. Weigh(w, S) = Weigh(w, T) + Weigh(w, S \ T)
      BY <3>3, <3>6, <3>7
    <3>9. QED
      BY <3>8
  <2>3. QED
    BY <2>1, <2>2
<1> HIDE DEF Good
<1>2. \A T \in SUBSET S : T \in Good
  BY <1>1, SubsetInduct
<1>3. QED
  BY <1>2 DEF Good

\* Only the weights of the members count.
LEMMA WeighSame ==
  ASSUME NEW S, IsFiniteSet(S), NEW w, NEW v,
         \A x \in S : w[x] \in Nat /\ v[x] = w[x]
  PROVE  Weigh(v, S) = Weigh(w, S)
<1> DEFINE g == CHOOSE g : SumsUp(g, w, S)
           h == CHOOSE h : SumsUp(h, v, S)
<1>1. SumsUp(g, w, S) /\ SumsUp(h, v, S)
  BY SumExists
<1>2. Weigh(w, S) = g[S] /\ Weigh(v, S) = h[S]
  BY DEF Weigh
<1> HIDE DEF g, h
<1>3. g[S] = h[S]
  BY <1>1, SumUnique
<1>4. QED
  BY <1>2, <1>3
-----------------------------------------------------------------------------
\* A set and what it becomes when at most the member t comes or goes.
LEMMA OneMember ==
  ASSUME NEW S, NEW S2, NEW t, IsFiniteSet(S), S2 \ {t} = S \ {t}
  PROVE  /\ IsFiniteSet(S2)
         /\ Cardinality(S) \in Nat
         /\ Cardinality(S2) \in Nat
         /\ t \in S => Cardinality(S) >= 1
         /\ Cardinality(S2) = Cardinality(S)
                              + (IF t \in S2 THEN 1 ELSE 0)
                              - (IF t \in S THEN 1 ELSE 0)
<1> DEFINE R == S \ {t}
<1>1. /\ IsFiniteSet(R)
      /\ Cardinality(R) \in Nat
  BY FS_Subset, FS_CardinalityType
<1>2. /\ IsFiniteSet(R \cup {t})
      /\ Cardinality(R \cup {t}) = Cardinality(R) + 1
  <2>1. t \notin R
    OBVIOUS
  <2> HIDE DEF R
  <2>2. QED
    BY <1>1, <2>1, FS_AddElement
<1>3. S = IF t \in S THEN R \cup {t} ELSE R
  OBVIOUS
<1>4. S2 = IF t \in S2 THEN R \cup {t} ELSE R
  OBVIOUS
<1> HIDE DEF R
<1>5. CASE t \in S
  <2>1. /\ IsFiniteSet(S)
        /\ Cardinality(S) = Cardinality(R) + 1
    BY <1>2, <1>3, <1>5
  <2>2. CASE t \in S2
    <3>1. S2 = R \cup {t}
      BY <1>4, <2>2
    <3>2. QED
      BY <1>1, <1>2, <1>5, <2>1, <2>2, <3>1
  <2>3. CASE t \notin S2
    <3>1. S2 = R
      BY <1>4, <2>3
    <3>2. QED
      BY <1>1, <1>5, <2>1, <2>3, <3>1
  <2>4. QED
    BY <2>2, <2>3
<1>6. CASE t \notin S
  <2>1. Cardinality(S) = Cardinality(R)
    BY <1>3, <1>6
  <2>2. CASE t \in S2
    <3>1. S2 = R \cup {t}
      BY <1>4, <2>2
    <3>2. QED
      BY <1>1, <1>2, <1>6, <2>1, <2>2, <3>1
  <2>3. CASE t \notin S2
    BY <1>1, <1>4, <1>6, <2>1, <2>3
  <2>4. QED
    BY <2>2, <2>3
<1>7. QED
  BY <1>5, <1>6
=============================================================================
