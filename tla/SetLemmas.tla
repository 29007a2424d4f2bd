------------------------------ MODULE SetLemmas ------------------------------
(***************************************************************************)
(* Facts about finite sets of which several of the proofs have need:       *)
(* induction, stated for a set instead of a predicate so that the provers  *)
(* can apply it, least and greatest elements, and sums (SumFunctionOnSet)  *)
(* as a recursion that does not depend on the order of its choices; and    *)
(* sorting (Ranked).                                                       *)
(***************************************************************************)
EXTENDS Integers, FiniteSets, Functions, Ranking, FiniteSetTheorems, WellFoundedInduction, TLAPS

(***************************************************************************)
(* Induction                                                               *)
(***************************************************************************)
\* Every non-empty set of naturals has a least element.
LEMMA LeastNatural ==
  ASSUME NEW T \in SUBSET Nat, T # {}
  PROVE  \E n \in T : \A m \in T : n <= m
<1> DEFINE R == {p \in Nat \X Nat : p[1] < p[2]}
<1>1. IsWellFoundedOn(R, Nat)
  BY NatLessThanWellFounded, Zenon DEF OpToRel
<1>2. PICK n \in T : \A m \in T : ~(<<m, n>> \in R)
  <2> HIDE DEF R
  <2> QED BY <1>1, WFMin
<1>3. \A m \in T : ~(m < n)
  BY <1>2
<1> QED BY <1>2, <1>3

\* A set that holds 0 and with each natural its successor holds them all.
LEMMA NaturalInduction ==
  ASSUME NEW T, 0 \in T, \A n \in Nat : n \in T => n + 1 \in T
  PROVE  \A n \in Nat : n \in T
<1> SUFFICES ASSUME Nat \ T # {} PROVE FALSE
  OBVIOUS
<1>1. PICK n \in Nat \ T : \A m \in Nat \ T : n <= m
  BY LeastNatural
<1>2. n # 0 /\ n - 1 \in Nat
  BY <1>1
<1>3. n - 1 \in T
  BY <1>1, <1>2
<1> QED BY <1>1, <1>2, <1>3

\* A set of subsets of S that holds the empty set, and with each subset those
\* that have one element more, holds S.
LEMMA SubsetInduction ==
  ASSUME NEW S, IsFiniteSet(S), NEW T, {} \in T,
         \A A \in SUBSET S, x \in S : A \in T /\ x \notin A => A \cup {x} \in T
  PROVE  \A A \in SUBSET S : A \in T
<1> DEFINE N == {n \in Nat : \A A \in SUBSET S : Cardinality(A) = n => A \in T}
<1>1. 0 \in N
  <2>1. ASSUME NEW A \in SUBSET S, Cardinality(A) = 0 PROVE A \in T
    <3>1. IsFiniteSet(A)
      BY FS_Subset
    <3> QED BY <2>1, <3>1, FS_EmptySet
  <2> QED BY <2>1
<1>2. ASSUME NEW n \in Nat, n \in N PROVE n + 1 \in N
  <2>1. ASSUME NEW A \in SUBSET S, Cardinality(A) = n + 1 PROVE A \in T
    <3>1. IsFiniteSet(A)
      BY FS_Subset
    <3>2. PICK x : x \in A
      BY <2>1, <3>1, FS_EmptySet
    <3>3. Cardinality(A \ {x}) = n
      <4>1. Cardinality(A \ {x}) = Cardinality(A) - 1
        BY <3>1, <3>2, FS_RemoveElement
      <4> QED BY <2>1, <4>1
    <3>4. A \ {x} \in T
      BY <1>2, <3>3
    <3>5. (A \ {x}) \cup {x} \in T
      BY <3>2, <3>4
    <3>6. (A \ {x}) \cup {x} = A
      BY <3>2
    <3> QED BY <3>5, <3>6
  <2> QED BY <2>1
<1>3. \A n \in Nat : n \in N
  <2> HIDE DEF N
  <2> QED BY <1>1, <1>2, NaturalInduction
<1>4. ASSUME NEW A \in SUBSET S PROVE A \in T
  <2>1. Cardinality(A) \in Nat
    BY FS_Subset, FS_CardinalityType
  <2> QED BY <1>3, <2>1
<1> QED BY <1>4

\* A non-empty set of naturals with a bound has a greatest element.
LEMMA GreatestNatural ==
  ASSUME NEW T \in SUBSET Nat, T # {}, NEW b \in Nat, \A n \in T : n <= b
  PROVE  \E n \in T : \A m \in T : m <= n
<1> DEFINE D == {b - n : n \in T}
<1>1. D \in SUBSET Nat /\ D # {}
  <2>1. \A n \in T : b - n \in Nat
    OBVIOUS
  <2>2. D \subseteq Nat
    BY <2>1
  <2>3. PICK n : n \in T
    OBVIOUS
  <2> QED BY <2>2, <2>3
<1>2. PICK d \in D : \A e \in D : d <= e
  BY <1>1, LeastNatural
<1>3. PICK n \in T : d = b - n
  BY <1>2
<1>4. ASSUME NEW m \in T PROVE m <= n
  <2>1. b - m \in D
    OBVIOUS
  <2> QED BY <1>2, <1>3, <2>1
<1> QED BY <1>3, <1>4

(***************************************************************************)
(* Sums.  SumFunctionOnSet(f, S) adds f of the members of S one by one, in *)
(* the order CHOOSE takes them.                                            *)
(***************************************************************************)
Chosen(A) == CHOOSE x \in A : TRUE

\* What one step of the recursion makes of the sum g of a smaller set
SumStep(f, g, A) == IF A = {} THEN 0 ELSE f[Chosen(A)] + g[A \ {Chosen(A)}]
Sums(f, S) == CHOOSE g : g = [A \in SUBSET S |-> SumStep(f, g, A)]

LEMMA SumIsSums ==
  ASSUME NEW f, NEW S
  PROVE  SumFunctionOnSet(f, S) = Sums(f, S)[S]
BY DEF SumFunctionOnSet, FoldFunctionOnSet, MapThenFoldSet, Sums, SumStep, Chosen

LEMMA ChosenIn ==
  ASSUME NEW A, A # {}
  PROVE  Chosen(A) \in A
BY DEF Chosen

\* The recursion has a solution: one for the sets of up to n members, for every n.
LEMMA SumsExist ==
  ASSUME NEW f, NEW S, IsFiniteSet(S)
  PROVE  \E g : g = [A \in SUBSET S |-> SumStep(f, g, A)]
<1> DEFINE Small(n) == {A \in SUBSET S : Cardinality(A) <= n}
           N == {n \in Nat : \E g : g = [A \in Small(n) |-> SumStep(f, g, A)]}
<1>1. \A A \in SUBSET S : IsFiniteSet(A) /\ Cardinality(A) \in Nat
  BY FS_Subset, FS_CardinalityType
<1>2. 0 \in N
  <2>1. \A A \in Small(0) : A = {}
    BY <1>1, FS_EmptySet
  <2> DEFINE g == [A \in Small(0) |-> 0]
  <2>2. g = [A \in Small(0) |-> SumStep(f, g, A)]
    BY <2>1 DEF SumStep
  <2> HIDE DEF g
  <2> QED BY <2>2
<1>3. ASSUME NEW n \in Nat, n \in N PROVE n + 1 \in N
  <2>1. PICK g : g = [A \in Small(n) |-> SumStep(f, g, A)]
    BY <1>3
  <2> DEFINE h == [A \in Small(n + 1) |-> SumStep(f, g, A)]
  <2>2. ASSUME NEW A \in Small(n + 1) PROVE SumStep(f, h, A) = SumStep(f, g, A)
    <3>1. CASE A = {}
      BY <3>1 DEF SumStep
    <3>2. CASE A # {}
      <4> DEFINE B == A \ {Chosen(A)}
      <4>1. Cardinality(B) = Cardinality(A) - 1
        BY <1>1, <3>2, ChosenIn, FS_RemoveElement
      <4>2. B \in Small(n) /\ B \in Small(n + 1)
        BY <1>1, <4>1
      <4>3. h[B] = g[B]
        <5>1. h[B] = SumStep(f, g, B)
          BY <4>2
        <5>2. g[B] = SumStep(f, g, B)
          BY <2>1, <4>2
        <5> QED BY <5>1, <5>2
      <4> HIDE DEF h
      <4> QED BY <3>2, <4>3 DEF SumStep
    <3> QED BY <3>1, <3>2
  <2>3. h = [A \in Small(n + 1) |-> SumStep(f, h, A)]
    BY <2>2
  <2> HIDE DEF h, Small
  <2> QED BY <2>3
<1>4. \A n \in Nat : n \in N
  <2> HIDE DEF N
  <2> QED BY <1>2, <1>3, NaturalInduction
<1>5. PICK g : g = [A \in Small(Cardinality(S)) |-> SumStep(f, g, A)]
  BY <1>1, <1>4
<1>6. Small(Cardinality(S)) = SUBSET S
  BY FS_Subset
<1> QED BY <1>5, <1>6

LEMMA SumsUnfold ==
  ASSUME NEW f, NEW S, IsFiniteSet(S), NEW A \in SUBSET S
  PROVE  Sums(f, S)[A] = SumStep(f, Sums(f, S), A)
<1>1. Sums(f, S) = [B \in SUBSET S |-> SumStep(f, Sums(f, S), B)]
  BY SumsExist DEF Sums
<1> HIDE DEF Sums
<1> QED BY <1>1

\* The sum over a set depends on the values of its members only, not on the
\* set it is computed within.
LEMMA SumsAgree ==
  ASSUME NEW f, NEW g, NEW S, IsFiniteSet(S), NEW T \in SUBSET S,
         \A x \in T : f[x] = g[x]
  PROVE  Sums(f, S)[T] = Sums(g, T)[T]
<1> DEFINE P == {A \in SUBSET T : Sums(f, S)[A] = Sums(g, T)[A]}
           N == {n \in Nat : \A A \in SUBSET T : Cardinality(A) = n => A \in P}
<1>1. IsFiniteSet(T) /\ \A A \in SUBSET T : IsFiniteSet(A) /\ Cardinality(A) \in Nat
  BY FS_Subset, FS_CardinalityType
<1>2. ASSUME NEW A \in SUBSET T, A = {} \/ A \ {Chosen(A)} \in P
      PROVE  A \in P
  <2>1. Sums(f, S)[A] = SumStep(f, Sums(f, S), A)
    BY SumsUnfold
  <2>2. Sums(g, T)[A] = SumStep(g, Sums(g, T), A)
    BY <1>1, SumsUnfold
  <2>3. A # {} => Chosen(A) \in A
    BY ChosenIn
  <2>4. SumStep(f, Sums(f, S), A) = SumStep(g, Sums(g, T), A)
    BY <1>2, <2>3 DEF SumStep
  <2> QED BY <2>1, <2>2, <2>4
<1>3. 0 \in N
  BY <1>1, <1>2, FS_EmptySet
<1>4. ASSUME NEW n \in Nat, n \in N PROVE n + 1 \in N
  <2>1. ASSUME NEW A \in SUBSET T, Cardinality(A) = n + 1 PROVE A \in P
    <3>1. A # {}
      BY <2>1, FS_EmptySet
    <3>2. Cardinality(A \ {Chosen(A)}) = Cardinality(A) - 1
      BY <1>1, <3>1, ChosenIn, FS_RemoveElement
    <3>3. A \ {Chosen(A)} \in P
      <4>1. Cardinality(A \ {Chosen(A)}) = n
        BY <2>1, <3>2
      <4> QED BY <1>4, <4>1
    <3> HIDE DEF P
    <3> QED BY <1>2, <3>3
  <2> QED BY <2>1
<1>5. \A n \in Nat : n \in N
  <2> HIDE DEF N
  <2> QED BY <1>3, <1>4, NaturalInduction
<1> QED BY <1>1, <1>5

\* Any member may be taken first.
LEMMA SumsTakeAny ==
  ASSUME NEW f, NEW S, IsFiniteSet(S), \A x \in S : f[x] \in Nat
  PROVE  \A A \in SUBSET S :
           /\ Sums(f, S)[A] \in Nat
           /\ \A y \in A : Sums(f, S)[A] = f[y] + Sums(f, S)[A \ {y}]
<1> DEFINE g == Sums(f, S)
           P == {A \in SUBSET S : /\ g[A] \in Nat
                                  /\ \A x \in A : g[A] = f[x] + g[A \ {x}]}
           N == {n \in Nat : \A A \in SUBSET S : Cardinality(A) <= n => A \in P}
<1>1. \A A \in SUBSET S : IsFiniteSet(A) /\ Cardinality(A) \in Nat
  BY FS_Subset, FS_CardinalityType
<1>2. \A A \in SUBSET S : g[A] = SumStep(f, g, A)
  BY SumsUnfold
<1> HIDE DEF g
<1>3. 0 \in N
  <2>1. g[{}] = 0
    BY <1>2 DEF SumStep
  <2>2. {} \in P
    BY <2>1
  <2>3. ASSUME NEW A \in SUBSET S, Cardinality(A) <= 0 PROVE A \in P
    <3>1. A = {}
      BY <1>1, <2>3, FS_EmptySet
    <3> QED BY <2>2, <3>1
  <2> QED BY <2>3
<1>4. ASSUME NEW n \in Nat, n \in N PROVE n + 1 \in N
  <2>1. ASSUME NEW A \in SUBSET S, Cardinality(A) <= n + 1, A # {} PROVE A \in P
    <3> DEFINE c == Chosen(A)
    <3>1. c \in A
      BY <2>1, ChosenIn
    <3>2. ASSUME NEW B \in SUBSET A, B # A PROVE B \in P
      <4>1. Cardinality(B) < Cardinality(A)
        BY <1>1, <3>2, FS_Subset
      <4>2. Cardinality(A) \in Nat /\ Cardinality(B) \in Nat
        BY <1>1
      <4>3. Cardinality(B) <= n
        BY <2>1, <4>1, <4>2
      <4> QED BY <1>4, <4>3
    <3>3. \A B \in SUBSET A : B # A =>
            g[B] \in Nat /\ \A x \in B : g[B] = f[x] + g[B \ {x}]
      BY <3>2
    <3> HIDE DEF P
    <3>4. g[A] = f[c] + g[A \ {c}] /\ g[A] \in Nat
      <4>1. SumStep(f, g, A) = f[c] + g[A \ {c}]
        BY <2>1 DEF SumStep
      <4>2. g[A \ {c}] \in Nat /\ f[c] \in Nat
        BY <3>1, <3>3
      <4> QED BY <1>2, <4>1, <4>2
    <3> HIDE DEF c
    <3>5. ASSUME NEW x \in A PROVE g[A] = f[x] + g[A \ {x}]
      <4>1. CASE x = c
        BY <3>4, <4>1
      <4>2. CASE x # c
        <5> DEFINE B == (A \ {c}) \ {x}
        <5>1. g[A \ {c}] = f[x] + g[B]
          BY <3>1, <3>3, <4>2
        <5>2. (A \ {x}) \ {c} = B
          OBVIOUS
        <5>3. g[A \ {x}] = f[c] + g[B]
          <6>1. A \ {x} \in SUBSET A /\ A \ {x} # A
            BY <3>5
          <6>2. c \in A \ {x}
            BY <3>1, <4>2
          <6>3. g[A \ {x}] = f[c] + g[(A \ {x}) \ {c}]
            <7> HIDE DEF B
            <7> QED BY <3>3, <6>1, <6>2
          <6> QED BY <5>2, <6>3
        <5>4. g[B] \in Nat /\ f[x] \in Nat /\ f[c] \in Nat
          BY <3>1, <3>3
        <5> QED BY <3>4, <5>1, <5>3, <5>4
      <4> QED BY <4>1, <4>2
    <3> QED BY <3>4, <3>5 DEF P
  <2>2. {} \in P
    <3> HIDE DEF P
    <3> QED BY <1>3, FS_EmptySet
  <2> HIDE DEF P
  <2> QED BY <2>1, <2>2
<1>5. \A n \in Nat : n \in N
  <2> HIDE DEF N
  <2> QED BY <1>3, <1>4, NaturalInduction
<1>6. \A A \in SUBSET S : A \in P
  <2> HIDE DEF P
  <2> QED BY <1>1, <1>5
<1> QED BY <1>6 DEF g

\* What the proofs use of sums.
LEMMA SumEmpty ==
  ASSUME NEW f
  PROVE  SumFunctionOnSet(f, {}) = 0
<1>1. IsFiniteSet({})
  BY FS_EmptySet
<1>2. Sums(f, {})[{}] = SumStep(f, Sums(f, {}), {})
  BY <1>1, SumsUnfold
<1> QED BY <1>2, SumIsSums DEF SumStep

LEMMA SumNat ==
  ASSUME NEW f, NEW S, IsFiniteSet(S), \A x \in S : f[x] \in Nat
  PROVE  SumFunctionOnSet(f, S) \in Nat
BY SumsTakeAny, SumIsSums

LEMMA SumInt ==
  ASSUME NEW f, NEW S, IsFiniteSet(S), \A x \in S : f[x] \in Int
  PROVE  SumFunctionOnSet(f, S) \in Int
<1> DEFINE g == Sums(f, S)
           N == {n \in Nat : \A A \in SUBSET S : Cardinality(A) <= n => g[A] \in Int}
<1>1. \A A \in SUBSET S : IsFiniteSet(A) /\ Cardinality(A) \in Nat
  BY FS_Subset, FS_CardinalityType
<1>2. \A A \in SUBSET S : g[A] = SumStep(f, g, A)
  BY SumsUnfold
<1> HIDE DEF g
<1>3. 0 \in N /\ g[{}] = 0
  <2>1. \A A \in SUBSET S : Cardinality(A) <= 0 => A = {}
    BY <1>1, FS_EmptySet
  <2>2. g[{}] = 0
    BY <1>2 DEF SumStep
  <2>3. \A A \in SUBSET S : Cardinality(A) <= 0 => g[A] \in Int
    BY <2>1, <2>2
  <2> QED BY <2>2, <2>3
<1>4. ASSUME NEW n \in Nat, n \in N PROVE n + 1 \in N
  <2>1. ASSUME NEW A \in SUBSET S, Cardinality(A) <= n + 1, A # {} PROVE g[A] \in Int
    <3>1. Chosen(A) \in A
      BY <2>1, ChosenIn
    <3>2. Cardinality(A \ {Chosen(A)}) = Cardinality(A) - 1
      BY <1>1, <3>1, FS_RemoveElement
    <3>3. g[A \ {Chosen(A)}] \in Int
      <4>1. Cardinality(A \ {Chosen(A)}) <= n
        BY <1>1, <2>1, <3>2
      <4> QED BY <1>4, <4>1
    <3>4. g[A] = f[Chosen(A)] + g[A \ {Chosen(A)}]
      BY <1>2, <2>1 DEF SumStep
    <3> QED BY <3>1, <3>3, <3>4
  <2>2. ASSUME NEW A \in SUBSET S, A = {} PROVE g[A] \in Int
    BY <1>3, <2>2
  <2>3. \A A \in SUBSET S : Cardinality(A) <= n + 1 => g[A] \in Int
    BY <2>1, <2>2
  <2> QED BY <2>3
<1>5. \A n \in Nat : n \in N
  <2> HIDE DEF N
  <2> QED BY <1>3, <1>4, NaturalInduction
<1>6. g[S] \in Int
  BY <1>1, <1>5
<1> QED BY <1>6, SumIsSums DEF g

LEMMA SumSame ==
  ASSUME NEW f, NEW g, NEW S, IsFiniteSet(S), \A x \in S : f[x] = g[x]
  PROVE  SumFunctionOnSet(f, S) = SumFunctionOnSet(g, S)
BY SumsAgree, SumIsSums

LEMMA SumRemove ==
  ASSUME NEW f, NEW S, IsFiniteSet(S), \A x \in S : f[x] \in Nat, NEW x \in S
  PROVE  /\ SumFunctionOnSet(f, S) = f[x] + SumFunctionOnSet(f, S \ {x})
         /\ SumFunctionOnSet(f, S \ {x}) \in Nat
<1>1. Sums(f, S)[S] = f[x] + Sums(f, S)[S \ {x}]
  <2>1. /\ S \in SUBSET S /\ S \ {x} \in SUBSET S
        /\ f[x] \in Int /\ Sums(f, S)[S] \in Int /\ Sums(f, S)[S \ {x}] \in Int
    BY SumsTakeAny
  <2> QED BY <2>1, SumsTakeAny
<1>2. Sums(f, S)[S \ {x}] = Sums(f, S \ {x})[S \ {x}]
  <2>1. S \ {x} \in SUBSET S
    OBVIOUS
  <2> QED BY <2>1, SumsAgree
<1>3. IsFiniteSet(S \ {x})
  BY FS_Subset
<1>4. SumFunctionOnSet(f, S \ {x}) \in Nat
  BY <1>3, SumNat
<1> QED BY <1>1, <1>2, <1>4, SumIsSums

LEMMA SumAdd ==
  ASSUME NEW f, NEW S, IsFiniteSet(S), NEW x, x \notin S,
         f[x] \in Nat, \A y \in S : f[y] \in Nat
  PROVE  SumFunctionOnSet(f, S \cup {x}) = f[x] + SumFunctionOnSet(f, S)
<1>1. IsFiniteSet(S \cup {x}) /\ (S \cup {x}) \ {x} = S
  BY FS_AddElement
<1>2. SumFunctionOnSet(f, S \cup {x})
        = f[x] + SumFunctionOnSet(f, (S \cup {x}) \ {x})
  BY <1>1, SumRemove
<1> QED BY <1>1, <1>2

\* Only the value of x changes.
LEMMA SumChange ==
  ASSUME NEW f, NEW g, NEW S, IsFiniteSet(S), NEW x \in S,
         \A y \in S : f[y] \in Nat /\ g[y] \in Nat,
         \A y \in S \ {x} : f[y] = g[y]
  PROVE  SumFunctionOnSet(g, S) = SumFunctionOnSet(f, S) - f[x] + g[x]
<1>1. /\ SumFunctionOnSet(f, S) = f[x] + SumFunctionOnSet(f, S \ {x})
      /\ SumFunctionOnSet(f, S \ {x}) \in Nat
  BY SumRemove
<1>2. SumFunctionOnSet(g, S) = g[x] + SumFunctionOnSet(g, S \ {x})
  BY SumRemove
<1>3. SumFunctionOnSet(g, S \ {x}) = SumFunctionOnSet(f, S \ {x})
  BY SumSame, FS_Subset
<1> QED BY <1>1, <1>2, <1>3

\* The value of x, if it has none yet, counts as 0 and grows by k.
LEMMA SumUpsert ==
  ASSUME NEW f, NEW g, NEW S, IsFiniteSet(S), NEW x, NEW k \in Nat,
         \A y \in S : f[y] \in Nat,
         \A y \in S \ {x} : g[y] = f[y],
         x \in S => g[x] = f[x] + k, x \notin S => g[x] = k
  PROVE  SumFunctionOnSet(g, S \cup {x}) = SumFunctionOnSet(f, S) + k
<1>1. SumFunctionOnSet(f, S) \in Nat
  BY SumNat
<1>2. CASE x \in S
  <2>1. \A y \in S : g[y] \in Nat
    BY <1>2
  <2>2. SumFunctionOnSet(g, S) = SumFunctionOnSet(f, S) - f[x] + g[x]
    BY <1>2, <2>1, SumChange
  <2>3. S \cup {x} = S
    BY <1>2
  <2>4. g[x] = f[x] + k /\ f[x] \in Nat
    BY <1>2
  <2>5. SumFunctionOnSet(g, S) = SumFunctionOnSet(f, S) + k
    BY <1>1, <2>2, <2>4
  <2> QED BY <2>3, <2>5
<1>3. CASE x \notin S
  <2>1. \A y \in S : g[y] = f[y] /\ g[y] \in Nat
    BY <1>3
  <2>2. SumFunctionOnSet(g, S \cup {x}) = g[x] + SumFunctionOnSet(g, S)
    BY <1>3, <2>1, SumAdd
  <2>3. SumFunctionOnSet(g, S) = SumFunctionOnSet(f, S)
    BY <2>1, SumSame
  <2> QED BY <1>1, <1>3, <2>2, <2>3
<1> QED BY <1>2, <1>3

\* A sum over a subset, or of lesser terms, is no greater.
LEMMA SumLess ==
  ASSUME NEW f, NEW g, NEW S, IsFiniteSet(S), NEW T \in SUBSET S,
         \A x \in S : f[x] \in Nat, \A x \in T : g[x] \in Nat /\ g[x] <= f[x]
  PROVE  SumFunctionOnSet(g, T) <= SumFunctionOnSet(f, S)
<1> DEFINE P == {A \in SUBSET S : SumFunctionOnSet(g, A \cap T) <= SumFunctionOnSet(f, A)}
<1>1. {} \in P
  <2>1. {} \cap T = {}
    OBVIOUS
  <2> QED BY <2>1, SumEmpty
<1>2. ASSUME NEW A \in SUBSET S, NEW x \in S, A \in P, x \notin A PROVE A \cup {x} \in P
  <2>1. /\ IsFiniteSet(A) /\ A \cap T \in SUBSET A /\ IsFiniteSet(A \cap T)
        /\ \A y \in A : f[y] \in Nat
        /\ \A y \in A \cap T : g[y] \in Nat
    <3>1. IsFiniteSet(A)
      BY FS_Subset
    <3> QED BY <3>1, FS_Subset
  <2>2. PICK a \in Nat : a = SumFunctionOnSet(f, A)
    BY <2>1, SumNat
  <2>3. PICK b \in Nat : b = SumFunctionOnSet(g, A \cap T)
    BY <2>1, SumNat
  <2>4. b <= a
    BY <1>2, <2>2, <2>3
  <2>5. SumFunctionOnSet(f, A \cup {x}) = f[x] + a /\ f[x] \in Nat
    BY <1>2, <2>1, <2>2, SumAdd
  <2>6. CASE x \in T
    <3>1. (A \cup {x}) \cap T = (A \cap T) \cup {x} /\ x \notin A \cap T
      BY <1>2, <2>6
    <3>2. SumFunctionOnSet(g, (A \cap T) \cup {x}) = g[x] + b
      BY <1>2, <2>1, <2>3, <2>6, <3>1, SumAdd
    <3>3. g[x] \in Nat /\ g[x] <= f[x]
      BY <2>6
    <3>4. g[x] + b <= f[x] + a
      BY <2>4, <2>5, <3>3
    <3>5. SumFunctionOnSet(g, (A \cup {x}) \cap T) <= SumFunctionOnSet(f, A \cup {x})
      BY <2>5, <3>1, <3>2, <3>4
    <3> QED BY <3>5
  <2>7. CASE x \notin T
    <3>1. (A \cup {x}) \cap T = A \cap T
      BY <2>7
    <3> QED BY <2>3, <2>4, <2>5, <3>1
  <2> QED BY <2>6, <2>7
<1> HIDE DEF P
<1>3. S \in P
  BY <1>1, <1>2, SubsetInduction
<1>4. S \cap T = T
  OBVIOUS
<1> QED BY <1>3, <1>4 DEF P

\* A sum over a union is no greater than the sums over its parts.
LEMMA SumUnion ==
  ASSUME NEW f, NEW S, IsFiniteSet(S), NEW T, IsFiniteSet(T),
         \A x \in S \cup T : f[x] \in Nat
  PROVE  SumFunctionOnSet(f, S \cup T) <= SumFunctionOnSet(f, S) + SumFunctionOnSet(f, T)
<1> DEFINE P == {A \in SUBSET T :
                   SumFunctionOnSet(f, S \cup A) <= SumFunctionOnSet(f, S) + SumFunctionOnSet(f, A)}
<1>0. PICK s \in Nat : s = SumFunctionOnSet(f, S)
  BY SumNat
<1>1. {} \in P
  <2>1. S \cup {} = S
    OBVIOUS
  <2> QED BY <1>0, <2>1, SumEmpty
<1>2. ASSUME NEW A \in SUBSET T, NEW x \in T, A \in P, x \notin A PROVE A \cup {x} \in P
  <2>1. IsFiniteSet(A) /\ IsFiniteSet(S \cup A)
    <3>1. IsFiniteSet(A)
      BY FS_Subset
    <3> QED BY <3>1, FS_Union
  <2>2. PICK a \in Nat : a = SumFunctionOnSet(f, A)
    BY <2>1, SumNat
  <2>3. PICK b \in Nat : b = SumFunctionOnSet(f, S \cup A)
    BY <2>1, SumNat
  <2>4. b <= s + a
    BY <1>0, <1>2, <2>2, <2>3
  <2>5. SumFunctionOnSet(f, A \cup {x}) = f[x] + a /\ f[x] \in Nat
    BY <1>2, <2>1, <2>2, SumAdd
  <2>6. CASE x \in S
    <3>1. S \cup (A \cup {x}) = S \cup A
      BY <2>6
    <3> QED BY <1>0, <2>3, <2>4, <2>5, <3>1
  <2>7. CASE x \notin S
    <3>1. S \cup (A \cup {x}) = (S \cup A) \cup {x} /\ x \notin S \cup A
      BY <1>2, <2>7
    <3>2. SumFunctionOnSet(f, (S \cup A) \cup {x}) = f[x] + b
      BY <2>1, <2>3, <2>5, <3>1, SumAdd
    <3>3. SumFunctionOnSet(f, S \cup (A \cup {x})) = f[x] + b
      BY <3>1, <3>2
    <3>4. f[x] + b <= s + (f[x] + a)
      BY <2>4, <2>5
    <3> QED BY <1>0, <2>5, <3>3, <3>4
  <2> QED BY <2>6, <2>7
<1> HIDE DEF P
<1>3. T \in P
  BY <1>1, <1>2, SubsetInduction
<1> QED BY <1>3 DEF P

(***************************************************************************)
(* Walking back over consecutive members of a finite set of integers.      *)
(***************************************************************************)
WalkStep(D, w, d) == IF d \in D THEN 1 + w[d - 1] ELSE 0
Walk(D) == CHOOSE w : w = [d \in Int |-> WalkStep(D, w, d)]

LEMMA HasLowerBound ==
  ASSUME NEW D \in SUBSET Int, IsFiniteSet(D)
  PROVE  \E b \in Int : \A d \in D : b <= d
<1> DEFINE T == {A \in SUBSET D : \E b \in Int : \A d \in A : b <= d}
<1>1. {} \in T
  OBVIOUS
<1>2. ASSUME NEW A \in SUBSET D, NEW x \in D, A \in T PROVE A \cup {x} \in T
  <2>1. PICK b \in Int : \A d \in A : b <= d
    BY <1>2
  <2> DEFINE c == IF b <= x THEN b ELSE x
  <2>2. c \in Int /\ \A d \in A \cup {x} : c <= d
    BY <2>1
  <2> HIDE DEF c
  <2> QED BY <2>2
<1> HIDE DEF T
<1>3. \A A \in SUBSET D, x \in D : A \in T /\ x \notin A => A \cup {x} \in T
  BY <1>2
<1>4. D \in T
  BY <1>1, <1>3, SubsetInduction
<1> QED BY <1>4 DEF T

\* How many members end at d without a gap.
LEMMA StretchExists ==
  ASSUME NEW D \in SUBSET Int, IsFiniteSet(D), NEW d \in Int
  PROVE  \E n \in Nat : d - n \notin D /\ \A i \in 0..(n - 1) : d - i \in D
<1> DEFINE T == {n \in Nat : d - n \notin D}
<1>1. PICK b \in Int : \A e \in D : b <= e
  BY HasLowerBound
<1>2. T # {}
  <2> DEFINE n == IF b <= d THEN d - b + 1 ELSE 0
  <2>1. n \in Nat /\ d - n < b
    BY <1>1
  <2>2. d - n \in Int /\ ~(b <= d - n)
    BY <1>1, <2>1
  <2>3. d - n \notin D
    BY <1>1, <2>2
  <2> QED BY <2>1, <2>3
<1>3. PICK n \in T : \A m \in T : n <= m
  BY <1>2, LeastNatural
<1>4. ASSUME NEW i \in 0..(n - 1) PROVE d - i \in D
  BY <1>3
<1> QED BY <1>3, <1>4

\* The walk is well-defined and counts just those.
LEMMA WalkExists ==
  ASSUME NEW D \in SUBSET Int, IsFiniteSet(D)
  PROVE  \A d \in Int : Walk(D)[d] = WalkStep(D, Walk(D), d)
<1> DEFINE Is(d, n) == d - n \notin D /\ \A i \in 0..(n - 1) : d - i \in D
           w == [d \in Int |-> CHOOSE n \in Nat : Is(d, n)]
<1>1. \A d \in Int : w[d] \in Nat /\ Is(d, w[d])
  <2> SUFFICES ASSUME NEW d \in Int PROVE w[d] \in Nat /\ Is(d, w[d])
    OBVIOUS
  <2>1. \E n \in Nat : Is(d, n)
    BY StretchExists
  <2>2. w[d] = CHOOSE n \in Nat : Is(d, n)
    OBVIOUS
  <2> HIDE DEF Is, w
  <2> QED BY <2>1, <2>2
<1>2. ASSUME NEW d \in Int, NEW n \in Nat, NEW m \in Nat, Is(d, n), Is(d, m) PROVE n = m
  <2>1. ~(n < m)
    <3> SUFFICES ASSUME n < m PROVE FALSE
      OBVIOUS
    <3>1. n \in 0..(m - 1)
      OBVIOUS
    <3> QED BY <1>2, <3>1
  <2>2. ~(m < n)
    <3> SUFFICES ASSUME m < n PROVE FALSE
      OBVIOUS
    <3>1. m \in 0..(n - 1)
      OBVIOUS
    <3> QED BY <1>2, <3>1
  <2> QED BY <2>1, <2>2
<1>3. ASSUME NEW d \in Int PROVE w[d] = WalkStep(D, w, d)
  <2>1. CASE d \notin D
    <3>1. Is(d, 0)
      BY <2>1
    <3> HIDE DEF Is, w
    <3> QED BY <1>1, <1>2, <2>1, <3>1 DEF WalkStep
  <2>2. CASE d \in D
    <3> PICK n : n = w[d - 1]
      OBVIOUS
    <3>1. n \in Nat /\ Is(d - 1, n)
      BY <1>1
    <3>2. Is(d, n + 1)
      <4>1. d - (n + 1) = (d - 1) - n
        BY <3>1
      <4>2. ASSUME NEW i \in 0..n, i # 0 PROVE d - i \in D
        <5>1. i - 1 \in 0..(n - 1) /\ d - i = (d - 1) - (i - 1)
          BY <3>1, <4>2
        <5> QED BY <3>1, <5>1
      <4>3. d - 0 = d /\ (n + 1) - 1 = n
        BY <3>1
      <4> QED BY <2>2, <3>1, <4>1, <4>2, <4>3
    <3> HIDE DEF Is, w
    <3>3. w[d] = n + 1
      BY <1>1, <1>2, <3>1, <3>2
    <3> QED BY <2>2, <3>1, <3>3 DEF WalkStep
  <2> QED BY <2>1, <2>2
<1>4. w = [d \in Int |-> WalkStep(D, w, d)]
  BY <1>3
<1>5. Walk(D) = [d \in Int |-> WalkStep(D, Walk(D), d)]
  <2> HIDE DEF w
  <2> QED BY <1>4 DEF Walk
<1> HIDE DEF w
<1> QED BY <1>5

LEMMA WalkCounts ==
  ASSUME NEW D \in SUBSET Int, IsFiniteSet(D), NEW d \in Int
  PROVE  /\ Walk(D)[d] \in Nat
         /\ d - Walk(D)[d] \notin D
         /\ \A i \in 0..(Walk(D)[d] - 1) : d - i \in D
<1> PICK w : w = Walk(D)
  OBVIOUS
<1>1. \A e \in Int : w[e] = WalkStep(D, w, e)
  BY WalkExists
<1>2. PICK n \in Nat : d - n \notin D /\ \A i \in 0..(n - 1) : d - i \in D
  BY StretchExists
<1> DEFINE T == {k \in Nat : k <= n => w[(d - n) + k] = k}
<1>3. 0 \in T
  BY <1>1, <1>2 DEF WalkStep
<1>4. ASSUME NEW k \in Nat, k \in T PROVE k + 1 \in T
  <2> SUFFICES ASSUME k + 1 <= n PROVE w[(d - n) + (k + 1)] = k + 1
    OBVIOUS
  <2>1. w[(d - n) + k] = k
    BY <1>4
  <2>2. n - (k + 1) \in 0..(n - 1) /\ d - (n - (k + 1)) = (d - n) + (k + 1)
    OBVIOUS
  <2>3. (d - n) + (k + 1) \in D
    BY <1>2, <2>2
  <2>4. ((d - n) + (k + 1)) - 1 = (d - n) + k
    OBVIOUS
  <2> QED BY <1>1, <2>1, <2>3, <2>4 DEF WalkStep
<1>5. n \in T
  <2> HIDE DEF T
  <2> QED BY <1>3, <1>4, NaturalInduction
<1>6. (d - n) + n = d
  OBVIOUS
<1>7. w[d] = n
  BY <1>5, <1>6
<1> QED BY <1>2, <1>7

(***************************************************************************)
(* Quotients                                                               *)
(***************************************************************************)
\* A quotient is a number, and no smaller than that of a smaller dividend.
LEMMA Quotient ==
  ASSUME NEW a \in Nat, NEW b \in Nat, a <= b, NEW c \in Nat \ {0}
  PROVE  /\ a \div c \in Nat /\ b \div c \in Nat
         /\ a \div c <= b \div c
<1>1. /\ a \div c \in Int /\ a % c \in 0..(c - 1) /\ a = c * (a \div c) + (a % c)
      /\ b \div c \in Int /\ b % c \in 0..(c - 1) /\ b = c * (b \div c) + (b % c)
  OBVIOUS
<1>2. PICK p \in Int, q \in Int, r \in 0..(c - 1), s \in 0..(c - 1) :
        /\ p = a \div c /\ q = b \div c /\ a = c * p + r /\ b = c * q + s
  BY <1>1
<1>3. \A n \in Int : n < 0 => c * n <= -c
  OBVIOUS
<1>4. p >= 0 /\ q >= 0
  BY <1>2, <1>3
<1>5. p <= q
  <2> SUFFICES ASSUME q < p PROVE FALSE
    BY <1>2
  <2>1. c * (q - p) <= -c
    BY <1>3
  <2>2. c * (q - p) = c * q - c * p
    OBVIOUS
  <2> QED BY <1>2, <2>1, <2>2
<1> QED BY <1>2, <1>4, <1>5

\* A product is no smaller than that of a smaller factor.
LEMMA Product ==
  ASSUME NEW a \in Nat, NEW b \in Nat, a <= b, NEW c \in Nat
  PROVE  a * c \in Nat /\ b * c \in Nat /\ a * c <= b * c
<1>1. (b - a) * c >= 0
  OBVIOUS
<1>2. (b - a) * c = b * c - a * c
  OBVIOUS
<1> QED BY <1>1, <1>2

(***************************************************************************)
(* Sorting: the lexicographic order is total, so a finite set has a member *)
(* for every place in it.                                                  *)
(***************************************************************************)
\* The lexicographic order of tuples of n integers is a strict total order.
LEMMA LexOrder ==
  ASSUME NEW n \in Nat, NEW k \in [1..n -> Int], NEW l \in [1..n -> Int]
  PROVE  /\ ~Precedes(k, k)
         /\ \A m \in [1..n -> Int] : Precedes(k, l) /\ Precedes(l, m) => Precedes(k, m)
         /\ k # l => Precedes(k, l) \/ Precedes(l, k)
<1>1. ~Precedes(k, k)
  BY DEF Precedes
<1>2. ASSUME NEW m \in [1..n -> Int], Precedes(k, l), Precedes(l, m) PROVE Precedes(k, m)
  <2>1. PICK i \in 1..n : k[i] < l[i] /\ \A h \in 1..(i - 1) : k[h] = l[h]
    BY <1>2 DEF Precedes
  <2>2. PICK j \in 1..n : l[j] < m[j] /\ \A h \in 1..(j - 1) : l[h] = m[h]
    BY <1>2 DEF Precedes
  <2> DEFINE p == IF i <= j THEN i ELSE j
  <2>3. p \in 1..n /\ p <= i /\ p <= j /\ (p = i \/ p = j)
    OBVIOUS
  <2> HIDE DEF p
  <2>4. \A h \in 1..(p - 1) : k[h] = m[h]
    BY <2>1, <2>2, <2>3
  <2>5. k[p] < m[p]
    <3>1. k[p] \in Int /\ l[p] \in Int /\ m[p] \in Int
      BY <2>3
    <3>2. (p = i \/ p \in 1..(i - 1)) /\ (p = j \/ p \in 1..(j - 1))
      BY <2>3
    <3>3. k[p] <= l[p]
      <4>1. CASE p = i
        BY <2>1, <3>1, <4>1
      <4>2. CASE p \in 1..(i - 1)
        BY <2>1, <3>1, <4>2
      <4> QED BY <3>2, <4>1, <4>2
    <3>4. l[p] <= m[p]
      <4>1. CASE p = j
        BY <2>2, <3>1, <4>1
      <4>2. CASE p \in 1..(j - 1)
        BY <2>2, <3>1, <4>2
      <4> QED BY <3>2, <4>1, <4>2
    <3>5. k[p] < l[p] \/ l[p] < m[p]
      BY <2>1, <2>2, <2>3
    <3> QED BY <3>1, <3>3, <3>4, <3>5
  <2> QED BY <2>3, <2>4, <2>5 DEF Precedes
<1>3. ASSUME k # l PROVE Precedes(k, l) \/ Precedes(l, k)
  <2> DEFINE D == {i \in 1..n : k[i] # l[i]}
  <2>1. D \in SUBSET Nat
    OBVIOUS
  <2>2. D # {}
    BY <1>3
  <2>3. PICK i \in D : \A j \in D : i <= j
    <3> HIDE DEF D
    <3> QED BY <2>1, <2>2, LeastNatural
  <2>4. i \in 1..n /\ k[i] # l[i]
    OBVIOUS
  <2>5. \A j \in 1..(i - 1) : k[j] = l[j]
    BY <2>3, <2>4
  <2>6. k[i] < l[i] \/ l[i] < k[i]
    BY <2>4
  <2> QED BY <2>4, <2>5, <2>6 DEF Precedes
<1> QED BY <1>1, <1>2, <1>3

\* Those that come before x
Earlier(key, x) == {y \in DOMAIN key : Precedes(key[y], key[x])}

\* In a strict total order of a finite set every place is taken by one member.
LEMMA PlacesTaken ==
  ASSUME NEW S, IsFiniteSet(S), NEW key, DOMAIN key = S,
         NEW n \in Nat, \A x \in S : key[x] \in [1..n -> Int],
         \A x, y \in S : key[x] = key[y] => x = y
  PROVE  /\ \A x, y \in S : Precedes(key[x], key[y]) =>
                              Cardinality(Earlier(key, x)) < Cardinality(Earlier(key, y))
         /\ \A x \in S : Cardinality(Earlier(key, x)) \in 0..(Cardinality(S) - 1)
         /\ \A i \in 0..(Cardinality(S) - 1) : \E x \in S : Cardinality(Earlier(key, x)) = i
<1> DEFINE N == Cardinality(S)
<1>0. N \in Nat
  BY FS_CardinalityType
<1>1. \A x \in S : Earlier(key, x) \in SUBSET (S \ {x})
  BY LexOrder DEF Earlier
<1>2. \A x \in S : IsFiniteSet(Earlier(key, x)) /\ Cardinality(Earlier(key, x)) \in Nat
  BY <1>1, FS_Subset, FS_CardinalityType
<1>3. ASSUME NEW x \in S PROVE Cardinality(Earlier(key, x)) \in 0..(N - 1)
  <2>1. IsFiniteSet(S \ {x}) /\ Cardinality(S \ {x}) = N - 1
    BY FS_RemoveElement
  <2>2. Cardinality(Earlier(key, x)) <= N - 1
    BY <1>1, <2>1, FS_Subset
  <2> QED BY <1>0, <1>2, <2>2
<1>4. ASSUME NEW x \in S, NEW y \in S, Precedes(key[x], key[y])
      PROVE  Cardinality(Earlier(key, x)) < Cardinality(Earlier(key, y))
  <2>1. x \notin Earlier(key, x) /\ x \in Earlier(key, y)
    BY <1>1, <1>4 DEF Earlier
  <2>2. ASSUME NEW z \in Earlier(key, x) PROVE z \in Earlier(key, y)
    <3>1. z \in S /\ Precedes(key[z], key[x])
      BY DEF Earlier
    <3>2. Precedes(key[z], key[y])
      BY <1>4, <3>1, LexOrder
    <3> QED BY <3>1, <3>2 DEF Earlier
  <2>3. Earlier(key, x) \cup {x} \in SUBSET Earlier(key, y)
    BY <2>1, <2>2
  <2>4. Cardinality(Earlier(key, x) \cup {x}) = Cardinality(Earlier(key, x)) + 1
    BY <1>2, <2>1, FS_AddElement
  <2>5. Cardinality(Earlier(key, x) \cup {x}) <= Cardinality(Earlier(key, y))
    BY <1>2, <2>3, FS_Subset
  <2> QED BY <1>2, <2>4, <2>5
<1>5. PICK f : f = [x \in S |-> Cardinality(Earlier(key, x))]
  OBVIOUS
<1>6. f \in Injection(S, 0..(N - 1))
  <2>1. f \in [S -> 0..(N - 1)]
    BY <1>3, <1>5
  <2>2. ASSUME NEW x \in S, NEW y \in S, x # y PROVE f[x] # f[y]
    <3>1. Precedes(key[x], key[y]) \/ Precedes(key[y], key[x])
      BY <2>2, LexOrder
    <3>2. f[x] < f[y] \/ f[y] < f[x]
      BY <1>4, <1>5, <3>1
    <3> QED BY <2>1, <3>2
  <2> QED BY <2>1, <2>2 DEF Injection, IsInjective
<1>7. IsFiniteSet(0..(N - 1)) /\ Cardinality(0..(N - 1)) = N
  <2> HIDE DEF N
  <2>1. N - 1 \in Int /\ (0 > N - 1 <=> N = 0) /\ (N - 1) - 0 + 1 = N
    BY <1>0
  <2> QED BY <1>0, <2>1, FS_Interval
<1>8. f \in Surjection(S, 0..(N - 1))
  BY <1>6, <1>7, FS_Injection
<1>9. \A i \in 0..(N - 1) : \E x \in S : f[x] = i
  BY <1>8 DEF Surjection
<1> QED BY <1>3, <1>4, <1>5, <1>9

\* Ranked lists the members each once, in the order of their keys.
Keyed(key, S, n) ==
  /\ DOMAIN key = S
  /\ \A x \in S : key[x] \in [1..n -> Int]
  /\ \A x, y \in S : key[x] = key[y] => x = y
KeysOrdered(s, key, S) ==
  /\ s \in [1..Cardinality(S) -> S]
  /\ \A i, j \in 1..Cardinality(S) : i < j => Precedes(key[s[i]], key[s[j]])
  /\ \A i, j \in 1..Cardinality(S) : s[i] = s[j] => i = j
  /\ \A x \in S : \E i \in 1..Cardinality(S) : s[i] = x
\* What Ranked has at place i is preceded by i - 1 others.
LEMMA RankedAt ==
  ASSUME NEW S, IsFiniteSet(S), NEW n \in Nat, NEW key, Keyed(key, S, n)
  PROVE  /\ Ranked(key) \in [1..Cardinality(S) -> S]
         /\ \A i \in 1..Cardinality(S) : Cardinality(Earlier(key, Ranked(key)[i])) = i - 1
<1> DEFINE N == Cardinality(S)
           s == Ranked(key)
           Here(x, i) == Cardinality({y \in DOMAIN key : Precedes(key[y], key[x])}) = i - 1
<1>0. N \in Nat
  BY FS_CardinalityType
<1>1. /\ DOMAIN key = S
      /\ \A x \in S : key[x] \in [1..n -> Int]
      /\ \A x, y \in S : key[x] = key[y] => x = y
  BY DEF Keyed
<1>2. \A x, i : Here(x, i) <=> Cardinality(Earlier(key, x)) = i - 1
  BY DEF Earlier
<1>3. s = [i \in 1..N |-> CHOOSE x \in S : Here(x, i)]
  BY <1>1 DEF Ranked
<1> HIDE DEF Here, s
<1>4. \A i \in 0..(N - 1) : \E x \in S : Cardinality(Earlier(key, x)) = i
  BY <1>1, PlacesTaken
<1>5. ASSUME NEW i \in 1..N PROVE s[i] \in S /\ Cardinality(Earlier(key, s[i])) = i - 1
  <2>1. i - 1 \in 0..(N - 1)
    BY <1>0
  <2>2. \E x \in S : Here(x, i)
    BY <1>2, <1>4, <2>1
  <2>3. s[i] = CHOOSE x \in S : Here(x, i)
    BY <1>3
  <2> QED BY <1>2, <2>2, <2>3
<1> QED BY <1>3, <1>5 DEF s

LEMMA RankedIs ==
  ASSUME NEW S, IsFiniteSet(S), NEW n \in Nat, NEW key, Keyed(key, S, n)
  PROVE  KeysOrdered(Ranked(key), key, S)
<1> DEFINE N == Cardinality(S)
           s == Ranked(key)
<1>0. N \in Nat
  BY FS_CardinalityType
<1>1. /\ DOMAIN key = S
      /\ \A x \in S : key[x] \in [1..n -> Int]
      /\ \A x, y \in S : key[x] = key[y] => x = y
  BY DEF Keyed
<1>4. /\ \A x, y \in S : Precedes(key[x], key[y]) =>
                           Cardinality(Earlier(key, x)) < Cardinality(Earlier(key, y))
      /\ \A x \in S : Cardinality(Earlier(key, x)) \in 0..(N - 1)
  BY <1>1, PlacesTaken
<1>5. s \in [1..N -> S] /\ \A i \in 1..N : Cardinality(Earlier(key, s[i])) = i - 1
  BY RankedAt
<1> HIDE DEF s
<1>7. ASSUME NEW i \in 1..N, NEW j \in 1..N, i < j PROVE Precedes(key[s[i]], key[s[j]])
  <2>1. s[i] # s[j]
    BY <1>0, <1>5, <1>7
  <2>2. key[s[i]] # key[s[j]]
    BY <1>1, <1>5, <2>1
  <2>3. Precedes(key[s[i]], key[s[j]]) \/ Precedes(key[s[j]], key[s[i]])
    BY <1>1, <1>5, <2>2, LexOrder
  <2>4. ~Precedes(key[s[j]], key[s[i]])
    BY <1>0, <1>4, <1>5, <1>7
  <2> QED BY <2>3, <2>4
<1>8. ASSUME NEW i \in 1..N, NEW j \in 1..N, s[i] = s[j] PROVE i = j
  BY <1>0, <1>5, <1>8
<1>9. ASSUME NEW x \in S PROVE \E i \in 1..N : s[i] = x
  <2>1. PICK i : i = Cardinality(Earlier(key, x)) + 1
    OBVIOUS
  <2>2. i \in 1..N
    BY <1>0, <1>4, <2>1
  <2>3. ~Precedes(key[x], key[s[i]]) /\ ~Precedes(key[s[i]], key[x])
    BY <1>0, <1>4, <1>5, <2>1, <2>2
  <2>4. key[x] = key[s[i]]
    BY <1>1, <1>5, <2>2, <2>3, LexOrder
  <2> QED BY <1>1, <1>5, <2>2, <2>4
<1> QED BY <1>5, <1>7, <1>8, <1>9 DEF s, KeysOrdered

\* The place of a member is one more than the number of those before it.
PlaceOf(s, x) == CHOOSE i \in DOMAIN s : s[i] = x
LEMMA PlaceIs ==
  ASSUME NEW S, IsFiniteSet(S), NEW n \in Nat, NEW key, Keyed(key, S, n), NEW x \in S
  PROVE  PlaceOf(Ranked(key), x) = Cardinality(Earlier(key, x)) + 1
<1>1. PICK s : s = Ranked(key)
  OBVIOUS
<1>2. s \in [1..Cardinality(S) -> S]
      /\ \A i \in 1..Cardinality(S) : Cardinality(Earlier(key, s[i])) = i - 1
  BY <1>1, RankedAt
<1>3. \E i \in 1..Cardinality(S) : s[i] = x
  BY <1>1, RankedIs DEF KeysOrdered
<1>4. PlaceOf(s, x) \in 1..Cardinality(S) /\ s[PlaceOf(s, x)] = x
  BY <1>2, <1>3 DEF PlaceOf
<1>5. Cardinality(S) \in Nat
  BY FS_CardinalityType
<1> QED BY <1>1, <1>2, <1>4, <1>5

\* The place of a member whose key alone comes to be earlier stays or is earlier.
LEMMA PlaceFalls ==
  ASSUME NEW S, IsFiniteSet(S), NEW n \in Nat,
         NEW key, Keyed(key, S, n), NEW new, Keyed(new, S, n),
         NEW x \in S, Precedes(new[x], key[x]), \A y \in S \ {x} : new[y] = key[y]
  PROVE  PlaceOf(Ranked(new), x) <= PlaceOf(Ranked(key), x)
<1>1. /\ DOMAIN key = S /\ DOMAIN new = S
      /\ \A y \in S : key[y] \in [1..n -> Int] /\ new[y] \in [1..n -> Int]
  BY DEF Keyed
<1>2. ASSUME NEW y \in Earlier(new, x) PROVE y \in Earlier(key, x)
  <2>1. y \in S /\ Precedes(new[y], new[x])
    BY <1>1 DEF Earlier
  <2>2. y # x
    BY <1>1, <2>1, LexOrder
  <2>3. Precedes(new[y], key[x])
    BY <1>1, <2>1, LexOrder
  <2>4. Precedes(key[y], key[x])
    BY <2>1, <2>2, <2>3
  <2> QED BY <1>1, <2>1, <2>4 DEF Earlier
<1>3. Earlier(key, x) \in SUBSET S
  BY <1>1 DEF Earlier
<1>4. IsFiniteSet(Earlier(key, x))
  BY <1>3, FS_Subset
<1>5. IsFiniteSet(Earlier(new, x))
      /\ Cardinality(Earlier(new, x)) <= Cardinality(Earlier(key, x))
  BY <1>2, <1>4, FS_Subset
<1>6. Cardinality(Earlier(new, x)) \in Nat /\ Cardinality(Earlier(key, x)) \in Nat
  BY <1>4, <1>5, FS_CardinalityType
<1> QED BY <1>5, <1>6, PlaceIs
=============================================================================
