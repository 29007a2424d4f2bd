--------------------------- MODULE CurriculumProofs ---------------------------
(***************************************************************************)
(* Proofs about Curriculum, for any catalogue, profile, number of weeks,   *)
(* hours and study days: what the days of a finished plan hold, and why a  *)
(* week is over its budget.                                                *)
(*                                                                         *)
(* What is selected and sorted is a fold within a recursive function, so   *)
(* the first lemmas are that a fold is a sequence of turns (InTurnIs) and  *)
(* that the function exists, by induction on the topics it has not begun   *)
(* (VisitsExist).  Every visit keeps the list free of repetitions and      *)
(* leaves nothing out (TopoSortIs), whatever the prerequisites, a cycle    *)
(* included; so the pillars pick distinct topics (SelectedIs).             *)
(*                                                                         *)
(* The invariant follows each topic from there: those before the cursor of *)
(* a pillar are each in one week, once (PlacedOK), and the tasks of a week *)
(* are each in its queue or on one of its days, once (PackedOK).           *)
(***************************************************************************)
EXTENDS Curriculum, SetLemmas, SequenceTheorems

CurriculumSpec == CurriculumInit /\ [][CurriculumNext]_curriculumVars

-----------------------------------------------------------------------------
(***************************************************************************)
(* Folds and turns.                                                        *)
(***************************************************************************)
LEMMA MaxIs ==
  ASSUME NEW A, NEW n \in A, A \subseteq Int, \A m \in A : m <= n
  PROVE  Max(A) = n
<1>1. \A x \in A : (\A y \in A : x >= y) => x = n
  OBVIOUS
<1>2. \A y \in A : n >= y
  OBVIOUS
<1> QED BY <1>1, <1>2, Zenon DEF Max

LEMMA Segments ==
  ASSUME NEW i \in Nat, i # 0
  PROVE  Max(1..i) = i /\ (1..i) \ {i} = 1..(i - 1) /\ 1..i # {}
<1>1. i \in 1..i /\ 1..i \subseteq Int /\ \A m \in 1..i : m <= i
  OBVIOUS
<1>2. Max(1..i) = i
  BY <1>1, MaxIs
<1>3. (1..i) \ {i} = 1..(i - 1)
  OBVIOUS
<1> QED BY <1>1, <1>2, <1>3

\* A fold of a sequence of n elements, as FoldLeft defines it, exists when its
\* operator, f at <<what is accumulated, index>>, stays in the set V.
FoldStep(f, base, g, A) == IF A = {} THEN base ELSE f[<<g[A \ {Max(A)}], Max(A)>>]
Foldable(n, V, base, f) ==
  \E g \in [SUBSET (1..n) -> V] : \A A \in SUBSET (1..n) : g[A] = FoldStep(f, base, g, A)
LEMMA FoldExists ==
  ASSUME NEW n \in Nat, NEW V, NEW base \in V, NEW f,
         \A v \in V, i \in 1..n : f[<<v, i>>] \in V
  PROVE  Foldable(n, V, base, f)
<1> DEFINE Solves(g, m) ==
             /\ g \in [SUBSET (1..m) -> V]
             /\ \A A \in SUBSET (1..m) : g[A] = FoldStep(f, base, g, A)
           T == {m \in Nat : m <= n => \E g : Solves(g, m)}
<1>1. 0 \in T
  <2> DEFINE g == [A \in SUBSET (1..0) |-> base]
  <2>1. SUBSET (1..0) = {{}}
    OBVIOUS
  <2>2. Solves(g, 0)
    BY <2>1 DEF FoldStep
  <2> HIDE DEF g, Solves
  <2> QED BY <2>2
<1>2. ASSUME NEW m \in Nat, m \in T PROVE m + 1 \in T
  <2> SUFFICES ASSUME m + 1 <= n PROVE \E g : Solves(g, m + 1)
    <3> HIDE DEF Solves
    <3> QED OBVIOUS
  <2>1. PICK g : Solves(g, m)
    <3> HIDE DEF Solves
    <3> QED BY <1>2
  <2> DEFINE M == m + 1
             h == [A \in SUBSET (1..M) |-> IF M \in A THEN f[<<g[A \ {M}], M>>] ELSE g[A]]
  <2>2. \A A \in SUBSET (1..M) : A \ {M} \in SUBSET (1..m)
    OBVIOUS
  <2>3. ASSUME NEW A \in SUBSET (1..M), M \in A
        PROVE  h[A] \in V /\ h[A] = FoldStep(f, base, h, A)
    <3>1. Max(A) = M
      <4>1. A \subseteq Int /\ \A k \in A : k <= M
        OBVIOUS
      <4> HIDE DEF M
      <4> QED BY <2>3, <4>1, MaxIs
    <3>2. h[A] = f[<<g[A \ {M}], M>>] /\ h[A \ {M}] = g[A \ {M}] /\ g[A \ {M}] \in V
      BY <2>1, <2>2, <2>3
    <3>3. M \in 1..n
      OBVIOUS
    <3> HIDE DEF h, M
    <3>4. FoldStep(f, base, h, A) = f[<<h[A \ {M}], M>>]
      BY <2>3, <3>1 DEF FoldStep
    <3> QED BY <3>2, <3>3, <3>4
  <2>4. ASSUME NEW A \in SUBSET (1..M), M \notin A
        PROVE  h[A] \in V /\ h[A] = FoldStep(f, base, h, A)
    <3>1. A \in SUBSET (1..m) /\ h[A] = g[A]
      BY <2>2, <2>4
    <3>2. A \ {Max(A)} \in SUBSET (1..M) /\ M \notin A \ {Max(A)}
      BY <2>4
    <3>3. h[A \ {Max(A)}] = g[A \ {Max(A)}]
      BY <3>2
    <3> HIDE DEF h, M
    <3> QED BY <2>1, <3>1, <3>3 DEF FoldStep
  <2>5. h \in [SUBSET (1..M) -> V]
    <3>1. \A A \in SUBSET (1..M) : h[A] \in V
      <4> HIDE DEF h, M
      <4> QED BY <2>3, <2>4
    <3>2. h = [A \in SUBSET (1..M) |-> h[A]]
      OBVIOUS
    <3> HIDE DEF h, M
    <3> QED BY <3>1, <3>2
  <2>6. Solves(h, M)
    <3> HIDE DEF h, M
    <3> QED BY <2>3, <2>4, <2>5
  <2> HIDE DEF h, Solves
  <2> QED BY <2>6
<1>3. n \in T
  <2> HIDE DEF T
  <2> QED BY <1>1, <1>2, NaturalInduction
<1>4. PICK g : Solves(g, n)
  <2> HIDE DEF Solves
  <2> QED BY <1>3
<1> QED BY <1>4 DEF Foldable

\* InTurn passes through pairs of W, one after the other, when step stays in W.
Turns(h, step, ts, a, b, topics) ==
  /\ h[0] = <<a, b>>
  /\ \A i \in 1..Len(topics) :
       h[i] = IF topics[i] \in ts THEN step[<<topics[i], h[i - 1][1], h[i - 1][2]>>]
              ELSE h[i - 1]
  /\ InTurn(step, ts, a, b, topics) = h[Len(topics)]
TurnsWithin(W, step, ts, a, b, topics) ==
  \E h \in [0..Len(topics) -> W] : Turns(h, step, ts, a, b, topics)
LEMMA InTurnIs ==
  ASSUME NEW ts, NEW W, NEW step, NEW a, NEW b, <<a, b>> \in W,
         NEW X, NEW topics \in Seq(X),
         \A t \in ts, acc \in W : step[<<t, acc[1], acc[2]>>] \in W
  PROVE  TurnsWithin(W, step, ts, a, b, topics)
<1> DEFINE n == Len(topics)
           base == <<a, b>>
           F(acc, t) == IF t \in ts THEN step[<<t, acc[1], acc[2]>>] ELSE acc
           f == [x \in W \X (1..n) |-> F(x[1], topics[x[2]])]
           Iter == CHOOSE iter : iter = [A \in SUBSET (DOMAIN topics) |->
                     IF A = {} THEN base ELSE F(iter[A \ {Max(A)}], topics[Max(A)])]
<1>0. n \in Nat /\ DOMAIN topics = 1..n
  BY LenProperties
<1>1. \A t : \A acc \in W : F(acc, t) \in W
  OBVIOUS
<1>2. InTurn(step, ts, a, b, topics) = Iter[1..n]
  BY <1>0 DEF InTurn, FoldLeft, MapThenFoldSet
<1> HIDE DEF F, base, n
<1>3. \A v \in W, i \in 1..n : f[<<v, i>>] = F(v, topics[i]) /\ f[<<v, i>>] \in W
  BY <1>1
<1>4. base \in W
  BY DEF base
<1>5. PICK g \in [SUBSET (1..n) -> W] :
        \A A \in SUBSET (1..n) : g[A] = FoldStep(f, base, g, A)
  <2>1. \A v \in W, i \in 1..n : f[<<v, i>>] \in W
    BY <1>3
  <2> HIDE DEF f
  <2>2. Foldable(n, W, base, f)
    BY <2>1, <1>0, <1>4, FoldExists
  <2> QED BY <2>2 DEF Foldable
<1>6. ASSUME NEW A \in SUBSET (1..n)
      PROVE  g[A] = IF A = {} THEN base ELSE F(g[A \ {Max(A)}], topics[Max(A)])
  <2>1. CASE A = {}
    BY <1>5, <2>1 DEF FoldStep
  <2>2. CASE A # {}
    <3>1. Max(A) \in A
      <4>1. PICK m \in A : \A k \in A : k <= m
        <5>1. A \in SUBSET Nat /\ \A k \in A : k <= n
          BY <1>0
        <5> QED BY <1>0, <2>2, <5>1, GreatestNatural
      <4>2. A \subseteq Int
        OBVIOUS
      <4> QED BY <4>1, <4>2, MaxIs
    <3>2. g[A \ {Max(A)}] \in W
      OBVIOUS
    <3>3. g[A] = f[<<g[A \ {Max(A)}], Max(A)>>]
      BY <1>5, <2>2 DEF FoldStep
    <3> HIDE DEF f
    <3> QED BY <1>3, <2>2, <3>1, <3>2, <3>3
  <2> QED BY <2>1, <2>2
<1>7. g = [A \in SUBSET (DOMAIN topics) |->
             IF A = {} THEN base ELSE F(g[A \ {Max(A)}], topics[Max(A)])]
  <2>1. g = [A \in SUBSET (1..n) |-> g[A]]
    OBVIOUS
  <2> QED BY <1>0, <1>6, <2>1
<1>8. Iter = [A \in SUBSET (1..n) |->
             IF A = {} THEN base ELSE F(Iter[A \ {Max(A)}], topics[Max(A)])]
  BY <1>0, <1>7
<1> HIDE DEF Iter
<1> DEFINE h == [i \in 0..n |-> Iter[1..i]]
<1>9. h[0] = base
  BY <1>0, <1>8
<1>10. ASSUME NEW i \in 1..n PROVE h[i] = F(h[i - 1], topics[i])
  <2>1. Max(1..i) = i /\ (1..i) \ {i} = 1..(i - 1) /\ 1..i # {}
    <3>1. i \in Nat /\ i # 0
      BY <1>0
    <3> QED BY <3>1, Segments
  <2>2. 1..i \in SUBSET (1..n) /\ i - 1 \in 0..n /\ i \in 0..n
    BY <1>0
  <2>3. Iter[1..i] = F(Iter[1..(i - 1)], topics[i])
    BY <1>8, <2>1, <2>2
  <2> QED BY <2>2, <2>3
<1>11. \A i \in 0..n : h[i] \in W
  <2> DEFINE T == {i \in Nat : i <= n => h[i] \in W}
  <2>1. 0 \in T
    BY <1>4, <1>9
  <2>2. ASSUME NEW i \in Nat, i \in T PROVE i + 1 \in T
    <3> SUFFICES ASSUME i + 1 <= n PROVE h[i + 1] \in W
      OBVIOUS
    <3>1. h[i] \in W /\ i + 1 \in 1..n /\ (i + 1) - 1 = i
      BY <1>0, <2>2
    <3> HIDE DEF h
    <3>2. h[i + 1] = F(h[i], topics[i + 1])
      BY <1>10, <3>1
    <3> QED BY <1>1, <3>1, <3>2
  <2> HIDE DEF T
  <2>3. \A i \in Nat : i \in T
    BY <2>1, <2>2, NaturalInduction
  <2> USE DEF T
  <2> HIDE DEF h
  <2> QED BY <1>0, <2>3
<1>12. h \in [0..n -> W]
  <2>1. h = [i \in 0..n |-> h[i]]
    OBVIOUS
  <2> HIDE DEF h
  <2> QED BY <1>11, <2>1
<1>13. h[n] = Iter[1..n]
  BY <1>0
<1> HIDE DEF h
<1>14. Turns(h, step, ts, a, b, topics)
  BY <1>2, <1>9, <1>10, <1>13 DEF Turns, F, base, n
<1> QED BY <1>12, <1>14 DEF TurnsWithin, n

-----------------------------------------------------------------------------
(***************************************************************************)
(* topoSort.                                                               *)
(***************************************************************************)
Distinct(s) == \A i, j \in 1..Len(s) : s[i] = s[j] => i = j

\* Where a visit may lead from the topics done and begun: nothing that is begun is
\* forgotten, and if the topics done are distinct and begun, so they are after it,
\* and those are done that it began.
Sorted(done, begun) == Distinct(done) /\ Range(done) \subseteq begun
Grows(ts, done, begun) ==
  {x \in Seq(ts) \X SUBSET ts :
     /\ begun \subseteq x[2]
     /\ Sorted(done, begun) =>
          Sorted(x[1], x[2]) /\ Range(x[1]) = Range(done) \cup (x[2] \ begun)}

LEMMA GrowsFrom ==
  ASSUME NEW ts, NEW done \in Seq(ts), NEW begun \in SUBSET ts
  PROVE  <<done, begun>> \in Grows(ts, done, begun)
BY DEF Grows

LEMMA GrowsOn ==
  ASSUME NEW ts, NEW done, NEW begun, NEW x \in Grows(ts, done, begun)
  PROVE  /\ x[1] \in Seq(ts) /\ x[2] \in SUBSET ts /\ begun \subseteq x[2]
         /\ Grows(ts, x[1], x[2]) \subseteq Grows(ts, done, begun)
<1>1. x[1] \in Seq(ts) /\ x[2] \in SUBSET ts /\ begun \subseteq x[2]
  BY DEF Grows
<1>2. ASSUME NEW y \in Grows(ts, x[1], x[2])
      PROVE  y \in Grows(ts, done, begun)
  <2>1. y \in Seq(ts) \X SUBSET ts /\ begun \subseteq x[2] /\ x[2] \subseteq y[2]
    BY DEF Grows
  <2>2. ASSUME Sorted(done, begun)
        PROVE  Sorted(y[1], y[2]) /\ Range(y[1]) = Range(done) \cup (y[2] \ begun)
    <3>1. Sorted(x[1], x[2]) /\ Range(x[1]) = Range(done) \cup (x[2] \ begun)
      BY <2>2 DEF Grows
    <3>2. Sorted(y[1], y[2]) /\ Range(y[1]) = Range(x[1]) \cup (y[2] \ x[2])
      BY <3>1 DEF Grows
    <3> QED BY <2>1, <3>1, <3>2
  <2> QED BY <2>1, <2>2 DEF Grows
<1> QED BY <1>1, <1>2

\* The recursion of TopoSort
Calls(ts) == ts \X Seq(ts) \X SUBSET ts
Below(visit, ts, at) ==
  InTurn(visit, ts, at[2], at[3] \cup {at[1]}, input.topic[at[1]].prerequisites)
VisitStep(visit, ts, at) ==
  IF at[1] \in at[3] THEN <<at[2], at[3]>>
  ELSE <<Append(Below(visit, ts, at)[1], at[1]), Below(visit, ts, at)[2]>>
Visit(ts) == CHOOSE visit : visit = [at \in Calls(ts) |-> VisitStep(visit, ts, at)]

LEMMA TopoSortVisits ==
  ASSUME NEW ts
  PROVE  TopoSort(ts) = InTurn(Visit(ts), ts, <<>>, {}, Ranked([t \in ts |-> <<t>>]))[1]
BY DEF TopoSort, Visit, Calls, VisitStep, Below

\* A visit calls those that have begun more than it has found.
Deeper(ts, at) == {c \in Calls(ts) : at[3] \cup {at[1]} \subseteq c[3]}

LEMMA BelowGrows ==
  ASSUME NEW ts, NEW at \in Calls(ts), NEW visit,
         input.topic[at[1]].prerequisites \in Seq(Topics),
         \A c \in Deeper(ts, at) : visit[c] \in Grows(ts, c[2], c[3])
  PROVE  /\ TurnsWithin(Grows(ts, at[2], at[3] \cup {at[1]}), visit, ts,
                        at[2], at[3] \cup {at[1]}, input.topic[at[1]].prerequisites)
         /\ Below(visit, ts, at) \in Grows(ts, at[2], at[3] \cup {at[1]})
<1> DEFINE begun == at[3] \cup {at[1]}
           W == Grows(ts, at[2], begun)
           topics == input.topic[at[1]].prerequisites
<1>1. at[1] \in ts /\ at[2] \in Seq(ts) /\ begun \in SUBSET ts
  BY DEF Calls
<1>2. <<at[2], begun>> \in W
  BY <1>1, GrowsFrom
<1>3. ASSUME NEW t \in ts, NEW acc \in W PROVE visit[<<t, acc[1], acc[2]>>] \in W
  <2>1. /\ acc[1] \in Seq(ts) /\ acc[2] \in SUBSET ts /\ begun \subseteq acc[2]
        /\ Grows(ts, acc[1], acc[2]) \subseteq W
    BY GrowsOn
  <2>2. <<t, acc[1], acc[2]>> \in Deeper(ts, at)
    BY <2>1 DEF Deeper, Calls
  <2>3. visit[<<t, acc[1], acc[2]>>] \in Grows(ts, acc[1], acc[2])
    BY <2>2
  <2> QED BY <2>1, <2>3
<1> HIDE DEF W, begun, topics
<1>4. topics \in Seq(Topics)
  BY DEF topics
<1>5. TurnsWithin(W, visit, ts, at[2], begun, topics)
  BY <1>2, <1>3, <1>4, InTurnIs
<1>6. Len(topics) \in Nat
  BY <1>4
<1>7. Below(visit, ts, at) \in W
  <2>1. PICK h \in [0..Len(topics) -> W] : Turns(h, visit, ts, at[2], begun, topics)
    BY <1>5 DEF TurnsWithin
  <2>2. h[Len(topics)] \in W
    BY <1>6
  <2>3. InTurn(visit, ts, at[2], begun, topics) = h[Len(topics)]
    BY <2>1 DEF Turns
  <2> QED BY <2>2, <2>3 DEF Below, begun, topics
<1> QED BY <1>5, <1>7 DEF W, begun, topics

\* A visit depends on its deeper visits only, and grows when they do.
LEMMA StepSame ==
  ASSUME NEW ts, NEW at \in Calls(ts), NEW visit, NEW other,
         input.topic[at[1]].prerequisites \in Seq(Topics),
         \A c \in Deeper(ts, at) : visit[c] \in Grows(ts, c[2], c[3]) /\ other[c] = visit[c]
  PROVE  VisitStep(other, ts, at) = VisitStep(visit, ts, at)
<1> DEFINE begun == at[3] \cup {at[1]}
           W == Grows(ts, at[2], begun)
           topics == input.topic[at[1]].prerequisites
<1>0. Len(topics) \in Nat
  OBVIOUS
<1>1. TurnsWithin(W, visit, ts, at[2], begun, topics)
  BY BelowGrows
<1>2. TurnsWithin(W, other, ts, at[2], begun, topics)
  BY BelowGrows
<1>3. at[1] \in ts /\ at[2] \in Seq(ts) /\ begun \in SUBSET ts
  BY DEF Calls
<1>4. ASSUME NEW t \in ts, NEW acc \in W
      PROVE  other[<<t, acc[1], acc[2]>>] = visit[<<t, acc[1], acc[2]>>]
  <2>1. acc[1] \in Seq(ts) /\ acc[2] \in SUBSET ts /\ begun \subseteq acc[2]
    BY GrowsOn
  <2>2. <<t, acc[1], acc[2]>> \in Deeper(ts, at)
    BY <2>1 DEF Deeper, Calls
  <2> QED BY <2>2
<1> HIDE DEF W, begun, topics
<1>5. PICK g \in [0..Len(topics) -> W] : Turns(g, visit, ts, at[2], begun, topics)
  BY <1>1 DEF TurnsWithin
<1>6. PICK h \in [0..Len(topics) -> W] : Turns(h, other, ts, at[2], begun, topics)
  BY <1>2 DEF TurnsWithin
<1> DEFINE T == {i \in Nat : i <= Len(topics) => h[i] = g[i]}
<1>7. 0 \in T
  BY <1>5, <1>6 DEF Turns
<1>8. ASSUME NEW i \in Nat, i \in T PROVE i + 1 \in T
  <2> SUFFICES ASSUME i + 1 <= Len(topics) PROVE h[i + 1] = g[i + 1]
    OBVIOUS
  <2>1. h[i] = g[i] /\ g[i] \in W /\ i + 1 \in 1..Len(topics) /\ (i + 1) - 1 = i
    BY <1>0, <1>8
  <2>2. /\ h[i + 1] = IF topics[i + 1] \in ts THEN other[<<topics[i + 1], h[i][1], h[i][2]>>]
                      ELSE h[i]
        /\ g[i + 1] = IF topics[i + 1] \in ts THEN visit[<<topics[i + 1], g[i][1], g[i][2]>>]
                      ELSE g[i]
    BY <1>5, <1>6, <2>1 DEF Turns
  <2> QED BY <1>4, <2>1, <2>2
<1>9. h[Len(topics)] = g[Len(topics)]
  <2>1. Len(topics) \in T
    <3> HIDE DEF T
    <3> QED BY <1>0, <1>7, <1>8, NaturalInduction
  <2> QED BY <1>0, <2>1
<1>10. Below(other, ts, at) = Below(visit, ts, at)
  BY <1>5, <1>6, <1>9 DEF Turns, Below, begun, topics
<1> QED BY <1>10 DEF VisitStep

LEMMA StepGrows ==
  ASSUME NEW ts, NEW at \in Calls(ts), NEW visit,
         input.topic[at[1]].prerequisites \in Seq(Topics),
         \A c \in Deeper(ts, at) : visit[c] \in Grows(ts, c[2], c[3])
  PROVE  /\ VisitStep(visit, ts, at) \in Grows(ts, at[2], at[3])
         /\ at[1] \in VisitStep(visit, ts, at)[2]
<1> DEFINE t == at[1]
           done == at[2]
           begun == at[3]
           x == Below(visit, ts, at)
<1>1. t \in ts /\ done \in Seq(ts) /\ begun \in SUBSET ts
  BY DEF Calls
<1>2. x \in Grows(ts, done, begun \cup {t})
  BY BelowGrows
<1>3. CASE t \in begun
  <2>1. VisitStep(visit, ts, at) = <<done, begun>>
    BY <1>3 DEF VisitStep
  <2> HIDE DEF t, done, begun, x
  <2>2. VisitStep(visit, ts, at) \in Grows(ts, done, begun) /\ t \in VisitStep(visit, ts, at)[2]
    BY <1>1, <1>3, <2>1, GrowsFrom
  <2> QED BY <2>2 DEF t, done, begun
<1>4. CASE t \notin begun
  <2> DEFINE y == <<Append(x[1], t), x[2]>>
  <2>1. VisitStep(visit, ts, at) = y
    BY <1>4 DEF VisitStep
  <2> HIDE DEF t, done, begun, x
  <2>2. x[1] \in Seq(ts) /\ x[2] \in SUBSET ts /\ begun \cup {t} \subseteq x[2]
    BY <1>2 DEF Grows
  <2>3. y \in Seq(ts) \X SUBSET ts /\ begun \subseteq y[2] /\ t \in y[2]
    <3>1. Append(x[1], t) \in Seq(ts)
      BY <1>1, <2>2, AppendProperties
    <3> QED BY <2>2, <3>1
  <2>4. ASSUME Sorted(done, begun)
        PROVE  Sorted(y[1], y[2]) /\ Range(y[1]) = Range(done) \cup (y[2] \ begun)
    <3>1. Sorted(done, begun \cup {t})
      BY <2>4 DEF Sorted
    <3>2. Sorted(x[1], x[2]) /\ Range(x[1]) = Range(done) \cup (x[2] \ (begun \cup {t}))
      BY <1>2, <3>1 DEF Grows
    <3>3. t \notin Range(x[1])
      BY <1>4, <2>4, <3>2 DEF Sorted
    <3>4. /\ Len(y[1]) = Len(x[1]) + 1 /\ Len(x[1]) \in Nat /\ y[1][Len(x[1]) + 1] = t
          /\ \A i \in 1..Len(x[1]) : y[1][i] = x[1][i] /\ x[1][i] \in Range(x[1])
      BY <1>1, <2>2 DEF Range
    <3>5. Distinct(y[1])
      <4>1. Distinct(x[1])
        BY <3>2 DEF Sorted
      <4> DEFINE n == Len(x[1])
      <4> HIDE DEF y
      <4>2. ASSUME NEW i \in 1..(n + 1), NEW j \in 1..(n + 1), y[1][i] = y[1][j] PROVE i = j
        <5>1. \A k \in 1..(n + 1) : k \in 1..n \/ k = n + 1
          BY <3>4
        <5>2. CASE i \in 1..n /\ j \in 1..n
          BY <3>4, <4>1, <4>2, <5>2 DEF Distinct
        <5>3. CASE i = n + 1 \/ j = n + 1
          BY <3>3, <3>4, <4>2, <5>1, <5>3
        <5> QED BY <5>1, <5>2, <5>3
      <4> QED BY <3>4, <4>2 DEF Distinct
    <3>6. Range(y[1]) = Range(x[1]) \cup {t}
      <4>1. \A i \in 1..(Len(x[1]) + 1) : y[1][i] \in Range(x[1]) \cup {t}
        BY <3>4
      <4>2. DOMAIN y[1] = 1..(Len(x[1]) + 1) /\ DOMAIN x[1] = 1..Len(x[1])
        BY <1>1, <2>2
      <4>3. \A i \in 1..Len(x[1]) : i \in DOMAIN y[1] /\ y[1][i] = x[1][i]
        BY <3>4, <4>2
      <4>4. Len(x[1]) + 1 \in DOMAIN y[1]
        BY <3>4, <4>2
      <4> HIDE DEF y
      <4> QED BY <3>4, <4>1, <4>2, <4>3, <4>4 DEF Range
    <3> HIDE DEF y
    <3>7. y[2] = x[2]
      BY DEF y
    <3>8. Range(x[1]) \subseteq x[2] /\ t \in x[2] /\ Range(done) \subseteq begun
      BY <2>2, <2>4, <3>2 DEF Sorted
    <3>9. Range(y[1]) = Range(done) \cup (y[2] \ begun)
      BY <1>4, <2>2, <3>2, <3>6, <3>7, <3>8
    <3> QED BY <3>5, <3>6, <3>7, <3>8, <3>9 DEF Sorted
  <2> HIDE DEF y
  <2>5. y \in Grows(ts, done, begun)
    BY <2>3, <2>4 DEF Grows
  <2> QED BY <2>1, <2>3, <2>5 DEF t, done, begun
<1> QED BY <1>3, <1>4

\* So there are visits: of those that have begun all but n of ts, for every n.
Left(ts, at) == Cardinality(ts \ at[3])
VisitsUpTo(f, ts, n) ==
  \A at \in Calls(ts) : Left(ts, at) <= n =>
    f[at] = VisitStep(f, ts, at) /\ f[at] \in Grows(ts, at[2], at[3])

LEMMA LeftBehind ==
  ASSUME NEW ts, IsFiniteSet(ts), NEW at \in Calls(ts)
  PROVE  /\ Left(ts, at) \in Nat
         /\ at[1] \notin at[3] => \A c \in Deeper(ts, at) : Left(ts, c) < Left(ts, at)
<1>1. IsFiniteSet(ts \ at[3]) /\ Left(ts, at) \in Nat
  BY FS_Subset, FS_CardinalityType DEF Left
<1>2. ASSUME at[1] \notin at[3], NEW c \in Deeper(ts, at) PROVE Left(ts, c) < Left(ts, at)
  <2>1. at[1] \in ts \ at[3] /\ at[1] \notin ts \ c[3] /\ ts \ c[3] \subseteq ts \ at[3]
    BY <1>2 DEF Deeper, Calls
  <2>2. ts \ c[3] \subseteq (ts \ at[3]) \ {at[1]}
    BY <2>1
  <2>3. /\ IsFiniteSet((ts \ at[3]) \ {at[1]})
        /\ Cardinality((ts \ at[3]) \ {at[1]}) = Cardinality(ts \ at[3]) - 1
    BY <1>1, <2>1, FS_RemoveElement
  <2>4. /\ Cardinality(ts \ c[3]) <= Cardinality((ts \ at[3]) \ {at[1]})
        /\ Cardinality(ts \ c[3]) \in Nat
    BY <2>2, <2>3, FS_Subset, FS_CardinalityType
  <2> QED BY <1>1, <2>3, <2>4 DEF Left
<1> QED BY <1>1, <1>2

Prerequisites(ts) == \A t \in ts : input.topic[t].prerequisites \in Seq(Topics)
LEMMA VisitsExist ==
  ASSUME NEW ts, IsFiniteSet(ts), Prerequisites(ts)
  PROVE  \A n \in Nat : \E f : f = [at \in Calls(ts) |-> f[at]] /\ VisitsUpTo(f, ts, n)
<1> DEFINE E(n) == \E f : f = [at \in Calls(ts) |-> f[at]] /\ VisitsUpTo(f, ts, n)
           T == {n \in Nat : E(n)}
<1>0. \A at \in Calls(ts) : input.topic[at[1]].prerequisites \in Seq(Topics)
  BY DEF Calls, Prerequisites
<1>1. 0 \in T
  <2> DEFINE f == [at \in Calls(ts) |-> <<at[2], at[3]>>]
  <2>1. ASSUME NEW at \in Calls(ts), Left(ts, at) <= 0
        PROVE  f[at] = VisitStep(f, ts, at) /\ f[at] \in Grows(ts, at[2], at[3])
    <3>1. Left(ts, at) = 0
      BY <2>1, LeftBehind
    <3>2. ts \ at[3] = {}
      BY <3>1, FS_Subset, FS_EmptySet DEF Left
    <3>3. at[1] \in at[3] /\ at[2] \in Seq(ts) /\ at[3] \in SUBSET ts
      BY <3>2 DEF Calls
    <3> QED BY <3>3, GrowsFrom DEF VisitStep
  <2>2. f = [at \in Calls(ts) |-> f[at]]
    OBVIOUS
  <2> HIDE DEF f
  <2>3. VisitsUpTo(f, ts, 0)
    BY <2>1 DEF VisitsUpTo
  <2> QED BY <2>2, <2>3
<1>2. ASSUME NEW n \in Nat, n \in T PROVE n + 1 \in T
  <2>1. PICK f : VisitsUpTo(f, ts, n)
    BY <1>2
  <2> DEFINE h == [at \in Calls(ts) |-> IF Left(ts, at) <= n THEN f[at] ELSE VisitStep(f, ts, at)]
  <2>2. ASSUME NEW at \in Calls(ts), Left(ts, at) <= n + 1
        PROVE  h[at] = VisitStep(h, ts, at) /\ h[at] \in Grows(ts, at[2], at[3])
    <3>1. Left(ts, at) \in Nat
      BY LeftBehind
    <3>2. h[at] = VisitStep(f, ts, at)
      BY <2>1 DEF VisitsUpTo
    <3>3. CASE at[1] \in at[3]
      <4>1. at[2] \in Seq(ts) /\ at[3] \in SUBSET ts
        BY DEF Calls
      <4> HIDE DEF h
      <4> QED BY <3>2, <3>3, <4>1, GrowsFrom DEF VisitStep
    <3>4. CASE at[1] \notin at[3]
      <4>1. ASSUME NEW c \in Deeper(ts, at)
            PROVE  f[c] \in Grows(ts, c[2], c[3]) /\ h[c] = f[c]
        <5>1. c \in Calls(ts) /\ Left(ts, c) \in Nat /\ Left(ts, c) < Left(ts, at)
          BY <3>4, LeftBehind DEF Deeper
        <5>2. Left(ts, c) <= n
          BY <2>2, <3>1, <5>1
        <5> QED BY <2>1, <5>1, <5>2 DEF VisitsUpTo
      <4> HIDE DEF h
      <4>2. VisitStep(h, ts, at) = VisitStep(f, ts, at)
        BY <1>0, <4>1, StepSame
      <4>3. VisitStep(f, ts, at) \in Grows(ts, at[2], at[3])
        BY <1>0, <4>1, StepGrows
      <4> QED BY <3>2, <4>2, <4>3
    <3> QED BY <3>3, <3>4
  <2>3. h = [at \in Calls(ts) |-> h[at]]
    OBVIOUS
  <2> HIDE DEF h
  <2>4. VisitsUpTo(h, ts, n + 1)
    BY <2>2 DEF VisitsUpTo
  <2> QED BY <2>3, <2>4
<1>3. \A n \in Nat : n \in T
  <2> HIDE DEF T
  <2> QED BY <1>1, <1>2, NaturalInduction
<1> QED BY <1>3

LEMMA VisitIs ==
  ASSUME NEW ts, IsFiniteSet(ts), Prerequisites(ts)
  PROVE  \A at \in Calls(ts) : /\ Visit(ts)[at] \in Grows(ts, at[2], at[3])
                               /\ at[1] \in Visit(ts)[at][2]
<1> DEFINE N == Cardinality(ts)
           V == Visit(ts)
<1>0. N \in Nat /\ \A at \in Calls(ts) : Left(ts, at) \in Nat /\ Left(ts, at) <= N
  <2>1. N \in Nat
    BY FS_CardinalityType
  <2>2. \A at \in Calls(ts) : Left(ts, at) <= N
    BY FS_Subset DEF Left
  <2> QED BY <2>1, <2>2, LeftBehind
<1>1. PICK f : f = [at \in Calls(ts) |-> f[at]] /\ VisitsUpTo(f, ts, N)
  BY <1>0, VisitsExist
<1>2. f = [at \in Calls(ts) |-> VisitStep(f, ts, at)]
  <2>1. \A at \in Calls(ts) : f[at] = VisitStep(f, ts, at)
    BY <1>0, <1>1 DEF VisitsUpTo
  <2> QED BY <1>1, <2>1
<1>3. V = [at \in Calls(ts) |-> VisitStep(V, ts, at)]
  BY <1>2 DEF Visit
<1>4. \A at \in Calls(ts) : input.topic[at[1]].prerequisites \in Seq(Topics)
  BY DEF Calls, Prerequisites
<1> HIDE DEF V
<1> DEFINE T == {n \in Nat : \A at \in Calls(ts) :
                             Left(ts, at) < n => V[at] \in Grows(ts, at[2], at[3])}
<1>5. 0 \in T
  BY <1>0
<1>6. ASSUME NEW n \in Nat, n \in T PROVE n + 1 \in T
  <2>1. ASSUME NEW at \in Calls(ts), Left(ts, at) < n + 1 PROVE V[at] \in Grows(ts, at[2], at[3])
    <3>1. V[at] = VisitStep(V, ts, at)
      BY <1>3
    <3>2. CASE at[1] \in at[3]
      <4>1. at[2] \in Seq(ts) /\ at[3] \in SUBSET ts
        BY DEF Calls
      <4> QED BY <3>1, <3>2, <4>1, GrowsFrom DEF VisitStep
    <3>3. CASE at[1] \notin at[3]
      <4>1. ASSUME NEW c \in Deeper(ts, at) PROVE V[c] \in Grows(ts, c[2], c[3])
        <5>1. c \in Calls(ts) /\ Left(ts, c) < Left(ts, at)
          BY <3>3, LeftBehind DEF Deeper
        <5>2. Left(ts, c) < n
          BY <1>0, <2>1, <5>1
        <5> QED BY <1>6, <5>1, <5>2
      <4> QED BY <1>4, <3>1, <4>1, StepGrows
    <3> QED BY <3>2, <3>3
  <2> QED BY <2>1
<1>7. ASSUME NEW at \in Calls(ts) PROVE V[at] \in Grows(ts, at[2], at[3])
  <2>1. N + 1 \in T
    <3> HIDE DEF T
    <3>1. \A n \in Nat : n \in T
      BY <1>5, <1>6, NaturalInduction
    <3> QED BY <1>0, <3>1
  <2> QED BY <1>0, <2>1
<1>8. ASSUME NEW at \in Calls(ts) PROVE at[1] \in V[at][2]
  <2>1. \A c \in Deeper(ts, at) : V[c] \in Grows(ts, c[2], c[3])
    BY <1>7 DEF Deeper
  <2>2. at[1] \in VisitStep(V, ts, at)[2]
    BY <1>4, <2>1, StepGrows
  <2> QED BY <1>3, <2>2
<1> QED BY <1>7, <1>8 DEF V

\* The ranking of a set of numbers by themselves
LEMMA RankedNumbers ==
  ASSUME NEW ts \in SUBSET Int, IsFiniteSet(ts)
  PROVE  /\ Ranked([t \in ts |-> <<t>>]) \in Seq(ts)
         /\ \A t \in ts : \E i \in 1..Len(Ranked([u \in ts |-> <<u>>])) :
              Ranked([u \in ts |-> <<u>>])[i] = t
<1> DEFINE key == [t \in ts |-> <<t>>]
           N == Cardinality(ts)
           n == 1
<1>1. n \in Nat /\ Keyed(key, ts, n)
  BY DEF Keyed
<1>2. N \in Nat
  BY FS_CardinalityType
<1> HIDE DEF key, n
<1>3. /\ Ranked(key) \in [1..N -> ts]
      /\ \A t \in ts : \E i \in 1..N : Ranked(key)[i] = t
  <2>1. KeysOrdered(Ranked(key), key, ts)
    BY <1>1, RankedIs
  <2> QED BY <2>1 DEF KeysOrdered
<1> HIDE DEF N
<1>4. Ranked(key) \in Seq(ts) /\ Len(Ranked(key)) = N
  BY <1>2, <1>3
<1> QED BY <1>3, <1>4 DEF key

\* topoSort lists each of the topics once.
LEMMA TopoSortIs ==
  ASSUME NEW ts \in SUBSET Int, IsFiniteSet(ts), Prerequisites(ts)
  PROVE  TopoSort(ts) \in Seq(ts) /\ Distinct(TopoSort(ts)) /\ Range(TopoSort(ts)) = ts
<1> DEFINE topics == Ranked([t \in ts |-> <<t>>])
           W == Grows(ts, <<>>, {})
           V == Visit(ts)
<1>1. topics \in Seq(ts) /\ \A t \in ts : \E i \in 1..Len(topics) : topics[i] = t
  BY RankedNumbers
<1>2. TopoSort(ts) = InTurn(V, ts, <<>>, {}, topics)[1]
  BY TopoSortVisits
<1>3. <<<<>>, {}>> \in W
  <2>1. <<>> \in Seq(ts) /\ {} \in SUBSET ts
    OBVIOUS
  <2> QED BY <2>1, GrowsFrom
<1>4. ASSUME NEW t \in ts, NEW acc \in W
      PROVE  /\ V[<<t, acc[1], acc[2]>>] \in W
             /\ t \in V[<<t, acc[1], acc[2]>>][2]
             /\ acc[2] \subseteq V[<<t, acc[1], acc[2]>>][2]
  <2>1. acc[1] \in Seq(ts) /\ acc[2] \in SUBSET ts /\ Grows(ts, acc[1], acc[2]) \subseteq W
    BY GrowsOn
  <2>2. <<t, acc[1], acc[2]>> \in Calls(ts)
    BY <2>1 DEF Calls
  <2> DEFINE x == V[<<t, acc[1], acc[2]>>]
  <2>3. x \in Grows(ts, acc[1], acc[2]) /\ t \in x[2]
    BY <2>2, VisitIs
  <2>4. acc[2] \subseteq x[2]
    <3> HIDE DEF x
    <3> QED BY <2>3, GrowsOn
  <2> QED BY <2>1, <2>3, <2>4
<1> HIDE DEF V, W, topics
<1>5. TurnsWithin(W, V, ts, <<>>, {}, topics)
  BY <1>1, <1>3, <1>4, InTurnIs
<1> DEFINE n == Len(topics)
<1>6. PICK h \in [0..n -> W] : Turns(h, V, ts, <<>>, {}, topics)
  BY <1>5 DEF TurnsWithin
<1>7. n \in Nat /\ \A i \in 1..n : topics[i] \in ts
  BY <1>1
<1> HIDE DEF n
<1>8. ASSUME NEW i \in 0..n, i + 1 \in 1..n
      PROVE  topics[i + 1] \in h[i + 1][2] /\ h[i][2] \subseteq h[i + 1][2]
  <2>1. h[i] \in W /\ topics[i + 1] \in ts /\ (i + 1) - 1 = i
    BY <1>7, <1>8
  <2>2. h[i + 1] = V[<<topics[i + 1], h[i][1], h[i][2]>>]
    BY <1>6, <1>8, <2>1 DEF Turns, n
  <2> QED BY <1>4, <2>1, <2>2
<1> DEFINE T == {i \in Nat : i <= n => \A j \in 1..i : topics[j] \in h[i][2]}
<1>9. 0 \in T
  OBVIOUS
<1>10. ASSUME NEW i \in Nat, i \in T PROVE i + 1 \in T
  <2>1. ASSUME i + 1 <= n, NEW j \in 1..(i + 1) PROVE topics[j] \in h[i + 1][2]
    <3>1. i \in 0..n /\ i + 1 \in 1..n
      BY <1>7, <2>1
    <3>2. CASE j = i + 1
      BY <1>8, <3>1, <3>2
    <3>3. CASE j \in 1..i
      BY <1>7, <1>8, <1>10, <3>1, <3>3
    <3> QED BY <3>2, <3>3
  <2> QED BY <2>1
<1>11. \A j \in 1..n : topics[j] \in h[n][2]
  <2>1. n \in T
    <3> HIDE DEF T
    <3> QED BY <1>7, <1>9, <1>10, NaturalInduction
  <2> QED BY <1>7, <2>1
<1>12. ts \subseteq h[n][2]
  BY <1>1, <1>11 DEF n
<1>13. TopoSort(ts) = h[n][1]
  BY <1>2, <1>6 DEF Turns, n
<1>14. h[n] \in W
  BY <1>7
<1>15. h[n][2] = ts
  BY <1>12, <1>14 DEF W, Grows
<1>16. Sorted(<<>>, {}) /\ Range(<<>>) = {}
  BY DEF Sorted, Distinct, Range
<1>17. Sorted(h[n][1], h[n][2]) /\ Range(h[n][1]) = h[n][2] /\ h[n][1] \in Seq(ts)
  BY <1>14, <1>16 DEF W, Grows
<1> QED BY <1>13, <1>15, <1>17 DEF Sorted

-----------------------------------------------------------------------------
(***************************************************************************)
(* The tasks of the topics.                                                *)
(***************************************************************************)
\* The catalogue once it is read
Catalogue == [Topics -> Row(Int)]

LEMMA LoadTopicIs ==
  ASSUME NEW row \in Row(Int \cup {None}), input.company \in BOOLEAN
  PROVE  LoadTopic(row) \in Row(Int)
<1> DEFINE problems == [i \in DOMAIN row.problems |-> LoadProblem(row.problems[i])]
           resources == [i \in DOMAIN row.resources |->
                 IF row.resources[i].minutes = None
                 THEN [row.resources[i] EXCEPT !.minutes = 30] ELSE row.resources[i]]
           pillar == IF row.deleted THEN None ELSE row.pillar
<1>1. /\ row.problems \in Seq(Problem) /\ row.resources \in Seq(Resource(Int \cup {None}))
      /\ row.prerequisites \in Seq(Topics) /\ row.pillar \in AnyPillar
  BY DEF Row
<1>2. problems \in Seq(Problem)
  <2>1. ASSUME NEW x \in Problem PROVE LoadProblem(x) \in Problem
    <3>1. PICK n \in Nat : n = IF input.company THEN x.company ELSE 0
      BY DEF Problem
    <3>2. LoadProblem(x) = [x EXCEPT !.order = 0, !.company = n]
      BY <3>1 DEF LoadProblem, Problem
    <3>3. [x EXCEPT !.order = 0] \in Problem
      BY DEF Problem
    <3>4. \A y \in Problem : [y EXCEPT !.company = n] \in Problem
      BY DEF Problem
    <3> QED BY <3>2, <3>3, <3>4
  <2>2. \A i \in 1..Len(row.problems) : row.problems[i] \in Problem
    BY <1>1
  <2>3. DOMAIN row.problems = 1..Len(row.problems) /\ Len(row.problems) \in Nat
    BY <1>1
  <2>4. problems \in [1..Len(row.problems) -> Problem]
    BY <2>1, <2>2, <2>3
  <2> QED BY <2>3, <2>4
<1>3. resources \in Seq(Resource(Int))
  <2>1. \A i \in 1..Len(row.resources) : row.resources[i] \in Resource(Int \cup {None})
    BY <1>1
  <2>2. \A x \in Resource(Int \cup {None}) :
          IF x.minutes = None THEN [x EXCEPT !.minutes = 30] \in Resource(Int)
          ELSE x \in Resource(Int)
    BY DEF Resource
  <2>3. DOMAIN row.resources = 1..Len(row.resources) /\ Len(row.resources) \in Nat
    BY <1>1
  <2>4. resources \in [1..Len(row.resources) -> Resource(Int)]
    BY <2>1, <2>2, <2>3
  <2> QED BY <2>3, <2>4
<1>4. pillar \in AnyPillar
  BY <1>1 DEF AnyPillar
<1>5. LoadTopic(row) =
        [row EXCEPT !.pillar = pillar, !.problems = problems, !.resources = resources]
  BY DEF LoadTopic
<1> HIDE DEF problems, resources, pillar
<1> QED BY <1>2, <1>3, <1>4, <1>5 DEF Row

\* A prefix of what a ranking lists
LEMMA RankedFirst ==
  ASSUME NEW S, IsFiniteSet(S), NEW n \in Nat, NEW key, Keyed(key, S, n),
         NEW i \in Nat, i # 0, i <= Cardinality(S)
  PROVE  Ranked(key)[i] \in S
<1>1. KeysOrdered(Ranked(key), key, S)
  BY RankedIs
<1>2. i \in 1..Cardinality(S)
  BY FS_CardinalityType
<1> QED BY <1>1, <1>2 DEF KeysOrdered

LEMMA SolveIs ==
  ASSUME NEW problems \in Seq(Problem)
  PROVE  Solve(problems) \in Seq(Nat)
<1> DEFINE S == DOMAIN problems
           key == [i \in S |-> ProblemKey(problems[i], i)]
           n == 5
           m == Lesser(Len(problems), MaxProblemsPerTopic)
<1>1. Len(problems) \in Nat /\ S = 1..Len(problems)
  OBVIOUS
<1>2. IsFiniteSet(S) /\ Cardinality(S) = Len(problems)
  BY <1>1, FS_Interval
<1>3. n \in Nat /\ Keyed(key, S, n)
  <2>1. \A i \in S : problems[i] \in Problem /\ i \in Int
    BY <1>1
  <2>2. ASSUME NEW i \in S PROVE key[i] \in [1..n -> Int]
    <3> DEFINE p == problems[i]
    <3>1. p \in Problem /\ i \in Int
      BY <2>1
    <3>2. key[i] = <<-p.company, -p.frequency, p.difficulty, p.order, i>>
      BY DEF ProblemKey
    <3> HIDE DEF p, key
    <3>3. PICK a \in Int, b \in Int, c \in Int, d \in Int :
            a = p.company /\ b = p.frequency /\ c = p.difficulty /\ d = p.order
      BY <3>1 DEF Problem
    <3>4. key[i] = <<-a, -b, c, d, i>>
      BY <3>2, <3>3
    <3>5. -a \in Int /\ -b \in Int /\ i \in Int
      BY <3>1
    <3>6. <<-a, -b, c, d, i>> \in [1..n -> Int]
      BY <3>5
    <3> QED BY <3>4, <3>6
  <2>3. \A i, j \in S : key[i] = key[j] => i = j
    BY DEF ProblemKey
  <2> QED BY <2>2, <2>3 DEF Keyed
<1>4. m \in Nat /\ m <= Len(problems)
  BY <1>1 DEF Lesser, MaxProblemsPerTopic
<1> HIDE DEF n, key
<1>5. ASSUME NEW k \in 1..m PROVE OrDefault(problems[Ranked(key)[k]].minutes) \in Nat
  <2>1. Ranked(key)[k] \in S
    BY <1>2, <1>3, <1>4, RankedFirst
  <2>2. problems[Ranked(key)[k]] \in Problem
    BY <1>1, <2>1, ElementOfSeq
  <2>3. problems[Ranked(key)[k]].minutes \in Int
    BY <2>2 DEF Problem
  <2> QED BY <2>3 DEF OrDefault
<1>6. Solve(problems) = [k \in 1..m |-> OrDefault(problems[Ranked(key)[k]].minutes)]
  BY DEF Solve, key
<1> HIDE DEF m
<1> QED BY <1>4, <1>5, <1>6

LEMMA StudyIs ==
  ASSUME NEW resources \in Seq(Resource(Int))
  PROVE  Study(resources) \in Seq(Nat)
<1> DEFINE S == {i \in DOMAIN resources : resources[i].primary}
           key == [i \in S |-> <<resources[i].order, i>>]
           n == 2
           m == Lesser(Cardinality(S), MaxResourcesPerTopic)
<1>1. Len(resources) \in Nat /\ DOMAIN resources = 1..Len(resources)
  OBVIOUS
<1>2. IsFiniteSet(S) /\ Cardinality(S) \in Nat
  <2>1. IsFiniteSet(1..Len(resources))
    BY <1>1, FS_Interval
  <2>2. IsFiniteSet(S)
    BY <1>1, <2>1, FS_Subset
  <2> QED BY <2>2, FS_CardinalityType
<1>3. n \in Nat /\ Keyed(key, S, n)
  <2>1. \A i \in S : resources[i] \in Resource(Int) /\ i \in Int
    BY <1>1
  <2>2. \A i \in S : key[i] \in [1..n -> Int]
    BY <2>1 DEF Resource
  <2>3. \A i, j \in S : key[i] = key[j] => i = j
    OBVIOUS
  <2> QED BY <2>2, <2>3 DEF Keyed
<1>4. m \in Nat /\ m <= Cardinality(S)
  BY <1>2 DEF Lesser, MaxResourcesPerTopic
<1> HIDE DEF n, key
<1>5. ASSUME NEW k \in 1..m
      PROVE  Lesser(OrDefault(resources[Ranked(key)[k]].minutes), MaxResourceMinutes) \in Nat
  <2>1. Ranked(key)[k] \in S
    BY <1>2, <1>3, <1>4, RankedFirst
  <2>2. resources[Ranked(key)[k]] \in Resource(Int)
    BY <1>1, <2>1, ElementOfSeq
  <2>3. resources[Ranked(key)[k]].minutes \in Int
    BY <2>2 DEF Resource
  <2> QED BY <2>3 DEF OrDefault, Lesser, MaxResourceMinutes
<1>6. Study(resources) =
        [k \in 1..m |-> Lesser(OrDefault(resources[Ranked(key)[k]].minutes), MaxResourceMinutes)]
  BY DEF Study, key
<1> HIDE DEF m
<1> QED BY <1>4, <1>5, <1>6

\* Every task of a topic takes a number of minutes.
LEMMA EmittedIs ==
  ASSUME input.topic \in Catalogue, NEW t \in Topics
  PROVE  Emitted(t) \in Seq(Nat)
<1> DEFINE row == input.topic[t]
<1>1. row \in Row(Int)
  BY DEF Catalogue
<1>2. Theory(row.estimate) \in Nat
  <2>1. PICK e \in Int : row.estimate = e
    BY <1>1 DEF Row
  <2>2. PICK study \in Nat : study = IF e <= 0 THEN 60 ELSE e
    OBVIOUS
  <2>3. PICK part \in Int : part = (study * 6) \div 10
    OBVIOUS
  <2>4. Theory(e) = IF part < 30 THEN Lesser(study, 30) ELSE part
    BY <2>2, <2>3 DEF Theory
  <2>5. Lesser(study, 30) \in Nat
    BY DEF Lesser
  <2> QED BY <2>1, <2>4, <2>5
<1>3. <<Theory(row.estimate)>> \in Seq(Nat)
  BY <1>2
<1>4. Solve(row.problems) \in Seq(Nat) /\ Study(row.resources) \in Seq(Nat)
  BY <1>1, SolveIs, StudyIs DEF Row
<1>5. <<Theory(row.estimate)>> \o Solve(row.problems) \in Seq(Nat)
  BY <1>3, <1>4, ConcatProperties
<1>6. <<Theory(row.estimate)>> \o Solve(row.problems) \o Study(row.resources) \in Seq(Nat)
  BY <1>4, <1>5, ConcatProperties
<1> QED BY <1>6 DEF Emitted

LEMMA SumIs ==
  ASSUME NEW s \in Seq(Nat)
  PROVE  Sum(s) \in Nat
<1>1. IsFiniteSet(DOMAIN s) /\ \A i \in DOMAIN s : s[i] \in Nat
  <2>1. DOMAIN s = 1..Len(s) /\ Len(s) \in Nat
    OBVIOUS
  <2>2. IsFiniteSet(1..Len(s))
    BY <2>1, FS_Interval
  <2> QED BY <2>1, <2>2
<1> QED BY <1>1, SumNat DEF Sum

-----------------------------------------------------------------------------
(***************************************************************************)
(* Selection, the order of the pillars, and the tasks of a week.           *)
(***************************************************************************)
LEMMA RangeFinite ==
  ASSUME NEW X, NEW s \in Seq(X)
  PROVE  IsFiniteSet(Range(s)) /\ Range(s) \subseteq X
<1>1. Len(s) \in Nat /\ DOMAIN s = 1..Len(s)
  OBVIOUS
<1>2. IsFiniteSet(1..Len(s))
  BY <1>1, FS_Interval
<1>3. s \in Surjection(1..Len(s), Range(s))
  <2>1. s \in [1..Len(s) -> Range(s)]
    BY <1>1 DEF Range
  <2>2. \A x \in Range(s) : \E i \in 1..Len(s) : s[i] = x
    BY <1>1 DEF Range
  <2> QED BY <2>1, <2>2 DEF Surjection
<1>4. IsFiniteSet(Range(s))
  BY <1>2, <1>3, FS_Surjection
<1> QED BY <1>1, <1>4 DEF Range

LEMMA HasMax ==
  ASSUME NEW S \in SUBSET Nat, IsFiniteSet(S), S # {}
  PROVE  Max(S) \in S /\ \A m \in S : m <= Max(S)
<1> DEFINE T == {A \in SUBSET S : \E b \in Nat : \A n \in A : n <= b}
<1>1. {} \in T
  OBVIOUS
<1>2. ASSUME NEW A \in SUBSET S, NEW x \in S, A \in T PROVE A \cup {x} \in T
  <2>1. PICK b \in Nat : \A n \in A : n <= b
    BY <1>2
  <2> DEFINE c == IF b <= x THEN x ELSE b
  <2>2. c \in Nat /\ \A n \in A \cup {x} : n <= c
    BY <2>1
  <2> HIDE DEF c
  <2> QED BY <2>2
<1>3. S \in T
  <2> HIDE DEF T
  <2>1. \A A \in SUBSET S, x \in S : A \in T /\ x \notin A => A \cup {x} \in T
    BY <1>2
  <2> QED BY <1>1, <2>1, SubsetInduction
<1>4. PICK b \in Nat : \A n \in S : n <= b
  BY <1>3
<1>5. PICK m \in S : \A n \in S : n <= m
  BY <1>4, GreatestNatural
<1>6. S \subseteq Int
  OBVIOUS
<1> QED BY <1>5, <1>6, MaxIs

LEMMA FrequencyIs ==
  ASSUME input.topic \in Catalogue, NEW t \in Topics
  PROVE  CompanyFrequency(t) \in Int
<1> DEFINE problems == input.topic[t].problems
           S == {p.company : p \in Range(problems)}
<1>1. problems \in Seq(Problem)
  BY DEF Catalogue, Row
<1>2. IsFiniteSet(Range(problems)) /\ Range(problems) \subseteq Problem
  BY <1>1, RangeFinite
<1> HIDE DEF problems
<1>3. S \subseteq Nat
  BY <1>2 DEF Problem
<1>4. IsFiniteSet(S)
  <2> DEFINE f == [p \in Range(problems) |-> p.company]
  <2>1. f \in Surjection(Range(problems), S)
    BY DEF Surjection
  <2> HIDE DEF f, S
  <2> QED BY <1>2, <2>1, FS_Surjection
<1> HIDE DEF S
<1>5. IsFiniteSet({0} \cup S)
  BY <1>4, FS_Singleton, FS_Union
<1>6. {0} \cup S \in SUBSET Nat /\ {0} \cup S # {}
  BY <1>3
<1>7. Max({0} \cup S) \in {0} \cup S
  BY <1>5, <1>6, HasMax
<1>8. CompanyFrequency(t) = Max({0} \cup S)
  BY DEF CompanyFrequency, S, problems
<1>9. Max({0} \cup S) \in Nat
  BY <1>6, <1>7
<1> QED BY <1>8, <1>9

LEMMA IndexIs ==
  ASSUME NEW X, NEW s \in Seq(X), NEW x \in Range(s)
  PROVE  Index(s, x) \in Int /\ s[Index(s, x)] = x
<1>1. \E i \in DOMAIN s : s[i] = x
  BY DEF Range
<1>2. DOMAIN s \subseteq Int
  OBVIOUS
<1> QED BY <1>1, <1>2 DEF Index

\* The engine picks topics of the pillar, each once.
LEMMA SelectedIs ==
  ASSUME CurriculumAssumption, input.topic \in Catalogue,
         \A t \in Topics : load[t] \in Nat, NEW p \in Range(Pillars)
  PROVE  /\ Selected(p) \in Seq(Topics) /\ Distinct(Selected(p))
         /\ \A t \in Range(Selected(p)) : input.topic[t].pillar = p
<1> DEFINE ts == {t \in Topics : input.topic[t].pillar = p}
           ordered == TopoSort(ts)
           Rank(t) == <<-input.topic[t].priority, -CompanyFrequency(t),
                        input.topic[t].difficulty, Index(ordered, t)>>
           key == [t \in Range(ordered) |-> Rank(t)]
           take == [at \in Topics \X (SUBSET Topics) \X Nat |->
                     IF at[2] # {} /\ Exceeds(at[3] + load[at[1]], p) THEN <<at[2], at[3]>>
                     ELSE <<at[2] \cup {at[1]}, at[3] + load[at[1]]>>]
           n == 4
           W == (SUBSET ts) \X Nat
<1>1. ts \in SUBSET Int /\ ts \subseteq Topics /\ IsFiniteSet(ts)
  <2>1. ts \in SUBSET Topics
    OBVIOUS
  <2>2. Topics \in SUBSET Nat /\ IsFiniteSet(Topics)
    BY DEF CurriculumAssumption
  <2> HIDE DEF ts
  <2>3. IsFiniteSet(ts)
    BY <2>1, <2>2, FS_Subset
  <2> QED BY <2>1, <2>2, <2>3
<1>2. \A S \in SUBSET ts : S \in SUBSET Int /\ IsFiniteSet(S) /\ Prerequisites(S)
  <2>1. \A t \in Topics : input.topic[t].prerequisites \in Seq(Topics)
    BY DEF Catalogue, Row
  <2>2. \A S \in SUBSET ts : S \in SUBSET Int /\ S \subseteq Topics
    BY <1>1
  <2> QED BY <1>1, <2>1, <2>2, FS_Subset DEF Prerequisites
<1>3. ordered \in Seq(ts) /\ Range(ordered) = ts
  <2> HIDE DEF ts
  <2> QED BY <1>2, TopoSortIs
<1>4. n \in Nat /\ Keyed(key, ts, n)
  <2>1. ASSUME NEW t \in ts PROVE key[t] \in [1..n -> Int]
    <3>1. t \in Topics /\ input.topic[t] \in Row(Int)
      BY DEF Catalogue
    <3>2. PICK a \in Int, c \in Int : a = input.topic[t].priority /\ c = input.topic[t].difficulty
      BY <3>1 DEF Row
    <3>3. PICK b \in Int : b = CompanyFrequency(t)
      BY <3>1, FrequencyIs
    <3>4. PICK d \in Int : d = Index(ordered, t)
      <4> HIDE DEF ts, ordered
      <4> QED BY <1>3, IndexIs
    <3>5. key[t] = <<-a, -b, c, d>>
      BY <1>3, <3>2, <3>3, <3>4
    <3>6. -a \in Int /\ -b \in Int
      OBVIOUS
    <3>7. <<-a, -b, c, d>> \in [1..n -> Int]
      BY <3>6
    <3> HIDE DEF key, ts, n
    <3> QED BY <3>5, <3>7
  <2>2. ASSUME NEW t \in ts, NEW u \in ts, key[t] = key[u] PROVE t = u
    <3>1. key[t] = Rank(t) /\ key[u] = Rank(u)
      BY <1>3
    <3>2. Index(ordered, t) = Index(ordered, u)
      <4>1. Rank(t) = Rank(u)
        <5> HIDE DEF Rank
        <5> QED BY <2>2, <3>1
      <4>2. Rank(t)[4] = Index(ordered, t) /\ Rank(u)[4] = Index(ordered, u)
        OBVIOUS
      <4> HIDE DEF Rank
      <4> QED BY <4>1, <4>2
    <3> HIDE DEF ts, ordered, key
    <3> QED BY <1>3, <3>2, IndexIs
  <2>3. DOMAIN key = ts
    BY <1>3
  <2> HIDE DEF key, ts
  <2> QED BY <2>1, <2>2, <2>3 DEF Keyed
<1>5. Ranked(key) \in Seq(ts)
  <2> HIDE DEF key, n, ts
  <2>1. KeysOrdered(Ranked(key), key, ts)
    BY <1>1, <1>4, RankedIs
  <2> QED BY <1>1, <2>1, FS_CardinalityType DEF KeysOrdered
<1>6. ASSUME NEW t \in ts, NEW acc \in W PROVE take[<<t, acc[1], acc[2]>>] \in W
  <2>1. <<t, acc[1], acc[2]>> \in Topics \X (SUBSET Topics) \X Nat /\ load[t] \in Nat
    BY <1>1
  <2>2. acc[2] + load[t] \in Nat /\ acc[1] \cup {t} \in SUBSET ts
    BY <2>1
  <2> HIDE DEF ts
  <2> QED BY <2>1, <2>2
<1>7. <<{}, 0>> \in W
  OBVIOUS
<1> DEFINE result == InTurn(take, Range(ordered), {}, 0, Ranked(key))
<1>8. result \in W
  <2> HIDE DEF W, take, key, ordered, ts
  <2>1. TurnsWithin(W, take, Range(ordered), {}, 0, Ranked(key))
    BY <1>3, <1>5, <1>6, <1>7, InTurnIs
  <2>2. Len(Ranked(key)) \in Nat
    BY <1>5
  <2> QED BY <2>1, <2>2 DEF TurnsWithin, Turns
<1>9. Selected(p) = TopoSort(result[1])
  BY DEF Selected
<1>10. result[1] \in SUBSET ts
  <2> HIDE DEF result
  <2> QED BY <1>8
<1> HIDE DEF result
<1>11. /\ TopoSort(result[1]) \in Seq(result[1]) /\ Distinct(TopoSort(result[1]))
       /\ Range(TopoSort(result[1])) = result[1]
  <2> HIDE DEF ts
  <2> QED BY <1>2, <1>10, TopoSortIs
<1>12. Selected(p) \in Seq(Topics)
  <2>1. result[1] \subseteq Topics
    BY <1>10
  <2> QED BY <1>9, <1>11, <2>1, SeqMonotonic
<1> QED BY <1>9, <1>10, <1>11, <1>12

LEMMA OrderIs ==
  ASSUME CurriculumAssumption
  PROVE  Order \in Seq(Range(Pillars))
<1> DEFINE S == {j \in DOMAIN Pillars : picked[Pillars[j]] # <<>>}
           key == [i \in S |-> <<i>>]
<1>1. DOMAIN Pillars = 1..Len(Pillars) /\ Len(Pillars) \in Nat
  BY DEF CurriculumAssumption
<1>2. IsFiniteSet(S) /\ S \in SUBSET Int
  <2>1. IsFiniteSet(1..Len(Pillars))
    BY <1>1, FS_Interval
  <2> QED BY <1>1, <2>1, FS_Subset
<1>3. Ranked(key) \in Seq(S)
  <2> HIDE DEF S
  <2> QED BY <1>2, RankedNumbers
<1>4. Order = [k \in DOMAIN Ranked(key) |-> Pillars[Ranked(key)[k]]]
  BY DEF Order
<1>5. S \subseteq DOMAIN Pillars
  OBVIOUS
<1> HIDE DEF key, S
<1>6. Len(Ranked(key)) \in Nat /\ DOMAIN Ranked(key) = 1..Len(Ranked(key))
  BY <1>3
<1>7. \A k \in 1..Len(Ranked(key)) : Pillars[Ranked(key)[k]] \in Range(Pillars)
  BY <1>3, <1>5 DEF Range
<1> QED BY <1>4, <1>6, <1>7

\* The tasks of the topics ts, each as <<topic, index>>
TasksFor(ts) == UNION {{t} \X DOMAIN tasks[t] : t \in ts}
LEMMA TasksOfIs ==
  ASSUME NEW ts \in Seq(Topics), Distinct(ts), tasks \in [Topics -> Seq(Nat)]
  PROVE  /\ TasksOf(ts) \in Seq(Topics \X Nat) /\ Distinct(TasksOf(ts))
         /\ Range(TasksOf(ts)) = TasksFor(Range(ts))
<1> DEFINE S == UNION {{k} \X DOMAIN tasks[ts[k]] : k \in DOMAIN ts}
           key == [x \in S |-> x]
           n == 2
           at == Ranked(key)
           N == Cardinality(S)
<1>1. DOMAIN ts = 1..Len(ts) /\ Len(ts) \in Nat
  OBVIOUS
<1>2. ASSUME NEW k \in 1..Len(ts)
      PROVE  /\ ts[k] \in Topics /\ Len(tasks[ts[k]]) \in Nat
             /\ DOMAIN tasks[ts[k]] = 1..Len(tasks[ts[k]])
  OBVIOUS
<1>3. \A x : x \in S <=> \E k \in 1..Len(ts) : \E i \in DOMAIN tasks[ts[k]] : x = <<k, i>>
  BY <1>1
<1>4. IsFiniteSet(S)
  <2> DEFINE part == [k \in 1..Len(ts) |-> {k} \X DOMAIN tasks[ts[k]]]
  <2>1. IsFiniteSet(1..Len(ts))
    BY <1>1, FS_Interval
  <2>2. ASSUME NEW k \in 1..Len(ts) PROVE IsFiniteSet(part[k])
    <3>1. IsFiniteSet(DOMAIN tasks[ts[k]])
      BY <1>2, FS_Interval
    <3>2. IsFiniteSet({k})
      BY FS_Singleton
    <3>3. IsFiniteSet({k} \X DOMAIN tasks[ts[k]])
      BY <3>1, <3>2, FS_Product
    <3> QED BY <3>3
  <2>3. IsFiniteSet(Range(part))
    <3>1. part \in Surjection(1..Len(ts), Range(part))
      BY DEF Surjection, Range
    <3> HIDE DEF part
    <3> QED BY <2>1, <3>1, FS_Surjection
  <2>4. \A T \in Range(part) : IsFiniteSet(T)
    BY <2>2 DEF Range
  <2>5. S = UNION Range(part)
    BY <1>1 DEF Range
  <2> HIDE DEF part, S
  <2> QED BY <2>3, <2>4, <2>5, FS_UNION
<1>5. n \in Nat /\ Keyed(key, S, n)
  <2>1. ASSUME NEW x \in S PROVE x \in [1..n -> Int]
    <3>1. PICK k \in 1..Len(ts) : \E i \in DOMAIN tasks[ts[k]] : x = <<k, i>>
      BY <1>3
    <3>2. PICK i \in DOMAIN tasks[ts[k]] : x = <<k, i>>
      BY <3>1
    <3>3. i \in 1..Len(tasks[ts[k]]) /\ Len(tasks[ts[k]]) \in Nat
      BY <1>2
    <3>4. k \in Int /\ i \in Int
      BY <1>1, <3>3
    <3> QED BY <3>2, <3>4
  <2> HIDE DEF S
  <2> QED BY <2>1 DEF Keyed
<1> HIDE DEF S, key, n
<1>6. KeysOrdered(at, key, S)
  BY <1>4, <1>5, RankedIs
<1>7. N \in Nat
  BY <1>4, FS_CardinalityType
<1> HIDE DEF N, at
<1>8. /\ at \in [1..N -> S]
      /\ \A i, j \in 1..N : at[i] = at[j] => i = j
      /\ \A x \in S : \E i \in 1..N : at[i] = x
  BY <1>6 DEF KeysOrdered, N
<1> DEFINE q == TasksOf(ts)
<1>9. q = [m \in 1..N |-> <<ts[at[m][1]], at[m][2]>>]
  <2>1. q = [m \in DOMAIN at |-> <<ts[at[m][1]], at[m][2]>>]
    BY DEF TasksOf, at, key, S
  <2> QED BY <1>8, <2>1
<1> HIDE DEF q
<1>10. ASSUME NEW m \in 1..N
       PROVE  /\ at[m][1] \in 1..Len(ts) /\ at[m][2] \in DOMAIN tasks[ts[at[m][1]]]
              /\ at[m] = <<at[m][1], at[m][2]>> /\ q[m] = <<ts[at[m][1]], at[m][2]>>
  <2>1. at[m] \in S
    BY <1>8
  <2>2. PICK k \in 1..Len(ts) : \E i \in DOMAIN tasks[ts[k]] : at[m] = <<k, i>>
    BY <1>3, <2>1
  <2>3. PICK i \in DOMAIN tasks[ts[k]] : at[m] = <<k, i>>
    BY <2>2
  <2>4. at[m][1] = k /\ at[m][2] = i
    BY <2>3
  <2>5. q[m] = <<ts[at[m][1]], at[m][2]>>
    BY <1>9
  <2> QED BY <2>3, <2>4, <2>5
<1>11. q \in [1..N -> Topics \X Nat]
  <2>1. ASSUME NEW m \in 1..N PROVE q[m] \in Topics \X Nat
    <3>0. PICK k \in 1..Len(ts) : at[m][1] = k
      BY <1>10
    <3>1. ts[at[m][1]] \in Topics /\ at[m][2] \in Nat
      <4>1. at[m][2] \in 1..Len(tasks[ts[k]])
        BY <1>2, <1>10, <3>0
      <4> QED BY <1>2, <3>0, <4>1
    <3>2. q[m] = <<ts[at[m][1]], at[m][2]>>
      BY <1>10
    <3> QED BY <3>1, <3>2
  <2> QED BY <1>9, <2>1
<1>12. q \in Seq(Topics \X Nat) /\ Len(q) = N /\ DOMAIN q = 1..N
  BY <1>7, <1>11
<1>13. ASSUME NEW i \in 1..N, NEW j \in 1..N, q[i] = q[j] PROVE i = j
  <2>1. ts[at[i][1]] = ts[at[j][1]] /\ at[i][2] = at[j][2]
    BY <1>10, <1>13
  <2>2. at[i][1] = at[j][1]
    BY <1>10, <2>1 DEF Distinct
  <2>3. at[i] = at[j]
    BY <1>10, <2>1, <2>2
  <2> QED BY <1>8, <2>3
<1>14. Range(q) \subseteq TasksFor(Range(ts))
  <2>1. ASSUME NEW m \in 1..N PROVE q[m] \in TasksFor(Range(ts))
    <3>1. ts[at[m][1]] \in Range(ts)
      BY <1>1, <1>10 DEF Range
    <3>2. q[m] = <<ts[at[m][1]], at[m][2]>> /\ at[m][2] \in DOMAIN tasks[ts[at[m][1]]]
      BY <1>10
    <3>3. q[m] \in {ts[at[m][1]]} \X DOMAIN tasks[ts[at[m][1]]]
      BY <3>2
    <3> QED BY <3>1, <3>3 DEF TasksFor
  <2> QED BY <1>12, <2>1 DEF Range
<1>15. ASSUME NEW x \in TasksFor(Range(ts)) PROVE x \in Range(q)
  <2>0. PICK t \in Range(ts) : x \in {t} \X DOMAIN tasks[t]
    BY DEF TasksFor
  <2>1. PICK i \in DOMAIN tasks[t] : x = <<t, i>>
    BY <2>0
  <2>2. PICK k \in 1..Len(ts) : ts[k] = t
    BY <1>1 DEF Range
  <2>3. <<k, i>> \in S
    BY <1>3, <2>1, <2>2
  <2>4. PICK m \in 1..N : at[m] = <<k, i>>
    BY <1>8, <2>3
  <2>5. q[m] = x
    BY <1>9, <2>1, <2>2, <2>4
  <2> QED BY <1>12, <2>5 DEF Range
<1> QED BY <1>12, <1>13, <1>14, <1>15 DEF Distinct, q

-----------------------------------------------------------------------------
(***************************************************************************)
(* The week and the day that are chosen.                                   *)
(***************************************************************************)
LEMMA FirstLeast ==
  ASSUME NEW n \in Nat \ {0}, NEW m, \A v \in 1..n : m[v] \in Nat
  PROVE  \E w \in 1..n : \A v \in 1..n : m[w] <= m[v] /\ (v < w => m[w] < m[v])
<1> DEFINE Loads == {m[v] : v \in 1..n}
<1>1. Loads \in SUBSET Nat /\ Loads # {}
  <2>1. 1 \in 1..n
    OBVIOUS
  <2> QED BY <2>1
<1>2. PICK least \in Loads : \A k \in Loads : least <= k
  <2> HIDE DEF Loads
  <2> QED BY <1>1, LeastNatural
<1> DEFINE First == {v \in 1..n : m[v] = least}
<1>3. First \in SUBSET Nat /\ First # {}
  BY <1>2
<1>4. PICK w \in First : \A v \in First : w <= v
  <2> HIDE DEF First
  <2> QED BY <1>3, LeastNatural
<1>5. ASSUME NEW v \in 1..n PROVE m[w] <= m[v] /\ (v < w => m[w] < m[v])
  <2>1. m[w] = least /\ least \in Nat /\ m[v] \in Nat /\ least <= m[v]
    BY <1>1, <1>2, <1>4
  <2>2. v < w => v \notin First
    BY <1>4
  <2>3. v < w => m[v] # least
    BY <2>2
  <2> QED BY <2>1, <2>3
<1>6. w \in 1..n
  OBVIOUS
<1> QED BY <1>5, <1>6

LEMMA HasMin ==
  ASSUME NEW S \in SUBSET Nat, S # {}
  PROVE  Min(S) \in S
BY LeastNatural DEF Min

LEMMA WeekForIs ==
  ASSUME Weeks \in Nat \ {0}, minutes \in [AllWeeks -> Nat], NEW t
  PROVE  WeekFor(t) \in AllWeeks /\ (Room(t) # {} => WeekFor(t) \in Room(t))
<1>1. Room(t) \in SUBSET Nat /\ Room(t) \subseteq AllWeeks
  BY DEF Room, AllWeeks
<1>2. LeastLoaded \in AllWeeks
  <2>1. \A v \in 1..Weeks : minutes[v] \in Nat
    BY DEF AllWeeks
  <2>2. \E w \in 1..Weeks : \A v \in 1..Weeks :
           minutes[w] <= minutes[v] /\ (v < w => minutes[w] < minutes[v])
    BY <2>1, FirstLeast
  <2> QED BY <2>2 DEF LeastLoaded, AllWeeks
<1>3. CASE Room(t) \cap round..Weeks # {}
  <2>1. Min(Room(t) \cap round..Weeks) \in Room(t) \cap round..Weeks
    BY <1>1, <1>3, HasMin
  <2> QED BY <1>1, <1>3, <2>1 DEF WeekFor
<1>4. CASE Room(t) \cap round..Weeks = {} /\ Room(t) # {}
  <2>1. Min(Room(t)) \in Room(t)
    BY <1>1, <1>4, HasMin
  <2> QED BY <1>1, <1>4, <2>1 DEF WeekFor
<1>5. CASE Room(t) = {}
  BY <1>2, <1>5 DEF WeekFor
<1> QED BY <1>3, <1>4, <1>5

LEMMA LightestIs ==
  ASSUME ActiveDays \in Nat \ {0}, \A d \in Days : day[packing][d].planned \in Nat
  PROVE  Lightest \in Days
<1> DEFINE m == [d \in Days |-> day[packing][d].planned]
<1>1. \A d \in 1..ActiveDays : m[d] \in Nat
  BY DEF Days
<1>2. \E d \in 1..ActiveDays : \A e \in 1..ActiveDays : m[d] <= m[e] /\ (e < d => m[d] < m[e])
  <2> HIDE DEF m
  <2> QED BY <1>1, FirstLeast
<1> QED BY <1>2 DEF Lightest, Days

-----------------------------------------------------------------------------
(***************************************************************************)
(* The invariant.                                                          *)
(***************************************************************************)
DayPlan == [tasks : Seq(Topics \X Nat), planned : Nat]
TypeOK ==
  /\ stage = "load" => input \in Input
  /\ stage # "load" => input.topic \in Catalogue
  /\ tasks \in [Topics -> Seq(Nat)] /\ load \in [Topics -> Nat]
  /\ picked \in [Range(Pillars) -> Seq(Topics)]
  /\ turn \in Nat \ {0} /\ cursor \in [Range(Pillars) -> Nat]
  /\ week \in [AllWeeks -> Seq(Topics)] /\ minutes \in [AllWeeks -> Nat]
  /\ packing \in AllWeeks /\ queue \in Seq(Topics \X Nat)
  /\ day \in [AllWeeks -> [Days -> DayPlan]]

\* Every stage finds what it fills empty.
Unplaced == stage \in {"load", "emit", "select"}
Unpacked == Unplaced \/ stage = "sequence"
StagesOK ==
  /\ stage \in {"load", "emit", "select", "sequence", "pack", "done"}
  /\ Unplaced => /\ picked = [p \in Range(Pillars) |-> <<>>]
                 /\ cursor = [p \in Range(Pillars) |-> 0]
                 /\ week = [w \in AllWeeks |-> <<>>] /\ minutes = [w \in AllWeeks |-> 0]
  /\ Unpacked => /\ packing = 1
                 /\ \A w \in AllWeeks, d \in Days : day[w][d].tasks = <<>>
  /\ stage = "done" => packing = Weeks /\ queue = <<>>

\* The pillars share no topic, and name none twice.
PickedOK ==
  /\ \A p \in Range(Pillars) : Distinct(picked[p])
  /\ \A p, q \in Range(Pillars) : Range(picked[p]) \cap Range(picked[q]) # {} => p = q

\* The topics of a pillar that are in some week are those before its cursor, and each
\* is in one week, once.
PlacedOK ==
  /\ \A p \in Range(Pillars) : \A k \in 1..Len(picked[p]) :
       k <= cursor[p] <=> \E w \in AllWeeks : picked[p][k] \in Range(week[w])
  /\ \A w \in AllWeeks : \A t \in Range(week[w]) :
       \E p \in Range(Pillars) : t \in Range(picked[p])
  /\ \A w \in AllWeeks : Distinct(week[w])
  /\ \A w, v \in AllWeeks : Range(week[w]) \cap Range(week[v]) # {} => w = v
AllPlaced ==
  ~Unpacked => \A p \in Range(Pillars) : cursor[p] >= Len(picked[p])

\* What the days of a week hold: all of its tasks, all but those in the queue, or none.
Packed(w) == UNION {Range(day[w][d].tasks) : d \in Days}
ToPack(w) ==
  IF Unpacked \/ w > packing THEN {}
  ELSE IF w = packing THEN TasksFor(Range(week[w])) \ Range(queue)
  ELSE TasksFor(Range(week[w]))
PackedOK ==
  /\ \A w \in AllWeeks : Packed(w) = ToPack(w)
  /\ \A w \in AllWeeks, d \in Days : Distinct(day[w][d].tasks)
  /\ \A w \in AllWeeks, d, e \in Days :
       Range(day[w][d].tasks) \cap Range(day[w][e].tasks) # {} => d = e
  /\ ~Unpacked => Distinct(queue) /\ Range(queue) \subseteq TasksFor(Range(week[packing]))

IInv ==
  TypeOK /\ StagesOK /\ PickedOK /\ PlacedOK /\ AllPlaced /\ PackedOK /\ OverflowOnlyWhenFull

LEMMA EmptySequence ==
  /\ Distinct(<<>>) /\ Range(<<>>) = {} /\ Len(<<>>) = 0
  /\ \A S : <<>> \in Seq(S)
BY DEF Distinct, Range

\* A plan that is done holds everything once.
LEMMA DoneOnce ==
  ASSUME CurriculumAssumption, IInv
  PROVE  EveryTaskOnce
<1> SUFFICES ASSUME stage = "done", NEW p \in Range(Pillars), NEW t \in Range(picked[p]),
                    NEW i \in DOMAIN tasks[t]
             PROVE  \E slot \in InDays : \A other \in InDays :
                      day[other[1]][other[2]].tasks[other[3]] = <<t, i>> <=> other = slot
  BY DEF EveryTaskOnce
<1> USE DEF IInv
<1>1. ~Unpacked /\ packing = Weeks /\ queue = <<>> /\ Weeks \in Nat
  BY DEF Unpacked, Unplaced, StagesOK, CurriculumAssumption
<1>2. \A w \in AllWeeks : Packed(w) = TasksFor(Range(week[w]))
  <2>1. \A w \in AllWeeks : Packed(w) = ToPack(w)
    BY DEF PackedOK
  <2>2. Range(queue) = {}
    BY <1>1, EmptySequence
  <2>3. \A w \in AllWeeks : ~(w > packing)
    BY <1>1 DEF AllWeeks
  <2> QED BY <1>1, <2>1, <2>2, <2>3 DEF ToPack
<1>3. PICK w \in AllWeeks : t \in Range(week[w])
  <2>1. picked[p] \in Seq(Topics)
    BY DEF TypeOK
  <2>2. PICK k \in 1..Len(picked[p]) : picked[p][k] = t
    BY <2>1 DEF Range
  <2>3. k <= cursor[p]
    <3>1. cursor[p] >= Len(picked[p]) /\ cursor[p] \in Nat /\ Len(picked[p]) \in Nat
      BY <1>1, <2>1 DEF AllPlaced, TypeOK
    <3> QED BY <3>1
  <2> QED BY <2>2, <2>3 DEF PlacedOK
<1>4. <<t, i>> \in Packed(w)
  BY <1>2, <1>3 DEF TasksFor
<1>5. PICK d \in Days : <<t, i>> \in Range(day[w][d].tasks)
  BY <1>4 DEF Packed
<1>6. \A v \in AllWeeks, e \in Days :
        DOMAIN day[v][e].tasks = 1..Len(day[v][e].tasks) /\ Len(day[v][e].tasks) \in Nat
  <2>1. \A v \in AllWeeks, e \in Days : day[v][e] \in DayPlan
    BY DEF TypeOK
  <2>2. \A v \in AllWeeks, e \in Days : day[v][e].tasks \in Seq(Topics \X Nat)
    BY <2>1 DEF DayPlan
  <2> QED BY <2>2
<1>7. PICK j \in DOMAIN day[w][d].tasks : day[w][d].tasks[j] = <<t, i>>
  BY <1>5 DEF Range
<1>8. <<w, d, j>> \in InDays
  <2>1. <<w, d, j>> \in {<<w, d, l>> : l \in DOMAIN day[w][d].tasks}
    BY <1>7
  <2> DEFINE Slots(v, e) == {<<v, e, l>> : l \in DOMAIN day[v][e].tasks}
  <2>2. InDays = UNION {Slots(v, e) : v \in AllWeeks, e \in Days}
    BY DEF InDays
  <2>3. <<w, d, j>> \in Slots(w, d)
    BY <2>1
  <2> HIDE DEF Slots
  <2> QED BY <2>2, <2>3
<1>9. ASSUME NEW other \in InDays, day[other[1]][other[2]].tasks[other[3]] = <<t, i>>
      PROVE  other = <<w, d, j>>
  <2>1. PICK v \in AllWeeks, e \in Days : other \in {<<v, e, l>> : l \in DOMAIN day[v][e].tasks}
    BY DEF InDays
  <2>2. PICK l \in DOMAIN day[v][e].tasks : other = <<v, e, l>>
    BY <2>1
  <2>3. day[v][e].tasks[l] = <<t, i>> /\ <<t, i>> \in Range(day[v][e].tasks)
    BY <1>9, <2>2 DEF Range
  <2>4. <<t, i>> \in TasksFor(Range(week[v]))
    BY <1>2, <2>3 DEF Packed
  <2>5. t \in Range(week[v])
    BY <2>4 DEF TasksFor
  <2>6. v = w
    BY <1>3, <2>5 DEF PlacedOK
  <2>7. e = d
    BY <1>5, <2>3, <2>6 DEF PackedOK
  <2>8. l = j
    BY <1>6, <1>7, <2>2, <2>3, <2>6, <2>7 DEF PackedOK, Distinct
  <2> QED BY <2>2, <2>6, <2>7, <2>8
<1>10. PICK slot \in InDays : slot = <<w, d, j>>
  BY <1>8
<1>11. day[slot[1]][slot[2]].tasks[slot[3]] = <<t, i>>
  BY <1>7, <1>10
<1>12. \A other \in InDays :
         day[other[1]][other[2]].tasks[other[3]] = <<t, i>> <=> other = slot
  BY <1>9, <1>10, <1>11
<1> QED BY <1>12

LEMMA InitOK ==
  ASSUME CurriculumAssumption, CurriculumInit
  PROVE  IInv
<1> USE DEF CurriculumInit
<1>1. 1 \in AllWeeks /\ Weeks \in Nat
  BY DEF CurriculumAssumption, AllWeeks
<1>2. TypeOK
  BY <1>1, EmptySequence DEF TypeOK, CurriculumAssumption, DayPlan
<1>3. StagesOK
  BY DEF StagesOK, Unplaced, Unpacked
<1>4. PickedOK
  BY EmptySequence DEF PickedOK
<1>5. PlacedOK
  BY EmptySequence DEF PlacedOK
<1>6. Unpacked
  BY DEF Unpacked, Unplaced
<1>7. AllPlaced
  BY <1>6 DEF AllPlaced
<1>8. PackedOK
  <2>1. \A w \in AllWeeks : Packed(w) = {}
    BY EmptySequence DEF Packed
  <2> QED BY <1>6, <2>1, EmptySequence DEF PackedOK, ToPack
<1>9. OverflowOnlyWhenFull
  BY DEF OverflowOnlyWhenFull, Cap, CurriculumAssumption
<1> QED BY <1>2, <1>3, <1>4, <1>5, <1>7, <1>8, <1>9 DEF IInv

LEMMA AppendOnce ==
  ASSUME NEW X, NEW s \in Seq(X), NEW x \in X
  PROVE  /\ Append(s, x) \in Seq(X) /\ Range(Append(s, x)) = Range(s) \cup {x}
         /\ Distinct(s) /\ x \notin Range(s) => Distinct(Append(s, x))
<1> DEFINE n == Len(s)
           y == Append(s, x)
<1>1. /\ y \in Seq(X) /\ Len(y) = n + 1 /\ n \in Nat /\ y[n + 1] = x
      /\ DOMAIN s = 1..n /\ DOMAIN y = 1..(n + 1) /\ \A i \in 1..n : y[i] = s[i]
  OBVIOUS
<1> HIDE DEF n, y
<1>2. \A i \in 1..(n + 1) : i \in 1..n \/ i = n + 1
  BY <1>1
<1>3. Range(y) = Range(s) \cup {x}
  BY <1>1, <1>2 DEF Range
<1>4. ASSUME Distinct(s), x \notin Range(s), NEW i \in 1..(n + 1), NEW j \in 1..(n + 1), y[i] = y[j]
      PROVE  i = j
  <2>1. CASE i \in 1..n /\ j \in 1..n
    BY <1>1, <1>4, <2>1 DEF Distinct, n
  <2>2. CASE i = n + 1 \/ j = n + 1
    BY <1>1, <1>2, <1>4, <2>2 DEF Range
  <2> QED BY <1>2, <2>1, <2>2
<1> QED BY <1>1, <1>3, <1>4 DEF Distinct, y

LEMMA TailOnce ==
  ASSUME NEW X, NEW s \in Seq(X), s # <<>>, Distinct(s)
  PROVE  /\ Head(s) \in Range(s) /\ Tail(s) \in Seq(X) /\ Distinct(Tail(s))
         /\ Range(Tail(s)) = Range(s) \ {Head(s)}
<1> DEFINE n == Len(s)
           y == Tail(s)
<1>1. /\ n \in Nat /\ 1 \in 1..n /\ DOMAIN s = 1..n /\ Head(s) = s[1]
  OBVIOUS
<1>2. /\ y \in Seq(X) /\ Len(y) = n - 1 /\ DOMAIN y = 1..(n - 1)
      /\ \A i \in 1..(n - 1) : y[i] = s[i + 1] /\ i + 1 \in 1..n /\ i + 1 # 1
  BY <1>1
<1> HIDE DEF n, y
<1>3. \A i \in 1..n : i # 1 => i - 1 \in 1..(n - 1) /\ (i - 1) + 1 = i
  BY <1>1
<1>4. \A i, j \in 1..n : s[i] = s[j] => i = j
  BY DEF Distinct, n
<1>5. Head(s) \in Range(s)
  BY <1>1 DEF Range
<1>6. Distinct(y)
  <2>1. ASSUME NEW i \in 1..(n - 1), NEW j \in 1..(n - 1), y[i] = y[j] PROVE i = j
    BY <1>1, <1>2, <1>4, <2>1
  <2> QED BY <1>2, <2>1 DEF Distinct
<1>7. ASSUME NEW i \in 1..(n - 1) PROVE y[i] \in Range(s) \ {Head(s)}
  <2>1. PICK j \in 1..n : y[i] = s[j] /\ j # 1
    BY <1>2
  <2>2. s[j] # Head(s)
    BY <1>1, <1>4, <2>1
  <2>3. s[j] \in Range(s)
    BY <1>1 DEF Range
  <2> QED BY <2>1, <2>2, <2>3
<1>8. ASSUME NEW x \in Range(s) \ {Head(s)} PROVE x \in Range(y)
  <2>1. PICK i \in 1..n : s[i] = x /\ i # 1
    BY <1>1 DEF Range
  <2>2. i - 1 \in DOMAIN y /\ y[i - 1] = x
    BY <1>2, <1>3, <2>1
  <2> QED BY <2>2 DEF Range
<1>9. Range(y) = Range(s) \ {Head(s)}
  BY <1>2, <1>7, <1>8 DEF Range
<1> QED BY <1>2, <1>5, <1>6, <1>9 DEF y

-----------------------------------------------------------------------------
(***************************************************************************)
(* The steps.                                                              *)
(***************************************************************************)
LEMMA LoadOK ==
  ASSUME CurriculumAssumption, IInv, Load
  PROVE  IInv'
<1> USE DEF IInv, Load, selection, sequencing
<1>1. input'.topic \in Catalogue
  <2>1. input \in Input
    BY DEF TypeOK
  <2>2. input'.topic = [t \in Topics |-> LoadTopic(input.topic[t])]
    BY <2>1 DEF Input
  <2>3. \A t \in Topics : LoadTopic(input.topic[t]) \in Row(Int)
    BY <2>1, LoadTopicIs DEF Input
  <2> QED BY <2>2, <2>3 DEF Catalogue
<1>2. TypeOK'
  BY <1>1 DEF TypeOK
<1>3. StagesOK'
  BY DEF StagesOK, Unplaced, Unpacked
<1>4. PickedOK'
  BY DEF PickedOK
<1>5. PlacedOK'
  BY DEF PlacedOK
<1>6. Unpacked /\ Unpacked'
  BY DEF Unpacked, Unplaced
<1>7. AllPlaced'
  BY <1>6 DEF AllPlaced
<1>8. PackedOK'
  BY <1>6 DEF PackedOK, Packed, ToPack
<1>9. OverflowOnlyWhenFull'
  BY DEF OverflowOnlyWhenFull
<1> QED BY <1>2, <1>3, <1>4, <1>5, <1>7, <1>8, <1>9

LEMMA EmitOK ==
  ASSUME CurriculumAssumption, IInv, Emit
  PROVE  IInv'
<1> USE DEF IInv, Emit, sequencing
<1>1. \A t \in Topics : Emitted(t) \in Seq(Nat)
  BY EmittedIs DEF TypeOK
<1>2. \A t \in Topics : tasks'[t] \in Seq(Nat) /\ load'[t] = Sum(tasks'[t])
  BY <1>1
<1>3. \A t \in Topics : load'[t] \in Nat
  BY <1>2, SumIs
<1>4. tasks' \in [Topics -> Seq(Nat)] /\ load' \in [Topics -> Nat]
  BY <1>1, <1>3
<1>5. TypeOK'
  BY <1>4 DEF TypeOK
<1>6. StagesOK'
  BY DEF StagesOK, Unplaced, Unpacked
<1>7. PickedOK'
  BY DEF PickedOK
<1>8. PlacedOK'
  BY DEF PlacedOK
<1>9. Unpacked /\ Unpacked' /\ Unplaced
  BY DEF Unpacked, Unplaced
<1>10. AllPlaced'
  BY <1>9 DEF AllPlaced
<1>11. PackedOK'
  BY <1>9 DEF PackedOK, Packed, ToPack
<1>12. OverflowOnlyWhenFull'
  <2>1. \A w \in AllWeeks : minutes'[w] = 0
    BY <1>9 DEF StagesOK
  <2> QED BY <2>1 DEF OverflowOnlyWhenFull, Cap, CurriculumAssumption
<1> QED BY <1>5, <1>6, <1>7, <1>8, <1>10, <1>11, <1>12

LEMMA SelectOK ==
  ASSUME CurriculumAssumption, IInv, Select
  PROVE  IInv'
<1> USE DEF IInv, Select, sequencing
<1>1. ASSUME NEW p \in Range(Pillars)
      PROVE  /\ picked'[p] \in Seq(Topics) /\ Distinct(picked'[p])
             /\ \A t \in Range(picked'[p]) : input.topic[t].pillar = p
  <2>1. picked'[p] = Selected(p)
    OBVIOUS
  <2>2. input.topic \in Catalogue /\ \A t \in Topics : load[t] \in Nat
    BY DEF TypeOK
  <2> QED BY <2>1, <2>2, SelectedIs
<1>2. TypeOK'
  <2>1. picked' \in [Range(Pillars) -> Seq(Topics)]
    BY <1>1
  <2> QED BY <2>1 DEF TypeOK
<1>3. StagesOK'
  BY DEF StagesOK, Unplaced, Unpacked
<1>4. PickedOK'
  BY <1>1 DEF PickedOK
<1>5. Unplaced /\ Unpacked /\ Unpacked'
  BY DEF Unpacked, Unplaced
<1>6. PlacedOK'
  <2>1. \A w \in AllWeeks : week'[w] = <<>>
    BY <1>5 DEF StagesOK
  <2>2. \A p \in Range(Pillars) : cursor'[p] = 0
    BY <1>5 DEF StagesOK
  <2> QED BY <2>1, <2>2, EmptySequence DEF PlacedOK
<1>7. AllPlaced'
  BY <1>5 DEF AllPlaced
<1>8. PackedOK'
  BY <1>5 DEF PackedOK, Packed, ToPack
<1>9. OverflowOnlyWhenFull'
  BY DEF OverflowOnlyWhenFull
<1> QED BY <1>2, <1>3, <1>4, <1>6, <1>7, <1>8, <1>9

\* The topic that is placed is the next of the pillar whose turn it is.
LEMMA NextTopic ==
  ASSUME CurriculumAssumption, TypeOK, Place
  PROVE  /\ Order[turn] \in Range(Pillars)
         /\ cursor[Order[turn]] \in Nat /\ picked[Order[turn]] \in Seq(Topics)
         /\ cursor[Order[turn]] + 1 \in 1..Len(picked[Order[turn]])
         /\ picked[Order[turn]][cursor[Order[turn]] + 1] \in Topics
         /\ picked[Order[turn]][cursor[Order[turn]] + 1] \in Range(picked[Order[turn]])
<1> DEFINE p == Order[turn]
           n == Len(picked[p])
<1>1. turn <= Len(Order) /\ cursor[p] < n
  BY DEF Place
<1>2. Order \in Seq(Range(Pillars)) /\ turn \in Nat \ {0}
  BY OrderIs DEF TypeOK
<1>3. p \in Range(Pillars)
  <2>1. turn \in 1..Len(Order)
    BY <1>1, <1>2
  <2> QED BY <1>2, <2>1, ElementOfSeq
<1>4. cursor[p] \in Nat /\ picked[p] \in Seq(Topics)
  BY <1>3 DEF TypeOK
<1> HIDE DEF p
<1>5. n \in Nat /\ DOMAIN picked[p] = 1..n
  BY <1>4
<1> HIDE DEF n
<1>6. cursor[p] + 1 \in 1..n
  BY <1>1, <1>4, <1>5
<1>7. picked[p][cursor[p] + 1] \in Topics
  BY <1>4, <1>6, ElementOfSeq DEF n
<1>8. picked[p][cursor[p] + 1] \in Range(picked[p])
  BY <1>5, <1>6 DEF Range
<1> QED BY <1>3, <1>4, <1>6, <1>7, <1>8 DEF p, n

LEMMA PlaceOK ==
  ASSUME CurriculumAssumption, IInv, Place
  PROVE  IInv'
<1> USE DEF IInv, Place, selection
<1> DEFINE p == Order[turn]
           k == cursor[p] + 1
           t == picked[p][k]
           w == WeekFor(t)
<1>1. p \in Range(Pillars)
  BY NextTopic
<1>2. /\ k \in 1..Len(picked[p]) /\ t \in Topics /\ t \in Range(picked[p]) /\ cursor[p] \in Nat
      /\ picked[p] \in Seq(Topics)
  BY NextTopic
<1>3. w \in AllWeeks /\ (Room(t) # {} => w \in Room(t))
  BY WeekForIs DEF TypeOK, CurriculumAssumption
<1>4. /\ week' = [week EXCEPT ![w] = Append(@, t)]
      /\ minutes' = [minutes EXCEPT ![w] = @ + load[t]]
      /\ cursor' = [cursor EXCEPT ![p] = k]
      /\ turn' = turn + 1
      /\ UNCHANGED <<input, stage, tasks, load, picked, packing, queue, day>>
      /\ stage = "sequence"
  OBVIOUS
<1> HIDE DEF w, t, k, p
<1>a. week \in [AllWeeks -> Seq(Topics)] /\ minutes \in [AllWeeks -> Nat]
  BY DEF TypeOK
<1>b. cursor \in [Range(Pillars) -> Nat] /\ turn \in Nat
  BY DEF TypeOK
<1>c. \A v \in AllWeeks : Distinct(week[v])
  BY DEF PlacedOK
<1> HIDE DEF IInv, Place
<1>5. /\ \A v \in AllWeeks : week[v] \in Seq(Topics) /\ minutes[v] \in Nat
      /\ load[t] \in Nat
  BY <1>2, <1>a DEF IInv, TypeOK
<1>6. \A v \in AllWeeks : t \notin Range(week[v])
  <2>1. ~(k <= cursor[p])
    BY <1>2 DEF k
  <2> QED BY <1>1, <1>2, <2>1 DEF IInv, PlacedOK, t
<1>7. /\ week'[w] \in Seq(Topics) /\ Range(week'[w]) = Range(week[w]) \cup {t}
      /\ Distinct(week'[w])
  <2>1. week'[w] = Append(week[w], t)
    BY <1>3, <1>4, <1>a
  <2>2. week[w] \in Seq(Topics) /\ t \in Topics /\ t \notin Range(week[w]) /\ Distinct(week[w])
    BY <1>2, <1>3, <1>5, <1>6, <1>c
  <2>3. /\ Append(week[w], t) \in Seq(Topics) /\ Range(Append(week[w], t)) = Range(week[w]) \cup {t}
        /\ Distinct(Append(week[w], t))
    BY <2>2, AppendOnce
  <2> QED BY <2>1, <2>3
<1>8. \A v \in AllWeeks : v # w => week'[v] = week[v] /\ minutes'[v] = minutes[v]
  BY <1>4, <1>a
<1>9. minutes'[w] = minutes[w] + load[t]
  BY <1>3, <1>4, <1>a
<1>10. TypeOK'
  <2>1. week' \in [AllWeeks -> Seq(Topics)]
    BY <1>4, <1>5, <1>7, <1>8, <1>a
  <2>2. minutes' \in [AllWeeks -> Nat]
    <3>1. minutes[w] + load[t] \in Nat
      BY <1>3, <1>5
    <3> QED BY <1>4, <1>a, <3>1
  <2>3. cursor' \in [Range(Pillars) -> Nat] /\ turn' \in Nat \ {0}
    <3>1. k \in Nat
      BY <1>2 DEF k
    <3>2. cursor' \in [Range(Pillars) -> Nat]
      BY <1>4, <1>b, <3>1
    <3>3. turn' \in Nat \ {0}
      BY <1>4, <1>b
    <3> QED BY <3>2, <3>3
  <2> QED BY <1>4, <2>1, <2>2, <2>3 DEF IInv, TypeOK
<1>11. StagesOK'
  BY <1>4 DEF IInv, StagesOK, Unplaced, Unpacked
<1>12. PickedOK'
  BY <1>4 DEF IInv, PickedOK
<1>13. Unpacked /\ Unpacked'
  BY <1>4 DEF Unpacked, Unplaced
<1>14. PlacedOK'
  <2>1. ASSUME NEW q \in Range(Pillars), NEW j \in 1..Len(picked[q])
        PROVE  j <= cursor'[q] <=> \E v \in AllWeeks : picked[q][j] \in Range(week'[v])
    <3>1. j <= cursor[q] <=> \E v \in AllWeeks : picked[q][j] \in Range(week[v])
      BY DEF IInv, PlacedOK
    <3>2. (\E v \in AllWeeks : picked[q][j] \in Range(week'[v])) <=>
            (\E v \in AllWeeks : picked[q][j] \in Range(week[v])) \/ picked[q][j] = t
      BY <1>3, <1>7, <1>8
    <3>3. picked[q] \in Seq(Topics) /\ picked[q][j] \in Range(picked[q]) /\ cursor[q] \in Nat
      BY DEF IInv, TypeOK, Range
    <3>4. CASE q # p
      <4>1. picked[q][j] # t
        BY <1>1, <1>2, <3>3, <3>4 DEF IInv, PickedOK
      <4>2. cursor'[q] = cursor[q]
        BY <1>4, <1>b, <3>4
      <4> QED BY <3>1, <3>2, <4>1, <4>2
    <3>5. CASE q = p
      <4>1. picked[q][j] = t <=> j = k
        BY <1>1, <1>2, <3>5 DEF IInv, PickedOK, Distinct, t
      <4>2. cursor'[q] = k
        BY <1>1, <1>4, <1>b, <3>5
      <4>3. j <= k <=> j <= cursor[q] \/ j = k
        BY <1>2, <3>3, <3>5 DEF k
      <4> QED BY <3>1, <3>2, <4>1, <4>2, <4>3
    <3> QED BY <3>4, <3>5
  <2>2. ASSUME NEW v \in AllWeeks, NEW u \in Range(week'[v])
        PROVE  \E q \in Range(Pillars) : u \in Range(picked[q])
    <3>1. u \in Range(week[v]) \/ u = t
      BY <1>7, <1>8
    <3>2. CASE u = t
      BY <1>1, <1>2, <3>2
    <3>3. CASE u \in Range(week[v])
      BY <3>3 DEF IInv, PlacedOK
    <3> QED BY <3>1, <3>2, <3>3
  <2>3. \A v \in AllWeeks : Distinct(week'[v])
    BY <1>7, <1>8, <1>c
  <2>4. ASSUME NEW v \in AllWeeks, NEW x \in AllWeeks, Range(week'[v]) \cap Range(week'[x]) # {}
        PROVE  v = x
    <3>1. PICK u : u \in Range(week'[v]) /\ u \in Range(week'[x])
      BY <2>4
    <3>2. \A y \in AllWeeks : u \in Range(week'[y]) =>
            u \in Range(week[y]) \/ (u = t /\ y = w)
      BY <1>7, <1>8
    <3>3. \A y, z \in AllWeeks : u \in Range(week[y]) /\ u \in Range(week[z]) => y = z
      BY DEF IInv, PlacedOK
    <3> QED BY <1>6, <3>1, <3>2, <3>3
  <2> QED BY <1>4, <2>1, <2>2, <2>3, <2>4 DEF PlacedOK
<1>15. AllPlaced'
  BY <1>13 DEF AllPlaced
<1>16. PackedOK'
  <2>1. \A v \in AllWeeks : Packed(v)' = Packed(v)
    BY <1>4 DEF Packed
  <2>2. \A v \in AllWeeks : ToPack(v) = {} /\ ToPack(v)' = {}
    BY <1>13 DEF ToPack
  <2> HIDE DEF Packed, ToPack
  <2> QED BY <1>4, <1>13, <2>1, <2>2 DEF IInv, PackedOK
<1>17. OverflowOnlyWhenFull'
  <2> SUFFICES ASSUME NEW v \in AllWeeks, minutes'[v] > Cap
               PROVE  \E u \in Range(week'[v]) :
                        \A x \in AllWeeks \ {v} : minutes'[x] + load[u] > Cap
    BY <1>4 DEF IInv, OverflowOnlyWhenFull
  <2>0. Cap \in Nat
    BY DEF Cap, CurriculumAssumption
  <2>1. \A x \in AllWeeks : minutes'[x] >= minutes[x] /\ minutes'[x] \in Nat
    <3> TAKE x \in AllWeeks
    <3>1. CASE x = w
      BY <1>5, <1>9, <3>1
    <3>2. CASE x # w
      BY <1>5, <1>8, <3>2
    <3> QED BY <3>1, <3>2
  <2>2. CASE minutes[v] > Cap
    <3>1. PICK u \in Range(week[v]) : \A x \in AllWeeks \ {v} : minutes[x] + load[u] > Cap
      BY <2>2 DEF IInv, OverflowOnlyWhenFull
    <3>2. u \in Range(week'[v])
      BY <1>7, <1>8
    <3>3. load[u] \in Nat
      <4>1. u \in Topics
        BY <1>5 DEF Range
      <4> QED BY <4>1 DEF IInv, TypeOK
    <3>4. \A x \in AllWeeks \ {v} : minutes'[x] + load[u] > Cap
      <4> TAKE x \in AllWeeks \ {v}
      <4>1. minutes[x] + load[u] > Cap /\ minutes'[x] >= minutes[x]
        BY <2>1, <3>1
      <4>2. minutes[x] \in Nat /\ minutes'[x] \in Nat
        BY <1>5, <2>1
      <4> QED BY <2>0, <3>3, <4>1, <4>2
    <3> QED BY <3>2, <3>4
  <2>3. CASE ~(minutes[v] > Cap)
    <3>1. v = w
      BY <1>8, <2>3
    <3>2. w \notin Room(t)
      BY <1>5, <1>9, <2>0, <3>1 DEF Room
    <3>3. Room(t) = {}
      BY <1>3, <3>2
    <3>4. \A x \in AllWeeks : minutes[x] + load[t] > Cap
      BY <1>5, <2>0, <3>3 DEF Room
    <3>5. \A x \in AllWeeks \ {v} : minutes'[x] + load[t] > Cap
      BY <1>8, <3>1, <3>4
    <3> QED BY <1>7, <3>1, <3>5
  <2> QED BY <2>2, <2>3
<1> QED BY <1>10, <1>11, <1>12, <1>14, <1>15, <1>16, <1>17 DEF IInv

LEMMA ExhaustedOK ==
  ASSUME IInv, Exhausted
  PROVE  IInv'
<1>1. turn' \in Nat \ {0}
  <2>1. turn \in Nat /\ turn' = turn + 1
    BY DEF IInv, TypeOK, Exhausted
  <2> QED BY <2>1
<1>2. stage' = stage /\ stage = "sequence"
  BY DEF Exhausted
<1>3. UNCHANGED <<input, tasks, load, picked, cursor, week, minutes, packing, queue, day>>
  BY DEF Exhausted, selection
<1>4. Unpacked' <=> Unpacked
  BY <1>2 DEF Unpacked, Unplaced
<1>5. TypeOK'
  BY <1>1, <1>2, <1>3 DEF IInv, TypeOK
<1>6. StagesOK'
  BY <1>2, <1>3 DEF IInv, StagesOK, Unplaced, Unpacked
<1>7. PickedOK'
  BY <1>3 DEF IInv, PickedOK
<1>8. PlacedOK'
  BY <1>3 DEF IInv, PlacedOK
<1>9. AllPlaced'
  BY <1>3, <1>4 DEF IInv, AllPlaced
<1>10. PackedOK'
  <2>1. \A w \in AllWeeks : Packed(w)' = Packed(w) /\ ToPack(w)' = ToPack(w)
    BY <1>3, <1>4 DEF Packed, ToPack, TasksFor
  <2>2. TasksFor(Range(week[packing]))' = TasksFor(Range(week[packing]))
    BY <1>3 DEF TasksFor
  <2> HIDE DEF Packed, ToPack
  <2> QED BY <1>3, <1>4, <2>1, <2>2 DEF IInv, PackedOK
<1>11. OverflowOnlyWhenFull'
  BY <1>3 DEF IInv, OverflowOnlyWhenFull
<1> QED BY <1>5, <1>6, <1>7, <1>8, <1>9, <1>10, <1>11 DEF IInv

LEMMA NextRoundOK ==
  ASSUME CurriculumAssumption, IInv, NextRound
  PROVE  IInv'
<1>1. turn' \in Nat \ {0} /\ stage = "sequence"
  BY DEF NextRound
<1>2. UNCHANGED <<input, tasks, load, picked, cursor, week, minutes, packing, day>>
  BY DEF NextRound, selection
<1>3. packing = 1 /\ packing \in AllWeeks /\ Unpacked
  <2>1. Unpacked
    BY <1>1 DEF Unpacked
  <2> QED BY <2>1 DEF IInv, StagesOK, TypeOK
<1>4. week[1] \in Seq(Topics) /\ Distinct(week[1])
  BY <1>3 DEF IInv, TypeOK, PlacedOK
<1>5. tasks \in [Topics -> Seq(Nat)]
  BY DEF IInv, TypeOK
<1>6. /\ TasksOf(week[1]) \in Seq(Topics \X Nat) /\ Distinct(TasksOf(week[1]))
      /\ Range(TasksOf(week[1])) = TasksFor(Range(week[1]))
  BY <1>4, <1>5, TasksOfIs
<1>7. \/ stage' = stage /\ queue' = queue
      \/ stage' = "pack" /\ queue' = TasksOf(week[1]) /\ ~Remaining
  BY DEF NextRound
<1>8. queue \in Seq(Topics \X Nat)
  BY DEF IInv, TypeOK
<1>9. TypeOK'
  <2>1. queue' \in Seq(Topics \X Nat)
    BY <1>6, <1>7, <1>8
  <2>2. stage # "load" /\ stage' # "load"
    BY <1>1, <1>7
  <2> QED BY <1>1, <1>2, <2>1, <2>2 DEF IInv, TypeOK
<1>10. StagesOK'
  BY <1>1, <1>2, <1>7 DEF IInv, StagesOK, Unplaced, Unpacked
<1>11. PickedOK'
  BY <1>2 DEF IInv, PickedOK
<1>12. PlacedOK'
  BY <1>2 DEF IInv, PlacedOK
<1>13. OverflowOnlyWhenFull'
  BY <1>2 DEF IInv, OverflowOnlyWhenFull
<1>14. \A w \in AllWeeks : Packed(w)' = Packed(w) /\ Packed(w) = {}
  <2>1. \A w \in AllWeeks : Packed(w)' = Packed(w)
    BY <1>2 DEF Packed
  <2>2. \A w \in AllWeeks : Packed(w) = ToPack(w)
    BY DEF IInv, PackedOK
  <2> QED BY <1>3, <2>1, <2>2 DEF ToPack
<1>15. TasksFor(Range(week[1]))' = TasksFor(Range(week[1]))
  BY <1>2 DEF TasksFor
<1>16. CASE stage' = stage /\ queue' = queue
  <2>1. Unpacked'
    BY <1>1, <1>16 DEF Unpacked
  <2>2. AllPlaced'
    BY <2>1 DEF AllPlaced
  <2>3. PackedOK'
    <3>1. \A w \in AllWeeks : ToPack(w)' = {}
      BY <2>1 DEF ToPack
    <3> HIDE DEF Packed, ToPack
    <3> QED BY <1>2, <1>14, <2>1, <3>1 DEF IInv, PackedOK
  <2> QED BY <1>9, <1>10, <1>11, <1>12, <1>13, <2>2, <2>3 DEF IInv
<1>17. CASE stage' = "pack" /\ queue' = TasksOf(week[1]) /\ ~Remaining
  <2>1. ~Unpacked'
    BY <1>17 DEF Unpacked, Unplaced
  <2>2. AllPlaced'
    <3>1. ASSUME NEW p \in Range(Pillars) PROVE cursor[p] >= Len(picked[p])
      <4>1. cursor[p] \in Nat /\ Len(picked[p]) \in Nat /\ ~(cursor[p] < Len(picked[p]))
        BY <1>17 DEF IInv, TypeOK, Remaining
      <4> QED BY <4>1
    <3> QED BY <1>2, <3>1 DEF AllPlaced
  <2>3. PackedOK'
    <3>1. \A w \in AllWeeks : ToPack(w)' = {}
      <4> TAKE w \in AllWeeks
      <4>1. w = 1 \/ w > 1
        BY DEF AllWeeks
      <4>2. CASE w = 1
        BY <1>2, <1>3, <1>6, <1>15, <1>17, <2>1, <4>2 DEF ToPack
      <4>3. CASE w > 1
        BY <1>2, <1>3, <4>3 DEF ToPack
      <4> QED BY <4>1, <4>2, <4>3
    <3>2. Distinct(queue)' /\ Range(queue)' \subseteq TasksFor(Range(week[packing]))'
      BY <1>2, <1>3, <1>6, <1>15, <1>17
    <3> HIDE DEF Packed, ToPack
    <3> QED BY <1>2, <1>14, <3>1, <3>2 DEF IInv, PackedOK
  <2> QED BY <1>9, <1>10, <1>11, <1>12, <1>13, <2>2, <2>3 DEF IInv
<1> QED BY <1>7, <1>16, <1>17

LEMMA NextWeekOK ==
  ASSUME CurriculumAssumption, IInv, NextWeek
  PROVE  IInv'
<1>1. stage = "pack" /\ queue = <<>>
  BY DEF NextWeek
<1>2. UNCHANGED <<input, tasks, load, picked, turn, cursor, week, minutes, day>>
  BY DEF NextWeek, selection, sequencing
<1>3. ~Unpacked /\ ~Unpacked'
  BY DEF NextWeek, Unpacked, Unplaced
<1>4. packing \in 1..Weeks /\ Weeks \in Nat
  BY DEF IInv, TypeOK, AllWeeks, CurriculumAssumption
<1>5. PickedOK'
  BY <1>2 DEF IInv, PickedOK
<1>6. PlacedOK'
  BY <1>2 DEF IInv, PlacedOK
<1>7. OverflowOnlyWhenFull'
  BY <1>2 DEF IInv, OverflowOnlyWhenFull
<1>8. AllPlaced'
  BY <1>2, <1>3 DEF IInv, AllPlaced
<1>9. \A w \in AllWeeks : Packed(w)' = Packed(w) /\ Packed(w) = ToPack(w)
  <2>1. \A w \in AllWeeks : Packed(w)' = Packed(w)
    BY <1>2 DEF Packed
  <2> QED BY <2>1 DEF IInv, PackedOK
<1>10. \A w \in AllWeeks : TasksFor(Range(week[w]))' = TasksFor(Range(week[w]))
  BY <1>2 DEF TasksFor
<1>11. \A w \in AllWeeks :
         ToPack(w) = IF w > packing THEN {} ELSE TasksFor(Range(week[w]))
  BY <1>1, <1>3, EmptySequence DEF ToPack
<1>12. CASE packing = Weeks
  <2>1. stage' = "done" /\ packing' = packing /\ queue' = queue
    BY <1>12 DEF NextWeek
  <2>2. TypeOK'
    BY <1>1, <1>2, <2>1 DEF IInv, TypeOK
  <2>3. StagesOK'
    BY <1>1, <1>2, <1>12, <2>1 DEF IInv, StagesOK, Unplaced, Unpacked
  <2>4. PackedOK'
    <3>1. \A w \in AllWeeks : ToPack(w)' = ToPack(w)
      BY <1>2, <1>3, <1>10, <2>1 DEF ToPack
    <3>2. Distinct(queue)' /\ Range(queue)' = {}
      BY <1>1, <2>1, EmptySequence
    <3> HIDE DEF Packed, ToPack
    <3> QED BY <1>2, <1>9, <3>1, <3>2 DEF IInv, PackedOK
  <2> QED BY <1>5, <1>6, <1>7, <1>8, <2>2, <2>3, <2>4 DEF IInv
<1>13. CASE packing # Weeks
  <2> DEFINE next == packing + 1
  <2>1. stage' = stage /\ packing' = next /\ queue' = TasksOf(week[next])
    BY <1>13 DEF NextWeek, FromWeek
  <2>2. next \in AllWeeks /\ next > packing
    BY <1>4, <1>13 DEF AllWeeks
  <2> HIDE DEF next
  <2>3. week[next] \in Seq(Topics) /\ Distinct(week[next])
    BY <2>2 DEF IInv, TypeOK, PlacedOK
  <2>4. tasks \in [Topics -> Seq(Nat)]
    BY DEF IInv, TypeOK
  <2>5. /\ TasksOf(week[next]) \in Seq(Topics \X Nat) /\ Distinct(TasksOf(week[next]))
        /\ Range(TasksOf(week[next])) = TasksFor(Range(week[next]))
    BY <2>3, <2>4, TasksOfIs
  <2>6. TypeOK'
    BY <1>1, <1>2, <2>1, <2>2, <2>5 DEF IInv, TypeOK
  <2>7. StagesOK'
    BY <1>1, <1>2, <2>1 DEF IInv, StagesOK, Unplaced, Unpacked
  <2>8. PackedOK'
    <3>1. \A w \in AllWeeks : ToPack(w)' = ToPack(w)
      <4> TAKE w \in AllWeeks
      <4>1. w \in Nat /\ packing \in Nat /\ next = packing + 1
        BY <1>4 DEF AllWeeks, next
      <4>2. TasksFor(Range(week[w]))' = TasksFor(Range(week[w]))
        BY <1>10
      <4>3. ToPack(w)' = IF w > next THEN {}
                         ELSE IF w = next THEN TasksFor(Range(week[w]))' \ Range(queue')
                         ELSE TasksFor(Range(week[w]))'
        BY <1>3, <2>1 DEF ToPack
      <4>4. ToPack(w) = IF w > packing THEN {} ELSE TasksFor(Range(week[w]))
        BY <1>11
      <4>5. CASE w = next
        BY <2>1, <2>2, <2>5, <4>2, <4>3, <4>4, <4>5
      <4>6. CASE w # next
        BY <4>1, <4>2, <4>3, <4>4, <4>6
      <4> QED BY <4>5, <4>6
    <3>2. Distinct(queue)' /\ Range(queue)' \subseteq TasksFor(Range(week[packing]))'
      <4>1. TasksFor(Range(week[packing]))' = TasksFor(Range(week[next]))
        BY <1>2, <2>1 DEF TasksFor
      <4> QED BY <2>1, <2>5, <4>1
    <3> HIDE DEF Packed, ToPack
    <3> QED BY <1>2, <1>9, <3>1, <3>2 DEF IInv, PackedOK
  <2> QED BY <1>5, <1>6, <1>7, <1>8, <2>6, <2>7, <2>8 DEF IInv
<1> QED BY <1>12, <1>13

LEMMA PackOK ==
  ASSUME CurriculumAssumption, IInv, Pack
  PROVE  IInv'
<1> DEFINE w == packing
           d == Lightest
           x == Head(queue)
           new == [tasks |-> Append(day[w][d].tasks, x),
                   planned |-> day[w][d].planned + tasks[x[1]][x[2]]]
<1>1. stage = "pack" /\ queue # <<>> /\ queue' = Tail(queue)
  BY DEF Pack
<1>2. UNCHANGED <<input, stage, tasks, load, picked, turn, cursor, week, minutes, packing>>
  BY DEF Pack, selection, sequencing
<1>3. ~Unpacked /\ ~Unpacked' /\ ~Unplaced'
  BY <1>1, <1>2 DEF Unpacked, Unplaced
<1>4. w \in AllWeeks /\ day \in [AllWeeks -> [Days -> DayPlan]] /\ queue \in Seq(Topics \X Nat)
  BY DEF IInv, TypeOK
<1>5. d \in Days
  <2>1. \A e \in Days : day[packing][e].planned \in Nat
    BY <1>4 DEF DayPlan
  <2> QED BY <2>1, LightestIs DEF CurriculumAssumption
<1>6. day' = [day EXCEPT ![w][d] = new]
  BY DEF Pack
<1>7. Distinct(queue) /\ Range(queue) \subseteq TasksFor(Range(week[w]))
  BY <1>3 DEF IInv, PackedOK
<1>8. /\ x \in Range(queue) /\ Tail(queue) \in Seq(Topics \X Nat) /\ Distinct(Tail(queue))
      /\ Range(Tail(queue)) = Range(queue) \ {x}
  BY <1>1, <1>4, <1>7, TailOnce
<1>9. x \in Topics \X Nat /\ tasks[x[1]][x[2]] \in Nat
  <2>1. x \in Topics \X Nat
    BY <1>1, <1>4
  <2>2. PICK t \in Range(week[w]) : x \in {t} \X DOMAIN tasks[t]
    BY <1>7, <1>8 DEF TasksFor
  <2>3. tasks[t] \in Seq(Nat)
    BY <2>1, <2>2 DEF IInv, TypeOK
  <2>4. tasks[t][x[2]] \in Nat
    BY <2>2, <2>3
  <2> QED BY <2>1, <2>2, <2>4
<1>10. \A v \in AllWeeks : Packed(v) = ToPack(v)
  BY DEF IInv, PackedOK
<1>11. \A e \in Days : x \notin Range(day[w][e].tasks)
  <2>1. Packed(w) = TasksFor(Range(week[w])) \ Range(queue)
    BY <1>3, <1>4, <1>10 DEF ToPack, AllWeeks
  <2> QED BY <1>8, <2>1 DEF Packed
<1>12. /\ day[w][d].tasks \in Seq(Topics \X Nat) /\ Distinct(day[w][d].tasks)
       /\ day[w][d].planned \in Nat
  <2>1. day[w][d] \in DayPlan
    BY <1>4, <1>5
  <2> QED BY <1>4, <1>5, <2>1 DEF IInv, PackedOK, DayPlan
<1>13. /\ new.tasks \in Seq(Topics \X Nat) /\ Range(new.tasks) = Range(day[w][d].tasks) \cup {x}
       /\ Distinct(new.tasks)
  <2>1. x \notin Range(day[w][d].tasks) /\ Distinct(day[w][d].tasks)
    BY <1>5, <1>11, <1>12
  <2>2. x \in Topics \X Nat /\ day[w][d].tasks \in Seq(Topics \X Nat)
    BY <1>9, <1>12
  <2> HIDE DEF x, w, d
  <2>3. /\ Append(day[w][d].tasks, x) \in Seq(Topics \X Nat)
        /\ Range(Append(day[w][d].tasks, x)) = Range(day[w][d].tasks) \cup {x}
        /\ Distinct(Append(day[w][d].tasks, x))
    BY <2>1, <2>2, AppendOnce
  <2> QED BY <2>3
<1>14. new \in DayPlan
  BY <1>9, <1>12, <1>13 DEF DayPlan
<1> HIDE DEF new, w, d, x
<1>15. day'[w][d] = new
  BY <1>4, <1>5, <1>6
<1>16. \A v \in AllWeeks, e \in Days : v # w \/ e # d => day'[v][e] = day[v][e]
  BY <1>4, <1>6
<1>17. TypeOK'
  <2>1. day' \in [AllWeeks -> [Days -> DayPlan]]
    BY <1>4, <1>6, <1>14
  <2> QED BY <1>1, <1>2, <1>8, <2>1 DEF IInv, TypeOK
<1>18. StagesOK'
  BY <1>1, <1>2, <1>3 DEF IInv, StagesOK
<1>19. PickedOK'
  BY <1>2 DEF IInv, PickedOK
<1>20. PlacedOK'
  BY <1>2 DEF IInv, PlacedOK
<1>21. OverflowOnlyWhenFull'
  BY <1>2 DEF IInv, OverflowOnlyWhenFull
<1>22. AllPlaced'
  BY <1>2, <1>3 DEF IInv, AllPlaced
<1>23. \A e \in Days : Range(day'[w][e].tasks) =
                         Range(day[w][e].tasks) \cup (IF e = d THEN {x} ELSE {})
  BY <1>4, <1>13, <1>15, <1>16
<1>24. \A v \in AllWeeks : Packed(v)' = Packed(v) \cup (IF v = w THEN {x} ELSE {})
  <2> TAKE v \in AllWeeks
  <2>1. CASE v = w
    <3>1. Packed(v)' = UNION {Range(day'[v][e].tasks) : e \in Days}
      BY DEF Packed
    <3>2. Packed(v) = UNION {Range(day[v][e].tasks) : e \in Days}
      BY DEF Packed
    <3> QED BY <1>5, <1>23, <2>1, <3>1, <3>2
  <2>2. CASE v # w
    <3>1. \A e \in Days : day'[v][e] = day[v][e]
      BY <1>16, <2>2
    <3> QED BY <2>2, <3>1 DEF Packed
  <2> QED BY <2>1, <2>2
<1>25. \A v \in AllWeeks : ToPack(v)' = ToPack(v) \cup (IF v = w THEN {x} ELSE {})
  <2> TAKE v \in AllWeeks
  <2>1. TasksFor(Range(week[v]))' = TasksFor(Range(week[v]))
    BY <1>2 DEF TasksFor
  <2>2. CASE v = w
    <3>1. ~(v > packing)
      BY <1>4, <2>2 DEF w, AllWeeks
    <3>2. ToPack(v)' = TasksFor(Range(week[v])) \ Range(queue')
      BY <1>2, <1>3, <2>1, <2>2, <3>1 DEF ToPack, w
    <3>3. ToPack(v) = TasksFor(Range(week[v])) \ Range(queue)
      BY <1>3, <2>2, <3>1 DEF ToPack, w
    <3> QED BY <1>1, <1>7, <1>8, <2>2, <3>2, <3>3
  <2>3. CASE v # w
    BY <1>2, <1>3, <2>1, <2>3 DEF ToPack, w
  <2> QED BY <2>2, <2>3
<1>26. PackedOK'
  <2>1. \A v \in AllWeeks : Packed(v)' = ToPack(v)'
    BY <1>10, <1>24, <1>25
  <2>2. \A v \in AllWeeks, e \in Days : Distinct(day'[v][e].tasks)
    <3> TAKE v \in AllWeeks, e \in Days
    <3>1. Distinct(day[v][e].tasks)
      BY DEF IInv, PackedOK
    <3>2. CASE v = w /\ e = d
      BY <1>13, <1>15, <3>2
    <3>3. CASE v # w \/ e # d
      BY <1>16, <3>1, <3>3
    <3> QED BY <3>2, <3>3
  <2>3. ASSUME NEW v \in AllWeeks, NEW e \in Days, NEW f \in Days,
               Range(day'[v][e].tasks) \cap Range(day'[v][f].tasks) # {}
        PROVE  e = f
    <3>1. \A g, h \in Days : Range(day[v][g].tasks) \cap Range(day[v][h].tasks) # {} => g = h
      BY DEF IInv, PackedOK
    <3>2. CASE v = w
      <4>1. PICK y : y \in Range(day'[w][e].tasks) /\ y \in Range(day'[w][f].tasks)
        BY <2>3, <3>2
      <4>2. CASE y = x
        BY <1>11, <1>23, <4>1, <4>2
      <4>3. CASE y # x
        BY <1>23, <3>1, <3>2, <4>1, <4>3
      <4> QED BY <4>2, <4>3
    <3>3. CASE v # w
      BY <1>16, <2>3, <3>1, <3>3
    <3> QED BY <3>2, <3>3
  <2>4. Distinct(queue') /\ Range(queue') \subseteq TasksFor(Range(week[packing]))'
    <3>1. TasksFor(Range(week[packing]))' = TasksFor(Range(week[w]))
      BY <1>2 DEF TasksFor, w
    <3> QED BY <1>1, <1>7, <1>8, <3>1
  <2> HIDE DEF Packed, ToPack
  <2> QED BY <2>1, <2>2, <2>3, <2>4 DEF PackedOK
<1> QED BY <1>17, <1>18, <1>19, <1>20, <1>21, <1>22, <1>26 DEF IInv

LEMMA StutterOK ==
  ASSUME IInv, UNCHANGED curriculumVars
  PROVE  IInv'
<1>1. UNCHANGED <<input, stage, tasks, load, picked, turn, cursor, week, minutes, packing,
                  queue, day>>
  BY DEF curriculumVars
<1>2. TypeOK' /\ StagesOK' /\ PickedOK' /\ PlacedOK' /\ OverflowOnlyWhenFull'
  BY <1>1 DEF IInv, TypeOK, StagesOK, PickedOK, PlacedOK, OverflowOnlyWhenFull, Unpacked,
              Unplaced
<1>3. Unpacked' <=> Unpacked
  BY <1>1 DEF Unpacked, Unplaced
<1>4. AllPlaced'
  BY <1>1, <1>3 DEF IInv, AllPlaced
<1>5. \A w \in AllWeeks : Packed(w)' = Packed(w) /\ ToPack(w)' = ToPack(w)
  BY <1>1, <1>3 DEF Packed, ToPack, TasksFor
<1>6. TasksFor(Range(week[packing]))' = TasksFor(Range(week[packing]))
  BY <1>1 DEF TasksFor
<1>7. PackedOK'
  <2> HIDE DEF Packed, ToPack
  <2> QED BY <1>1, <1>3, <1>5, <1>6 DEF IInv, PackedOK
<1> QED BY <1>2, <1>4, <1>7 DEF IInv

LEMMA StepOK ==
  ASSUME CurriculumAssumption, IInv, [CurriculumNext]_curriculumVars
  PROVE  IInv'
BY LoadOK, EmitOK, SelectOK, PlaceOK, ExhaustedOK, NextRoundOK, PackOK, NextWeekOK, StutterOK
   DEF CurriculumNext

-----------------------------------------------------------------------------
(***************************************************************************)
(* The theorem.                                                            *)
(***************************************************************************)
\* For any catalogue and profile, the days of a finished plan hold every task of
\* every picked topic exactly once, and a week is over its budget only when one of
\* its topics has room in no other (curriculum/engine.go Generate, sequenceWeeks,
\* buildWeek, packTasks).
THEOREM PlanIsComplete ==
  ASSUME CurriculumAssumption
  PROVE  CurriculumSpec => [](EveryTaskOnce /\ OverflowOnlyWhenFull)
<1>1. CurriculumInit => IInv
  BY InitOK
<1>2. IInv /\ [CurriculumNext]_curriculumVars => IInv'
  BY StepOK
<1>3. IInv => EveryTaskOnce /\ OverflowOnlyWhenFull
  BY DoneOnce DEF IInv
<1> QED BY <1>1, <1>2, <1>3, PTL DEF CurriculumSpec
=============================================================================
