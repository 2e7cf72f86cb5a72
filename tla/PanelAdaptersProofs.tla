------------------------- MODULE PanelAdaptersProofs -------------------------
(***************************************************************************)
(* The panel that pickDistinctModels seats and the provider that           *)
(* pickProviderByModel finds, for every list of services; and the          *)
(* invariants of adjudicate() over its adapters, for any number of         *)
(* adjudications, panelists, late calls and transactions on their way.     *)
(***************************************************************************)
EXTENDS PanelAdapters, SumTheorems, SequenceTheorems

-----------------------------------------------------------------------------
(* Numbers in ascending order.                                             *)
IsAscending(f, S) ==
  /\ f \in [1..Cardinality(S) -> S]
  /\ \A j, k \in 1..Cardinality(S) : j < k => f[j] < f[k]

(* By the least number of which some set cannot be ordered: less its       *)
(* smallest element it can.                                                *)
LEMMA AscendingExists ==
  ASSUME NEW S \in SUBSET Nat, IsFiniteSet(S)
  PROVE  \E f : IsAscending(f, S)
<1> DEFINE Unordered(R) == IsFiniteSet(R) /\ ~ \E f : IsAscending(f, R)
           T == {n \in Nat : \E R \in SUBSET Nat :
                               Unordered(R) /\ Cardinality(R) = n}
<1>1. ASSUME NEW m \in T, \A k \in Nat : k < m => k \notin T
      PROVE  FALSE
  <2>1. PICK R \in SUBSET Nat : Unordered(R) /\ Cardinality(R) = m
    OBVIOUS
  <2>2. R # {}
    <3> SUFFICES ASSUME R = {} PROVE FALSE
      OBVIOUS
    <3>1. Cardinality(R) = 0
      BY FS_EmptySet
    <3>2. IsAscending([i \in {} |-> 0], R)
      BY <3>1 DEF IsAscending
    <3> QED
      BY <2>1, <3>2
  <2>3. PICK x \in R : \A y \in R : x <= y
    <3>1. PICK x \in R : \A y \in Nat : y < x => y \notin R
      BY <2>2, LeastCounterexample
    <3> QED
      BY <3>1
  <2>4. /\ IsFiniteSet(R \ {x}) /\ Cardinality(R \ {x}) = m - 1
        /\ m - 1 \in Nat
    <3>1. IsFiniteSet(R \ {x}) /\ Cardinality(R \ {x}) = m - 1
      BY <2>1, FS_RemoveElement
    <3>2. Cardinality(R \ {x}) \in Nat
      BY <3>1, FS_CardinalityType
    <3> QED
      BY <3>1, <3>2
  <2>5. PICK g : IsAscending(g, R \ {x})
    <3>1. m - 1 \notin T
      BY <1>1, <2>4
    <3> QED
      BY <2>4, <3>1
  <2> DEFINE f == [i \in 1..m |-> IF i = 1 THEN x ELSE g[i - 1]]
  <2>6. \A i \in 1..m : i # 1 => i - 1 \in 1..(m - 1) /\ g[i - 1] \in R \ {x}
    <3>1. g \in [1..(m - 1) -> R \ {x}]
      BY <2>4, <2>5 DEF IsAscending
    <3>2. \A i \in 1..m : i # 1 => i - 1 \in 1..(m - 1)
      BY <2>4
    <3> QED
      BY <3>1, <3>2
  <2>7. f \in [1..m -> R]
    BY <2>6
  <2>8. ASSUME NEW j \in 1..m, NEW k \in 1..m, j < k
        PROVE  f[j] < f[k]
    <3>1. k # 1 /\ k - 1 \in 1..(m - 1) /\ g[k - 1] \in R \ {x}
      BY <2>6, <2>8
    <3>2. CASE j = 1
      <4>1. f[j] = x /\ f[k] = g[k - 1]
        BY <3>1, <3>2
      <4>2. x \in Nat /\ g[k - 1] \in Nat /\ x # g[k - 1] /\ x <= g[k - 1]
        BY <2>3, <3>1
      <4> QED
        BY <4>1, <4>2
    <3>3. CASE j # 1
      <4>1. f[j] = g[j - 1] /\ f[k] = g[k - 1]
        BY <3>1, <3>3
      <4>2. j - 1 \in 1..(m - 1) /\ k - 1 \in 1..(m - 1) /\ j - 1 < k - 1
        BY <2>4, <2>8, <3>1, <3>3
      <4>3. \A p, q \in 1..(m - 1) : p < q => g[p] < g[q]
        BY <2>4, <2>5 DEF IsAscending
      <4> QED
        BY <4>1, <4>2, <4>3
    <3> QED
      BY <3>2, <3>3
  <2>9. IsAscending(f, R)
    BY <2>1, <2>7, <2>8 DEF IsAscending
  <2> QED
    BY <2>1, <2>9
<1>2. T = {}
  BY <1>1, LeastCounterexample
<1>3. Cardinality(S) \in Nat
  BY FS_CardinalityType
<1> QED
  BY <1>2, <1>3

(* Every element has its place.                                            *)
LEMMA AscendingIs ==
  ASSUME NEW S \in SUBSET Nat, IsFiniteSet(S)
  PROVE  /\ Cardinality(S) \in Nat
         /\ IsAscending(Ascending(S), S)
         /\ \A x \in S : \E k \in 1..Cardinality(S) : Ascending(S)[k] = x
<1> DEFINE n == Cardinality(S)
           f == Ascending(S)
<1>1. n \in Nat
  BY FS_CardinalityType
<1>2. IsAscending(f, S)
  BY AscendingExists DEF Ascending, IsAscending
<1>3. f \in Injection(1..n, S)
  <2>1. ASSUME NEW j \in 1..n, NEW k \in 1..n, f[j] = f[k]
        PROVE  j = k
    <3>1. f[j] \in Nat /\ f[k] \in Nat
      BY <1>2 DEF IsAscending
    <3>2. ~(j < k) /\ ~(k < j)
      BY <1>2, <2>1, <3>1 DEF IsAscending
    <3> QED
      BY <1>1, <3>2
  <2> QED
    BY <1>2, <2>1 DEF IsAscending, Injection, IsInjective
<1>4. f \in Surjection(1..n, S)
  <2>1. Cardinality(1..n) = n
    BY <1>1, FS_Interval
  <2> QED
    BY <1>3, <2>1, FS_Injection
<1>5. \A x \in S : \E k \in 1..n : f[k] = x
  BY <1>4 DEF Surjection
<1> QED
  BY <1>1, <1>2, <1>5

-----------------------------------------------------------------------------
(* A list in order: its elements, each index used once and the smaller one *)
(* first.                                                                  *)
LEMMA InOrderIs ==
  ASSUME NEW X, NEW list \in Seq(X), NEW indices \in SUBSET DOMAIN list
  PROVE  /\ Cardinality(indices) \in Nat /\ IsFiniteSet(indices)
         /\ InOrder(list, indices) \in Seq(X)
         /\ Len(InOrder(list, indices)) = Cardinality(indices)
         /\ IsAscending(Ascending(indices), indices)
         /\ \A k \in 1..Cardinality(indices) :
              /\ Ascending(indices)[k] \in indices
              /\ InOrder(list, indices)[k] = list[Ascending(indices)[k]]
         /\ \A i \in indices : \E k \in 1..Cardinality(indices) :
              Ascending(indices)[k] = i
<1>1. Len(list) \in Nat /\ DOMAIN list = 1..Len(list)
      /\ \A i \in DOMAIN list : list[i] \in X
  BY LenProperties, ElementOfSeq
<1>2. indices \in SUBSET Nat /\ IsFiniteSet(indices)
  <2>1. IsFiniteSet(1..Len(list))
    BY <1>1, FS_Interval
  <2>2. IsFiniteSet(indices)
    BY <1>1, <2>1, FS_Subset
  <2> QED
    BY <1>1, <2>2
<1>3. /\ Cardinality(indices) \in Nat
      /\ IsAscending(Ascending(indices), indices)
      /\ \A i \in indices : \E k \in 1..Cardinality(indices) :
           Ascending(indices)[k] = i
  BY <1>2, AscendingIs
<1>4. \A k \in 1..Cardinality(indices) : Ascending(indices)[k] \in indices
  BY <1>3 DEF IsAscending
<1>5. InOrder(list, indices) \in [1..Cardinality(indices) -> X]
  BY <1>1, <1>4 DEF InOrder
<1>6. /\ InOrder(list, indices) \in Seq(X)
      /\ Len(InOrder(list, indices)) = Cardinality(indices)
  BY <1>3, <1>5, IsASeq, LenProperties
<1>7. \A k \in 1..Cardinality(indices) :
        InOrder(list, indices)[k] = list[Ascending(indices)[k]]
  BY DEF InOrder
<1> QED
  BY <1>2, <1>3, <1>4, <1>6, <1>7

LEMMA MinIs ==
  ASSUME NEW a \in Int, NEW b \in Int
  PROVE  Min({a, b}) = IF a <= b THEN a ELSE b
<1> DEFINE m == IF a <= b THEN a ELSE b
<1>1. m \in {a, b} /\ \A y \in {a, b} : m <= y
  OBVIOUS
<1>2. \A x \in {a, b} : (\A y \in {a, b} : x <= y) => x = m
  OBVIOUS
<1> QED
  BY <1>1, <1>2 DEF Min

(* As many as there are indices.                                           *)
LEMMA ManyDistinct ==
  ASSUME NEW n \in Nat, NEW f, DOMAIN f = 1..n,
         \A j, k \in 1..n : j # k => f[j] # f[k]
  PROVE  Cardinality(Range(f)) = n
<1> DEFINE S == Range(f)
           g == [k \in 1..n |-> f[k]]
<1>1. g \in Bijection(1..n, S)
  BY DEF Bijection, Injection, Surjection, IsInjective, Range
<1>2. ExistsBijection(1..n, S)
  BY <1>1 DEF ExistsBijection
<1> QED
  BY <1>2, FS_CountingElements, FS_NatBijection

-----------------------------------------------------------------------------
(* What pickDistinctModels makes of a list of names.                       *)
Others(models) == FirstOfName(models) \ FirstOfFamily(models)
Picked(models) ==
  InOrder(models, FirstOfFamily(models)) \o InOrder(models, Others(models))

LEMMA PickedIs ==
  ASSUME NEW X, NEW models \in Seq(X)
  PROVE  /\ FirstOfFamily(models) \in SUBSET DOMAIN models
         /\ Others(models) \in SUBSET DOMAIN models
         /\ Picked(models) \in Seq(X)
         /\ Len(Picked(models)) = Cardinality(FirstOfFamily(models))
                                    + Cardinality(Others(models))
         /\ \A k \in 1..Len(Picked(models)) :
              LET n == Cardinality(FirstOfFamily(models))
              IN  Picked(models)[k] =
                    IF k <= n THEN InOrder(models, FirstOfFamily(models))[k]
                    ELSE InOrder(models, Others(models))[k - n]
<1>1. /\ FirstOfFamily(models) \in SUBSET DOMAIN models
      /\ Others(models) \in SUBSET DOMAIN models
  BY DEF FirstOfFamily, FirstOfName, Others
<1> DEFINE A == InOrder(models, FirstOfFamily(models))
           B == InOrder(models, Others(models))
<1>2. /\ A \in Seq(X) /\ Len(A) = Cardinality(FirstOfFamily(models))
      /\ B \in Seq(X) /\ Len(B) = Cardinality(Others(models))
  BY <1>1, InOrderIs
<1> HIDE DEF A, B
<1>3. /\ A \o B \in Seq(X) /\ Len(A \o B) = Len(A) + Len(B)
      /\ \A k \in 1..Len(A \o B) :
           (A \o B)[k] = IF k <= Len(A) THEN A[k] ELSE B[k - Len(A)]
  BY <1>2, ConcatProperties
<1>4. Picked(models) = A \o B
  BY DEF A, B, Picked
<1> QED
  BY <1>1, <1>2, <1>3, <1>4 DEF A, B

(* The panel is where the picked models start.                             *)
LEMMA PanelIs ==
  ASSUME NEW X, NEW models \in Seq(X)
  PROVE  /\ PickDistinctModels(models) \in Seq(X)
         /\ Len(PickDistinctModels(models)) =
              IF PanelSize <= Len(Picked(models)) THEN PanelSize
              ELSE Len(Picked(models))
         /\ \A k \in 1..Len(PickDistinctModels(models)) :
              PickDistinctModels(models)[k] = Picked(models)[k]
<1> DEFINE p == Picked(models)
           m == Min({PanelSize, Len(p)})
<1>1. p \in Seq(X) /\ Len(p) \in Nat
  BY PickedIs, LenProperties
<1>2. PanelSize \in Nat \ {0}
  BY SelectionAssumption
<1>3. m = (IF PanelSize <= Len(p) THEN PanelSize ELSE Len(p))
  BY <1>1, <1>2, MinIs
<1>4. PickDistinctModels(models) = SubSeq(p, 1, m)
  BY DEF PickDistinctModels, Picked, Others
<1> HIDE DEF p, m
<1>5. m \in Nat /\ m <= Len(p)
  BY <1>1, <1>2, <1>3
<1>6. /\ SubSeq(p, 1, m) \in Seq(X) /\ Len(SubSeq(p, 1, m)) = m
      /\ \A k \in 1..m : SubSeq(p, 1, m)[k] = p[k]
  BY <1>1, <1>5, SubSeqProperties
<1> QED
  BY <1>3, <1>4, <1>6 DEF p

(* Each family has a first model, of which there is one.                   *)
LEMMA FamilyHasAFirst ==
  ASSUME NEW X, NEW models \in Seq(X), NEW i \in DOMAIN models
  PROVE  \E j \in FirstOfFamily(models) :
           j <= i /\ FamilyKey(models[j]) = FamilyKey(models[i])
<1> DEFINE T == {j \in DOMAIN models :
                   FamilyKey(models[j]) = FamilyKey(models[i])}
<1>1. DOMAIN models = 1..Len(models) /\ Len(models) \in Nat
  BY LenProperties
<1>2. T \in SUBSET Nat /\ T # {}
  BY <1>1
<1>3. PICK m \in T : \A k \in Nat : k < m => k \notin T
  BY <1>2, LeastCounterexample
<1>4. m <= i
  BY <1>1, <1>3
<1>5. ASSUME NEW k \in 1..(m - 1)
      PROVE  FamilyKey(models[k]) # FamilyKey(models[m])
  BY <1>1, <1>3
<1> QED
  BY <1>3, <1>4, <1>5 DEF FirstOfFamily

LEMMA FirstsDiffer ==
  ASSUME NEW X, NEW models \in Seq(X)
  PROVE  /\ \A i, j \in FirstOfFamily(models) :
              i # j => FamilyKey(models[i]) # FamilyKey(models[j])
         /\ \A i, j \in Others(models) : i # j => models[i] # models[j]
         /\ \A i \in FirstOfFamily(models), j \in Others(models) :
              models[i] # models[j]
<1>1. DOMAIN models = 1..Len(models) /\ Len(models) \in Nat
  BY LenProperties
<1>2. \A i, j \in FirstOfFamily(models) :
        i < j => FamilyKey(models[i]) # FamilyKey(models[j])
  BY <1>1 DEF FirstOfFamily
<1>3. \A i, j \in FirstOfName(models) : i < j => models[i] # models[j]
  BY <1>1 DEF FirstOfName
<1>4. ASSUME NEW i \in FirstOfFamily(models), NEW j \in Others(models),
             models[i] = models[j]
      PROVE  FALSE
  <2>1. i \in 1..Len(models) /\ j \in 1..Len(models)
    BY <1>1 DEF FirstOfFamily, FirstOfName, Others
  <2>2. j \notin FirstOfFamily(models)
    BY DEF Others
  <2>3. PICK k \in 1..(j - 1) : FamilyKey(models[k]) = FamilyKey(models[j])
    BY <1>1, <2>1, <2>2 DEF FirstOfFamily
  <2>4. PICK f \in FirstOfFamily(models) :
          f <= k /\ FamilyKey(models[f]) = FamilyKey(models[k])
    BY <1>1, <2>1, <2>3, FamilyHasAFirst
  <2>5. f = i
    BY <1>4, <2>3, <2>4, <1>1, <1>2 DEF FirstOfFamily
  <2>6. i < j
    BY <2>1, <2>3, <2>4, <2>5
  <2> QED
    BY <1>4, <2>1, <2>6 DEF FirstOfName, Others
<1>5. \A i, j \in FirstOfFamily(models) : i \in Int /\ j \in Int
  BY <1>1 DEF FirstOfFamily
<1>6. \A i, j \in Others(models) :
        /\ i \in Int /\ j \in Int
        /\ i \in FirstOfName(models) /\ j \in FirstOfName(models)
  BY <1>1 DEF Others, FirstOfName
<1> QED
  BY <1>2, <1>3, <1>4, <1>5, <1>6

(* What is picked is of the list.                                          *)
LEMMA PickedComeFromTheList ==
  ASSUME NEW X, NEW models \in Seq(X), NEW k \in 1..Len(Picked(models))
  PROVE  Picked(models)[k] \in ToSet(models)
<1>1. models \in Seq(ToSet(models))
  <2>1. models \in [1..Len(models) -> ToSet(models)] /\ Len(models) \in Nat
    BY LenProperties DEF ToSet
  <2> QED
    BY <2>1, IsASeq
<1>2. Picked(models) \in Seq(ToSet(models))
  BY <1>1, PickedIs
<1> QED
  BY <1>2, ElementOfSeq

(* No model is picked twice.                                               *)
LEMMA PickedOnce ==
  ASSUME NEW X, NEW models \in Seq(X),
         NEW j \in 1..Len(Picked(models)), NEW k \in 1..Len(Picked(models)),
         j < k
  PROVE  Picked(models)[j] # Picked(models)[k]
<1> DEFINE F == FirstOfFamily(models)
           O == Others(models)
           n == Cardinality(F)
<1>1. /\ F \in SUBSET DOMAIN models /\ O \in SUBSET DOMAIN models
      /\ Len(Picked(models)) = n + Cardinality(O)
      /\ \A l \in 1..Len(Picked(models)) :
           Picked(models)[l] = IF l <= n THEN InOrder(models, F)[l]
                               ELSE InOrder(models, O)[l - n]
  BY PickedIs
<1>2. /\ n \in Nat /\ IsAscending(Ascending(F), F)
      /\ \A l \in 1..n : /\ Ascending(F)[l] \in F
                         /\ InOrder(models, F)[l] = models[Ascending(F)[l]]
  BY <1>1, InOrderIs
<1>3. /\ Cardinality(O) \in Nat /\ IsAscending(Ascending(O), O)
      /\ \A l \in 1..Cardinality(O) :
           /\ Ascending(O)[l] \in O
           /\ InOrder(models, O)[l] = models[Ascending(O)[l]]
  BY <1>1, InOrderIs
<1>4. /\ \A i, l \in F : i # l => models[i] # models[l]
      /\ \A i, l \in O : i # l => models[i] # models[l]
      /\ \A i \in F, l \in O : models[i] # models[l]
  BY FirstsDiffer
<1>5. DOMAIN models \in SUBSET Nat
  BY LenProperties
<1> HIDE DEF F, O, n
<1>6. CASE k <= n
  <2>1. j \in 1..n /\ k \in 1..n
    BY <1>1, <1>2, <1>3, <1>6
  <2>2. /\ Ascending(F)[j] \in Nat /\ Ascending(F)[k] \in Nat
        /\ Ascending(F)[j] < Ascending(F)[k]
    BY <1>1, <1>2, <1>5, <2>1 DEF IsAscending, n
  <2>3. models[Ascending(F)[j]] # models[Ascending(F)[k]]
    BY <1>2, <1>4, <2>1, <2>2
  <2> QED
    BY <1>1, <1>2, <2>1, <2>3
<1>7. CASE j <= n /\ ~(k <= n)
  <2>1. j \in 1..n /\ k - n \in 1..Cardinality(O)
    BY <1>1, <1>2, <1>3, <1>7
  <2>2. Picked(models)[j] = models[Ascending(F)[j]]
    BY <1>1, <1>2, <1>7, <2>1
  <2>3. Picked(models)[k] = models[Ascending(O)[k - n]]
    BY <1>1, <1>3, <1>7, <2>1
  <2>4. Ascending(F)[j] \in F /\ Ascending(O)[k - n] \in O
    BY <1>2, <1>3, <2>1
  <2> QED
    BY <1>4, <2>2, <2>3, <2>4
<1>8. CASE ~(j <= n)
  <2>1. /\ j - n \in 1..Cardinality(O) /\ k - n \in 1..Cardinality(O)
        /\ j - n < k - n /\ ~(k <= n)
    BY <1>1, <1>2, <1>3, <1>8
  <2>2. /\ Ascending(O)[j - n] \in Nat /\ Ascending(O)[k - n] \in Nat
        /\ Ascending(O)[j - n] < Ascending(O)[k - n]
    BY <1>1, <1>3, <1>5, <2>1 DEF IsAscending
  <2>3. models[Ascending(O)[j - n]] # models[Ascending(O)[k - n]]
    BY <1>3, <1>4, <2>1, <2>2
  <2> QED
    BY <1>1, <1>3, <1>8, <2>1, <2>3
<1> QED
  BY <1>6, <1>7, <1>8, <1>2

-----------------------------------------------------------------------------
Families(names) == {FamilyKey(n) : n \in ToSet(names)}

(* pickDistinctModels seats no model twice, and as many families as the    *)
(* list and the size of the panel allow, whatever is listed and in         *)
(* whichever order; unless it finds too few models, upon which             *)
(* adjudicate() gives up.                                                  *)
THEOREM PickedPanelIsDiverse ==
  ASSUME NEW X, NEW models \in Seq(X),
         Len(PickDistinctModels(models)) = PanelSize
  PROVE  /\ Cardinality(ToSet(PickDistinctModels(models))) = PanelSize
         /\ Cardinality(Families(PickDistinctModels(models)))
              = Min({PanelSize, Cardinality(Families(models))})
<1> DEFINE p == PickDistinctModels(models)
           F == FirstOfFamily(models)
           n == Cardinality(F)
           first == [k \in 1..n |-> FamilyKey(models[Ascending(F)[k]])]
<1>1. PanelSize \in Nat \ {0}
  BY SelectionAssumption
<1>2. /\ p \in Seq(X) /\ DOMAIN p = 1..PanelSize
      /\ PanelSize <= Len(Picked(models)) /\ Len(Picked(models)) \in Nat
      /\ \A k \in 1..PanelSize : p[k] = Picked(models)[k]
  <2>1. Len(Picked(models)) \in Nat
    BY PickedIs, LenProperties
  <2>2. /\ p \in Seq(X)
        /\ Len(p) = IF PanelSize <= Len(Picked(models)) THEN PanelSize
                    ELSE Len(Picked(models))
        /\ \A k \in 1..Len(p) : p[k] = Picked(models)[k]
    BY PanelIs
  <2>3. DOMAIN p = 1..Len(p)
    BY <2>2, LenProperties
  <2> HIDE DEF p
  <2>4. Len(p) = PanelSize
    BY DEF p
  <2> QED
    BY <1>1, <2>1, <2>2, <2>3, <2>4
<1>3. /\ F \in SUBSET DOMAIN models /\ n \in Nat
      /\ \A k \in 1..n : Ascending(F)[k] \in F
      /\ \A i \in F : \E k \in 1..n : Ascending(F)[k] = i
      /\ \A j, k \in 1..n : j < k => Ascending(F)[j] < Ascending(F)[k]
  <2>1. F \in SUBSET DOMAIN models
    BY PickedIs
  <2> HIDE DEF F
  <2>2. /\ Cardinality(F) \in Nat /\ IsAscending(Ascending(F), F)
        /\ \A k \in 1..Cardinality(F) : Ascending(F)[k] \in F
        /\ \A i \in F : \E k \in 1..Cardinality(F) : Ascending(F)[k] = i
    BY <2>1, InOrderIs
  <2> QED
    BY <2>1, <2>2 DEF IsAscending
<1>4. \A k \in 1..PanelSize : k <= n => p[k] = models[Ascending(F)[k]]
  <2>1. \A k \in 1..Len(Picked(models)) :
          k <= n => Picked(models)[k] = InOrder(models, F)[k]
    BY PickedIs
  <2>2. \A k \in 1..n : InOrder(models, F)[k] = models[Ascending(F)[k]]
    BY <1>3, InOrderIs
  <2> HIDE DEF p, F, n
  <2> QED
    BY <1>1, <1>2, <1>3, <2>1, <2>2
<1>5. DOMAIN models = 1..Len(models) /\ Len(models) \in Nat
  BY LenProperties
<1>6. \A j, k \in 1..n : j # k => first[j] # first[k]
  <2> SUFFICES ASSUME NEW j \in 1..n, NEW k \in 1..n, j # k
               PROVE  first[j] # first[k]
    OBVIOUS
  <2>1. Ascending(F)[j] \in F /\ Ascending(F)[k] \in F
    BY <1>3
  <2>2. Ascending(F)[j] # Ascending(F)[k]
    BY <1>3, <1>5, <2>1
  <2> QED
    BY <2>1, <2>2, FirstsDiffer
<1>7. Families(models) = {first[k] : k \in 1..n}
  <2>1. ASSUME NEW i \in DOMAIN models
        PROVE  \E k \in 1..n : first[k] = FamilyKey(models[i])
    <3>1. PICK j \in F : FamilyKey(models[j]) = FamilyKey(models[i])
      BY FamilyHasAFirst
    <3>2. PICK k \in 1..n : Ascending(F)[k] = j
      BY <1>3
    <3> QED
      BY <3>1, <3>2
  <2>2. ASSUME NEW k \in 1..n
        PROVE  first[k] \in Families(models)
    <3>1. Ascending(F)[k] \in DOMAIN models
      BY <1>3
    <3> QED
      BY <3>1 DEF Families, ToSet
  <2>3. Families(models) \subseteq {first[k] : k \in 1..n}
    BY <2>1 DEF Families, ToSet
  <2> QED
    BY <2>2, <2>3
<1>8. Cardinality(Families(models)) = n
  <2> HIDE DEF first, n
  <2>1. DOMAIN first = 1..n /\ n \in Nat
    BY <1>3 DEF first
  <2>2. Cardinality(Range(first)) = n
    BY <1>6, <2>1, ManyDistinct
  <2>3. Families(models) = Range(first)
    BY <1>7, <2>1 DEF Range
  <2> QED
    BY <2>2, <2>3
<1> HIDE DEF p, F, n, first
<1>9. Cardinality(ToSet(p)) = PanelSize
  <2>1. \A j, k \in 1..PanelSize : j < k => p[j] # p[k]
    BY <1>1, <1>2, PickedOnce
  <2>2. \A j, k \in 1..PanelSize : j # k => p[j] # p[k]
    BY <1>1, <2>1
  <2>3. ToSet(p) = Range(p)
    BY DEF ToSet, Range
  <2>4. DOMAIN p = 1..PanelSize /\ PanelSize \in Nat
    BY <1>1, <1>2
  <2>5. Cardinality(Range(p)) = PanelSize
    BY <2>2, <2>4, ManyDistinct
  <2> QED
    BY <2>3, <2>5
<1>10. Families(p) = {FamilyKey(p[k]) : k \in 1..PanelSize}
  BY <1>2 DEF Families, ToSet
<1>11. \A k \in 1..PanelSize : k <= n => FamilyKey(p[k]) = first[k]
  BY <1>3, <1>4 DEF first
<1>12. CASE PanelSize <= n
  <2> DEFINE g == [k \in 1..PanelSize |-> first[k]]
  <2>1. \A k \in 1..PanelSize : k \in 1..n /\ g[k] = FamilyKey(p[k])
    BY <1>1, <1>3, <1>11, <1>12
  <2>2. \A j, k \in 1..PanelSize : j # k => g[j] # g[k]
    BY <1>6, <2>1
  <2>3. Families(p) = Range(g)
    BY <1>10, <2>1 DEF Range
  <2>4. DOMAIN g = 1..PanelSize
    OBVIOUS
  <2> HIDE DEF g
  <2>5. Cardinality(Families(p)) = PanelSize
    <3>1. Cardinality(Range(g)) = PanelSize
      BY <1>1, <2>2, <2>4, ManyDistinct
    <3> QED
      BY <2>3, <3>1
  <2> QED
    BY <1>1, <1>3, <1>8, <1>9, <1>12, <2>5, MinIs DEF p
<1>13. CASE ~(PanelSize <= n)
  <2>1. Families(models) \subseteq Families(p)
    <3> SUFFICES ASSUME NEW k \in 1..n
                 PROVE  first[k] \in Families(p)
      BY <1>7
    <3>1. k \in 1..PanelSize /\ k <= n
      BY <1>1, <1>3, <1>13
    <3> QED
      BY <1>10, <1>11, <3>1
  <2>2. Families(p) \subseteq Families(models)
    <3> SUFFICES ASSUME NEW k \in 1..PanelSize
                 PROVE  FamilyKey(p[k]) \in Families(models)
      BY <1>10
    <3>1. p[k] \in ToSet(models)
      BY <1>2, PickedComeFromTheList
    <3> QED
      BY <3>1 DEF Families
  <2>3. Cardinality(Families(p)) = n
    BY <1>8, <2>1, <2>2
  <2> QED
    BY <1>1, <1>3, <1>8, <1>9, <1>13, <2>3, MinIs DEF p
<1> QED
  BY <1>12, <1>13

-----------------------------------------------------------------------------
LEMMA InferenceOnlyIs ==
  ASSUME NEW services \in Seq(Services)
  PROVE  /\ InferenceOnly(services) \in Seq(Services)
         /\ \A s \in ToSet(services) :
              s.inference => \E k \in DOMAIN InferenceOnly(services) :
                               InferenceOnly(services)[k] = s
<1> DEFINE S == {i \in DOMAIN services : services[i].inference}
<1>1. /\ InOrder(services, S) \in Seq(Services)
      /\ Len(InOrder(services, S)) = Cardinality(S)
      /\ \A k \in 1..Cardinality(S) :
           InOrder(services, S)[k] = services[Ascending(S)[k]]
      /\ \A i \in S : \E k \in 1..Cardinality(S) : Ascending(S)[k] = i
  <2>1. S \in SUBSET DOMAIN services
    OBVIOUS
  <2> HIDE DEF S
  <2> QED
    BY <2>1, InOrderIs
<1>2. DOMAIN InOrder(services, S) = 1..Cardinality(S)
  BY <1>1, LenProperties
<1>3. InferenceOnly(services) = InOrder(services, S)
  BY DEF InferenceOnly
<1>4. ASSUME NEW i \in DOMAIN services, services[i].inference
      PROVE  \E k \in 1..Cardinality(S) : InOrder(services, S)[k] = services[i]
  <2>1. i \in S
    BY <1>4
  <2> HIDE DEF S
  <2> QED
    BY <1>1, <2>1
<1> HIDE DEF S
<1>5. ASSUME NEW s \in ToSet(services), s.inference
      PROVE  \E k \in DOMAIN InferenceOnly(services) :
               InferenceOnly(services)[k] = s
  <2>1. PICK i \in DOMAIN services : services[i] = s
    BY DEF ToSet
  <2> QED
    BY <1>2, <1>3, <1>4, <1>5, <2>1
<1> QED
  BY <1>1, <1>3, <1>5

LEMMA ModelNamesAre ==
  ASSUME NEW services \in Seq(Services)
  PROVE  ModelNames(services) \in Seq(Names)
<1> DEFINE inf == InferenceOnly(services)
<1>1. inf \in Seq(Services)
  BY InferenceOnlyIs
<1>2. /\ DOMAIN inf = 1..Len(inf) /\ Len(inf) \in Nat
      /\ \A k \in 1..Len(inf) : inf[k] \in Services
  BY <1>1, LenProperties, ElementOfSeq
<1>3. \A k \in DOMAIN inf : NameOf(inf[k]) \in Names
  BY <1>2 DEF NameOf, Services
<1>4. ModelNames(services) = [k \in DOMAIN inf |-> NameOf(inf[k])]
  BY DEF ModelNames
<1> HIDE DEF inf
<1>5. ModelNames(services) \in [1..Len(inf) -> Names]
  BY <1>2, <1>3, <1>4
<1> QED
  BY <1>2, <1>5, IsASeq

(* pickProviderByModel finds a service whose model is the one asked for, up*)
(* to case, wherever it stands in the list and whatever precedes it.       *)
THEOREM ListedModelIsFound ==
  ASSUME NEW services \in Seq(Services), NEW requested,
         \E k \in DOMAIN services :
           LowerCase(services[k].model) = LowerCase(requested)
  PROVE  \E k \in DOMAIN services :
           /\ PickProviderByModel(services, requested) = services[k]
           /\ LowerCase(services[k].model) = LowerCase(requested)
<1> DEFINE S == {i \in DOMAIN services :
                   LowerCase(services[i].model) = LowerCase(requested)}
           exact == OfModel(services, requested)
           family == OfFamily(services, requested)
<1>1. S \in SUBSET DOMAIN services /\ S # {}
  OBVIOUS
<1>2. /\ IsFiniteSet(S) /\ Cardinality(S) \in Nat
      /\ exact \in Seq(Services) /\ Len(exact) = Cardinality(S)
      /\ \A k \in 1..Cardinality(S) :
           Ascending(S)[k] \in S /\ exact[k] = services[Ascending(S)[k]]
  <2>1. exact = InOrder(services, S)
    BY DEF OfModel
  <2> HIDE DEF S, exact
  <2> QED
    BY <1>1, <2>1, InOrderIs
<1>3. Cardinality(S) # 0
  BY <1>1, <1>2, FS_EmptySet
<1>4. \E k \in DOMAIN services :
        /\ exact[1] = services[k]
        /\ LowerCase(services[k].model) = LowerCase(requested)
  <2>1. Ascending(S)[1] \in S /\ exact[1] = services[Ascending(S)[1]]
    BY <1>2, <1>3
  <2> QED
    BY <2>1
<1> DEFINE All == Services \cup {None}
<1>5. exact \in Seq(All) /\ Len(exact) \in Nat /\ Len(exact) # 0
  BY <1>2, <1>3, SeqMonotonic
<1>6. family \in Seq(All)
  <2> DEFINE F == {i \in DOMAIN services :
                     OgFamilyKey(services[i].model) = OgFamilyKey(requested)}
  <2>1. family = InOrder(services, F)
    BY DEF OfFamily
  <2>2. F \in SUBSET DOMAIN services
    OBVIOUS
  <2> HIDE DEF F
  <2>3. family \in Seq(Services)
    BY <2>1, <2>2, InOrderIs
  <2> QED
    BY <2>3, SeqMonotonic
<1>7. services \in Seq(All) /\ <<None>> \in Seq(All)
  <2>1. services \in Seq(All)
    BY SeqMonotonic
  <2>2. <<None>> \in [1..1 -> All]
    OBVIOUS
  <2> QED
    BY <2>1, <2>2, IsASeq
<1> HIDE DEF exact, family, All
<1>8. exact \o family \in Seq(All) /\ Len(exact \o family) # 0
      /\ (exact \o family)[1] = exact[1]
  <2>1. Len(family) \in Nat
    BY <1>6, LenProperties
  <2> QED
    BY <1>5, <1>6, <2>1, ConcatProperties
<1>9. /\ exact \o family \o services \in Seq(All)
      /\ Len(exact \o family \o services) # 0
      /\ (exact \o family \o services)[1] = exact[1]
  <2>1. Len(services) \in Nat /\ Len(exact \o family) \in Nat
    BY <1>7, <1>8, LenProperties
  <2> QED
    BY <1>7, <1>8, <2>1, ConcatProperties
<1> DEFINE list == exact \o family \o services \o <<None>>
<1>10. list[1] = exact[1]
  <2>1. Len(exact \o family \o services) \in Nat
    BY <1>9, LenProperties
  <2> QED
    BY <1>7, <1>9, <2>1, ConcatProperties
<1>11. PickProviderByModel(services, requested) = Head(list)
  BY DEF PickProviderByModel, exact, family
<1>12. Head(list) = list[1]
  OBVIOUS
<1> QED
  BY <1>4, <1>10, <1>11, <1>12

-----------------------------------------------------------------------------
(* 0G Compute.  The time a caller notes before its request precedes the    *)
(* listing it gets, and the catalogue is never older than it is said to be.*)
OgCalls ==
  [pc : Stages, model : Names \cup {None}, since : 0..MaxTime,
   listing : Snapshots \cup {None}]

CatalogIsAged ==
  \/ catalog = None
  \/ /\ catalog \in [fetchedAt : 0..MaxTime, snapshot : Snapshots]
     /\ catalog.fetchedAt <= catalog.snapshot.at
     /\ catalog.snapshot.at <= now

CallIsAged(c) ==
  /\ og[c].since <= now
  /\ og[c].pc = "Response" => /\ og[c].listing \in Snapshots
                              /\ og[c].since <= og[c].listing.at
                              /\ og[c].listing.at <= now
  /\ og[c].pc = "Listed" => og[c].listing \in Snapshots

OgInv ==
  /\ now \in 0..MaxTime /\ listed \in Listings
  /\ broker \in {"None", "Starting", "Up", "Failed"}
  /\ og \in [Callers -> OgCalls]
  /\ CatalogIsAged
  /\ \A c \in Callers : CallIsAged(c)

OgMoves ==
  \/ \E c \in Callers :
       \/ \E model \in Names \cup {None} : FetchCatalog(c, model)
       \/ ListingSteps(c) \/ LeavesOg(c)
  \/ BrokerSettles \/ Tick
  \/ UNCHANGED ogVars

LEMMA OgStarts ==
  ASSUME OgInit
  PROVE  OgInv
<1>1. 0 \in 0..MaxTime
  BY OgComputeAssumption
<1>2. OgIdle \in OgCalls
  BY <1>1 DEF OgIdle, OgCalls, Stages
<1> QED
  BY <1>1, <1>2 DEF OgInit, OgInv, CatalogIsAged, CallIsAged, OgIdle

(* What is left to show when one caller moves and time stands still.       *)
LEMMA CallerMoves ==
  ASSUME OgInv, NEW c \in Callers, NEW to \in OgCalls,
         og' = [og EXCEPT ![c] = to],
         now' = now, listed' = listed,
         broker' \in {"None", "Starting", "Up", "Failed"},
         to.since <= now,
         to.pc = "Response" => /\ to.listing \in Snapshots
                               /\ to.since <= to.listing.at
                               /\ to.listing.at <= now,
         to.pc = "Listed" => to.listing \in Snapshots,
         CatalogIsAged'
  PROVE  OgInv'
<1>1. og' \in [Callers -> OgCalls]
  BY DEF OgInv
<1>2. ASSUME NEW d \in Callers
      PROVE  CallIsAged(d)'
  <2>1. CASE d = c
    <3>1. og'[d] = to
      BY <2>1 DEF OgInv
    <3> QED
      BY <3>1 DEF CallIsAged
  <2>2. CASE d # c
    <3>1. og'[d] = og[d]
      BY <2>2 DEF OgInv
    <3>2. CallIsAged(d)
      BY DEF OgInv
    <3> QED
      BY <3>1, <3>2 DEF CallIsAged
  <2> QED
    BY <2>1, <2>2
<1> QED
  BY <1>1, <1>2 DEF OgInv

LEMMA OgPreserved ==
  ASSUME OgInv, OgMoves
  PROVE  OgInv'
<1>1. MaxTime \in Nat
  BY OgComputeAssumption
<1>2. ASSUME NEW c \in Callers
      PROVE  og[c] \in OgCalls /\ CallIsAged(c)
  BY DEF OgInv
<1>3. now \in 0..MaxTime /\ listed \in Listings /\ CatalogIsAged
      /\ broker \in {"None", "Starting", "Up", "Failed"}
      /\ og \in [Callers -> OgCalls]
  BY DEF OgInv
<1>4. ASSUME NEW c \in Callers, NEW model \in Names \cup {None},
             FromCatalog(c, model)
      PROVE  OgInv'
  <2> DEFINE to == [og[c] EXCEPT !.pc = "Listed", !.model = model,
                                 !.listing = catalog.snapshot]
  <2>1. catalog.snapshot \in Snapshots
    BY <1>3, <1>4 DEF FromCatalog, Fresh, CatalogIsAged
  <2>2. to \in OgCalls /\ to.since = og[c].since /\ to.pc = "Listed"
        /\ to.listing = catalog.snapshot
    BY <1>2, <2>1 DEF OgCalls, Stages
  <2>3. og' = [og EXCEPT ![c] = to] /\ UNCHANGED <<now, listed, broker, catalog>>
    BY <1>4 DEF FromCatalog
  <2>4. to.since <= now
    BY <1>2, <2>2 DEF CallIsAged
  <2>5. CatalogIsAged'
    BY <1>3, <2>3 DEF CatalogIsAged
  <2> HIDE DEF to
  <2> QED
    BY <1>3, <2>1, <2>2, <2>3, <2>4, <2>5, CallerMoves
<1>5. ASSUME NEW c \in Callers, NEW model \in Names \cup {None},
             AwaitBroker(c, model)
      PROVE  OgInv'
  <2> DEFINE to == [og[c] EXCEPT !.pc = "Broker", !.model = model,
                                 !.since = now]
  <2>1. to \in OgCalls /\ to.since = now /\ to.pc = "Broker"
    BY <1>2, <1>3 DEF OgCalls, Stages
  <2>2. /\ og' = [og EXCEPT ![c] = to] /\ UNCHANGED <<now, listed, catalog>>
        /\ broker' \in {"None", "Starting", "Up", "Failed"}
    BY <1>3, <1>5 DEF AwaitBroker
  <2>3. CatalogIsAged'
    BY <1>3, <2>2 DEF CatalogIsAged
  <2> HIDE DEF to
  <2>4. to.since <= now
    BY <1>1, <1>3, <2>1
  <2> QED
    BY <2>1, <2>2, <2>3, <2>4, CallerMoves
<1>6. ASSUME NEW c \in Callers, NEW stage \in {"Request", "Threw"},
             Goes(c, stage), UNCHANGED <<now, listed, broker, catalog>>
      PROVE  OgInv'
  <2> DEFINE to == [og[c] EXCEPT !.pc = stage]
  <2>1. to \in OgCalls /\ to.since = og[c].since /\ to.pc = stage
    BY <1>2 DEF OgCalls, Stages
  <2>2. og' = [og EXCEPT ![c] = to]
    BY <1>6 DEF Goes
  <2>3. CatalogIsAged'
    BY <1>3, <1>6 DEF CatalogIsAged
  <2>4. to.since <= now
    BY <1>2, <2>1 DEF CallIsAged
  <2> HIDE DEF to
  <2> QED
    BY <1>3, <1>6, <2>1, <2>2, <2>3, <2>4, CallerMoves
<1>7. ASSUME NEW c \in Callers, NetworkLists(c)
      PROVE  OgInv'
  <2> DEFINE listing == [services |-> listed, at |-> now]
             to == [og[c] EXCEPT !.pc = "Response", !.listing = listing]
  <2>1. listing \in Snapshots
    BY <1>3 DEF Snapshots
  <2>2. to \in OgCalls /\ to.since = og[c].since /\ to.pc = "Response"
        /\ to.listing = listing
    BY <1>2, <2>1 DEF OgCalls, Stages
  <2>3. og' = [og EXCEPT ![c] = to] /\ UNCHANGED <<now, listed, broker, catalog>>
    BY <1>3, <1>7 DEF NetworkLists
  <2>4. to.since <= now /\ listing.at = now /\ now <= now
    BY <1>1, <1>2, <1>3, <2>2 DEF CallIsAged
  <2>5. CatalogIsAged'
    BY <1>3, <2>3 DEF CatalogIsAged
  <2> HIDE DEF to, listing
  <2> QED
    BY <1>3, <2>1, <2>2, <2>3, <2>4, <2>5, CallerMoves
<1>8. ASSUME NEW c \in Callers, StoresCatalog(c)
      PROVE  OgInv'
  <2> DEFINE to == [og[c] EXCEPT !.pc = "Listed"]
  <2>1. /\ og[c].listing \in Snapshots /\ og[c].since <= og[c].listing.at
        /\ og[c].listing.at <= now /\ og[c].since \in 0..MaxTime
    BY <1>2, <1>8 DEF StoresCatalog, CallIsAged, OgCalls
  <2>2. to \in OgCalls /\ to.since = og[c].since /\ to.pc = "Listed"
        /\ to.listing = og[c].listing
    BY <1>2 DEF OgCalls, Stages
  <2>3. og' = [og EXCEPT ![c] = to] /\ UNCHANGED <<now, listed, broker>>
    BY <1>8 DEF StoresCatalog, Goes
  <2>4. catalog' = [fetchedAt |-> og[c].since, snapshot |-> og[c].listing]
    BY <1>8 DEF StoresCatalog, SinceRequest
  <2>5. CatalogIsAged'
    BY <2>1, <2>3, <2>4 DEF CatalogIsAged
  <2>6. to.since <= now
    BY <1>2, <2>2 DEF CallIsAged
  <2> HIDE DEF to
  <2> QED
    BY <1>3, <2>1, <2>2, <2>3, <2>5, <2>6, CallerMoves
<1>9. ASSUME NEW c \in Callers, LeavesOg(c)
      PROVE  OgInv'
  <2>1. OgIdle \in OgCalls /\ OgIdle.since = 0 /\ OgIdle.pc = "Idle"
    BY <1>1 DEF OgIdle, OgCalls, Stages
  <2>2. og' = [og EXCEPT ![c] = OgIdle]
        /\ UNCHANGED <<now, listed, broker, catalog>>
    BY <1>9 DEF LeavesOg
  <2>3. CatalogIsAged'
    BY <1>3, <2>2 DEF CatalogIsAged
  <2>4. OgIdle.since <= now
    BY <1>1, <1>3, <2>1
  <2> QED
    BY <1>3, <2>1, <2>2, <2>3, <2>4, CallerMoves
<1>10. CASE BrokerSettles
  BY <1>10 DEF BrokerSettles, OgInv, CatalogIsAged, CallIsAged
<1>11. CASE Tick
  <2>1. /\ now' \in 0..MaxTime /\ now <= now' /\ listed' \in Listings
        /\ UNCHANGED <<broker, catalog, og>>
    BY <1>1, <1>3, <1>11 DEF Tick
  <2>2. CatalogIsAged'
    BY <1>1, <1>3, <2>1 DEF CatalogIsAged, Snapshots
  <2>3. ASSUME NEW c \in Callers
        PROVE  CallIsAged(c)'
    BY <1>1, <1>2, <1>3, <2>1 DEF CallIsAged, OgCalls, Snapshots
  <2> QED
    BY <1>3, <2>1, <2>2, <2>3 DEF OgInv
<1>12. CASE UNCHANGED ogVars
  BY <1>12 DEF ogVars, OgInv, CatalogIsAged, CallIsAged
<1> QED
  BY <1>4, <1>5, <1>6, <1>7, <1>8, <1>9, <1>10, <1>11, <1>12
     DEF OgMoves, FetchCatalog, ListingSteps, CallsListService, CatalogFails

(* A fresh catalogue was compiled after the time it is counted from.       *)
LEMMA OgImplies ==
  ASSUME OgInv
  PROVE  CachedListingIsYoung
BY OgComputeAssumption
   DEF OgInv, CachedListingIsYoung, Fresh, CatalogIsAged, Snapshots

-----------------------------------------------------------------------------
(* Fixtures.  From the time a call knows its answer until it returns, the  *)
(* answer is to its question; so is whatever it reads in a file, which     *)
(* others may truncate meanwhile.                                          *)
ReplayCalls ==
  [pc : CallStages, question : Questions \cup {None},
   result : Recordings \cup {None}]

CallIsFaithful(c) ==
  /\ call[c].pc \in {"Read", "Inner", "Open", "Write", "Returned"} =>
       call[c].question \in Questions
  /\ call[c].pc = "Read" => call[c].question \in DOMAIN fixtures
  /\ call[c].pc \in {"Open", "Write", "Returned"} =>
       /\ call[c].result \in Recordings
       /\ call[c].result.to = call[c].question

ReplayInv ==
  /\ IsDirectory(fixtures) /\ Faithful(fixtures)
  /\ call \in [Callers -> ReplayCalls]
  /\ \A c \in Callers : CallIsFaithful(c)

Ending(c) == Ends(c) /\ UNCHANGED fixtures

ReplayMoves ==
  \/ \E c \in Callers :
       \/ \E q \in Questions :
            StubAnswers(c, q) \/ \E frozen \in BOOLEAN : LooksUp(c, q, frozen)
       \/ ReplaySteps(c) \/ Ending(c)
  \/ UNCHANGED replayVars

(* What is left to show when one call moves on.                            *)
LEMMA CallMoves ==
  ASSUME ReplayInv, NEW c \in Callers, NEW to \in ReplayCalls,
         call' = [call EXCEPT ![c] = to],
         IsDirectory(fixtures'), Faithful(fixtures'),
         DOMAIN fixtures \subseteq DOMAIN fixtures',
         to.pc \in {"Read", "Inner", "Open", "Write", "Returned"} =>
           to.question \in Questions,
         to.pc = "Read" => to.question \in DOMAIN fixtures',
         to.pc \in {"Open", "Write", "Returned"} =>
           to.result \in Recordings /\ to.result.to = to.question
  PROVE  ReplayInv'
<1>1. call' \in [Callers -> ReplayCalls]
  BY DEF ReplayInv
<1>2. ASSUME NEW d \in Callers
      PROVE  CallIsFaithful(d)'
  <2>1. CASE d = c
    <3>1. call'[d] = to
      BY <2>1 DEF ReplayInv
    <3> QED
      BY <3>1 DEF CallIsFaithful
  <2>2. CASE d # c
    <3>1. call'[d] = call[d] /\ CallIsFaithful(d)
      BY <2>2 DEF ReplayInv
    <3> QED
      BY <3>1 DEF CallIsFaithful
  <2> QED
    BY <2>1, <2>2
<1> QED
  BY <1>1, <1>2 DEF ReplayInv

(* A recording is either the answer to the question it is filed under, or  *)
(* a truncated one.                                                        *)
LEMMA RecordIsFaithful ==
  ASSUME ReplayInv, NEW c \in Callers, NEW content \in Recordings,
         call[c].question \in Questions,
         content = Truncated \/ content.to = call[c].question,
         Record(c, content)
  PROVE  /\ IsDirectory(fixtures') /\ Faithful(fixtures')
         /\ DOMAIN fixtures \subseteq DOMAIN fixtures'
<1> DEFINE key == call[c].question
<1>1. fixtures' = [q \in DOMAIN fixtures \cup {key} |->
                     IF q = key THEN content ELSE fixtures[q]]
  BY DEF Record, ComputeFixtureKey
<1>2. IsDirectory(fixtures) /\ Faithful(fixtures)
  BY DEF ReplayInv
<1> HIDE DEF key
<1> QED
  BY <1>1, <1>2 DEF IsDirectory, Faithful, key

LEMMA ReplayPreserved ==
  ASSUME ReplayInv, ReplayMoves
  PROVE  ReplayInv'
<1>1. IsDirectory(fixtures) /\ Faithful(fixtures)
      /\ call \in [Callers -> ReplayCalls]
  BY DEF ReplayInv
<1>2. ASSUME NEW c \in Callers
      PROVE  call[c] \in ReplayCalls /\ CallIsFaithful(c)
  BY DEF ReplayInv
<1>3. ASSUME NEW c \in Callers, NEW q \in Questions, NEW frozen \in BOOLEAN,
             LooksUp(c, q, frozen)
      PROVE  ReplayInv'
  <2> DEFINE stage == IF q \in DOMAIN fixtures THEN "Read"
                      ELSE IF frozen THEN "Threw" ELSE "Inner"
             to == [call[c] EXCEPT !.question = q, !.pc = stage]
  <2>1. /\ to \in ReplayCalls /\ to.question = q /\ to.pc = stage
        /\ stage \in {"Read", "Threw", "Inner"}
    BY <1>2 DEF ReplayCalls, CallStages
  <2>2. call' = [call EXCEPT ![c] = to] /\ fixtures' = fixtures
    BY <1>3 DEF LooksUp, ComputeFixtureKey
  <2>3. stage = "Read" => q \in DOMAIN fixtures
    OBVIOUS
  <2> HIDE DEF to, stage
  <2> QED
    BY <1>1, <2>1, <2>2, <2>3, CallMoves
<1>4. ASSUME NEW c \in Callers, NEW q \in Questions, StubAnswers(c, q)
      PROVE  ReplayInv'
  <2> DEFINE answer == [says |-> StubAnswer[q], to |-> q]
             to == [pc |-> "Returned", question |-> q, result |-> answer]
  <2>1. answer \in Recordings
    BY ReplayAssumption DEF Recordings
  <2>2. /\ to \in ReplayCalls /\ to.question = q /\ to.pc = "Returned"
        /\ to.result = answer /\ answer.to = q
    BY <2>1 DEF ReplayCalls, CallStages
  <2>3. call' = [call EXCEPT ![c] = to] /\ fixtures' = fixtures
    BY <1>4 DEF StubAnswers
  <2> HIDE DEF to, answer
  <2> QED
    BY <1>1, <2>1, <2>2, <2>3, CallMoves
<1>5. ASSUME NEW c \in Callers, NEW stage \in {"Threw", "Over"}, NEW result,
             result = call[c].result \/ result = None,
             NEW question, question = call[c].question \/ question = None,
             call' = [call EXCEPT ![c] = [pc |-> stage, question |-> question,
                                          result |-> result]],
             fixtures' = fixtures
      PROVE  ReplayInv'
  <2> DEFINE to == [pc |-> stage, question |-> question, result |-> result]
  <2>1. to \in ReplayCalls /\ to.pc = stage
    BY <1>2, <1>5 DEF ReplayCalls, CallStages
  <2> HIDE DEF to
  <2>2. call' = [call EXCEPT ![c] = to]
    BY <1>5 DEF to
  <2> QED
    BY <1>1, <1>5, <2>1, <2>2, CallMoves
<1>7. ASSUME NEW c \in Callers, CallGoes(c, "Threw"), fixtures' = fixtures
      PROVE  ReplayInv'
  <2>1. call' = [call EXCEPT ![c] =
                   [pc |-> "Threw", question |-> call[c].question,
                    result |-> call[c].result]]
    <3>1. [call[c] EXCEPT !.pc = "Threw"] =
            [pc |-> "Threw", question |-> call[c].question,
             result |-> call[c].result]
      BY <1>2 DEF ReplayCalls
    <3> QED
      BY <1>7, <3>1 DEF CallGoes
  <2> QED
    BY <1>5, <1>7, <2>1
<1>8. ASSUME NEW c \in Callers, Reads(c)
      PROVE  ReplayInv'
  <2> DEFINE q == call[c].question
  <2>1. q \in DOMAIN fixtures /\ q \in Questions /\ FixtureOf(c) = fixtures[q]
    BY <1>2, <1>8 DEF Reads, CallIsFaithful, FixtureOf, ComputeFixtureKey
  <2>2. CASE FixtureOf(c) = Truncated
    BY <1>7, <1>8, <2>2 DEF Reads
  <2>3. CASE FixtureOf(c) # Truncated
    <3> DEFINE to == [call[c] EXCEPT !.pc = "Returned", !.result = fixtures[q]]
    <3>1. fixtures[q] \in Recordings /\ fixtures[q].to = q
      BY <1>1, <2>1, <2>3 DEF IsDirectory, Faithful
    <3>2. /\ to \in ReplayCalls /\ to.question = q /\ to.pc = "Returned"
          /\ to.result = fixtures[q]
      BY <1>2, <3>1 DEF ReplayCalls, CallStages
    <3>3. call' = [call EXCEPT ![c] = to] /\ fixtures' = fixtures
      BY <1>8, <2>1, <2>3 DEF Reads, Returns
    <3> HIDE DEF to, q
    <3> QED
      BY <1>1, <2>1, <3>1, <3>2, <3>3, CallMoves
  <2> QED
    BY <2>2, <2>3
<1>9. ASSUME NEW c \in Callers, InnerAnswers(c)
      PROVE  ReplayInv'
  <2> DEFINE q == call[c].question
  <2>1. q \in Questions
    BY <1>2, <1>9 DEF InnerAnswers, CallIsFaithful
  <2>2. PICK answer \in Replies(c, q) :
          call' = [call EXCEPT ![c].pc = "Open", ![c].result = answer]
    BY <1>9 DEF InnerAnswers
  <2>3. answer \in Recordings /\ answer.to = q
    BY <2>1, <2>2 DEF Replies, Reply, Recordings
  <2> DEFINE to == [call[c] EXCEPT !.pc = "Open", !.result = answer]
  <2>4. /\ to \in ReplayCalls /\ to.question = q /\ to.pc = "Open"
        /\ to.result = answer
    BY <1>2, <2>3 DEF ReplayCalls, CallStages
  <2>5. call' = [call EXCEPT ![c] = to]
    BY <2>2
  <2>6. fixtures' = fixtures
    BY <1>9 DEF InnerAnswers
  <2> HIDE DEF to, q
  <2> QED
    BY <1>1, <2>1, <2>3, <2>4, <2>5, <2>6, CallMoves
<1>10. ASSUME NEW c \in Callers, NEW stage \in {"Write", "Returned"},
              call[c].pc \in {"Open", "Write"}, CallGoes(c, stage),
              \/ Record(c, Truncated)
              \/ Record(c, call[c].result)
       PROVE  ReplayInv'
  <2> DEFINE to == [call[c] EXCEPT !.pc = stage]
  <2>1. /\ call[c].question \in Questions /\ call[c].result \in Recordings
        /\ call[c].result.to = call[c].question
    BY <1>2, <1>10 DEF CallIsFaithful
  <2>2. /\ to \in ReplayCalls /\ to.question = call[c].question
        /\ to.result = call[c].result /\ to.pc = stage
    BY <1>2 DEF ReplayCalls, CallStages
  <2>3. call' = [call EXCEPT ![c] = to]
    BY <1>10 DEF CallGoes
  <2>4. Truncated \in Recordings
    BY DEF Recordings
  <2>5. /\ IsDirectory(fixtures') /\ Faithful(fixtures')
        /\ DOMAIN fixtures \subseteq DOMAIN fixtures'
    BY <1>10, <2>1, <2>4, RecordIsFaithful
  <2> HIDE DEF to
  <2> QED
    BY <2>1, <2>2, <2>3, <2>5, CallMoves
<1>11. ASSUME NEW c \in Callers, WriteFails(c)
       PROVE  ReplayInv'
  <2> DEFINE to == [call[c] EXCEPT !.pc = "Threw", !.result = None]
  <2>1. to \in ReplayCalls /\ to.pc = "Threw"
    BY <1>2 DEF ReplayCalls, CallStages
  <2>2. call' = [call EXCEPT ![c] = to] /\ fixtures' = fixtures
    BY <1>1, <1>11 DEF WriteFails
  <2> HIDE DEF to
  <2> QED
    BY <1>1, <2>1, <2>2, CallMoves
<1>12. ASSUME NEW c \in Callers, Ending(c)
       PROVE  ReplayInv'
  <2>1. CallOver = [pc |-> "Over", question |-> None, result |-> None]
    BY DEF CallOver, CallIdle
  <2> QED
    BY <1>5, <1>12, <2>1 DEF Ending, Ends
<1>13. CASE UNCHANGED replayVars
  BY <1>13 DEF replayVars, ReplayInv, CallIsFaithful
<1>14. ASSUME NEW c \in Callers, ReplaySteps(c)
       PROVE  ReplayInv'
  <2>1. CASE AsksInner(c)
    BY <1>13, <2>1 DEF AsksInner
  <2>2. CASE InnerThrows(c)
    BY <1>7, <2>2 DEF InnerThrows
  <2>3. CASE Opens(c)
    BY <1>10, <2>3 DEF Opens
  <2>4. CASE Writes(c)
    BY <1>10, <2>4 DEF Writes
  <2> QED
    BY <1>8, <1>9, <1>11, <1>14, <2>1, <2>2, <2>3, <2>4 DEF ReplaySteps
<1> QED
  BY <1>3, <1>4, <1>12, <1>13, <1>14 DEF ReplayMoves

(* A truncated file is an answer to nothing.                               *)
LEMMA ReplayImplies ==
  ASSUME ReplayInv
  PROVE  ReplayIsFaithful /\ ReplayTypeOK
<1>1. ASSUME NEW c \in Callers, call[c].pc = "Returned"
      PROVE  call[c].result # Truncated /\ call[c].result.to = call[c].question
  <2>1. /\ call[c].question \in Questions
        /\ call[c].result.to = call[c].question
    BY <1>1 DEF ReplayInv, CallIsFaithful
  <2>2. Truncated.to = None
    BY DEF Truncated
  <2> QED
    BY <2>1, <2>2, ReplayAssumption
<1> QED
  BY <1>1 DEF ReplayInv, ReplayIsFaithful, ReplayTypeOK, ReplayCalls

-----------------------------------------------------------------------------
(* Bundles.  The payload is stored before its companion.                   *)
StorageInv ==
  /\ StorageTypeOK
  /\ \A b \in Bundles : /\ put[b] = "Content" => "content" \in parts[b]
                        /\ put[b] = "Stored" => Gets(b)

LEMMA StorageStarts ==
  ASSUME StorageInit
  PROVE  StorageInv
BY DEF StorageInit, StorageInv, StorageTypeOK

LEMMA PutPreserves ==
  ASSUME StorageInv, NEW b \in Bundles, NEW adapter, Put(b, adapter)
  PROVE  /\ StorageInv'
         /\ \A d \in Bundles : d # b => put'[d] = put[d]
<1>1. /\ parts \in [Bundles -> SUBSET {"content", "readers"}]
      /\ put \in [Bundles -> {"Idle", "Content", "Stored", "Failed"}]
      /\ \A d \in Bundles : /\ put[d] = "Content" => "content" \in parts[d]
                            /\ put[d] = "Stored" => Gets(d)
  BY DEF StorageInv, StorageTypeOK
<1>2. ASSUME NEW part \in SUBSET {"content", "readers"},
             NEW stage \in {"Content", "Stored", "Failed"},
             parts' = [parts EXCEPT ![b] = @ \cup part],
             put' = [put EXCEPT ![b] = stage],
             stage = "Content" => "content" \in part,
             stage = "Stored" => {"content", "readers"} = parts[b] \cup part
      PROVE  /\ StorageInv'
             /\ \A d \in Bundles : d # b => put'[d] = put[d]
  <2>1. /\ parts' \in [Bundles -> SUBSET {"content", "readers"}]
        /\ put' \in [Bundles -> {"Idle", "Content", "Stored", "Failed"}]
    BY <1>1, <1>2
  <2>2. parts'[b] = parts[b] \cup part /\ put'[b] = stage
    BY <1>1, <1>2
  <2>3. \A d \in Bundles : d # b => parts'[d] = parts[d] /\ put'[d] = put[d]
    BY <1>1, <1>2
  <2>4. ASSUME NEW d \in Bundles
        PROVE  /\ put'[d] = "Content" => "content" \in parts'[d]
               /\ put'[d] = "Stored" => Gets(d)'
    BY <1>1, <1>2, <2>2, <2>3 DEF Gets
  <2> QED
    BY <2>1, <2>3, <2>4 DEF StorageInv, StorageTypeOK
<1>3. CASE PutsInMemory(b)
  <2>1. {"content", "readers"} = parts[b] \cup {"content", "readers"}
    BY <1>1
  <2> QED
    BY <1>2, <1>3, <2>1 DEF PutsInMemory, Stored, PutGoes
<1>4. CASE PutsContent(b)
  BY <1>2, <1>4 DEF PutsContent, Stored, PutGoes
<1>5. CASE PutsReaders(b)
  <2>1. {"content", "readers"} = parts[b] \cup {"readers"}
    BY <1>1, <1>5 DEF PutsReaders
  <2> QED
    BY <1>2, <1>5, <2>1 DEF PutsReaders, Stored, PutGoes
<1>6. CASE UploadFails(b) \/ IndexerFails(b)
  <2>1. parts' = [parts EXCEPT ![b] = @ \cup {}]
    BY <1>1, <1>6 DEF UploadFails, IndexerFails
  <2>2. put' = [put EXCEPT ![b] = "Failed"]
    BY <1>6 DEF UploadFails, IndexerFails, PutGoes, Thrown
  <2> QED
    BY <1>2, <2>1, <2>2
<1> QED
  BY <1>3, <1>4, <1>5, <1>6 DEF Put

-----------------------------------------------------------------------------
(* adjudicate().  Once its panel is asked there is a full one, once it is  *)
(* through every panelist has a verdict, and the verdict is reported, and  *)
(* reputations written, when its bundle is stored.                         *)
Asked(a) == phase[a] \notin {"Idle", "Models", "Failed"}

Along(a) ==
  /\ phase[a] # "Idle" => a \in DOMAIN setting.disputeOf
  /\ Asked(a) => /\ chosen[a] \in Listings \cup {StubFamilies}
                 /\ Len(Panel(a)) = PanelSize
  /\ phase[a] \in {"Bundle", "Reputation", "Done"} => Complete(a)
  /\ phase[a] \in {"Reputation", "Done"} => put[a] = "Stored"

PortInv ==
  /\ setting \in Settings
  /\ phase \in [Adjudications -> Phases]
  /\ chosen \in [Adjudications -> Listings \cup {StubFamilies, None}]
  /\ verdicts \in [Adjudications -> [Seats -> PanelistVerdicts \cup {None}]]
  /\ \A a \in Adjudications : Along(a)

(* A panelist is asked by the name of a model.                             *)
LEMMA QuestionIs ==
  ASSUME PortInv, NEW a \in Adjudications, Asked(a), NEW i \in Seats
  PROVE  Question(a, i) \in Questions
<1>1. /\ chosen[a] \in Seq(Services) /\ Len(Panel(a)) = PanelSize
      /\ a \in DOMAIN setting.disputeOf /\ setting \in Settings
  BY OgComputeAssumption, AdaptersAssumption DEF PortInv, Along, Asked
<1>2. Panel(a) \in Seq(Names)
  BY <1>1, ModelNamesAre, PanelIs DEF Panel
<1>3. Panel(a)[i] \in Names
  BY <1>1, <1>2, ElementOfSeq DEF Seats
<1> QED
  BY <1>1, <1>3, QuestionsAssumption DEF Question, DisputeOf

LEMMA ItsCalls ==
  ASSUME NEW a \in Adjudications
  PROVE  /\ Listing(a) \in Callers /\ a \in Bundles
         /\ \A i \in Seats : Panelist(a, i) \in Callers
         /\ \A party \in Parties : Write(a, party) \in Writers
BY CallsAssumption, SelectionAssumption
   DEF Listing, Panelist, Seats, Write

(* What a step does to the calls of the inference adapters.                *)
LEMMA NextMoves ==
  ASSUME ReplayInv, PortInv, Next
  PROVE  OgMoves /\ ReplayMoves
<1>1. ASSUME NEW a \in Adjudications, ListsModels(a)
      PROVE  OgMoves /\ ReplayMoves
  BY <1>1, ItsCalls DEF ListsModels, OgMoves, ReplayMoves
<1>2. ASSUME NEW a \in Adjudications, PicksPanel(a) \/ ListingThrows(a)
      PROVE  OgMoves /\ ReplayMoves
  BY <1>2, ItsCalls
     DEF PicksPanel, Chooses, ListingThrows, OgMoves, ReplayMoves
<1>3. ASSUME NEW a \in Adjudications, NEW i \in Seats, Asks(a, i)
      PROVE  OgMoves /\ ReplayMoves
  <2>1. Question(a, i) \in Questions /\ Panelist(a, i) \in Callers
    BY <1>3, QuestionIs, ItsCalls DEF Asks, Asked
  <2>2. (wiring.inference = "FrozenReplay") \in BOOLEAN
    OBVIOUS
  <2>3. \/ StubAnswers(Panelist(a, i), Question(a, i))
        \/ LooksUp(Panelist(a, i), Question(a, i),
                   wiring.inference = "FrozenReplay")
    BY <1>3 DEF Asks
  <2>4. ReplayMoves
    BY <2>1, <2>2, <2>3 DEF ReplayMoves
  <2>5. UNCHANGED ogVars
    BY <2>3 DEF StubAnswers, LooksUp
  <2> QED
    BY <2>4, <2>5 DEF OgMoves
<1>4. ASSUME NEW a \in Adjudications, NEW i \in Seats,
             TakesAnswer(a, i) \/ TakesError(a, i) \/ ComesLate(a, i)
      PROVE  OgMoves /\ ReplayMoves
  BY <1>4, ItsCalls
     DEF TakesAnswer, TakesError, ComesLate, Concludes, Ending, OgMoves,
         ReplayMoves
<1>5. ASSUME NEW a \in Adjudications, NEW i \in Seats, TimesOut(a, i)
      PROVE  OgMoves /\ ReplayMoves
  BY <1>5 DEF TimesOut, Concludes, OgMoves, ReplayMoves, replayVars
<1>6. ASSUME NEW c \in Callers, CallProceeds(c)
      PROVE  OgMoves /\ ReplayMoves
  <2>1. ReplayMoves
    BY <1>6 DEF CallProceeds, ReplayMoves
  <2>2. CASE AsksInner(c)
    <3>1. call[c].question.model \in Names \cup {None}
      BY <2>2, ReplayAssumption DEF AsksInner, ReplayInv, CallIsFaithful
    <3> QED
      BY <2>1, <2>2, <3>1 DEF AsksInner, OgMoves
  <2>3. CASE InnerAnswers(c) \/ InnerThrows(c)
    BY <2>1, <2>3 DEF InnerAnswers, InnerThrows, OgMoves
  <2>4. CASE Reads(c) \/ Opens(c) \/ Writes(c) \/ WriteFails(c)
    BY <2>1, <2>4 DEF Reads, Opens, Writes, WriteFails, OgMoves
  <2> QED
    BY <1>6, <2>2, <2>3, <2>4 DEF CallProceeds, ReplaySteps
<1>7. CASE Outside
  BY <1>7 DEF Outside, OgMoves, ReplayMoves
<1>8. ASSUME NEW a \in Adjudications,
             \/ Begin(a) \/ StoresEvidence(a) \/ PanelDone(a)
             \/ StoresVerdict(a) \/ VerdictSettled(a) \/ Finishes(a)
             \/ \E party \in Parties : WritesReputation(a, party)
      PROVE  OgMoves /\ ReplayMoves
  BY <1>8 DEF Begin, StoresEvidence, PanelDone, StoresVerdict, VerdictSettled,
              Finishes, WritesReputation, OgMoves, ReplayMoves
<1> QED
  BY <1>1, <1>2, <1>3, <1>4, <1>5, <1>6, <1>7, <1>8
     DEF Next, Adjudicates, Panelists

-----------------------------------------------------------------------------
VerdictsStand ==
  \A a \in Adjudications : Complete(a) => verdicts'[a] = verdicts[a]

(* What is left to show when adjudicate() goes from one step to the next.  *)
LEMMA PhaseMoves ==
  ASSUME PortInv, NEW a \in Adjudications, NEW to \in Phases, Goto(a, to),
         UNCHANGED <<setting, chosen, verdicts, put>>,
         a \in DOMAIN setting.disputeOf,
         to \notin {"Idle", "Models", "Failed"} => Asked(a),
         to \in {"Bundle", "Reputation", "Done"} => Complete(a),
         to \in {"Reputation", "Done"} => put[a] = "Stored"
  PROVE  PortInv'
<1>1. phase \in [Adjudications -> Phases] /\ \A b \in Adjudications : Along(b)
  BY DEF PortInv
<1>2. phase' = [phase EXCEPT ![a] = to]
  BY DEF Goto
<1>3. ASSUME NEW b \in Adjudications
      PROVE  Along(b)'
  <2>1. Panel(b)' = Panel(b) /\ Complete(b)' = Complete(b)
    BY DEF Panel, Complete
  <2>2. CASE b = a
    BY <1>1, <1>2, <2>1, <2>2 DEF Along, Asked
  <2>3. CASE b # a
    BY <1>1, <1>2, <2>1, <2>3 DEF Along, Asked
  <2> QED
    BY <2>2, <2>3
<1> QED
  BY <1>1, <1>2, <1>3 DEF PortInv

LEMMA PortPreserved ==
  ASSUME OgInv, ReplayInv, StorageInv, PortInv, [Next]_vars
  PROVE  PortInv' /\ StorageInv' /\ VerdictsStand /\ setting' = setting
<1>1. /\ phase \in [Adjudications -> Phases]
      /\ verdicts \in [Adjudications -> [Seats -> PanelistVerdicts \cup {None}]]
      /\ chosen \in [Adjudications -> Listings \cup {StubFamilies, None}]
      /\ setting \in Settings
      /\ \A a \in Adjudications : Along(a)
  BY DEF PortInv
<1>2. UNCHANGED storageVars => StorageInv'
  BY DEF storageVars, StorageInv, StorageTypeOK, Gets
<1>3. UNCHANGED verdicts => VerdictsStand
  BY DEF VerdictsStand
<1> DEFINE Goal == PortInv' /\ StorageInv' /\ VerdictsStand /\ setting' = setting
<1>4. ASSUME UNCHANGED <<storageVars, portVars>>
      PROVE  Goal
  BY <1>2, <1>3, <1>4
     DEF storageVars, portVars, PortInv, Along, Asked, Panel, Complete
<1>5. ASSUME NEW a \in Adjudications, Begin(a)
      PROVE  Goal
  <2>1. "Models" \in Phases
    BY DEF Phases
  <2> QED
    BY <1>2, <1>3, <1>5, <2>1, PhaseMoves DEF Begin, storageVars
<1>6. ASSUME NEW a \in Adjudications, NEW services \in Seq(Services),
             services \in Listings \cup {StubFamilies},
             phase[a] = "Models", Chooses(a, services)
      PROVE  Goal
  <2> DEFINE to == IF Len(PickDistinctModels(ModelNames(services)))
                        = PanelSize
                   THEN "Evidence" ELSE "Failed"
  <2>1. /\ chosen' = [chosen EXCEPT ![a] = services]
        /\ phase' = [phase EXCEPT ![a] = to]
        /\ UNCHANGED <<storageVars, setting, verdicts>>
    BY <1>6 DEF Chooses, Goto
  <2>2. to \in Phases /\ to \notin {"Bundle", "Reputation", "Done"}
    BY DEF Phases
  <2>3. to # "Failed" => Len(PickDistinctModels(ModelNames(services)))
                            = PanelSize
    OBVIOUS
  <2> HIDE DEF to
  <2>4. chosen' \in [Adjudications -> Listings \cup {StubFamilies, None}]
        /\ phase' \in [Adjudications -> Phases]
    BY <1>1, <1>6, <2>1, <2>2
  <2>5. ASSUME NEW b \in Adjudications
        PROVE  Along(b)'
    <3>1. CASE b = a
      <4>1. phase'[b] = to /\ chosen'[b] = services
        BY <1>1, <2>1, <3>1
      <4>2. b \in DOMAIN setting.disputeOf
        BY <1>1, <1>6, <3>1 DEF Along
      <4> QED
        BY <1>6, <2>1, <2>2, <2>3, <4>1, <4>2 DEF Along, Asked, Panel
    <3>2. CASE b # a
      <4>1. phase'[b] = phase[b] /\ chosen'[b] = chosen[b] /\ Along(b)
        BY <1>1, <2>1, <3>2
      <4> QED
        BY <2>1, <4>1 DEF Along, Asked, Panel, Complete, storageVars
    <3> QED
      BY <3>1, <3>2
  <2>6. PortInv'
    BY <1>1, <2>1, <2>4, <2>5 DEF PortInv
  <2> QED
    BY <1>2, <1>3, <2>1, <2>6
<1>7. ASSUME NEW a \in Adjudications, PicksPanel(a)
      PROVE  Goal
  <2>1. CASE og[Listing(a)].pc = "Listed" /\ Chooses(a, ServicesOf(Listing(a)))
    <3>1. og[Listing(a)].listing \in Snapshots
      BY <2>1, ItsCalls DEF OgInv, CallIsAged
    <3>2. ServicesOf(Listing(a)) \in Listings
      BY <3>1 DEF ServicesOf, Snapshots
    <3> QED
      BY <1>6, <1>7, <2>1, <3>2, OgComputeAssumption DEF PicksPanel
  <2>2. CASE Chooses(a, StubFamilies)
    BY <1>6, <1>7, <2>2, AdaptersAssumption DEF PicksPanel
  <2> QED
    BY <1>7, <2>1, <2>2 DEF PicksPanel
<1>8. ASSUME NEW a \in Adjudications, ListingThrows(a)
      PROVE  Goal
  <2>1. "Failed" \in Phases /\ a \in DOMAIN setting.disputeOf
    BY <1>1, <1>8 DEF ListingThrows, Phases, Along
  <2> QED
    BY <1>2, <1>3, <1>8, <2>1, PhaseMoves DEF ListingThrows, storageVars
<1>9. ASSUME NEW a \in Adjudications, StoresEvidence(a)
      PROVE  Goal
  <2>1. "Panel" \in Phases /\ a \in DOMAIN setting.disputeOf /\ Asked(a)
    BY <1>1, <1>9 DEF StoresEvidence, Phases, Along, Asked
  <2> QED
    BY <1>2, <1>3, <1>9, <2>1, PhaseMoves DEF StoresEvidence, storageVars
<1>10. ASSUME NEW a \in Adjudications, PanelDone(a)
       PROVE  Goal
  <2>1. "Bundle" \in Phases /\ a \in DOMAIN setting.disputeOf /\ Asked(a)
    BY <1>1, <1>10 DEF PanelDone, Phases, Along, Asked
  <2> QED
    BY <1>2, <1>3, <1>10, <2>1, PhaseMoves DEF PanelDone, storageVars
<1>11. ASSUME NEW a \in Adjudications, VerdictSettled(a)
       PROVE  Goal
  <2>1. /\ {"Reputation", "Done", "Failed"} \subseteq Phases
        /\ a \in DOMAIN setting.disputeOf /\ Asked(a) /\ Complete(a)
    BY <1>1, <1>11 DEF VerdictSettled, Phases, Along, Asked
  <2>2. UNCHANGED <<setting, chosen, verdicts, put>> /\ UNCHANGED storageVars
    BY <1>11 DEF VerdictSettled, storageVars
  <2>3. \/ put[a] = "Stored" /\ Goto(a, "Done")
        \/ put[a] = "Stored" /\ Goto(a, "Reputation")
        \/ Goto(a, "Failed")
    BY <1>11 DEF VerdictSettled
  <2>4. PortInv'
    BY <2>1, <2>2, <2>3, PhaseMoves
  <2> QED
    BY <1>2, <1>3, <2>2, <2>4
<1>12. ASSUME NEW a \in Adjudications, Finishes(a)
       PROVE  Goal
  <2>1. /\ "Done" \in Phases /\ a \in DOMAIN setting.disputeOf
        /\ Asked(a) /\ Complete(a) /\ put[a] = "Stored"
    BY <1>1, <1>12 DEF Finishes, Phases, Along, Asked
  <2> QED
    BY <1>2, <1>3, <1>12, <2>1, PhaseMoves DEF Finishes, storageVars
<1>13. ASSUME NEW a \in Adjudications, NEW i \in Seats,
              NEW verdict \in PanelistVerdicts, Concludes(a, i, verdict)
       PROVE  Goal
  <2>1. /\ verdicts[a][i] = None
        /\ verdicts' = [verdicts EXCEPT ![a][i] = verdict]
        /\ UNCHANGED <<storageVars, setting, phase, chosen>>
    BY <1>13 DEF Concludes
  <2>2. verdicts' \in [Adjudications ->
                         [Seats -> PanelistVerdicts \cup {None}]]
    BY <1>1, <2>1
  <2>3. ~Complete(a)
    BY <2>1 DEF Complete
  <2>4. VerdictsStand
    BY <1>1, <2>1, <2>3 DEF VerdictsStand
  <2>5. ASSUME NEW b \in Adjudications
        PROVE  Along(b)'
    BY <1>1, <2>1, <2>4
       DEF Along, Asked, Panel, Complete, VerdictsStand, storageVars
  <2> QED
    BY <1>1, <1>2, <2>1, <2>2, <2>4, <2>5 DEF PortInv
<1>14. ASSUME NEW a \in Adjudications, Panelists(a)
       PROVE  Goal
  <2>1. PICK i \in Seats :
          \/ Asks(a, i) \/ TakesAnswer(a, i) \/ TakesError(a, i)
          \/ TimesOut(a, i) \/ ComesLate(a, i)
    BY <1>14 DEF Panelists
  <2>2. \A answer : Parsed(answer) \in PanelistVerdicts
    BY DEF Parsed, PanelistVerdicts
  <2>3. FailedPanelist \in PanelistVerdicts
    BY DEF PanelistVerdicts
  <2>4. CASE Asks(a, i) \/ ComesLate(a, i)
    BY <1>4, <2>4 DEF Asks, ComesLate
  <2>5. CASE TakesAnswer(a, i) \/ TakesError(a, i) \/ TimesOut(a, i)
    BY <1>13, <2>2, <2>3, <2>5 DEF TakesAnswer, TakesError, TimesOut
  <2> QED
    BY <2>1, <2>4, <2>5
<1>15. ASSUME NEW a \in Adjudications, StoresVerdict(a)
       PROVE  Goal
  <2>1. a \in Bundles /\ Put(a, wiring.storage) /\ phase[a] = "Bundle"
        /\ UNCHANGED portVars
    BY <1>15, ItsCalls DEF StoresVerdict
  <2>2. StorageInv' /\ \A d \in Bundles : d # a => put'[d] = put[d]
    BY <2>1, PutPreserves
  <2>3. ASSUME NEW b \in Adjudications
        PROVE  Along(b)'
    <3>1. b \in Bundles
      BY ItsCalls
    <3>2. CASE b = a
      BY <1>1, <2>1, <3>2 DEF Along, Asked, Panel, Complete, portVars
    <3>3. CASE b # a
      BY <1>1, <2>1, <2>2, <3>1, <3>3 DEF Along, Asked, Panel, Complete, portVars
    <3> QED
      BY <3>2, <3>3
  <2> QED
    BY <1>1, <1>3, <2>1, <2>2, <2>3 DEF PortInv, portVars
<1>16. ASSUME NEW a \in Adjudications, NEW party \in Parties,
              WritesReputation(a, party)
       PROVE  Goal
  BY <1>4, <1>16 DEF WritesReputation
<1>17. ASSUME NEW a \in Adjudications, ListsModels(a)
       PROVE  Goal
  BY <1>4, <1>17 DEF ListsModels
<1>18. ASSUME NEW c \in Callers, CallProceeds(c)
       PROVE  Goal
  BY <1>4, <1>18 DEF CallProceeds
<1>19. ASSUME Outside PROVE Goal
  BY <1>4, <1>19 DEF Outside
<1>20. ASSUME UNCHANGED vars PROVE Goal
  BY <1>4, <1>20 DEF vars
<1> HIDE DEF Goal
<1>21. Goal
  BY <1>5, <1>7, <1>8, <1>9, <1>10, <1>11, <1>12, <1>14, <1>15, <1>16, <1>17,
     <1>18, <1>19, <1>20 DEF Next, Adjudicates
<1> QED
  BY <1>21 DEF Goal

-----------------------------------------------------------------------------
(* The invariant of the adapters, and what it says of each of them.        *)
AdaptersInv == OgInv /\ ReplayInv /\ StorageInv /\ PortInv

LEMMA AdaptersInvHolds == Spec => []AdaptersInv
<1>1. Init => AdaptersInv
  <2> SUFFICES ASSUME Init PROVE AdaptersInv
    OBVIOUS
  <2>1. setting \in Settings /\ IsDirectory(fixtures) /\ Faithful(fixtures)
    BY AdaptersAssumption DEF Init
  <2>2. OgInv
    <3>1. OgInit
      BY DEF Init
    <3> QED
      BY <3>1, OgStarts
  <2>3. ReplayInv
    <3>1. CallIdle \in ReplayCalls /\ CallIdle.pc = "Idle"
      BY DEF CallIdle, ReplayCalls, CallStages
    <3>2. call = [c \in Callers |-> CallIdle]
      BY DEF Init
    <3> QED
      BY <2>1, <3>1, <3>2 DEF ReplayInv, CallIsFaithful
  <2>4. StorageInv
    BY StorageStarts DEF Init
  <2>5. PortInv
    BY <2>1 DEF Init, PortInv, Along, Asked, Phases
  <2> QED
    BY <2>2, <2>3, <2>4, <2>5 DEF AdaptersInv
<1>2. AdaptersInv /\ [Next]_vars => AdaptersInv'
  <2> SUFFICES ASSUME AdaptersInv, [Next]_vars PROVE AdaptersInv'
    OBVIOUS
  <2>1. OgInv /\ ReplayInv /\ StorageInv /\ PortInv
    BY DEF AdaptersInv
  <2>2. OgMoves /\ ReplayMoves
    <3>1. CASE Next
      BY <2>1, <3>1, NextMoves
    <3>2. CASE UNCHANGED vars
      BY <3>2 DEF vars, OgMoves, ReplayMoves
    <3> QED
      BY <3>1, <3>2
  <2>3. OgInv' /\ ReplayInv'
    BY <2>1, <2>2, OgPreserved, ReplayPreserved
  <2>4. PortInv' /\ StorageInv'
    BY <2>1, PortPreserved
  <2> QED
    BY <2>3, <2>4 DEF AdaptersInv
<1> QED
  BY <1>1, <1>2, PTL DEF Spec

(* OgComputeAdapter: however many callers fetch at once and in whatever    *)
(* order their listings come back, a catalogue that is handed out without  *)
(* asking is younger than its time to live.                                *)
THEOREM CatalogueIsYoung == Spec => []CachedListingIsYoung
<1>1. AdaptersInv => CachedListingIsYoung
  BY OgImplies DEF AdaptersInv
<1> QED
  BY <1>1, AdaptersInvHolds, PTL

(* ReplayAdapter: what a call returns was answered to just what it asks,   *)
(* also when a file is truncated, written over or half written by calls    *)
(* that timed out long ago.                                                *)
THEOREM ReplaysAreFaithful == Spec => []ReplayIsFaithful
<1>1. AdaptersInv => ReplayIsFaithful
  BY ReplayImplies DEF AdaptersInv
<1> QED
  BY <1>1, AdaptersInvHolds, PTL

(* persistVerdictBundle: a verdict is reported, and reputations written,   *)
(* only when both parts of its bundle are stored, by each of the adapters. *)
THEOREM VerdictsAreReadable == Spec => []VerdictIsReadable
<1>1. AdaptersInv => VerdictIsReadable
  BY CallsAssumption
     DEF AdaptersInv, StorageInv, PortInv, Along, VerdictIsReadable
<1> QED
  BY <1>1, AdaptersInvHolds, PTL

(* pickDistinctModels, as it is used: every panel that is asked, over any  *)
(* listing the network may give.                                           *)
THEOREM PanelsAreDiverse == Spec => []PanelIsDiverse
<1>1. ASSUME AdaptersInv, NEW a \in Adjudications,
             phase[a] \notin {"Idle", "Models", "Failed"}
      PROVE  /\ Cardinality(ToSet(Panel(a))) = PanelSize
             /\ Cardinality(Families(Panel(a)))
                  = Min({PanelSize,
                         Cardinality(Families(ModelNames(chosen[a])))})
  <2>1. chosen[a] \in Seq(Services) /\ Len(Panel(a)) = PanelSize
    BY <1>1, OgComputeAssumption, AdaptersAssumption
       DEF AdaptersInv, PortInv, Along, Asked
  <2>2. ModelNames(chosen[a]) \in Seq(Names)
    BY <2>1, ModelNamesAre
  <2> QED
    BY <2>1, <2>2, PickedPanelIsDiverse DEF Panel
<1>2. AdaptersInv => PanelIsDiverse
  BY <1>1 DEF PanelIsDiverse, Families
<1> QED
  BY <1>2, AdaptersInvHolds, PTL

(* pickProviderByModel, as it is used: a panelist is asked at a provider   *)
(* that lists its model, up to case, as long as one does in the list its   *)
(* call works on.                                                          *)
THEOREM PanelistsAreAskedWhereListed == Spec => []AskedAtItsModel
<1>1. ASSUME AdaptersInv, NEW a \in Adjudications, NEW i \in Seats,
             og[Panelist(a, i)].pc = "Listed",
             NEW s \in ToSet(InferenceOnly(ServicesOf(Panelist(a, i)))),
             LowerCase(s.model) = LowerCase(og[Panelist(a, i)].model)
      PROVE  /\ ProviderOf(Panelist(a, i))
                  \in ToSet(InferenceOnly(ServicesOf(Panelist(a, i))))
             /\ LowerCase(ProviderOf(Panelist(a, i)).model)
                  = LowerCase(og[Panelist(a, i)].model)
  <2> DEFINE services == ServicesOf(Panelist(a, i))
             inf == InferenceOnly(services)
             model == og[Panelist(a, i)].model
  <2>1. services \in Seq(Services)
    BY <1>1, ItsCalls, OgComputeAssumption
       DEF AdaptersInv, OgInv, CallIsAged, ServicesOf, Snapshots
  <2>2. inf \in Seq(Services)
    BY <2>1, InferenceOnlyIs
  <2>3. ToSet(inf) = {inf[k] : k \in DOMAIN inf}
    BY DEF ToSet
  <2>4. ProviderOf(Panelist(a, i)) = PickProviderByModel(inf, model)
    BY DEF ProviderOf
  <2>5. s \in ToSet(inf) /\ LowerCase(s.model) = LowerCase(model)
    BY <1>1
  <2> HIDE DEF services, inf, model
  <2>6. \E k \in DOMAIN inf : LowerCase(inf[k].model) = LowerCase(model)
    BY <2>3, <2>5
  <2>7. \E k \in DOMAIN inf :
          /\ PickProviderByModel(inf, model) = inf[k]
          /\ LowerCase(inf[k].model) = LowerCase(model)
    BY <2>2, <2>6, ListedModelIsFound
  <2>8. /\ ProviderOf(Panelist(a, i)) \in ToSet(inf)
        /\ LowerCase(ProviderOf(Panelist(a, i)).model) = LowerCase(model)
    BY <2>3, <2>4, <2>7
  <2> QED
    BY <2>8 DEF services, inf, model
<1>2. AdaptersInv => AskedAtItsModel
  BY <1>1 DEF AskedAtItsModel
<1> QED
  BY <1>2, AdaptersInvHolds, PTL

-----------------------------------------------------------------------------
(* Reputations.  A counter of a record, and a value on its way there, is   *)
(* at most the number of verdicts given when it was read; and a verdict,   *)
(* once counted, stays as it is.                                           *)
Count(name, key) == Cardinality(Given(name, key))

WriteCalls ==
  [pc : {"Idle", "Read", "Settled"}, name : Records \cup {Noone},
   new : SUBSET (TextKeys \X Nat)]

WriteIsEarned(w) ==
  /\ write[w].pc = "Idle" => write[w].name = Noone /\ write[w].new = {}
  /\ write[w].name # Noone => Complete(w[1])
  /\ write[w].new # {} => write[w].name \in Records
  /\ wiring.identity = "Memory" => write[w].new = {}
  /\ \A text \in write[w].new : text[2] <= Count(write[w].name, text[1])

ReputationInv ==
  /\ texts \in [Records -> [TextKeys -> Nat]]
  /\ write \in [Writers -> WriteCalls]
  /\ \A w \in Writers : WriteIsEarned(w)
  /\ ReputationIsEarned

LEMMA WritersAre ==
  /\ IsFiniteSet(Writers)
  /\ \A w \in Writers : w[1] \in Adjudications /\ w[2] \in Parties
  /\ \A w \in Writers : w = Write(w[1], w[2])
<1>1. IsFiniteSet(Parties)
  <2>1. Parties = {"claimant"} \cup {"respondent"}
    BY DEF Parties
  <2>2. IsFiniteSet({"claimant"})
    BY FS_Singleton
  <2> QED
    BY <2>1, <2>2, FS_AddElement
<1>2. IsFiniteSet(Writers)
  BY <1>1, CallsAssumption, FS_Product
<1> QED
  BY <1>2, CallsAssumption DEF Write

LEMMA GivenIsFinite ==
  ASSUME NEW name, NEW key
  PROVE  /\ IsFiniteSet(Given(name, key)) /\ Count(name, key) \in Nat
         /\ Count(name, key) <= Cardinality(Writers)
<1>1. Given(name, key) \in SUBSET Writers
  BY DEF Given
<1> QED
  BY <1>1, WritersAre, FS_Subset, FS_CardinalityType DEF Count

(* While no call starts, as many verdicts stay given.                      *)
LEMMA GivenStands ==
  ASSUME ReputationInv, VerdictsStand,
         \A w \in Writers : write'[w].name = write[w].name,
         NEW name \in Records, NEW key \in TextKeys
  PROVE  Count(name, key)' = Count(name, key)
<1>1. ASSUME NEW w \in Writers, write[w].name = name
      PROVE  OutcomeFor(w[1], w[2])' = OutcomeFor(w[1], w[2])
  <2>1. Complete(w[1]) /\ w[1] \in Adjudications
    BY <1>1, ReputationAssumption, WritersAre DEF ReputationInv, WriteIsEarned
  <2>2. verdicts'[w[1]] = verdicts[w[1]]
    BY <2>1 DEF VerdictsStand
  <2> QED
    BY <2>2 DEF OutcomeFor, Outcome
<1>2. Given(name, key)' = Given(name, key)
  BY <1>1 DEF Given
<1> QED
  BY <1>2 DEF Count

(* A call that starts is one more verdict for its record and its counters. *)
LEMMA GivenGrows ==
  ASSUME ReputationInv, verdicts' = verdicts, NEW w \in Writers,
         write[w].name = Noone, NEW ens \in Records, write'[w].name = ens,
         \A v \in Writers : v # w => write'[v].name = write[v].name,
         NEW name \in Records, NEW key \in TextKeys
  PROVE  Count(name, key)' =
           IF name = ens /\ key \in {"total", OutcomeFor(w[1], w[2])}
           THEN Count(name, key) + 1 ELSE Count(name, key)
<1>1. w \notin Given(name, key)
  BY ReputationAssumption DEF Given
<1>2. \A v \in Writers : OutcomeFor(v[1], v[2])' = OutcomeFor(v[1], v[2])
  BY DEF OutcomeFor, Outcome
<1>3. CASE name = ens /\ key \in {"total", OutcomeFor(w[1], w[2])}
  <2>1. Given(name, key)' = Given(name, key) \cup {w}
    BY <1>2, <1>3 DEF Given
  <2>2. Cardinality(Given(name, key) \cup {w}) = Count(name, key) + 1
    BY <1>1, GivenIsFinite, FS_AddElement DEF Count
  <2> QED
    BY <1>3, <2>1, <2>2 DEF Count
<1>4. CASE ~(name = ens /\ key \in {"total", OutcomeFor(w[1], w[2])})
  <2>1. Given(name, key)' = Given(name, key)
    BY <1>1, <1>2, <1>4 DEF Given
  <2> QED
    BY <1>4, <2>1 DEF Count
<1> QED
  BY <1>3, <1>4

LEMMA CreditedIs ==
  ASSUME NEW old \in [TextKeys -> Nat], NEW outcome \in {"won", "lost"}
  PROVE  /\ Credited(old, outcome) \in [TextKeys -> Nat]
         /\ \A key \in TextKeys :
              Credited(old, outcome)[key] =
                IF key \in {"total", outcome} THEN old[key] + 1 ELSE old[key]
BY DEF Credited, TextKeys

(* A call starts: what it has read, or added, is what is earned by then.   *)
LEMMA WriteStarts ==
  ASSUME ReputationInv, setting' = setting, verdicts' = verdicts,
         NEW a \in Adjudications, NEW party \in Parties, Complete(a),
         NEW ens \in EnsNames,
         \/ wiring.identity = "Memory"
              /\ AddsInMemory(Write(a, party), ens, OutcomeFor(a, party))
         \/ wiring.identity # "Memory" /\ WritesNothing(Write(a, party), ens)
         \/ wiring.identity # "Memory"
              /\ ReadsTexts(Write(a, party), ens, OutcomeFor(a, party))
  PROVE  ReputationInv'
<1> DEFINE w == Write(a, party)
           outcome == OutcomeFor(a, party)
<1>1. /\ w \in Writers /\ w[1] = a /\ w[2] = party
      /\ outcome \in {"won", "lost"}
  BY ItsCalls DEF Write, OutcomeFor
<1>2. /\ texts \in [Records -> [TextKeys -> Nat]]
      /\ write \in [Writers -> WriteCalls]
      /\ \A v \in Writers : WriteIsEarned(v)
      /\ ReputationIsEarned
  BY DEF ReputationInv
<1>3. wiring' = wiring /\ \A b \in Adjudications : Complete(b)' = Complete(b)
  BY DEF wiring, Complete
<1> HIDE DEF w, outcome
<1>4. write[w].pc = "Idle" /\ write[w].name = Noone /\ write[w].new = {}
  BY <1>1, <1>2 DEF AddsInMemory, WritesNothing, ReadsTexts, WriteIsEarned, w
<1>5. ens \in Records /\ TargetName(ens) \in Records
  BY DEF Records
(* Whatever the record: what is left to show.                              *)
<1>6. ASSUME NEW to \in WriteCalls, to.name \in Records, to.pc # "Idle",
             write' = [write EXCEPT ![w] = to],
             texts' \in [Records -> [TextKeys -> Nat]],
             wiring.identity = "Memory" => to.new = {},
             \A text \in to.new :
               text[2] <= IF text[1] \in {"total", outcome}
                          THEN texts[to.name][text[1]] + 1
                          ELSE texts[to.name][text[1]],
             \A name \in Records, key \in TextKeys :
               texts'[name][key] =
                 IF /\ wiring.identity = "Memory"
                    /\ name = to.name /\ key \in {"total", outcome}
                 THEN texts[name][key] + 1 ELSE texts[name][key]
      PROVE  ReputationInv'
  <2>1. /\ write'[w] = to
        /\ \A v \in Writers : v # w => write'[v] = write[v]
        /\ write' \in [Writers -> WriteCalls]
    BY <1>1, <1>2, <1>6
  <2>2. \A name \in Records, key \in TextKeys :
          Count(name, key)' =
            IF name = to.name /\ key \in {"total", outcome}
            THEN Count(name, key) + 1 ELSE Count(name, key)
    BY <1>1, <1>4, <1>6, <2>1, GivenGrows DEF outcome
  <2>3. \A name \in Records, key \in TextKeys :
          /\ texts[name][key] \in Nat /\ Count(name, key) \in Nat
          /\ texts[name][key] <= Count(name, key)
          /\ wiring.identity = "Memory" => texts[name][key] = Count(name, key)
    BY <1>2, GivenIsFinite DEF ReputationIsEarned, Count
  <2>4. ReputationIsEarned'
    <3>1. ASSUME NEW name \in Records, NEW key \in TextKeys
          PROVE  /\ texts'[name][key] <= Count(name, key)'
                 /\ wiring.identity = "Memory" =>
                      texts'[name][key] = Count(name, key)'
      BY <1>6, <2>2, <2>3
    <3> QED
      BY <1>3, <3>1 DEF ReputationIsEarned, Count
  <2>5. ASSUME NEW v \in Writers
        PROVE  WriteIsEarned(v)'
    <3>1. CASE v = w
      <4>1. PICK name \in Records : name = to.name
        BY <1>6
      <4>2. ASSUME NEW text \in to.new
            PROVE  text[2] <= Count(name, text[1])'
        <5>1. text[1] \in TextKeys /\ text[2] \in Nat
          BY DEF WriteCalls
        <5> QED
          BY <1>6, <2>2, <2>3, <4>1, <5>1
      <4>3. Complete(v[1])'
        BY <1>1, <1>3, <3>1
      <4>4. write'[v] = to /\ write'[v].name = name
        BY <2>1, <3>1, <4>1
      <4> QED
        BY <1>3, <1>6, <4>1, <4>2, <4>3, <4>4 DEF WriteIsEarned
    <3>2. CASE v # w
      <4>1. WriteIsEarned(v) /\ write'[v] = write[v]
        BY <1>2, <2>1, <3>2
      <4>2. ASSUME NEW name \in Records, name = write[v].name,
                   NEW text \in write[v].new
            PROVE  text[2] <= Count(name, text[1])'
        <5>1. /\ text[1] \in TextKeys /\ text[2] \in Nat
              /\ text[2] <= Count(name, text[1])
          BY <1>2, <4>1, <4>2 DEF WriteIsEarned, WriteCalls
        <5> QED
          BY <2>2, <2>3, <5>1
      <4>3. v[1] \in Adjudications
        BY WritersAre
      <4> QED
        BY <1>3, <4>1, <4>2, <4>3 DEF WriteIsEarned
    <3> QED
      BY <3>1, <3>2
  <2> QED
    BY <1>6, <2>1, <2>4, <2>5 DEF ReputationInv
<1> DEFINE settled == [write[w] EXCEPT !.pc = "Settled", !.name = ens]
<1>7. /\ settled \in WriteCalls /\ settled.pc = "Settled"
      /\ settled.name = ens /\ settled.new = {}
  BY <1>1, <1>2, <1>4, <1>5 DEF WriteCalls
<1> HIDE DEF settled
<1>8. CASE wiring.identity = "Memory" /\ AddsInMemory(w, ens, outcome)
  <2>1. texts' = [texts EXCEPT ![ens] = Credited(texts[ens], outcome)]
    BY <1>8 DEF AddsInMemory
  <2>2. /\ Credited(texts[ens], outcome) \in [TextKeys -> Nat]
        /\ \A key \in TextKeys :
             Credited(texts[ens], outcome)[key] =
               IF key \in {"total", outcome} THEN texts[ens][key] + 1
               ELSE texts[ens][key]
    BY <1>1, <1>2, <1>5, CreditedIs
  <2>3. write' = [write EXCEPT ![w] = settled]
    BY <1>1, <1>2, <1>8 DEF AddsInMemory, settled
  <2>4. /\ texts' \in [Records -> [TextKeys -> Nat]]
        /\ \A name \in Records, key \in TextKeys :
             texts'[name][key] =
               IF name = ens /\ key \in {"total", outcome}
               THEN texts[name][key] + 1 ELSE texts[name][key]
    BY <1>2, <1>5, <2>1, <2>2
  <2>5. \A name \in Records, key \in TextKeys :
          texts'[name][key] =
            IF /\ wiring.identity = "Memory"
               /\ name = settled.name /\ key \in {"total", outcome}
            THEN texts[name][key] + 1 ELSE texts[name][key]
    BY <1>7, <1>8, <2>4
  <2>6. settled.name \in Records /\ settled.pc # "Idle" /\ settled.new = {}
    BY <1>5, <1>7
  <2>7. \A text \in settled.new :
          text[2] <= IF text[1] \in {"total", outcome}
                     THEN texts[settled.name][text[1]] + 1
                     ELSE texts[settled.name][text[1]]
    BY <2>6
  <2> QED
    BY <1>6, <1>7, <2>3, <2>4, <2>5, <2>6, <2>7
<1>9. CASE wiring.identity # "Memory" /\ WritesNothing(w, ens)
  <2>1. write' = [write EXCEPT ![w] = settled] /\ texts' = texts
    BY <1>1, <1>2, <1>9 DEF WritesNothing, settled
  <2> QED
    BY <1>2, <1>5, <1>6, <1>7, <1>9, <2>1
<1>10. CASE wiring.identity # "Memory" /\ ReadsTexts(w, ens, outcome)
  <2> DEFINE name == TargetName(ens)
             credited == Credited(texts[name], outcome)
             to == [pc |-> "Read", name |-> name, new |-> Pairs(credited)]
  <2>1. /\ credited \in [TextKeys -> Nat]
        /\ \A key \in TextKeys :
             credited[key] = IF key \in {"total", outcome}
                             THEN texts[name][key] + 1 ELSE texts[name][key]
    BY <1>1, <1>2, <1>5, CreditedIs
  <2>2. texts' = texts /\ write' = [write EXCEPT ![w] = to]
    BY <1>10 DEF ReadsTexts
  <2>3. name \in Records
    BY <1>5
  <2> HIDE DEF name, credited
  <2>4. /\ Pairs(credited) \in SUBSET (TextKeys \X Nat)
        /\ \A text \in Pairs(credited) :
             text[1] \in TextKeys /\ text[2] = credited[text[1]]
    BY <2>1 DEF Pairs
  <2>5. \A text \in Pairs(credited) :
          text[2] <= IF text[1] \in {"total", outcome}
                     THEN texts[name][text[1]] + 1 ELSE texts[name][text[1]]
    <3>1. \A key \in TextKeys : texts[name][key] \in Nat
      BY <1>2, <2>3
    <3> QED
      BY <2>1, <2>4, <3>1
  <2>6. /\ to \in WriteCalls /\ to.pc = "Read" /\ to.name = name
        /\ to.new = Pairs(credited)
    BY <2>3, <2>4 DEF WriteCalls
  <2> HIDE DEF to
  <2> QED
    BY <1>2, <1>6, <1>10, <2>2, <2>3, <2>5, <2>6
<1> QED
  BY <1>8, <1>9, <1>10 DEF w, outcome

(* No call starts: transactions are sent or mined, or the verdicts go on.  *)
LEMMA WritesGoOn ==
  ASSUME ReputationInv, VerdictsStand, setting' = setting,
         write' \in [Writers -> WriteCalls],
         texts' \in [Records -> [TextKeys -> Nat]],
         \A w \in Writers : /\ write'[w].name = write[w].name
                            /\ write'[w].new \subseteq write[w].new
                            /\ write'[w].pc = "Idle" => write[w].pc = "Idle",
         \A name \in Records, key \in TextKeys :
           \/ texts'[name][key] = texts[name][key]
           \/ /\ wiring.identity # "Memory"
              /\ texts'[name][key] <= Count(name, key)
  PROVE  ReputationInv'
<1>1. \A w \in Writers : WriteIsEarned(w) /\ write[w] \in WriteCalls
  BY DEF ReputationInv
<1>2. wiring' = wiring
  BY DEF wiring
<1>3. \A name \in Records, key \in TextKeys :
        Count(name, key)' = Count(name, key)
  BY GivenStands
<1>4. ReputationIsEarned'
  <2>1. \A name \in Records, key \in TextKeys :
          /\ texts[name][key] <= Count(name, key)
          /\ wiring.identity = "Memory" => texts[name][key] = Count(name, key)
    BY DEF ReputationInv, ReputationIsEarned, Count
  <2>2. \A name \in Records, key \in TextKeys :
          /\ texts'[name][key] <= Count(name, key)'
          /\ wiring.identity = "Memory" =>
               texts'[name][key] = Count(name, key)'
    BY <1>3, <2>1
  <2> QED
    BY <1>2, <2>2 DEF ReputationIsEarned, Count
<1>5. ASSUME NEW w \in Writers
      PROVE  WriteIsEarned(w)'
  <2>1. WriteIsEarned(w) /\ w[1] \in Adjudications
    BY <1>1, WritersAre
  <2>2. Complete(w[1]) => Complete(w[1])'
    BY <2>1 DEF VerdictsStand, Complete
  <2>3. ASSUME NEW name \in Records, name = write[w].name,
               NEW text \in write[w].new
        PROVE  text[2] <= Count(name, text[1])'
    <3>1. text[1] \in TextKeys /\ text[2] <= Count(name, text[1])
      BY <1>1, <2>1, <2>3 DEF WriteIsEarned, WriteCalls
    <3> QED
      BY <1>3, <3>1
  <2> QED
    BY <1>2, <2>1, <2>2, <2>3 DEF WriteIsEarned
<1> QED
  BY <1>4, <1>5 DEF ReputationInv

LEMMA ReputationPreserved ==
  ASSUME AdaptersInv, ReputationInv, [Next]_vars
  PROVE  ReputationInv'
<1>1. OgInv /\ ReplayInv /\ StorageInv /\ PortInv
  BY DEF AdaptersInv
<1>2. VerdictsStand /\ setting' = setting
  BY <1>1, PortPreserved
<1>3. /\ texts \in [Records -> [TextKeys -> Nat]]
      /\ write \in [Writers -> WriteCalls]
      /\ \A w \in Writers : WriteIsEarned(w)
  BY DEF ReputationInv
<1>4. ASSUME UNCHANGED reputationVars
      PROVE  ReputationInv'
  <2>1. texts' = texts /\ write' = write
    BY <1>4 DEF reputationVars
  <2>2. /\ write' \in [Writers -> WriteCalls]
        /\ texts' \in [Records -> [TextKeys -> Nat]]
    BY <1>3, <2>1
  <2> QED
    BY <1>2, <2>1, <2>2, WritesGoOn
<1>5. ASSUME NEW w \in Writers, SendsTexts(w)
      PROVE  ReputationInv'
  <2> DEFINE to == [write[w] EXCEPT !.pc = "Settled"]
  <2>1. /\ to \in WriteCalls /\ to.pc = "Settled" /\ to.name = write[w].name
        /\ to.new = write[w].new
    BY <1>3 DEF WriteCalls
  <2>2. write' = [write EXCEPT ![w] = to] /\ texts' = texts
    BY <1>5 DEF SendsTexts
  <2> HIDE DEF to
  <2>3. /\ write' \in [Writers -> WriteCalls]
        /\ \A v \in Writers : /\ write'[v].name = write[v].name
                              /\ write'[v].new \subseteq write[v].new
                              /\ write'[v].pc = "Idle" => write[v].pc = "Idle"
    BY <1>3, <2>1, <2>2
  <2>4. texts' \in [Records -> [TextKeys -> Nat]]
    BY <1>3, <2>2
  <2> QED
    BY <1>2, <2>2, <2>3, <2>4, WritesGoOn
<1>6. ASSUME NEW w \in Writers, Mines(w)
      PROVE  ReputationInv'
  <2>1. PICK text \in write[w].new :
          /\ texts' = [texts EXCEPT ![write[w].name][text[1]] = text[2]]
          /\ write' = [write EXCEPT ![w].new = @ \ {text}]
    BY <1>6 DEF Mines
  <2>2. PICK record \in Records : record = write[w].name
    BY <1>3, <2>1 DEF WriteIsEarned
  <2>3. /\ text[1] \in TextKeys /\ text[2] \in Nat
        /\ wiring.identity # "Memory" /\ text[2] <= Count(record, text[1])
    BY <1>3, <2>1, <2>2 DEF WriteIsEarned, WriteCalls
  <2> DEFINE to == [write[w] EXCEPT !.new = @ \ {text}]
  <2>4. /\ to \in WriteCalls /\ to.pc = write[w].pc
        /\ to.name = write[w].name /\ to.new = write[w].new \ {text}
    BY <1>3 DEF WriteCalls
  <2>5. write' = [write EXCEPT ![w] = to]
    BY <2>1
  <2> HIDE DEF to
  <2>6. /\ write' \in [Writers -> WriteCalls]
        /\ \A v \in Writers : /\ write'[v].name = write[v].name
                              /\ write'[v].new \subseteq write[v].new
                              /\ write'[v].pc = "Idle" => write[v].pc = "Idle"
    BY <1>3, <2>4, <2>5
  <2>7. texts' = [texts EXCEPT ![record][text[1]] = text[2]]
    BY <2>1, <2>2
  <2>8. texts' \in [Records -> [TextKeys -> Nat]]
    BY <1>3, <2>3, <2>7
  <2>9. \A name \in Records, key \in TextKeys :
          \/ texts'[name][key] = texts[name][key]
          \/ /\ wiring.identity # "Memory"
             /\ texts'[name][key] <= Count(name, key)
    <3> SUFFICES ASSUME NEW name \in Records, NEW key \in TextKeys,
                        texts'[name][key] # texts[name][key]
                 PROVE  /\ wiring.identity # "Memory"
                        /\ texts'[name][key] <= Count(name, key)
      OBVIOUS
    <3>1. name = record /\ key = text[1] /\ texts'[name][key] = text[2]
      BY <1>3, <2>3, <2>7
    <3> QED
      BY <2>3, <3>1
  <2> QED
    BY <1>2, <2>6, <2>8, <2>9, WritesGoOn
<1>7. ASSUME NEW a \in Adjudications, NEW party \in Parties,
             WritesReputation(a, party)
      PROVE  ReputationInv'
  <2>1. /\ a \in DOMAIN setting.disputeOf /\ setting \in Settings /\ Complete(a)
    BY <1>1, <1>7 DEF PortInv, Along, WritesReputation
  <2>2. EnsOf(a, party) \in EnsNames
    BY <2>1, CallsAssumption DEF EnsOf, DisputeOf
  <2>3. verdicts' = verdicts
    BY <1>7 DEF WritesReputation, portVars
  <2>4. Write(a, party) \in Writers
    BY ItsCalls
  <2>5. WriteReputation(Write(a, party), EnsOf(a, party), OutcomeFor(a, party),
                        wiring.identity)
    BY <1>7 DEF WritesReputation
  <2>6. CASE SendsTexts(Write(a, party))
    BY <1>5, <2>4, <2>6
  <2> DEFINE ens == EnsOf(a, party)
  <2>7. \/ SendsTexts(Write(a, party))
        \/ wiring.identity = "Memory"
             /\ AddsInMemory(Write(a, party), ens, OutcomeFor(a, party))
        \/ wiring.identity # "Memory" /\ WritesNothing(Write(a, party), ens)
        \/ wiring.identity # "Memory"
             /\ ReadsTexts(Write(a, party), ens, OutcomeFor(a, party))
    BY <2>5 DEF WriteReputation
  <2> HIDE DEF ens
  <2>8. ens \in EnsNames
    BY <2>2 DEF ens
  <2> QED
    BY <1>2, <2>1, <2>3, <2>6, <2>7, <2>8, WriteStarts
<1>8. CASE Outside
  BY <1>4, <1>6, <1>8 DEF Outside
<1>9. CASE UNCHANGED vars
  BY <1>4, <1>9 DEF vars
<1>10. ASSUME NEW c \in Callers, CallProceeds(c)
       PROVE  ReputationInv'
  BY <1>4, <1>10 DEF CallProceeds
<1>11. ASSUME NEW a \in Adjudications, Panelists(a)
       PROVE  ReputationInv'
  BY <1>4, <1>11
     DEF Panelists, Asks, TakesAnswer, TakesError, TimesOut, ComesLate,
         Concludes
<1>12. ASSUME NEW a \in Adjudications,
              \/ Begin(a) \/ ListsModels(a) \/ PicksPanel(a)
              \/ ListingThrows(a) \/ StoresEvidence(a) \/ PanelDone(a)
              \/ StoresVerdict(a) \/ VerdictSettled(a) \/ Finishes(a)
       PROVE  ReputationInv'
  BY <1>4, <1>12
     DEF Begin, ListsModels, PicksPanel, Chooses, ListingThrows,
         StoresEvidence, PanelDone, StoresVerdict, VerdictSettled, Finishes
<1> QED
  BY <1>7, <1>8, <1>9, <1>10, <1>11, <1>12 DEF Next, Adjudicates

LEMMA ReputationStarts ==
  ASSUME Init
  PROVE  ReputationInv
<1>1. texts = [name \in Records |-> ZeroTexts]
      /\ write = [w \in Writers |-> WriteIdle]
  BY DEF Init, ReputationInit
<1>2. ZeroTexts \in [TextKeys -> Nat] /\ \A key \in TextKeys : ZeroTexts[key] = 0
  BY DEF ZeroTexts
<1>3. /\ WriteIdle \in WriteCalls /\ WriteIdle.name = Noone
      /\ WriteIdle.new = {}
  BY DEF WriteIdle, WriteCalls
<1>4. \A w \in Writers : WriteIsEarned(w)
  BY <1>1, <1>3 DEF WriteIsEarned
<1>5. ASSUME NEW name \in Records, NEW key \in TextKeys
      PROVE  Count(name, key) = 0 /\ texts[name][key] = 0
  <2>1. Given(name, key) = {}
    BY <1>1, <1>3, ReputationAssumption DEF Given
  <2> QED
    BY <1>1, <1>2, <2>1, FS_EmptySet DEF Count
<1>6. ReputationIsEarned
  BY <1>5 DEF ReputationIsEarned, Count
<1> QED
  BY <1>1, <1>2, <1>3, <1>4, <1>6 DEF ReputationInv

(* The identity adapters: whatever transactions are lost, late or          *)
(* overtaken, and however many disputes write to the record of a name at   *)
(* once, no counter exceeds the verdicts given; in memory it equals them.  *)
THEOREM ReputationsAreEarned == Spec => []ReputationIsEarned
<1>1. Init => ReputationInv
  BY ReputationStarts
<1>2. AdaptersInv /\ ReputationInv /\ [Next]_vars => ReputationInv'
  BY ReputationPreserved
<1>3. ReputationInv => ReputationIsEarned
  BY DEF ReputationInv
<1> QED
  BY <1>1, <1>2, <1>3, AdaptersInvHolds, PTL DEF Spec

(* Every variable has its type; a counter is bounded by the number of      *)
(* reputations that are written at all.                                    *)
THEOREM AdaptersTypeCorrect == Spec => []TypeOK
<1>1. Init => ReputationInv
  BY ReputationStarts
<1>2. AdaptersInv /\ ReputationInv /\ [Next]_vars => ReputationInv'
  BY ReputationPreserved
<1>3. ASSUME AdaptersInv, ReputationInv
      PROVE  TypeOK
  <2>1. OgInv /\ ReplayInv /\ StorageInv /\ PortInv
    BY <1>3 DEF AdaptersInv
  <2>2. OgTypeOK
    <3>1. MaxTime \in Nat
      BY OgComputeAssumption
    <3>2. \/ catalog = None
          \/ catalog \in [fetchedAt : 0..now, snapshot : Snapshots]
      BY <2>1, <3>1 DEF OgInv, CatalogIsAged, Snapshots
    <3>3. \A c \in Callers :
            /\ og[c].pc \in Stages /\ og[c].model \in Names \cup {None}
            /\ og[c].since \in 0..now
            /\ og[c].listing \in Snapshots \cup {None}
      BY <2>1, <3>1 DEF OgInv, OgCalls, CallIsAged
    <3> QED
      BY <2>1, <3>2, <3>3 DEF OgInv, OgTypeOK
  <2>3. ReplayTypeOK /\ StorageTypeOK
    BY <2>1, ReplayImplies DEF StorageInv
  <2>4. ReputationTypeOK
    <3> DEFINE most == Cardinality(Writers)
    <3>1. most \in Nat
      BY WritersAre, FS_CardinalityType
    <3>2. \A name, key : Count(name, key) \in Nat /\ Count(name, key) <= most
      BY GivenIsFinite
    <3>3. /\ texts \in [Records -> [TextKeys -> Nat]]
          /\ write \in [Writers -> WriteCalls]
          /\ \A w \in Writers : WriteIsEarned(w)
      BY <1>3 DEF ReputationInv
    <3> HIDE DEF most
    <3>4. \A name \in Records, key \in TextKeys : texts[name][key] \in 0..most
      <4>1. \A name \in Records, key \in TextKeys :
              texts[name][key] <= Count(name, key)
        BY <1>3 DEF ReputationInv, ReputationIsEarned, Count
      <4> QED
        BY <3>1, <3>2, <3>3, <4>1
    <3>5. ASSUME NEW w \in Writers
          PROVE  write[w] \in [pc : {"Idle", "Read", "Settled"},
                               name : Records \cup {Noone},
                               new : SUBSET (TextKeys \X (0..most))]
      <4>1. ASSUME NEW text \in write[w].new
            PROVE  text \in TextKeys \X (0..most)
        <5>1. text \in TextKeys \X Nat /\ text[2] \in Nat
          BY <3>3 DEF WriteCalls
        <5>2. text[2] <= Count(write[w].name, text[1])
          BY <3>3 DEF WriteIsEarned
        <5>3. text[2] <= most
          BY <3>1, <3>2, <5>1, <5>2
        <5> QED
          BY <3>1, <5>1, <5>3
      <4> QED
        BY <3>3, <4>1 DEF WriteCalls
    <3> QED
      BY <3>3, <3>4, <3>5 DEF ReputationTypeOK, most
  <2>5. /\ setting \in Settings /\ phase \in [Adjudications -> Phases]
        /\ \A a \in Adjudications :
             /\ chosen[a] = None \/ chosen[a] \in Listings \cup {StubFamilies}
             /\ verdicts[a] \in [Seats -> PanelistVerdicts \cup {None}]
    BY <2>1 DEF PortInv
  <2> QED
    BY <2>2, <2>3, <2>4, <2>5 DEF TypeOK
<1>4. AdaptersInv /\ ReputationInv => TypeOK
  BY <1>3
<1> QED
  BY <1>1, <1>2, <1>4, AdaptersInvHolds, PTL DEF Spec
=============================================================================
