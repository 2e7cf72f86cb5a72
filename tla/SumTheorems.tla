---------------------------- MODULE SumTheorems ----------------------------
(***************************************************************************)
(* SumFunction of the community modules, for the balances of the contracts:*)
(* what it does when a function grows or changes at one point.  A recursive*)
(* function over the subsets of a finite set underlies it; the inductions  *)
(* on the size of a subset are by a least counterexample, for which a set  *)
(* of numbers is enough and no induction theorem needs a predicate.        *)
(***************************************************************************)
EXTENDS Integers, Functions, FiniteSets, FiniteSetTheorems,
        WellFoundedInduction, TLAPS

Below == {pair \in Nat \X Nat : pair[1] < pair[2]}

LEMMA BelowIsWellFounded == IsWellFoundedOn(Below, Nat)
BY NatLessThanWellFounded DEF OpToRel, Below

(* A set of natural numbers that holds every number of which it holds the  *)
(* smaller ones has no number outside of it.                               *)
LEMMA LeastCounterexample ==
  ASSUME NEW T \in SUBSET Nat, T # {}
  PROVE  \E m \in T : \A k \in Nat : k < m => k \notin T
<1>1. PICK m \in T : \A k \in T : ~(<<k, m>> \in Below)
  BY BelowIsWellFounded, WFMin
<1>2. \A k \in Nat : k < m => <<k, m>> \in Below
  BY DEF Below
<1> QED
  BY <1>1, <1>2

-----------------------------------------------------------------------------
Chosen(s) == CHOOSE x \in s : TRUE

(* The recursion SumFunctionOnSet goes through, on the sets in `family`.   *)
Sums(f, family, sum) ==
  sum = [s \in family |->
           IF s = {} THEN 0 ELSE f[Chosen(s)] + sum[s \ {Chosen(s)}]]

LEMMA SumFunctionIs ==
  ASSUME NEW f
  PROVE  SumFunction(f) =
           (CHOOSE sum : Sums(f, SUBSET DOMAIN f, sum))[DOMAIN f]
BY DEF SumFunction, SumFunctionOnSet, FoldFunctionOnSet, MapThenFoldSet,
       Sums, Chosen

UpTo(S, k) == {s \in SUBSET S : Cardinality(s) <= k}

LEMMA OneLess ==
  ASSUME NEW S, IsFiniteSet(S), NEW s \in SUBSET S
  PROVE  /\ IsFiniteSet(s) /\ Cardinality(s) \in Nat
         /\ s = {} <=> Cardinality(s) = 0
         /\ \A x \in s : /\ s \ {x} \in SUBSET S
                         /\ Cardinality(s \ {x}) = Cardinality(s) - 1
         /\ s # {} => Chosen(s) \in s
<1>1. IsFiniteSet(s)
  BY FS_Subset
<1>2. Cardinality(s) \in Nat /\ (s = {} <=> Cardinality(s) = 0)
  BY <1>1, FS_CardinalityType, FS_EmptySet
<1>3. \A x \in s : Cardinality(s \ {x}) = Cardinality(s) - 1
  BY <1>1, FS_RemoveElement
<1>4. s # {} => Chosen(s) \in s
  BY DEF Chosen
<1> QED
  BY <1>1, <1>2, <1>3, <1>4

(* The recursion has a solution.                                           *)
LEMMA SumsExists ==
  ASSUME NEW S, IsFiniteSet(S), NEW f
  PROVE  \E sum : Sums(f, SUBSET S, sum)
<1> DEFINE T == {k \in Nat : ~ \E sum : Sums(f, UpTo(S, k), sum)}
<1>1. ASSUME NEW m \in Nat, \A k \in Nat : k < m => k \notin T
      PROVE  m \notin T
  <2>1. CASE m = 0
    <3> DEFINE sum == [s \in UpTo(S, 0) |-> 0]
    <3>1. \A s \in UpTo(S, 0) : s = {}
      BY OneLess DEF UpTo
    <3>2. Sums(f, UpTo(S, 0), sum)
      BY <3>1 DEF Sums
    <3> QED
      BY <2>1, <3>2
  <2>2. CASE m # 0
    <3>1. PICK g : Sums(f, UpTo(S, m - 1), g)
      BY <1>1, <2>2
    <3> DEFINE sum == [s \in UpTo(S, m) |->
                 IF s = {} THEN 0 ELSE f[Chosen(s)] + g[s \ {Chosen(s)}]]
    <3>2. \A s \in UpTo(S, m - 1) : s \in UpTo(S, m)
      BY OneLess DEF UpTo
    <3>3. \A s \in UpTo(S, m - 1) :
            /\ g[s] = IF s = {} THEN 0
                      ELSE f[Chosen(s)] + g[s \ {Chosen(s)}]
            /\ sum[s] = IF s = {} THEN 0
                        ELSE f[Chosen(s)] + g[s \ {Chosen(s)}]
      <4>1. \A s \in UpTo(S, m - 1) :
              g[s] = IF s = {} THEN 0
                     ELSE f[Chosen(s)] + g[s \ {Chosen(s)}]
        BY <3>1 DEF Sums
      <4> QED
        BY <4>1, <3>2
    <3>4. \A s \in UpTo(S, m) : s # {} => s \ {Chosen(s)} \in UpTo(S, m - 1)
      BY OneLess DEF UpTo
    <3>5. \A s \in UpTo(S, m) :
            sum[s] = IF s = {} THEN 0
                     ELSE f[Chosen(s)] + sum[s \ {Chosen(s)}]
      <4> SUFFICES ASSUME NEW s \in UpTo(S, m), s # {}
                   PROVE  sum[s \ {Chosen(s)}] = g[s \ {Chosen(s)}]
        OBVIOUS
      <4> QED
        BY <3>3, <3>4
    <3>6. Sums(f, UpTo(S, m), sum)
      BY <3>5 DEF Sums
    <3> QED
      BY <3>6
  <2> QED
    BY <2>1, <2>2
<1>2. T = {}
  BY <1>1, LeastCounterexample
<1>3. UpTo(S, Cardinality(S)) = SUBSET S
  BY OneLess, FS_Subset, FS_CardinalityType DEF UpTo
<1>4. Cardinality(S) \in Nat /\ Cardinality(S) \notin T
  BY <1>2, FS_CardinalityType
<1>5. PICK sum : Sums(f, UpTo(S, Cardinality(S)), sum)
  BY <1>4
<1> QED
  BY <1>3, <1>5

(* The subsets of a finite set, with their sums.                           *)
SumsOver(S, f, sum) ==
  IsFiniteSet(S) /\ f \in [S -> Nat] /\ Sums(f, SUBSET S, sum)

Additive(S, f, sum) ==
  \A s \in SUBSET S : /\ sum[s] \in Nat
                      /\ s = {} => sum[s] = 0
                      /\ \A x \in s : sum[s] = f[x] + sum[s \ {x}]

(* In whatever order the elements of a set are taken, their sum is the     *)
(* same.                                                                   *)
LEMMA AnyOrder ==
  ASSUME NEW S, NEW f, NEW sum, SumsOver(S, f, sum)
  PROVE  Additive(S, f, sum)
<1> DEFINE Good(s) == /\ sum[s] \in Nat
                      /\ s = {} => sum[s] = 0
                      /\ \A x \in s : sum[s] = f[x] + sum[s \ {x}]
           T == {k \in Nat : ~ \A s \in SUBSET S :
                                 Cardinality(s) = k => Good(s)}
<1> USE DEF SumsOver, Additive
<1>0. \A s \in SUBSET S : sum[s] =
        IF s = {} THEN 0 ELSE f[Chosen(s)] + sum[s \ {Chosen(s)}]
  BY DEF Sums
<1>1. ASSUME NEW m \in Nat, \A k \in Nat : k < m => k \notin T
      PROVE  m \notin T
  <2> SUFFICES ASSUME NEW s \in SUBSET S, Cardinality(s) = m
               PROVE  Good(s)
    OBVIOUS
  <2>1. CASE s = {}
    BY <1>0, <2>1
  <2>2. CASE s # {}
    <3> DEFINE c == Chosen(s)
    <3>1. /\ c \in s /\ sum[s] = f[c] + sum[s \ {c}]
          /\ m - 1 \in Nat /\ m - 1 < m
      BY <1>0, <2>2, OneLess
    <3>2. \A t \in SUBSET S : Cardinality(t) = m - 1 => Good(t)
      BY <1>1, <3>1
    <3> HIDE DEF c
    <3>3. \A x \in s : Good(s \ {x})
      BY <3>2, OneLess
    <3>4. sum[s] \in Nat
      <4>1. f[c] \in Nat
        BY <3>1
      <4>2. sum[s \ {c}] \in Nat
        BY <3>1, <3>3
      <4> QED
        BY <3>1, <4>1, <4>2
    <3>5. ASSUME NEW x \in s
          PROVE  sum[s] = f[x] + sum[s \ {x}]
      <4>1. CASE x = c
        BY <3>1, <4>1
      <4>2. CASE x # c
        <5>1. /\ sum[s \ {c}] = f[x] + sum[(s \ {c}) \ {x}]
              /\ sum[s \ {x}] = f[c] + sum[(s \ {x}) \ {c}]
          BY <3>1, <3>3, <4>2
        <5>2. (s \ {c}) \ {x} = (s \ {x}) \ {c}
          OBVIOUS
        <5>3. /\ f[x] \in Nat /\ f[c] \in Nat
              /\ (s \ {x}) \ {c} \in SUBSET S
              /\ sum[(s \ {x}) \ {c}] \in Nat
          <6>1. /\ c \in s \ {x} /\ s \ {x} \in SUBSET S
                /\ Cardinality(s \ {x}) = m - 1
            BY <3>1, <4>2, OneLess
          <6>2. /\ (s \ {x}) \ {c} \in SUBSET S
                /\ Cardinality((s \ {x}) \ {c}) = m - 1 - 1
                /\ Cardinality((s \ {x}) \ {c}) \in Nat
            <7>1. PICK t : t = s \ {x}
              OBVIOUS
            <7>2. IsFiniteSet(t) /\ c \in t /\ t \ {c} \in SUBSET S
              BY <6>1, <7>1, FS_Subset
            <7>3. /\ IsFiniteSet(t \ {c})
                  /\ Cardinality(t \ {c}) = Cardinality(t) - 1
              BY <7>2, FS_RemoveElement
            <7>4. Cardinality(t \ {c}) \in Nat
              BY <7>3, FS_CardinalityType
            <7> QED
              BY <6>1, <7>1, <7>2, <7>3, <7>4
          <6>3. m - 1 - 1 \in Nat /\ m - 1 - 1 < m
            BY <6>2
          <6>4. Good((s \ {x}) \ {c})
            BY <1>1, <6>2, <6>3
          <6>5. f[x] \in Nat /\ f[c] \in Nat
            BY <3>1
          <6> QED
            BY <6>2, <6>4, <6>5
        <5> HIDE DEF Good
        <5> QED
          <6> DEFINE rest == sum[(s \ {x}) \ {c}]
          <6>1. /\ sum[s \ {c}] = f[x] + rest
                /\ sum[s \ {x}] = f[c] + rest
                /\ sum[s] = f[c] + sum[s \ {c}]
                /\ rest \in Nat
            BY <3>1, <5>1, <5>2, <5>3
          <6>2. f[x] \in Nat /\ f[c] \in Nat
            BY <5>3
          <6> HIDE DEF rest
          <6> QED
            BY <6>1, <6>2
      <4> QED
        BY <4>1, <4>2
    <3> QED
      BY <2>2, <3>4, <3>5
  <2> QED
    BY <2>1, <2>2
<1>2. T = {}
  BY <1>1, LeastCounterexample
<1> QED
  BY <1>2, OneLess

(* Functions that agree on a set have the same sum over it.                *)
LEMMA SameSum ==
  ASSUME NEW S, NEW f, NEW sum, SumsOver(S, f, sum),
         NEW R, NEW g, NEW total, SumsOver(R, g, total),
         NEW t, t \subseteq S, t \subseteq R, \A x \in t : f[x] = g[x]
  PROVE  sum[t] = total[t]
<1> USE DEF SumsOver
<1> DEFINE T == {k \in Nat : ~ \A s \in SUBSET t :
                               Cardinality(s) = k => sum[s] = total[s]}
<1>0. IsFiniteSet(t) /\ t \in SUBSET S /\ t \in SUBSET R
  BY FS_Subset
<1>1. ASSUME NEW m \in Nat, \A k \in Nat : k < m => k \notin T
      PROVE  m \notin T
  <2> SUFFICES ASSUME NEW s \in SUBSET t, Cardinality(s) = m
               PROVE  sum[s] = total[s]
    OBVIOUS
  <2>1. /\ sum[s] = IF s = {} THEN 0
                    ELSE f[Chosen(s)] + sum[s \ {Chosen(s)}]
        /\ total[s] = IF s = {} THEN 0
                      ELSE g[Chosen(s)] + total[s \ {Chosen(s)}]
    BY <1>0 DEF Sums
  <2>2. CASE s = {}
    BY <2>1, <2>2
  <2>3. CASE s # {}
    <3>1. /\ Chosen(s) \in s /\ s \ {Chosen(s)} \in SUBSET t
          /\ Cardinality(s \ {Chosen(s)}) = m - 1
          /\ m - 1 \in Nat /\ m - 1 < m
      BY <1>0, <2>3, OneLess
    <3>2. sum[s \ {Chosen(s)}] = total[s \ {Chosen(s)}]
      BY <1>1, <3>1
    <3> QED
      BY <2>1, <2>3, <3>1, <3>2
  <2> QED
    BY <2>2, <2>3
<1>2. T = {}
  BY <1>1, LeastCounterexample
<1> QED
  BY <1>0, <1>2, OneLess

-----------------------------------------------------------------------------
(* SumFunction takes its value from a solution of the recursion.           *)
LEMMA SumIsTaken ==
  ASSUME NEW S, IsFiniteSet(S), NEW f, f \in [S -> Nat]
  PROVE  \E sum : SumsOver(S, f, sum) /\ SumFunction(f) = sum[S]
<1>1. \E sum : Sums(f, SUBSET DOMAIN f, sum)
  BY SumsExists
<1>2. Sums(f, SUBSET DOMAIN f, CHOOSE sum : Sums(f, SUBSET DOMAIN f, sum))
  BY <1>1
<1>3. DOMAIN f = S
  OBVIOUS
<1> QED
  BY <1>2, <1>3, SumFunctionIs DEF SumsOver

(* The sum over a set with nothing in it is 0.                             *)
LEMMA SumEmpty ==
  ASSUME NEW f \in [{} -> Nat]
  PROVE  SumFunction(f) = 0
<1>1. PICK sum : SumsOver({}, f, sum) /\ SumFunction(f) = sum[{}]
  BY SumIsTaken, FS_EmptySet
<1> QED
  BY <1>1 DEF SumsOver, Sums

(* A sum of natural numbers is one.                                        *)
LEMMA SumType ==
  ASSUME NEW S, IsFiniteSet(S), NEW f \in [S -> Nat]
  PROVE  SumFunction(f) \in Nat
<1>1. PICK sum : SumsOver(S, f, sum) /\ SumFunction(f) = sum[S]
  BY SumIsTaken
<1>2. Additive(S, f, sum) /\ S \in SUBSET S
  BY <1>1, AnyOrder
<1> QED
  BY <1>1, <1>2 DEF Additive

(* A function with one more point has that much more of a sum.             *)
THEOREM SumGrows ==
  ASSUME NEW S, IsFiniteSet(S), NEW x, x \notin S,
         NEW f \in [S \cup {x} -> Nat], NEW g \in [S -> Nat],
         \A y \in S : f[y] = g[y]
  PROVE  SumFunction(g) \in Nat /\ SumFunction(f) = SumFunction(g) + f[x]
<1>0. PICK R : R = S \cup {x}
  OBVIOUS
<1>1. /\ IsFiniteSet(R) /\ DOMAIN f = R /\ f \in [R -> Nat] /\ x \in R
      /\ R \in SUBSET R /\ S \in SUBSET R /\ R \ {x} = S
      /\ DOMAIN g = S /\ S \in SUBSET S
  BY <1>0, FS_AddElement
<1>2. PICK sum : SumsOver(R, f, sum) /\ SumFunction(f) = sum[R]
  BY <1>1, SumIsTaken
<1>3. PICK total : SumsOver(S, g, total) /\ SumFunction(g) = total[S]
  BY <1>1, SumIsTaken
<1>4. Additive(R, f, sum)
  BY <1>2, AnyOrder
<1>5. Additive(S, g, total)
  BY <1>3, AnyOrder
<1>6. S \subseteq S /\ S \subseteq R
  BY <1>1
<1>7. sum[S] = total[S]
  BY <1>1, <1>2, <1>3, <1>6, SameSum
<1>8. sum[R] = f[x] + sum[S]
  <2>1. sum[R] = f[x] + sum[R \ {x}]
    BY <1>1, <1>4 DEF Additive
  <2> QED
    BY <1>1, <2>1
<1>9. total[S] \in Nat /\ f[x] \in Nat
  <2>1. total[S] \in Nat
    BY <1>1, <1>5 DEF Additive
  <2> QED
    BY <1>1, <2>1
<1> QED
  BY <1>2, <1>3, <1>7, <1>8, <1>9

(* A function changed at one point changes its sum by the difference.      *)
THEOREM SumChanges ==
  ASSUME NEW S, IsFiniteSet(S), NEW x \in S,
         NEW f \in [S -> Nat], NEW g \in [S -> Nat],
         \A y \in S \ {x} : f[y] = g[y]
  PROVE  /\ SumFunction(f) \in Nat /\ SumFunction(g) \in Nat
         /\ SumFunction(f) + g[x] = SumFunction(g) + f[x]
         /\ f[x] <= SumFunction(f)
<1>1. PICK rest : rest = S \ {x}
  OBVIOUS
<1>2. PICK sum : SumsOver(S, f, sum) /\ SumFunction(f) = sum[S]
  BY SumIsTaken
<1>3. PICK total : SumsOver(S, g, total) /\ SumFunction(g) = total[S]
  BY SumIsTaken
<1>4. Additive(S, f, sum)
  BY <1>2, AnyOrder
<1>5. Additive(S, g, total)
  BY <1>3, AnyOrder
<1>6. rest \subseteq S /\ S \in SUBSET S
  BY <1>1
<1>7. sum[rest] = total[rest]
  BY <1>1, <1>2, <1>3, <1>6, SameSum
<1>8. /\ sum[S] = f[x] + sum[rest] /\ total[S] = g[x] + sum[rest]
      /\ sum[rest] \in Nat /\ f[x] \in Nat /\ g[x] \in Nat
  BY <1>1, <1>4, <1>5, <1>6, <1>7 DEF Additive
<1> QED
  BY <1>2, <1>3, <1>8
============================================================================
