-------------------------- MODULE CountingTheorems --------------------------
(***************************************************************************)
(* What the proofs need to know of data, stated without operators as         *)
(* parameters: induction over the natural numbers and over finite sets, the  *)
(* last of a set of positions, the least and the greatest number of a set,   *)
(* a sequence with an element appended, and SumFunctionOnSet, the sum of the  *)
(* values of a function over a finite set.                                   *)
(*                                                                         *)
(* The sum is defined by recursion over subsets.  Induction over them is     *)
(* stated as: a non-empty set of finite subsets has a member none of whose   *)
(* strict subsets is in it.                                                  *)
(***************************************************************************)
EXTENDS FiniteSetsExt, SequenceTheorems, FiniteSetTheorems, TLAPS

Pick(s) == CHOOSE x \in s : TRUE

(* g computes the sum over each subset of S. *)
IsFold(g, f, S) ==
  g = [s \in SUBSET S |-> IF s = {} THEN 0 ELSE f[Pick(s)] + g[s \ {Pick(s)}]]

LEMMA PickIn == ASSUME NEW s, s # {} PROVE Pick(s) \in s
BY DEF Pick

(* A set of subsets of a finite set that is not empty has a smallest one. *)
LEMMA Smallest ==
  ASSUME NEW S, IsFiniteSet(S), NEW C \in SUBSET (SUBSET S), C # {}
  PROVE  \E T \in C : \A U \in C : ~(U \subseteq T /\ U # T)
<1>1. IsWellFoundedOn(StrictSubsetOrdering(S), FiniteSubsetsOf(S))
  BY FS_StrictSubsetOrderingWellFounded
<1>2. FiniteSubsetsOf(S) = SUBSET S
  BY FS_FiniteSubsetsOfFinite
<1>3. \E T \in C : \A U \in C : <<U, T>> \notin StrictSubsetOrdering(S)
  BY <1>1, <1>2, WFMin
<1> QED
  BY <1>3 DEF StrictSubsetOrdering

(* Induction over the natural numbers, for a set of them. *)
LEMMA Induction ==
  ASSUME NEW C \in SUBSET Nat, 0 \in C, \A n \in C : n + 1 \in C
  PROVE  C = Nat
<1> SUFFICES ASSUME Nat \ C # {} PROVE FALSE
  OBVIOUS
<1>1. IsWellFoundedOn(OpToRel(<, Nat), Nat)
  BY NatLessThanWellFounded, Zenon
<1>2. PICK n \in Nat \ C : \A m \in Nat \ C : <<m, n>> \notin OpToRel(<, Nat)
  <2> DEFINE R == OpToRel(<, Nat)
             T == Nat \ C
  <2>1. IsWellFoundedOn(R, Nat) /\ T \subseteq Nat /\ T # {}
    BY <1>1
  <2> HIDE DEF R, T
  <2>2. \E x \in T : \A y \in T : <<y, x>> \notin R
    BY <2>1, WFMin
  <2> QED
    BY <2>2 DEF R, T
<1>3. \A m \in Nat \ C : ~(m < n)
  BY <1>2 DEF OpToRel
<1>4. n # 0 /\ n - 1 \in Nat /\ n - 1 < n /\ (n - 1) + 1 = n
  OBVIOUS
<1> QED
  BY <1>3, <1>4

(* The recursion has a solution: on the subsets of each set, hence on all. *)
LEMMA FoldExists ==
  ASSUME NEW S, IsFiniteSet(S), NEW f
  PROVE  \E g : IsFold(g, f, S)
<1> DEFINE Small(n) == {s \in SUBSET S : Cardinality(s) <= n}
           Works(g, n) == g = [s \in Small(n) |-> IF s = {} THEN 0
                                  ELSE f[Pick(s)] + g[s \ {Pick(s)}]]
           N == Cardinality(S)
<1>1. N \in Nat /\ \A s \in SUBSET S : IsFiniteSet(s) /\ Cardinality(s) \in Nat
                                        /\ Cardinality(s) <= N
  BY FS_CardinalityType, FS_Subset
<1>2. Small(N) = SUBSET S
  BY <1>1
<1>3. Small(0) = {{}}
  BY <1>1, FS_EmptySet
<1>4. \E g : Works(g, 0)
  <2> DEFINE g == [s \in Small(0) |-> 0]
  <2>1. Works(g, 0)
    BY <1>3
  <2> QED
    BY <2>1
<1>5. ASSUME NEW n \in Nat, NEW g, Works(g, n)
      PROVE  \E h : Works(h, n + 1)
  <2> DEFINE h == [s \in Small(n + 1) |-> IF s = {} THEN 0
                                          ELSE f[Pick(s)] + g[s \ {Pick(s)}]]
  <2>1. ASSUME NEW s \in Small(n + 1), s # {}
        PROVE  /\ s \ {Pick(s)} \in Small(n)
               /\ h[s \ {Pick(s)}] = g[s \ {Pick(s)}]
    <3>1. Pick(s) \in s
      BY <2>1, PickIn
    <3>2. Cardinality(s \ {Pick(s)}) = Cardinality(s) - 1
      BY <1>1, <3>1, FS_RemoveElement
    <3>3. s \ {Pick(s)} \in Small(n)
      BY <1>1, <3>2
    <3>4. Small(n) \subseteq Small(n + 1)
      BY <1>1
    <3> DEFINE t == s \ {Pick(s)}
    <3>5. t \in Small(n) /\ t \in Small(n + 1)
      BY <3>3, <3>4
    <3>6. h[t] = IF t = {} THEN 0 ELSE f[Pick(t)] + g[t \ {Pick(t)}]
      BY <3>5
    <3>7. g[t] = IF t = {} THEN 0 ELSE f[Pick(t)] + g[t \ {Pick(t)}]
      BY <3>5, <1>5
    <3> QED
      BY <3>3, <3>6, <3>7
  <2>2. Works(h, n + 1)
    BY <2>1
  <2> QED
    BY <2>2
<1>6. {n \in Nat : \E g : Works(g, n)} = Nat
  <2> DEFINE C == {n \in Nat : \E g : Works(g, n)}
  <2> HIDE DEF Works
  <2>1. 0 \in C
    BY <1>4
  <2>2. \A n \in C : n + 1 \in C
    BY <1>5
  <2> HIDE DEF C
  <2>3. C \in SUBSET Nat
    BY DEF C
  <2>4. C = Nat
    BY <2>1, <2>2, <2>3, Induction
  <2> QED
    BY <2>4 DEF C
<1>7. PICK g : Works(g, N)
  <2> HIDE DEF Works
  <2> QED
    BY <1>1, <1>6
<1>8. IsFold(g, f, S)
  BY <1>2, <1>7 DEF IsFold
<1> QED
  BY <1>8

(* The sum of the empty set is 0; what a fold gives a subset is a natural    *)
(* number, and any of its elements can be taken out.                        *)
LEMMA FoldEquation ==
  ASSUME NEW S, NEW f, NEW g, IsFold(g, f, S)
  PROVE  /\ g[{}] = 0
         /\ \A s \in SUBSET S : s # {} => g[s] = f[Pick(s)] + g[s \ {Pick(s)}]
BY DEF IsFold

LEMMA FoldNat ==
  ASSUME NEW S, IsFiniteSet(S), NEW f, \A x \in S : f[x] \in Nat,
         NEW g, IsFold(g, f, S)
  PROVE  \A s \in SUBSET S : g[s] \in Nat
<1> DEFINE C == {s \in SUBSET S : g[s] \notin Nat}
<1> SUFFICES ASSUME C # {} PROVE FALSE
  OBVIOUS
<1>1. PICK T \in C : \A U \in C : ~(U \subseteq T /\ U # T)
  <2>1. C \in SUBSET (SUBSET S)
    OBVIOUS
  <2> HIDE DEF C
  <2> QED
    BY <2>1, Smallest
<1>2. T \in SUBSET S /\ g[T] \notin Nat
  OBVIOUS
<1>3. T # {}
  BY <1>2, FoldEquation
<1> DEFINE p == Pick(T)
<1>4. p \in T
  BY <1>3, PickIn
<1>5. g[T \ {p}] \in Nat
  BY <1>1, <1>2, <1>4
<1>6. g[T] = f[p] + g[T \ {p}]
  <2>1. \A s \in SUBSET S : s # {} => g[s] = f[Pick(s)] + g[s \ {Pick(s)}]
    BY FoldEquation
  <2> QED
    BY <1>2, <1>3, <2>1
<1> HIDE DEF p, C
<1>7. f[p] \in Nat
  BY <1>2, <1>4
<1> QED
  BY <1>2, <1>5, <1>6, <1>7

LEMMA FoldRemove ==
  ASSUME NEW S, IsFiniteSet(S), NEW f, \A x \in S : f[x] \in Nat,
         NEW g, IsFold(g, f, S)
  PROVE  \A s \in SUBSET S : \A x \in s : g[s] = f[x] + g[s \ {x}]
<1> DEFINE C == {s \in SUBSET S : ~ \A x \in s : g[s] = f[x] + g[s \ {x}]}
<1> SUFFICES ASSUME C # {} PROVE FALSE
  OBVIOUS
<1>1. PICK T \in C : \A U \in C : ~(U \subseteq T /\ U # T)
  <2>1. C \in SUBSET (SUBSET S)
    OBVIOUS
  <2> HIDE DEF C
  <2> QED
    BY <2>1, Smallest
<1>2. T \in SUBSET S
  OBVIOUS
<1>3. PICK x \in T : g[T] # f[x] + g[T \ {x}]
  OBVIOUS
<1> DEFINE p == Pick(T)
<1>4. p \in T
  BY <1>3, PickIn
<1>5. g[T] = f[p] + g[T \ {p}]
  <2>1. \A s \in SUBSET S : s # {} => g[s] = f[Pick(s)] + g[s \ {Pick(s)}]
    BY FoldEquation
  <2> QED
    BY <1>2, <1>3, <2>1
<1>6. p # x
  BY <1>3, <1>5
<1> HIDE DEF p
<1> DEFINE both == T \ {p, x}
<1>7. /\ T \ {p} \in SUBSET S /\ T \ {x} \in SUBSET S /\ both \in SUBSET S
      /\ (T \ {p}) \ {x} = both /\ (T \ {x}) \ {p} = both
      /\ x \in T \ {p} /\ p \in T \ {x}
      /\ T \ {p} # T /\ T \ {x} # T
  BY <1>2, <1>4, <1>6
<1>8. T \ {p} \notin C /\ T \ {x} \notin C
  BY <1>1, <1>7
<1>9. g[T \ {p}] = f[x] + g[both] /\ g[T \ {x}] = f[p] + g[both]
  BY <1>7, <1>8
<1>10. g[both] \in Nat /\ f[p] \in Nat /\ f[x] \in Nat
  BY <1>2, <1>4, <1>7, FoldNat
<1> HIDE DEF both, C
<1>11. g[T] = f[p] + (f[x] + g[both]) /\ f[x] + g[T \ {x}] = f[x] + (f[p] + g[both])
  BY <1>5, <1>9
<1> QED
  BY <1>3, <1>10, <1>11

LEMMA FoldLocal ==
  ASSUME NEW S, IsFiniteSet(S), NEW f, NEW g, IsFold(g, f, S),
         NEW T, IsFiniteSet(T), NEW e, NEW h, IsFold(h, e, T),
         NEW R \in SUBSET (S \cap T), \A x \in R : f[x] = e[x]
  PROVE  g[R] = h[R]
<1> DEFINE C == {s \in SUBSET R : g[s] # h[s]}
<1> SUFFICES ASSUME C # {} PROVE FALSE
  OBVIOUS
<1>1. PICK U \in C : \A V \in C : ~(V \subseteq U /\ V # U)
  <2>1. C \in SUBSET (SUBSET R) /\ IsFiniteSet(R)
    BY FS_Subset
  <2> HIDE DEF C
  <2> QED
    BY <2>1, Smallest
<1>2. U \in SUBSET R /\ U \in SUBSET S /\ U \in SUBSET T /\ g[U] # h[U]
  OBVIOUS
<1>3. U # {}
  BY <1>2, FoldEquation
<1> DEFINE p == Pick(U)
<1>4. p \in U
  BY <1>3, PickIn
<1>5. g[U \ {p}] = h[U \ {p}]
  BY <1>1, <1>2, <1>4
<1>6. g[U] = f[p] + g[U \ {p}]
  <2>1. \A s \in SUBSET S : s # {} => g[s] = f[Pick(s)] + g[s \ {Pick(s)}]
    BY FoldEquation
  <2> QED
    BY <1>2, <1>3, <2>1
<1>7. h[U] = e[p] + h[U \ {p}]
  <2>1. \A s \in SUBSET T : s # {} => h[s] = e[Pick(s)] + h[s \ {Pick(s)}]
    BY FoldEquation
  <2> QED
    BY <1>2, <1>3, <2>1
<1> HIDE DEF p, C
<1> QED
  BY <1>2, <1>4, <1>5, <1>6, <1>7

(* The sum is what some fold gives. *)
LEMMA SumIsFold ==
  ASSUME NEW S, IsFiniteSet(S), NEW f
  PROVE  \E g : IsFold(g, f, S) /\ SumFunctionOnSet(f, S) = g[S]
<1> DEFINE g == CHOOSE h : IsFold(h, f, S)
<1>1. SumFunctionOnSet(f, S) = g[S]
  BY DEF SumFunctionOnSet, FoldFunctionOnSet, MapThenFoldSet, Pick, IsFold
<1>2. IsFold(g, f, S)
  BY FoldExists
<1> QED
  BY <1>1, <1>2

------------------------------------------------------------------------------
(* Nothing sums to 0. *)
THEOREM SumEmpty == ASSUME NEW f PROVE SumFunctionOnSet(f, {}) = 0
BY SumIsFold, FoldEquation, FS_EmptySet

(* A sum of natural numbers is one. *)
THEOREM SumNat ==
  ASSUME NEW S, IsFiniteSet(S), NEW f, \A x \in S : f[x] \in Nat
  PROVE  SumFunctionOnSet(f, S) \in Nat
BY SumIsFold, FoldNat

(* The sum depends on the values over the set only. *)
THEOREM SumLocal ==
  ASSUME NEW S, IsFiniteSet(S), NEW f, NEW e, \A x \in S : f[x] = e[x]
  PROVE  SumFunctionOnSet(f, S) = SumFunctionOnSet(e, S)
<1>1. PICK g : IsFold(g, f, S) /\ SumFunctionOnSet(f, S) = g[S]
  BY SumIsFold
<1>2. PICK h : IsFold(h, e, S) /\ SumFunctionOnSet(e, S) = h[S]
  BY SumIsFold
<1>3. g[S] = h[S]
  BY <1>1, <1>2, FoldLocal
<1> QED
  BY <1>1, <1>2, <1>3

(* An element adds its value, whichever it is. *)
THEOREM SumAdd ==
  ASSUME NEW S, IsFiniteSet(S), NEW f, \A x \in S : f[x] \in Nat, NEW x \in S
  PROVE  SumFunctionOnSet(f, S) = f[x] + SumFunctionOnSet(f, S \ {x})
<1>1. PICK g : IsFold(g, f, S) /\ SumFunctionOnSet(f, S) = g[S]
  BY SumIsFold
<1>2. IsFiniteSet(S \ {x})
  BY FS_RemoveElement
<1>3. PICK h : IsFold(h, f, S \ {x}) /\ SumFunctionOnSet(f, S \ {x}) = h[S \ {x}]
  BY <1>2, SumIsFold
<1>4. g[S] = f[x] + g[S \ {x}]
  BY <1>1, FoldRemove
<1>5. g[S \ {x}] = h[S \ {x}]
  BY <1>1, <1>2, <1>3, FoldLocal
<1> QED
  BY <1>1, <1>3, <1>4, <1>5

(* When one value grows by d, so does the sum. *)
THEOREM SumUpdate ==
  ASSUME NEW S, IsFiniteSet(S), NEW x \in S, NEW d \in Nat,
         NEW f, \A y \in S : f[y] \in Nat,
         NEW e, \A y \in S : e[y] = IF y = x THEN f[y] + d ELSE f[y]
  PROVE  SumFunctionOnSet(e, S) = SumFunctionOnSet(f, S) + d
<1> DEFINE rest == SumFunctionOnSet(f, S \ {x})
<1>1. IsFiniteSet(S \ {x})
  BY FS_RemoveElement
<1>2. rest \in Nat
  BY <1>1, SumNat
<1>3. \A y \in S : e[y] \in Nat
  OBVIOUS
<1>4. SumFunctionOnSet(e, S \ {x}) = rest
  BY <1>1, SumLocal
<1>5. /\ SumFunctionOnSet(f, S) = f[x] + rest
      /\ SumFunctionOnSet(e, S) = e[x] + rest
  BY <1>3, <1>4, SumAdd
<1>6. e[x] = f[x] + d /\ f[x] \in Nat
  OBVIOUS
<1> HIDE DEF rest
<1> QED
  BY <1>2, <1>5, <1>6

(* The same of a function and the sum of all its values, counted up by one. *)
THEOREM CountUp ==
  ASSUME NEW S, IsFiniteSet(S), NEW x \in S,
         NEW f \in [S -> Nat], NEW e \in [S -> Nat],
         \A y \in S : e[y] = IF y = x THEN f[y] + 1 ELSE f[y]
  PROVE  SumFunction(e) = SumFunction(f) + 1
<1> DEFINE d == 1
<1>1. d \in Nat
  OBVIOUS
<1>2. \A y \in S : e[y] = IF y = x THEN f[y] + d ELSE f[y]
  OBVIOUS
<1>3. \A y \in S : f[y] \in Nat
  OBVIOUS
<1> HIDE DEF d
<1>4. SumFunctionOnSet(e, S) = SumFunctionOnSet(f, S) + d
  BY <1>1, <1>2, <1>3, SumUpdate
<1>5. DOMAIN e = S /\ DOMAIN f = S
  OBVIOUS
<1> QED
  BY <1>4, <1>5 DEF SumFunction, d

(* When no value is above zero, the sum is 0. *)
THEOREM SumZero ==
  ASSUME NEW S, IsFiniteSet(S), NEW f, \A x \in S : f[x] = 0
  PROVE  SumFunctionOnSet(f, S) = 0
<1>1. PICK g : IsFold(g, f, S) /\ SumFunctionOnSet(f, S) = g[S]
  BY SumIsFold
<1> DEFINE C == {s \in SUBSET S : g[s] # 0}
<1> SUFFICES ASSUME C # {} PROVE FALSE
  BY <1>1
<1>2. PICK T \in C : \A U \in C : ~(U \subseteq T /\ U # T)
  <2>1. C \in SUBSET (SUBSET S)
    OBVIOUS
  <2> HIDE DEF C
  <2> QED
    BY <2>1, Smallest
<1>3. T # {}
  BY <1>1, FoldEquation
<1> DEFINE p == Pick(T)
<1>4. p \in T
  BY <1>3, PickIn
<1>5. g[T \ {p}] = 0
  BY <1>2, <1>4
<1>6. g[T] = f[p] + g[T \ {p}]
  BY <1>1, <1>3, FoldEquation
<1> QED
  BY <1>4, <1>5, <1>6

------------------------------------------------------------------------------
(* A set of positions that is not empty has a last one. *)
THEOREM HasLast ==
  ASSUME NEW n \in Nat, NEW S \in SUBSET (1..n), S # {}
  PROVE  \E last \in S : \A i \in S : i <= last
<1> DEFINE C == {m \in Nat : \A R \in SUBSET (1..m) :
                     R # {} => \E last \in R : \A i \in R : i <= last}
<1>1. 0 \in C
  <2>1. 1..0 = {}
    OBVIOUS
  <2> QED
    BY <2>1
<1>2. ASSUME NEW m \in C PROVE m + 1 \in C
  <2> SUFFICES ASSUME NEW R \in SUBSET (1..m + 1), R # {}
               PROVE  \E last \in R : \A i \in R : i <= last
    OBVIOUS
  <2>1. CASE m + 1 \in R
    BY <2>1
  <2>2. CASE m + 1 \notin R
    <3>1. R \in SUBSET (1..m)
      BY <2>2
    <3> QED
      BY <3>1
  <2> QED
    BY <2>1, <2>2
<1>3. C \in SUBSET Nat
  OBVIOUS
<1> HIDE DEF C
<1>4. C = Nat
  BY <1>1, <1>2, <1>3, Induction
<1> QED
  BY <1>4 DEF C

(* Min and Max are the least and the greatest number of a set. *)
IsLeast(m, S)    == m \in S /\ \A x \in S : m <= x
IsGreatest(m, S) == m \in S /\ \A x \in S : x <= m

THEOREM MinIsLeast ==
  ASSUME NEW S \in SUBSET Int, NEW m, IsLeast(m, S)
  PROVE  Min(S) = m
<1>1. \A x \in S : (\A y \in S : x <= y) <=> x = m
  BY DEF IsLeast
<1>2. Min(S) \in S /\ \A y \in S : Min(S) <= y
  BY DEF Min, IsLeast
<1> QED
  BY <1>1, <1>2

THEOREM MaxIsGreatest ==
  ASSUME NEW S \in SUBSET Int, NEW m, IsGreatest(m, S)
  PROVE  Max(S) = m
<1>1. \A x \in S : (\A y \in S : x >= y) <=> x = m
  BY DEF IsGreatest
<1>2. Max(S) \in S /\ \A y \in S : Max(S) >= y
  BY DEF Max, IsGreatest
<1> QED
  BY <1>1, <1>2

(* What appending an element does to a sequence and to its positions. *)
THEOREM Appended ==
  ASSUME NEW T, NEW s \in Seq(T), NEW x \in T, NEW r, r = Append(s, x)
  PROVE  /\ r \in Seq(T)
         /\ Len(s) \in Nat /\ Len(r) = Len(s) + 1 /\ r[Len(s) + 1] = x
         /\ DOMAIN s = 1..Len(s)
         /\ DOMAIN r = DOMAIN s \cup {Len(s) + 1}
         /\ Len(s) + 1 \notin DOMAIN s
         /\ \A i \in DOMAIN s : r[i] = s[i] /\ i \in Nat /\ i < Len(s) + 1
<1>1. /\ r \in Seq(T) /\ Len(r) = Len(s) + 1 /\ r[Len(s) + 1] = x
      /\ \A i \in 1..Len(s) : r[i] = s[i]
  BY AppendProperties
<1>2. Len(s) \in Nat /\ DOMAIN s = 1..Len(s) /\ DOMAIN r = 1..Len(r)
  BY <1>1, LenProperties
<1> QED
  BY <1>1, <1>2
==============================================================================
