-------------------------------- MODULE Sums --------------------------------
(***************************************************************************)
(* Facts about SumFunctionOnSet, which the bills, the stock and the cash   *)
(* sessions are summed up with, for any function and any finite set.       *)
(*                                                                         *)
(* The library's induction theorems take an operator as a parameter.  Here *)
(* induction is stated with a set: that of the numbers, or of the sets,    *)
(* for which the claim holds.                                              *)
(***************************************************************************)
EXTENDS Functions, FiniteSetTheorems, TLAPS

(* Less than, as a set of pairs. *)
Smaller == {ss \in Nat \X Nat : ss[1] < ss[2]}

LEMMA SmallerIsWellFounded == IsWellFoundedOn(Smaller, Nat)
  <1>1. OpToRel(<, Nat) = Smaller
    BY Zenon DEF OpToRel, Smaller
  <1> QED
    BY <1>1, NatLessThanWellFounded, Zenon

LEMMA LeastNumber ==
    ASSUME NEW S, S \subseteq Nat, S # {}
    PROVE  \E n \in S : \A m \in S : n <= m
  <1>1. PICK n \in S : \A m \in S : <<m, n>> \notin Smaller
    BY WFMin, SmallerIsWellFounded, Zenon
  <1>2. \A m \in S : ~ (m < n)
    BY <1>1 DEF Smaller
  <1> QED
    BY <1>2

(* Induction over the natural numbers. *)
LEMMA NumberInduction ==
    ASSUME NEW S, 0 \in S, \A n \in Nat : n \in S => n + 1 \in S
    PROVE  Nat \subseteq S
  <1> SUFFICES ASSUME Nat \ S # {} PROVE FALSE
    OBVIOUS
  <1>1. PICK n \in Nat \ S : \A m \in Nat \ S : n <= m
    BY LeastNumber
  <1>2. n - 1 \in Nat
    BY <1>1
  <1>3. n - 1 \in S
    BY <1>1, <1>2
  <1> QED
    BY <1>1, <1>2, <1>3

LEMMA OneLess ==
    ASSUME NEW S, IsFiniteSet(S), NEW x \in S
    PROVE  /\ IsFiniteSet(S \ {x})
           /\ Cardinality(S) \in Nat \ {0}
           /\ Cardinality(S \ {x}) = Cardinality(S) - 1
  <1>1. Cardinality(S) \in Nat /\ Cardinality(S) # 0
    BY FS_CardinalityType, FS_EmptySet
  <1> QED
    BY <1>1, FS_RemoveElement, Zenon

(* Induction over the subsets of a finite set. *)
LEMMA FiniteSetInduction ==
    ASSUME NEW U, IsFiniteSet(U), NEW P, {} \in P,
           \A T \in SUBSET U, x \in U : T \in P /\ x \notin T => T \cup {x} \in P
    PROVE  SUBSET U \subseteq P
  <1> DEFINE S == {n \in Nat : \A T \in SUBSET U : Cardinality(T) = n => T \in P}
  <1>1. \A T \in SUBSET U : IsFiniteSet(T) /\ Cardinality(T) \in Nat
    BY FS_Subset, FS_CardinalityType
  <1>2. 0 \in S
    BY <1>1, FS_EmptySet
  <1>3. ASSUME NEW n \in Nat, n \in S
        PROVE  n + 1 \in S
    <2> SUFFICES ASSUME NEW T \in SUBSET U, Cardinality(T) = n + 1
                 PROVE  T \in P
      OBVIOUS
    <2>1. PICK x \in T : TRUE
      BY <1>1, FS_EmptySet
    <2>2. Cardinality(T \ {x}) = n
      BY <1>1, <2>1, OneLess
    <2>3. T \ {x} \in P
      BY <1>3, <2>2
    <2>4. T = (T \ {x}) \cup {x}
      BY <2>1
    <2> QED
      BY <2>1, <2>3, <2>4
  <1>4. Nat \subseteq S
    <2> HIDE DEF S
    <2> QED
      BY <1>2, <1>3, NumberInduction
  <1> QED
    BY <1>1, <1>4

-----------------------------------------------------------------------------
(* The function that the fold is defined by: it[s] is the sum over s. *)
SumsOf(f, it, S) ==
    it = [s \in SUBSET S |-> IF s = {} THEN 0
                             ELSE LET x == CHOOSE x \in s : TRUE
                                  IN  f[x] + it[s \ {x}]]

LEMMA SumUnfolds ==
    ASSUME NEW f, NEW S
    PROVE  SumFunctionOnSet(f, S) = (CHOOSE it : SumsOf(f, it, S))[S]
  BY DEF SumFunctionOnSet, FoldFunctionOnSet, MapThenFoldSet, SumsOf

LEMMA SumsAtEmpty ==
    ASSUME NEW f, NEW it, NEW S, SumsOf(f, it, S)
    PROVE  it[{}] = 0
  BY DEF SumsOf

LEMMA SumsAtNonempty ==
    ASSUME NEW f, NEW it, NEW S, SumsOf(f, it, S), NEW s \in SUBSET S, s # {}
    PROVE  LET x == CHOOSE x \in s : TRUE IN it[s] = f[x] + it[s \ {x}]
  BY DEF SumsOf

LEMMA SumsUnique ==
    ASSUME NEW f, NEW a, NEW b, NEW S, NEW T \in SUBSET S, IsFiniteSet(T),
           SumsOf(f, a, S), SumsOf(f, b, T)
    PROVE  a[T] = b[T]
  <1> DEFINE P == {s \in SUBSET T : a[s] = b[s]}
             N == {n \in Nat : \A s \in SUBSET T : Cardinality(s) = n => s \in P}
  <1>1. \A s \in SUBSET T : IsFiniteSet(s) /\ Cardinality(s) \in Nat
    BY FS_Subset, FS_CardinalityType
  <1>2. 0 \in N
    <2>1. \A s \in SUBSET T : Cardinality(s) = 0 => s = {}
      BY <1>1, FS_EmptySet
    <2> QED
      BY <2>1, SumsAtEmpty
  <1>3. ASSUME NEW n \in Nat, n \in N
        PROVE  n + 1 \in N
    <2> SUFFICES ASSUME NEW s \in SUBSET T, Cardinality(s) = n + 1
                 PROVE  a[s] = b[s]
      OBVIOUS
    <2> DEFINE x == CHOOSE x \in s : TRUE
    <2>1. s # {} /\ s \in SUBSET S
      BY FS_EmptySet
    <2>2. x \in s
      BY <2>1
    <2>3. Cardinality(s \ {x}) = n
      <3>1. Cardinality(s \ {x}) = Cardinality(s) - 1
        BY <1>1, <2>2, OneLess, Zenon
      <3> QED
        BY <3>1
    <2>4. a[s \ {x}] = b[s \ {x}]
      BY <1>3, <2>3
    <2>5. a[s] = f[x] + a[s \ {x}] /\ b[s] = f[x] + b[s \ {x}]
      <3> HIDE DEF P, N
      <3> QED
        BY <2>1, SumsAtNonempty
    <2> QED
      BY <2>4, <2>5, Zenon
  <1>4. Nat \subseteq N
    <2> HIDE DEF N
    <2> QED
      BY <1>2, <1>3, NumberInduction
  <1>5. T \in P
    BY <1>1, <1>4
  <1> QED
    BY <1>5

LEMMA SumsExist ==
    ASSUME NEW f, NEW S, IsFiniteSet(S)
    PROVE  \E it : SumsOf(f, it, S)
  <1> DEFINE
        Step(it) == [s \in SUBSET S |-> IF s = {} THEN 0
                                        ELSE LET x == CHOOSE x \in s : TRUE
                                             IN  f[x] + it[s \ {x}]]
        UpTo(it, n) == /\ it = [s \in SUBSET S |-> it[s]]
                       /\ \A s \in SUBSET S : Cardinality(s) <= n => it[s] = Step(it)[s]
        N == {n \in Nat : \E it : UpTo(it, n)}
  <1>1. \A s \in SUBSET S : IsFiniteSet(s) /\ Cardinality(s) \in Nat
                            /\ Cardinality(s) <= Cardinality(S)
    BY FS_Subset, FS_CardinalityType
  <1>2. 0 \in N
    <2> DEFINE it == [s \in SUBSET S |-> 0]
    <2>1. \A s \in SUBSET S : Cardinality(s) <= 0 => s = {}
      BY <1>1, FS_EmptySet
    <2>2. UpTo(it, 0)
      BY <2>1
    <2> HIDE DEF it, UpTo
    <2> QED
      BY <2>2
  <1>3. ASSUME NEW n \in Nat, n \in N
        PROVE  n + 1 \in N
    <2>1. PICK it : UpTo(it, n)
      BY <1>3
    <2> DEFINE next == Step(it)
    <2>2. ASSUME NEW s \in SUBSET S, Cardinality(s) <= n + 1
          PROVE  next[s] = Step(next)[s]
      <3> DEFINE x == CHOOSE x \in s : TRUE
      <3>1. CASE s = {}
        BY <3>1
      <3>2. CASE s # {}
        <4>1. x \in s
          BY <3>2
        <4>2. s \ {x} \in SUBSET S /\ Cardinality(s \ {x}) <= n
          <5>1. Cardinality(s \ {x}) = Cardinality(s) - 1 /\ Cardinality(s) \in Nat
            BY <1>1, <4>1, OneLess, Zenon
          <5> QED
            BY <2>2, <5>1
        <4>3. it[s \ {x}] = next[s \ {x}]
          BY <2>1, <4>2
        <4>4. next[s] = f[x] + it[s \ {x}]
          BY <3>2
        <4>5. Step(next)[s] = f[x] + next[s \ {x}]
          <5> HIDE DEF next
          <5> QED
            BY <3>2
        <4> QED
          BY <4>3, <4>4, <4>5, Zenon
      <3> QED
        BY <3>1, <3>2
    <2>3. UpTo(next, n + 1)
      <3>1. next = [s \in SUBSET S |-> next[s]]
        OBVIOUS
      <3> HIDE DEF next, Step
      <3> QED
        BY <2>2, <3>1
    <2> HIDE DEF next, UpTo
    <2> QED
      BY <2>3
  <1>4. Nat \subseteq N
    <2> HIDE DEF N
    <2> QED
      BY <1>2, <1>3, NumberInduction
  <1>5. PICK it : UpTo(it, Cardinality(S))
    BY <1>4, FS_CardinalityType
  <1>6. it = Step(it)
    <2>1. it = [s \in SUBSET S |-> it[s]] /\ \A s \in SUBSET S : it[s] = Step(it)[s]
      BY <1>1, <1>5
    <2> QED
      BY <2>1
  <1> QED
    BY <1>6, Zenon DEF SumsOf

(* The sum unfolds at the element that CHOOSE takes. *)
LEMMA SumAtChosen ==
    ASSUME NEW f, NEW S, IsFiniteSet(S)
    PROVE  /\ SumFunctionOnSet(f, {}) = 0
           /\ S # {} => LET x == CHOOSE x \in S : TRUE
                        IN  SumFunctionOnSet(f, S) = f[x] + SumFunctionOnSet(f, S \ {x})
  <1> DEFINE it(T) == CHOOSE it : SumsOf(f, it, T)
             x == CHOOSE x \in S : TRUE
  <1>1. ASSUME NEW T, IsFiniteSet(T)
        PROVE  SumsOf(f, it(T), T) /\ SumFunctionOnSet(f, T) = it(T)[T]
    BY <1>1, SumsExist, SumUnfolds, Zenon
  <1> HIDE DEF it
  <1>2. SumFunctionOnSet(f, {}) = 0
    BY <1>1, SumsAtEmpty, FS_EmptySet
  <1>3. ASSUME S # {}
        PROVE  SumFunctionOnSet(f, S) = f[x] + SumFunctionOnSet(f, S \ {x})
    <2>1. IsFiniteSet(S \ {x}) /\ S \ {x} \in SUBSET S
      BY FS_RemoveElement
    <2>2. it(S)[S] = f[x] + it(S)[S \ {x}]
      BY <1>1, <1>3, SumsAtNonempty
    <2>3. it(S)[S \ {x}] = it(S \ {x})[S \ {x}]
      BY <1>1, <2>1, SumsUnique
    <2> QED
      BY <1>1, <2>1, <2>2, <2>3, Zenon
  <1> QED
    BY <1>2, <1>3

-----------------------------------------------------------------------------
(* What the modules with sums use. *)
LEMMA SumEmpty == \A f : SumFunctionOnSet(f, {}) = 0
  BY SumAtChosen, FS_EmptySet

LEMMA SumType ==
    ASSUME NEW f, NEW S, IsFiniteSet(S), \A x \in S : f[x] \in Int
    PROVE  SumFunctionOnSet(f, S) \in Int
  <1> DEFINE N == {n \in Nat : \A T \in SUBSET S :
                      Cardinality(T) = n => SumFunctionOnSet(f, T) \in Int}
  <1>1. \A T \in SUBSET S : IsFiniteSet(T) /\ Cardinality(T) \in Nat
    BY FS_Subset, FS_CardinalityType
  <1>2. 0 \in N
    BY <1>1, FS_EmptySet, SumEmpty
  <1>3. ASSUME NEW n \in Nat, n \in N
        PROVE  n + 1 \in N
    <2> SUFFICES ASSUME NEW T \in SUBSET S, Cardinality(T) = n + 1
                 PROVE  SumFunctionOnSet(f, T) \in Int
      OBVIOUS
    <2> DEFINE x == CHOOSE x \in T : TRUE
    <2>1. T # {} /\ x \in T
      BY FS_EmptySet
    <2>2. SumFunctionOnSet(f, T) = f[x] + SumFunctionOnSet(f, T \ {x})
      BY <1>1, <2>1, SumAtChosen, Zenon
    <2>3. Cardinality(T \ {x}) = Cardinality(T) - 1
      BY <1>1, <2>1, OneLess, Zenon
    <2> HIDE DEF x
    <2> QED
      BY <1>3, <2>1, <2>2, <2>3
  <1>4. Nat \subseteq N
    <2> HIDE DEF N
    <2> QED
      BY <1>2, <1>3, NumberInduction
  <1> QED
    BY <1>1, <1>4

(* It unfolds at any element: the order does not matter. *)
LEMMA SumRemoves ==
    ASSUME NEW f, NEW S, IsFiniteSet(S), \A x \in S : f[x] \in Int, NEW y \in S
    PROVE  SumFunctionOnSet(f, S) = f[y] + SumFunctionOnSet(f, S \ {y})
  <1> DEFINE Sum(T) == SumFunctionOnSet(f, T)
             N == {n \in Nat : \A T \in SUBSET S : Cardinality(T) = n =>
                                   \A x \in T : Sum(T) = f[x] + Sum(T \ {x})}
  <1>1. \A T \in SUBSET S : /\ IsFiniteSet(T) /\ Cardinality(T) \in Nat
                            /\ Sum(T) \in Int
    BY FS_Subset, FS_CardinalityType, SumType
  <1>2. 0 \in N
    BY <1>1, FS_EmptySet
  <1>3. ASSUME NEW n \in Nat, n \in N
        PROVE  n + 1 \in N
    <2> SUFFICES ASSUME NEW T \in SUBSET S, Cardinality(T) = n + 1, NEW x \in T
                 PROVE  Sum(T) = f[x] + Sum(T \ {x})
      OBVIOUS
    <2> DEFINE c == CHOOSE c \in T : TRUE
    <2>1. T # {} /\ c \in T
      OBVIOUS
    <2>2. Sum(T) = f[c] + Sum(T \ {c})
      BY <1>1, <2>1, SumAtChosen, Zenon
    <2>3. \A z \in T : Cardinality(T \ {z}) = Cardinality(T) - 1
      BY <1>1, OneLess, Zenon
    <2> HIDE DEF c, Sum
    <2>4. CASE x = c
      BY <2>2, <2>4
    <2>5. CASE x # c
      <3>1. Sum(T \ {c}) = f[x] + Sum((T \ {c}) \ {x})
        BY <1>3, <2>1, <2>3, <2>5
      <3>2. Sum(T \ {x}) = f[c] + Sum((T \ {x}) \ {c})
        BY <1>3, <2>1, <2>3, <2>5
      <3>3. Sum((T \ {c}) \ {x}) = Sum((T \ {x}) \ {c})
        <4>1. (T \ {c}) \ {x} = (T \ {x}) \ {c}
          OBVIOUS
        <4> QED
          BY <4>1, Zenon
      <3>4. Sum((T \ {c}) \ {x}) \in Int /\ f[x] \in Int /\ f[c] \in Int
        BY <1>1, <2>1
      <3> QED
        BY <2>2, <3>1, <3>2, <3>3, <3>4
    <2> QED
      BY <2>4, <2>5
  <1>4. Nat \subseteq N
    <2> HIDE DEF N
    <2> QED
      BY <1>2, <1>3, NumberInduction
  <1> QED
    BY <1>1, <1>4

LEMMA SumAdds ==
    ASSUME NEW f, NEW S, IsFiniteSet(S), NEW y, y \notin S,
           \A x \in S \cup {y} : f[x] \in Int
    PROVE  SumFunctionOnSet(f, S \cup {y}) = SumFunctionOnSet(f, S) + f[y]
  <1>1. IsFiniteSet(S \cup {y})
    BY FS_AddElement
  <1>2. SumFunctionOnSet(f, (S \cup {y}) \ {y}) = SumFunctionOnSet(f, S)
    <2>1. (S \cup {y}) \ {y} = S
      OBVIOUS
    <2> QED
      BY <2>1, Zenon
  <1>3. SumFunctionOnSet(f, S \cup {y}) = f[y] + SumFunctionOnSet(f, (S \cup {y}) \ {y})
    BY <1>1, SumRemoves
  <1>4. f[y] \in Int /\ SumFunctionOnSet(f, S) \in Int
    BY SumType
  <1> QED
    BY <1>2, <1>3, <1>4

(* The sum depends on the values on the set alone. *)
LEMMA SumEqual ==
    ASSUME NEW f, NEW g, NEW S, IsFiniteSet(S), \A x \in S : f[x] \in Int /\ g[x] = f[x]
    PROVE  SumFunctionOnSet(g, S) = SumFunctionOnSet(f, S)
  <1> DEFINE P == {T \in SUBSET S : SumFunctionOnSet(g, T) = SumFunctionOnSet(f, T)}
  <1>1. {} \in P
    BY SumEmpty
  <1>2. ASSUME NEW T \in SUBSET S, NEW y \in S, T \in P, y \notin T
        PROVE  T \cup {y} \in P
    <2>1. IsFiniteSet(T)
      BY FS_Subset
    <2>2. SumFunctionOnSet(f, T \cup {y}) = SumFunctionOnSet(f, T) + f[y]
      BY <1>2, <2>1, SumAdds
    <2>3. SumFunctionOnSet(g, T \cup {y}) = SumFunctionOnSet(g, T) + g[y]
      BY <1>2, <2>1, SumAdds
    <2> QED
      BY <1>2, <2>2, <2>3
  <1>3. SUBSET S \subseteq P
    <2> HIDE DEF P
    <2> QED
      BY <1>1, <1>2, FiniteSetInduction
  <1> QED
    BY <1>3

LEMMA SumZero ==
    ASSUME NEW f, NEW S, IsFiniteSet(S), \A x \in S : f[x] = 0
    PROVE  SumFunctionOnSet(f, S) = 0
  <1> DEFINE P == {T \in SUBSET S : SumFunctionOnSet(f, T) = 0}
  <1>1. {} \in P
    BY SumEmpty
  <1>2. ASSUME NEW T \in SUBSET S, NEW y \in S, T \in P, y \notin T
        PROVE  T \cup {y} \in P
    <2>1. IsFiniteSet(T)
      BY FS_Subset
    <2>2. SumFunctionOnSet(f, T \cup {y}) = SumFunctionOnSet(f, T) + f[y]
      BY <1>2, <2>1, SumAdds
    <2> QED
      BY <1>2, <2>2
  <1>3. SUBSET S \subseteq P
    <2> HIDE DEF P
    <2> QED
      BY <1>1, <1>2, FiniteSetInduction
  <1> QED
    BY <1>3

(* Two functions that differ at one element. *)
LEMMA SumChanges ==
    ASSUME NEW f, NEW g, NEW S, IsFiniteSet(S), NEW y \in S,
           \A x \in S : f[x] \in Int /\ g[x] \in Int,
           \A x \in S : x # y => g[x] = f[x]
    PROVE  SumFunctionOnSet(g, S) = SumFunctionOnSet(f, S) - f[y] + g[y]
  <1>1. IsFiniteSet(S \ {y})
    BY FS_RemoveElement
  <1>2. SumFunctionOnSet(g, S \ {y}) = SumFunctionOnSet(f, S \ {y})
    BY <1>1, SumEqual
  <1>3. SumFunctionOnSet(f, S \ {y}) \in Int
    BY <1>1, SumType
  <1>4. /\ SumFunctionOnSet(f, S) = f[y] + SumFunctionOnSet(f, S \ {y})
        /\ SumFunctionOnSet(g, S) = g[y] + SumFunctionOnSet(g, S \ {y})
    BY SumRemoves
  <1> QED
    BY <1>2, <1>3, <1>4
=============================================================================
