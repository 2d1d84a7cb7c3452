----------------------------- MODULE Induction -----------------------------
(***************************************************************************)
(* Induction on the natural numbers, with a set of numbers for the         *)
(* statement to be proved: to show that P(n) holds of every n, let S be    *)
(* {n \in Nat : P(n)}.  It rests on the library's theorem that the subsets *)
(* of a finite set are well-founded, which has no operator for parameter.  *)
(* Then what follows by it of the sums of the community modules: a sum is  *)
(* one wherever it begins, and changes as its terms do.                    *)
(***************************************************************************)
EXTENDS Integers, Sequences, Functions, FiniteSetTheorems, WellFoundedInduction, TLAPS

(* A set of numbers that is not empty has a least one.                     *)
LEMMA LeastElement ==
    ASSUME NEW T \in SUBSET Nat, T # {}
    PROVE  \E x \in T : \A y \in T : x <= y
<1>1. PICK n \in T : TRUE
  OBVIOUS
<1> DEFINE S == 0 .. n
           TT == {0 .. x : x \in T \cap S}
<1>2. IsFiniteSet(S)
  BY FS_Interval
<1>3. IsWellFoundedOn(StrictSubsetOrdering(S), SUBSET S)
  BY <1>2, FS_StrictSubsetOrderingWellFounded, FS_FiniteSubsetsOfFinite
<1>4. TT \subseteq SUBSET S /\ TT # {}
  OBVIOUS
<1>5. PICK X \in TT : \A Y \in TT : <<Y, X>> \notin StrictSubsetOrdering(S)
  <2> HIDE DEF TT, S
  <2> QED
    BY <1>3, <1>4, WFMin
<1>6. PICK x \in T \cap S : X = 0 .. x
  BY <1>5
<1>7. ASSUME NEW y \in T, y < x
      PROVE  FALSE
  <2>1. 0 .. y \in TT
    BY <1>7
  <2>2. 0 .. y \subseteq 0 .. x /\ x \in 0 .. x /\ x \notin 0 .. y
    BY <1>7
  <2>3. <<0 .. y, 0 .. x>> \in StrictSubsetOrdering(S)
    BY <2>1, <2>2, <1>4, <1>6 DEF StrictSubsetOrdering
  <2> QED
    BY <1>5, <1>6, <2>1, <2>3
<1> QED
  BY <1>6, <1>7

(* A set that has 0 and the successor of each of its numbers has them all. *)
LEMMA InductionOnNat ==
    ASSUME NEW S, 0 \in S, \A n \in Nat : n \in S => n + 1 \in S
    PROVE  \A n \in Nat : n \in S
<1> DEFINE T == Nat \ S
<1> SUFFICES ASSUME T # {} PROVE FALSE
    OBVIOUS
<1>1. PICK x \in T : \A y \in T : x <= y
  BY LeastElement
<1>2. x # 0 /\ x - 1 \in Nat
  BY <1>1
<1>3. x - 1 \in S
  BY <1>1, <1>2
<1>4. (x - 1) + 1 = x
  BY <1>1
<1> QED
  BY <1>1, <1>2, <1>3, <1>4

(* A set of n + 1 elements is not empty, and of n without one of them.     *)
LEMMA WithoutOne ==
    ASSUME NEW n \in Nat, NEW T, IsFiniteSet(T), Cardinality(T) = n + 1
    PROVE  /\ T # {}
           /\ \A x \in T : Cardinality(T \ {x}) = n
<1>1. T # {}
  <2>1. Cardinality({}) = 0
    BY FS_EmptySet
  <2> QED BY <2>1
<1>2. ASSUME NEW x \in T PROVE Cardinality(T \ {x}) = n
  <2>1. Cardinality(T \ {x}) = Cardinality(T) - 1
    BY FS_RemoveElement
  <2> QED BY <2>1
<1> QED BY <1>1, <1>2

(* A set of subsets of a finite set that has {} and, with each subset, the *)
(* one with another element, has the set itself.                           *)
LEMMA InductionOnSubsets ==
    ASSUME NEW S, IsFiniteSet(S), NEW W, {} \in W,
           \A T \in SUBSET S : \A x \in S \ T : T \in W => T \cup {x} \in W
    PROVE  S \in W
<1> DEFINE N == {n \in Nat : \A T \in SUBSET S : Cardinality(T) = n => T \in W}
<1>1. \A T \in SUBSET S : IsFiniteSet(T) /\ Cardinality(T) \in Nat
  BY FS_Subset, FS_CardinalityType
<1>2. 0 \in N
  BY <1>1, FS_EmptySet
<1>3. ASSUME NEW n \in Nat, n \in N PROVE n + 1 \in N
  <2> SUFFICES ASSUME NEW T \in SUBSET S, Cardinality(T) = n + 1
               PROVE  T \in W
    OBVIOUS
  <2>1. T # {} /\ \A x \in T : Cardinality(T \ {x}) = n
    BY <1>1, WithoutOne
  <2>2. PICK x \in T : TRUE
    BY <2>1
  <2>3. Cardinality(T \ {x}) = n
    BY <2>1
  <2>4. T \ {x} \in W
    BY <1>3, <2>3
  <2>5. (T \ {x}) \cup {x} \in W
    BY <2>2, <2>4
  <2>6. (T \ {x}) \cup {x} = T
    BY <2>2
  <2> QED BY <2>5, <2>6
<1>4. Cardinality(S) \in N
  <2> HIDE DEF N
  <2> QED BY <1>1, <1>2, <1>3, InductionOnNat
<1> QED BY <1>4

-----------------------------------------------------------------------------
(* SumFunctionOnSet is defined by a function that takes one element after  *)
(* the other from a set.                                                   *)
PickOf(s) == CHOOSE x \in s : TRUE

IsSum(g, f, S) ==
    g = [s \in SUBSET S |-> IF s = {} THEN 0 ELSE f[PickOf(s)] + g[s \ {PickOf(s)}]]

LEMMA SumIsOfChoice ==
    ASSUME NEW f, NEW S
    PROVE  SumFunctionOnSet(f, S) = (CHOOSE g : IsSum(g, f, S))[S]
BY Zenon DEF SumFunctionOnSet, FoldFunctionOnSet, MapThenFoldSet, IsSum, PickOf

LEMMA PickedIsIn == ASSUME NEW s, s # {} PROVE PickOf(s) \in s
BY DEF PickOf

(* There is such a function: the sums of the subsets up to any size.       *)
LEMMA SumExists ==
    ASSUME NEW S, IsFiniteSet(S), NEW f
    PROVE  \E g : IsSum(g, f, S)
<1> DEFINE Upto(n) == {s \in SUBSET S : Cardinality(s) <= n}
           IsSumTo(g, n) ==
              g = [s \in Upto(n) |-> IF s = {} THEN 0
                                     ELSE f[PickOf(s)] + g[s \ {PickOf(s)}]]
           N == {n \in Nat : \E g : IsSumTo(g, n)}
<1>1. \A s \in SUBSET S : IsFiniteSet(s) /\ Cardinality(s) \in Nat
  BY FS_Subset, FS_CardinalityType
<1>2. \A s \in SUBSET S : s # {} =>
         /\ s \ {PickOf(s)} \in SUBSET S
         /\ Cardinality(s \ {PickOf(s)}) = Cardinality(s) - 1
  BY <1>1, PickedIsIn, FS_RemoveElement
<1>3. 0 \in N
  <2> DEFINE g == [s \in Upto(0) |-> 0]
  <2>1. \A s \in Upto(0) : s = {}
    BY <1>1, FS_EmptySet
  <2>2. IsSumTo(g, 0)
    BY <2>1
  <2> QED BY <2>2
<1>4. ASSUME NEW n \in Nat, n \in N PROVE n + 1 \in N
  <2>1. PICK g : IsSumTo(g, n)
    BY <1>4
  <2> DEFINE h == [s \in Upto(n + 1) |-> IF s = {} THEN 0
                                         ELSE f[PickOf(s)] + g[s \ {PickOf(s)}]]
  <2>2. \A s \in Upto(n) : s \in Upto(n + 1) /\ h[s] = g[s]
    <3>1. \A s \in Upto(n) : s \in Upto(n + 1)
      BY <1>1
    <3>2. \A s \in Upto(n) :
             g[s] = IF s = {} THEN 0 ELSE f[PickOf(s)] + g[s \ {PickOf(s)}]
      BY <2>1
    <3> HIDE DEF Upto
    <3> QED BY <3>1, <3>2
  <2>3. \A s \in Upto(n + 1) : s # {} => s \ {PickOf(s)} \in Upto(n)
    BY <1>1, <1>2
  <2>4. \A s \in Upto(n + 1) : s # {} => h[s \ {PickOf(s)}] = g[s \ {PickOf(s)}]
    BY <2>2, <2>3
  <2>5. IsSumTo(h, n + 1)
    <3> HIDE DEF Upto
    <3> QED BY <2>4
  <2>6. \E k : IsSumTo(k, n + 1)
    <3> HIDE DEF h, IsSumTo
    <3> QED BY <2>5
  <2> HIDE DEF IsSumTo
  <2> QED BY <2>6
<1>5. Cardinality(S) \in N
  <2> HIDE DEF N
  <2> QED BY <1>1, <1>3, <1>4, InductionOnNat
<1>6. Upto(Cardinality(S)) = SUBSET S
  BY FS_Subset
<1>7. PICK g : IsSumTo(g, Cardinality(S))
  BY <1>5
<1> HIDE DEF Upto
<1> QED BY <1>6, <1>7 DEF IsSum

(* What such a function has for a subset depends on the terms in it alone. *)
LEMMA SumsAgree ==
    ASSUME NEW S, NEW T \in SUBSET S, IsFiniteSet(S), NEW f, NEW e, NEW g, NEW h,
           IsSum(g, f, S), IsSum(h, e, T), \A x \in T : f[x] = e[x]
    PROVE  g[T] = h[T]
<1> DEFINE N == {n \in Nat : \A U \in SUBSET T : Cardinality(U) = n => g[U] = h[U]}
<1>1. \A U \in SUBSET T : IsFiniteSet(U) /\ Cardinality(U) \in Nat
  BY FS_Subset, FS_CardinalityType
<1>2. \A U \in SUBSET T :
         /\ g[U] = IF U = {} THEN 0 ELSE f[PickOf(U)] + g[U \ {PickOf(U)}]
         /\ h[U] = IF U = {} THEN 0 ELSE e[PickOf(U)] + h[U \ {PickOf(U)}]
  <2>1. \A U \in SUBSET T : U \in SUBSET S
    OBVIOUS
  <2>2. \A U \in SUBSET S : g[U] = IF U = {} THEN 0
                                   ELSE f[PickOf(U)] + g[U \ {PickOf(U)}]
    BY DEF IsSum
  <2>3. \A U \in SUBSET T : h[U] = IF U = {} THEN 0
                                   ELSE e[PickOf(U)] + h[U \ {PickOf(U)}]
    BY DEF IsSum
  <2> QED BY <2>1, <2>2, <2>3
<1>3. 0 \in N
  <2>1. \A U \in SUBSET T : Cardinality(U) = 0 => U = {}
    BY <1>1, FS_EmptySet
  <2> QED BY <1>2, <2>1
<1>4. ASSUME NEW n \in Nat, n \in N PROVE n + 1 \in N
  <2> SUFFICES ASSUME NEW U \in SUBSET T, Cardinality(U) = n + 1
               PROVE  g[U] = h[U]
    OBVIOUS
  <2>1. U # {} /\ \A x \in U : Cardinality(U \ {x}) = n
    BY <1>1, WithoutOne
  <2>2. PickOf(U) \in U
    BY <2>1, PickedIsIn
  <2> DEFINE V == U \ {PickOf(U)}
  <2>3. V \in SUBSET T /\ Cardinality(V) = n
    BY <2>1, <2>2
  <2>4. g[V] = h[V]
    BY <1>4, <2>3
  <2>5. f[PickOf(U)] = e[PickOf(U)]
    BY <2>2
  <2> QED BY <1>2, <2>1, <2>4, <2>5
<1>5. Cardinality(T) \in N
  <2> HIDE DEF N
  <2> QED BY <1>1, <1>3, <1>4, InductionOnNat
<1> QED BY <1>5

(* And it is a number, and may begin with any of them.                     *)
LEMMA SumFromAny ==
    ASSUME NEW S, IsFiniteSet(S), NEW f, \A x \in S : f[x] \in Int,
           NEW g, IsSum(g, f, S)
    PROVE  \A T \in SUBSET S :
              g[T] \in Int /\ \A x \in T : g[T] = f[x] + g[T \ {x}]
<1> DEFINE M == {n \in Nat : \A T \in SUBSET S : Cardinality(T) = n => g[T] \in Int}
           N == {n \in Nat : \A T \in SUBSET S : Cardinality(T) = n =>
                                \A x \in T : g[T] = f[x] + g[T \ {x}]}
<1>1. \A T \in SUBSET S : IsFiniteSet(T) /\ Cardinality(T) \in Nat
  BY FS_Subset, FS_CardinalityType
<1>2. \A T \in SUBSET S : g[T] = IF T = {} THEN 0
                                 ELSE f[PickOf(T)] + g[T \ {PickOf(T)}]
  BY DEF IsSum
<1>3. \A T \in SUBSET S : Cardinality(T) = 0 => T = {}
  BY <1>1, FS_EmptySet
<1>4. \A T \in SUBSET S : g[T] \in Int
  <2>1. 0 \in M
    <3>1. g[{}] = 0
      BY <1>2
    <3> QED BY <1>3, <3>1
  <2>2. ASSUME NEW n \in Nat, n \in M PROVE n + 1 \in M
    <3> SUFFICES ASSUME NEW T \in SUBSET S, Cardinality(T) = n + 1
                 PROVE  g[T] \in Int
      OBVIOUS
    <3>1. T # {} /\ \A x \in T : Cardinality(T \ {x}) = n
      BY <1>1, WithoutOne
    <3>2. PickOf(T) \in T
      BY <3>1, PickedIsIn
    <3> DEFINE U == T \ {PickOf(T)}
    <3>3. U \in SUBSET S /\ Cardinality(U) = n
      BY <3>1, <3>2
    <3>4. g[U] \in Int
      BY <2>2, <3>3
    <3>5. g[T] = f[PickOf(T)] + g[U] /\ f[PickOf(T)] \in Int
      BY <1>2, <3>1, <3>2
    <3> QED BY <3>4, <3>5
  <2>3. \A T \in SUBSET S : Cardinality(T) \in M
    <3> HIDE DEF M
    <3> QED BY <1>1, <2>1, <2>2, InductionOnNat
  <2> QED BY <2>3
<1>5. 0 \in N
  BY <1>3
<1>6. ASSUME NEW n \in Nat, n \in N PROVE n + 1 \in N
  <2> SUFFICES ASSUME NEW T \in SUBSET S, Cardinality(T) = n + 1, NEW x \in T
               PROVE  g[T] = f[x] + g[T \ {x}]
    OBVIOUS
  <2> DEFINE c == PickOf(T)
             U == (T \ {x}) \ {c}
  <2>1. T # {} /\ \A y \in T : Cardinality(T \ {y}) = n
    BY <1>1, WithoutOne
  <2>2. c \in T
    BY <2>1, PickedIsIn
  <2>3. g[T] = f[c] + g[T \ {c}]
    BY <1>2, <2>1
  <2> HIDE DEF c
  <2>4. CASE x = c
    BY <2>3, <2>4
  <2>5. CASE x # c
    <3>1. /\ T \ {c} \in SUBSET S /\ x \in T \ {c}
          /\ T \ {x} \in SUBSET S /\ c \in T \ {x}
          /\ U \in SUBSET S /\ (T \ {c}) \ {x} = U
      BY <2>2, <2>5
    <3>2. Cardinality(T \ {c}) = n /\ Cardinality(T \ {x}) = n
      BY <2>1, <2>2
    <3>3. \A V \in SUBSET S : Cardinality(V) = n =>
             \A y \in V : g[V] = f[y] + g[V \ {y}]
      BY <1>6
    <3>4. g[T \ {c}] = f[x] + g[U]
      <4>1. g[T \ {c}] = f[x] + g[(T \ {c}) \ {x}]
        BY <3>1, <3>2, <3>3
      <4> HIDE DEF U
      <4> QED BY <3>1, <4>1
    <3>5. g[T \ {x}] = f[c] + g[U]
      BY <3>1, <3>2, <3>3
    <3>6. g[U] \in Int /\ f[c] \in Int /\ f[x] \in Int
      BY <1>4, <2>2, <3>1
    <3>7. ASSUME NEW t, NEW tx, NEW tc, NEW u \in Int, NEW fc \in Int, NEW fx \in Int,
                 t = fc + tc, tc = fx + u, tx = fc + u
          PROVE  t = fx + tx
      BY <3>7
    <3> HIDE DEF U
    <3> QED BY <2>3, <3>4, <3>5, <3>6, <3>7
  <2> QED BY <2>4, <2>5
<1>7. \A T \in SUBSET S : Cardinality(T) \in N
  <2> HIDE DEF N
  <2> QED BY <1>1, <1>5, <1>6, InductionOnNat
<1> QED BY <1>4, <1>7

-----------------------------------------------------------------------------
(* The sum of no terms.                                                    *)
LEMMA SumOfNone == ASSUME NEW f PROVE SumFunctionOnSet(f, {}) = 0
<1>1. PICK g : g = CHOOSE h : IsSum(h, f, {})
  OBVIOUS
<1>2. IsSum(g, f, {})
  BY <1>1, SumExists, FS_EmptySet
<1>3. g[{}] = 0
  BY <1>2 DEF IsSum
<1> QED BY <1>1, <1>3, SumIsOfChoice

(* A sum is that of its terms: another function with the same has the same *)
(* sum.                                                                    *)
LEMMA SumOfSame ==
    ASSUME NEW S, IsFiniteSet(S), NEW f, NEW e, \A x \in S : f[x] = e[x]
    PROVE  SumFunctionOnSet(f, S) = SumFunctionOnSet(e, S)
<1>1. PICK g : g = CHOOSE k : IsSum(k, f, S)
  OBVIOUS
<1>2. PICK h : h = CHOOSE k : IsSum(k, e, S)
  OBVIOUS
<1>3. IsSum(g, f, S) /\ IsSum(h, e, S)
  BY <1>1, <1>2, SumExists
<1>4. g[S] = h[S]
  BY <1>3, SumsAgree
<1> QED BY <1>1, <1>2, <1>4, SumIsOfChoice

(* A sum with one more term.                                               *)
LEMMA SumWithOneMore ==
    ASSUME NEW S, IsFiniteSet(S), NEW x, x \notin S,
           NEW f, \A y \in S \cup {x} : f[y] \in Int
    PROVE  SumFunctionOnSet(f, S \cup {x}) = SumFunctionOnSet(f, S) + f[x]
<1> DEFINE T == S \cup {x}
<1>1. IsFiniteSet(T) /\ S \in SUBSET T /\ T \in SUBSET T /\ x \in T /\ T \ {x} = S
  BY FS_AddElement
<1>2. \A y \in T : f[y] \in Int
  OBVIOUS
<1> HIDE DEF T
<1>3. PICK g : g = CHOOSE k : IsSum(k, f, T)
  OBVIOUS
<1>4. PICK h : h = CHOOSE k : IsSum(k, f, S)
  OBVIOUS
<1>5. IsSum(g, f, T) /\ IsSum(h, f, S)
  BY <1>1, <1>3, <1>4, SumExists
<1>6. g[S] = h[S]
  BY <1>1, <1>5, SumsAgree
<1>7. \A U \in SUBSET T : g[U] \in Int /\ \A y \in U : g[U] = f[y] + g[U \ {y}]
  BY <1>1, <1>2, <1>5, SumFromAny
<1>8. g[T] = f[x] + g[S] /\ g[S] \in Int /\ f[x] \in Int
  BY <1>1, <1>2, <1>7
<1>9. SumFunctionOnSet(f, T) = g[T] /\ SumFunctionOnSet(f, S) = h[S]
  BY <1>3, <1>4, SumIsOfChoice
<1>10. SumFunctionOnSet(f, T) = SumFunctionOnSet(f, S) + f[x]
  BY <1>6, <1>8, <1>9
<1> QED BY <1>10 DEF T

(* Sums of integers are integers.                                          *)
LEMMA SumIsInt ==
    ASSUME NEW S, IsFiniteSet(S), NEW f, \A x \in S : f[x] \in Int
    PROVE  SumFunctionOnSet(f, S) \in Int
<1>1. PICK g : g = CHOOSE k : IsSum(k, f, S)
  OBVIOUS
<1>2. IsSum(g, f, S)
  BY <1>1, SumExists
<1>3. g[S] \in Int
  BY <1>2, SumFromAny
<1> QED BY <1>1, <1>3, SumIsOfChoice

(* The sum of zeros.                                                       *)
LEMMA SumOfZeros ==
    ASSUME NEW S, IsFiniteSet(S), NEW f, \A x \in S : f[x] = 0
    PROVE  SumFunctionOnSet(f, S) = 0
<1> DEFINE W == {T \in SUBSET S : SumFunctionOnSet(f, T) = 0}
<1>1. {} \in W
  BY SumOfNone
<1>2. ASSUME NEW T \in SUBSET S, NEW x \in S \ T, T \in W PROVE T \cup {x} \in W
  <2>1. IsFiniteSet(T)
    BY FS_Subset
  <2>2. \A y \in T \cup {x} : f[y] \in Int
    OBVIOUS
  <2>3. SumFunctionOnSet(f, T \cup {x}) = SumFunctionOnSet(f, T) + f[x]
    BY <2>1, <2>2, SumWithOneMore
  <2>4. SumFunctionOnSet(f, T) = 0 /\ f[x] = 0
    BY <1>2
  <2> QED BY <2>3, <2>4
<1>3. S \in W
  <2> HIDE DEF W
  <2> QED BY <1>1, <1>2, InductionOnSubsets
<1> QED BY <1>3

(* A term that grows makes the sum grow by as much.                        *)
LEMMA SumWithTermGrown ==
    ASSUME NEW S, IsFiniteSet(S), NEW f, \A y \in S : f[y] \in Int,
           NEW x \in S, NEW d \in Int, NEW e,
           e[x] = f[x] + d, \A y \in S \ {x} : e[y] = f[y]
    PROVE  SumFunctionOnSet(e, S) = SumFunctionOnSet(f, S) + d
<1> DEFINE T == S \ {x}
<1>1. IsFiniteSet(T) /\ x \notin T /\ T \cup {x} = S
  BY FS_RemoveElement
<1>2. SumFunctionOnSet(e, T) = SumFunctionOnSet(f, T)
  BY <1>1, SumOfSame
<1>3. SumFunctionOnSet(f, T) \in Int
  BY <1>1, SumIsInt
<1>4. SumFunctionOnSet(f, T \cup {x}) = SumFunctionOnSet(f, T) + f[x]
  BY <1>1, SumWithOneMore
<1>5. SumFunctionOnSet(e, T \cup {x}) = SumFunctionOnSet(e, T) + e[x]
  <2>1. \A y \in T \cup {x} : e[y] \in Int
    OBVIOUS
  <2> QED BY <1>1, <2>1, SumWithOneMore
<1>6. /\ SumFunctionOnSet(f, S) = SumFunctionOnSet(f, T) + f[x]
      /\ SumFunctionOnSet(e, S) = SumFunctionOnSet(f, T) + (f[x] + d)
  BY <1>1, <1>2, <1>4, <1>5
<1>7. PICK n \in Int, m \in Int : n = SumFunctionOnSet(f, T) /\ m = f[x]
  BY <1>3
<1> HIDE DEF T
<1> QED BY <1>6, <1>7

-----------------------------------------------------------------------------
(* The sum of a sequence with another number at its end.                   *)
LEMMA SumAppended ==
    ASSUME NEW s \in Seq(Int), NEW x \in Int
    PROVE  SumFunction(Append(s, x)) = SumFunction(s) + x
<1> DEFINE t == Append(s, x)
           n == Len(s)
<1>1. /\ n \in Nat /\ DOMAIN s = 1 .. n /\ DOMAIN t = 1 .. n + 1
      /\ \A i \in 1 .. n : t[i] = s[i] /\ s[i] \in Int
      /\ t[n + 1] = x
  OBVIOUS
<1> HIDE DEF t, n
<1>2. n + 1 \notin 1 .. n /\ IsFiniteSet(1 .. n)
  BY <1>1, FS_Interval
<1>3. \A y \in (1 .. n) \cup {n + 1} : t[y] \in Int
  BY <1>1
<1>4. SumFunctionOnSet(t, 1 .. n + 1) = SumFunctionOnSet(t, 1 .. n) + x
  <2>1. SumFunctionOnSet(t, (1 .. n) \cup {n + 1}) = SumFunctionOnSet(t, 1 .. n) + t[n + 1]
    BY <1>2, <1>3, SumWithOneMore
  <2>2. (1 .. n) \cup {n + 1} = 1 .. n + 1
    BY <1>1
  <2> QED BY <1>1, <2>1, <2>2
<1>5. SumFunctionOnSet(t, 1 .. n) = SumFunctionOnSet(s, 1 .. n)
  BY <1>1, <1>2, SumOfSame
<1> QED BY <1>1, <1>4, <1>5 DEF SumFunction, t

(* And of one without its first.                                           *)
LEMMA SumOfTail ==
    ASSUME NEW s \in Seq(Int), s # <<>>
    PROVE  SumFunction(s) = SumFunction(Tail(s)) + Head(s)
<1> DEFINE t == Tail(s)
           n == Len(t)
           S == {k \in Nat : k <= n =>
                    SumFunctionOnSet(s, 1 .. k + 1) = SumFunctionOnSet(t, 1 .. k) + s[1]}
<1>1. /\ n \in Nat /\ DOMAIN s = 1 .. n + 1 /\ DOMAIN t = 1 .. n
      /\ \A i \in 1 .. n + 1 : s[i] \in Int
      /\ \A i \in 1 .. n : t[i] = s[i + 1]
      /\ Head(s) = s[1]
  OBVIOUS
<1> HIDE DEF t, n
<1>2. \A k \in Nat : /\ IsFiniteSet(1 .. k) /\ k + 1 \notin 1 .. k
                     /\ 1 .. k + 1 = (1 .. k) \cup {k + 1}
  <2>1. \A k \in Nat : IsFiniteSet(1 .. k)
    BY FS_Interval
  <2> QED BY <2>1
<1>3. 0 \in S
  <2>1. SumFunctionOnSet(s, {}) = 0 /\ SumFunctionOnSet(t, {}) = 0
    BY SumOfNone
  <2>2. 1 .. 0 = {} /\ 1 .. 1 = {} \cup {1} /\ IsFiniteSet({}) /\ 1 \notin {}
    BY FS_EmptySet
  <2>3. \A y \in {} \cup {1} : s[y] \in Int
    BY <1>1
  <2>4. SumFunctionOnSet(s, {} \cup {1}) = SumFunctionOnSet(s, {}) + s[1]
    BY <2>2, <2>3, SumWithOneMore
  <2> QED BY <2>1, <2>2, <2>4
<1>4. ASSUME NEW k \in Nat, k \in S PROVE k + 1 \in S
  <2> SUFFICES ASSUME k + 1 <= n
               PROVE  SumFunctionOnSet(s, 1 .. (k + 1) + 1)
                         = SumFunctionOnSet(t, 1 .. k + 1) + s[1]
    OBVIOUS
  <2>1. SumFunctionOnSet(s, 1 .. k + 1) = SumFunctionOnSet(t, 1 .. k) + s[1]
    BY <1>1, <1>4
  <2>2. \A y \in (1 .. k + 1) \cup {(k + 1) + 1} : s[y] \in Int
    BY <1>1
  <2>3. \A y \in (1 .. k) \cup {k + 1} : t[y] \in Int
    BY <1>1
  <2>4. SumFunctionOnSet(s, 1 .. (k + 1) + 1)
           = SumFunctionOnSet(s, 1 .. k + 1) + s[(k + 1) + 1]
    <3>1. SumFunctionOnSet(s, (1 .. k + 1) \cup {(k + 1) + 1})
             = SumFunctionOnSet(s, 1 .. k + 1) + s[(k + 1) + 1]
      <4>1. IsFiniteSet(1 .. k + 1) /\ (k + 1) + 1 \notin 1 .. k + 1
        BY <1>2, k + 1 \in Nat
      <4> QED BY <2>2, <4>1, SumWithOneMore
    <3> QED BY <1>2, <3>1, k + 1 \in Nat
  <2>5. SumFunctionOnSet(t, 1 .. k + 1) = SumFunctionOnSet(t, 1 .. k) + t[k + 1]
    <3>1. SumFunctionOnSet(t, (1 .. k) \cup {k + 1})
             = SumFunctionOnSet(t, 1 .. k) + t[k + 1]
      <4>1. IsFiniteSet(1 .. k) /\ k + 1 \notin 1 .. k
        BY <1>2
      <4> QED BY <2>3, <4>1, SumWithOneMore
    <3> QED BY <1>2, <3>1
  <2>6. t[k + 1] = s[(k + 1) + 1] /\ t[k + 1] \in Int /\ s[1] \in Int
    BY <1>1
  <2>7. SumFunctionOnSet(t, 1 .. k) \in Int
    <3>1. \A y \in 1 .. k : t[y] \in Int
      BY <2>3
    <3> QED BY <1>2, <3>1, SumIsInt
  <2> QED BY <2>1, <2>4, <2>5, <2>6, <2>7
<1>5. n \in S
  <2> HIDE DEF S
  <2> QED BY <1>1, <1>3, <1>4, InductionOnNat
<1>6. SumFunctionOnSet(s, 1 .. n + 1) = SumFunctionOnSet(t, 1 .. n) + s[1]
  BY <1>1, <1>5
<1> QED BY <1>1, <1>6 DEF SumFunction, t
=============================================================================
