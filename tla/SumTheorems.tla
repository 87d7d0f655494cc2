---------------------------- MODULE SumTheorems -----------------------------
(***************************************************************************)
(* What the sums of the models compute, for every finite function.  The    *)
(* library's SumFunctionOnSet picks the elements of its index set in some  *)
(* order and adds the values up; here it is shown to be well defined, not  *)
(* to depend on the order, and to follow a change of one value, an append  *)
(* and a removal at the head of a sequence.                                *)
(*                                                                         *)
(* Induction is by the least counterexample: the library's theorem that a  *)
(* well-founded order has minimal elements takes a set where the induction *)
(* theorems take an operator.                                              *)
(***************************************************************************)
EXTENDS Integers, Sequences, FiniteSets, Functions, WellFoundedInduction, FiniteSetTheorems, TLAPS

\* A set of numbers has a least one.
LEMMA LeastNumber ==
    ASSUME NEW T, T \subseteq Nat, T # {}
    PROVE  \E x \in T : \A y \in T : x <= y
<1> DEFINE R == OpToRel(<, Nat)
<1>1. IsWellFoundedOn(R, Nat)
    BY NatLessThanWellFounded
<1>2. R = {p \in Nat \X Nat : p[1] < p[2]}
    BY DEF OpToRel
<1> HIDE DEF R
<1>3. PICK x \in T : \A y \in T : ~(<<y, x>> \in R)
    BY <1>1, WFMin
<1>4. ASSUME NEW y \in T, y < x
      PROVE  FALSE
  <2>1. <<y, x>> \in R
      BY <1>2, <1>4
  <2>q. QED BY <1>3, <2>1
<1>q. QED BY <1>4

\* Induction over the numbers, for a set.
LEMMA SetInduction ==
    ASSUME NEW S, 0 \in S, \A n \in Nat : n \in S => n + 1 \in S
    PROVE  Nat \subseteq S
<1> DEFINE T == {n \in Nat : n \notin S}
<1>1. T = {}
  <2> SUFFICES ASSUME T # {} PROVE FALSE
      OBVIOUS
  <2>1. PICK x \in T : \A y \in T : x <= y
      BY LeastNumber
  <2>2. x # 0 /\ x \in Nat
      BY <2>1
  <2>3. x - 1 \in Nat /\ x - 1 \notin T
      BY <2>1, <2>2
  <2>q. QED BY <2>1, <2>2, <2>3
<1>q. QED BY <1>1
-----------------------------------------------------------------------------
(* The recursive function behind the sum. *)

First(s) == CHOOSE x \in s : TRUE
Body(f, g, s) == IF s = {} THEN 0 ELSE f[First(s)] + g[s \ {First(s)}]

\* g adds up f over every set of the family L.
Adds(f, g, L) == g = [s \in L |-> Body(f, g, s)]

\* The sum is the value, at the whole set, of a function that adds up.
LEMMA SumUnfolds ==
    ASSUME NEW f, NEW S
    PROVE  SumFunctionOnSet(f, S) = (CHOOSE g : Adds(f, g, SUBSET S))[S]
BY DEF SumFunctionOnSet, FoldFunctionOnSet, MapThenFoldSet, Adds, Body, First

\* A set that is not empty holds its first element; without it it is smaller.
LEMMA FirstOut ==
    ASSUME NEW s, IsFiniteSet(s), s # {}
    PROVE  /\ First(s) \in s /\ IsFiniteSet(s \ {First(s)})
           /\ Cardinality(s) \in Nat /\ Cardinality(s) > 0
           /\ Cardinality(s \ {First(s)}) = Cardinality(s) - 1
<1>1. First(s) \in s
    BY Zenon DEF First
<1>q. QED BY <1>1, FS_RemoveElement, FS_CardinalityType, FS_EmptySet

\* Some function adds up over the subsets of a finite set.
LEMMA AddsExists ==
    ASSUME NEW f, NEW S, IsFiniteSet(S)
    PROVE  \E g : Adds(f, g, SUBSET S)
<1> DEFINE L(n) == {s \in SUBSET S : Cardinality(s) <= n}
           H == {n \in Nat : \E g : Adds(f, g, L(n))}
<1>0. \A s \in SUBSET S : IsFiniteSet(s) /\ Cardinality(s) \in Nat
    BY FS_Subset, FS_CardinalityType
<1>1. 0 \in H
  <2> DEFINE g == [s \in L(0) |-> 0]
  <2>1. \A s \in L(0) : s = {}
      BY <1>0, FS_EmptySet
  <2>2. \A s \in L(0) : Body(f, g, s) = 0
      BY <2>1 DEF Body
  <2>3. g = [s \in L(0) |-> Body(f, g, s)]
      BY <2>2
  <2>4. Adds(f, g, L(0))
      BY <2>3 DEF Adds
  <2>q. QED BY <2>4
<1>2. ASSUME NEW n \in Nat, n \in H
      PROVE  n + 1 \in H
  <2>1. PICK g : Adds(f, g, L(n))
      BY <1>2
  <2> DEFINE h == [s \in L(n + 1) |-> Body(f, g, s)]
  <2>2. L(n) \subseteq L(n + 1)
      BY <1>0
  <2>3. \A s \in L(n) : h[s] = g[s]
    <3>1. \A s \in L(n) : g[s] = Body(f, g, s)
        BY <2>1 DEF Adds
    <3>q. QED BY <2>2, <3>1
  <2>4. ASSUME NEW s \in L(n + 1)
        PROVE  Body(f, g, s) = Body(f, h, s)
    <3>1. CASE s = {}
        BY <3>1 DEF Body
    <3>2. CASE s # {}
      <4>1. s \ {First(s)} \in L(n)
          BY <1>0, <3>2, FirstOut
      <4>q. QED BY <2>3, <4>1 DEF Body
    <3>q. QED BY <3>1, <3>2
  <2>5. h = [s \in L(n + 1) |-> Body(f, h, s)]
      BY <2>4
  <2>6. Adds(f, h, L(n + 1))
      BY <2>5 DEF Adds
  <2> HIDE DEF h
  <2>7. \E k : Adds(f, k, L(n + 1))
      BY <2>6
  <2>q. QED BY <2>7
<1> HIDE DEF H
<1>3. Nat \subseteq H
    BY <1>1, <1>2, SetInduction
<1>4. L(Cardinality(S)) = SUBSET S
    BY <1>0, FS_Subset
<1>5. Cardinality(S) \in H
    BY <1>0, <1>3
<1>q. QED BY <1>4, <1>5 DEF H

\* Two functions that add up agree wherever both are defined.
LEMMA AddsUnique ==
    ASSUME NEW f, NEW S, NEW T, IsFiniteSet(S), T \subseteq S, NEW g, NEW h,
           Adds(f, g, SUBSET S), Adds(f, h, SUBSET T)
    PROVE  g[T] = h[T]
<1> DEFINE H == {n \in Nat : \A s \in SUBSET T : Cardinality(s) = n => g[s] = h[s]}
<1>0. \A s \in SUBSET T : IsFiniteSet(s) /\ Cardinality(s) \in Nat /\ s \in SUBSET S
    BY FS_Subset, FS_CardinalityType
<1>a. \A s \in SUBSET T : g[s] = Body(f, g, s) /\ h[s] = Body(f, h, s)
  <2>1. \A s \in SUBSET S : g[s] = Body(f, g, s)
      BY DEF Adds
  <2>2. \A s \in SUBSET T : h[s] = Body(f, h, s)
      BY DEF Adds
  <2>q. QED BY <1>0, <2>1, <2>2
<1>1. 0 \in H
  <2>1. \A s \in SUBSET T : Cardinality(s) = 0 => s = {}
      BY <1>0, FS_EmptySet
  <2>2. ASSUME NEW s \in SUBSET T, s = {} PROVE g[s] = h[s]
      BY <1>a, <2>2 DEF Body
  <2>q. QED BY <2>1, <2>2
<1>2. ASSUME NEW n \in Nat, n \in H
      PROVE  n + 1 \in H
  <2> SUFFICES ASSUME NEW s \in SUBSET T, Cardinality(s) = n + 1
               PROVE  g[s] = h[s]
      OBVIOUS
  <2>1. s # {}
    <3> SUFFICES ASSUME s = {} PROVE FALSE
        OBVIOUS
    <3>1. Cardinality(s) = 0
        BY FS_EmptySet
    <3> HIDE DEF H
    <3>q. QED BY <3>1
  <2>2. s \ {First(s)} \in SUBSET T /\ Cardinality(s \ {First(s)}) = n
      BY <1>0, <2>1, FirstOut
  <2>3. g[s \ {First(s)}] = h[s \ {First(s)}]
      BY <1>2, <2>2
  <2>q. QED BY <1>a, <2>1, <2>3 DEF Body
<1> HIDE DEF H
<1>3. Nat \subseteq H
    BY <1>1, <1>2, SetInduction
<1>q. QED BY <1>0, <1>3 DEF H
-----------------------------------------------------------------------------
(* What the sum is, element by element *)

LEMMA SumEmpty ==
    ASSUME NEW f
    PROVE  SumFunctionOnSet(f, {}) = 0
<1>1. IsFiniteSet({})
    BY FS_EmptySet
<1>2. \E g : Adds(f, g, SUBSET {})
    BY <1>1, AddsExists
<1> DEFINE g == CHOOSE g : Adds(f, g, SUBSET {})
<1>3. Adds(f, g, SUBSET {})
    BY <1>2
<1> HIDE DEF g
<1>4. {} \in SUBSET {}
    OBVIOUS
<1>5. g[{}] = Body(f, g, {})
    BY <1>3, <1>4 DEF Adds
<1>6. g[{}] = 0
    BY <1>5 DEF Body
<1>q. QED BY <1>6, SumUnfolds DEF g

LEMMA SumFirst ==
    ASSUME NEW f, NEW S, IsFiniteSet(S), S # {}
    PROVE  SumFunctionOnSet(f, S) = f[First(S)] + SumFunctionOnSet(f, S \ {First(S)})
<1> DEFINE T == S \ {First(S)}
           g == CHOOSE g : Adds(f, g, SUBSET S)
           h == CHOOSE h : Adds(f, h, SUBSET T)
<1>1. IsFiniteSet(T) /\ T \subseteq S
    BY FirstOut
<1>2. Adds(f, g, SUBSET S)
    BY AddsExists
<1>3. Adds(f, h, SUBSET T)
    BY <1>1, AddsExists
<1>4. SumFunctionOnSet(f, S) = g[S] /\ SumFunctionOnSet(f, T) = h[T]
    BY SumUnfolds
<1> HIDE DEF T, g, h
<1>5. g[T] = h[T]
  <2>1. ASSUME NEW a, NEW b, Adds(f, a, SUBSET S), Adds(f, b, SUBSET T)
        PROVE  a[T] = b[T]
      BY <1>1, <2>1, AddsUnique
  <2>q. QED BY <1>2, <1>3, <2>1
<1>6. S \in SUBSET S
    OBVIOUS
<1>7. g[S] = Body(f, g, S)
    BY <1>2, <1>6 DEF Adds
<1>q. QED BY <1>4, <1>5, <1>7 DEF Body, T

\* Induction over the subsets of a finite set, by their first elements.
LEMMA FirstInduction ==
    ASSUME NEW S, IsFiniteSet(S), NEW Q, {} \in Q,
           \A s \in SUBSET S : s # {} /\ s \ {First(s)} \in Q => s \in Q
    PROVE  \A s \in SUBSET S : s \in Q
<1> DEFINE H == {n \in Nat : \A s \in SUBSET S : Cardinality(s) = n => s \in Q}
<1>0. \A s \in SUBSET S : IsFiniteSet(s) /\ Cardinality(s) \in Nat
    BY FS_Subset, FS_CardinalityType
<1>e. Cardinality({}) = 0
    BY FS_EmptySet
<1>1. 0 \in H
  <2>1. \A s \in SUBSET S : Cardinality(s) = 0 => s = {}
      BY <1>0, FS_EmptySet
  <2>q. QED BY <2>1
<1>2. ASSUME NEW n \in Nat, n \in H
      PROVE  n + 1 \in H
  <2> SUFFICES ASSUME NEW s \in SUBSET S, Cardinality(s) = n + 1
               PROVE  s \in Q
      OBVIOUS
  <2>1. s # {}
      BY <1>e
  <2>2. s \ {First(s)} \in SUBSET S /\ Cardinality(s \ {First(s)}) = n
      BY <1>0, <2>1, FirstOut
  <2>q. QED BY <1>2, <2>1, <2>2
<1> HIDE DEF H
<1>3. Nat \subseteq H
    BY <1>1, <1>2, SetInduction
<1>q. QED BY <1>0, <1>3 DEF H

\* Induction over the subsets of a finite set: by any element.
LEMMA FiniteInduction ==
    ASSUME NEW S, IsFiniteSet(S), NEW Q, {} \in Q,
           \A s \in SUBSET S, x \in S : s \in Q /\ x \notin s => s \cup {x} \in Q
    PROVE  S \in Q
<1>1. ASSUME NEW s \in SUBSET S, s # {}, s \ {First(s)} \in Q
      PROVE  s \in Q
  <2>1. First(s) \in s
      BY <1>1, Zenon DEF First
  <2> DEFINE t == s \ {First(s)}
  <2>2. t \in SUBSET S /\ First(s) \in S /\ First(s) \notin t /\ t \cup {First(s)} = s
      BY <2>1
  <2> HIDE DEF t
  <2>3. t \in Q
      BY <1>1 DEF t
  <2>q. QED BY <2>2, <2>3
<1>q. QED BY <1>1, FirstInduction

LEMMA SumInt ==
    ASSUME NEW S, IsFiniteSet(S), NEW f, \A x \in S : f[x] \in Int
    PROVE  \A s \in SUBSET S : SumFunctionOnSet(f, s) \in Int
<1> DEFINE Q == {s \in SUBSET S : SumFunctionOnSet(f, s) \in Int}
<1>1. {} \in Q
    BY SumEmpty
<1>2. ASSUME NEW s \in SUBSET S, s # {}, s \ {First(s)} \in Q
      PROVE  s \in Q
  <2>1. IsFiniteSet(s) /\ First(s) \in s
      BY <1>2, FS_Subset, FirstOut
  <2>2. SumFunctionOnSet(f, s) = f[First(s)] + SumFunctionOnSet(f, s \ {First(s)})
      BY <1>2, <2>1, SumFirst
  <2>3. f[First(s)] \in Int /\ SumFunctionOnSet(f, s \ {First(s)}) \in Int
      BY <1>2, <2>1
  <2>q. QED BY <2>2, <2>3
<1> HIDE DEF Q
<1>3. \A s \in SUBSET S : s \in Q
    BY <1>1, <1>2, FirstInduction
<1>q. QED BY <1>3 DEF Q

\* The order does not matter: any element can be taken out first.
LEMMA SumAnyOrder ==
    ASSUME NEW S, IsFiniteSet(S), NEW f, \A x \in S : f[x] \in Int
    PROVE  \A s \in SUBSET S : \A x \in s :
               SumFunctionOnSet(f, s) = f[x] + SumFunctionOnSet(f, s \ {x})
<1> DEFINE Sum(s) == SumFunctionOnSet(f, s)
           Q == {s \in SUBSET S : \A x \in s : Sum(s) = f[x] + Sum(s \ {x})}
           H == {n \in Nat : \A s \in SUBSET S : Cardinality(s) = n => s \in Q}
<1>0. \A s \in SUBSET S : IsFiniteSet(s) /\ Cardinality(s) \in Nat /\ Sum(s) \in Int
    BY FS_Subset, FS_CardinalityType, SumInt
<1>e. Cardinality({}) = 0
    BY FS_EmptySet
<1>f. \A s \in SUBSET S : s # {} => First(s) \in s /\ Sum(s) = f[First(s)] + Sum(s \ {First(s)})
    BY <1>0, SumFirst, FirstOut
<1>r. ASSUME NEW s \in SUBSET S, NEW x \in s
      PROVE  Cardinality(s \ {x}) = Cardinality(s) - 1 /\ s \ {x} \in SUBSET S
    BY <1>0, FS_RemoveElement
<1> HIDE DEF Sum
<1>1. 0 \in H
  <2>1. \A s \in SUBSET S : Cardinality(s) = 0 => s = {}
      BY <1>0, FS_EmptySet
  <2>2. {} \in Q
      OBVIOUS
  <2> HIDE DEF Q
  <2>q. QED BY <2>1, <2>2
<1>2. ASSUME NEW n \in Nat, n \in H
      PROVE  n + 1 \in H
  <2> SUFFICES ASSUME NEW s \in SUBSET S, Cardinality(s) = n + 1, NEW x \in s
               PROVE  Sum(s) = f[x] + Sum(s \ {x})
      OBVIOUS
  <2> DEFINE y == First(s)
  <2>1. y \in s /\ Sum(s) = f[y] + Sum(s \ {y})
      BY <1>f
  <2> HIDE DEF y
  <2>2. CASE x = y
      BY <2>1, <2>2
  <2>3. CASE x # y
    <3>0. Cardinality(s) - 1 = n
        OBVIOUS
    <3>1. Cardinality(s \ {x}) = n /\ s \ {x} \in SUBSET S /\ y \in s \ {x}
        BY <1>r, <2>1, <2>3, <3>0
    <3>2. Cardinality(s \ {y}) = n /\ s \ {y} \in SUBSET S /\ x \in s \ {y}
        BY <1>r, <2>1, <2>3, <3>0
    <3>3. s \ {x} \in Q /\ s \ {y} \in Q
        BY <1>2, <3>1, <3>2
    <3>4. Sum(s \ {x}) = f[y] + Sum((s \ {x}) \ {y})
        BY <3>1, <3>3
    <3>5. Sum(s \ {y}) = f[x] + Sum((s \ {y}) \ {x})
        BY <3>2, <3>3
    <3>6. (s \ {x}) \ {y} = (s \ {y}) \ {x} /\ (s \ {x}) \ {y} \in SUBSET S
        OBVIOUS
    <3>7. f[x] \in Int /\ f[y] \in Int /\ Sum((s \ {x}) \ {y}) \in Int
        BY <1>0, <2>1, <3>6
    <3> DEFINE z == Sum((s \ {x}) \ {y})
    <3>8. Sum(s) = f[y] + (f[x] + z) /\ Sum(s \ {x}) = f[y] + z
        BY <2>1, <3>4, <3>5, <3>6
    <3> HIDE DEF z, Q, H
    <3>9. f[y] + (f[x] + z) = f[x] + (f[y] + z)
        BY <3>7 DEF z
    <3>q. QED BY <3>8, <3>9
  <2>q. QED BY <2>2, <2>3
<1> HIDE DEF H
<1>3. Nat \subseteq H
    BY <1>1, <1>2, SetInduction
<1>4. \A s \in SUBSET S : s \in Q
    BY <1>0, <1>3 DEF H
<1>q. QED BY <1>4 DEF Sum
-----------------------------------------------------------------------------
(* How sums compare *)

\* One element more.
LEMMA SumAdd ==
    ASSUME NEW S, IsFiniteSet(S), NEW f, \A x \in S : f[x] \in Int,
           NEW s \in SUBSET S, NEW x \in S, x \notin s
    PROVE  /\ SumFunctionOnSet(f, s \cup {x}) = f[x] + SumFunctionOnSet(f, s)
           /\ SumFunctionOnSet(f, s) \in Int
<1>1. s \cup {x} \in SUBSET S /\ x \in s \cup {x} /\ (s \cup {x}) \ {x} = s
    OBVIOUS
<1>2. SumFunctionOnSet(f, s \cup {x}) = f[x] + SumFunctionOnSet(f, (s \cup {x}) \ {x})
    BY <1>1, SumAnyOrder
<1>q. QED BY <1>1, <1>2, SumInt

\* Values that are not larger add up to no more.
LEMMA SumLess ==
    ASSUME NEW S, IsFiniteSet(S), NEW f, NEW g,
           \A x \in S : f[x] \in Int /\ g[x] \in Int /\ f[x] <= g[x]
    PROVE  SumFunctionOnSet(f, S) <= SumFunctionOnSet(g, S)
<1> DEFINE Q == {s \in SUBSET S : SumFunctionOnSet(f, s) <= SumFunctionOnSet(g, s)}
<1>1. {} \in Q
    BY SumEmpty
<1>2. ASSUME NEW s \in SUBSET S, NEW x \in S, s \in Q, x \notin s
      PROVE  s \cup {x} \in Q
  <2>1. /\ SumFunctionOnSet(f, s \cup {x}) = f[x] + SumFunctionOnSet(f, s)
        /\ SumFunctionOnSet(f, s) \in Int
      BY <1>2, SumAdd
  <2>2. /\ SumFunctionOnSet(g, s \cup {x}) = g[x] + SumFunctionOnSet(g, s)
        /\ SumFunctionOnSet(g, s) \in Int
      BY <1>2, SumAdd
  <2>3. SumFunctionOnSet(f, s) <= SumFunctionOnSet(g, s)
      BY <1>2
  <2>4. SumFunctionOnSet(f, s \cup {x}) <= SumFunctionOnSet(g, s \cup {x})
      BY <2>1, <2>2, <2>3
  <2>q. QED BY <2>4
<1> HIDE DEF Q
<1>3. S \in Q
    BY <1>1, <1>2, FiniteInduction
<1>q. QED BY <1>3 DEF Q

\* The sum depends on the values alone.
LEMMA SumSame ==
    ASSUME NEW S, IsFiniteSet(S), NEW f, NEW g, \A x \in S : f[x] \in Int /\ f[x] = g[x]
    PROVE  SumFunctionOnSet(f, S) = SumFunctionOnSet(g, S)
<1>1. S \in SUBSET S /\ \A x \in S : g[x] \in Int
    OBVIOUS
<1>2. SumFunctionOnSet(f, S) \in Int /\ SumFunctionOnSet(g, S) \in Int
    BY <1>1, SumInt
<1>3. SumFunctionOnSet(f, S) <= SumFunctionOnSet(g, S)
    BY <1>1, SumLess
<1>4. SumFunctionOnSet(g, S) <= SumFunctionOnSet(f, S)
    BY <1>1, SumLess
<1>q. QED BY <1>2, <1>3, <1>4

\* Numbers that are not negative add up to one.
LEMMA SumNat ==
    ASSUME NEW S, IsFiniteSet(S), NEW f, \A x \in S : f[x] \in Nat
    PROVE  SumFunctionOnSet(f, S) \in Nat
<1> DEFINE Q == {s \in SUBSET S : SumFunctionOnSet(f, s) \in Nat}
<1>1. {} \in Q
    BY SumEmpty
<1>2. ASSUME NEW s \in SUBSET S, NEW x \in S, s \in Q, x \notin s
      PROVE  s \cup {x} \in Q
  <2>1. SumFunctionOnSet(f, s \cup {x}) = f[x] + SumFunctionOnSet(f, s)
      BY <1>2, SumAdd
  <2>q. QED BY <1>2, <2>1
<1> HIDE DEF Q
<1>3. S \in Q
    BY <1>1, <1>2, FiniteInduction
<1>q. QED BY <1>3 DEF Q

\* One value of the sum changes.
LEMMA SumChange ==
    ASSUME NEW S, IsFiniteSet(S), NEW f, NEW g, NEW x \in S,
           \A y \in S : f[y] \in Int /\ g[y] \in Int, \A y \in S : y # x => f[y] = g[y]
    PROVE  SumFunctionOnSet(g, S) = SumFunctionOnSet(f, S) - f[x] + g[x]
<1> DEFINE T == S \ {x}
<1>1. IsFiniteSet(T) /\ T \in SUBSET S /\ S \in SUBSET S
    BY FS_Subset
<1>2. SumFunctionOnSet(f, S) = f[x] + SumFunctionOnSet(f, T)
    BY <1>1, SumAnyOrder
<1>3. SumFunctionOnSet(g, S) = g[x] + SumFunctionOnSet(g, T)
    BY <1>1, SumAnyOrder
<1>4. SumFunctionOnSet(f, T) = SumFunctionOnSet(g, T)
    BY <1>1, SumSame
<1>5. SumFunctionOnSet(f, T) \in Int /\ f[x] \in Int /\ g[x] \in Int
    BY <1>1, SumInt
<1>q. QED BY <1>2, <1>3, <1>4, <1>5

\* No value exceeds a sum of numbers that are not negative.
LEMMA SumAtLeast ==
    ASSUME NEW S, IsFiniteSet(S), NEW f, NEW x \in S, \A y \in S : f[y] \in Nat
    PROVE  f[x] <= SumFunctionOnSet(f, S)
<1> DEFINE T == S \ {x}
<1>1. IsFiniteSet(T) /\ T \in SUBSET S /\ S \in SUBSET S
    BY FS_Subset
<1>2. SumFunctionOnSet(f, S) = f[x] + SumFunctionOnSet(f, T)
    BY <1>1, SumAnyOrder
<1>3. SumFunctionOnSet(f, T) \in Nat
    BY <1>1, SumNat
<1>q. QED BY <1>2, <1>3
-----------------------------------------------------------------------------
(* Sums over sequences: a value for each position *)

\* The sum of the first values of a sequence.
LEMMA SumUpTo ==
    ASSUME NEW n \in Nat, NEW f, \A i \in 1..n : f[i] \in Int
    PROVE  /\ SumFunctionOnSet(f, 1..n) \in Int
           /\ n > 0 => SumFunctionOnSet(f, 1..n) = f[n] + SumFunctionOnSet(f, 1..(n - 1))
<1>1. IsFiniteSet(1..n) /\ 1..n \in SUBSET (1..n)
    BY FS_Interval
<1>2. SumFunctionOnSet(f, 1..n) \in Int
    BY <1>1, SumInt
<1>3. ASSUME n > 0
      PROVE  SumFunctionOnSet(f, 1..n) = f[n] + SumFunctionOnSet(f, 1..(n - 1))
  <2>1. n \in 1..n /\ (1..n) \ {n} = 1..(n - 1)
      BY <1>3
  <2>2. SumFunctionOnSet(f, 1..n) = f[n] + SumFunctionOnSet(f, (1..n) \ {n})
      BY <1>1, <2>1, SumAnyOrder
  <2>q. QED BY <2>1, <2>2
<1>q. QED BY <1>2, <1>3

\* f is g with one value more in front.
LEMMA SumShift ==
    ASSUME NEW n \in Nat, NEW f, NEW g, \A i \in 1..(n + 1) : f[i] \in Int,
           \A i \in 1..n : g[i] = f[i + 1]
    PROVE  SumFunctionOnSet(f, 1..(n + 1)) = f[1] + SumFunctionOnSet(g, 1..n)
<1> DEFINE H == {m \in Nat : m <= n => SumFunctionOnSet(f, 1..(m + 1)) = f[1] + SumFunctionOnSet(g, 1..m)}
<1>1. 0 \in H
  <2>1. 1..0 = {} /\ 1..1 = {1}
      OBVIOUS
  <2>2. SumFunctionOnSet(f, 1..1) = f[1] + SumFunctionOnSet(f, 1..0)
    <3>1. 1 \in Nat /\ 1 > 0 /\ 1 - 1 = 0 /\ \A i \in 1..1 : f[i] \in Int
        OBVIOUS
    <3>q. QED BY <3>1, SumUpTo
  <2>3. SumFunctionOnSet(f, 1..0) = 0 /\ SumFunctionOnSet(g, 1..0) = 0
      BY <2>1, SumEmpty
  <2>4. SumFunctionOnSet(f, 1..(0 + 1)) = f[1] + SumFunctionOnSet(g, 1..0)
      BY <2>2, <2>3
  <2>q. QED BY <2>4
<1>2. ASSUME NEW m \in Nat, m \in H
      PROVE  m + 1 \in H
  <2> SUFFICES ASSUME m + 1 <= n
               PROVE  SumFunctionOnSet(f, 1..(m + 1 + 1)) = f[1] + SumFunctionOnSet(g, 1..(m + 1))
      OBVIOUS
  <2>1. SumFunctionOnSet(f, 1..(m + 1)) = f[1] + SumFunctionOnSet(g, 1..m)
      BY <1>2
  <2>2. \A i \in 1..(m + 2) : f[i] \in Int
      OBVIOUS
  <2>3. \A i \in 1..(m + 1) : g[i] \in Int /\ g[i] = f[i + 1]
      OBVIOUS
  <2> HIDE DEF H
  <2>4. SumFunctionOnSet(f, 1..(m + 2)) = f[m + 2] + SumFunctionOnSet(f, 1..(m + 1))
    <3>1. m + 2 \in Nat /\ m + 2 > 0 /\ (m + 2) - 1 = m + 1
        OBVIOUS
    <3>q. QED BY <2>2, <3>1, SumUpTo
  <2>5. SumFunctionOnSet(g, 1..(m + 1)) = g[m + 1] + SumFunctionOnSet(g, 1..m)
    <3>1. m + 1 \in Nat /\ m + 1 > 0 /\ (m + 1) - 1 = m
        OBVIOUS
    <3>q. QED BY <2>3, <3>1, SumUpTo
  <2>6. SumFunctionOnSet(g, 1..m) \in Int
      BY <2>3, SumUpTo
  <2>7. f[1] \in Int /\ f[m + 2] \in Int /\ g[m + 1] = f[m + 2] /\ m + 1 + 1 = m + 2
      BY <2>2, <2>3
  <2>q. QED BY <2>1, <2>4, <2>5, <2>6, <2>7
<1> HIDE DEF H
<1>3. n \in H
    BY <1>1, <1>2, SetInduction
<1>q. QED BY <1>3 DEF H

\* A value more at the end of a sequence of values.
LEMMA SumAppend ==
    ASSUME NEW n \in Nat, NEW f, NEW g, DOMAIN f = 1..n, DOMAIN g = 1..(n + 1),
           \A i \in 1..(n + 1) : g[i] \in Int, \A i \in 1..n : f[i] = g[i]
    PROVE  SumFunction(g) = SumFunction(f) + g[n + 1]
<1>1. IsFiniteSet(1..n) /\ n + 1 \in Nat /\ n + 1 > 0 /\ (n + 1) - 1 = n
    BY FS_Interval
<1>2. SumFunctionOnSet(g, 1..(n + 1)) = g[n + 1] + SumFunctionOnSet(g, 1..n)
    BY <1>1, SumUpTo
<1>3. SumFunctionOnSet(f, 1..n) = SumFunctionOnSet(g, 1..n)
    BY <1>1, SumSame
<1>4. SumFunctionOnSet(g, 1..n) \in Int /\ g[n + 1] \in Int
    BY SumUpTo
<1>q. QED BY <1>2, <1>3, <1>4 DEF SumFunction

\* The first value of a sequence goes.
LEMMA SumTail ==
    ASSUME NEW n \in Nat, NEW f, NEW g, DOMAIN f = 1..(n + 1), DOMAIN g = 1..n,
           \A i \in 1..(n + 1) : f[i] \in Int, \A i \in 1..n : g[i] = f[i + 1]
    PROVE  SumFunction(f) = f[1] + SumFunction(g)
BY SumShift DEF SumFunction

\* Sums of sequences of numbers that are not negative.
LEMMA SumOfNat ==
    ASSUME NEW n \in Nat, NEW f, DOMAIN f = 1..n, \A i \in 1..n : f[i] \in Nat
    PROVE  /\ SumFunction(f) \in Nat
           /\ \A i \in 1..n : f[i] <= SumFunction(f)
           /\ (\A i \in 1..n : f[i] = 0) => SumFunction(f) = 0
           /\ (\A i \in 1..n : f[i] <= 1) => SumFunction(f) <= n
<1>0. IsFiniteSet(1..n)
    BY FS_Interval
<1>1. SumFunction(f) \in Nat
    BY <1>0, SumNat DEF SumFunction
<1>2. \A i \in 1..n : f[i] <= SumFunction(f)
    BY <1>0, SumAtLeast DEF SumFunction
<1> DEFINE H(c) == {m \in Nat : m <= n => SumFunctionOnSet(f, 1..m) <= c * m}
<1>3. ASSUME NEW c \in {0, 1}, \A i \in 1..n : f[i] <= c
      PROVE  SumFunctionOnSet(f, 1..n) <= c * n
  <2>1. 0 \in H(c)
    <3>1. 1..0 = {}
        OBVIOUS
    <3>2. SumFunctionOnSet(f, 1..0) = 0
        BY <3>1, SumEmpty
    <3>q. QED BY <3>2
  <2>2. ASSUME NEW m \in Nat, m \in H(c)
        PROVE  m + 1 \in H(c)
    <3> SUFFICES ASSUME m + 1 <= n
                 PROVE  SumFunctionOnSet(f, 1..(m + 1)) <= c * (m + 1)
        OBVIOUS
    <3>1. SumFunctionOnSet(f, 1..m) <= c * m
        BY <2>2
    <3>2. (\A i \in 1..(m + 1) : f[i] \in Int) /\ (\A i \in 1..m : f[i] \in Int)
        OBVIOUS
    <3>3. f[m + 1] \in Nat /\ f[m + 1] <= c
        BY <1>3
    <3>4. m + 1 \in Nat /\ m + 1 > 0 /\ (m + 1) - 1 = m
        OBVIOUS
    <3> HIDE DEF H
    <3>5. SumFunctionOnSet(f, 1..(m + 1)) = f[m + 1] + SumFunctionOnSet(f, 1..m)
        BY <3>2, <3>4, SumUpTo
    <3>6. SumFunctionOnSet(f, 1..m) \in Int
        BY <3>2, SumUpTo
    <3>7. CASE c = 0
        BY <3>1, <3>3, <3>5, <3>6, <3>7
    <3>8. CASE c = 1
        BY <3>1, <3>3, <3>5, <3>6, <3>8
    <3>q. QED BY <3>7, <3>8
  <2> HIDE DEF H
  <2>3. n \in H(c)
      BY <2>1, <2>2, SetInduction
  <2>q. QED BY <2>3 DEF H
<1>4. ASSUME \A i \in 1..n : f[i] = 0
      PROVE  SumFunction(f) = 0
  <2>1. \A i \in 1..n : f[i] <= 0
      BY <1>4
  <2>2. SumFunctionOnSet(f, 1..n) <= 0 * n
      BY <1>3, <2>1
  <2>q. QED BY <1>1, <2>2 DEF SumFunction
<1>5. ASSUME \A i \in 1..n : f[i] <= 1
      PROVE  SumFunction(f) <= n
  <2>1. SumFunctionOnSet(f, 1..n) <= 1 * n
      BY <1>3, <1>5
  <2>q. QED BY <2>1 DEF SumFunction
<1>q. QED BY <1>1, <1>2, <1>4, <1>5
=============================================================================
