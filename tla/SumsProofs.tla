----------------------------- MODULE SumsProofs -----------------------------
(***************************************************************************)
(* Facts about SumOver.  The induction theorems of the standard library    *)
(* take a predicate as parameter; the first lemmas here state induction    *)
(* for sets instead, which is all the later ones need.                     *)
(***************************************************************************)
EXTENDS Sums, FiniteSetTheorems, FunctionTheorems, TLAPS

(* Induction on the naturals, for a set: a set that holds 0 and the        *)
(* successor of each natural in it holds every natural.  If n were missing, *)
(* adding one would map the elements below n injectively to themselves and *)
(* miss 0, which no finite set allows.                                     *)
LEMMA NatSetInduction ==
  ASSUME NEW T, 0 \in T, \A n \in Nat : n \in T => n + 1 \in T
  PROVE  Nat \subseteq T
<1> SUFFICES ASSUME NEW m \in Nat, m \notin T PROVE FALSE
  OBVIOUS
<1> DEFINE B == {n \in 0..m : n \in T}
           succ == [n \in B |-> n + 1]
<1>1. IsFiniteSet(B)
  <2>1. IsFiniteSet(0..m)
    BY FS_Interval
  <2>2. B \in SUBSET (0..m)
    OBVIOUS
  <2> HIDE DEF B
  <2> QED BY <2>1, <2>2, FS_Subset
<1>2. succ \in [B -> B]
  <2> SUFFICES ASSUME NEW n \in B PROVE n + 1 \in B
    OBVIOUS
  <2>1. n # m
    OBVIOUS
  <2> QED BY <2>1
<1>3. succ \in Injection(B, B)
  <2>1. \A a, b \in B : succ[a] = succ[b] => a = b
    OBVIOUS
  <2> QED BY <1>2, <2>1 DEF Injection, IsInjective
<1>4. succ \in Surjection(B, B)
  <2> HIDE DEF succ, B
  <2> QED BY <1>1, <1>3, FS_Injection
<1>5. 0 \in B
  OBVIOUS
<1>6. PICK n \in B : succ[n] = 0
  BY <1>4, <1>5 DEF Surjection
<1> QED BY <1>6

(* Induction on the subsets of a finite set, peeling off AnyOf. *)
LEMMA SubsetInduction ==
  ASSUME NEW S, IsFiniteSet(S), NEW U,
         {} \in U,
         \A T \in SUBSET S : T # {} /\ T \ {AnyOf(T)} \in U => T \in U
  PROVE  SUBSET S \subseteq U
<1> DEFINE N == {n \in Nat : \A T \in SUBSET S : Cardinality(T) = n => T \in U}
<1>1. \A T \in SUBSET S : IsFiniteSet(T) /\ Cardinality(T) \in Nat
  BY FS_Subset, FS_CardinalityType
<1>2. 0 \in N
  BY <1>1, FS_EmptySet
<1>3. ASSUME NEW n \in Nat, n \in N PROVE n + 1 \in N
  <2> SUFFICES ASSUME NEW T \in SUBSET S, Cardinality(T) = n + 1 PROVE T \in U
    OBVIOUS
  <2>1. T # {}
    <3>1. Cardinality({}) = 0
      BY FS_EmptySet
    <3> QED BY <3>1
  <2>2. AnyOf(T) \in T
    BY <2>1 DEF AnyOf
  <2>3. Cardinality(T \ {AnyOf(T)}) = n
    BY <1>1, <2>2, FS_RemoveElement
  <2>4. T \ {AnyOf(T)} \in U
    BY <2>3, <1>3
  <2> QED BY <2>1, <2>4
<1>4. Nat \subseteq N
  <2> HIDE DEF N
  <2> QED BY <1>2, <1>3, NatSetInduction
<1> QED BY <1>1, <1>4

(* The recursive function inside SumOver. *)
IsPartialSums(sum, f, S) ==
  sum = [T \in SUBSET S |->
           IF T = {} THEN 0 ELSE f[AnyOf(T)] + sum[T \ {AnyOf(T)}]]

PartialSums(f, S) == CHOOSE sum : IsPartialSums(sum, f, S)

LEMMA SumOverDef == \A f, S : SumOver(f, S) = PartialSums(f, S)[S]
BY DEF SumOver, PartialSums, IsPartialSums

(* The recursion of SumOver has a solution: it is built one cardinality at *)
(* a time.                                                                 *)
LEMMA PartialSumsExist ==
  ASSUME NEW f, NEW S, IsFiniteSet(S)
  PROVE  \E sum : IsPartialSums(sum, f, S)
<1> DEFINE Small(n) == {T \in SUBSET S : Cardinality(T) <= n}
           Body(g, T) == IF T = {} THEN 0 ELSE f[AnyOf(T)] + g[T \ {AnyOf(T)}]
           N == {n \in Nat : \E g : g = [T \in Small(n) |-> Body(g, T)]}
<1>1. \A T \in SUBSET S : /\ Cardinality(T) \in Nat
                          /\ Cardinality(T) <= Cardinality(S)
                          /\ Cardinality(T) = 0 <=> T = {}
  BY FS_Subset, FS_CardinalityType, FS_EmptySet
<1>2. \A T \in SUBSET S : T # {} => Cardinality(T \ {AnyOf(T)}) = Cardinality(T) - 1
  <2> SUFFICES ASSUME NEW T \in SUBSET S, T # {}
               PROVE  Cardinality(T \ {AnyOf(T)}) = Cardinality(T) - 1
    OBVIOUS
  <2>1. AnyOf(T) \in T
    BY DEF AnyOf
  <2> QED BY <2>1, FS_Subset, FS_RemoveElement
<1>3. 0 \in N
  <2> DEFINE g == [T \in Small(0) |-> 0]
  <2>1. \A T \in Small(0) : T = {}
    BY <1>1
  <2>2. \A T \in Small(0) : Body(g, T) = 0
    BY <2>1
  <2>3. g = [T \in Small(0) |-> Body(g, T)]
    <3> HIDE DEF Body, Small
    <3> QED BY <2>2
  <2> QED BY <2>3
<1>4. ASSUME NEW n \in Nat, n \in N PROVE n + 1 \in N
  <2>1. PICK g : g = [T \in Small(n) |-> Body(g, T)]
    BY <1>4
  <2> DEFINE h == [T \in Small(n + 1) |-> Body(g, T)]
  <2>2. ASSUME NEW T \in Small(n + 1) PROVE Body(h, T) = Body(g, T)
    <3>1. CASE T = {}
      BY <3>1
    <3>2. CASE T # {}
      <4> DEFINE R == T \ {AnyOf(T)}
      <4>1. R \in Small(n)
        BY <1>1, <1>2, <3>2
      <4>2. R \in Small(n + 1)
        BY <1>1, <4>1
      <4>3. h[R] = Body(g, R)
        BY <4>2
      <4>4. g[R] = Body(g, R)
        <5> HIDE DEF R, Body, Small
        <5> QED BY <2>1, <4>1
      <4> QED BY <3>2, <4>3, <4>4
    <3> QED BY <3>1, <3>2
  <2>3. h = [T \in Small(n + 1) |-> Body(h, T)]
    <3> HIDE DEF Body, Small
    <3> QED BY <2>2
  <2>4. \E k : k = [T \in Small(n + 1) |-> Body(k, T)]
    <3> HIDE DEF h, Body, Small
    <3> QED BY <2>3
  <2> QED
    <3> HIDE DEF h, Body, Small
    <3> QED BY <2>4
<1>5. Cardinality(S) \in N
  <2>1. Nat \subseteq N
    <3> HIDE DEF N
    <3> QED BY <1>3, <1>4, NatSetInduction
  <2> QED BY <2>1, FS_CardinalityType
<1>6. Small(Cardinality(S)) = SUBSET S
  BY <1>1
<1>7. PICK g : g = [T \in Small(Cardinality(S)) |-> Body(g, T)]
  BY <1>5
<1>8. g = [T \in SUBSET S |-> Body(g, T)]
  <2> HIDE DEF Small, Body
  <2> QED BY <1>6, <1>7
<1> QED BY <1>8 DEF IsPartialSums

(* One step of the recursion. *)
LEMMA PartialSumsStep ==
  ASSUME NEW f, NEW S, IsFiniteSet(S), NEW T \in SUBSET S
  PROVE  PartialSums(f, S)[T] =
           IF T = {} THEN 0 ELSE f[AnyOf(T)] + PartialSums(f, S)[T \ {AnyOf(T)}]
<1>1. IsPartialSums(PartialSums(f, S), f, S)
  BY PartialSumsExist DEF PartialSums
<1> QED BY <1>1 DEF IsPartialSums

LEMMA AnyOfIn == \A T : T # {} => AnyOf(T) \in T
BY DEF AnyOf

(***************************************************************************)
(* What the specifications use: the sum of integers is an integer, of      *)
(* naturals a natural; sums of equal families are equal; sums add; a       *)
(* family that is zero but in one place sums to what is there.             *)
(***************************************************************************)
LEMMA SumStep ==
  \A S : IsFiniteSet(S) => \A f : \A T \in SUBSET S : T # {} =>
    PartialSums(f, S)[T] = f[AnyOf(T)] + PartialSums(f, S)[T \ {AnyOf(T)}]
BY PartialSumsStep

LEMMA SumNothing ==
  ASSUME NEW f, NEW S, IsFiniteSet(S)
  PROVE  PartialSums(f, S)[{}] = 0
BY PartialSumsStep

LEMMA SumOverType ==
  ASSUME NEW S, IsFiniteSet(S), NEW f, \A x \in S : f[x] \in Int
  PROVE  SumOver(f, S) \in Int
<1> DEFINE U == {T \in SUBSET S : PartialSums(f, S)[T] \in Int}
<1>1. {} \in U
  BY SumNothing
<1>2. ASSUME NEW T \in SUBSET S, T # {}, T \ {AnyOf(T)} \in U PROVE T \in U
  <2>1. f[AnyOf(T)] \in Int
    BY <1>2, AnyOfIn
  <2>2. PartialSums(f, S)[T] = f[AnyOf(T)] + PartialSums(f, S)[T \ {AnyOf(T)}]
    <3> HIDE DEF U
    <3> QED BY <1>2, SumStep
  <2> QED BY <1>2, <2>1, <2>2
<1>3. SUBSET S \subseteq U
  <2> HIDE DEF U
  <2> QED BY <1>1, <1>2, SubsetInduction
<1> QED BY <1>3, SumOverDef

LEMMA SumOverNat ==
  ASSUME NEW S, IsFiniteSet(S), NEW f, \A x \in S : f[x] \in Nat
  PROVE  SumOver(f, S) \in Nat
<1> DEFINE U == {T \in SUBSET S : PartialSums(f, S)[T] \in Nat}
<1>1. {} \in U
  BY SumNothing
<1>2. \A T \in SUBSET S : T # {} /\ T \ {AnyOf(T)} \in U => T \in U
  BY SumStep, AnyOfIn
<1>3. SUBSET S \subseteq U
  <2> HIDE DEF U
  <2> QED BY <1>1, <1>2, SubsetInduction
<1> QED BY <1>3, SumOverDef

LEMMA SumOverAdd ==
  ASSUME NEW S, IsFiniteSet(S), NEW f, NEW g, NEW h,
         \A x \in S : f[x] \in Int /\ g[x] \in Int /\ h[x] = f[x] + g[x]
  PROVE  SumOver(h, S) = SumOver(f, S) + SumOver(g, S)
<1> DEFINE F(T) == PartialSums(f, S)[T]
           G(T) == PartialSums(g, S)[T]
           H(T) == PartialSums(h, S)[T]
           U == {T \in SUBSET S : F(T) \in Int /\ G(T) \in Int /\ H(T) = F(T) + G(T)}
<1>1. {} \in U
  BY SumNothing
<1>2. ASSUME NEW T \in SUBSET S, T # {}, T \ {AnyOf(T)} \in U PROVE T \in U
  <2> DEFINE a == AnyOf(T)
             R == T \ {AnyOf(T)}
  <2>1. a \in S
    BY <1>2, AnyOfIn
  <2>2. F(T) = f[a] + F(R) /\ G(T) = g[a] + G(R) /\ H(T) = h[a] + H(R)
    <3>1. F(T) = f[a] + F(R)
      <4> HIDE DEF U
      <4> QED BY <1>2, SumStep
    <3>2. G(T) = g[a] + G(R)
      <4> HIDE DEF U
      <4> QED BY <1>2, SumStep
    <3>3. H(T) = h[a] + H(R)
      <4> HIDE DEF U
      <4> QED BY <1>2, SumStep
    <3> QED BY <3>1, <3>2, <3>3
  <2>3. F(R) \in Int /\ G(R) \in Int /\ H(R) = F(R) + G(R)
    BY <1>2
  <2>4. f[a] \in Int /\ g[a] \in Int /\ h[a] = f[a] + g[a]
    BY <2>1
  <2>5. F(T) \in Int /\ G(T) \in Int /\ H(T) = F(T) + G(T)
    <3> HIDE DEF a, R, F, G, H
    <3> QED BY <2>2, <2>3, <2>4
  <2> QED BY <2>5
<1>3. SUBSET S \subseteq U
  <2> HIDE DEF U
  <2> QED BY <1>1, <1>2, SubsetInduction
<1>4. S \in U
  <2> HIDE DEF U
  <2> QED BY <1>3
<1> QED BY <1>4, SumOverDef

LEMMA SumOverEqual ==
  ASSUME NEW S, IsFiniteSet(S), NEW f, NEW g, \A x \in S : f[x] = g[x]
  PROVE  SumOver(f, S) = SumOver(g, S)
<1> DEFINE U == {T \in SUBSET S : PartialSums(f, S)[T] = PartialSums(g, S)[T]}
<1>1. {} \in U
  BY SumNothing
<1>2. \A T \in SUBSET S : T # {} /\ T \ {AnyOf(T)} \in U => T \in U
  BY SumStep, AnyOfIn
<1>3. SUBSET S \subseteq U
  <2> HIDE DEF U
  <2> QED BY <1>1, <1>2, SubsetInduction
<1> QED BY <1>3, SumOverDef

LEMMA SumOverZero ==
  ASSUME NEW S, IsFiniteSet(S), NEW f, \A x \in S : f[x] = 0
  PROVE  SumOver(f, S) = 0
<1> DEFINE U == {T \in SUBSET S : PartialSums(f, S)[T] = 0}
<1>1. {} \in U
  BY SumNothing
<1>2. ASSUME NEW T \in SUBSET S, T # {}, T \ {AnyOf(T)} \in U PROVE T \in U
  <2>1. f[AnyOf(T)] = 0
    BY <1>2, AnyOfIn
  <2>2. PartialSums(f, S)[T] = f[AnyOf(T)] + PartialSums(f, S)[T \ {AnyOf(T)}]
    <3> HIDE DEF U
    <3> QED BY <1>2, SumStep
  <2> QED BY <1>2, <2>1, <2>2
<1>3. SUBSET S \subseteq U
  <2> HIDE DEF U
  <2> QED BY <1>1, <1>2, SubsetInduction
<1> QED BY <1>3, SumOverDef

LEMMA SumOverSingle ==
  ASSUME NEW S, IsFiniteSet(S), NEW a \in S, NEW v \in Int, NEW f,
         \A x \in S : f[x] = IF x = a THEN v ELSE 0
  PROVE  SumOver(f, S) = v
<1> DEFINE U == {T \in SUBSET S : PartialSums(f, S)[T] = IF a \in T THEN v ELSE 0}
<1>1. {} \in U
  BY SumNothing
<1>2. ASSUME NEW T \in SUBSET S, T # {}, T \ {AnyOf(T)} \in U PROVE T \in U
  <2>1. AnyOf(T) \in T /\ AnyOf(T) \in S
    BY <1>2, AnyOfIn
  <2>2. PartialSums(f, S)[T] = f[AnyOf(T)] + PartialSums(f, S)[T \ {AnyOf(T)}]
    <3> HIDE DEF U
    <3> QED BY <1>2, SumStep
  <2> QED BY <1>2, <2>1, <2>2
<1>3. SUBSET S \subseteq U
  <2> HIDE DEF U
  <2> QED BY <1>1, <1>2, SubsetInduction
<1> QED BY <1>3, SumOverDef

(* Changing a family in one place changes its sum by the difference. *)
LEMMA SumOverChange ==
  ASSUME NEW S, IsFiniteSet(S), NEW a \in S, NEW f, NEW g,
         \A x \in S : f[x] \in Int /\ g[x] \in Int,
         \A x \in S : x # a => g[x] = f[x]
  PROVE  SumOver(g, S) = SumOver(f, S) + (g[a] - f[a])
<1> DEFINE d == [x \in S |-> IF x = a THEN g[a] - f[a] ELSE 0]
<1>1. \A x \in S : f[x] \in Int /\ d[x] \in Int /\ g[x] = f[x] + d[x]
  OBVIOUS
<1>2. SumOver(g, S) = SumOver(f, S) + SumOver(d, S)
  <2> HIDE DEF d
  <2> QED BY <1>1, SumOverAdd
<1>3. SumOver(d, S) = g[a] - f[a]
  <2>1. g[a] - f[a] \in Int
    OBVIOUS
  <2>2. \A x \in S : d[x] = IF x = a THEN g[a] - f[a] ELSE 0
    OBVIOUS
  <2> HIDE DEF d
  <2> QED BY <2>1, <2>2, SumOverSingle
<1> QED BY <1>2, <1>3

(* Whichever element is taken out of a sum, the rest is the same: the      *)
(* order in which AnyOf picks them does not matter.                        *)
LEMMA SumRemove ==
  ASSUME NEW S, IsFiniteSet(S), NEW f, \A x \in S : f[x] \in Int
  PROVE  \A T \in SUBSET S : \A x \in T :
           PartialSums(f, S)[T] = f[x] + PartialSums(f, S)[T \ {x}]
<1> DEFINE F(T) == PartialSums(f, S)[T]
           Splits(T) == \A x \in T : F(T) = f[x] + F(T \ {x})
           U == {T \in SUBSET S : F(T) \in Int}
           N == {n \in Nat : \A T \in SUBSET S : Cardinality(T) = n => Splits(T)}
<1>1. \A T \in SUBSET S : IsFiniteSet(T) /\ Cardinality(T) \in Nat
  BY FS_Subset, FS_CardinalityType
<1>2. \A T \in SUBSET S : F(T) \in Int
  <2>1. {} \in U
    BY SumNothing
  <2>2. ASSUME NEW T \in SUBSET S, T # {}, T \ {AnyOf(T)} \in U PROVE T \in U
    <3>1. F(T) = f[AnyOf(T)] + F(T \ {AnyOf(T)})
      <4> HIDE DEF U
      <4> QED BY <2>2, SumStep
    <3>2. f[AnyOf(T)] \in Int
      BY <2>2, AnyOfIn
    <3> QED BY <2>2, <3>1, <3>2
  <2>3. SUBSET S \subseteq U
    <3> HIDE DEF U
    <3> QED BY <2>1, <2>2, SubsetInduction
  <2> QED BY <2>3
<1>3. 0 \in N
  BY <1>1, FS_EmptySet
<1>4. ASSUME NEW n \in Nat, n \in N PROVE n + 1 \in N
  <2> SUFFICES ASSUME NEW T \in SUBSET S, Cardinality(T) = n + 1, NEW x \in T
               PROVE  F(T) = f[x] + F(T \ {x})
    OBVIOUS
  <2> DEFINE a == AnyOf(T)
             R == (T \ {a}) \ {x}
  <2>1. a \in T /\ F(T) = f[a] + F(T \ {a})
    <3>1. a \in T
      BY AnyOfIn
    <3>2. F(T) = f[a] + F(T \ {a})
      <4> HIDE DEF Splits, U, N
      <4> QED BY SumStep
    <3> QED BY <3>1, <3>2
  <2>2. CASE x = a
    BY <2>1, <2>2
  <2>3. CASE x # a
    <3>1. Cardinality(T \ {a}) = n /\ Cardinality(T \ {x}) = n
      <4>1. IsFiniteSet(T)
        BY <1>1
      <4>2. \A y \in T : Cardinality(T \ {y}) = Cardinality(T) - 1
        BY <4>1, FS_RemoveElement
      <4> HIDE DEF a
      <4> QED BY <2>1, <4>2
    <3>2. T \ {a} \in SUBSET S /\ T \ {x} \in SUBSET S /\ x \in T \ {a} /\ a \in T \ {x}
      BY <2>1, <2>3
    <3>3. Splits(T \ {a}) /\ Splits(T \ {x})
      <4> HIDE DEF Splits
      <4> QED BY <1>4, <3>1, <3>2
    <3>4. F(T \ {a}) = f[x] + F(R)
      BY <3>2, <3>3
    <3>5. (T \ {x}) \ {a} = R
      OBVIOUS
    <3>6. F(T \ {x}) = f[a] + F(R)
      BY <3>2, <3>3, <3>5
    <3>7. F(R) \in Int /\ f[a] \in Int /\ f[x] \in Int
      BY <1>2, <2>1
    <3> HIDE DEF F, R, a
    <3> QED BY <2>1, <3>4, <3>6, <3>7
  <2> QED BY <2>2, <2>3
<1>5. Nat \subseteq N
  <2> HIDE DEF N
  <2> QED BY <1>3, <1>4, NatSetInduction
<1>6. \A T \in SUBSET S : Splits(T)
  <2> HIDE DEF Splits
  <2> QED BY <1>1, <1>5
<1> QED BY <1>6

(* One more member adds what it stands for: the sum over a table that      *)
(* gains a row.                                                            *)
LEMMA SumOverInsert ==
  ASSUME NEW S, IsFiniteSet(S), NEW a, a \notin S, NEW Q, Q = S \cup {a}, NEW f, NEW g,
         g[a] \in Int, \A x \in S : f[x] \in Int /\ g[x] = f[x]
  PROVE  SumOver(g, Q) = SumOver(f, S) + g[a]
<1> DEFINE U == {T \in SUBSET S : PartialSums(g, Q)[T] = PartialSums(f, S)[T]}
<1>1. IsFiniteSet(Q)
  BY FS_AddElement
<1>2. PartialSums(g, Q)[Q] = g[a] + PartialSums(g, Q)[S]
  <2>1. \A x \in Q : g[x] \in Int
    OBVIOUS
  <2>2. Q \in SUBSET Q /\ a \in Q /\ Q \ {a} = S
    OBVIOUS
  <2> QED BY <1>1, <2>1, <2>2, SumRemove
<1>3. {} \in U
  BY <1>1, SumNothing
<1>4. ASSUME NEW T \in SUBSET S, T # {}, T \ {AnyOf(T)} \in U PROVE T \in U
  <2>1. PartialSums(f, S)[T] = f[AnyOf(T)] + PartialSums(f, S)[T \ {AnyOf(T)}]
    <3> HIDE DEF U
    <3> QED BY <1>4, SumStep
  <2>2. PartialSums(g, Q)[T] = g[AnyOf(T)] + PartialSums(g, Q)[T \ {AnyOf(T)}]
    <3>1. T \in SUBSET Q
      OBVIOUS
    <3> HIDE DEF U
    <3> QED BY <1>1, <1>4, <3>1, SumStep
  <2>3. g[AnyOf(T)] = f[AnyOf(T)]
    BY <1>4, AnyOfIn
  <2> QED BY <1>4, <2>1, <2>2, <2>3
<1>5. SUBSET S \subseteq U
  <2> HIDE DEF U
  <2> QED BY <1>3, <1>4, SubsetInduction
<1>6. PartialSums(g, Q)[S] = PartialSums(f, S)[S]
  BY <1>5
<1>7. SumOver(g, Q) = PartialSums(g, Q)[Q] /\ SumOver(f, S) = PartialSums(f, S)[S]
  BY SumOverDef
<1>8. SumOver(f, S) \in Int
  BY SumOverType
<1> QED BY <1>2, <1>6, <1>7, <1>8

(* The sum over two disjoint sets. *)
LEMMA SumOverSplit ==
  ASSUME NEW S, IsFiniteSet(S), NEW E, IsFiniteSet(E), S \cap E = {},
         NEW f, \A x \in S \cup E : f[x] \in Int
  PROVE  SumOver(f, S \cup E) = SumOver(f, S) + SumOver(f, E)
<1> DEFINE U == {T \in SUBSET E : SumOver(f, S \cup T) = SumOver(f, S) + SumOver(f, T)}
<1>1. {} \in U
  <2>1. SumOver(f, {}) = 0 /\ SumOver(f, S) \in Int
    BY SumOverZero, SumOverType, FS_EmptySet
  <2>2. S \cup {} = S
    OBVIOUS
  <2> QED BY <2>1, <2>2
<1>2. ASSUME NEW T \in SUBSET E, T # {}, T \ {AnyOf(T)} \in U PROVE T \in U
  <2> DEFINE a == AnyOf(T)
             R == T \ {a}
  <2>1. a \in T
    BY <1>2, AnyOfIn
  <2> HIDE DEF a
  <2>2. IsFiniteSet(R) /\ IsFiniteSet(S \cup R)
    BY FS_Subset, FS_Union
  <2>3. /\ a \notin R /\ T = R \cup {a} /\ a \notin S \cup R /\ S \cup T = (S \cup R) \cup {a}
        /\ f[a] \in Int /\ \A x \in S \cup R : f[x] \in Int
    BY <2>1
  <2> HIDE DEF R
  <2>4. SumOver(f, T) = SumOver(f, R) + f[a]
    BY <2>2, <2>3, SumOverInsert
  <2>5. SumOver(f, S \cup T) = SumOver(f, S \cup R) + f[a]
    BY <2>2, <2>3, SumOverInsert
  <2>6. SumOver(f, S \cup R) = SumOver(f, S) + SumOver(f, R)
    BY <1>2 DEF R, a
  <2>7. SumOver(f, S) \in Int /\ SumOver(f, R) \in Int
    BY <2>2, <2>3, SumOverType
  <2> QED BY <2>3, <2>4, <2>5, <2>6, <2>7
<1>3. SUBSET E \subseteq U
  <2> HIDE DEF U
  <2> QED BY <1>1, <1>2, SubsetInduction
<1> QED BY <1>3
=============================================================================
