---------------------------- MODULE SumTheorems ----------------------------
(***************************************************************************)
(* Sums over finite sets (SumFunctionOnSet of Functions): what a limiter   *)
(* has granted, a window holds or a counter shows in all.                  *)
(*                                                                         *)
(* The library's induction theorems have an operator as a parameter, which *)
(* no installed prover can instantiate.  That every nonempty collection of *)
(* subsets of a finite set has a smallest member is a fact without one,    *)
(* and carries the inductions here: each is over the SET of the subsets    *)
(* for which something holds.                                              *)
(***************************************************************************)
EXTENDS Integers, Functions, FiniteSetTheorems, TLAPS

(* A set of subsets of a finite set has a member that includes no other.   *)
LEMMA SmallestSubset ==
  ASSUME NEW S, IsFiniteSet(S), NEW T \in SUBSET (SUBSET S), T # {}
  PROVE  \E s \in T : \A u \in T : ~ (u \subseteq s /\ u # s)
  <1>1. IsWellFoundedOn(StrictSubsetOrdering(S), SUBSET S)
    BY FS_StrictSubsetOrderingWellFounded, FS_FiniteSubsetsOfFinite
  <1>2. \E s \in T : \A u \in T : ~ (<<u, s>> \in StrictSubsetOrdering(S))
    BY <1>1, WFMin
  <1>3. QED
    BY <1>2 DEF StrictSubsetOrdering

(* What holds of a set when it holds of all that it properly includes,     *)
(* holds of all subsets of a finite set.                                   *)
LEMMA SubsetInduction ==
  ASSUME NEW S, IsFiniteSet(S), NEW G,
         \A t \in SUBSET S : (\A u \in SUBSET t : u # t => u \in G) => t \in G
  PROVE  SUBSET S \subseteq G
  <1> SUFFICES ASSUME (SUBSET S) \ G # {} PROVE FALSE
    OBVIOUS
  <1>1. PICK t \in (SUBSET S) \ G : \A u \in (SUBSET S) \ G : ~ (u \subseteq t /\ u # t)
    <2> DEFINE B == (SUBSET S) \ G
    <2>1. B \in SUBSET (SUBSET S) /\ B # {}
      OBVIOUS
    <2> HIDE DEF B
    <2>2. \E s \in B : \A u \in B : ~ (u \subseteq s /\ u # s)
      BY <2>1, SmallestSubset
    <2>3. QED
      BY <2>2 DEF B
  <1>2. QED
    BY <1>1

-----------------------------------------------------------------------------
(* The recursive function that the library's fold defines, by name.        *)
SumPick(s) == CHOOSE x \in s : TRUE

IsSum(f, S, g) ==
  g = [s \in SUBSET S |-> IF s = {} THEN 0 ELSE f[SumPick(s)] + g[s \ {SumPick(s)}]]

SumIteration(f, S) == CHOOSE g : IsSum(f, S, g)

SumOf(f, S) == SumIteration(f, S)[S]

(* The library's sum is its value at the set itself.                       *)
LEMMA SumIs == ASSUME NEW f, NEW S PROVE SumFunctionOnSet(f, S) = SumOf(f, S)
  BY DEF SumFunctionOnSet, FoldFunctionOnSet, MapThenFoldSet, SumOf, SumIteration, IsSum, SumPick

LEMMA PickIn == ASSUME NEW s, s # {} PROVE SumPick(s) \in s
  BY DEF SumPick

(* The function is there, and the sums of all subsets are its values.      *)
SumRecursion(f, S) ==
  /\ IsSum(f, S, SumIteration(f, S))
  /\ \A s \in SUBSET S : SumIteration(f, S)[s] = SumOf(f, s)

(* It is there for a set when it is for all that the set properly includes:*)
(* put together from their sums it satisfies its equation.                 *)
LEMMA RecursionStep ==
  ASSUME NEW f, NEW S, IsFiniteSet(S), \A u \in SUBSET S : u # S => SumRecursion(f, u)
  PROVE  SumRecursion(f, S)
  <1> DEFINE g == [s \in SUBSET S |-> IF s = {} THEN 0 ELSE f[SumPick(s)] + SumOf(f, s \ {SumPick(s)})]
  <1>1. ASSUME NEW u \in SUBSET S, u # S
        PROVE  SumOf(f, u) = IF u = {} THEN 0 ELSE f[SumPick(u)] + SumOf(f, u \ {SumPick(u)})
    <2>1. SumRecursion(f, u) /\ u \in SUBSET u /\ u \ {SumPick(u)} \in SUBSET u
      BY <1>1
    <2>2. SumOf(f, u) = IF u = {} THEN 0 ELSE f[SumPick(u)] + SumIteration(f, u)[u \ {SumPick(u)}]
      <3> DEFINE h == SumIteration(f, u)
      <3>1. h = [s \in SUBSET u |-> IF s = {} THEN 0 ELSE f[SumPick(s)] + h[s \ {SumPick(s)}]]
        BY <2>1 DEF SumRecursion, IsSum
      <3> HIDE DEF h
      <3>2. h[u] = IF u = {} THEN 0 ELSE f[SumPick(u)] + h[u \ {SumPick(u)}]
        BY <3>1
      <3>3. QED
        BY <3>2 DEF h, SumOf
    <2>3. QED
      BY <2>1, <2>2 DEF SumRecursion
  <1>2. IsSum(f, S, g)
    <2>1. ASSUME NEW s \in SUBSET S, s # {} PROVE g[s \ {SumPick(s)}] = SumOf(f, s \ {SumPick(s)})
      <3>1. s \ {SumPick(s)} \in SUBSET S /\ s \ {SumPick(s)} # S
        BY <2>1, PickIn
      <3>2. QED
        BY <1>1, <3>1
    <2>2. QED
      BY <2>1 DEF IsSum
  <1>3. IsSum(f, S, SumIteration(f, S))
    BY <1>2 DEF SumIteration
  <1>4. ASSUME NEW s \in SUBSET S
        PROVE  SumIteration(f, S)[s] = IF s = {} THEN 0 ELSE f[SumPick(s)] + SumIteration(f, S)[s \ {SumPick(s)}]
    <2> DEFINE h == SumIteration(f, S)
    <2>1. h = [t \in SUBSET S |-> IF t = {} THEN 0 ELSE f[SumPick(t)] + h[t \ {SumPick(t)}]]
      BY <1>3 DEF IsSum
    <2> HIDE DEF h
    <2>2. h[s] = IF s = {} THEN 0 ELSE f[SumPick(s)] + h[s \ {SumPick(s)}]
      BY <2>1
    <2>3. QED
      BY <2>2 DEF h
  <1> DEFINE G == {s \in SUBSET S : SumIteration(f, S)[s] = SumOf(f, s)}
  <1>5. ASSUME NEW t \in SUBSET S, \A u \in SUBSET t : u # t => u \in G
        PROVE  t \in G
    <2>1. CASE t = S
      BY <2>1 DEF SumOf
    <2>2. CASE t # S
      <3>1. t # {} => t \ {SumPick(t)} \in G
        BY <1>5, PickIn
      <3>2. QED
        BY <1>1, <1>4, <2>2, <3>1
    <2>3. QED
      BY <2>1, <2>2
  <1>6. SUBSET S \subseteq G
    <2> HIDE DEF G
    <2>1. QED
      BY <1>5, SubsetInduction
  <1>7. QED
    BY <1>3, <1>6 DEF SumRecursion

LEMMA RecursionHolds ==
  ASSUME NEW f, NEW S, IsFiniteSet(S) PROVE SumRecursion(f, S)
  <1> DEFINE G == {s \in SUBSET S : SumRecursion(f, s)}
  <1>1. ASSUME NEW t \in SUBSET S, \A u \in SUBSET t : u # t => u \in G
        PROVE  t \in G
    <2>1. IsFiniteSet(t)
      BY FS_Subset
    <2>2. QED
      BY <1>1, <2>1, RecursionStep
  <1>2. SUBSET S \subseteq G
    <2> HIDE DEF G
    <2>1. QED
      BY <1>1, SubsetInduction
  <1>3. QED
    BY <1>2

(* So a sum takes off one element, the one that CHOOSE picks...            *)
LEMMA SumEquation ==
  ASSUME NEW f, NEW S, IsFiniteSet(S)
  PROVE  SumOf(f, S) = IF S = {} THEN 0 ELSE f[SumPick(S)] + SumOf(f, S \ {SumPick(S)})
  <1> DEFINE h == SumIteration(f, S)
  <1>1. SumRecursion(f, S)
    BY RecursionHolds
  <1>2. h = [s \in SUBSET S |-> IF s = {} THEN 0 ELSE f[SumPick(s)] + h[s \ {SumPick(s)}]]
    BY <1>1 DEF SumRecursion, IsSum
  <1>3. \A s \in SUBSET S : h[s] = SumOf(f, s)
    BY <1>1 DEF SumRecursion
  <1> HIDE DEF h
  <1>4. h[S] = IF S = {} THEN 0 ELSE f[SumPick(S)] + h[S \ {SumPick(S)}]
    BY <1>2
  <1>5. QED
    BY <1>3, <1>4

-----------------------------------------------------------------------------
(* The laws of sums.                                                       *)
LEMMA SumEmpty == ASSUME NEW f PROVE SumFunctionOnSet(f, {}) = 0
  BY SumIs, SumEquation, FS_EmptySet

LEMMA SumInt ==
  ASSUME NEW f, NEW S, IsFiniteSet(S), \A x \in S : f[x] \in Int
  PROVE  SumFunctionOnSet(f, S) \in Int
  <1> DEFINE G == {s \in SUBSET S : SumOf(f, s) \in Int}
  <1>1. ASSUME NEW t \in SUBSET S, \A u \in SUBSET t : u # t => u \in G
        PROVE  t \in G
    <2>1. SumOf(f, t) = IF t = {} THEN 0 ELSE f[SumPick(t)] + SumOf(f, t \ {SumPick(t)})
      BY SumEquation, FS_Subset
    <2>2. t # {} => SumPick(t) \in t /\ t \ {SumPick(t)} \in G
      BY <1>1, PickIn
    <2>3. QED
      BY <2>1, <2>2
  <1>2. SUBSET S \subseteq G
    <2> HIDE DEF G
    <2>1. QED
      BY <1>1, SubsetInduction
  <1>3. QED
    BY <1>2, SumIs

(* ...and any other as well, which makes the order of no account.          *)
LEMMA SumRemove ==
  ASSUME NEW f, NEW S, IsFiniteSet(S), \A x \in S : f[x] \in Int, NEW x \in S
  PROVE  SumFunctionOnSet(f, S) = f[x] + SumFunctionOnSet(f, S \ {x})
  <1> DEFINE G == {s \in SUBSET S : \A y \in s : SumOf(f, s) = f[y] + SumOf(f, s \ {y})}
  <1>0. \A s \in SUBSET S : IsFiniteSet(s) /\ SumOf(f, s) \in Int
    BY FS_Subset, SumInt, SumIs
  <1>1. ASSUME NEW t \in SUBSET S, \A u \in SUBSET t : u # t => u \in G
        PROVE  t \in G
    <2> SUFFICES ASSUME NEW y \in t PROVE SumOf(f, t) = f[y] + SumOf(f, t \ {y})
      OBVIOUS
    <2> DEFINE p == SumPick(t)
    <2>1. p \in t
      BY PickIn
    <2>2. SumOf(f, t) = f[p] + SumOf(f, t \ {p})
      BY <1>0, SumEquation
    <2> HIDE DEF p
    <2>3. CASE y # p
      <3>1. SumOf(f, t \ {p}) = f[y] + SumOf(f, (t \ {p}) \ {y})
        BY <1>1, <2>1, <2>3
      <3>2. SumOf(f, t \ {y}) = f[p] + SumOf(f, (t \ {y}) \ {p})
        BY <1>1, <2>1, <2>3
      <3>3. SumOf(f, (t \ {p}) \ {y}) = SumOf(f, (t \ {y}) \ {p})
        <4>1. (t \ {p}) \ {y} = (t \ {y}) \ {p}
          OBVIOUS
        <4>2. QED
          BY <4>1
      <3>4. /\ f[p] \in Int /\ f[y] \in Int
            /\ SumOf(f, (t \ {y}) \ {p}) \in Int
        BY <1>0, <2>1
      <3>5. QED
        BY <2>2, <3>1, <3>2, <3>3, <3>4
    <2>4. QED
      BY <2>2, <2>3
  <1>2. SUBSET S \subseteq G
    <2> HIDE DEF G
    <2>1. QED
      BY <1>1, SubsetInduction
  <1>3. QED
    BY <1>2, SumIs

LEMMA SumAdd ==
  ASSUME NEW f, NEW S, IsFiniteSet(S), \A y \in S : f[y] \in Int,
         NEW x, x \notin S, f[x] \in Int
  PROVE  SumFunctionOnSet(f, S \cup {x}) = SumFunctionOnSet(f, S) + f[x]
  <1>1. IsFiniteSet(S \cup {x}) /\ (S \cup {x}) \ {x} = S
    BY FS_AddElement
  <1>2. SumFunctionOnSet(f, S \cup {x}) = f[x] + SumFunctionOnSet(f, (S \cup {x}) \ {x})
    BY <1>1, SumRemove
  <1>3. SumFunctionOnSet(f, S \cup {x}) = f[x] + SumFunctionOnSet(f, S)
    BY <1>1, <1>2
  <1>4. SumFunctionOnSet(f, S) \in Int
    BY SumInt
  <1>5. QED
    BY <1>3, <1>4

(* Induction by adding elements.                                           *)
LEMMA SetInduction ==
  ASSUME NEW S, IsFiniteSet(S), NEW G, {} \in G,
         \A t \in SUBSET S : \A x \in S \ t : IsFiniteSet(t) /\ t \in G => t \cup {x} \in G
  PROVE  S \in G
  <1>1. ASSUME NEW t \in SUBSET S, \A u \in SUBSET t : u # t => u \in G
        PROVE  t \in G
    <2>1. ASSUME NEW x \in t PROVE t \in G
      <3>1. t \ {x} \in G /\ IsFiniteSet(t \ {x}) /\ t \ {x} \in SUBSET S /\ x \in S \ (t \ {x})
        BY <1>1, <2>1, FS_Subset
      <3>2. (t \ {x}) \cup {x} = t
        BY <2>1
      <3>3. (t \ {x}) \cup {x} \in G
        BY <3>1
      <3>4. QED
        BY <3>2, <3>3
    <2>2. QED
      BY <2>1
  <1>2. QED
    BY <1>1, SubsetInduction

LEMMA FiniteMax ==
  ASSUME NEW S \in SUBSET Int, IsFiniteSet(S), S # {}
  PROVE  \E m \in S : \A y \in S : m >= y
  <1> DEFINE G == {s \in SUBSET S : s = {} \/ \E m \in s : \A y \in s : m >= y}
  <1>1. {} \in G
    OBVIOUS
  <1>2. ASSUME NEW t \in SUBSET S, NEW x \in S \ t, t \in G
        PROVE  t \cup {x} \in G
    <2>1. CASE t = {}
      BY <1>2, <2>1
    <2>2. CASE t # {}
      <3>1. PICK m \in t : \A y \in t : m >= y
        BY <1>2, <2>2
      <3>2. \E n \in {m, x} : \A y \in t \cup {x} : n >= y
        <4>1. CASE m >= x
          BY <3>1, <4>1
        <4>2. CASE x >= m
          <5>1. \A y \in t : x >= y
            BY <3>1, <4>2
          <5>2. QED
            BY <5>1
        <4>3. QED
          BY <4>1, <4>2
      <3>3. QED
        BY <3>2
    <2>3. QED
      BY <2>1, <2>2
  <1> HIDE DEF G
  <1>3. S \in G
    BY <1>1, <1>2, SetInduction
  <1>4. QED
    BY <1>3 DEF G

LEMMA FiniteMin ==
  ASSUME NEW S \in SUBSET Int, IsFiniteSet(S), S # {}
  PROVE  \E m \in S : \A y \in S : m <= y
  <1> DEFINE G == {s \in SUBSET S : s = {} \/ \E m \in s : \A y \in s : m <= y}
  <1>1. {} \in G
    OBVIOUS
  <1>2. ASSUME NEW t \in SUBSET S, NEW x \in S \ t, t \in G
        PROVE  t \cup {x} \in G
    <2>1. CASE t = {}
      BY <1>2, <2>1
    <2>2. CASE t # {}
      <3>1. PICK m \in t : \A y \in t : m <= y
        BY <1>2, <2>2
      <3>2. \E n \in {m, x} : \A y \in t \cup {x} : n <= y
        <4>1. CASE m <= x
          BY <3>1, <4>1
        <4>2. CASE x <= m
          <5>1. \A y \in t : x <= y
            BY <3>1, <4>2
          <5>2. QED
            BY <5>1
        <4>3. QED
          BY <4>1, <4>2
      <3>3. QED
        BY <3>2
    <2>3. QED
      BY <2>1, <2>2
  <1> HIDE DEF G
  <1>3. S \in G
    BY <1>1, <1>2, SetInduction
  <1>4. QED
    BY <1>3 DEF G

LEMMA SumNat ==
  ASSUME NEW f, NEW S, IsFiniteSet(S), \A x \in S : f[x] \in Nat
  PROVE  SumFunctionOnSet(f, S) \in Nat
  <1> DEFINE G == {s \in SUBSET S : SumFunctionOnSet(f, s) \in Nat}
  <1>1. {} \in G
    BY SumEmpty
  <1>2. ASSUME NEW t \in SUBSET S, NEW x \in S \ t, IsFiniteSet(t), t \in G
        PROVE  t \cup {x} \in G
    <2>1. SumFunctionOnSet(f, t \cup {x}) = SumFunctionOnSet(f, t) + f[x]
      BY <1>2, SumAdd
    <2>2. QED
      BY <1>2, <2>1
  <1>3. S \in G
    <2> HIDE DEF G
    <2>1. QED
      BY <1>1, <1>2, SetInduction
  <1>4. QED
    BY <1>3

(* Sums depend on the values at the elements only.                         *)
LEMMA SumSame ==
  ASSUME NEW f, NEW g, NEW S, IsFiniteSet(S), \A x \in S : f[x] \in Int /\ g[x] = f[x]
  PROVE  SumFunctionOnSet(g, S) = SumFunctionOnSet(f, S)
  <1> DEFINE G == {s \in SUBSET S : SumFunctionOnSet(g, s) = SumFunctionOnSet(f, s)}
  <1>1. {} \in G
    BY SumEmpty
  <1>2. ASSUME NEW t \in SUBSET S, NEW x \in S \ t, IsFiniteSet(t), t \in G
        PROVE  t \cup {x} \in G
    <2>1. SumFunctionOnSet(f, t \cup {x}) = SumFunctionOnSet(f, t) + f[x]
      BY <1>2, SumAdd
    <2>2. SumFunctionOnSet(g, t \cup {x}) = SumFunctionOnSet(g, t) + g[x]
      BY <1>2, SumAdd
    <2>3. QED
      BY <1>2, <2>1, <2>2
  <1>3. S \in G
    <2> HIDE DEF G
    <2>1. QED
      BY <1>1, <1>2, SetInduction
  <1>4. QED
    BY <1>3

LEMMA SumSplit ==
  ASSUME NEW f, NEW S, IsFiniteSet(S), NEW T, IsFiniteSet(T), S \cap T = {},
         \A x \in S \cup T : f[x] \in Int
  PROVE  SumFunctionOnSet(f, S \cup T) = SumFunctionOnSet(f, S) + SumFunctionOnSet(f, T)
  <1> DEFINE G == {t \in SUBSET T : SumFunctionOnSet(f, S \cup t)
                                      = SumFunctionOnSet(f, S) + SumFunctionOnSet(f, t)}
  <1>0. SumFunctionOnSet(f, S) \in Int
    BY SumInt
  <1>1. {} \in G
    <2>1. S \cup {} = S /\ SumFunctionOnSet(f, {}) = 0
      BY SumEmpty
    <2>2. QED
      BY <1>0, <2>1
  <1>2. ASSUME NEW t \in SUBSET T, NEW x \in T \ t, IsFiniteSet(t), t \in G
        PROVE  t \cup {x} \in G
    <2>1. SumFunctionOnSet(f, t \cup {x}) = SumFunctionOnSet(f, t) + f[x]
      BY <1>2, SumAdd
    <2>2. SumFunctionOnSet(f, (S \cup t) \cup {x}) = SumFunctionOnSet(f, S \cup t) + f[x]
      <3>1. IsFiniteSet(S \cup t) /\ x \notin S \cup t
        BY <1>2, FS_Union
      <3>2. QED
        BY <3>1, SumAdd
    <2>3. SumFunctionOnSet(f, t) \in Int /\ f[x] \in Int
      BY <1>2, SumInt
    <2>4. SumFunctionOnSet(f, (S \cup t) \cup {x}) = SumFunctionOnSet(f, S \cup (t \cup {x}))
      <3>1. (S \cup t) \cup {x} = S \cup (t \cup {x})
        OBVIOUS
      <3>2. QED
        BY <3>1
    <2>5. SumFunctionOnSet(f, S \cup (t \cup {x}))
            = SumFunctionOnSet(f, S) + SumFunctionOnSet(f, t \cup {x})
      BY <1>0, <1>2, <2>1, <2>2, <2>3, <2>4
    <2>6. QED
      BY <1>2, <2>5
  <1>3. T \in G
    <2> HIDE DEF G
    <2>1. QED
      BY <1>1, <1>2, SetInduction
  <1>4. QED
    BY <1>3

LEMMA SumSubset ==
  ASSUME NEW f, NEW S, IsFiniteSet(S), NEW T \in SUBSET S, \A x \in S : f[x] \in Nat
  PROVE  SumFunctionOnSet(f, T) <= SumFunctionOnSet(f, S)
  <1>1. IsFiniteSet(T) /\ IsFiniteSet(S \ T) /\ S = T \cup (S \ T) /\ T \cap (S \ T) = {}
    BY FS_Subset
  <1>2. SumFunctionOnSet(f, T \cup (S \ T)) = SumFunctionOnSet(f, T) + SumFunctionOnSet(f, S \ T)
    BY <1>1, SumSplit
  <1>3. SumFunctionOnSet(f, T) \in Nat /\ SumFunctionOnSet(f, S \ T) \in Nat
    BY <1>1, SumNat
  <1>4. SumFunctionOnSet(f, S) = SumFunctionOnSet(f, T \cup (S \ T))
    BY <1>1
  <1>5. QED
    BY <1>2, <1>3, <1>4

LEMMA SumUpdate ==
  ASSUME NEW f, NEW g, NEW S, IsFiniteSet(S), NEW x \in S,
         \A y \in S : f[y] \in Int /\ g[y] \in Int, \A y \in S \ {x} : g[y] = f[y]
  PROVE  SumFunctionOnSet(g, S) = SumFunctionOnSet(f, S) - f[x] + g[x]
  <1>1. IsFiniteSet(S \ {x})
    BY FS_Subset
  <1>2. SumFunctionOnSet(g, S \ {x}) = SumFunctionOnSet(f, S \ {x})
    BY <1>1, SumSame
  <1>3. /\ SumFunctionOnSet(f, S) = f[x] + SumFunctionOnSet(f, S \ {x})
        /\ SumFunctionOnSet(g, S) = g[x] + SumFunctionOnSet(g, S \ {x})
    BY SumRemove
  <1>4. SumFunctionOnSet(f, S \ {x}) \in Int
    BY <1>1, SumInt
  <1>5. QED
    BY <1>2, <1>3, <1>4

(* A sum of values of at most b each.                                      *)
LEMMA SumBounded ==
  ASSUME NEW f, NEW S, IsFiniteSet(S), NEW b \in Nat, \A x \in S : f[x] \in Nat /\ f[x] <= b
  PROVE  SumFunctionOnSet(f, S) <= Cardinality(S) * b
  <1> DEFINE G == {s \in SUBSET S : SumFunctionOnSet(f, s) <= Cardinality(s) * b}
  <1>1. {} \in G
    BY SumEmpty, FS_EmptySet
  <1>2. ASSUME NEW t \in SUBSET S, NEW x \in S \ t, IsFiniteSet(t), t \in G
        PROVE  t \cup {x} \in G
    <2>1. SumFunctionOnSet(f, t \cup {x}) = SumFunctionOnSet(f, t) + f[x]
      BY <1>2, SumAdd
    <2>2. Cardinality(t \cup {x}) = Cardinality(t) + 1 /\ Cardinality(t) \in Nat
      BY <1>2, FS_AddElement, FS_CardinalityType
    <2>3. (Cardinality(t) + 1) * b = Cardinality(t) * b + b
      BY <2>2
    <2>4. SumFunctionOnSet(f, t) \in Nat /\ Cardinality(t) * b \in Nat
      BY <1>2, <2>2, SumNat
    <2>5. QED
      BY <1>2, <2>1, <2>2, <2>3, <2>4
  <1>3. S \in G
    <2> HIDE DEF G
    <2>1. QED
      BY <1>1, <1>2, SetInduction
  <1>4. QED
    BY <1>3

LEMMA SumMonotone ==
  ASSUME NEW f, NEW g, NEW S, IsFiniteSet(S),
         \A x \in S : f[x] \in Int /\ g[x] \in Int /\ f[x] <= g[x]
  PROVE  SumFunctionOnSet(f, S) <= SumFunctionOnSet(g, S)
  <1> DEFINE G == {s \in SUBSET S : SumFunctionOnSet(f, s) <= SumFunctionOnSet(g, s)}
  <1>1. {} \in G
    BY SumEmpty
  <1>2. ASSUME NEW t \in SUBSET S, NEW x \in S \ t, IsFiniteSet(t), t \in G
        PROVE  t \cup {x} \in G
    <2>1. SumFunctionOnSet(f, t \cup {x}) = SumFunctionOnSet(f, t) + f[x]
      BY <1>2, SumAdd
    <2>2. SumFunctionOnSet(g, t \cup {x}) = SumFunctionOnSet(g, t) + g[x]
      BY <1>2, SumAdd
    <2>3. SumFunctionOnSet(f, t) \in Int /\ SumFunctionOnSet(g, t) \in Int
      BY <1>2, SumInt
    <2>4. QED
      BY <1>2, <2>1, <2>2, <2>3
  <1>3. S \in G
    <2> HIDE DEF G
    <2>1. QED
      BY <1>1, <1>2, SetInduction
  <1>4. QED
    BY <1>3

LEMMA SumOfOnes ==
  ASSUME NEW f, NEW S, IsFiniteSet(S), \A x \in S : f[x] = 1
  PROVE  SumFunctionOnSet(f, S) = Cardinality(S)
  <1> DEFINE G == {s \in SUBSET S : SumFunctionOnSet(f, s) = Cardinality(s)}
  <1>1. {} \in G
    BY SumEmpty, FS_EmptySet
  <1>2. ASSUME NEW t \in SUBSET S, NEW x \in S \ t, IsFiniteSet(t), t \in G
        PROVE  t \cup {x} \in G
    <2>1. SumFunctionOnSet(f, t \cup {x}) = SumFunctionOnSet(f, t) + f[x]
      BY <1>2, SumAdd
    <2>2. Cardinality(t \cup {x}) = Cardinality(t) + 1
      BY <1>2, FS_AddElement
    <2>3. QED
      BY <1>2, <2>1, <2>2
  <1>3. S \in G
    <2> HIDE DEF G
    <2>1. QED
      BY <1>1, <1>2, SetInduction
  <1>4. QED
    BY <1>3

(* Counting a set by the values of a function, value by value.             *)
LEMMA SumFibers ==
  ASSUME NEW f, NEW R, IsFiniteSet(R), NEW h, NEW S, IsFiniteSet(S),
         \A x \in S : h[x] = Cardinality({r \in R : f[r] = x})
  PROVE  SumFunctionOnSet(h, S) = Cardinality({r \in R : f[r] \in S})
  <1> DEFINE G == {s \in SUBSET S :
                     SumFunctionOnSet(h, s) = Cardinality({r \in R : f[r] \in s})}
  <1>0. \A x \in S : h[x] \in Int
    <2> SUFFICES ASSUME NEW x \in S PROVE h[x] \in Int
      OBVIOUS
    <2> DEFINE B == {r \in R : f[r] = x}
    <2>1. IsFiniteSet(B) /\ h[x] = Cardinality(B)
      BY FS_Subset
    <2> HIDE DEF B
    <2>2. QED
      BY <2>1, FS_CardinalityType
  <1>1. {} \in G
    <2>1. {r \in R : f[r] \in {}} = {}
      OBVIOUS
    <2>2. QED
      BY <2>1, SumEmpty, FS_EmptySet
  <1>2. ASSUME NEW t \in SUBSET S, NEW x \in S \ t, IsFiniteSet(t), t \in G
        PROVE  t \cup {x} \in G
    <2> DEFINE A == {r \in R : f[r] \in t}
               B == {r \in R : f[r] = x}
    <2>1. SumFunctionOnSet(h, t \cup {x}) = SumFunctionOnSet(h, t) + h[x]
      <3>1. \A y \in t : h[y] \in Int
        BY <1>0
      <3>2. h[x] \in Int
        BY <1>0
      <3>3. QED
        BY <1>2, <3>1, <3>2, SumAdd
    <2>2. {r \in R : f[r] \in t \cup {x}} = A \cup B /\ A \cap B = {}
      OBVIOUS
    <2>3. IsFiniteSet(A) /\ IsFiniteSet(B)
      BY FS_Subset
    <2>4. h[x] = Cardinality(B) /\ SumFunctionOnSet(h, t) = Cardinality(A)
      BY <1>2
    <2> HIDE DEF A, B
    <2>5. Cardinality(A \cup B) = Cardinality(A) + Cardinality(B)
      <3>1. Cardinality(A \cup B) = Cardinality(A) + Cardinality(B) - Cardinality(A \cap B)
        BY <2>3, FS_Union
      <3>2. Cardinality(A \cap B) = 0
        BY <2>2, FS_EmptySet
      <3>3. Cardinality(A) \in Nat /\ Cardinality(B) \in Nat
        BY <2>3, FS_CardinalityType
      <3>4. QED
        BY <3>1, <3>2, <3>3
    <2>6. SumFunctionOnSet(h, t \cup {x}) = Cardinality({r \in R : f[r] \in t \cup {x}})
      BY <2>1, <2>2, <2>4, <2>5
    <2>7. t \cup {x} \in SUBSET S
      OBVIOUS
    <2>8. QED
      BY <2>6, <2>7
  <1>3. S \in G
    <2> HIDE DEF G
    <2>1. QED
      BY <1>1, <1>2, SetInduction
  <1>4. QED
    BY <1>3

(* One element joins a set or leaves it.                                   *)
LEMMA CountMoved ==
  ASSUME NEW U, IsFiniteSet(U), NEW S \in SUBSET U, NEW T \in SUBSET U, NEW r,
         \A q \in U \ {r} : q \in T <=> q \in S
  PROVE  /\ Cardinality(S) \in Nat /\ Cardinality(T) \in Nat
         /\ Cardinality(T) = Cardinality(S) + (IF r \in T THEN 1 ELSE 0)
                                            - (IF r \in S THEN 1 ELSE 0)
  <1>1. /\ IsFiniteSet(S) /\ IsFiniteSet(T)
        /\ Cardinality(S) \in Nat /\ Cardinality(T) \in Nat
    BY FS_Subset, FS_CardinalityType
  <1>2. CASE r \in S /\ r \notin T
    <2>1. T = S \ {r}
      BY <1>2
    <2>2. QED
      BY <1>1, <1>2, <2>1, FS_RemoveElement
  <1>3. CASE r \notin S /\ r \in T
    <2>1. T = S \cup {r}
      BY <1>3
    <2>2. QED
      BY <1>1, <1>3, <2>1, FS_AddElement
  <1>4. CASE r \in S <=> r \in T
    <2>1. T = S
      BY <1>4
    <2>2. QED
      BY <1>1, <2>1
  <1>5. QED
    BY <1>2, <1>3, <1>4
=============================================================================
