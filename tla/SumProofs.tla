------------------------------ MODULE SumProofs ------------------------------
(***************************************************************************)
(* Lemmas that the theorems about contracts rest on: what a sum over a     *)
(* finite set is, how whole numbers divide, and what a transfer does to    *)
(* the balances of Soroban.tla.                                            *)
(***************************************************************************)
EXTENDS Soroban, FiniteSetsExt, FiniteSetTheorems, SequenceTheorems, WellFoundedInduction, TLAPS

-----------------------------------------------------------------------------
(* Sums over finite sets.  SumFunctionOnSet picks one element after the     *)
(* other, by recursion over the subsets; that this is defined, and does not *)
(* depend on what is picked, is shown by induction on their cardinality.    *)
(* The induction is over a set of numbers: the well-foundedness of < on Nat *)
(* needs no operator as a parameter.                                        *)

LEMMA LeastNat ==
  ASSUME NEW T \in SUBSET Nat, T # {}
  PROVE  \E m \in T : \A n \in T : m <= n
<1> DEFINE R == {ss \in Nat \X Nat : ss[1] < ss[2]}
<1>1. IsWellFoundedOn(R, Nat)
  BY NatLessThanWellFounded DEF OpToRel
<1>2. \A x, y \in Nat : x < y => <<x, y>> \in R
  OBVIOUS
<1> HIDE DEF R
<1>3. PICK x \in T : \A y \in T : ~ (<<y, x>> \in R)
  BY <1>1, WFMin
<1>4. \A y \in T : ~(y < x)
  BY <1>2, <1>3
<1> QED
  BY <1>4

LEMMA SetInduction ==
  ASSUME NEW S \in SUBSET Nat, 0 \in S, \A n \in S : n+1 \in S
  PROVE  S = Nat
<1>1. SUFFICES ASSUME Nat \ S # {} PROVE FALSE
  OBVIOUS
<1>2. PICK m \in Nat \ S : \A n \in Nat \ S : m <= n
  BY LeastNat, <1>1
<1> QED
  BY <1>2

Pick(s) == CHOOSE x \in s : TRUE

\* g adds up f over every subset of S, one picked element after the other.
Sums(g, f, S) ==
  g = [s \in SUBSET S |-> IF s = {} THEN 0 ELSE f[Pick(s)] + g[s \ {Pick(s)}]]

LEMMA PickedLess ==
  ASSUME NEW s, IsFiniteSet(s), s # {}
  PROVE  /\ Pick(s) \in s /\ IsFiniteSet(s \ {Pick(s)})
         /\ Cardinality(s) \in Nat \ {0} /\ Cardinality(s \ {Pick(s)}) = Cardinality(s) - 1
<1>1. Pick(s) \in s
  BY DEF Pick
<1> QED
  BY <1>1, FS_RemoveElement, FS_CardinalityType, FS_EmptySet

LEMMA SumsExist ==
  ASSUME NEW f, NEW S, IsFiniteSet(S)
  PROVE  \E g : Sums(g, f, S)
<1> DEFINE Upto(g, n) == \A s \in SUBSET S : Cardinality(s) <= n =>
                           g[s] = IF s = {} THEN 0 ELSE f[Pick(s)] + g[s \ {Pick(s)}]
           Good == {n \in Nat : \E g : Upto(g, n)}
<1>1. \A s \in SUBSET S : IsFiniteSet(s) /\ Cardinality(s) \in Nat
  BY FS_Subset, FS_CardinalityType
<1>2. 0 \in Good
  <2>1. \A s \in SUBSET S : Cardinality(s) <= 0 => s = {}
    BY <1>1, FS_EmptySet
  <2>2. Upto([s \in SUBSET S |-> 0], 0)
    BY <2>1
  <2> QED
    BY <2>2
<1>3. ASSUME NEW n \in Good
      PROVE  n + 1 \in Good
  <2>1. PICK g : Upto(g, n)
    OBVIOUS
  <2> DEFINE h == [s \in SUBSET S |-> IF Cardinality(s) <= n THEN g[s]
                                      ELSE f[Pick(s)] + g[s \ {Pick(s)}]]
  <2>2. ASSUME NEW s \in SUBSET S, Cardinality(s) <= n + 1
        PROVE  h[s] = IF s = {} THEN 0 ELSE f[Pick(s)] + h[s \ {Pick(s)}]
    <3>1. CASE s = {}
      <4>1. Cardinality(s) <= n
        BY <3>1, FS_EmptySet
      <4> QED
        BY <2>1, <3>1, <4>1
    <3>2. CASE s # {}
      <4>1. s \ {Pick(s)} \in SUBSET S /\ Cardinality(s \ {Pick(s)}) <= n
        BY <1>1, <2>2, <3>2, PickedLess
      <4>2. h[s \ {Pick(s)}] = g[s \ {Pick(s)}]
        BY <4>1
      <4>3. h[s] = f[Pick(s)] + g[s \ {Pick(s)}]
        BY <2>1, <3>2
      <4> QED
        BY <3>2, <4>2, <4>3
    <3> QED
      BY <3>1, <3>2
  <2>3. Upto(h, n + 1)
    BY <2>2
  <2> HIDE DEF h, Upto
  <2> QED
    BY <2>3
<1>4. Good = Nat
  <2> HIDE DEF Good
  <2>1. Good \in SUBSET Nat
    BY DEF Good
  <2> QED
    BY <1>2, <1>3, <2>1, SetInduction
<1>5. PICK g : Upto(g, Cardinality(S))
  BY <1>1, <1>4
<1> DEFINE h == [s \in SUBSET S |-> g[s]]
<1>6. \A s \in SUBSET S : Cardinality(s) <= Cardinality(S)
  BY FS_Subset
<1>7. \A s \in SUBSET S : h[s] = IF s = {} THEN 0 ELSE f[Pick(s)] + h[s \ {Pick(s)}]
  BY <1>5, <1>6
<1>8. Sums(h, f, S)
  BY <1>7 DEF Sums
<1> QED
  BY <1>8

LEMMA SumUnfold ==
  ASSUME NEW f, NEW S, IsFiniteSet(S)
  PROVE  \E g : Sums(g, f, S) /\ SumFunctionOnSet(f, S) = g[S]
<1>1. \E g : Sums(g, f, S)
  BY SumsExist
<1> QED
  BY <1>1 DEF Sums, Pick, SumFunctionOnSet, FoldFunctionOnSet, MapThenFoldSet

\* What an element adds does not depend on when it is picked.
LEMMA SumsTake ==
  ASSUME NEW f, NEW S, IsFiniteSet(S), \A x \in S : f[x] \in Int, NEW g, Sums(g, f, S)
  PROVE  /\ g[{}] = 0
         /\ \A s \in SUBSET S : g[s] \in Int
         /\ \A s \in SUBSET S : \A x \in s : g[s] = f[x] + g[s \ {x}]
<1> DEFINE Right(s) == g[s] \in Int /\ \A x \in s : g[s] = f[x] + g[s \ {x}]
           Good == {n \in Nat : \A s \in SUBSET S : Cardinality(s) <= n => Right(s)}
<1>1. \A s \in SUBSET S : IsFiniteSet(s) /\ Cardinality(s) \in Nat
  BY FS_Subset, FS_CardinalityType
<1>2. \A s \in SUBSET S : s # {} => g[s] = f[Pick(s)] + g[s \ {Pick(s)}]
  BY DEF Sums
<1>3. g[{}] = 0
  BY DEF Sums
<1>4. 0 \in Good
  <2>1. \A s \in SUBSET S : Cardinality(s) <= 0 => s = {}
    BY <1>1, FS_EmptySet
  <2>2. Right({})
    BY <1>3
  <2>3. \A s \in SUBSET S : Cardinality(s) <= 0 => Right(s)
    BY <2>1, <2>2
  <2> QED
    BY <2>3
<1>5. ASSUME NEW n \in Good
      PROVE  n + 1 \in Good
  <2>1. ASSUME NEW s \in SUBSET S, Cardinality(s) <= n + 1, s # {}
        PROVE  Right(s)
    <3> DEFINE c == Pick(s)
    <3>1. c \in s /\ s \ {c} \in SUBSET S /\ Cardinality(s \ {c}) <= n
      BY <1>1, <2>1, PickedLess
    <3>2. Right(s \ {c}) /\ f[c] \in Int /\ g[s] = f[c] + g[s \ {c}]
      BY <1>2, <2>1, <3>1
    <3> HIDE DEF c
    <3>3. ASSUME NEW x \in s, x # c
          PROVE  g[s] = f[x] + g[s \ {x}]
      <4>1. s \ {x} \in SUBSET S /\ c \in s \ {x} /\ x \in s \ {c}
        BY <3>1, <3>3
      <4>2. Cardinality(s \ {x}) <= n
        <5>1. Cardinality(s \ {x}) = Cardinality(s) - 1
          BY <1>1, FS_RemoveElement
        <5> QED
          BY <1>1, <2>1, <5>1
      <4>3. Right(s \ {x})
        BY <4>1, <4>2
      <4>4. (s \ {c}) \ {x} = (s \ {x}) \ {c}
        OBVIOUS
      <4>5. g[s \ {c}] = f[x] + g[(s \ {x}) \ {c}]
        BY <3>2, <4>1, <4>4
      <4>6. g[s \ {x}] = f[c] + g[(s \ {x}) \ {c}]
        BY <4>1, <4>3
      <4>7. g[(s \ {x}) \ {c}] \in Int
        <5>1. (s \ {x}) \ {c} \in SUBSET S
          OBVIOUS
        <5>2. Cardinality((s \ {x}) \ {c}) <= Cardinality(s \ {x})
          BY <1>1, <4>1, FS_Subset
        <5>3. Cardinality((s \ {x}) \ {c}) <= n
          BY <1>1, <4>1, <4>2, <5>1, <5>2
        <5> QED
          BY <5>1, <5>3
      <4>8. f[x] \in Int /\ f[c] \in Int
        BY <3>1
      <4> QED
        BY <3>2, <4>5, <4>6, <4>7, <4>8
    <3>4. g[s] \in Int
      BY <3>2
    <3> QED
      BY <3>2, <3>3, <3>4
  <2>2. Right({})
    BY <1>3
  <2>3. \A s \in SUBSET S : Cardinality(s) <= n + 1 => Right(s)
    BY <2>1, <2>2
  <2> QED
    BY <2>3
<1>6. Good = Nat
  <2> HIDE DEF Good
  <2>1. Good \in SUBSET Nat
    BY DEF Good
  <2> QED
    BY <1>4, <1>5, <2>1, SetInduction
<1>7. \A s \in SUBSET S : Right(s)
  BY <1>1, <1>6
<1> QED
  BY <1>3, <1>7

\* Two functions that agree on a set add up to the same, whatever else they add up.
LEMMA SumsAgree ==
  ASSUME NEW f, NEW S, IsFiniteSet(S), NEW g, Sums(g, f, S),
         NEW e, NEW T, IsFiniteSet(T), NEW h, Sums(h, e, T)
  PROVE  \A s \in SUBSET (S \cap T) : (\A x \in s : f[x] = e[x]) => g[s] = h[s]
<1> DEFINE Right(s) == (\A x \in s : f[x] = e[x]) => g[s] = h[s]
           Good == {n \in Nat : \A s \in SUBSET (S \cap T) : Cardinality(s) <= n => Right(s)}
<1>1. \A s \in SUBSET (S \cap T) : IsFiniteSet(s) /\ Cardinality(s) \in Nat
  BY FS_Subset, FS_CardinalityType
<1>2. \A s \in SUBSET (S \cap T) : s # {} =>
        g[s] = f[Pick(s)] + g[s \ {Pick(s)}] /\ h[s] = e[Pick(s)] + h[s \ {Pick(s)}]
  BY DEF Sums
<1>3. Right({})
  BY DEF Sums
<1>4. 0 \in Good
  <2>1. \A s \in SUBSET (S \cap T) : Cardinality(s) <= 0 => s = {}
    BY <1>1, FS_EmptySet
  <2> QED
    BY <1>3, <2>1
<1>5. ASSUME NEW n \in Good
      PROVE  n + 1 \in Good
  <2>1. ASSUME NEW s \in SUBSET (S \cap T), Cardinality(s) <= n + 1, s # {}
        PROVE  Right(s)
    <3>1. Pick(s) \in s /\ s \ {Pick(s)} \in SUBSET (S \cap T) /\ Cardinality(s \ {Pick(s)}) <= n
      BY <1>1, <2>1, PickedLess
    <3>2. Right(s \ {Pick(s)})
      BY <3>1
    <3> QED
      BY <1>2, <2>1, <3>1, <3>2
  <2>2. \A s \in SUBSET (S \cap T) : Cardinality(s) <= n + 1 => Right(s)
    BY <1>3, <2>1
  <2> QED
    BY <2>2
<1>6. Good = Nat
  <2> HIDE DEF Good
  <2>1. Good \in SUBSET Nat
    BY DEF Good
  <2> QED
    BY <1>4, <1>5, <2>1, SetInduction
<1> QED
  BY <1>1, <1>6

\* The facts about SumFunctionOnSet that the proofs below cite.
LEMMA SumInt ==
  ASSUME NEW f, NEW S, IsFiniteSet(S), \A x \in S : f[x] \in Int
  PROVE  SumFunctionOnSet(f, S) \in Int
  BY SumUnfold, SumsTake

LEMMA SumEmpty ==
  ASSUME NEW f
  PROVE  SumFunctionOnSet(f, {}) = 0
<1>1. PICK g : Sums(g, f, {}) /\ SumFunctionOnSet(f, {}) = g[{}]
  BY SumUnfold, FS_EmptySet
<1> QED
  BY <1>1 DEF Sums

LEMMA SumSame ==
  ASSUME NEW f, NEW e, NEW S, IsFiniteSet(S), \A x \in S : f[x] = e[x]
  PROVE  SumFunctionOnSet(f, S) = SumFunctionOnSet(e, S)
<1>1. PICK g : Sums(g, f, S) /\ SumFunctionOnSet(f, S) = g[S]
  BY SumUnfold
<1>2. PICK h : Sums(h, e, S) /\ SumFunctionOnSet(e, S) = h[S]
  BY SumUnfold
<1>3. S \in SUBSET (S \cap S)
  OBVIOUS
<1> QED
  BY <1>1, <1>2, <1>3, SumsAgree

LEMMA SumTake ==
  ASSUME NEW f, NEW S, IsFiniteSet(S), \A x \in S : f[x] \in Int, NEW x \in S
  PROVE  SumFunctionOnSet(f, S) = f[x] + SumFunctionOnSet(f, S \ {x})
<1>1. PICK g : Sums(g, f, S) /\ SumFunctionOnSet(f, S) = g[S]
  BY SumUnfold
<1>2. IsFiniteSet(S \ {x})
  BY FS_RemoveElement
<1>3. PICK h : Sums(h, f, S \ {x}) /\ SumFunctionOnSet(f, S \ {x}) = h[S \ {x}]
  BY <1>2, SumUnfold
<1>4. g[S] = f[x] + g[S \ {x}]
  BY <1>1, SumsTake
<1>5. S \ {x} \in SUBSET (S \cap (S \ {x}))
  OBVIOUS
<1>6. g[S \ {x}] = h[S \ {x}]
  BY <1>1, <1>2, <1>3, <1>5, SumsAgree
<1> QED
  BY <1>1, <1>3, <1>4, <1>6

LEMMA SumPut ==
  ASSUME NEW f, NEW S, IsFiniteSet(S), NEW x, x \notin S, \A y \in S \cup {x} : f[y] \in Int
  PROVE  SumFunctionOnSet(f, S \cup {x}) = f[x] + SumFunctionOnSet(f, S)
<1>1. IsFiniteSet(S \cup {x}) /\ x \in S \cup {x} /\ (S \cup {x}) \ {x} = S
  BY FS_AddElement
<1>2. SumFunctionOnSet(f, S \cup {x}) = f[x] + SumFunctionOnSet(f, (S \cup {x}) \ {x})
  BY <1>1, SumTake
<1> QED
  BY <1>1, <1>2

\* Adding up more of what is never negative adds up to no less.
LEMMA SumSub ==
  ASSUME NEW f, NEW S, IsFiniteSet(S), \A x \in S : f[x] \in Nat, NEW T \in SUBSET S
  PROVE  SumFunctionOnSet(f, T) <= SumFunctionOnSet(f, S)
<1>1. PICK g : Sums(g, f, S) /\ SumFunctionOnSet(f, S) = g[S]
  BY SumUnfold
<1>2. IsFiniteSet(T)
  BY FS_Subset
<1>3. SumFunctionOnSet(f, T) = g[T]
  <2>1. PICK h : Sums(h, f, T) /\ SumFunctionOnSet(f, T) = h[T]
    BY <1>2, SumUnfold
  <2>2. T \in SUBSET (S \cap T)
    OBVIOUS
  <2> QED
    BY <1>1, <1>2, <2>1, <2>2, SumsAgree
<1>4. /\ \A s \in SUBSET S : g[s] \in Int
      /\ \A s \in SUBSET S : \A x \in s : g[s] = f[x] + g[s \ {x}]
  BY <1>1, SumsTake
<1>5. \A s \in SUBSET S : IsFiniteSet(s) /\ Cardinality(s) \in Nat
  BY FS_Subset, FS_CardinalityType
<1> DEFINE Good == {n \in Nat : \A s \in SUBSET S : Cardinality(s) <= n /\ T \subseteq s => g[T] <= g[s]}
<1>6. 0 \in Good
  <2>1. \A s \in SUBSET S : Cardinality(s) <= 0 => s = {}
    BY <1>5, FS_EmptySet
  <2>2. \A s \in SUBSET S : Cardinality(s) <= 0 /\ T \subseteq s => T = s
    BY <2>1
  <2> QED
    BY <1>4, <2>2
<1>7. ASSUME NEW n \in Good
      PROVE  n + 1 \in Good
  <2>1. ASSUME NEW s \in SUBSET S, Cardinality(s) <= n + 1, T \subseteq s
        PROVE  g[T] <= g[s]
    <3>1. CASE T = s
      BY <1>4, <3>1
    <3>2. CASE T # s
      <4>1. PICK x \in s : x \notin T
        BY <2>1, <3>2
      <4>2. s \ {x} \in SUBSET S /\ T \subseteq s \ {x}
        BY <2>1, <4>1
      <4>3. Cardinality(s \ {x}) = Cardinality(s) - 1
        BY <1>5, FS_RemoveElement
      <4>4. g[T] <= g[s \ {x}]
        BY <1>5, <2>1, <4>2, <4>3
      <4>5. g[s] = f[x] + g[s \ {x}] /\ f[x] \in Nat /\ g[s \ {x}] \in Int /\ g[T] \in Int
        BY <1>4, <4>1, <4>2
      <4> QED
        BY <4>4, <4>5
    <3> QED
      BY <3>1, <3>2
  <2> QED
    BY <2>1
<1>8. Good = Nat
  <2> HIDE DEF Good
  <2>1. Good \in SUBSET Nat
    BY DEF Good
  <2> QED
    BY <1>6, <1>7, <2>1, SetInduction
<1>9. g[T] <= g[S]
  BY <1>5, <1>8
<1> QED
  BY <1>1, <1>3, <1>9

LEMMA SumNat ==
  ASSUME NEW f, NEW S, IsFiniteSet(S), \A x \in S : f[x] \in Nat
  PROVE  SumFunctionOnSet(f, S) \in Nat
<1>1. {} \in SUBSET S
  OBVIOUS
<1>2. SumFunctionOnSet(f, {}) <= SumFunctionOnSet(f, S)
  BY <1>1, SumSub
<1>3. SumFunctionOnSet(f, S) \in Int
  BY SumInt
<1> QED
  BY <1>2, <1>3, SumEmpty

\* One element comes, goes or counts differently; the others count as before.
LEMMA SumChange ==
  ASSUME NEW f, NEW S, IsFiniteSet(S), \A y \in S : f[y] \in Int,
         NEW e, NEW T, IsFiniteSet(T), \A y \in T : e[y] \in Int,
         NEW x, S \ {x} = T \ {x}, \A y \in S \ {x} : f[y] = e[y]
  PROVE  SumFunctionOnSet(f, S) - (IF x \in S THEN f[x] ELSE 0)
           = SumFunctionOnSet(e, T) - (IF x \in T THEN e[x] ELSE 0)
<1> DEFINE rest == SumFunctionOnSet(f, S \ {x})
<1>1. IsFiniteSet(S \ {x})
  BY FS_RemoveElement
<1>2. rest \in Int
  BY <1>1, SumInt
<1>3. rest = SumFunctionOnSet(e, T \ {x})
  BY <1>1, SumSame
<1>4. SumFunctionOnSet(f, S) - (IF x \in S THEN f[x] ELSE 0) = rest
  <2>1. CASE x \in S
    <3>1. SumFunctionOnSet(f, S) = f[x] + SumFunctionOnSet(f, S \ {x}) /\ f[x] \in Int
      BY <2>1, SumTake
    <3> QED
      BY <1>2, <2>1, <3>1
  <2>2. CASE x \notin S
    <3>1. S \ {x} = S
      BY <2>2
    <3>2. SumFunctionOnSet(f, S) = rest
      BY <3>1
    <3> HIDE DEF rest
    <3> QED
      BY <1>2, <2>2, <3>2
  <2> QED
    BY <2>1, <2>2
<1>5. SumFunctionOnSet(e, T) - (IF x \in T THEN e[x] ELSE 0) = rest
  <2> HIDE DEF rest
  <2>1. CASE x \in T
    <3>1. SumFunctionOnSet(e, T) = e[x] + SumFunctionOnSet(e, T \ {x}) /\ e[x] \in Int
      BY <2>1, SumTake
    <3> QED
      BY <1>2, <1>3, <2>1, <3>1
  <2>2. CASE x \notin T
    <3>1. T \ {x} = T
      BY <2>2
    <3>2. SumFunctionOnSet(e, T) = rest
      BY <1>3, <3>1
    <3> QED
      BY <1>2, <2>2, <3>2
  <2> QED
    BY <2>1, <2>2
<1> QED
  BY <1>4, <1>5

LEMMA SumZero ==
  ASSUME NEW f, NEW S, IsFiniteSet(S), \A x \in S : f[x] = 0
  PROVE  SumFunctionOnSet(f, S) = 0
<1> DEFINE Empty == {n \in Nat : \A s \in SUBSET S : Cardinality(s) <= n => SumFunctionOnSet(f, s) = 0}
<1>1. \A s \in SUBSET S : IsFiniteSet(s) /\ Cardinality(s) \in Nat /\ \A x \in s : f[x] = 0 /\ f[x] \in Int
  BY FS_Subset, FS_CardinalityType
<1>2. 0 \in Empty
  <2>1. \A s \in SUBSET S : Cardinality(s) <= 0 => s = {}
    BY <1>1, FS_EmptySet
  <2> QED
    BY <2>1, SumEmpty
<1>3. ASSUME NEW n \in Empty
      PROVE  n + 1 \in Empty
  <2>1. ASSUME NEW s \in SUBSET S, Cardinality(s) <= n + 1, s # {}
        PROVE  SumFunctionOnSet(f, s) = 0
    <3>1. PICK x \in s : TRUE
      BY <2>1
    <3>2. s \ {x} \in SUBSET S /\ Cardinality(s \ {x}) = Cardinality(s) - 1
      BY <1>1, FS_RemoveElement
    <3>3. SumFunctionOnSet(f, s \ {x}) = 0
      BY <1>1, <2>1, <3>2
    <3>4. SumFunctionOnSet(f, s) = f[x] + SumFunctionOnSet(f, s \ {x})
      BY <1>1, SumTake
    <3> QED
      BY <1>1, <3>3, <3>4
  <2> QED
    BY <2>1, SumEmpty
<1>4. Empty = Nat
  <2> HIDE DEF Empty
  <2>1. Empty \in SUBSET Nat
    BY DEF Empty
  <2> QED
    BY <1>2, <1>3, <2>1, SetInduction
<1> QED
  BY <1>1, <1>4

\* Division and multiplication keep the order.

\* A sum of numbers is at least what it would be of the smallest.
LEMMA SumAtLeast ==
  ASSUME NEW f, NEW S, IsFiniteSet(S), NEW m \in Int, \A x \in S : f[x] \in Int /\ m <= f[x]
  PROVE  m * Cardinality(S) <= SumFunctionOnSet(f, S)
<1> DEFINE Enough == {n \in Nat : \A s \in SUBSET S : Cardinality(s) <= n =>
                                     m * Cardinality(s) <= SumFunctionOnSet(f, s)}
<1>1. \A s \in SUBSET S : IsFiniteSet(s) /\ Cardinality(s) \in Nat /\ \A x \in s : f[x] \in Int
  BY FS_Subset, FS_CardinalityType
<1>2. 0 \in Enough
  <2> SUFFICES ASSUME NEW s \in SUBSET S, Cardinality(s) <= 0
               PROVE  m * Cardinality(s) <= SumFunctionOnSet(f, s)
    OBVIOUS
  <2>1. s = {} /\ Cardinality(s) = 0
    BY <1>1, FS_EmptySet
  <2> QED
    BY <2>1, SumEmpty
<1>3. ASSUME NEW n \in Enough PROVE n + 1 \in Enough
  <2> SUFFICES ASSUME NEW s \in SUBSET S, Cardinality(s) <= n + 1
               PROVE  m * Cardinality(s) <= SumFunctionOnSet(f, s)
    OBVIOUS
  <2>1. CASE s = {}
    BY <2>1, FS_EmptySet, SumEmpty
  <2>2. CASE s # {}
    <3>1. PICK x \in s : TRUE
      BY <2>2
    <3>2. PICK k, t : k = Cardinality(s \ {x}) /\ t = SumFunctionOnSet(f, s \ {x})
      OBVIOUS
    <3>3. k = Cardinality(s) - 1 /\ k \in Nat /\ s \ {x} \in SUBSET S
      BY <1>1, <3>2, FS_RemoveElement
    <3>4. k <= n
      BY <1>1, <3>3
    <3>5. m * k <= t
      BY <3>2, <3>3, <3>4
    <3>6. SumFunctionOnSet(f, s) = f[x] + t /\ t \in Int
      <4>1. IsFiniteSet(s) /\ IsFiniteSet(s \ {x}) /\ \A y \in s : f[y] \in Int
        BY <1>1, <3>3
      <4>2. SumFunctionOnSet(f, s) = f[x] + SumFunctionOnSet(f, s \ {x})
        BY <4>1, SumTake
      <4>3. SumFunctionOnSet(f, s \ {x}) \in Int
        BY <4>1, SumInt
      <4> QED
        BY <3>2, <4>2, <4>3
    <3>7. m * Cardinality(s) = m * k + m /\ m * k \in Int
      BY <1>1, <3>3
    <3>8. m <= f[x] /\ f[x] \in Int
      OBVIOUS
    <3>9. PICK w : w = m * k
      OBVIOUS
    <3> QED
      BY <3>5, <3>6, <3>7, <3>8, <3>9
  <2> QED
    BY <2>1, <2>2
<1>4. Enough = Nat
  <2> HIDE DEF Enough
  <2>1. Enough \in SUBSET Nat
    BY DEF Enough
  <2> QED
    BY <1>2, <1>3, <2>1, SetInduction
<1> QED
  BY <1>1, <1>4

\* And at most what it would be of the largest.
LEMMA SumAtMost ==
  ASSUME NEW f, NEW S, IsFiniteSet(S), NEW m \in Int, \A x \in S : f[x] \in Int /\ f[x] <= m
  PROVE  SumFunctionOnSet(f, S) <= m * Cardinality(S)
<1> DEFINE Few == {n \in Nat : \A s \in SUBSET S : Cardinality(s) <= n =>
                                  SumFunctionOnSet(f, s) <= m * Cardinality(s)}
<1>1. \A s \in SUBSET S : IsFiniteSet(s) /\ Cardinality(s) \in Nat /\ \A x \in s : f[x] \in Int
  BY FS_Subset, FS_CardinalityType
<1>2. 0 \in Few
  <2> SUFFICES ASSUME NEW s \in SUBSET S, Cardinality(s) <= 0
               PROVE  SumFunctionOnSet(f, s) <= m * Cardinality(s)
    OBVIOUS
  <2>1. s = {} /\ Cardinality(s) = 0
    BY <1>1, FS_EmptySet
  <2> QED
    BY <2>1, SumEmpty
<1>3. ASSUME NEW n \in Few PROVE n + 1 \in Few
  <2> SUFFICES ASSUME NEW s \in SUBSET S, Cardinality(s) <= n + 1
               PROVE  SumFunctionOnSet(f, s) <= m * Cardinality(s)
    OBVIOUS
  <2>1. CASE s = {}
    BY <2>1, FS_EmptySet, SumEmpty
  <2>2. CASE s # {}
    <3>1. PICK x \in s : TRUE
      BY <2>2
    <3>2. PICK k, t : k = Cardinality(s \ {x}) /\ t = SumFunctionOnSet(f, s \ {x})
      OBVIOUS
    <3>3. k = Cardinality(s) - 1 /\ k \in Nat /\ s \ {x} \in SUBSET S
      BY <1>1, <3>2, FS_RemoveElement
    <3>4. k <= n
      BY <1>1, <3>3
    <3>5. t <= m * k
      BY <3>2, <3>3, <3>4
    <3>6. SumFunctionOnSet(f, s) = f[x] + t /\ t \in Int
      <4>1. IsFiniteSet(s) /\ IsFiniteSet(s \ {x}) /\ \A y \in s : f[y] \in Int
        BY <1>1, <3>3
      <4>2. SumFunctionOnSet(f, s) = f[x] + SumFunctionOnSet(f, s \ {x})
        BY <4>1, SumTake
      <4>3. SumFunctionOnSet(f, s \ {x}) \in Int
        BY <4>1, SumInt
      <4> QED
        BY <3>2, <4>2, <4>3
    <3>7. m * Cardinality(s) = m * k + m /\ m * k \in Int
      BY <1>1, <3>3
    <3>8. f[x] <= m /\ f[x] \in Int
      OBVIOUS
    <3>9. PICK w : w = m * k
      OBVIOUS
    <3> QED
      BY <3>5, <3>6, <3>7, <3>8, <3>9
  <2> QED
    BY <2>1, <2>2
<1>4. Few = Nat
  <2> HIDE DEF Few
  <2>1. Few \in SUBSET Nat
    BY DEF Few
  <2> QED
    BY <1>2, <1>3, <2>1, SetInduction
<1> QED
  BY <1>1, <1>4

LEMMA DivOrder ==
  ASSUME NEW a \in Nat, NEW b \in Nat, NEW d \in Nat \ {0}, a <= b
  PROVE  a \div d \in Nat /\ b \div d \in Nat /\ a \div d <= b \div d
  OBVIOUS

LEMMA DivWhole ==
  ASSUME NEW a \in Nat, NEW d \in Nat \ {0}
  PROVE  (a * d) \div d = a
  OBVIOUS

LEMMA TimesOrder ==
  ASSUME NEW a \in Nat, NEW b \in Nat, NEW d \in Nat, a <= b
  PROVE  d * a \in Nat /\ d * b \in Nat /\ d * a <= d * b
  OBVIOUS

\* A sequence has finitely many places, and each holds one of its elements.
LEMMA SeqFacts ==
  ASSUME NEW R, NEW s \in Seq(R)
  PROVE  /\ Len(s) \in Nat /\ DOMAIN s = 1..Len(s) /\ IsFiniteSet(DOMAIN s)
         /\ \A i \in DOMAIN s : s[i] \in R
<1>1. Len(s) \in Nat /\ DOMAIN s = 1..Len(s)
  BY LenProperties
<1>2. IsFiniteSet(1..Len(s))
  BY <1>1, FS_Interval
<1>3. \A i \in DOMAIN s : s[i] \in R
  BY <1>1, ElementOfSeq
<1> QED
  BY <1>1, <1>2, <1>3

-----------------------------------------------------------------------------
(* What a transfer does to the balances.                                    *)

LEMMA HostStart ==
  ASSUME HostInit
  PROVE  HostTypeOK /\ \A t \in Assets, c \in Contracts : balance[t][c] = 0
  BY SorobanAssumption DEF HostInit, HostTypeOK, FirstBalance, Addresses

LEMMA TickTyped ==
  ASSUME HostTypeOK, Tick
  PROVE  HostTypeOK' /\ now' >= now
  BY SorobanAssumption DEF Tick, HostTypeOK

LEMMA TransferTyped ==
  ASSUME HostTypeOK, NEW asset \in Assets, NEW from, NEW to, NEW amount \in Int,
         Transfer(asset, from, to, amount)
  PROVE  /\ balance' \in [Assets -> [Addresses -> Nat]]
         /\ balance'[asset] = Moved(balance[asset], from, to, amount)
         /\ \A t \in Assets : t # asset => balance'[t] = balance[t]
<1> DEFINE held == balance[asset]
<1>1. /\ balance \in [Assets -> [Addresses -> Nat]]
      /\ held \in [Addresses -> Nat]
      /\ amount >= 0 /\ amount <= held[from]
      /\ balance' = [balance EXCEPT ![asset] = Moved(held, from, to, amount)]
  BY DEF HostTypeOK, Transfer
<1> HIDE DEF held
<1>2. Moved(held, from, to, amount) \in [Addresses -> Nat]
  <2>1. ASSUME NEW a \in Addresses
        PROVE  held[a] - (IF a = from THEN amount ELSE 0) + (IF a = to THEN amount ELSE 0) \in Nat
    BY <1>1
  <2> QED
    BY <2>1 DEF Moved
<1>3. balance'[asset] = Moved(held, from, to, amount)
  BY <1>1
<1>4. balance' \in [Assets -> [Addresses -> Nat]]
  BY <1>1, <1>2
<1>5. \A t \in Assets : t # asset => balance'[t] = balance[t]
  BY <1>1
<1> QED
  BY <1>3, <1>4, <1>5 DEF held

\* What an account pays to a contract, or a contract to an account, in the books of
\* the contract.
LEMMA MoneyIn ==
  ASSUME HostTypeOK, NEW asset \in Assets, NEW from \in Accounts, NEW at \in Contracts,
         NEW amount \in Int, Transfer(asset, from, at, amount)
  PROVE  /\ \A t \in Assets : ~(balance'[t][at] < balance[t][at])
         /\ balance'[asset][at] = balance[asset][at] + amount
         /\ \A t \in Assets : t # asset => balance'[t][at] = balance[t][at]
<1>1. /\ at \in Addresses /\ from # at /\ amount >= 0
      /\ \A t \in Assets : balance[t][at] \in Nat
  BY SorobanAssumption DEF Addresses, HostTypeOK, Transfer
<1>2. balance'[asset][at] = balance[asset][at] - 0 + amount
  <2>1. balance'[asset] = Moved(balance[asset], from, at, amount)
    BY TransferTyped
  <2>2. Moved(balance[asset], from, at, amount)[at] = balance[asset][at] - 0 + amount
    BY <1>1 DEF Moved
  <2> QED
    BY <2>1, <2>2
<1>3. \A t \in Assets : t # asset => balance'[t][at] = balance[t][at]
  BY TransferTyped
<1> QED
  BY <1>1, <1>2, <1>3

LEMMA MoneyOut ==
  ASSUME HostTypeOK, NEW asset \in Assets, NEW at \in Contracts, NEW to \in Accounts,
         NEW amount \in Int, Transfer(asset, at, to, amount)
  PROVE  /\ balance'[asset][at] = balance[asset][at] - amount
         /\ \A t \in Assets : t # asset => balance'[t][at] = balance[t][at]
<1>1. at \in Addresses /\ to # at /\ balance[asset][at] \in Nat
  BY SorobanAssumption DEF Addresses, HostTypeOK
<1>2. balance'[asset] = Moved(balance[asset], at, to, amount)
  BY TransferTyped
<1>3. Moved(balance[asset], at, to, amount)[at] = balance[asset][at] - amount + 0
  BY <1>1 DEF Moved
<1> QED
  BY <1>1, <1>2, <1>3, TransferTyped

=============================================================================
