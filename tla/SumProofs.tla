----------------------------- MODULE SumProofs -----------------------------
(***************************************************************************)
(* What a sum over a finite set of indices does when an index joins or     *)
(* leaves and when one summand changes: what the rate windows' history     *)
(* and the tokens counted on a key rest on.                                *)
(*                                                                         *)
(* SumFunctionOnSet folds over the set in an order that CHOOSE fixes, so   *)
(* the facts are proved by induction on the number of indices.  Induction  *)
(* itself is stated for sets of naturals: a set without a least            *)
(* counterexample is all of Nat.                                           *)
(***************************************************************************)
EXTENDS Integers, FiniteSets, Functions, FiniteSetTheorems, TLAPS

\* Every set of naturals that is not empty has a least element.
LEMMA LeastNat ==
  ASSUME NEW S, S \subseteq Nat, S # {}
  PROVE  \E m \in S : \A n \in S : m <= n
<1> DEFINE Below == {ss \in Nat \X Nat : ss[1] < ss[2]}
<1>1. IsWellFoundedOn(Below, Nat)
  BY NatLessThanWellFounded, Zenon DEF OpToRel
<1>2. ASSUME NEW x \in Nat, NEW y \in Nat, ~(<<y, x>> \in Below) PROVE x <= y
  <2>1. <<y, x>> \in Nat \X Nat /\ <<y, x>>[1] = y /\ <<y, x>>[2] = x
    OBVIOUS
  <2>2. ~(y < x)
    BY <1>2, <2>1, Zenon
  <2> QED
    BY <2>2
<1> HIDE DEF Below
<1>3. \E x \in S : \A y \in S : ~(<<y, x>> \in Below)
  BY <1>1, WFMin
<1> QED
  BY <1>2, <1>3

\* A set that holds zero and with every natural the next one holds them all.
LEMMA SetInduction ==
  ASSUME NEW S, 0 \in S, \A n \in Nat : n \in S => n + 1 \in S
  PROVE  Nat \subseteq S
<1> SUFFICES ASSUME ~(Nat \subseteq S) PROVE FALSE
  OBVIOUS
<1> DEFINE missing == Nat \ S
<1>1. missing \subseteq Nat /\ missing # {}
  OBVIOUS
<1>2. PICK m \in missing : \A n \in missing : m <= n
  <2> HIDE DEF missing
  <2> QED
    BY <1>1, LeastNat
<1>3. m # 0 /\ m - 1 \in Nat /\ m - 1 \notin missing /\ (m - 1) + 1 = m
  BY <1>2
<1> QED
  BY <1>3

----------------------------------------------------------------------------

First(s) == CHOOSE x \in s : TRUE

\* One step of the fold: sums is the function of the subsets that the fold computes.
Body(f, sums, s) == IF s = {} THEN 0 ELSE f[First(s)] + sums[s \ {First(s)}]

IsFold(f, S, sums) == sums = [s \in SUBSET S |-> Body(f, sums, s)]

\* SumFunctionOnSet is the fold.
LEMMA SumIsFold ==
  ASSUME NEW f, NEW S
  PROVE  SumFunctionOnSet(f, S) = (CHOOSE sums : IsFold(f, S, sums))[S]
  BY DEF SumFunctionOnSet, FoldFunctionOnSet, MapThenFoldSet, IsFold, Body, First

\* The fold of a finite set exists: it is built up by the size of the subset.
LEMMA FoldExists ==
  ASSUME NEW f, NEW S, IsFiniteSet(S)
  PROVE  \E sums : IsFold(f, S, sums)
<1> DEFINE Small(n) == {s \in SUBSET S : Cardinality(s) <= n}
           FoldsTo(n, g) == g = [s \in Small(n) |-> Body(f, g, s)]
           Built == {n \in Nat : \E g : FoldsTo(n, g)}
<1>0. \A s \in SUBSET S : IsFiniteSet(s) /\ Cardinality(s) \in Nat
  BY FS_Subset, FS_CardinalityType
<1>1. 0 \in Built
  <2>1. \A s \in Small(0) : s = {}
    BY <1>0, FS_EmptySet
  <2>2. FoldsTo(0, [s \in Small(0) |-> 0])
    BY <2>1 DEF Body
  <2> QED
    BY <2>2
<1>2. ASSUME NEW n \in Nat, n \in Built PROVE n + 1 \in Built
  <2>1. PICK g : FoldsTo(n, g)
    BY <1>2
  <2>2. PICK h : h = [s \in Small(n + 1) |-> Body(f, g, s)]
    OBVIOUS
  <2>3. ASSUME NEW s \in Small(n + 1) PROVE Body(f, g, s) = Body(f, h, s)
    <3>1. CASE s = {}
      BY <3>1 DEF Body
    <3>2. CASE s # {}
      <4>1. First(s) \in s
        BY <3>2 DEF First
      <4>2. Cardinality(s \ {First(s)}) = Cardinality(s) - 1
        BY <1>0, <4>1, FS_RemoveElement
      <4>3. s \ {First(s)} \in Small(n) /\ s \ {First(s)} \in Small(n + 1)
        BY <1>0, <4>2
      <4>4. g[s \ {First(s)}] = h[s \ {First(s)}]
        BY <2>1, <2>2, <4>3
      <4> QED
        BY <4>4 DEF Body
    <3> QED
      BY <3>1, <3>2
  <2>4. FoldsTo(n + 1, h)
    BY <2>2, <2>3
  <2> QED
    BY <2>4
<1>3. Nat \subseteq Built
  <2> HIDE DEF Built
  <2> QED
    BY <1>1, <1>2, SetInduction
<1>4. PICK g : FoldsTo(Cardinality(S), g)
  BY <1>0, <1>3
<1>5. Small(Cardinality(S)) = SUBSET S
  BY FS_Subset
<1> QED
  BY <1>4, <1>5 DEF IsFold

\* The folds of two sets agree on what is a subset of both.
LEMMA FoldsAgree ==
  ASSUME NEW f, NEW S, IsFiniteSet(S), NEW T \in SUBSET S,
         NEW a, IsFold(f, S, a), NEW b, IsFold(f, T, b)
  PROVE  \A s \in SUBSET T : a[s] = b[s]
<1> DEFINE Agreed == {n \in Nat : \A s \in SUBSET T : Cardinality(s) <= n => a[s] = b[s]}
<1>0. \A s \in SUBSET T : IsFiniteSet(s) /\ Cardinality(s) \in Nat /\ s \in SUBSET S
  BY FS_Subset, FS_CardinalityType
<1>s. \A s \in SUBSET T : a[s] = Body(f, a, s) /\ b[s] = Body(f, b, s)
  BY <1>0 DEF IsFold
<1>1. 0 \in Agreed
  <2>1. \A s \in SUBSET T : Cardinality(s) <= 0 => s = {}
    BY <1>0, FS_EmptySet
  <2> QED
    BY <2>1, <1>s DEF Body
<1>2. ASSUME NEW n \in Nat, n \in Agreed PROVE n + 1 \in Agreed
  <2>1. ASSUME NEW s \in SUBSET T, Cardinality(s) <= n + 1 PROVE a[s] = b[s]
    <3>1. CASE s = {}
      BY <3>1, <1>s DEF Body
    <3>2. CASE s # {}
      <4>1. First(s) \in s
        BY <3>2 DEF First
      <4>2. Cardinality(s \ {First(s)}) <= n /\ s \ {First(s)} \in SUBSET T
        BY <1>0, <2>1, <4>1, FS_RemoveElement
      <4> QED
        BY <1>2, <1>s, <3>2, <4>2 DEF Body
    <3> QED
      BY <3>1, <3>2
  <2> QED
    BY <2>1
<1>3. Nat \subseteq Agreed
  <2> HIDE DEF Agreed
  <2> QED
    BY <1>1, <1>2, SetInduction
<1> QED
  BY <1>0, <1>3

\* The sum of no summands, and the sum in terms of a smaller one.
LEMMA SumUnfold ==
  ASSUME NEW f, NEW S, IsFiniteSet(S)
  PROVE  /\ S = {} => SumFunctionOnSet(f, S) = 0
         /\ S # {} => SumFunctionOnSet(f, S) = f[First(S)] + SumFunctionOnSet(f, S \ {First(S)})
<1> DEFINE T == S \ {First(S)}
<1>1. IsFiniteSet(T) /\ T \in SUBSET S
  BY FS_RemoveElement
<1>2. PICK a : IsFold(f, S, a) /\ SumFunctionOnSet(f, S) = a[S]
  BY FoldExists, SumIsFold
<1>3. PICK b : IsFold(f, T, b) /\ SumFunctionOnSet(f, T) = b[T]
  <2> HIDE DEF T
  <2> QED
    BY <1>1, FoldExists, SumIsFold
<1>4. a[S] = Body(f, a, S)
  BY <1>2 DEF IsFold
<1>5. a[T] = b[T]
  <2> HIDE DEF T
  <2> QED
    BY <1>1, <1>2, <1>3, FoldsAgree
<1> QED
  BY <1>2, <1>3, <1>4, <1>5 DEF Body

\* A sum of integers is an integer, a sum of naturals a natural.
LEMMA SumType ==
  ASSUME NEW f, NEW S, IsFiniteSet(S), \A x \in S : f[x] \in Int
  PROVE  /\ SumFunctionOnSet(f, S) \in Int
         /\ (\A x \in S : f[x] >= 0) => SumFunctionOnSet(f, S) >= 0
<1> DEFINE Good(s) == /\ SumFunctionOnSet(f, s) \in Int
                      /\ (\A x \in S : f[x] >= 0) => SumFunctionOnSet(f, s) >= 0
           Done == {n \in Nat : \A s \in SUBSET S : Cardinality(s) <= n => Good(s)}
<1>0. \A s \in SUBSET S : IsFiniteSet(s) /\ Cardinality(s) \in Nat
  BY FS_Subset, FS_CardinalityType
<1>1. 0 \in Done
  <2>1. \A s \in SUBSET S : Cardinality(s) <= 0 => s = {}
    BY <1>0, FS_EmptySet
  <2>2. SumFunctionOnSet(f, {}) = 0
    BY FS_EmptySet, SumUnfold
  <2> QED
    BY <2>1, <2>2
<1>2. ASSUME NEW n \in Nat, n \in Done PROVE n + 1 \in Done
  <2>1. ASSUME NEW s \in SUBSET S, Cardinality(s) <= n + 1 PROVE Good(s)
    <3>1. CASE s = {}
      <4>1. SumFunctionOnSet(f, s) = 0
        BY <3>1, FS_EmptySet, SumUnfold
      <4> QED
        BY <4>1
    <3>2. CASE s # {}
      <4>1. First(s) \in s
        BY <3>2 DEF First
      <4>2. Cardinality(s \ {First(s)}) <= n /\ s \ {First(s)} \in SUBSET S
        BY <1>0, <2>1, <4>1, FS_RemoveElement
      <4>3. SumFunctionOnSet(f, s) = f[First(s)] + SumFunctionOnSet(f, s \ {First(s)})
        BY <1>0, <3>2, SumUnfold
      <4> QED
        BY <1>2, <4>1, <4>2, <4>3
    <3> QED
      BY <3>1, <3>2
  <2> QED
    BY <2>1
<1>3. Nat \subseteq Done
  <2> HIDE DEF Done
  <2> QED
    BY <1>1, <1>2, SetInduction
<1> QED
  BY <1>0, <1>3

\* Any summand can be taken out, not only the one the fold chooses first.
LEMMA SumRemove ==
  ASSUME NEW f, NEW S, IsFiniteSet(S), \A x \in S : f[x] \in Int, NEW y \in S
  PROVE  SumFunctionOnSet(f, S) = f[y] + SumFunctionOnSet(f, S \ {y})
<1> DEFINE Out(s) == \A x \in s : SumFunctionOnSet(f, s) = f[x] + SumFunctionOnSet(f, s \ {x})
           Done == {n \in Nat : \A s \in SUBSET S : Cardinality(s) <= n => Out(s)}
<1>0. \A s \in SUBSET S : IsFiniteSet(s) /\ Cardinality(s) \in Nat /\ SumFunctionOnSet(f, s) \in Int
  <2>1. \A s \in SUBSET S : IsFiniteSet(s) /\ Cardinality(s) \in Nat
    BY FS_Subset, FS_CardinalityType
  <2> QED
    BY <2>1, SumType
<1>1. 0 \in Done
  <2>1. \A s \in SUBSET S : Cardinality(s) <= 0 => s = {}
    BY <1>0, FS_EmptySet
  <2> QED
    BY <2>1
<1>2. ASSUME NEW n \in Nat, n \in Done PROVE n + 1 \in Done
  <2>1. ASSUME NEW s \in SUBSET S, Cardinality(s) <= n + 1, NEW x \in s
        PROVE  SumFunctionOnSet(f, s) = f[x] + SumFunctionOnSet(f, s \ {x})
    <3> DEFINE c == First(s)
    <3>1. c \in s
      BY DEF First
    <3>2. SumFunctionOnSet(f, s) = f[c] + SumFunctionOnSet(f, s \ {c})
      BY <1>0, <2>1, SumUnfold
    <3> HIDE DEF c
    <3>3. CASE x = c
      BY <3>2, <3>3
    <3>4. CASE x # c
      <4>1. /\ Cardinality(s \ {c}) <= n /\ s \ {c} \in SUBSET S /\ x \in s \ {c}
            /\ Cardinality(s \ {x}) <= n /\ s \ {x} \in SUBSET S /\ c \in s \ {x}
        BY <1>0, <2>1, <3>1, <3>4, FS_RemoveElement
      <4>2. SumFunctionOnSet(f, s \ {c}) = f[x] + SumFunctionOnSet(f, (s \ {c}) \ {x})
        BY <1>2, <4>1
      <4>3. SumFunctionOnSet(f, s \ {x}) = f[c] + SumFunctionOnSet(f, (s \ {x}) \ {c})
        BY <1>2, <4>1
      <4>4. (s \ {c}) \ {x} = (s \ {x}) \ {c} /\ (s \ {c}) \ {x} \in SUBSET S
        OBVIOUS
      <4>5. f[x] \in Int /\ f[c] \in Int /\ SumFunctionOnSet(f, (s \ {c}) \ {x}) \in Int
        BY <1>0, <3>1, <4>4
      <4>6. PICK rest \in Int : rest = SumFunctionOnSet(f, (s \ {c}) \ {x})
        BY <4>5
      <4>7. SumFunctionOnSet(f, s) = f[c] + (f[x] + rest)
        BY <3>2, <4>2, <4>6
      <4>8. SumFunctionOnSet(f, s \ {x}) = f[c] + rest
        BY <4>3, <4>4, <4>6
      <4>9. f[c] + (f[x] + rest) = f[x] + (f[c] + rest)
        BY <4>5
      <4> QED
        BY <4>7, <4>8, <4>9
    <3> QED
      BY <3>3, <3>4
  <2> QED
    BY <2>1
<1>3. Nat \subseteq Done
  <2> HIDE DEF Done
  <2> QED
    BY <1>1, <1>2, SetInduction
<1> QED
  BY <1>0, <1>3

\* A new index adds its summand.
LEMMA SumAdd ==
  ASSUME NEW f, NEW S, IsFiniteSet(S), NEW y, y \notin S, \A x \in S \cup {y} : f[x] \in Int
  PROVE  SumFunctionOnSet(f, S \cup {y}) = f[y] + SumFunctionOnSet(f, S)
<1>1. IsFiniteSet(S \cup {y}) /\ (S \cup {y}) \ {y} = S
  BY FS_AddElement
<1> QED
  BY <1>1, SumRemove

\* Equal summands, equal sums.
LEMMA SumEqual ==
  ASSUME NEW f, NEW g, NEW S, IsFiniteSet(S), \A x \in S : f[x] = g[x]
  PROVE  SumFunctionOnSet(f, S) = SumFunctionOnSet(g, S)
<1> DEFINE Done == {n \in Nat : \A s \in SUBSET S :
                      Cardinality(s) <= n => SumFunctionOnSet(f, s) = SumFunctionOnSet(g, s)}
<1>0. \A s \in SUBSET S : IsFiniteSet(s) /\ Cardinality(s) \in Nat
  BY FS_Subset, FS_CardinalityType
<1>1. 0 \in Done
  <2>1. \A s \in SUBSET S : Cardinality(s) <= 0 => s = {}
    BY <1>0, FS_EmptySet
  <2>2. SumFunctionOnSet(f, {}) = 0 /\ SumFunctionOnSet(g, {}) = 0
    BY FS_EmptySet, SumUnfold
  <2> QED
    BY <2>1, <2>2
<1>2. ASSUME NEW n \in Nat, n \in Done PROVE n + 1 \in Done
  <2>1. ASSUME NEW s \in SUBSET S, Cardinality(s) <= n + 1
        PROVE  SumFunctionOnSet(f, s) = SumFunctionOnSet(g, s)
    <3>1. CASE s = {}
      BY <3>1, <1>0, SumUnfold
    <3>2. CASE s # {}
      <4>1. First(s) \in s
        BY <3>2 DEF First
      <4>2. Cardinality(s \ {First(s)}) <= n /\ s \ {First(s)} \in SUBSET S
        BY <1>0, <2>1, <4>1, FS_RemoveElement
      <4>3. /\ SumFunctionOnSet(f, s) = f[First(s)] + SumFunctionOnSet(f, s \ {First(s)})
            /\ SumFunctionOnSet(g, s) = g[First(s)] + SumFunctionOnSet(g, s \ {First(s)})
        BY <1>0, <3>2, SumUnfold
      <4> QED
        BY <1>2, <4>1, <4>2, <4>3
    <3> QED
      BY <3>1, <3>2
  <2> QED
    BY <2>1
<1>3. Nat \subseteq Done
  <2> HIDE DEF Done
  <2> QED
    BY <1>1, <1>2, SetInduction
<1> QED
  BY <1>0, <1>3

\* When one summand changes, the sum changes by as much.
LEMMA SumChange ==
  ASSUME NEW f, NEW g, NEW S, IsFiniteSet(S), NEW y \in S,
         \A x \in S : f[x] \in Int /\ g[x] \in Int,
         \A x \in S \ {y} : g[x] = f[x]
  PROVE  SumFunctionOnSet(g, S) = (SumFunctionOnSet(f, S) - f[y]) + g[y]
<1>1. IsFiniteSet(S \ {y})
  BY FS_RemoveElement
<1>2. SumFunctionOnSet(g, S \ {y}) = SumFunctionOnSet(f, S \ {y}) /\ SumFunctionOnSet(f, S \ {y}) \in Int
  BY <1>1, SumEqual, SumType
<1>3. /\ SumFunctionOnSet(f, S) = f[y] + SumFunctionOnSet(f, S \ {y})
      /\ SumFunctionOnSet(g, S) = g[y] + SumFunctionOnSet(g, S \ {y})
  BY SumRemove
<1> QED
  BY <1>2, <1>3

\* Zeros sum to zero.
LEMMA SumZero ==
  ASSUME NEW f, NEW S, IsFiniteSet(S), \A x \in S : f[x] = 0
  PROVE  SumFunctionOnSet(f, S) = 0
<1> DEFINE Done == {n \in Nat : \A s \in SUBSET S : Cardinality(s) <= n => SumFunctionOnSet(f, s) = 0}
<1>0. \A s \in SUBSET S : IsFiniteSet(s) /\ Cardinality(s) \in Nat
  BY FS_Subset, FS_CardinalityType
<1>1. 0 \in Done
  <2>1. \A s \in SUBSET S : Cardinality(s) <= 0 => s = {}
    BY <1>0, FS_EmptySet
  <2>2. SumFunctionOnSet(f, {}) = 0
    BY FS_EmptySet, SumUnfold
  <2> QED
    BY <2>1, <2>2
<1>2. ASSUME NEW n \in Nat, n \in Done PROVE n + 1 \in Done
  <2>1. ASSUME NEW s \in SUBSET S, Cardinality(s) <= n + 1 PROVE SumFunctionOnSet(f, s) = 0
    <3>1. CASE s = {}
      BY <3>1, <1>0, SumUnfold
    <3>2. CASE s # {}
      <4>1. First(s) \in s
        BY <3>2 DEF First
      <4>2. Cardinality(s \ {First(s)}) <= n /\ s \ {First(s)} \in SUBSET S
        BY <1>0, <2>1, <4>1, FS_RemoveElement
      <4>3. SumFunctionOnSet(f, s) = f[First(s)] + SumFunctionOnSet(f, s \ {First(s)})
        BY <1>0, <3>2, SumUnfold
      <4> QED
        BY <1>2, <4>1, <4>2, <4>3
    <3> QED
      BY <3>1, <3>2
  <2> QED
    BY <2>1
<1>3. Nat \subseteq Done
  <2> HIDE DEF Done
  <2> QED
    BY <1>1, <1>2, SetInduction
<1> QED
  BY <1>0, <1>3

----------------------------------------------------------------------------
(* Sums over an interval.                                                  *)

\* The next index adds its summand.
LEMMA SumNext ==
  ASSUME NEW f, NEW a \in Int, NEW b \in Int, a <= b + 1, \A i \in a..(b + 1) : f[i] \in Int
  PROVE  SumFunctionOnSet(f, a..(b + 1)) = SumFunctionOnSet(f, a..b) + f[b + 1]
<1>1. IsFiniteSet(a..b) /\ b + 1 \notin a..b /\ a..(b + 1) = (a..b) \cup {b + 1}
  BY FS_Interval
<1>2. SumFunctionOnSet(f, (a..b) \cup {b + 1}) = f[b + 1] + SumFunctionOnSet(f, a..b)
  BY <1>1, SumAdd
<1>3. SumFunctionOnSet(f, a..b) \in Int /\ f[b + 1] \in Int
  BY <1>1, SumType
<1>4. f[b + 1] + SumFunctionOnSet(f, a..b) = SumFunctionOnSet(f, a..b) + f[b + 1]
  BY <1>3
<1> QED
  BY <1>1, <1>2, <1>4, Zenon

\* An empty interval sums to zero.
LEMMA SumNone ==
  ASSUME NEW f, NEW a \in Int
  PROVE  SumFunctionOnSet(f, a..(a - 1)) = 0
<1>1. a..(a - 1) = {}
  OBVIOUS
<1> QED
  BY <1>1, FS_EmptySet, SumUnfold

\* Summands that all move up by one index keep their sum.
LEMMA SumShift ==
  ASSUME NEW f, NEW g, NEW a \in Int, NEW b \in Int, a <= b + 1,
         \A i \in a..b : f[i] \in Int /\ g[i + 1] = f[i]
  PROVE  SumFunctionOnSet(g, (a + 1)..(b + 1)) = SumFunctionOnSet(f, a..b)
<1> DEFINE Same(n) == SumFunctionOnSet(g, (a + 1)..(a + n)) = SumFunctionOnSet(f, a..(a + n - 1))
           Done == {n \in Nat : a + n - 1 <= b => Same(n)}
<1>1. 0 \in Done
  <2>1. SumFunctionOnSet(f, a..(a - 1)) = 0 /\ SumFunctionOnSet(g, (a + 1)..((a + 1) - 1)) = 0
    BY SumNone
  <2>2. a + 0 - 1 = a - 1 /\ (a + 1) - 1 = a + 0
    OBVIOUS
  <2> QED
    BY <2>1, <2>2
<1>2. ASSUME NEW n \in Nat, n \in Done PROVE n + 1 \in Done
  <2> SUFFICES ASSUME a + (n + 1) - 1 <= b PROVE Same(n + 1)
    OBVIOUS
  <2>1. a + n \in a..b /\ (a + n - 1) + 1 = a + n /\ a + (n + 1) - 1 = a + n /\ (a + n) + 1 = a + (n + 1)
    OBVIOUS
  <2>2. \A i \in a..(a + n) : i \in a..b /\ f[i] \in Int
    BY <2>1
  <2>3. SumFunctionOnSet(f, a..((a + n - 1) + 1)) = SumFunctionOnSet(f, a..(a + n - 1)) + f[(a + n - 1) + 1]
    BY <2>1, <2>2, SumNext
  <2>4. \A i \in (a + 1)..((a + n) + 1) : g[i] \in Int
    <3>1. \A i \in (a + 1)..((a + n) + 1) : i - 1 \in a..b /\ (i - 1) + 1 = i
      BY <2>1
    <3> QED
      BY <3>1
  <2>5. SumFunctionOnSet(g, (a + 1)..((a + n) + 1)) = SumFunctionOnSet(g, (a + 1)..(a + n)) + g[(a + n) + 1]
    BY <2>1, <2>4, SumNext
  <2>6. Same(n) /\ g[(a + n) + 1] = f[a + n]
    BY <1>2, <2>1
  <2> QED
    BY <2>1, <2>3, <2>5, <2>6
<1>3. Nat \subseteq Done
  <2> HIDE DEF Done
  <2> QED
    BY <1>1, <1>2, SetInduction
<1>4. (b - a) + 1 \in Nat /\ a + ((b - a) + 1) = b + 1 /\ a + ((b - a) + 1) - 1 = b
  OBVIOUS
<1> QED
  BY <1>3, <1>4

\* An interval is summed in two parts.
LEMMA SumSplit ==
  ASSUME NEW f, NEW a \in Int, NEW b \in Int, NEW c \in Int, a <= b + 1, b <= c,
         \A i \in a..c : f[i] \in Int
  PROVE  SumFunctionOnSet(f, a..c) = SumFunctionOnSet(f, a..b) + SumFunctionOnSet(f, (b + 1)..c)
<1> DEFINE Parts(n) == SumFunctionOnSet(f, a..(b + n))
                         = SumFunctionOnSet(f, a..b) + SumFunctionOnSet(f, (b + 1)..(b + n))
           Done == {n \in Nat : b + n <= c => Parts(n)}
<1>0. ASSUME NEW l \in Int, NEW h \in Int, a <= l, h <= c PROVE SumFunctionOnSet(f, l..h) \in Int
  <2>1. IsFiniteSet(l..h)
    BY FS_Interval
  <2>2. \A i \in l..h : i \in a..c
    BY <1>0
  <2> QED
    BY <2>1, <2>2, SumType
<1>1. 0 \in Done
  <2>1. SumFunctionOnSet(f, (b + 1)..((b + 1) - 1)) = 0 /\ (b + 1) - 1 = b + 0 /\ b + 0 = b
    BY SumNone
  <2>2. SumFunctionOnSet(f, a..b) \in Int
    <3>1. IsFiniteSet(a..b) /\ \A i \in a..b : f[i] \in Int
      BY FS_Interval
    <3> QED
      BY <3>1, SumType
  <2> QED
    BY <2>1, <2>2
<1>2. ASSUME NEW n \in Nat, n \in Done PROVE n + 1 \in Done
  <2> SUFFICES ASSUME b + (n + 1) <= c PROVE Parts(n + 1)
    OBVIOUS
  <2>1. (b + n) + 1 = b + (n + 1) /\ b + n \in Int /\ b + n <= c /\ (b + n) + 1 \in a..c
    OBVIOUS
  <2>2. /\ SumFunctionOnSet(f, a..((b + n) + 1)) = SumFunctionOnSet(f, a..(b + n)) + f[(b + n) + 1]
        /\ SumFunctionOnSet(f, (b + 1)..((b + n) + 1)) = SumFunctionOnSet(f, (b + 1)..(b + n)) + f[(b + n) + 1]
    BY <2>1, SumNext
  <2>3. Parts(n)
    BY <1>2, <2>1
  <2>4. PICK x \in Int, y \in Int, z \in Int :
          x = SumFunctionOnSet(f, a..b) /\ y = SumFunctionOnSet(f, (b + 1)..(b + n)) /\ z = f[(b + n) + 1]
    <3>1. SumFunctionOnSet(f, a..b) \in Int
      BY <1>0
    <3>2. SumFunctionOnSet(f, (b + 1)..(b + n)) \in Int
      BY <1>0, <2>1
    <3>3. f[(b + n) + 1] \in Int
      BY <2>1
    <3> QED
      BY <3>1, <3>2, <3>3, Zenon
  <2>5. (x + y) + z = x + (y + z)
    OBVIOUS
  <2> QED
    BY <2>1, <2>2, <2>3, <2>4, <2>5
<1>3. Nat \subseteq Done
  <2> HIDE DEF Done
  <2> QED
    BY <1>1, <1>2, SetInduction
<1>4. PICK n \in Nat : b + n = c
  <2>1. c - b \in Nat /\ b + (c - b) = c
    OBVIOUS
  <2> QED
    BY <2>1
<1>5. Parts(n)
  <2>1. n \in Done /\ b + n <= c
    BY <1>3, <1>4
  <2> QED
    BY <2>1, Zenon
<1> QED
  BY <1>4, <1>5, Zenon

\* The first index of an interval can be taken out.
LEMMA SumFirst ==
  ASSUME NEW f, NEW a \in Int, NEW c \in Int, a <= c, \A i \in a..c : f[i] \in Int
  PROVE  SumFunctionOnSet(f, a..c) = f[a] + SumFunctionOnSet(f, (a + 1)..c)
<1>1. IsFiniteSet(a..c) /\ a \in a..c /\ (a..c) \ {a} = (a + 1)..c
  BY FS_Interval
<1>2. SumFunctionOnSet(f, a..c) = f[a] + SumFunctionOnSet(f, (a..c) \ {a})
  BY <1>1, SumRemove
<1> QED
  BY <1>1, <1>2, Zenon

\* A sum of sums.
LEMMA SumBoth ==
  ASSUME NEW M \in Nat, NEW h, NEW g, NEW l,
         \A d \in 0..M : h[d] = g[d] + l[d] /\ g[d] \in Int /\ l[d] \in Int
  PROVE  SumFunctionOnSet(h, 0..M) = SumFunctionOnSet(g, 0..M) + SumFunctionOnSet(l, 0..M)
<1> DEFINE Both(n) == /\ SumFunctionOnSet(h, 0..n) = SumFunctionOnSet(g, 0..n) + SumFunctionOnSet(l, 0..n)
                      /\ SumFunctionOnSet(g, 0..n) \in Int /\ SumFunctionOnSet(l, 0..n) \in Int
           Good == {n \in Nat : n <= M => Both(n)}
<1>1. 0 \in Good
  <2>1. 0..0 = {0} /\ IsFiniteSet({}) /\ {0} = {} \cup {0} /\ 0 \in 0..M
    BY FS_EmptySet
  <2>2. \A x \in {} \cup {0} : h[x] \in Int /\ g[x] \in Int /\ l[x] \in Int
    BY <2>1
  <2>3. /\ SumFunctionOnSet(h, {} \cup {0}) = h[0] + SumFunctionOnSet(h, {})
        /\ SumFunctionOnSet(g, {} \cup {0}) = g[0] + SumFunctionOnSet(g, {})
        /\ SumFunctionOnSet(l, {} \cup {0}) = l[0] + SumFunctionOnSet(l, {})
    BY <2>1, <2>2, SumAdd
  <2>4. SumFunctionOnSet(h, {}) = 0 /\ SumFunctionOnSet(g, {}) = 0 /\ SumFunctionOnSet(l, {}) = 0
    BY <2>1, SumUnfold
  <2> QED
    BY <2>1, <2>3, <2>4
<1>2. ASSUME NEW n \in Nat, n \in Good PROVE n + 1 \in Good
  <2> SUFFICES ASSUME n + 1 <= M PROVE Both(n + 1)
    OBVIOUS
  <2>1. \A i \in 0..(n + 1) : h[i] \in Int /\ g[i] \in Int /\ l[i] \in Int
    OBVIOUS
  <2>2. 0 \in Int /\ n \in Int /\ 0 <= n + 1 /\ n <= M /\ n + 1 \in 0..M
    OBVIOUS
  <2>3. SumFunctionOnSet(h, 0..(n + 1)) = SumFunctionOnSet(h, 0..n) + h[n + 1]
    BY <2>1, <2>2, SumNext
  <2>4. SumFunctionOnSet(g, 0..(n + 1)) = SumFunctionOnSet(g, 0..n) + g[n + 1]
    BY <2>1, <2>2, SumNext
  <2>5. SumFunctionOnSet(l, 0..(n + 1)) = SumFunctionOnSet(l, 0..n) + l[n + 1]
    BY <2>1, <2>2, SumNext
  <2>6. Both(n) /\ h[n + 1] = g[n + 1] + l[n + 1] /\ g[n + 1] \in Int /\ l[n + 1] \in Int
    BY <1>2, <2>2
  <2> QED
    BY <2>3, <2>4, <2>5, <2>6
<1>3. M \in Good
  <2> HIDE DEF Good
  <2> QED
    BY <1>1, <1>2, SetInduction
<1> QED
  BY <1>3

\* A sequence of numbers computed from one another exists.
LEMMA NatRecursion ==
  ASSUME NEW step \in [Nat \X Nat -> Nat]
  PROVE  \E f \in [Nat -> Nat] : f[0] = 0 /\ \A n \in Nat : f[n + 1] = step[<<n + 1, f[n]>>]
<1> DEFINE Good(g, n) == /\ g \in [0..n -> Nat] /\ g[0] = 0
                         /\ \A m \in Nat : m < n => g[m + 1] = step[<<m + 1, g[m]>>]
           Built == {n \in Nat : \E g : Good(g, n)}
           Value(n) == CHOOSE x : \E g : Good(g, n) /\ x = g[n]
           f == [n \in Nat |-> Value(n)]
<1>1. Nat \subseteq Built
  <2>1. 0 \in Built
    <3>1. Good([k \in 0..0 |-> 0], 0)
      OBVIOUS
    <3> QED
      BY <3>1
  <2>2. ASSUME NEW n \in Nat, n \in Built PROVE n + 1 \in Built
    <3>1. PICK g : Good(g, n)
      BY <2>2
    <3> DEFINE h == [k \in 0..(n + 1) |-> IF k <= n THEN g[k] ELSE step[<<n + 1, g[n]>>]]
    <3>2. g[n] \in Nat /\ <<n + 1, g[n]>> \in Nat \X Nat
      BY <3>1
    <3>3. h \in [0..(n + 1) -> Nat]
      BY <3>1, <3>2
    <3>4. h[0] = 0
      BY <3>1
    <3>5. ASSUME NEW m \in Nat, m < n + 1 PROVE h[m + 1] = step[<<m + 1, h[m]>>]
      <4>1. CASE m < n
        <5>1. h[m + 1] = g[m + 1] /\ h[m] = g[m]
          BY <4>1
        <5> QED
          BY <3>1, <4>1, <5>1
      <4>2. CASE m = n
        <5>1. h[m + 1] = step[<<n + 1, g[n]>>] /\ h[m] = g[n]
          BY <4>2
        <5> QED
          BY <4>2, <5>1
      <4> QED
        BY <3>5, <4>1, <4>2
    <3>6. Good(h, n + 1)
      BY <3>3, <3>4, <3>5
    <3>7. \E x : Good(x, n + 1)
      <4> HIDE DEF h, Good
      <4> QED
        BY <3>6
    <3> QED
      BY <3>7
  <2> QED
    BY <2>1, <2>2, SetInduction
<1>2. \A n, m \in Nat : \A g, h : n <= m /\ Good(g, n) /\ Good(h, m) => g[n] = h[n]
  <2> SUFFICES ASSUME NEW n \in Nat, NEW m \in Nat, NEW g, NEW h, n <= m, Good(g, n), Good(h, m)
               PROVE  g[n] = h[n]
    <3> HIDE DEF Good
    <3> QED
      OBVIOUS
  <2> DEFINE Same == {k \in Nat : k <= n => g[k] = h[k]}
  <2>1. 0 \in Same
    OBVIOUS
  <2>2. ASSUME NEW k \in Nat, k \in Same PROVE k + 1 \in Same
    <3> SUFFICES ASSUME k + 1 <= n PROVE g[k + 1] = h[k + 1]
      OBVIOUS
    <3>1. k < n /\ k < m /\ g[k] = h[k]
      BY <2>2
    <3> QED
      BY <3>1
  <2>3. Nat \subseteq Same
    BY <2>1, <2>2, SetInduction
  <2> QED
    BY <2>3
<1>3. ASSUME NEW n \in Nat, NEW g, Good(g, n) PROVE Value(n) = g[n]
  <2> HIDE DEF Good
  <2> QED
    BY <1>2, <1>3
<1>4. ASSUME NEW n \in Nat PROVE Value(n) \in Nat
  <2>1. PICK g : Good(g, n)
    BY <1>1
  <2> QED
    BY <1>3, <2>1
<1>5. f[0] = 0
  <2>1. PICK g : Good(g, 0)
    BY <1>1
  <2> QED
    BY <1>3, <2>1
<1>6. ASSUME NEW n \in Nat PROVE f[n + 1] = step[<<n + 1, f[n]>>]
  <2>0. n + 1 \in Nat /\ n + 1 \in Built
    <3>1. n + 1 \in Nat
      OBVIOUS
    <3> HIDE DEF Built
    <3> QED
      BY <1>1, <3>1
  <2>1. PICK g : Good(g, n + 1)
    BY <2>0
  <2>2. PICK h : Good(h, n)
    BY <1>1
  <2>3. f[n + 1] = g[n + 1] /\ f[n] = h[n]
    <3>1. Value(n + 1) = g[n + 1]
      BY <1>3, <2>0, <2>1
    <3>2. Value(n) = h[n]
      BY <1>3, <2>2
    <3> QED
      BY <2>0, <3>1, <3>2
  <2>4. h[n] = g[n]
    <3>1. n <= n + 1
      OBVIOUS
    <3> HIDE DEF Good
    <3> QED
      BY <1>2, <2>0, <2>1, <2>2, <3>1
  <2>5. g[n + 1] = step[<<n + 1, g[n]>>]
    BY <2>1
  <2> QED
    BY <2>3, <2>4, <2>5
<1>7. f \in [Nat -> Nat]
  BY <1>4
<1> QED
  BY <1>5, <1>6, <1>7

\* The powers of two, by the subsets of 1..k.
LEMMA Powers ==
  ASSUME NEW k \in Nat
  PROVE  2 ^ k \in Nat /\ 2 ^ k > 0 /\ 2 ^ (k + 1) = 2 * 2 ^ k /\ 2 ^ 0 = 1
<1> DEFINE S == SUBSET (1..k)
           T == SUBSET (1..(k + 1))
           pair == [s \in T |-> <<s \ {k + 1}, IF k + 1 \in s THEN 1 ELSE 0>>]
<1>1. /\ IsFiniteSet(1..k) /\ Cardinality(1..k) = k
      /\ IsFiniteSet(1..(k + 1)) /\ Cardinality(1..(k + 1)) = k + 1
  BY FS_Interval
<1>2. IsFiniteSet(S) /\ Cardinality(S) = 2 ^ k /\ IsFiniteSet(T) /\ Cardinality(T) = 2 ^ (k + 1)
  BY <1>1, FS_SUBSET
<1>3. IsFiniteSet({0, 1}) /\ Cardinality({0, 1}) = 2
  <2>1. 0..1 = {0, 1}
    OBVIOUS
  <2>2. IsFiniteSet(0..1) /\ Cardinality(0..1) = 2
    <3>1. 0 \in Int /\ 1 \in Int /\ ~(0 > 1) /\ 1 - 0 + 1 = 2
      OBVIOUS
    <3> QED
      BY <3>1, FS_Interval
  <2> QED
    BY <2>1, <2>2
<1>4. IsFiniteSet(S \X {0, 1}) /\ Cardinality(S \X {0, 1}) = (2 ^ k) * 2
  <2>1. Cardinality(S \X {0, 1}) = Cardinality(S) * Cardinality({0, 1}) /\ IsFiniteSet(S \X {0, 1})
    <3> HIDE DEF S
    <3> QED
      BY <1>2, <1>3, FS_Product
  <2> QED
    BY <1>2, <1>3, <2>1
<1>5. ExistsBijection(T, S \X {0, 1})
  <2>1. pair \in [T -> S \X {0, 1}]
    <3>1. \A s \in T : s \ {k + 1} \in S
      OBVIOUS
    <3> QED
      BY <3>1
  <2>2. ASSUME NEW s \in T, NEW t \in T, pair[s] = pair[t] PROVE s = t
    <3>1. s \ {k + 1} = t \ {k + 1} /\ (k + 1 \in s <=> k + 1 \in t)
      BY <2>2
    <3> QED
      BY <3>1
  <2>3. ASSUME NEW p \in S \X {0, 1} PROVE \E s \in T : pair[s] = p
    <3>1. p = <<p[1], p[2]>> /\ p[1] \in S /\ p[2] \in {0, 1}
      OBVIOUS
    <3>2. k + 1 \notin p[1]
      BY <3>1
    <3>3. CASE p[2] = 0
      <4>1. p[1] \in T /\ p[1] \ {k + 1} = p[1]
        BY <3>1, <3>2
      <4>2. pair[p[1]] = <<p[1], 0>>
        BY <3>2, <4>1
      <4> QED
        BY <3>1, <3>3, <4>1, <4>2
    <3>4. CASE p[2] = 1
      <4> DEFINE s == p[1] \cup {k + 1}
      <4>1. s \in T /\ s \ {k + 1} = p[1] /\ k + 1 \in s
        BY <3>1, <3>2
      <4>2. pair[s] = <<p[1], 1>>
        BY <4>1
      <4> QED
        BY <3>1, <3>4, <4>1, <4>2
    <3> QED
      BY <3>1, <3>3, <3>4
  <2>4. pair \in Bijection(T, S \X {0, 1})
    BY <2>1, <2>2, <2>3 DEF Bijection, Injection, Surjection, IsInjective
  <2> QED
    BY <2>4 DEF ExistsBijection
<1>6. 2 ^ (k + 1) = (2 ^ k) * 2
  BY <1>2, <1>4, <1>5, FS_Bijection
<1>7. 2 ^ k \in Nat
  BY <1>2, FS_CardinalityType
<1>8. 2 ^ k # 0
  <2>1. {} \in S
    OBVIOUS
  <2> QED
    BY <1>2, <2>1, FS_EmptySet
<1>9. 2 ^ 0 = 1
  <2>1. IsFiniteSet({}) /\ Cardinality({}) = 0
    BY FS_EmptySet
  <2>2. Cardinality(SUBSET {}) = 2 ^ 0
    BY <2>1, FS_SUBSET
  <2>3. SUBSET {} = {{}}
    OBVIOUS
  <2> QED
    BY <2>2, <2>3, FS_Singleton
<1> QED
  BY <1>6, <1>7, <1>8, <1>9
=============================================================================
