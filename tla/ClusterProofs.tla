--------------------------- MODULE ClusterProofs ---------------------------
(***************************************************************************)
(* The gateway as several processes.                                       *)
(*                                                                         *)
(* First the processes: the primary replaces each worker that dies exactly *)
(* once, and never in a spin.  The curve of the delays is its closed form, *)
(* a bag of waiting replacements has a size and a weight, and an inductive *)
(* invariant weighs the deaths of the last ticks against them.             *)
(*                                                                         *)
(* Then what they read, which shares no state with the first part: a       *)
(* configuration value kept by the database, the copy in Redis and a memo  *)
(* in each process.  An inductive invariant says how old the value in each *)
(* place can be, and which of them a change that has returned can no       *)
(* longer be missing from; then one lemma per action.                      *)
(***************************************************************************)
EXTENDS Fleet, Memo, SumProofs

\* The bounds as numbers.
LEMMA Numbers ==
  ASSUME Bounds
  PROVE
  /\ FORK_BACKOFF_BASE \in Nat /\ FORK_BACKOFF_BASE > 0 /\ FORK_BACKOFF_MAX \in Nat /\ FORK_BACKOFF_MAX > 0
  /\ CRASH_WINDOW \in Nat /\ CRASH_WINDOW > 0 /\ FORK_BACKOFF_BASE <= FORK_BACKOFF_MAX
  /\ IsFiniteSet(Workers) /\ Cardinality(Workers) \in Nat
  /\ SHUTDOWN_DEADLINE \in Nat /\ SHUTDOWN_DEADLINE > 0 /\ PRIMARY_EXIT_GRACE \in Nat /\ PRIMARY_EXIT_GRACE > 0
  /\ Nobody \notin Workers
  BY FS_CardinalityType DEF Bounds

\* A smaller number is one of the two.
LEMMA SmallerIs ==
  ASSUME NEW a \in Nat, NEW b \in Nat
  PROVE  Smaller(a, b) \in Nat /\ Smaller(a, b) <= a /\ Smaller(a, b) <= b /\ Smaller(a, b) \in {a, b}
  BY DEF Smaller

----------------------------------------------------------------------------
(* The curve of delays and what it adds up to.                             *)

\* One step of the curve.
CurveStep(n, x) == IF n <= 1 THEN 0 ELSE IF n = 2 THEN FORK_BACKOFF_BASE ELSE Smaller(2 * x, FORK_BACKOFF_MAX)

\* The curve is what its equation says.
LEMMA CurveIs ==
  ASSUME Bounds
  PROVE  \A n \in Nat : /\ Curve[n] \in Nat
                        /\ n <= 1 => Curve[n] = 0
                        /\ n = 2 => Curve[n] = FORK_BACKOFF_BASE
                        /\ n > 2 => Curve[n] = Smaller(2 * Curve[n - 1], FORK_BACKOFF_MAX)
<1> DEFINE step == [p \in Nat \X Nat |-> CurveStep(p[1], p[2])]
           Is(c) == c = [n \in Nat |-> IF n <= 1 THEN 0
                                       ELSE IF n = 2 THEN FORK_BACKOFF_BASE
                                       ELSE Smaller(2 * c[n - 1], FORK_BACKOFF_MAX)]
<1>1. ASSUME NEW n \in Nat, NEW x \in Nat PROVE CurveStep(n, x) \in Nat
  <2>1. 2 * x \in Nat
    OBVIOUS
  <2>2. Smaller(2 * x, FORK_BACKOFF_MAX) \in Nat
    BY <2>1, Numbers, SmallerIs
  <2> QED
    BY <2>2, Numbers DEF CurveStep
<1>2. step \in [Nat \X Nat -> Nat]
  BY <1>1
<1>3. PICK f \in [Nat -> Nat] : f[0] = 0 /\ \A n \in Nat : f[n + 1] = step[<<n + 1, f[n]>>]
  <2> DEFINE Runs(st) == \E f \in [Nat -> Nat] : f[0] = 0 /\ \A n \in Nat : f[n + 1] = st[<<n + 1, f[n]>>]
  <2>1. \A st \in [Nat \X Nat -> Nat] : Runs(st)
    BY NatRecursion, Zenon
  <2>2. Runs(step)
    <3> HIDE DEF step, Runs
    <3> QED
      BY <1>2, <2>1
  <2> QED
    BY <2>2
<1>4. ASSUME NEW n \in Nat PROVE f[n + 1] = CurveStep(n + 1, f[n])
  <2>1. n + 1 \in Nat /\ f[n] \in Nat
    BY <1>3
  <2>2. step[<<n + 1, f[n]>>] = CurveStep(n + 1, f[n])
    BY <2>1
  <2> QED
    BY <1>3, <2>2
<1>5. ASSUME NEW n \in Nat
      PROVE  f[n] = IF n <= 1 THEN 0 ELSE IF n = 2 THEN FORK_BACKOFF_BASE ELSE Smaller(2 * f[n - 1], FORK_BACKOFF_MAX)
  <2>1. CASE n = 0
    BY <1>3, <2>1
  <2>2. CASE n # 0
    <3>1. n - 1 \in Nat /\ (n - 1) + 1 = n
      BY <2>2
    <3>2. f[n] = CurveStep(n, f[n - 1])
      BY <1>4, <3>1
    <3> QED
      BY <3>2 DEF CurveStep
  <2> QED
    BY <2>1, <2>2
<1>6. Is(f)
  BY <1>3, <1>5
<1>7. Is(Curve)
  <2>1. \E c : Is(c)
    <3> HIDE DEF Is
    <3> QED
      BY <1>6
  <2>2. Curve = CHOOSE c : Is(c)
    BY DEF Curve
  <2> HIDE DEF Is
  <2> QED
    BY <2>1, <2>2
<1>8. \A n \in Nat : Curve[n] = f[n]
  <2> DEFINE Same == {n \in Nat : Curve[n] = f[n]}
  <2> HIDE DEF Curve
  <2>1. 0 \in Same
    BY <1>6, <1>7
  <2>2. ASSUME NEW n \in Nat, n \in Same PROVE n + 1 \in Same
    <3>1. Curve[n] = f[n] /\ n + 1 \in Nat /\ (n + 1) - 1 = n
      BY <2>2
    <3>2. Curve[n + 1] = IF n + 1 <= 1 THEN 0 ELSE IF n + 1 = 2 THEN FORK_BACKOFF_BASE
                         ELSE Smaller(2 * Curve[n], FORK_BACKOFF_MAX)
      BY <1>7, <3>1
    <3>3. f[n + 1] = IF n + 1 <= 1 THEN 0 ELSE IF n + 1 = 2 THEN FORK_BACKOFF_BASE
                     ELSE Smaller(2 * f[n], FORK_BACKOFF_MAX)
      BY <1>5, <3>1
    <3> QED
      BY <3>1, <3>2, <3>3
  <2> QED
    BY <2>1, <2>2, SetInduction
<1> HIDE DEF Curve
<1>9. \A n \in Nat : n > 2 => n - 1 \in Nat
  OBVIOUS
<1> QED
  BY <1>3, <1>5, <1>8, <1>9

\* The delay the code computes is the curve; it is never more than the
\* ceiling, never nothing after the first death, and grows with the deaths.
LEMMA DelayIsCurve ==
  ASSUME Bounds
  PROVE  \A n \in Nat : /\ forkDelay(n) = Curve[n]
                        /\ Curve[n] \in 0..FORK_BACKOFF_MAX
                        /\ Curve[n] = 0 => n <= 1
                        /\ Curve[n] <= Curve[n + 1]
<1> DEFINE p(n) == FORK_BACKOFF_BASE * 2 ^ (n - 2)
           Good == {n \in Nat : n >= 2 => /\ Curve[n] = Smaller(p(n), FORK_BACKOFF_MAX)
                                          /\ p(n) \in Nat /\ p(n) > 0}
<1>1. 0 \in Good
  OBVIOUS
<1>2. ASSUME NEW n \in Nat, n \in Good PROVE n + 1 \in Good
  <2>1. CASE n < 1
    BY <2>1
  <2>2. CASE n = 1
    <3>1. (n + 1) - 2 = 0 /\ n + 1 = 2
      BY <2>2
    <3>2. 2 ^ 0 = 1
      BY Powers
    <3>3. p(n + 1) = FORK_BACKOFF_BASE
      BY <3>1, <3>2, Numbers
    <3>4. Curve[n + 1] = FORK_BACKOFF_BASE
      BY <3>1, CurveIs
    <3> QED
      BY <3>1, <3>3, <3>4, Numbers DEF Smaller
  <2>3. CASE n >= 2
    <3> DEFINE q == 2 ^ (n - 2)
    <3>1. n - 2 \in Nat /\ (n + 1) - 2 = (n - 2) + 1 /\ n + 1 \in Nat /\ n + 1 > 2 /\ (n + 1) - 1 = n
      BY <2>3
    <3>2. q \in Nat /\ q > 0 /\ 2 ^ ((n + 1) - 2) = 2 * q
      BY <3>1, Powers
    <3>3. p(n + 1) = 2 * p(n) /\ p(n) \in Nat /\ p(n) > 0
      <4>1. p(n + 1) = FORK_BACKOFF_BASE * (2 * q)
        BY <3>2
      <4>2. p(n) = FORK_BACKOFF_BASE * q
        OBVIOUS
      <4>3. p(n) \in Nat /\ p(n) > 0
        BY <1>2, <2>3
      <4>4. \A b, x \in Nat : b * (2 * x) = 2 * (b * x)
        OBVIOUS
      <4> HIDE DEF p, q
      <4> QED
        BY <4>1, <4>2, <4>3, <4>4, <3>2, Numbers
    <3>4. Curve[n + 1] = Smaller(2 * Curve[n], FORK_BACKOFF_MAX)
      BY <3>1, CurveIs
    <3>5. Curve[n] = Smaller(p(n), FORK_BACKOFF_MAX)
      BY <1>2, <2>3
    <3>6. Smaller(2 * Smaller(p(n), FORK_BACKOFF_MAX), FORK_BACKOFF_MAX) = Smaller(2 * p(n), FORK_BACKOFF_MAX)
      <4> HIDE DEF p
      <4> QED
        BY <3>3, Numbers DEF Smaller
    <3>7. Curve[n + 1] = Smaller(p(n + 1), FORK_BACKOFF_MAX) /\ p(n + 1) \in Nat /\ p(n + 1) > 0
      <4> HIDE DEF p
      <4> QED
        BY <3>3, <3>4, <3>5, <3>6
    <3> QED
      BY <3>1, <3>7
  <2> QED
    BY <2>1, <2>2, <2>3
<1>3. Nat \subseteq Good
  <2> HIDE DEF Good
  <2> QED
    BY <1>1, <1>2, SetInduction
<1> SUFFICES ASSUME NEW n \in Nat
             PROVE  /\ forkDelay(n) = Curve[n]
                    /\ Curve[n] \in 0..FORK_BACKOFF_MAX
                    /\ Curve[n] = 0 => n <= 1
                    /\ Curve[n] <= Curve[n + 1]
  OBVIOUS
<1>4. CASE n <= 1
  <2>1. forkDelay(n) = 0
    BY <1>4 DEF forkDelay
  <2>2. Curve[n] = 0 /\ Curve[n + 1] \in Nat
    BY <1>4, CurveIs
  <2> QED
    BY <1>4, <2>1, <2>2, Numbers
<1>5. CASE n >= 2
  <2>1. Curve[n] = Smaller(p(n), FORK_BACKOFF_MAX) /\ p(n) \in Nat /\ p(n) > 0
    BY <1>3, <1>5
  <2>2. forkDelay(n) = Smaller(p(n), FORK_BACKOFF_MAX)
    BY <1>5 DEF forkDelay
  <2>3. Curve[n + 1] = Smaller(2 * Curve[n], FORK_BACKOFF_MAX)
    <3>1. n + 1 \in Nat /\ n + 1 > 2 /\ (n + 1) - 1 = n
      BY <1>5
    <3> QED
      BY <3>1, CurveIs
  <2>4. Curve[n] \in Nat /\ Curve[n] <= FORK_BACKOFF_MAX /\ Curve[n] > 0
    <3> HIDE DEF p
    <3> QED
      BY <2>1, Numbers DEF Smaller
  <2>5. Curve[n] <= Curve[n + 1]
    BY <2>3, <2>4, Numbers DEF Smaller
  <2> QED
    BY <1>5, <2>1, <2>2, <2>4, <2>5
<1> QED
  BY <1>4, <1>5

\* More deaths, no shorter a delay.
LEMMA CurveGrows ==
  ASSUME Bounds, NEW m \in Nat, NEW n \in Nat, m <= n
  PROVE  Curve[m] <= Curve[n]
<1> DEFINE Good == {i \in Nat : Curve[m] <= Curve[m + i]}
<1>1. 0 \in Good
  BY CurveIs
<1>2. ASSUME NEW i \in Nat, i \in Good PROVE i + 1 \in Good
  <2>1. m + i \in Nat /\ m + (i + 1) = (m + i) + 1 /\ (m + i) + 1 \in Nat
    OBVIOUS
  <2>2. Curve[m + i] <= Curve[(m + i) + 1]
    BY <2>1, DelayIsCurve
  <2>3. Curve[m] \in Nat /\ Curve[m + i] \in Nat /\ Curve[(m + i) + 1] \in Nat
    BY <2>1, CurveIs
  <2> QED
    BY <1>2, <2>1, <2>2, <2>3
<1>3. Nat \subseteq Good
  <2> HIDE DEF Good
  <2> QED
    BY <1>1, <1>2, SetInduction
<1>4. n - m \in Nat /\ m + (n - m) = n
  OBVIOUS
<1> QED
  BY <1>3, <1>4

\* What the deaths wait in all, by its equation; it grows too.
LEMMA WaitedIs ==
  ASSUME Bounds
  PROVE  \A n \in Nat : /\ Waited[n] \in Nat /\ Waited[0] = 0
                        /\ Waited[n + 1] = Waited[n] + Curve[n + 1]
<1> HIDE DEF Curve
<1> DEFINE step == [p \in Nat \X Nat |-> p[2] + Curve[p[1]]]
           Is(c) == c = [n \in Nat |-> IF n = 0 THEN 0 ELSE c[n - 1] + Curve[n]]
<1>1. \A n \in Nat : Curve[n] \in Nat
  BY CurveIs
<1>2. step \in [Nat \X Nat -> Nat]
  BY <1>1
<1>3. PICK f \in [Nat -> Nat] : f[0] = 0 /\ \A n \in Nat : f[n + 1] = step[<<n + 1, f[n]>>]
  <2> DEFINE Runs(st) == \E f \in [Nat -> Nat] : f[0] = 0 /\ \A n \in Nat : f[n + 1] = st[<<n + 1, f[n]>>]
  <2>1. \A st \in [Nat \X Nat -> Nat] : Runs(st)
    BY NatRecursion, Zenon
  <2>2. Runs(step)
    <3> HIDE DEF step, Runs
    <3> QED
      BY <1>2, <2>1
  <2> QED
    BY <2>2
<1>4. ASSUME NEW n \in Nat PROVE f[n + 1] = f[n] + Curve[n + 1]
  <2>1. n + 1 \in Nat /\ f[n] \in Nat
    BY <1>3
  <2>2. step[<<n + 1, f[n]>>] = f[n] + Curve[n + 1]
    BY <2>1
  <2> QED
    BY <1>3, <2>2
<1>5. ASSUME NEW n \in Nat PROVE f[n] = IF n = 0 THEN 0 ELSE f[n - 1] + Curve[n]
  <2>1. CASE n = 0
    BY <1>3, <2>1
  <2>2. CASE n # 0
    <3>1. n - 1 \in Nat /\ (n - 1) + 1 = n
      BY <2>2
    <3> QED
      BY <1>4, <2>2, <3>1
  <2> QED
    BY <2>1, <2>2
<1>6. Is(f)
  BY <1>3, <1>5
<1>7. Is(Waited)
  <2>1. \E c : Is(c)
    <3> HIDE DEF Is
    <3> QED
      BY <1>6
  <2>2. Waited = CHOOSE c : Is(c)
    BY DEF Waited
  <2> HIDE DEF Is
  <2> QED
    BY <2>1, <2>2
<1>8. Waited[0] = 0 /\ \A n \in Nat : Waited[n + 1] = Waited[n] + Curve[n + 1]
  <2> HIDE DEF Waited
  <2>1. \A n \in Nat : n + 1 \in Nat /\ n + 1 # 0 /\ (n + 1) - 1 = n
    OBVIOUS
  <2> QED
    BY <1>7, <2>1
<1>9. \A n \in Nat : Waited[n] \in Nat
  <2> HIDE DEF Waited
  <2> DEFINE Good == {n \in Nat : Waited[n] \in Nat}
  <2>1. 0 \in Good
    BY <1>8
  <2>2. ASSUME NEW n \in Nat, n \in Good PROVE n + 1 \in Good
    BY <1>1, <1>8, <2>2
  <2> QED
    BY <2>1, <2>2, SetInduction
<1> QED
  BY <1>8, <1>9

\* Fewer deaths, no longer a wait.
LEMMA WaitedGrows ==
  ASSUME Bounds, NEW m \in Nat, NEW n \in Nat, m <= n
  PROVE  Waited[m] <= Waited[n]
<1> DEFINE Good == {i \in Nat : Waited[m] <= Waited[m + i]}
<1>1. 0 \in Good
  BY WaitedIs
<1>2. ASSUME NEW i \in Nat, i \in Good PROVE i + 1 \in Good
  <2>1. m + i \in Nat /\ m + (i + 1) = (m + i) + 1 /\ (m + i) + 1 \in Nat
    OBVIOUS
  <2>2. Waited[(m + i) + 1] = Waited[m + i] + Curve[(m + i) + 1]
    BY <2>1, WaitedIs
  <2>3. Waited[m] \in Nat /\ Waited[m + i] \in Nat /\ Curve[(m + i) + 1] \in Nat
    BY <2>1, CurveIs, WaitedIs
  <2> QED
    BY <1>2, <2>1, <2>2, <2>3
<1>3. Nat \subseteq Good
  <2> HIDE DEF Good
  <2> QED
    BY <1>1, <1>2, SetInduction
<1>4. n - m \in Nat /\ m + (n - m) = n
  OBVIOUS
<1> QED
  BY <1>3, <1>4
----------------------------------------------------------------------------
(* Bags of replacements that wait, by the ticks they still wait.           *)

Delays == 0..FORK_BACKOFF_MAX
Ages == 0..(CRASH_WINDOW - 1)
Bags == [Delays -> Nat]

\* How many, and how long they wait together.
Total(k) == SumFunctionOnSet(k, Delays)
Weight(k) == SumFunctionOnSet([d \in Delays |-> d * k[d]], Delays)
Part(k, b) == \A d \in Delays : k[d] <= b[d]

\* Sizes and weights are numbers.
LEMMA BagType ==
  ASSUME Bounds, NEW k \in Bags
  PROVE  Total(k) \in Nat /\ Weight(k) \in Nat /\ IsFiniteSet(Delays) /\ \A d \in Delays : d \in Nat /\ d * k[d] \in Nat
<1>1. IsFiniteSet(Delays)
  BY FS_Interval, Numbers DEF Delays
<1>2. ASSUME NEW d \in Delays PROVE k[d] \in Nat /\ d \in Nat /\ d * k[d] \in Nat
  <2>1. k[d] \in Nat /\ d \in Nat
    BY Numbers DEF Bags, Delays
  <2>2. \A x, y \in Nat : x * y \in Nat
    OBVIOUS
  <2> QED
    BY <2>1, <2>2
<1>3. Total(k) \in Nat
  <2>1. SumFunctionOnSet(k, Delays) \in Int /\ SumFunctionOnSet(k, Delays) >= 0
    BY <1>1, <1>2, SumType
  <2> QED
    BY <2>1 DEF Total
<1>4. Weight(k) \in Nat
  <2> DEFINE f == [d \in Delays |-> d * k[d]]
  <2>1. \A d \in Delays : f[d] \in Int /\ f[d] >= 0
    BY <1>2
  <2>2. SumFunctionOnSet(f, Delays) \in Int /\ SumFunctionOnSet(f, Delays) >= 0
    <3> HIDE DEF f
    <3> QED
      BY <1>1, <2>1, SumType
  <2> QED
    BY <2>2 DEF Weight
<1> QED
  BY <1>1, <1>2, <1>3, <1>4

\* One more, or one fewer, at a delay.
LEMMA BagChange ==
  ASSUME Bounds, NEW k \in Bags, NEW e \in Delays, NEW x \in Int, k[e] + x >= 0
  PROVE  LET l == [k EXCEPT ![e] = @ + x] IN
         /\ l \in Bags /\ l[e] = k[e] + x /\ \A d \in Delays \ {e} : l[d] = k[d]
         /\ Total(l) = Total(k) + x /\ Weight(l) = Weight(k) + e * x
<1> DEFINE l == [k EXCEPT ![e] = @ + x]
           f == [d \in Delays |-> d * k[d]]
           g == [d \in Delays |-> d * l[d]]
<1>1. l \in Bags /\ l[e] = k[e] + x /\ \A d \in Delays \ {e} : l[d] = k[d]
  BY DEF Bags
<1>2. k[e] \in Nat /\ e \in Nat
  BY Numbers DEF Bags, Delays
<1>3. Total(l) = Total(k) + x
  <2>1. \A d \in Delays : k[d] \in Int /\ l[d] \in Int
    BY <1>1 DEF Bags
  <2>2. SumFunctionOnSet(l, Delays) = (SumFunctionOnSet(k, Delays) - k[e]) + l[e]
    <3> HIDE DEF l
    <3> QED
      BY <1>1, <2>1, BagType, SumChange
  <2>3. Total(k) \in Nat
    BY BagType
  <2> HIDE DEF l
  <2> QED
    BY <1>1, <1>2, <2>2, <2>3 DEF Total
<1>4. Weight(l) = Weight(k) + e * x
  <2> HIDE DEF l
  <2>1. \A d \in Delays : f[d] \in Int /\ g[d] \in Int
    BY <1>1, BagType
  <2>2. \A d \in Delays \ {e} : g[d] = f[d]
    BY <1>1
  <2>3. SumFunctionOnSet(g, Delays) = (SumFunctionOnSet(f, Delays) - f[e]) + g[e]
    <3>1. IsFiniteSet(Delays)
      BY BagType
    <3> HIDE DEF f, g
    <3> QED
      BY <2>1, <2>2, <3>1, SumChange
  <2>4. f[e] = e * k[e] /\ g[e] = e * (k[e] + x)
    BY <1>1
  <2>5. e * (k[e] + x) = e * k[e] + e * x
    <3>1. \A p, q \in Nat : \A r \in Int : p * (q + r) = p * q + p * r
      OBVIOUS
    <3> QED
      BY <1>2, <3>1
  <2>6. Weight(k) \in Nat /\ Weight(k) = SumFunctionOnSet(f, Delays) /\ Weight(l) = SumFunctionOnSet(g, Delays)
    BY BagType DEF Weight
  <2>7. e * k[e] \in Int /\ e * x \in Int
    BY <1>2
  <2> HIDE DEF f, g
  <2> QED
    BY <2>3, <2>4, <2>5, <2>6, <2>7
<1> QED
  BY <1>1, <1>3, <1>4

\* One more.
LEMMA BagMore ==
  ASSUME Bounds, NEW k \in Bags, NEW e \in Delays
  PROVE  LET l == [k EXCEPT ![e] = @ + 1] IN
         /\ l \in Bags /\ l[e] = k[e] + 1 /\ \A d \in Delays \ {e} : l[d] = k[d]
         /\ Total(l) = Total(k) + 1 /\ Weight(l) = Weight(k) + e
<1> DEFINE l == [k EXCEPT ![e] = @ + 1]
<1>1. k[e] + 1 >= 0 /\ 1 \in Int
  BY DEF Bags
<1>2. /\ l \in Bags /\ l[e] = k[e] + 1 /\ \A d \in Delays \ {e} : l[d] = k[d]
      /\ Total(l) = Total(k) + 1 /\ Weight(l) = Weight(k) + e * 1
  BY <1>1, BagChange
<1>3. e * 1 = e
  BY Numbers DEF Delays
<1> QED
  BY <1>2, <1>3

\* One fewer.
LEMMA BagFewer ==
  ASSUME Bounds, NEW k \in Bags, NEW e \in Delays, k[e] > 0
  PROVE  LET l == [k EXCEPT ![e] = @ - 1] IN
         /\ l \in Bags /\ l[e] = k[e] - 1 /\ \A d \in Delays \ {e} : l[d] = k[d]
         /\ Total(l) = Total(k) - 1 /\ Weight(l) = Weight(k) - e
<1> DEFINE l == [k EXCEPT ![e] = @ - 1]
           m == [k EXCEPT ![e] = @ + (-1)]
<1>1. k[e] \in Nat /\ k[e] + (-1) >= 0 /\ -1 \in Int /\ k[e] + (-1) = k[e] - 1 /\ e \in Nat
  BY Numbers DEF Bags, Delays
<1>2. /\ m \in Bags /\ m[e] = k[e] + (-1) /\ \A d \in Delays \ {e} : m[d] = k[d]
      /\ Total(m) = Total(k) + (-1) /\ Weight(m) = Weight(k) + e * (-1)
  BY <1>1, BagChange
<1>3. l = m
  BY <1>1
<1>4. e * (-1) = -e /\ Total(k) \in Nat /\ Weight(k) \in Nat
  BY <1>1, BagType
<1>5. l \in Bags /\ l[e] = k[e] - 1 /\ \A d \in Delays \ {e} : l[d] = k[d]
  <2> HIDE DEF l, m
  <2> QED
    BY <1>1, <1>2, <1>3
<1>6. Total(l) = Total(k) - 1 /\ Weight(l) = Weight(k) - e
  <2> HIDE DEF l, m
  <2> QED
    BY <1>1, <1>2, <1>3, <1>4
<1> QED
  BY <1>5, <1>6

\* A part of a bag is no larger than the bag.
LEMMA PartTotal ==
  ASSUME Bounds, NEW k \in Bags, NEW b \in Bags, Part(k, b)
  PROVE  Total(k) <= Total(b)
<1> DEFINE M == FORK_BACKOFF_MAX
           rest == [d \in 0..M |-> b[d] - k[d]]
<1>1. \A d \in 0..M : /\ k[d] \in Int /\ rest[d] \in Int /\ rest[d] >= 0
                       /\ b[d] = k[d] + rest[d]
  BY DEF Bags, Delays, Part
<1>2. M \in Nat /\ IsFiniteSet(0..M)
  BY Numbers, FS_Interval
<1> HIDE DEF rest
<1>3. SumFunctionOnSet(b, 0..M) = SumFunctionOnSet(k, 0..M) + SumFunctionOnSet(rest, 0..M)
  BY <1>1, <1>2, SumBoth
<1>4. SumFunctionOnSet(rest, 0..M) \in Int /\ SumFunctionOnSet(rest, 0..M) >= 0
  BY <1>1, <1>2, SumType
<1>5. Total(k) \in Nat
  BY BagType
<1> QED
  BY <1>3, <1>4, <1>5 DEF Total, Delays

\* A tick takes one from every wait.
LEMMA BagShift ==
  ASSUME Bounds, NEW k \in Bags, NEW l \in Bags, k[0] = 0, l[FORK_BACKOFF_MAX] = 0,
         \A d \in Delays : d < FORK_BACKOFF_MAX => l[d] = k[d + 1]
  PROVE  Total(l) = Total(k) /\ Weight(k) = Weight(l) + Total(l)
<1> DEFINE M == FORK_BACKOFF_MAX
           f == [d \in Delays |-> d * k[d]]
           g == [d \in Delays |-> d * l[d]]
           h == [d \in Delays |-> d * l[d] + l[d]]
<1>1. /\ M \in Nat /\ M > 0 /\ M - 1 \in Int /\ (M - 1) + 1 = M /\ 0 + 1 = 1
      /\ \A d \in 0..M : k[d] \in Nat /\ l[d] \in Nat /\ d \in Nat
  <2>1. M \in Nat /\ M > 0
    BY Numbers
  <2>2. k \in [0..M -> Nat] /\ l \in [0..M -> Nat]
    BY DEF Bags, Delays
  <2> HIDE DEF M
  <2> QED
    BY <2>1, <2>2
<1>2. ASSUME NEW x, NEW y, \A d \in 0..M : x[d] \in Int /\ y[d] \in Int, x[0] = 0, y[M] = 0,
             \A i \in 0..(M - 1) : x[i + 1] = y[i]
      PROVE  SumFunctionOnSet(x, 0..M) = SumFunctionOnSet(y, 0..M)
  <2>1. SumFunctionOnSet(x, 0..M) = x[0] + SumFunctionOnSet(x, 1..M)
    BY <1>1, <1>2, SumFirst
  <2>2. SumFunctionOnSet(y, 0..M) = SumFunctionOnSet(y, 0..(M - 1)) + y[M]
    <3> DEFINE p == M - 1
    <3>1. p \in Int /\ 0 <= p + 1 /\ p + 1 = M
      BY <1>1
    <3>2. \A d \in 0..(p + 1) : y[d] \in Int
      BY <1>2, <3>1
    <3>3. SumFunctionOnSet(y, 0..(p + 1)) = SumFunctionOnSet(y, 0..p) + y[p + 1]
      <4> HIDE DEF p
      <4> QED
        BY <3>1, <3>2, SumNext
    <3> QED
      BY <3>1, <3>3
  <2>3. SumFunctionOnSet(x, 1..M) = SumFunctionOnSet(y, 0..(M - 1))
    <3> DEFINE p == M - 1
    <3>1. p \in Int /\ 0 <= p + 1 /\ p + 1 = M
      BY <1>1
    <3>2. \A i \in 0..p : y[i] \in Int /\ x[i + 1] = y[i]
      BY <1>1, <1>2
    <3>3. SumFunctionOnSet(x, (0 + 1)..(p + 1)) = SumFunctionOnSet(y, 0..p)
      <4> HIDE DEF p
      <4> QED
        BY <3>1, <3>2, SumShift
    <3> QED
      BY <1>1, <3>1, <3>3
  <2>4. SumFunctionOnSet(x, 1..M) \in Int
    <3>1. IsFiniteSet(1..M) /\ \A d \in 1..M : x[d] \in Int
      BY <1>1, <1>2, FS_Interval
    <3> QED
      BY <3>1, SumType
  <2> QED
    BY <1>2, <2>1, <2>2, <2>3, <2>4
<1>3. Total(l) = Total(k)
  <2>1. \A i \in 0..(M - 1) : k[i + 1] = l[i]
    BY <1>1 DEF Delays
  <2>2. SumFunctionOnSet(k, 0..M) = SumFunctionOnSet(l, 0..M)
    BY <1>1, <1>2, <2>1
  <2> QED
    BY <2>2 DEF Total, Delays
<1>4. \A d \in 0..M : f[d] \in Int /\ g[d] \in Int /\ h[d] \in Int
  <2>1. \A d \in 0..M : d * k[d] \in Int /\ d * l[d] \in Int /\ d * l[d] + l[d] \in Int
    BY <1>1
  <2> QED
    BY <2>1 DEF Delays
<1>5. SumFunctionOnSet(f, 0..M) = SumFunctionOnSet(h, 0..M)
  <2>1. f[0] = 0
    BY <1>1 DEF Delays
  <2>2. h[M] = 0
    <3>1. h[M] = M * 0 + 0
      BY <1>1 DEF Delays
    <3> QED
      BY <1>1, <3>1
  <2>3. ASSUME NEW i \in 0..(M - 1) PROVE f[i + 1] = h[i]
    <3>1. i \in Nat /\ i + 1 \in 0..M /\ i \in 0..M /\ i < M
      BY <1>1
    <3>2. k[i + 1] = l[i] /\ l[i] \in Nat
      BY <1>1, <3>1 DEF Delays
    <3>3. f[i + 1] = (i + 1) * l[i] /\ h[i] = i * l[i] + l[i]
      BY <3>1, <3>2 DEF Delays
    <3>4. \A p, q \in Nat : (p + 1) * q = p * q + q
      OBVIOUS
    <3> QED
      BY <3>1, <3>2, <3>3, <3>4
  <2> HIDE DEF f, h
  <2> QED
    BY <1>2, <1>4, <2>1, <2>2, <2>3
<1>6. SumFunctionOnSet(h, 0..M) = SumFunctionOnSet(g, 0..M) + SumFunctionOnSet(l, 0..M)
  <2>1. IsFiniteSet(0..M)
    BY <1>1, FS_Interval
  <2>2. ASSUME NEW d \in 0..M PROVE h[d] = g[d] + l[d] /\ g[d] \in Int /\ l[d] \in Int
    <3>1. d \in Delays
      BY DEF Delays
    <3>2. h[d] = d * l[d] + l[d] /\ g[d] = d * l[d]
      BY <3>1
    <3> QED
      BY <1>1, <1>4, <3>2
  <2> HIDE DEF h, g
  <2> QED
    BY <1>1, <2>1, <2>2, SumBoth
<1> QED
  BY <1>3, <1>5, <1>6 DEF Weight, Total, Delays
----------------------------------------------------------------------------
(* The deaths of the last ticks.                                           *)

Lists == [Ages -> Nat]

\* The deaths that are a ticks old at most.
Young(r, a) == SumFunctionOnSet(r, 0..a)

\* The young deaths are a number, and grow with the age.
LEMMA YoungType ==
  ASSUME Bounds, NEW r \in Lists, NEW a \in Ages
  PROVE  /\ Young(r, a) \in Nat /\ Young(r, a) <= Young(r, CRASH_WINDOW - 1)
         /\ a \in Nat /\ CRASH_WINDOW - 1 \in Ages
<1> DEFINE W == CRASH_WINDOW - 1
<1>1. W \in Nat /\ a \in 0..W /\ a \in Nat
  BY Numbers DEF Ages
<1>2. r \in [0..W -> Nat]
  BY DEF Lists, Ages
<1> HIDE DEF W
<1>3. \A i \in 0..W : r[i] \in Int /\ r[i] >= 0
  BY <1>2
<1>4. ASSUME NEW l \in Nat, NEW h \in Int, h <= W
      PROVE  SumFunctionOnSet(r, l..h) \in Int /\ SumFunctionOnSet(r, l..h) >= 0
  <2>1. IsFiniteSet(l..h)
    BY FS_Interval
  <2>2. \A i \in l..h : r[i] \in Int /\ r[i] >= 0
    BY <1>1, <1>3, <1>4
  <2> QED
    BY <2>1, <2>2, SumType
<1>5. SumFunctionOnSet(r, 0..W) = SumFunctionOnSet(r, 0..a) + SumFunctionOnSet(r, (a + 1)..W)
  BY <1>1, <1>3, SumSplit
<1>6. SumFunctionOnSet(r, 0..a) \in Nat /\ SumFunctionOnSet(r, (a + 1)..W) \in Nat
  <2>1. 0 \in Nat /\ a + 1 \in Nat /\ a \in Int /\ W \in Int /\ a <= W /\ W <= W
    BY <1>1
  <2> QED
    BY <1>4, <2>1
<1>7. Young(r, W) = SumFunctionOnSet(r, 0..W) /\ Young(r, a) = SumFunctionOnSet(r, 0..a)
  BY DEF Young
<1>8. W \in Ages
  BY <1>1 DEF Ages, W
<1>9. Young(r, a) \in Nat /\ Young(r, a) <= Young(r, W)
  BY <1>5, <1>6, <1>7
<1> QED
  BY <1>1, <1>8, <1>9 DEF W

\* A death is young at every age.
LEMMA YoungDeath ==
  ASSUME Bounds, NEW r \in Lists, NEW a \in Ages
  PROVE  LET s == [r EXCEPT ![0] = @ + 1] IN s \in Lists /\ Young(s, a) = Young(r, a) + 1
<1> DEFINE s == [r EXCEPT ![0] = @ + 1]
<1>1. 0 \in Ages /\ 0 \in 0..a /\ IsFiniteSet(0..a) /\ 0..a \subseteq Ages
  <2>1. a \in Nat /\ 0 \in Ages /\ 0..a \subseteq Ages
    BY Numbers DEF Ages
  <2> QED
    BY <2>1, FS_Interval
<1>2. s \in Lists /\ s[0] = r[0] + 1 /\ r[0] \in Nat /\ \A i \in Ages \ {0} : s[i] = r[i]
  BY <1>1 DEF Lists
<1>3. \A i \in 0..a : r[i] \in Int /\ s[i] \in Int
  BY <1>1, <1>2 DEF Lists
<1>4. \A i \in (0..a) \ {0} : s[i] = r[i]
  BY <1>1, <1>2
<1> HIDE DEF s
<1>5. SumFunctionOnSet(s, 0..a) = (SumFunctionOnSet(r, 0..a) - r[0]) + s[0]
  <2> DEFINE I == 0..a
  <2>1. IsFiniteSet(I) /\ 0 \in I /\ (\A i \in I : r[i] \in Int /\ s[i] \in Int) /\ \A i \in I \ {0} : s[i] = r[i]
    BY <1>1, <1>3, <1>4
  <2>2. SumFunctionOnSet(s, I) = (SumFunctionOnSet(r, I) - r[0]) + s[0]
    <3> HIDE DEF I
    <3> QED
      BY <2>1, SumChange
  <2> QED
    BY <2>2
<1>6. Young(r, a) \in Nat
  BY YoungType
<1>7. s \in Lists /\ Young(s, a) = Young(r, a) + 1
  BY <1>2, <1>5, <1>6 DEF Young
<1> QED
  BY <1>7 DEF s

\* A tick makes every death one older.
LEMMA YoungTick ==
  ASSUME Bounds, NEW r \in Lists, NEW s \in Lists, NEW a \in Ages, s[0] = 0,
         \A i \in Ages : i # 0 => s[i] = r[i - 1]
  PROVE  /\ a = 0 => Young(s, a) = 0
         /\ a # 0 => a - 1 \in Ages /\ Young(s, a) = Young(r, a - 1)
<1>1. a \in Nat /\ 0..a \subseteq Ages
  BY Numbers DEF Ages
<1>2. \A i \in 0..a : s[i] \in Int /\ r[i] \in Int
  BY <1>1 DEF Lists
<1>3. SumFunctionOnSet(s, 0..a) = s[0] + SumFunctionOnSet(s, (0 + 1)..a)
  BY <1>1, <1>2, SumFirst
<1>4. CASE a = 0
  <2>1. SumFunctionOnSet(s, 1..0) = 0
    <3>1. 1 \in Int /\ 1 - 1 = 0
      OBVIOUS
    <3> QED
      BY <3>1, SumNone
  <2>2. 0 + 1 = 1
    OBVIOUS
  <2> QED
    BY <1>3, <1>4, <2>1, <2>2 DEF Young
<1>5. CASE a # 0
  <2> DEFINE b == a - 1
  <2>1. b \in Nat /\ b \in Ages /\ b + 1 = a
    BY <1>1, <1>5, Numbers DEF Ages
  <2>2. ASSUME NEW i \in 0..b PROVE r[i] \in Int /\ s[i + 1] = r[i]
    <3>1. i \in 0..a /\ i + 1 \in Ages /\ i + 1 # 0 /\ (i + 1) - 1 = i
      BY <1>1, <2>1
    <3> QED
      BY <1>2, <3>1
  <2>3. SumFunctionOnSet(s, (0 + 1)..(b + 1)) = SumFunctionOnSet(r, 0..b)
    <3> HIDE DEF b
    <3> QED
      BY <2>1, <2>2, SumShift
  <2>4. SumFunctionOnSet(r, 0..b) \in Nat
    <3>1. Young(r, b) \in Nat
      <4> HIDE DEF b
      <4> QED
        BY <2>1, YoungType
    <3> QED
      BY <3>1 DEF Young
  <2>5. Young(s, a) = Young(r, b)
    <3> HIDE DEF b
    <3> QED
      BY <1>3, <2>1, <2>3, <2>4 DEF Young
  <2> QED
    BY <1>5, <2>1, <2>5
<1> QED
  BY <1>4, <1>5

----------------------------------------------------------------------------
(* Every answered death has been waited for.                               *)

\* Of the deaths that are a ticks old at most, take away as many as there
\* are replacements still waiting outside k: the rest have waited what the
\* curve says, but for what those of k still wait, and no more than one
\* worker's place in the fleet waits at a time.
Answered(r, b, k, a) == Young(r, a) - (Total(b) - Total(k))
Earned(r, b) ==
  \A k \in Bags, a \in Ages :
     Part(k, b) /\ Answered(r, b, k, a) >= 0 =>
       Waited[Answered(r, b, k, a)] <= Weight(k) + Cardinality(Workers) * a

\* Products with the size of the fleet.
LEMMA Places ==
  ASSUME Bounds, NEW a \in Nat
  PROVE  /\ Cardinality(Workers) * a \in Nat
         /\ a # 0 => Cardinality(Workers) * a = Cardinality(Workers) * (a - 1) + Cardinality(Workers)
<1> DEFINE N == Cardinality(Workers)
<1>1. N \in Nat
  BY Numbers
<1> HIDE DEF N
<1>2. N * a \in Nat /\ (a # 0 => N * a = N * (a - 1) + N)
  BY <1>1
<1> QED
  BY <1>2 DEF N

\* No more answered deaths than deaths.
LEMMA AnsweredType ==
  ASSUME Bounds, NEW r \in Lists, NEW b \in Bags, NEW k \in Bags, Part(k, b), NEW a \in Ages
  PROVE  Answered(r, b, k, a) \in Int /\ Answered(r, b, k, a) <= Young(r, a)
<1>1. Total(k) \in Nat /\ Total(b) \in Nat /\ Total(k) <= Total(b)
  BY BagType, PartTotal
<1>2. Young(r, a) \in Nat
  BY YoungType
<1> QED
  BY <1>1, <1>2 DEF Answered

\* A death whose replacement is forked at once: it is the first in its window.
LEMMA EarnedFirst ==
  ASSUME Bounds, NEW r \in Lists, NEW b \in Bags, Young(r, CRASH_WINDOW - 1) = 0
  PROVE  Earned([r EXCEPT ![0] = @ + 1], b)
<1> DEFINE s == [r EXCEPT ![0] = @ + 1]
<1> SUFFICES ASSUME NEW k \in Bags, NEW a \in Ages, Part(k, b), Answered(s, b, k, a) >= 0
             PROVE  Waited[Answered(s, b, k, a)] <= Weight(k) + Cardinality(Workers) * a
  BY DEF Earned
<1>1. s \in Lists /\ Young(s, a) = Young(r, a) + 1
  BY YoungDeath
<1>2. Young(r, a) = 0 /\ a \in Nat
  BY YoungType
<1> HIDE DEF s
<1>3. Answered(s, b, k, a) \in {0, 1}
  BY <1>1, <1>2, AnsweredType
<1>4. Waited[0] = 0 /\ Waited[1] = 0
  <2>1. 0 + 1 = 1 /\ 0 \in Nat /\ 1 \in Nat
    OBVIOUS
  <2>2. Waited[0] = 0 /\ Waited[1] = Waited[0] + Curve[1]
    BY <2>1, WaitedIs
  <2>3. Curve[1] = 0
    BY <2>1, CurveIs
  <2> QED
    BY <2>2, <2>3
<1>5. Weight(k) \in Nat /\ Cardinality(Workers) * a \in Nat
  BY <1>2, BagType, Places
<1> QED
  BY <1>3, <1>4, <1>5

\* A death whose replacement waits.
LEMMA EarnedDeath ==
  ASSUME Bounds, NEW r \in Lists, NEW b \in Bags, Earned(r, b), NEW e \in Delays,
         e = Curve[Young(r, CRASH_WINDOW - 1) + 1]
  PROVE  Earned([r EXCEPT ![0] = @ + 1], [b EXCEPT ![e] = @ + 1])
<1> DEFINE s == [r EXCEPT ![0] = @ + 1]
           c == [b EXCEPT ![e] = @ + 1]
<1> SUFFICES ASSUME NEW l \in Bags, NEW a \in Ages, Part(l, c), Answered(s, c, l, a) >= 0
             PROVE  Waited[Answered(s, c, l, a)] <= Weight(l) + Cardinality(Workers) * a
  BY DEF Earned
<1>1. s \in Lists /\ Young(s, a) = Young(r, a) + 1
  BY YoungDeath
<1>2. Young(r, a) \in Nat /\ Young(r, a) <= Young(r, CRASH_WINDOW - 1) /\ a \in Nat
      /\ Young(r, CRASH_WINDOW - 1) \in Nat
  BY YoungType
<1>3. c \in Bags /\ Total(c) = Total(b) + 1 /\ c[e] = b[e] + 1 /\ \A d \in Delays \ {e} : c[d] = b[d]
  BY BagMore
<1> HIDE DEF s, c
<1>4. Total(b) \in Nat /\ Total(l) \in Nat /\ Weight(l) \in Nat /\ e \in Nat /\ Cardinality(Workers) * a \in Nat
  BY <1>2, BagType, Places
<1>5. b[e] \in Nat /\ l[e] \in Nat /\ l[e] <= c[e]
  BY DEF Bags, Part
<1>6. CASE l[e] = 0
  <2>1. Part(l, b)
    BY <1>3, <1>5, <1>6 DEF Part
  <2>2. Answered(s, c, l, a) = Answered(r, b, l, a)
    BY <1>1, <1>2, <1>3, <1>4 DEF Answered
  <2> QED
    BY <2>1, <2>2 DEF Earned
<1>7. CASE l[e] # 0
  <2> DEFINE k == [l EXCEPT ![e] = @ - 1]
  <2>1. l[e] > 0
    BY <1>5, <1>7
  <2>2. /\ k \in Bags /\ k[e] = l[e] - 1 /\ \A d \in Delays \ {e} : k[d] = l[d]
        /\ Total(k) = Total(l) - 1 /\ Weight(k) = Weight(l) - e
    BY <2>1, BagFewer
  <2> HIDE DEF k
  <2>3. Part(k, b)
    BY <1>3, <1>5, <2>2 DEF Part
  <2>4. Weight(l) = Weight(k) + e /\ Weight(k) \in Nat /\ Total(k) \in Nat
    BY <1>4, <2>2, BagType
  <2>5. Answered(s, c, l, a) = Answered(r, b, k, a) + 1
    BY <1>1, <1>2, <1>3, <1>4, <2>2, <2>4 DEF Answered
  <2>6. Answered(r, b, k, a) \in Int /\ Answered(r, b, k, a) <= Young(r, a)
    BY <2>2, <2>3, AnsweredType
  <2> DEFINE n == Answered(r, b, k, a)
  <2>7. CASE n < 0
    <3>1. Answered(s, c, l, a) = 0
      BY <2>5, <2>6, <2>7
    <3>2. Waited[0] = 0
      BY WaitedIs
    <3> QED
      BY <1>4, <3>1, <3>2
  <2>8. CASE n >= 0
    <3>1. n \in Nat /\ Waited[n] <= Weight(k) + Cardinality(Workers) * a
      BY <2>2, <2>3, <2>6, <2>8 DEF Earned
    <3>2. n + 1 <= Young(r, CRASH_WINDOW - 1) + 1
      BY <1>2, <2>6
    <3> HIDE DEF n
    <3>3. Waited[n + 1] = Waited[n] + Curve[n + 1] /\ Waited[n] \in Nat
      BY <3>1, WaitedIs
    <3>4. Curve[n + 1] <= e /\ Curve[n + 1] \in Nat
      <4>1. n + 1 \in Nat /\ Young(r, CRASH_WINDOW - 1) + 1 \in Nat
        BY <1>2, <3>1
      <4> QED
        BY <3>2, <4>1, CurveGrows, CurveIs
    <3>5. Waited[n + 1] <= Weight(l) + Cardinality(Workers) * a
      BY <1>4, <2>4, <3>1, <3>3, <3>4
    <3> QED
      BY <2>5, <3>5 DEF n
  <2> QED
    BY <2>6, <2>7, <2>8
<1> QED
  BY <1>6, <1>7

\* A timer fires.
LEMMA EarnedFork ==
  ASSUME Bounds, NEW r \in Lists, NEW b \in Bags, Earned(r, b), b[0] > 0
  PROVE  Earned(r, [b EXCEPT ![0] = @ - 1])
<1> DEFINE c == [b EXCEPT ![0] = @ - 1]
<1> SUFFICES ASSUME NEW l \in Bags, NEW a \in Ages, Part(l, c), Answered(r, c, l, a) >= 0
             PROVE  Waited[Answered(r, c, l, a)] <= Weight(l) + Cardinality(Workers) * a
  BY DEF Earned
<1>1. 0 \in Delays
  BY Numbers DEF Delays
<1>2. b[0] \in Nat /\ l[0] \in Nat
  BY <1>1 DEF Bags
<1>3. \A e \in Delays : b[e] > 0 =>
        LET x == [b EXCEPT ![e] = @ - 1] IN
        x \in Bags /\ Total(x) = Total(b) - 1 /\ x[e] = b[e] - 1 /\ \A d \in Delays \ {e} : x[d] = b[d]
  BY BagFewer
<1>4. c \in Bags /\ Total(c) = Total(b) - 1 /\ c[0] = b[0] - 1 /\ \A d \in Delays \ {0} : c[d] = b[d]
  BY <1>1, <1>3
<1> DEFINE k == [l EXCEPT ![0] = @ + 1]
<1>5. /\ k \in Bags /\ k[0] = l[0] + 1 /\ \A d \in Delays \ {0} : k[d] = l[d]
      /\ Total(k) = Total(l) + 1 /\ Weight(k) = Weight(l) + 0
  BY <1>1, BagMore
<1> HIDE DEF c, k
<1>6. Part(k, b)
  BY <1>1, <1>2, <1>4, <1>5 DEF Part
<1>7. Total(b) \in Nat /\ Total(l) \in Nat /\ Weight(l) \in Nat /\ Young(r, a) \in Nat
  BY BagType, YoungType
<1>8. Answered(r, c, l, a) = Answered(r, b, k, a) /\ Weight(k) = Weight(l)
  BY <1>4, <1>5, <1>7 DEF Answered
<1> QED
  BY <1>5, <1>6, <1>8 DEF Earned

\* A tick passes.
LEMMA EarnedTick ==
  ASSUME Bounds, NEW r \in Lists, NEW b \in Bags, Earned(r, b), b[0] = 0, Total(b) <= Cardinality(Workers),
         NEW s \in Lists, s[0] = 0, \A i \in Ages : i # 0 => s[i] = r[i - 1],
         NEW c \in Bags, c[FORK_BACKOFF_MAX] = 0, \A d \in Delays : d < FORK_BACKOFF_MAX => c[d] = b[d + 1]
  PROVE  Earned(s, c) /\ Total(c) = Total(b)
<1>0. Total(c) = Total(b)
  BY BagShift
<1> SUFFICES ASSUME NEW l \in Bags, NEW a \in Ages, Part(l, c), Answered(s, c, l, a) >= 0
             PROVE  Waited[Answered(s, c, l, a)] <= Weight(l) + Cardinality(Workers) * a
  BY <1>0 DEF Earned
<1> DEFINE M == FORK_BACKOFF_MAX
           k == [d \in Delays |-> IF d = 0 THEN 0 ELSE l[d - 1]]
<1>1. M \in Nat /\ M > 0 /\ Delays = 0..M /\ M \in Delays /\ 0 \in Delays
  BY Numbers DEF Delays
<1>2. k \in Bags /\ k[0] = 0
  BY <1>1 DEF Bags
<1>3. l[M] = 0
  BY <1>1 DEF Part, Bags
<1>4. \A d \in Delays : d < M => d + 1 \in Delays /\ d + 1 # 0 /\ (d + 1) - 1 = d /\ l[d] = k[d + 1]
  BY <1>1
<1>5. Part(k, b)
  <2> SUFFICES ASSUME NEW d \in Delays PROVE k[d] <= b[d]
    BY DEF Part
  <2>1. CASE d = 0
    BY <1>2, <2>1
  <2>2. CASE d # 0
    <3>1. d - 1 \in Delays /\ d - 1 < M /\ (d - 1) + 1 = d
      BY <1>1, <2>2
    <3>2. k[d] = l[d - 1] /\ l[d - 1] <= c[d - 1] /\ c[d - 1] = b[d]
      BY <2>2, <3>1 DEF Part
    <3> QED
      BY <3>2
  <2> QED
    BY <2>1, <2>2
<1> HIDE DEF k
<1>6. Total(l) = Total(k) /\ Weight(k) = Weight(l) + Total(l)
  BY <1>2, <1>3, <1>4, BagShift
<1>7. /\ Total(b) \in Nat /\ Total(l) \in Nat /\ Weight(l) \in Nat
      /\ Total(l) <= Cardinality(Workers) /\ Cardinality(Workers) \in Nat
  <2>1. Total(l) <= Total(c) /\ Total(l) \in Nat /\ Total(b) \in Nat /\ Weight(l) \in Nat
    BY PartTotal, BagType
  <2> QED
    BY <1>0, <2>1, Numbers
<1>8. a \in Nat /\ Young(s, a) \in Nat
  BY YoungType
<1>9. CASE a = 0
  <2>1. Young(s, a) = 0
    BY <1>9, YoungTick
  <2>2. Answered(s, c, l, a) \in Int /\ Answered(s, c, l, a) <= 0
    BY <2>1, AnsweredType
  <2>3. Waited[0] = 0 /\ Answered(s, c, l, a) = 0
    BY <2>2, WaitedIs
  <2>4. Cardinality(Workers) * a \in Nat
    BY <1>8, Places
  <2> QED
    BY <1>7, <2>3, <2>4
<1>10. CASE a # 0
  <2>1. a - 1 \in Ages /\ Young(s, a) = Young(r, a - 1) /\ a - 1 \in Nat
    BY <1>8, <1>10, YoungTick
  <2>2. Answered(s, c, l, a) = Answered(r, b, k, a - 1)
    BY <1>0, <1>6, <2>1 DEF Answered
  <2>3. Waited[Answered(s, c, l, a)] <= Weight(k) + Cardinality(Workers) * (a - 1)
    BY <1>2, <1>5, <2>1, <2>2 DEF Earned
  <2>4. /\ Cardinality(Workers) * a = Cardinality(Workers) * (a - 1) + Cardinality(Workers)
        /\ Cardinality(Workers) * (a - 1) \in Nat
    BY <1>8, <1>10, <2>1, Places
  <2>5. Waited[Answered(s, c, l, a)] \in Nat
    <3>1. Answered(s, c, l, a) \in Nat
      BY AnsweredType
    <3> QED
      BY <3>1, WaitedIs
  <2> QED
    BY <1>6, <1>7, <2>3, <2>4, <2>5
<1> QED
  BY <1>9, <1>10

\* What is left when nothing waits any more.
LEMMA EarnedSpaced ==
  ASSUME Bounds, NEW r \in Lists, NEW b \in Bags, Earned(r, b), Total(b) <= Cardinality(Workers),
         Young(r, CRASH_WINDOW - 1) - Cardinality(Workers) > 0
  PROVE  Waited[Young(r, CRASH_WINDOW - 1) - Cardinality(Workers)] <= Cardinality(Workers) * (CRASH_WINDOW - 1)
<1> DEFINE k == [d \in Delays |-> 0]
           a == CRASH_WINDOW - 1
           f == [d \in Delays |-> d * k[d]]
<1>1. k \in Bags /\ Part(k, b)
  BY DEF Bags, Part
<1>2. a \in Ages /\ Young(r, a) \in Nat /\ Total(b) \in Nat /\ Cardinality(Workers) \in Nat
  <2>1. 0 \in Ages
    BY Numbers DEF Ages
  <2>2. a \in Ages
    BY <2>1, YoungType
  <2> HIDE DEF a
  <2> QED
    BY <2>2, YoungType, BagType, Numbers
<1>3. Total(k) = 0 /\ Weight(k) = 0
  <2>1. \A d \in Delays : k[d] = 0 /\ f[d] = 0
    <3>1. \A d \in Delays : d \in Nat
      BY Numbers DEF Delays
    <3> QED
      BY <3>1
  <2>2. IsFiniteSet(Delays)
    BY <1>1, BagType
  <2>3. SumFunctionOnSet(k, Delays) = 0 /\ SumFunctionOnSet(f, Delays) = 0
    <3> HIDE DEF k, f
    <3> QED
      BY <2>1, <2>2, SumZero
  <2> QED
    BY <2>3 DEF Total, Weight
<1> HIDE DEF k, a
<1> DEFINE n == Young(r, a) - Total(b)
           m == Young(r, a) - Cardinality(Workers)
<1>4. Answered(r, b, k, a) = n
  BY <1>2, <1>3 DEF Answered
<1>5. m \in Nat /\ n \in Nat /\ m <= n
  BY <1>2 DEF a
<1>6. Waited[n] <= 0 + Cardinality(Workers) * a
  BY <1>1, <1>2, <1>3, <1>4, <1>5 DEF Earned
<1>7. Waited[m] <= Waited[n] /\ Waited[m] \in Nat /\ Waited[n] \in Nat
  <2> HIDE DEF m, n
  <2> QED
    BY <1>5, WaitedGrows, WaitedIs
<1>8. a \in Nat /\ Cardinality(Workers) * a \in Nat
  <2>1. a \in Nat
    BY <1>2, Numbers DEF Ages
  <2> QED
    BY <2>1, Places
<1>9. Waited[m] <= Cardinality(Workers) * a
  <2> HIDE DEF m, n
  <2> QED
    BY <1>6, <1>7, <1>8
<1> QED
  BY <1>9 DEF a
----------------------------------------------------------------------------
(* The fleet.                                                              *)

Spaced == primary # "gone" => Total(due) <= Cardinality(Workers) /\ Earned(recent, due)

FleetInv == TypeOK /\ FleetSize /\ NoSpin /\ Spaced

\* The sums of the state, by the lemmas' names.
LEMMA SumsAre ==
  ASSUME Bounds, TypeOK
  PROVE  /\ recent \in Lists /\ due \in Bags
         /\ Pending = Total(due) /\ inWindow = Young(recent, CRASH_WINDOW - 1)
         /\ Total(due) \in Nat /\ inWindow \in Nat
         /\ IsFiniteSet(Alive) /\ Cardinality(Alive) \in Nat
<1>1. recent \in Lists /\ due \in Bags
  BY DEF TypeOK, Lists, Bags, Ages, Delays
<1>2. DOMAIN due = Delays /\ DOMAIN recent = 0..(CRASH_WINDOW - 1)
  BY DEF TypeOK, Delays
<1>3. Pending = Total(due) /\ inWindow = Young(recent, CRASH_WINDOW - 1)
  BY <1>2 DEF Pending, Total, inWindow, Young
<1>4. Total(due) \in Nat
  BY <1>1, BagType
<1>5. Young(recent, CRASH_WINDOW - 1) \in Nat
  <2>1. 0 \in Ages
    BY Numbers DEF Ages
  <2>2. CRASH_WINDOW - 1 \in Ages
    BY <1>1, <2>1, YoungType
  <2> QED
    BY <1>1, <2>2, YoungType
<1>6. IsFiniteSet(Alive) /\ Cardinality(Alive) \in Nat
  <2>1. Alive \subseteq Workers
    BY DEF Alive
  <2> QED
    BY <2>1, Numbers, FS_Subset, FS_CardinalityType
<1> QED
  BY <1>1, <1>3, <1>4, <1>5, <1>6

\* Deaths that have been waited for are no spin.
LEMMA SpacedNoSpin ==
  ASSUME Bounds, TypeOK, Spaced, primary # "gone"
  PROVE  NoSpin
<1>1. recent \in Lists /\ due \in Bags /\ inWindow = Young(recent, CRASH_WINDOW - 1)
  BY SumsAre
<1>2. Total(due) <= Cardinality(Workers) /\ Earned(recent, due)
  BY DEF Spaced
<1> QED
  BY <1>1, <1>2, EarnedSpaced DEF NoSpin

\* The first forks.
LEMMA FleetInit ==
  ASSUME Bounds, Init
  PROVE  FleetInv
<1>1. TypeOK
  <2>1. recent \in [0..(CRASH_WINDOW - 1) -> Nat] /\ due \in [0..FORK_BACKOFF_MAX -> Nat]
    BY DEF Init
  <2> QED
    BY <2>1, Numbers DEF Init, TypeOK
<1>2. recent \in Lists /\ due \in Bags /\ Pending = Total(due) /\ IsFiniteSet(Delays)
  BY <1>1, SumsAre, BagType
<1>3. Total(due) = 0
  <2>1. \A d \in Delays : due[d] = 0
    BY DEF Init, Delays
  <2> QED
    BY <1>2, <2>1, SumZero DEF Total
<1>4. FleetSize
  <2>1. Alive = Workers
    BY DEF Alive, Init
  <2> QED
    BY <1>2, <1>3, <2>1, Numbers DEF FleetSize
<1>5. Spaced
  <2>1. ASSUME NEW k \in Bags, NEW a \in Ages, Part(k, due), Answered(recent, due, k, a) >= 0
        PROVE  Waited[Answered(recent, due, k, a)] <= Weight(k) + Cardinality(Workers) * a
    <3>1. Young(recent, a) = 0
      <4>1. a \in Nat /\ 0..a \subseteq Ages
        BY Numbers DEF Ages
      <4>2. \A i \in 0..a : recent[i] = 0
        BY <4>1 DEF Init, Ages
      <4>3. IsFiniteSet(0..a)
        BY <4>1, FS_Interval
      <4> QED
        BY <4>2, <4>3, SumZero DEF Young
    <3>2. Answered(recent, due, k, a) \in Int /\ Answered(recent, due, k, a) <= 0
      BY <1>2, <2>1, <3>1, AnsweredType
    <3>3. Waited[Answered(recent, due, k, a)] = 0
      BY <2>1, <3>2, WaitedIs
    <3>4. Weight(k) \in Nat /\ Cardinality(Workers) * a \in Nat
      BY <1>2, BagType, YoungType, Places
    <3> QED
      BY <3>3, <3>4
  <2>2. Earned(recent, due)
    BY <2>1 DEF Earned
  <2> QED
    BY <1>3, <2>2, Numbers DEF Spaced
<1>6. NoSpin
  BY <1>1, <1>5, SpacedNoSpin DEF Init
<1> QED
  BY <1>1, <1>4, <1>5, <1>6 DEF FleetInv

\* The same of the next state.
LEMMA SpacedStep ==
  ASSUME Bounds, TypeOK', Spaced', primary' # "gone"
  PROVE  NoSpin'
<1>1. recent' \in Lists /\ due' \in Bags
  BY DEF TypeOK, Lists, Bags, Ages, Delays
<1>2. inWindow' = Young(recent', CRASH_WINDOW - 1)
  BY <1>1 DEF inWindow, Young, Lists, Ages
<1>3. Total(due') <= Cardinality(Workers) /\ Earned(recent', due')
  BY DEF Spaced
<1> QED
  BY <1>1, <1>2, <1>3, EarnedSpaced DEF NoSpin

\* Any end of a worker, with what the primary makes of it.
LEMMA ExitKeeps ==
  ASSUME Bounds, FleetInv, NEW w \in Workers, stage[w] # "none", exited(w), UNCHANGED <<weather, primary, since>>
  PROVE  FleetInv'
<1> DEFINE delay == forkDelay(inWindow + 1)
<1>1. TypeOK
  BY DEF FleetInv
<1>2. /\ recent \in Lists /\ due \in Bags /\ Pending = Total(due) /\ inWindow = Young(recent, CRASH_WINDOW - 1)
      /\ Total(due) \in Nat /\ inWindow \in Nat /\ IsFiniteSet(Alive) /\ Cardinality(Alive) \in Nat
  BY <1>1, SumsAre
<1>3. delay = Curve[inWindow + 1] /\ delay \in Delays /\ (delay = 0 => inWindow = 0)
  <2>1. inWindow + 1 \in Nat
    BY <1>2
  <2>2. delay = Curve[inWindow + 1] /\ delay \in Delays /\ (delay = 0 => inWindow + 1 <= 1)
    BY <2>1, DelayIsCurve DEF Delays
  <2> QED
    BY <1>2, <2>2
<1> HIDE DEF delay
<1>4. first' \in Workers \cup {Nobody} /\ jobs' \subseteq Workers /\ spent' \in [Workers -> 0..SHUTDOWN_DEADLINE]
  BY <1>1, Numbers DEF exited, TypeOK
<1>5. CASE primary # "up"
  <2>1. stage' \in [Workers -> {"none", "boot", "serve", "drain"}] /\ UNCHANGED <<recent, due>>
    BY <1>1, <1>5 DEF exited, TypeOK
  <2>2. TypeOK'
    BY <1>1, <1>4, <2>1 DEF TypeOK
  <2>3. FleetSize'
    BY <1>5 DEF FleetSize
  <2>4. NoSpin' /\ Spaced'
    BY <2>1 DEF FleetInv, NoSpin, Spaced, inWindow
  <2> QED
    BY <2>2, <2>3, <2>4 DEF FleetInv
<1>6. CASE primary = "up"
  <2>1. /\ recent' = [recent EXCEPT ![0] = @ + 1]
        /\ stage' = [stage EXCEPT ![w] = IF delay = 0 THEN "boot" ELSE "none"]
        /\ due' = IF delay = 0 THEN due ELSE [due EXCEPT ![delay] = @ + 1]
    BY <1>6 DEF exited, record, waiting, delay
  <2>2. /\ [due EXCEPT ![delay] = @ + 1] \in Bags
        /\ Total([due EXCEPT ![delay] = @ + 1]) = Total(due) + 1
    BY <1>2, <1>3, BagMore
  <2>3. recent' \in Lists
    <3>1. 0 \in Ages
      BY Numbers DEF Ages
    <3>2. [recent EXCEPT ![0] = @ + 1] \in Lists
      BY <1>2, <3>1, YoungDeath
    <3> QED
      BY <2>1, <3>2
  <2>4. due' \in Bags
    BY <1>2, <2>1, <2>2
  <2>5. stage' \in [Workers -> {"none", "boot", "serve", "drain"}]
    BY <1>1, <2>1 DEF TypeOK
  <2>6. TypeOK'
    BY <1>1, <1>4, <2>3, <2>4, <2>5 DEF TypeOK, Lists, Bags, Ages, Delays
  <2>7. Pending' = Total(due')
    <3>1. DOMAIN due' = Delays
      BY <2>4 DEF Bags
    <3> QED
      BY <3>1 DEF Pending, Total
  <2>8. Cardinality(Alive) + Total(due) = Cardinality(Workers) /\ Earned(recent, due)
    BY <1>2, <1>6 DEF FleetInv, FleetSize, Spaced
  <2>9. w \in Alive /\ Cardinality(Alive) > 0
    <3>1. w \in Alive
      BY DEF Alive
    <3>2. Alive # {}
      BY <3>1
    <3> QED
      BY <1>2, <3>1, <3>2, FS_EmptySet
  <2>10. CASE delay = 0
    <3>1. Alive' = Alive /\ due' = due
      BY <1>1, <2>1, <2>9, <2>10 DEF Alive, TypeOK
    <3>2. FleetSize'
      BY <1>2, <2>7, <2>8, <3>1 DEF FleetSize
    <3>3. Earned(recent', due')
      BY <1>2, <1>3, <2>1, <2>10, EarnedFirst
    <3>4. Spaced'
      BY <1>2, <2>8, <3>1, <3>3, Numbers DEF Spaced
    <3> QED
      BY <1>6, <2>6, <3>2, <3>4, SpacedStep DEF FleetInv
  <2>11. CASE delay # 0
    <3>1. Alive' = Alive \ {w} /\ due' = [due EXCEPT ![delay] = @ + 1]
      BY <1>1, <2>1, <2>11 DEF Alive, TypeOK
    <3>2. Cardinality(Alive') = Cardinality(Alive) - 1
      BY <1>2, <2>9, <3>1, FS_RemoveElement
    <3>3. FleetSize'
      BY <1>2, <2>2, <2>7, <2>8, <3>1, <3>2, Numbers DEF FleetSize
    <3>4. Earned(recent', due')
      <4>1. delay = Curve[Young(recent, CRASH_WINDOW - 1) + 1] /\ delay \in Delays
        BY <1>2, <1>3
      <4>2. Earned([recent EXCEPT ![0] = @ + 1], [due EXCEPT ![delay] = @ + 1])
        BY <1>2, <2>8, <4>1, EarnedDeath
      <4> QED
        BY <2>1, <3>1, <4>2
    <3>5. Spaced'
      BY <1>2, <2>2, <2>8, <2>9, <3>1, <3>4, Numbers DEF Spaced
    <3> QED
      BY <1>6, <2>6, <3>3, <3>5, SpacedStep DEF FleetInv
  <2> QED
    BY <2>10, <2>11
<1> QED
  BY <1>5, <1>6

\* Every action of the fleet.
LEMMA FleetStep ==
  ASSUME Bounds, FleetInv, [Next]_vars
  PROVE  FleetInv'
<1>1. TypeOK
  BY DEF FleetInv
<1>2. /\ recent \in Lists /\ due \in Bags /\ Pending = Total(due) /\ inWindow = Young(recent, CRASH_WINDOW - 1)
      /\ Total(due) \in Nat /\ inWindow \in Nat /\ IsFiniteSet(Alive) /\ Cardinality(Alive) \in Nat
  BY <1>1, SumsAre
<1>3. ASSUME NEW w \in Workers, Serve(w) PROVE FleetInv'
  <2>1. Alive' = Alive
    BY <1>1, <1>3 DEF Serve, Alive, TypeOK
  <2>2. TypeOK'
    BY <1>1, <1>3 DEF Serve, TypeOK
  <2>3. UNCHANGED <<recent, due, primary>>
    BY <1>3 DEF Serve
  <2>4. FleetSize' /\ NoSpin' /\ Spaced'
    BY <2>1, <2>3 DEF FleetInv, FleetSize, NoSpin, Spaced, Pending, inWindow
  <2> QED
    BY <2>2, <2>4 DEF FleetInv
<1>4. ASSUME NEW w \in Workers, BootFails(w) PROVE FleetInv'
  BY <1>4, ExitKeeps DEF BootFails
<1>5. ASSUME NEW w \in Workers, Fatal(w) PROVE FleetInv'
  <2>1. CASE stage[w] = "drain" /\ exited(w)
    BY <1>5, <2>1, ExitKeeps DEF Fatal
  <2>2. CASE stage[w] = "serve" /\ stage' = [stage EXCEPT ![w] = "drain"] /\ UNCHANGED <<spent, first, jobs, recent, due>>
    <3>1. Alive' = Alive
      BY <1>1, <2>2 DEF Alive, TypeOK
    <3>2. TypeOK' /\ UNCHANGED primary
      BY <1>1, <1>5, <2>2 DEF Fatal, TypeOK
    <3>3. FleetSize' /\ NoSpin' /\ Spaced'
      BY <2>2, <3>1, <3>2 DEF FleetInv, FleetSize, NoSpin, Spaced, Pending, inWindow
    <3> QED
      BY <3>2, <3>3 DEF FleetInv
  <2> QED
    BY <1>5, <2>1, <2>2 DEF Fatal
<1>6. ASSUME NEW w \in Workers, Killed(w) PROVE FleetInv'
  BY <1>6, ExitKeeps DEF Killed
<1>7. ASSUME NEW w \in Workers, Exits(w) PROVE FleetInv'
  <2>1. CASE Drained(w)
    BY <2>1, ExitKeeps DEF Drained
  <2>2. CASE Watchdog(w)
    BY <2>2, ExitKeeps DEF Watchdog
  <2> QED
    BY <1>7, <2>1, <2>2 DEF Exits
<1>8. CASE ForkTimer
  <2>1. 0 \in Delays /\ due[0] > 0 /\ due' = [due EXCEPT ![0] = @ - 1] /\ UNCHANGED <<recent, primary>>
    BY <1>8, Numbers DEF ForkTimer, Delays
  <2>2. due' \in Bags /\ Total(due') = Total(due) - 1
    <3>1. \A e \in Delays : due[e] > 0 =>
            [due EXCEPT ![e] = @ - 1] \in Bags /\ Total([due EXCEPT ![e] = @ - 1]) = Total(due) - 1
      BY <1>2, BagFewer
    <3> QED
      BY <2>1, <3>1
  <2>3. Pending' = Total(due')
    <3>1. DOMAIN due' = Delays
      BY <2>2 DEF Bags
    <3> QED
      BY <3>1 DEF Pending, Total
  <2>4. stage' \in [Workers -> {"none", "boot", "serve", "drain"}]
    BY <1>1, <1>8 DEF ForkTimer, TypeOK
  <2>5. TypeOK'
    BY <1>1, <1>8, <2>2, <2>4 DEF ForkTimer, TypeOK, Bags, Delays
  <2>6. FleetSize'
    <3> SUFFICES ASSUME primary = "up" PROVE Cardinality(Alive') + Pending' = Cardinality(Workers)
      BY <2>1 DEF FleetSize
    <3>1. PICK w \in Workers : stage[w] = "none" /\ stage' = [stage EXCEPT ![w] = "boot"]
      BY <1>8 DEF ForkTimer, stillForks
    <3>2. Alive' = Alive \cup {w} /\ w \notin Alive
      BY <1>1, <3>1 DEF Alive, TypeOK
    <3>3. Cardinality(Alive') = Cardinality(Alive) + 1
      BY <1>2, <3>2, FS_AddElement
    <3>4. Cardinality(Alive) + Total(due) = Cardinality(Workers)
      BY <1>2 DEF FleetInv, FleetSize
    <3> QED
      BY <1>2, <2>2, <2>3, <3>3, <3>4
  <2>7. Spaced'
    <3> SUFFICES ASSUME primary # "gone" PROVE Total(due') <= Cardinality(Workers) /\ Earned(recent', due')
      BY <2>1 DEF Spaced
    <3>1. Total(due) <= Cardinality(Workers) /\ Earned(recent, due)
      BY DEF FleetInv, Spaced
    <3>2. Earned(recent', due')
      BY <1>2, <2>1, <3>1, EarnedFork
    <3> QED
      BY <1>2, <2>2, <3>1, <3>2, Numbers
  <2>8. NoSpin'
    BY <2>1 DEF FleetInv, NoSpin, inWindow
  <2> QED
    BY <2>5, <2>6, <2>7, <2>8 DEF FleetInv
<1>9. CASE Stop
  <2>1. TypeOK' /\ UNCHANGED <<recent, due>> /\ primary # "gone" /\ primary' = "stopping"
    BY <1>1, <1>9, Numbers DEF Stop, TypeOK
  <2>2. FleetSize' /\ NoSpin' /\ Spaced'
    BY <2>1 DEF FleetInv, FleetSize, NoSpin, Spaced, inWindow
  <2> QED
    BY <2>1, <2>2 DEF FleetInv
<1>10. CASE PrimaryLeaves
  <2>1. TypeOK' /\ UNCHANGED recent /\ primary' = "gone"
    BY <1>1, <1>10, Numbers DEF PrimaryLeaves, TypeOK
  <2>2. FleetSize' /\ NoSpin' /\ Spaced'
    BY <2>1 DEF FleetInv, FleetSize, NoSpin, Spaced, inWindow
  <2> QED
    BY <2>1, <2>2 DEF FleetInv
<1>11. CASE Tick
  <2>1. /\ primary # "gone" /\ due[0] = 0 /\ UNCHANGED <<weather, primary, stage, first, jobs>>
        /\ recent' = [age \in Ages |-> IF age = 0 THEN 0 ELSE recent[age - 1]]
        /\ due' = [d \in Delays |-> IF d < FORK_BACKOFF_MAX THEN due[d + 1] ELSE 0]
    <3>1. DOMAIN due = Delays /\ DOMAIN recent = Ages
      BY <1>2 DEF Bags, Lists
    <3> QED
      BY <1>11, <3>1 DEF Tick
  <2>2. 0 \in Ages /\ FORK_BACKOFF_MAX \in Delays /\ 0 \in Delays
    BY Numbers DEF Ages, Delays
  <2>3. recent' \in Lists
    <3>1. ASSUME NEW i \in Ages PROVE (IF i = 0 THEN 0 ELSE recent[i - 1]) \in Nat
      <4>1. i # 0 => i - 1 \in Ages
        BY Numbers DEF Ages
      <4> QED
        BY <1>2, <4>1 DEF Lists
    <3> QED
      BY <2>1, <3>1 DEF Lists
  <2>4. due' \in Bags
    <3>1. ASSUME NEW d \in Delays PROVE (IF d < FORK_BACKOFF_MAX THEN due[d + 1] ELSE 0) \in Nat
      <4>1. d < FORK_BACKOFF_MAX => d + 1 \in Delays
        BY Numbers DEF Delays
      <4> QED
        BY <1>2, <4>1 DEF Bags
    <3> QED
      BY <2>1, <3>1 DEF Bags
  <2>5. since' \in 0..PRIMARY_EXIT_GRACE /\ spent' \in [Workers -> 0..SHUTDOWN_DEADLINE]
    <3>1. since' \in 0..PRIMARY_EXIT_GRACE
      BY <1>1, <1>11, Numbers DEF Tick, TypeOK
    <3>2. ASSUME NEW w \in Workers PROVE (IF stage[w] = "drain" THEN spent[w] + 1 ELSE 0) \in 0..SHUTDOWN_DEADLINE
      BY <1>1, <1>11, Numbers DEF Tick, TypeOK
    <3>3. spent' = [w \in Workers |-> IF stage[w] = "drain" THEN spent[w] + 1 ELSE 0]
      BY <1>11 DEF Tick
    <3> QED
      BY <3>1, <3>2, <3>3
  <2>6. TypeOK'
    BY <1>1, <2>1, <2>3, <2>4, <2>5 DEF TypeOK, Lists, Bags, Ages, Delays
  <2>7. Total(due) <= Cardinality(Workers) /\ Earned(recent, due)
    BY <2>1 DEF FleetInv, Spaced
  <2>8. Earned(recent', due') /\ Total(due') = Total(due)
    <3>1. recent'[0] = 0 /\ \A i \in Ages : i # 0 => recent'[i] = recent[i - 1]
      BY <2>1, <2>2
    <3>2. due'[FORK_BACKOFF_MAX] = 0 /\ \A d \in Delays : d < FORK_BACKOFF_MAX => due'[d] = due[d + 1]
      BY <2>1, <2>2, Numbers
    <3> QED
      BY <1>2, <2>1, <2>3, <2>4, <2>7, <3>1, <3>2, EarnedTick
  <2>9. Spaced'
    BY <2>7, <2>8 DEF Spaced
  <2>10. FleetSize'
    <3>1. DOMAIN due' = Delays
      BY <2>4 DEF Bags
    <3>2. Pending' = Total(due')
      BY <3>1 DEF Pending, Total
    <3>3. Alive' = Alive
      BY <2>1 DEF Alive
    <3> QED
      BY <1>2, <2>1, <2>8, <3>2, <3>3 DEF FleetInv, FleetSize
  <2> QED
    BY <2>1, <2>6, <2>9, <2>10, SpacedStep DEF FleetInv
<1>12. CASE Weather
  <2>1. TypeOK' /\ UNCHANGED <<primary, stage, recent, due>>
    BY <1>1, <1>12 DEF Weather, TypeOK
  <2>2. FleetSize' /\ NoSpin' /\ Spaced'
    BY <2>1 DEF FleetInv, FleetSize, NoSpin, Spaced, Pending, inWindow, Alive
  <2> QED
    BY <2>1, <2>2 DEF FleetInv
<1>13. CASE UNCHANGED vars
  BY <1>13 DEF vars, FleetInv, TypeOK, FleetSize, NoSpin, Spaced, Pending, inWindow, Alive
<1> QED
  BY <1>3, <1>4, <1>5, <1>6, <1>7, <1>8, <1>9, <1>10, <1>11, <1>12, <1>13 DEF Next

\* Whatever dies in whatever order, a fleet that is up has exactly one worker
\* or one waiting timer for every worker asked for (FleetSize), and the
\* deaths inside one crash window are so few that the delays they earned fit
\* into it once per worker (NoSpin) -- server.ts's exit handler, its timer
\* and lib/cluster.ts's crash window and forkDelayMs, for every number of
\* workers, every base and ceiling of the back-off and every window.
THEOREM FleetHolds == Spec => [](TypeOK /\ FleetSize /\ NoSpin)
<1>1. Init => FleetInv
  BY FleetAssumption, FleetInit
<1>2. FleetInv /\ [Next]_vars => FleetInv'
  BY FleetAssumption, FleetStep
<1>3. FleetInv => TypeOK /\ FleetSize /\ NoSpin
  BY DEF FleetInv
<1> QED
  BY <1>1, <1>2, <1>3, PTL DEF Spec

----------------------------------------------------------------------------
(* What the processes remember of a configuration value.                   *)

\* The reads that hold a value.
Bearing == {"check", "fill", "store"}

\* A version is replaced once, after the ones before it.
Replaced ==
  /\ \A v \in Versions : v >= db => gone[v] = Never
  /\ \A u, v \in Versions : u <= v /\ v < db => 0 <= gone[v] /\ gone[v] <= gone[u]

\* How long ago the value in each place can have been replaced, g being the history.
ReadAged(x, g) ==
  /\ x.at \in {"check", "fill"} => g[x.v] <= x.age
  /\ x.at = "store" => g[x.v] <= MaxCall + (SharedTtl - 1) + x.age
WriteAged(x, g) == x.at # "idle" => g[x.v] <= x.age
SharedAged(s, g) == s.ttl > 0 => g[s.v] <= MaxCall + (SharedTtl - s.ttl)
EntryAged(e, g) == e.age < Window => g[e.v] <= MaxCall + (SharedTtl - 1) + e.age

Aged ==
  /\ \A r \in Reads : ReadAged(read[r], gone)
  /\ through => \A i \in Instances : WriteAged(write[i], gone)
  /\ SharedAged(shared, gone)
  /\ \A i \in Instances : EntryAged(entry[i], gone)

\* The newest version that has reached the shared copy.
Settled == IF \E i \in Instances : write[i].at = "shared" THEN db - 1 ELSE db

\* Changes one after the other.
OneChange ==
  \A i \in Instances : write[i].at # "idle" =>
    /\ write[i].v = db /\ db > 0
    /\ \A j \in Instances \ {i} : write[j].at = "idle"

\* The shared copy, where there is one, is no older than the settled version; and it does not
\* expire while a read that began before that version can still fill it.
Current ==
  /\ shared.ttl > 0 => shared.v >= Settled
  /\ Settled > 0 => SharedTtl - shared.ttl <= gone[Settled - 1]

\* What was written and returned has settled.
Known ==
  /\ \A v \in Versions : told[v] # Never => v < Settled
  /\ \A i \in Instances : wrote[i] <= Settled

\* A value that a change has replaced is held only by a read, or from one, that began before it returned.
ReadReached(x, t, w) ==
  x.at \in Bearing => t[x.v] <= x.age /\ (x.listed => \A i \in Instances : x.by = i => x.v >= w[i])
EntryReached(e, t, w) == e.age < Window => t[e.v] <= e.age /\ e.v >= w

Reached ==
  /\ \A r \in Reads : ReadReached(read[r], told, wrote)
  /\ \A i \in Instances : EntryReached(entry[i], told, wrote[i])

\* The inductive invariant.
MemoInv ==
  /\ MemoTypeOK /\ Replaced /\ Aged
  /\ through /\ clean => OneChange /\ Current /\ Known /\ Reached

----------------------------------------------------------------------------

\* The bounds as numbers.
LEMMA MemoNumbers ==
  /\ Ttl \in Nat /\ Ttl > 0 /\ SharedTtl \in Nat /\ SharedTtl > 0 /\ MaxCall \in Nat /\ MaxCall > 0
  /\ MaxStale \in Nat /\ MaxVersion \in Nat /\ MaxCall < SharedTtl /\ NoInstance \notin Instances
  /\ Window \in Nat /\ Window > 0 /\ Horizon \in Nat /\ Horizon = MaxCall + SharedTtl + Window
<1>1. /\ Ttl \in Nat /\ Ttl > 0 /\ SharedTtl \in Nat /\ SharedTtl > 0 /\ MaxCall \in Nat /\ MaxCall > 0
      /\ MaxStale \in Nat /\ MaxVersion \in Nat /\ MaxCall < SharedTtl /\ NoInstance \notin Instances
  BY MemoAssumption
<1>2. Window \in Nat /\ Window > 0
  BY <1>1 DEF Window
<1> QED
  BY <1>1, <1>2 DEF Horizon

\* The values that stand for nothing are of the types.
LEMMA Blanks ==
  /\ 0 \in Versions /\ Never \in Never..Horizon /\ 0 \in Never..Horizon
  /\ None \in [v : Versions, age : Nat] /\ None.age = Window
  /\ Idle \in [at : {"idle", "get", "db", "check", "fill", "store"}, by : Instances \cup {NoInstance},
               v : Versions, age : 0..MaxCall, listed : BOOLEAN]
  /\ Idle.at = "idle"
  /\ Resting \in [at : {"idle", "shared", "memo"}, v : Versions, age : 0..MaxCall] /\ Resting.at = "idle"
<1>1. 0 \in Versions /\ Never \in Never..Horizon /\ 0 \in Never..Horizon /\ 0 \in 0..MaxCall
  BY MemoNumbers DEF Versions, Never
<1> QED
  BY <1>1, MemoNumbers DEF None, Idle, Resting

\* Nothing is remembered at first.
LEMMA MemoInvInit == MemoInit => MemoInv
<1> SUFFICES ASSUME MemoInit PROVE MemoInv
  OBVIOUS
<1>1. MemoTypeOK
  <2>1. shared \in [v : Versions, ttl : 0..SharedTtl] /\ db \in Versions
    BY MemoNumbers, Blanks DEF MemoInit
  <2>2. entry \in [Instances -> [v : Versions, age : Nat]] /\ wrote \in [Instances -> Versions]
    BY Blanks DEF MemoInit
  <2> QED
    BY <2>1, <2>2, Blanks DEF MemoInit, MemoTypeOK
<1>2. Replaced
  BY DEF MemoInit, Replaced, Versions, Never
<1>3. Aged
  BY Blanks DEF MemoInit, Aged, ReadAged, WriteAged, SharedAged, EntryAged
<1>4. OneChange /\ Current /\ Known /\ Reached
  <2>1. Settled = 0
    BY Blanks DEF MemoInit, Settled
  <2> QED
    BY <2>1, Blanks DEF MemoInit, OneChange, Current, Known, Reached, ReadReached, EntryReached, Bearing
<1> QED
  BY <1>1, <1>2, <1>3, <1>4 DEF MemoInv

Call == [at : {"idle", "get", "db", "check", "fill", "store"}, by : Instances \cup {NoInstance},
         v : Versions, age : 0..MaxCall, listed : BOOLEAN]
Making == [at : {"idle", "shared", "memo"}, v : Versions, age : 0..MaxCall]

\* What a step of one read does to the reads.
LEMMA OneRead ==
  ASSUME MemoTypeOK, NEW r \in Reads, NEW x, read' = [read EXCEPT ![r] = x]
  PROVE  /\ read'[r] = x /\ \A q \in Reads \ {r} : read'[q] = read[q]
         /\ x \in Call => read' \in [Reads -> Call]
  BY DEF MemoTypeOK, Call

\* What a step of one change does to the changes.
LEMMA OneWrite ==
  ASSUME MemoTypeOK, NEW i \in Instances, NEW x, write' = [write EXCEPT ![i] = x]
  PROVE  /\ write'[i] = x /\ \A j \in Instances \ {i} : write'[j] = write[j]
         /\ x \in Making => write' \in [Instances -> Making]
  BY DEF MemoTypeOK, Making

\* What it does to the entries.
LEMMA OneEntry ==
  ASSUME MemoTypeOK, NEW i \in Instances, NEW x, entry' = [entry EXCEPT ![i] = x]
  PROVE  /\ entry'[i] = x /\ \A j \in Instances \ {i} : entry'[j] = entry[j]
         /\ x \in [v : Versions, age : Nat] => entry' \in [Instances -> [v : Versions, age : Nat]]
  BY DEF MemoTypeOK

\* The members of the types, field by field.
LEMMA Fields ==
  ASSUME MemoTypeOK
  PROVE  /\ \A r \in Reads : /\ read[r] \in Call /\ read[r].v \in Versions /\ read[r].age \in 0..MaxCall
                             /\ read[r].age \in Nat /\ read[r].listed \in BOOLEAN
         /\ \A i \in Instances : /\ write[i] \in Making /\ write[i].v \in Versions /\ write[i].age \in 0..MaxCall
                                 /\ write[i].age \in Nat
                                 /\ entry[i] \in [v : Versions, age : Nat] /\ entry[i].v \in Versions /\ entry[i].age \in Nat
         /\ shared.v \in Versions /\ shared.ttl \in 0..SharedTtl /\ shared.ttl \in Nat
         /\ db \in Versions /\ db \in Nat
         /\ \A v \in Versions : v \in Nat /\ gone[v] \in Int /\ told[v] \in Int
<1>1. \A r \in Reads : read[r] \in Call
  BY DEF MemoTypeOK, Call
<1>2. \A i \in Instances : write[i] \in Making /\ entry[i] \in [v : Versions, age : Nat]
  BY DEF MemoTypeOK, Making
<1>3. 0..MaxCall \subseteq Nat
  OBVIOUS
<1>4. \A r \in Reads : read[r].v \in Versions /\ read[r].age \in 0..MaxCall /\ read[r].listed \in BOOLEAN
  BY <1>1 DEF Call
<1>5. \A i \in Instances : /\ write[i].v \in Versions /\ write[i].age \in 0..MaxCall
                           /\ entry[i].v \in Versions /\ entry[i].age \in Nat
  BY <1>2 DEF Making
<1>6. shared.v \in Versions /\ shared.ttl \in 0..SharedTtl /\ shared.ttl \in Nat /\ db \in Versions
  BY DEF MemoTypeOK
<1>7. \A v \in Versions : v \in Nat /\ gone[v] \in Int /\ told[v] \in Int
  BY DEF MemoTypeOK, Versions
<1> QED
  BY <1>1, <1>2, <1>3, <1>4, <1>5, <1>6, <1>7
----------------------------------------------------------------------------
(* Reading.                                                                *)

\* A step of a read, with nothing else changed.
LEMMA ReadMoves ==
  ASSUME MemoInv, NEW r \in Reads, NEW x \in Call, read' = [read EXCEPT ![r] = x],
         UNCHANGED <<through, db, shared, entry, write, wrote, gone, told, clean>>,
         ReadAged(x, gone), through /\ clean => ReadReached(x, told, wrote)
  PROVE  MemoInv'
<1>1. read'[r] = x /\ (\A q \in Reads \ {r} : read'[q] = read[q]) /\ read' \in [Reads -> Call]
  BY OneRead DEF MemoInv
<1>2. MemoTypeOK'
  BY <1>1 DEF MemoInv, MemoTypeOK, Call
<1>3. Replaced'
  BY DEF MemoInv, Replaced
<1>4. \A q \in Reads : ReadAged(read'[q], gone)
  BY <1>1 DEF MemoInv, Aged
<1>5. Aged'
  BY <1>4 DEF MemoInv, Aged
<1>6. ASSUME through, clean PROVE OneChange' /\ Current' /\ Known' /\ Reached'
  <2>1. Settled' = Settled /\ OneChange'
    BY <1>6 DEF MemoInv, Settled, OneChange
  <2>2. \A q \in Reads : ReadReached(read'[q], told, wrote)
    BY <1>1, <1>6 DEF MemoInv, Reached
  <2> QED
    BY <1>6, <2>1, <2>2 DEF MemoInv, Current, Known, Reached
<1> QED
  BY <1>2, <1>3, <1>5, <1>6 DEF MemoInv

\* A new read, and one that has failed, hold no value.
LEMMA LoadKeeps == ASSUME MemoInv, NEW i \in Instances, NEW r \in Reads, load(i, r) PROVE MemoInv'
<1>1. PICK x : x = [at |-> "get", by |-> i, v |-> 0, age |-> 0, listed |-> TRUE]
  OBVIOUS
<1>2. x \in Call /\ x.at = "get"
  BY <1>1, Blanks, MemoNumbers DEF Call
<1>3. read' = [read EXCEPT ![r] = x] /\ UNCHANGED <<through, db, shared, entry, write, wrote, gone, told, clean>>
  BY <1>1 DEF load, history
<1>4. ReadAged(x, gone) /\ ReadReached(x, told, wrote)
  BY <1>2 DEF ReadAged, ReadReached, Bearing
<1> QED
  BY <1>2, <1>3, <1>4, ReadMoves

\* A read that has failed holds no value and leaves the entry alone.
LEMMA ReadFailsKeeps == ASSUME MemoInv, NEW r \in Reads, ReadFails(r) PROVE MemoInv'
<1>1. read' = [read EXCEPT ![r] = Idle] /\ UNCHANGED <<through, db, shared, entry, write, wrote, gone, told, clean>>
  BY DEF ReadFails, history
<1>2. Idle \in Call /\ Idle.at = "idle"
  BY Blanks DEF Call
<1>3. ReadAged(Idle, gone) /\ ReadReached(Idle, told, wrote)
  BY <1>2 DEF ReadAged, ReadReached, Bearing
<1> QED
  BY <1>1, <1>2, <1>3, ReadMoves

\* The reads and each of them.
LEMMA Calls == ASSUME MemoTypeOK PROVE read \in [Reads -> Call] /\ \A r \in Reads : read[r] \in Call
  BY DEF MemoTypeOK, Call

\* What the shared copy says has settled, and so has what the database says.
LEMMA SettledReached ==
  ASSUME MemoInv, through, clean, NEW x \in Call, Settled <= x.v
  PROVE  ReadReached(x, told, wrote)
<1>1. Settled \in Int /\ x.v \in Versions /\ x.v \in Nat /\ x.age \in Nat
  BY Fields DEF MemoInv, Call, Settled, Versions
<1>2. told[x.v] = Never
  BY <1>1 DEF MemoInv, Known
<1>3. \A i \in Instances : wrote[i] \in Int /\ wrote[i] <= Settled
  <2>1. wrote \in [Instances -> Versions] /\ Versions \subseteq Int
    BY DEF MemoInv, MemoTypeOK, Versions
  <2> QED
    BY <2>1 DEF MemoInv, Known
<1> QED
  BY <1>1, <1>2, <1>3 DEF ReadReached, Never

\* The settled version is the newest or the one before it.
LEMMA SettledType == ASSUME MemoTypeOK PROVE Settled \in Int /\ Settled <= db
  BY Fields DEF Settled

\* A value found in the shared copy is as old as the copy allows.
LEMMA GetSharedKeeps == ASSUME MemoInv, NEW r \in Reads, GetShared(r) PROVE MemoInv'
<1>0. MemoTypeOK /\ UNCHANGED <<through, db, shared, entry, write, wrote, gone, told, clean>>
  BY DEF MemoInv, GetShared, history
<1>1. CASE shared.ttl > 0
  <2>1. PICK x : x = [read[r] EXCEPT !.at = "store", !.v = shared.v]
    OBVIOUS
  <2>2. read' = [read EXCEPT ![r] = x] /\ x \in Call /\ x.at = "store" /\ x.v = shared.v /\ x.age = read[r].age
    <3>1. read' = [read EXCEPT ![r].at = "store", ![r].v = shared.v] /\ shared.v \in Versions
      BY <1>0, <1>1, Fields DEF GetShared
    <3>2. read \in [Reads -> Call] /\ read[r] \in Call
      BY <1>0, Calls
    <3> QED
      BY <2>1, <3>1, <3>2 DEF Call
  <2>3. ReadAged(x, gone)
    <3>1. gone[shared.v] <= MaxCall + (SharedTtl - shared.ttl)
      BY <1>1 DEF MemoInv, Aged, SharedAged
    <3>2. gone[shared.v] \in Int /\ shared.ttl \in Nat /\ x.age \in Nat
      BY <1>0, <2>2, Fields
    <3> QED
      BY <1>1, <2>2, <3>1, <3>2, MemoNumbers DEF ReadAged
  <2>4. ASSUME through, clean PROVE ReadReached(x, told, wrote)
    BY <1>1, <2>2, <2>4, SettledReached DEF MemoInv, Current
  <2> QED
    BY <1>0, <2>2, <2>3, <2>4, ReadMoves
<1>2. CASE ~(shared.ttl > 0)
  <2>1. PICK x : x = [read[r] EXCEPT !.at = "db"]
    OBVIOUS
  <2>2. read' = [read EXCEPT ![r] = x] /\ x \in Call /\ x.at = "db"
    <3>1. read' = [read EXCEPT ![r].at = "db"]
      BY <1>2 DEF GetShared, To
    <3>2. read \in [Reads -> Call] /\ read[r] \in Call
      BY <1>0, Calls
    <3> QED
      BY <2>1, <3>1, <3>2 DEF Call
  <2>3. ReadAged(x, gone) /\ ReadReached(x, told, wrote)
    BY <2>2 DEF ReadAged, ReadReached, Bearing
  <2> QED
    BY <1>0, <2>2, <2>3, ReadMoves
<1> QED
  BY <1>1, <1>2

\* What the database answers is current at that moment.
LEMMA ReadStoreKeeps == ASSUME MemoInv, NEW r \in Reads, ReadStore(r) PROVE MemoInv'
<1>0. MemoTypeOK /\ UNCHANGED <<through, db, shared, entry, write, wrote, gone, told, clean>>
  BY DEF MemoInv, ReadStore, history
<1>1. PICK x : x = [read[r] EXCEPT !.at = "check", !.v = db]
  OBVIOUS
<1>2. read' = [read EXCEPT ![r] = x] /\ x \in Call /\ x.at = "check" /\ x.v = db /\ x.age = read[r].age
  <2>1. read' = [read EXCEPT ![r].at = "check", ![r].v = db] /\ db \in Versions
    BY <1>0, Fields DEF ReadStore
  <2>2. read \in [Reads -> Call] /\ read[r] \in Call
    BY <1>0, Calls
  <2> QED
    BY <1>1, <2>1, <2>2 DEF Call
<1>3. ReadAged(x, gone)
  <2>1. gone[db] = Never /\ x.age \in Nat
    BY <1>0, <1>2, Fields DEF MemoInv, Replaced
  <2> QED
    BY <1>2, <2>1 DEF ReadAged, Never
<1>4. ASSUME through, clean PROVE ReadReached(x, told, wrote)
  BY <1>0, <1>2, <1>4, SettledReached, SettledType
<1> QED
  BY <1>0, <1>2, <1>3, <1>4, ReadMoves

\* Deciding whether to refill changes no value.
LEMMA RefillKeeps == ASSUME MemoInv, NEW r \in Reads, Refill(r) PROVE MemoInv'
<1>0. MemoTypeOK /\ UNCHANGED <<through, db, shared, entry, write, wrote, gone, told, clean>> /\ read[r].at = "check"
  BY DEF MemoInv, Refill, history
<1>1. PICK at \in {"fill", "store"} : read' = [read EXCEPT ![r].at = at]
  BY DEF Refill, To
<1>2. PICK x : x = [read[r] EXCEPT !.at = at]
  OBVIOUS
<1>3. /\ read' = [read EXCEPT ![r] = x] /\ x \in Call /\ x.at = at /\ x.v = read[r].v /\ x.age = read[r].age
      /\ x.listed = read[r].listed /\ x.by = read[r].by
  <2>1. read \in [Reads -> Call] /\ read[r] \in Call
    BY <1>0, Calls
  <2> QED
    BY <1>1, <1>2, <2>1 DEF Call
<1>4. gone[read[r].v] <= read[r].age /\ gone[read[r].v] \in Int /\ read[r].age \in Nat
  BY <1>0, Fields DEF MemoInv, Aged, ReadAged
<1>5. ReadAged(x, gone)
  BY <1>3, <1>4, MemoNumbers DEF ReadAged
<1>6. ASSUME through, clean PROVE ReadReached(x, told, wrote)
  <2>1. ReadReached(read[r], told, wrote)
    BY <1>6 DEF MemoInv, Reached
  <2> QED
    BY <1>0, <1>3, <2>1 DEF ReadReached, Bearing
<1> QED
  BY <1>0, <1>3, <1>5, <1>6, ReadMoves

\* The version the settled one replaced.
LEMMA SettledBefore == ASSUME MemoTypeOK, Settled > 0 PROVE Settled - 1 \in Versions /\ Settled - 1 < db /\ Settled - 1 \in Int
<1>1. Settled \in Int /\ Settled <= db /\ db \in 0..MaxVersion /\ MaxVersion \in Nat
  BY SettledType, MemoNumbers DEF MemoTypeOK, Versions
<1>2. Settled - 1 \in 0..MaxVersion /\ Settled - 1 < db /\ Settled - 1 \in Int
  BY <1>1
<1> QED
  BY <1>2 DEF Versions

\* A read can only fill the shared copy with the settled version or a newer one: by the time the copy
\* of the settled version has expired, a read that began before it is too old to be under way.
LEMMA FillsSettled ==
  ASSUME MemoInv, through, clean, NEW r \in Reads, read[r].at \in {"check", "fill"}, shared.ttl = 0
  PROVE  Settled <= read[r].v
<1>1. /\ read[r].v \in Versions /\ read[r].v \in Nat /\ read[r].age \in 0..MaxCall
      /\ gone[read[r].v] <= read[r].age /\ db \in Versions /\ db \in Nat /\ Settled \in Int /\ Settled <= db
  BY Fields, SettledType DEF MemoInv, Aged, ReadAged
<1> SUFFICES ASSUME read[r].v < Settled PROVE FALSE
  BY <1>1
<1>2. Settled > 0 /\ Settled - 1 \in Versions /\ Settled - 1 < db /\ read[r].v <= Settled - 1
  BY <1>1, SettledBefore DEF MemoInv
<1>3. gone[Settled - 1] <= gone[read[r].v] /\ SharedTtl - shared.ttl <= gone[Settled - 1]
  BY <1>1, <1>2 DEF MemoInv, Replaced, Current
<1>4. gone[Settled - 1] \in Int /\ gone[read[r].v] \in Int
  BY <1>1, <1>2, Fields DEF MemoInv
<1> QED
  BY <1>1, <1>3, <1>4, MemoNumbers

\* A copy is filled only where there is none, so a settled version is not undone.
LEMMA FillSharedKeeps == ASSUME MemoInv, NEW r \in Reads, FillShared(r) PROVE MemoInv'
<1>0. MemoTypeOK /\ UNCHANGED <<through, db, entry, write, wrote, gone, told, clean>> /\ read[r].at = "fill"
      /\ shared' = filled(read[r].v) /\ read' = [read EXCEPT ![r].at = "store"]
  BY DEF MemoInv, FillShared, history, To
<1>1. PICK x : x = [read[r] EXCEPT !.at = "store"]
  OBVIOUS
<1>2. /\ read' = [read EXCEPT ![r] = x] /\ x \in Call /\ x.at = "store" /\ x.v = read[r].v /\ x.age = read[r].age
      /\ x.listed = read[r].listed /\ x.by = read[r].by
  <2>1. read \in [Reads -> Call] /\ read[r] \in Call
    BY <1>0, Calls
  <2> QED
    BY <1>0, <1>1, <2>1 DEF Call
<1>3. read'[r] = x /\ (\A q \in Reads \ {r} : read'[q] = read[q]) /\ read' \in [Reads -> Call]
  BY <1>0, <1>2, OneRead
<1>4. /\ gone[read[r].v] <= read[r].age /\ gone[read[r].v] \in Int /\ read[r].age \in 0..MaxCall /\ read[r].age \in Nat
      /\ read[r].v \in Versions
  BY <1>0, Fields DEF MemoInv, Aged, ReadAged
<1>5. /\ shared' \in [v : Versions, ttl : 0..SharedTtl]
      /\ shared.ttl = 0 => shared'.v = read[r].v /\ shared'.ttl = SharedTtl
      /\ shared.ttl # 0 => shared' = shared
  BY <1>0, <1>4, MemoNumbers DEF filled, MemoTypeOK
<1>6. MemoTypeOK'
  BY <1>0, <1>3, <1>5 DEF MemoTypeOK, Call
<1>7. Replaced'
  BY <1>0 DEF MemoInv, Replaced
<1>8. ReadAged(x, gone)
  BY <1>2, <1>4, MemoNumbers DEF ReadAged
<1>9. SharedAged(shared', gone)
  <2>1. CASE shared.ttl = 0
    BY <1>4, <1>5, <2>1, MemoNumbers DEF SharedAged
  <2>2. CASE shared.ttl # 0
    BY <1>5, <2>2 DEF MemoInv, Aged
  <2> QED
    BY <2>1, <2>2
<1>10. Aged'
  <2>1. \A q \in Reads : ReadAged(read'[q], gone)
    BY <1>3, <1>8 DEF MemoInv, Aged
  <2> QED
    BY <1>0, <1>9, <2>1 DEF MemoInv, Aged
<1>11. ASSUME through, clean PROVE OneChange' /\ Current' /\ Known' /\ Reached'
  <2>1. Settled' = Settled /\ OneChange' /\ Settled \in Int
    BY <1>0, <1>11, SettledType DEF MemoInv, Settled, OneChange
  <2>2. ReadReached(read[r], told, wrote)
    BY <1>11 DEF MemoInv, Reached
  <2>3. ReadReached(x, told, wrote)
    BY <1>0, <1>2, <2>2 DEF ReadReached, Bearing
  <2>4. \A q \in Reads : ReadReached(read'[q], told, wrote)
    BY <1>3, <1>11, <2>3 DEF MemoInv, Reached
  <2>5. /\ shared'.ttl > 0 => shared'.v >= Settled
        /\ Settled > 0 => SharedTtl - shared'.ttl <= gone[Settled - 1]
    <3>1. CASE shared.ttl = 0
      <4>1. Settled <= read[r].v
        BY <1>0, <1>11, <3>1, FillsSettled
      <4>2. SharedTtl - shared'.ttl = 0
        BY <1>5, <3>1, MemoNumbers
      <4>3. Settled > 0 => 0 <= gone[Settled - 1]
        <5>1. Settled > 0 => Settled - 1 \in Versions /\ Settled - 1 < db
          BY <1>0, SettledBefore
        <5> QED
          BY <5>1 DEF MemoInv, Replaced, Versions
      <4> QED
        BY <1>4, <1>5, <2>1, <3>1, <4>1, <4>2, <4>3 DEF Versions
    <3>2. CASE shared.ttl # 0
      BY <1>5, <1>11, <3>2 DEF MemoInv, Current
    <3> QED
      BY <3>1, <3>2
  <2>6. Current'
    BY <1>0, <2>1, <2>5 DEF Current
  <2> QED
    BY <1>0, <1>11, <2>1, <2>4, <2>6 DEF MemoInv, Known, Reached
<1> QED
  BY <1>0, <1>6, <1>7, <1>10, <1>11 DEF MemoInv

\* What a read stores is no older than the read.
LEMMA StoreKeeps == ASSUME MemoInv, NEW r \in Reads, Store(r) PROVE MemoInv'
<1>0. MemoTypeOK /\ UNCHANGED <<through, db, shared, write, wrote, gone, told, clean>> /\ read[r].at = "store"
      /\ read' = [read EXCEPT ![r] = Idle]
      /\ entry' = IF read[r].listed THEN [entry EXCEPT ![read[r].by] = kept(r)] ELSE entry
  BY DEF MemoInv, Store, history, current
<1>1. Idle \in Call /\ Idle.at = "idle"
  BY Blanks DEF Call
<1>2. read'[r] = Idle /\ (\A q \in Reads \ {r} : read'[q] = read[q]) /\ read' \in [Reads -> Call]
  BY <1>0, <1>1, OneRead
<1>3. /\ kept(r) \in [v : Versions, age : Nat] /\ kept(r).v = read[r].v /\ kept(r).age = read[r].age
      /\ read[r].v \in Versions /\ read[r].age \in Nat
  BY <1>0, Fields DEF kept
<1>4. \A i \in Instances : entry'[i] = entry[i] \/ (read[r].listed /\ read[r].by = i /\ entry'[i] = kept(r))
  BY <1>0 DEF MemoTypeOK
<1>5. entry' \in [Instances -> [v : Versions, age : Nat]]
  BY <1>0, <1>3 DEF MemoTypeOK
<1>6. MemoTypeOK'
  BY <1>0, <1>2, <1>5 DEF MemoTypeOK, Call
<1>7. Replaced'
  BY <1>0 DEF MemoInv, Replaced
<1>8. Aged'
  <2>1. \A q \in Reads : ReadAged(read'[q], gone)
    BY <1>1, <1>2 DEF MemoInv, Aged, ReadAged
  <2>2. EntryAged(kept(r), gone)
    BY <1>0, <1>3 DEF MemoInv, Aged, ReadAged, EntryAged
  <2>3. \A i \in Instances : EntryAged(entry'[i], gone)
    BY <1>4, <2>2 DEF MemoInv, Aged
  <2> QED
    BY <1>0, <2>1, <2>3 DEF MemoInv, Aged
<1>9. ASSUME through, clean PROVE OneChange' /\ Current' /\ Known' /\ Reached'
  <2>1. Settled' = Settled /\ OneChange'
    BY <1>0, <1>9 DEF MemoInv, Settled, OneChange
  <2>2. \A q \in Reads : ReadReached(read'[q], told, wrote)
    BY <1>1, <1>2, <1>9 DEF MemoInv, Reached, ReadReached, Bearing
  <2>3. ASSUME NEW i \in Instances PROVE EntryReached(entry'[i], told, wrote[i])
    <3>1. CASE entry'[i] = entry[i]
      BY <1>9, <3>1 DEF MemoInv, Reached
    <3>2. CASE read[r].listed /\ read[r].by = i /\ entry'[i] = kept(r)
      <4>1. ReadReached(read[r], told, wrote)
        BY <1>9 DEF MemoInv, Reached
      <4> QED
        BY <1>0, <1>3, <3>2, <4>1 DEF ReadReached, EntryReached, Bearing
    <3> QED
      BY <1>4, <3>1, <3>2
  <2> QED
    BY <1>0, <1>9, <2>1, <2>2, <2>3 DEF MemoInv, Current, Known, Reached
<1> QED
  BY <1>0, <1>6, <1>7, <1>8, <1>9 DEF MemoInv
----------------------------------------------------------------------------
(* Changing.                                                               *)

\* With no change at its shared copy, everything written has settled.
LEMMA AllSettled == ASSUME \A i \in Instances : write[i].at # "shared" PROVE Settled = db
  BY DEF Settled

\* A change replaces the newest version and starts its history.
LEMMA ChangeKeeps == ASSUME MemoInv, NEW i \in Instances, Change(i) PROVE MemoInv'
<1>0. /\ MemoTypeOK /\ write[i].at = "idle" /\ db < MaxVersion /\ db' = db + 1
      /\ gone' = [gone EXCEPT ![db] = 0]
      /\ clean' = (clean /\ \A j \in Instances : write[j].at = "idle")
      /\ UNCHANGED <<through, shared, entry, read, wrote, told, faults>>
  BY DEF MemoInv, Change
<1>1. PICK x : x = [at |-> "shared", v |-> db + 1, age |-> 0]
  OBVIOUS
<1>2. db \in Nat /\ db \in Versions /\ db + 1 \in Versions
  BY <1>0, Fields, MemoNumbers DEF Versions
<1>3. x \in Making /\ x.at = "shared" /\ x.v = db + 1 /\ x.age = 0 /\ write' = [write EXCEPT ![i] = x]
  BY <1>1, <1>2, MemoNumbers DEF Making, Change
<1>4. write'[i] = x /\ (\A j \in Instances \ {i} : write'[j] = write[j]) /\ write' \in [Instances -> Making]
  BY <1>0, <1>3, OneWrite
<1>5. gone'[db] = 0 /\ (\A v \in Versions \ {db} : gone'[v] = gone[v]) /\ gone' \in [Versions -> Never..Horizon]
  BY <1>0, <1>2, Blanks DEF MemoTypeOK
<1>6. MemoTypeOK'
  BY <1>0, <1>2, <1>4, <1>5 DEF MemoTypeOK, Making
<1>7. \A v \in Versions : v \in Nat /\ gone[v] \in Int /\ gone'[v] \in Int /\ gone'[v] <= (IF gone[v] < 0 THEN 0 ELSE gone[v])
  BY <1>0, <1>2, <1>5, Fields
<1>8. Replaced'
  <2>1. ASSUME NEW v \in Versions, v >= db' PROVE gone'[v] = Never
    <3>1. v \in Nat /\ db' = db + 1 /\ v >= db'
      BY <1>0, <1>7, <2>1
    <3>2. v # db /\ v >= db
      BY <1>2, <3>1
    <3> QED
      BY <1>5, <3>2 DEF MemoInv, Replaced
  <2>2. ASSUME NEW u \in Versions, NEW v \in Versions, u <= v, v < db' PROVE 0 <= gone'[v] /\ gone'[v] <= gone'[u]
    <3>1. CASE v = db
      BY <1>0, <1>2, <1>5, <1>7, <2>2, <3>1 DEF MemoInv, Replaced
    <3>2. CASE v # db
      BY <1>0, <1>2, <1>5, <1>7, <2>2, <3>2 DEF MemoInv, Replaced
    <3> QED
      BY <3>1, <3>2
  <2> QED
    BY <2>1, <2>2 DEF Replaced
<1>9. Aged'
  <2>1. ASSUME NEW r \in Reads PROVE ReadAged(read[r], gone')
    <3>1. ReadAged(read[r], gone) /\ read[r].v \in Versions /\ read[r].age \in Nat
      BY <1>0, Fields DEF MemoInv, Aged
    <3> QED
      BY <1>7, <3>1, MemoNumbers DEF ReadAged
  <2>2. ASSUME through, NEW j \in Instances PROVE WriteAged(write'[j], gone')
    <3>1. CASE j = i
      <4>1. gone'[db + 1] = Never
        BY <1>0, <1>2, <1>8 DEF Replaced
      <4> QED
        BY <1>3, <1>4, <3>1, <4>1 DEF WriteAged, Never
    <3>2. CASE j # i
      <4>1. WriteAged(write[j], gone) /\ write[j].v \in Versions /\ write[j].age \in Nat
        BY <1>0, <2>2, Fields DEF MemoInv, Aged
      <4> QED
        BY <1>4, <1>7, <3>2, <4>1 DEF WriteAged
    <3> QED
      BY <3>1, <3>2
  <2>3. SharedAged(shared, gone')
    <3>1. SharedAged(shared, gone) /\ shared.v \in Versions /\ shared.ttl \in 0..SharedTtl
      BY <1>0, Fields DEF MemoInv, Aged
    <3> QED
      BY <1>7, <3>1, MemoNumbers DEF SharedAged
  <2>4. ASSUME NEW j \in Instances PROVE EntryAged(entry[j], gone')
    <3>1. EntryAged(entry[j], gone) /\ entry[j].v \in Versions /\ entry[j].age \in Nat
      BY <1>0, Fields DEF MemoInv, Aged
    <3> QED
      BY <1>7, <3>1, MemoNumbers DEF EntryAged
  <2> QED
    BY <1>0, <2>1, <2>2, <2>3, <2>4 DEF Aged
<1>10. ASSUME through', clean' PROVE OneChange' /\ Current' /\ Known' /\ Reached'
  <2>1. through /\ clean /\ \A j \in Instances : write[j].at = "idle"
    BY <1>0, <1>10
  <2>2. Settled = db
    BY <2>1, AllSettled
  <2>3. Settled' = db
    BY <1>0, <1>2, <1>3, <1>4 DEF Settled
  <2>4. OneChange'
    BY <1>0, <1>2, <1>3, <1>4, <2>1 DEF OneChange
  <2>5. Current'
    <3>1. db > 0 => gone'[db - 1] = gone[db - 1]
      BY <1>0, <1>2, <1>5, MemoNumbers DEF Versions
    <3> QED
      BY <1>0, <2>1, <2>2, <2>3, <3>1 DEF MemoInv, Current
  <2> QED
    BY <1>0, <2>1, <2>2, <2>3, <2>4, <2>5 DEF MemoInv, Known, Reached
<1> QED
  BY <1>6, <1>8, <1>9, <1>10 DEF MemoInv

\* The shared copy takes the new version, or goes.
LEMMA ChangeSharedKeeps == ASSUME MemoInv, NEW i \in Instances, ChangeShared(i) PROVE MemoInv'
<1>0. /\ MemoTypeOK /\ write[i].at = "shared" /\ UNCHANGED <<through, db, entry, read, wrote, gone, told, clean>>
      /\ shared' = IF through THEN [v |-> write[i].v, ttl |-> SharedTtl] ELSE [shared EXCEPT !.ttl = 0]
      /\ write' = [write EXCEPT ![i].at = "memo"]
  BY DEF MemoInv, ChangeShared, history
<1>1. PICK x : x = [write[i] EXCEPT !.at = "memo"]
  OBVIOUS
<1>2. x \in Making /\ x.at = "memo" /\ x.v = write[i].v /\ x.age = write[i].age /\ write' = [write EXCEPT ![i] = x]
  <2>1. write \in [Instances -> Making] /\ write[i] \in Making
    BY <1>0 DEF MemoTypeOK, Making
  <2> QED
    BY <1>0, <1>1, <2>1 DEF Making
<1>3. write'[i] = x /\ (\A j \in Instances \ {i} : write'[j] = write[j]) /\ write' \in [Instances -> Making]
  BY <1>0, <1>2, OneWrite
<1>4. write[i].v \in Versions /\ write[i].age \in 0..MaxCall /\ gone[write[i].v] \in Int /\ db \in Nat
  BY <1>0, Fields
<1>5. /\ shared' \in [v : Versions, ttl : 0..SharedTtl]
      /\ through => shared'.v = write[i].v /\ shared'.ttl = SharedTtl
      /\ ~through => shared'.ttl = 0
  BY <1>0, <1>4, MemoNumbers DEF MemoTypeOK
<1>6. MemoTypeOK'
  BY <1>0, <1>3, <1>5 DEF MemoTypeOK, Making
<1>7. Replaced'
  BY <1>0 DEF MemoInv, Replaced
<1>8. Aged'
  <2>1. ASSUME through PROVE gone[write[i].v] <= write[i].age
    BY <1>0, <2>1 DEF MemoInv, Aged, WriteAged
  <2>2. SharedAged(shared', gone)
    BY <1>4, <1>5, <2>1, MemoNumbers DEF SharedAged
  <2>3. ASSUME through, NEW j \in Instances PROVE WriteAged(write'[j], gone)
    BY <1>2, <1>3, <2>1, <2>3 DEF MemoInv, Aged, WriteAged
  <2> QED
    BY <1>0, <2>2, <2>3 DEF MemoInv, Aged
<1>9. ASSUME through, clean PROVE OneChange' /\ Current' /\ Known' /\ Reached'
  <2>1. write[i].v = db /\ db > 0 /\ \A j \in Instances \ {i} : write[j].at = "idle"
    BY <1>0, <1>9 DEF MemoInv, OneChange
  <2>2. Settled = db - 1
    BY <1>0 DEF Settled
  <2>3. Settled' = db
    BY <1>0, <1>2, <1>3, <2>1 DEF Settled
  <2>4. OneChange'
    BY <1>0, <1>2, <1>3, <2>1 DEF OneChange
  <2>5. Current'
    <3>1. db - 1 \in Versions /\ db - 1 < db /\ db \in Versions
      <4>1. db \in 0..MaxVersion
        BY <1>0 DEF MemoTypeOK, Versions
      <4>2. db - 1 \in 0..MaxVersion /\ db - 1 < db
        BY <2>1, <4>1, MemoNumbers
      <4> QED
        BY <4>1, <4>2 DEF Versions
    <3>2. 0 <= gone[db - 1]
      BY <1>4, <3>1 DEF MemoInv, Replaced
    <3> QED
      BY <1>0, <1>4, <1>5, <1>9, <2>1, <2>3, <3>2, MemoNumbers DEF Current
  <2>6. Known'
    <3>1. \A v \in Versions : told[v] # Never => v < db - 1
      BY <1>9, <2>2 DEF MemoInv, Known
    <3>2. \A j \in Instances : wrote[j] \in Int /\ wrote[j] <= db - 1
      BY <1>0, <1>9, <2>2 DEF MemoInv, Known, MemoTypeOK, Versions
    <3> QED
      BY <1>0, <1>4, <2>3, <3>1, <3>2 DEF Known, Versions
  <2> QED
    BY <1>0, <1>9, <2>4, <2>5, <2>6 DEF MemoInv, Reached
<1> QED
  BY <1>0, <1>6, <1>7, <1>8, <1>9 DEF MemoInv

\* A change refused by Redis is no longer clean, and its memo is as it was.
LEMMA SharedRefusedKeeps == ASSUME MemoInv, NEW i \in Instances, SharedRefused(i) PROVE MemoInv'
<1>0. /\ MemoTypeOK /\ write[i].at = "shared" /\ UNCHANGED <<through, db, shared, entry, read, wrote, gone, told>>
      /\ clean' = FALSE
      /\ write' = [write EXCEPT ![i] = IF through THEN Resting ELSE [@ EXCEPT !.at = "memo"]]
  BY DEF MemoInv, SharedRefused
<1>1. PICK x : x = IF through THEN Resting ELSE [write[i] EXCEPT !.at = "memo"]
  OBVIOUS
<1>2. x \in Making /\ (through => x.at = "idle") /\ write' = [write EXCEPT ![i] = x]
  <2>1. write[i] \in Making
    BY <1>0, Fields
  <2> QED
    BY <1>0, <1>1, <2>1, Blanks DEF Making
<1>3. write'[i] = x /\ (\A j \in Instances \ {i} : write'[j] = write[j]) /\ write' \in [Instances -> Making]
  BY <1>0, <1>2, OneWrite
<1>4. MemoTypeOK'
  BY <1>0, <1>3 DEF MemoTypeOK, Making
<1>5. Replaced'
  BY <1>0 DEF MemoInv, Replaced
<1>6. ASSUME through, NEW j \in Instances PROVE WriteAged(write'[j], gone)
  BY <1>2, <1>3, <1>6 DEF MemoInv, Aged, WriteAged
<1>7. Aged'
  BY <1>0, <1>6 DEF MemoInv, Aged
<1> QED
  BY <1>0, <1>4, <1>5, <1>7 DEF MemoInv

\* A read that was overtaken keeps its value and its age.
LEMMA OvertakenReads ==
  ASSUME MemoTypeOK, NEW i, Overtaken(i)
  PROVE  /\ read' \in [Reads -> Call]
         /\ \A r \in Reads : /\ read'[r].at = read[r].at /\ read'[r].v = read[r].v /\ read'[r].age = read[r].age
                             /\ read'[r].by = read[r].by
                             /\ read'[r].listed => read[r].listed /\ read[r].by # i
<1>1. \A r \in Reads : read[r] \in Call
  BY Calls
<1>2. \A r \in Reads : read'[r] = IF read[r].by = i THEN [read[r] EXCEPT !.listed = FALSE] ELSE read[r]
  BY DEF Overtaken
<1>3. ASSUME NEW r \in Reads
      PROVE  /\ read'[r] \in Call
             /\ read'[r].at = read[r].at /\ read'[r].v = read[r].v /\ read'[r].age = read[r].age
             /\ read'[r].by = read[r].by
             /\ read'[r].listed => read[r].listed /\ read[r].by # i
  BY <1>1, <1>2 DEF Call
<1>4. read' = [r \in Reads |-> read'[r]]
  BY DEF Overtaken
<1> QED
  BY <1>3, <1>4

\* When a change returns, nothing its writer holds or is reading is older.
LEMMA ChangeMemoKeeps == ASSUME MemoInv, NEW i \in Instances, ChangeMemo(i) PROVE MemoInv'
<1>0. /\ MemoTypeOK /\ write[i].at = "memo" /\ UNCHANGED <<through, db, shared, gone, clean>>
      /\ Overtaken(i) /\ write' = [write EXCEPT ![i] = Resting]
      /\ entry' = [entry EXCEPT ![i] = IF through THEN [v |-> write[i].v, age |-> 0] ELSE None]
      /\ IF through /\ clean
         THEN /\ wrote' = [wrote EXCEPT ![i] = write[i].v]
              /\ told' = [v \in Versions |-> IF v < write[i].v /\ told[v] = Never THEN 0 ELSE told[v]]
         ELSE UNCHANGED <<wrote, told>>
  BY DEF MemoInv, ChangeMemo
<1>1. Resting \in Making /\ Resting.at = "idle"
  BY Blanks DEF Making
<1>2. write'[i] = Resting /\ (\A j \in Instances \ {i} : write'[j] = write[j]) /\ write' \in [Instances -> Making]
  BY <1>0, <1>1, OneWrite
<1>3. PICK e : e = IF through THEN [v |-> write[i].v, age |-> 0] ELSE None
  OBVIOUS
<1>4. write[i].v \in Versions /\ write[i].age \in 0..MaxCall /\ write[i].age \in Nat
  BY <1>0, Fields
<1>5. /\ e \in [v : Versions, age : Nat]
      /\ through => e.v = write[i].v /\ e.age = 0
      /\ ~through => e.age = Window
  BY <1>3, <1>4, Blanks
<1>6. entry'[i] = e /\ (\A j \in Instances \ {i} : entry'[j] = entry[j]) /\ entry' \in [Instances -> [v : Versions, age : Nat]]
  <2>1. entry' = [entry EXCEPT ![i] = e]
    BY <1>0, <1>3
  <2> QED
    BY <1>0, <1>5, <2>1, OneEntry
<1>7. /\ read' \in [Reads -> Call]
      /\ \A r \in Reads : /\ read'[r].at = read[r].at /\ read'[r].v = read[r].v /\ read'[r].age = read[r].age
                          /\ read'[r].by = read[r].by
                          /\ read'[r].listed => read[r].listed /\ read[r].by # i
  BY <1>0, OvertakenReads
<1>8. wrote' \in [Instances -> Versions] /\ told' \in [Versions -> Never..Horizon]
  <2>1. wrote \in [Instances -> Versions] /\ told \in [Versions -> Never..Horizon] /\ 0 \in Never..Horizon
    BY <1>0, Blanks DEF MemoTypeOK
  <2>2. CASE through /\ clean
    <3>1. wrote' = [wrote EXCEPT ![i] = write[i].v]
      BY <1>0, <2>2
    <3>2. told' = [v \in Versions |-> IF v < write[i].v /\ told[v] = Never THEN 0 ELSE told[v]]
      BY <1>0, <2>2
    <3>3. wrote' \in [Instances -> Versions]
      BY <1>4, <2>1, <3>1
    <3>4. \A v \in Versions : told[v] \in Never..Horizon
      BY <2>1
    <3>5. told' \in [Versions -> Never..Horizon]
      BY <2>1, <3>2, <3>4
    <3> QED
      BY <3>3, <3>5
  <2>3. CASE ~(through /\ clean)
    BY <1>0, <2>1, <2>3
  <2> QED
    BY <2>2, <2>3
<1>9. MemoTypeOK'
  BY <1>0, <1>2, <1>6, <1>7, <1>8 DEF MemoTypeOK, Making, Call
<1>10. Replaced'
  BY <1>0 DEF MemoInv, Replaced
<1>11. Aged'
  <2>1. \A r \in Reads : ReadAged(read'[r], gone)
    BY <1>7 DEF MemoInv, Aged, ReadAged
  <2>2. ASSUME through, NEW j \in Instances PROVE WriteAged(write'[j], gone)
    BY <1>1, <1>2, <2>2 DEF MemoInv, Aged, WriteAged
  <2>3. EntryAged(e, gone)
    <3>1. CASE through
      <4>1. gone[write[i].v] <= write[i].age /\ gone[write[i].v] \in Int
        BY <1>0, <1>4, <3>1, Fields DEF MemoInv, Aged, WriteAged
      <4> QED
        BY <1>4, <1>5, <3>1, <4>1, MemoNumbers DEF EntryAged
    <3>2. CASE ~through
      BY <1>5, <3>2, MemoNumbers DEF EntryAged
    <3> QED
      BY <3>1, <3>2
  <2>4. \A j \in Instances : EntryAged(entry'[j], gone)
    BY <1>6, <2>3 DEF MemoInv, Aged
  <2> QED
    BY <1>0, <2>1, <2>2, <2>4 DEF MemoInv, Aged
<1>12. ASSUME through, clean PROVE OneChange' /\ Current' /\ Known' /\ Reached'
  <2>1. write[i].v = db /\ db > 0 /\ \A j \in Instances \ {i} : write[j].at = "idle"
    BY <1>0, <1>12 DEF MemoInv, OneChange
  <2>2. Settled = db /\ Settled' = db
    BY <1>0, <1>1, <1>2, <2>1 DEF Settled
  <2>3. OneChange'
    BY <1>0, <1>1, <1>2, <2>1 DEF OneChange
  <2>4. Current'
    BY <1>0, <1>12, <2>2 DEF MemoInv, Current
  <2>5. wrote'[i] = db /\ \A j \in Instances \ {i} : wrote'[j] = wrote[j]
    BY <1>0, <1>12, <2>1 DEF MemoTypeOK
  <2>6. \A v \in Versions : /\ told'[v] = (IF v < db /\ told[v] = Never THEN 0 ELSE told[v])
                            /\ v \in Nat /\ told[v] \in Int
    BY <1>0, <1>12, <2>1, Fields
  <2>7. Known'
    <3>1. \A v \in Versions : told'[v] # Never => v < db
      BY <1>12, <2>2, <2>6 DEF MemoInv, Known
    <3>2. \A j \in Instances : wrote'[j] <= db
      BY <1>0, <1>12, <2>2, <2>5, Fields DEF MemoInv, Known
    <3> QED
      BY <2>2, <3>1, <3>2 DEF Known
  <2>8. ASSUME NEW r \in Reads PROVE ReadReached(read'[r], told', wrote')
    <3>1. ReadReached(read[r], told, wrote) /\ read[r].v \in Versions /\ read[r].age \in Nat
      BY <1>0, <1>12, Fields DEF MemoInv, Reached
    <3>2. ASSUME read[r].at \in Bearing PROVE told'[read[r].v] <= read[r].age
      BY <2>6, <3>1, <3>2 DEF ReadReached
    <3>3. ASSUME read[r].at \in Bearing, read'[r].listed, NEW j \in Instances, read[r].by = j PROVE read[r].v >= wrote'[j]
      BY <1>7, <2>5, <3>1, <3>3 DEF ReadReached
    <3> QED
      BY <1>7, <3>2, <3>3 DEF ReadReached
  <2>9. ASSUME NEW j \in Instances PROVE EntryReached(entry'[j], told', wrote'[j])
    <3>1. CASE j = i
      <4>1. told[db] = Never /\ told'[db] = Never /\ db \in Nat
        BY <1>0, <1>12, <2>2, <2>6, Fields DEF MemoInv, Known
      <4> QED
        BY <1>5, <1>6, <1>12, <2>1, <2>5, <3>1, <4>1 DEF EntryReached, Never
    <3>2. CASE j # i
      <4>1. EntryReached(entry[j], told, wrote[j]) /\ entry[j].v \in Versions /\ entry[j].age \in Nat
        BY <1>0, <1>12, Fields DEF MemoInv, Reached
      <4> QED
        BY <1>6, <2>5, <2>6, <3>2, <4>1 DEF EntryReached
    <3> QED
      BY <3>1, <3>2
  <2> QED
    BY <2>3, <2>4, <2>7, <2>8, <2>9 DEF Reached
<1> QED
  BY <1>0, <1>9, <1>10, <1>11, <1>12 DEF MemoInv

\* A read that goes on as it was, perhaps overtaken, or is over.
GoesOn(x, y) ==
  \/ y.at = "idle"
  \/ /\ y.at = x.at /\ y.v = x.v /\ y.age = x.age /\ y.by = x.by
     /\ y.listed => x.listed

\* An instance that forgets, loses reads or stops a change: what is left is as good as it was.
LEMMA Forgets ==
  ASSUME MemoInv, NEW i \in Instances, UNCHANGED <<through, db, shared, wrote, gone, told>>,
         NEW x, x \in Making, write' = [write EXCEPT ![i] = x],
         x = write[i] \/ x.at = "idle" \/ ~through,
         entry' = entry \/ entry' = [entry EXCEPT ![i] = None],
         read' \in [Reads -> Call],
         \A r \in Reads : GoesOn(read[r], read'[r]),
         clean' \in BOOLEAN,
         clean' => clean /\ (through => (x.at = write[i].at /\ x.v = write[i].v) \/ (write[i].at = "idle" /\ x.at = "idle"))
  PROVE  MemoInv'
<1>0. MemoTypeOK /\ None \in [v : Versions, age : Nat] /\ None.age = Window
  BY Blanks DEF MemoInv
<1>1. write'[i] = x /\ (\A j \in Instances \ {i} : write'[j] = write[j]) /\ write' \in [Instances -> Making]
  BY <1>0, OneWrite
<1>2. /\ \A j \in Instances : entry'[j] = entry[j] \/ entry'[j] = None
      /\ entry' \in [Instances -> [v : Versions, age : Nat]]
  BY <1>0 DEF MemoTypeOK
<1>3. MemoTypeOK'
  BY <1>0, <1>1, <1>2 DEF MemoTypeOK, Making, Call
<1>4. Replaced'
  BY DEF MemoInv, Replaced
<1>5. Aged'
  <2>1. ASSUME NEW r \in Reads PROVE ReadAged(read'[r], gone)
    <3>1. ReadAged(read[r], gone)
      BY DEF MemoInv, Aged
    <3>2. CASE read'[r].at = "idle"
      BY <3>2 DEF ReadAged
    <3>3. CASE read'[r].at = read[r].at /\ read'[r].v = read[r].v /\ read'[r].age = read[r].age
      BY <3>1, <3>3 DEF ReadAged
    <3> QED
      BY <3>2, <3>3 DEF GoesOn
  <2>2. ASSUME through, NEW j \in Instances PROVE WriteAged(write'[j], gone)
    BY <1>1, <2>2 DEF MemoInv, Aged, WriteAged
  <2>3. EntryAged(None, gone)
    BY <1>0, MemoNumbers DEF EntryAged
  <2>4. \A j \in Instances : EntryAged(entry'[j], gone)
    BY <1>2, <2>3 DEF MemoInv, Aged
  <2> QED
    BY <2>1, <2>2, <2>4 DEF MemoInv, Aged
<1>6. ASSUME through', clean' PROVE OneChange' /\ Current' /\ Known' /\ Reached'
  <2>1. /\ through /\ clean /\ OneChange /\ Current /\ Known /\ Reached
        /\ (x.at = write[i].at /\ x.v = write[i].v) \/ (write[i].at = "idle" /\ x.at = "idle")
    BY <1>6 DEF MemoInv
  <2>2. \A j \in Instances : write'[j].at = write[j].at /\ (write[j].at # "idle" => write'[j].v = write[j].v)
    BY <1>1, <2>1
  <2>3. Settled' = Settled
    BY <2>2 DEF Settled
  <2>4. OneChange'
    BY <2>1, <2>2 DEF OneChange
  <2>5. ASSUME NEW r \in Reads PROVE ReadReached(read'[r], told, wrote)
    <3>1. ReadReached(read[r], told, wrote)
      BY <2>1 DEF Reached
    <3>2. CASE read'[r].at = "idle"
      BY <3>2 DEF ReadReached, Bearing
    <3>3. CASE /\ read'[r].at = read[r].at /\ read'[r].v = read[r].v /\ read'[r].age = read[r].age
               /\ read'[r].by = read[r].by /\ (read'[r].listed => read[r].listed)
      BY <3>1, <3>3 DEF ReadReached
    <3> QED
      BY <3>2, <3>3 DEF GoesOn
  <2>6. \A j \in Instances : EntryReached(entry'[j], told, wrote[j])
    BY <1>0, <1>2, <2>1, MemoNumbers DEF Reached, EntryReached
  <2> QED
    BY <2>1, <2>3, <2>4, <2>5, <2>6 DEF Current, Known, Reached
<1> QED
  BY <1>3, <1>4, <1>5, <1>6 DEF MemoInv

\* A flush forgets, and replaces nothing.
LEMMA FlushKeeps == ASSUME MemoInv, NEW i \in Instances, Flush(i) PROVE MemoInv'
<1>0. MemoTypeOK /\ UNCHANGED <<through, db, shared, wrote, gone, told, clean>> /\ clean \in BOOLEAN /\ write[i].at = "idle"
  BY DEF MemoInv, Flush, history, MemoTypeOK
<1>1. CASE through
  <2>1. Overtaken(i) /\ entry' = [entry EXCEPT ![i] = None] /\ write' = write
    BY <1>1 DEF Flush
  <2>2. PICK x : x = write[i]
    OBVIOUS
  <2>3. x \in Making /\ write' = [write EXCEPT ![i] = x] /\ x.at = "idle"
    BY <1>0, <2>1, <2>2, Fields DEF MemoTypeOK
  <2>4. /\ read' \in [Reads -> Call]
        /\ \A r \in Reads : GoesOn(read[r], read'[r])
    BY <1>0, <2>1, OvertakenReads DEF GoesOn
  <2> QED
    BY <1>0, <2>1, <2>3, <2>4, Forgets
<1>2. CASE ~through
  <2>1. PICK x : x = [at |-> "shared", v |-> 0, age |-> 0]
    OBVIOUS
  <2>2. write' = [write EXCEPT ![i] = x] /\ entry' = entry /\ read' = read /\ x \in Making
    BY <1>2, <2>1, Blanks, MemoNumbers DEF Flush, Making
  <2>3. read' \in [Reads -> Call] /\ \A r \in Reads : GoesOn(read[r], read'[r])
    BY <1>0, <2>2, Calls DEF GoesOn
  <2> QED
    BY <1>0, <1>2, <2>2, <2>3, Forgets
<1> QED
  BY <1>1, <1>2

\* A process that comes back holds nothing.
LEMMA RestartKeeps == ASSUME MemoInv, NEW i \in Instances, Restart(i) PROVE MemoInv'
<1>0. /\ MemoTypeOK /\ UNCHANGED <<through, db, shared, wrote, gone, told>>
      /\ entry' = [entry EXCEPT ![i] = None] /\ write' = [write EXCEPT ![i] = Resting]
      /\ read' = [r \in Reads |-> IF read[r].by = i THEN Idle ELSE read[r]]
      /\ clean' = (clean /\ write[i].at = "idle") /\ clean \in BOOLEAN
  BY DEF MemoInv, Restart, MemoTypeOK
<1>1. Resting \in Making /\ Resting.at = "idle" /\ Idle \in Call /\ Idle.at = "idle"
  BY Blanks DEF Making, Call
<1>2. \A r \in Reads : read'[r] = Idle \/ read'[r] = read[r]
  BY <1>0
<1>3. read' \in [Reads -> Call]
  <2>1. \A r \in Reads : read[r] \in Call
    BY <1>0, Calls
  <2> QED
    BY <1>0, <1>1, <2>1
<1>4. clean' \in BOOLEAN /\ (clean' => clean /\ write[i].at = "idle" /\ Resting.at = "idle")
  BY <1>0, <1>1
<1>5. \A r \in Reads : GoesOn(read[r], read'[r])
  BY <1>1, <1>2 DEF GoesOn
<1> QED
  BY <1>0, <1>1, <1>3, <1>4, <1>5, Forgets
----------------------------------------------------------------------------
(* Time.                                                                   *)

\* A history that counts on.
LEMMA OlderIs ==
  ASSUME NEW n \in Never..Horizon
  PROVE  /\ Older(n) \in Never..Horizon /\ Older(n) <= n + 1 /\ (Older(n) = Never <=> n = Never)
         /\ n <= Older(n)
         /\ \A m \in Never..Horizon : n <= m /\ 0 <= n => Older(n) <= Older(m)
         /\ n < Horizon /\ n # Never => Older(n) = n + 1
  BY MemoNumbers DEF Older, Never

\* A tick ages the values and their histories alike.
LEMMA TickKeeps == ASSUME MemoInv, MemoTick PROVE MemoInv'
<1>0. /\ MemoTypeOK /\ UNCHANGED <<through, db, wrote, clean, faults>>
      /\ \A r \in Reads : read[r].at # "idle" => read[r].age < MaxCall
      /\ \A i \in Instances : write[i].at # "idle" => write[i].age < MaxCall
      /\ read' = [r \in Reads |-> IF read[r].at = "idle" THEN Idle ELSE [read[r] EXCEPT !.age = @ + 1]]
      /\ write' = [i \in Instances |-> IF write[i].at = "idle" THEN Resting ELSE [write[i] EXCEPT !.age = @ + 1]]
      /\ entry' = [i \in Instances |-> IF entry[i].age + 1 >= Window THEN None ELSE [entry[i] EXCEPT !.age = @ + 1]]
      /\ shared' = IF shared.ttl > 0 THEN [shared EXCEPT !.ttl = @ - 1] ELSE shared
      /\ gone' = [v \in Versions |-> Older(gone[v])]
      /\ told' = [v \in Versions |-> Older(told[v])]
  BY DEF MemoInv, MemoTick
<1>1. ASSUME NEW r \in Reads
      PROVE  /\ read'[r] \in Call
             /\ read[r].at = "idle" => read'[r].at = "idle"
             /\ read[r].at # "idle" => /\ read'[r].at = read[r].at /\ read'[r].v = read[r].v /\ read'[r].by = read[r].by
                                       /\ read'[r].listed = read[r].listed /\ read'[r].age = read[r].age + 1
  <2>1. read[r] \in Call /\ Idle \in Call /\ Idle.at = "idle"
    BY <1>0, Calls, Blanks DEF Call
  <2>2. CASE read[r].at = "idle"
    BY <1>0, <2>1, <2>2
  <2>3. CASE read[r].at # "idle"
    <3>1. read'[r] = [read[r] EXCEPT !.age = read[r].age + 1]
      BY <1>0, <2>3
    <3>2. read[r].age + 1 \in 0..MaxCall
      BY <1>0, <2>1, <2>3, MemoNumbers DEF Call
    <3> QED
      BY <2>1, <2>3, <3>1, <3>2 DEF Call
  <2> QED
    BY <2>2, <2>3
<1>2. ASSUME NEW i \in Instances
      PROVE  /\ write'[i] \in Making /\ write'[i].at = write[i].at
             /\ write[i].at # "idle" => write'[i].v = write[i].v /\ write'[i].age = write[i].age + 1
  <2>1. write[i] \in Making /\ Resting \in Making /\ Resting.at = "idle"
    BY <1>0, Fields, Blanks DEF Making
  <2>2. CASE write[i].at = "idle"
    BY <1>0, <2>1, <2>2
  <2>3. CASE write[i].at # "idle"
    <3>1. write'[i] = [write[i] EXCEPT !.age = write[i].age + 1]
      BY <1>0, <2>3
    <3>2. write[i].age + 1 \in 0..MaxCall
      BY <1>0, <2>1, <2>3, MemoNumbers DEF Making
    <3> QED
      BY <2>1, <2>3, <3>1, <3>2 DEF Making
  <2> QED
    BY <2>2, <2>3
<1>3. ASSUME NEW i \in Instances
      PROVE  /\ entry'[i] \in [v : Versions, age : Nat]
             /\ entry'[i].age < Window => entry[i].age < Window /\ entry'[i].v = entry[i].v /\ entry'[i].age = entry[i].age + 1
  <2>1. entry[i] \in [v : Versions, age : Nat] /\ entry[i].age \in Nat /\ None \in [v : Versions, age : Nat] /\ None.age = Window
    BY <1>0, Fields, Blanks
  <2>2. CASE entry[i].age + 1 >= Window
    BY <1>0, <2>1, <2>2, MemoNumbers
  <2>3. CASE ~(entry[i].age + 1 >= Window)
    <3>1. entry'[i] = [entry[i] EXCEPT !.age = entry[i].age + 1]
      BY <1>0, <2>3
    <3> QED
      BY <2>1, <2>3, <3>1, MemoNumbers
  <2> QED
    BY <2>2, <2>3
<1>4. /\ shared' \in [v : Versions, ttl : 0..SharedTtl] /\ shared'.v = shared.v
      /\ shared.ttl > 0 => shared'.ttl = shared.ttl - 1
      /\ ~(shared.ttl > 0) => shared'.ttl = shared.ttl
      /\ shared.ttl \in 0..SharedTtl
  BY <1>0, MemoNumbers DEF MemoTypeOK
<1>5. \A v \in Versions : /\ gone[v] \in Never..Horizon /\ told[v] \in Never..Horizon
                          /\ gone'[v] = Older(gone[v]) /\ told'[v] = Older(told[v])
  BY <1>0 DEF MemoTypeOK
<1>6. \A v \in Versions : /\ gone[v] \in Int /\ gone'[v] \in Int /\ told[v] \in Int /\ told'[v] \in Int
                          /\ gone'[v] <= gone[v] + 1 /\ told'[v] <= told[v] + 1
                          /\ gone'[v] \in Never..Horizon /\ told'[v] \in Never..Horizon
                          /\ (gone'[v] = Never <=> gone[v] = Never) /\ (told'[v] = Never <=> told[v] = Never)
  BY <1>5, OlderIs DEF Never
<1>7. MemoTypeOK'
  <2>1. read' \in [Reads -> Call] /\ write' \in [Instances -> Making] /\ entry' \in [Instances -> [v : Versions, age : Nat]]
    <3>1. read' = [r \in Reads |-> read'[r]] /\ write' = [i \in Instances |-> write'[i]] /\ entry' = [i \in Instances |-> entry'[i]]
      BY <1>0
    <3> QED
      BY <1>1, <1>2, <1>3, <3>1
  <2>2. gone' \in [Versions -> Never..Horizon] /\ told' \in [Versions -> Never..Horizon]
    <3>1. gone' = [v \in Versions |-> gone'[v]] /\ told' = [v \in Versions |-> told'[v]]
      BY <1>0
    <3> QED
      BY <1>6, <3>1
  <2> QED
    BY <1>0, <1>4, <2>1, <2>2 DEF MemoTypeOK, Call, Making
<1>8. Replaced'
  <2>1. \A v \in Versions : v >= db => gone'[v] = Never
    BY <1>6 DEF MemoInv, Replaced
  <2>2. ASSUME NEW u \in Versions, NEW v \in Versions, u <= v, v < db PROVE 0 <= gone'[v] /\ gone'[v] <= gone'[u]
    <3>1. 0 <= gone[v] /\ gone[v] <= gone[u]
      BY <2>2 DEF MemoInv, Replaced
    <3>2. gone[v] <= gone'[v] /\ gone'[v] <= gone'[u]
      BY <1>5, <3>1, OlderIs
    <3> QED
      BY <1>6, <3>1, <3>2
  <2> QED
    BY <1>0, <2>1, <2>2 DEF Replaced
<1>9. Aged'
  <2>1. ASSUME NEW r \in Reads PROVE ReadAged(read'[r], gone')
    <3>1. ReadAged(read[r], gone) /\ read[r].v \in Versions /\ read[r].age \in Nat
      BY <1>0, Fields DEF MemoInv, Aged
    <3> QED
      BY <1>1, <1>6, <3>1, MemoNumbers DEF ReadAged
  <2>2. ASSUME through, NEW i \in Instances PROVE WriteAged(write'[i], gone')
    <3>1. WriteAged(write[i], gone) /\ write[i].v \in Versions /\ write[i].age \in Nat
      BY <1>0, <2>2, Fields DEF MemoInv, Aged
    <3> QED
      BY <1>2, <1>6, <3>1 DEF WriteAged
  <2>3. SharedAged(shared', gone')
    <3>1. SharedAged(shared, gone) /\ shared.v \in Versions
      BY <1>0, Fields DEF MemoInv, Aged
    <3> QED
      BY <1>4, <1>6, <3>1, MemoNumbers DEF SharedAged
  <2>4. ASSUME NEW i \in Instances PROVE EntryAged(entry'[i], gone')
    <3>1. EntryAged(entry[i], gone) /\ entry[i].v \in Versions /\ entry[i].age \in Nat
      BY <1>0, Fields DEF MemoInv, Aged
    <3> QED
      BY <1>3, <1>6, <3>1, MemoNumbers DEF EntryAged
  <2> QED
    BY <1>0, <2>1, <2>2, <2>3, <2>4 DEF Aged
<1>10. ASSUME through, clean PROVE OneChange' /\ Current' /\ Known' /\ Reached'
  <2>1. OneChange /\ Current /\ Known /\ Reached
    BY <1>10 DEF MemoInv
  <2>2. Settled' = Settled /\ Settled \in Int
    BY <1>0, <1>2, SettledType DEF Settled
  <2>3. OneChange'
    BY <1>0, <1>2, <2>1 DEF OneChange
  <2>4. ASSUME Settled > 0 PROVE SharedTtl - shared'.ttl <= gone'[Settled - 1]
    <3>1. Settled - 1 \in Versions /\ Settled - 1 < db /\ Settled - 1 \in Int
      BY <1>0, <2>4, SettledBefore
    <3>2. 0 <= gone[Settled - 1] /\ SharedTtl - shared.ttl <= gone[Settled - 1]
      BY <2>1, <2>4, <3>1 DEF MemoInv, Replaced, Current
    <3>3. CASE gone[Settled - 1] < Horizon
      <4>1. gone'[Settled - 1] = gone[Settled - 1] + 1
        BY <1>5, <3>1, <3>2, <3>3, OlderIs DEF Never
      <4> QED
        BY <1>4, <1>6, <3>1, <3>2, <4>1, MemoNumbers
    <3>4. CASE ~(gone[Settled - 1] < Horizon)
      <4>1. gone'[Settled - 1] >= Horizon
        BY <1>5, <1>6, <3>1, <3>4, MemoNumbers, OlderIs
      <4> QED
        BY <1>4, <1>6, <3>1, <4>1, MemoNumbers
    <3> QED
      BY <3>3, <3>4
  <2>5. Current'
    BY <1>4, <2>1, <2>2, <2>4 DEF Current
  <2>6. Known'
    BY <1>0, <1>6, <2>1, <2>2 DEF Known
  <2>7. ASSUME NEW r \in Reads PROVE ReadReached(read'[r], told', wrote)
    <3>1. ReadReached(read[r], told, wrote) /\ read[r].v \in Versions /\ read[r].age \in Nat
      BY <1>0, <2>1, Fields DEF Reached
    <3> QED
      BY <1>1, <1>6, <3>1 DEF ReadReached, Bearing
  <2>8. ASSUME NEW i \in Instances PROVE EntryReached(entry'[i], told', wrote[i])
    <3>1. EntryReached(entry[i], told, wrote[i]) /\ entry[i].v \in Versions /\ entry[i].age \in Nat
      BY <1>0, <2>1, Fields DEF Reached
    <3> QED
      BY <1>3, <1>6, <3>1 DEF EntryReached
  <2> QED
    BY <1>0, <2>3, <2>5, <2>6, <2>7, <2>8 DEF Reached
<1> QED
  BY <1>0, <1>7, <1>8, <1>9, <1>10 DEF MemoInv

----------------------------------------------------------------------------

\* Every action of the memo keeps the invariant.
LEMMA MemoInvStep == MemoInv /\ [MemoNext]_memoVars => MemoInv'
<1> SUFFICES ASSUME MemoInv, [MemoNext]_memoVars PROVE MemoInv'
  OBVIOUS
<1>1. CASE UNCHANGED memoVars
  <2>1. UNCHANGED <<through, db, shared, entry, read, write, wrote, gone, told, clean, faults>>
    BY <1>1 DEF memoVars
  <2>2. Settled' = Settled
    BY <2>1 DEF Settled
  <2> QED
    BY <2>1, <2>2 DEF MemoInv, MemoTypeOK, Replaced, Aged, OneChange, Current, Known, Reached
<1>2. ASSUME NEW i \in Instances, NEW r \in Reads, load(i, r) PROVE MemoInv'
  BY <1>2, LoadKeeps
<1>3. ASSUME NEW r \in Reads, GetShared(r) \/ ReadStore(r) \/ Refill(r) \/ FillShared(r) \/ Store(r) \/ ReadFails(r)
      PROVE  MemoInv'
  BY <1>3, GetSharedKeeps, ReadStoreKeeps, RefillKeeps, FillSharedKeeps, StoreKeeps, ReadFailsKeeps
<1>4. ASSUME NEW i \in Instances,
             Change(i) \/ ChangeShared(i) \/ SharedRefused(i) \/ ChangeMemo(i) \/ Flush(i) \/ Restart(i)
      PROVE  MemoInv'
  BY <1>4, ChangeKeeps, ChangeSharedKeeps, SharedRefusedKeeps, ChangeMemoKeeps, FlushKeeps, RestartKeeps
<1>5. CASE MemoTick
  BY <1>5, TickKeeps
<1> QED
  BY <1>1, <1>2, <1>3, <1>4, <1>5 DEF MemoNext

\* The invariant bounds what a memo serves.
LEMMA MemoInvServes == MemoInv => StaleBounded /\ RotationReaches
<1> SUFFICES ASSUME MemoInv PROVE StaleBounded /\ RotationReaches
  OBVIOUS
<1>1. \A i \in Instances : /\ EntryAged(entry[i], gone) /\ entry[i].age \in Nat /\ entry[i].v \in Versions
                           /\ gone[entry[i].v] \in Int /\ told[entry[i].v] \in Int
  BY Fields DEF MemoInv, Aged
<1>2. StaleBounded
  BY <1>1, MemoNumbers DEF StaleBounded, Servable, EntryAged
<1>3. ASSUME through, clean PROVE \A i \in Instances : EntryReached(entry[i], told, wrote[i])
  BY <1>3 DEF MemoInv, Reached
<1>4. RotationReaches
  BY <1>1, <1>3, MemoNumbers DEF RotationReaches, Servable, EntryReached
<1> QED
  BY <1>2, <1>4

\* Whatever the number of instances, reads and versions, and whatever races or fails, a memo's value
\* was replaced at most one call, one life of the shared copy and one window ago; and once a
\* change has returned, one window (lib/ttlMemo.ts, services/settings.service.ts).
THEOREM MemoServes == MemoSpec => [](MemoTypeOK /\ StaleBounded /\ RotationReaches)
<1>1. MemoInv => MemoTypeOK
  BY DEF MemoInv
<1> QED
  BY <1>1, MemoInvInit, MemoInvStep, MemoInvServes, PTL DEF MemoSpec

=============================================================================
