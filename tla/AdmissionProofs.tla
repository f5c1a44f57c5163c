-------------------------- MODULE AdmissionProofs --------------------------
(***************************************************************************)
(* What stands between a request and a key: its two limits and, at the     *)
(* end of the module, its circuit breaker.                                 *)
(*                                                                         *)
(* The composition of the two limits keeps each limit's own promise.  Seen *)
(* through its request counters, an admission with both limits is an       *)
(* admission of RateWindow, and a settlement is no step at all; seen       *)
(* through its token counters, it is TpmReserve.  So what is proved of     *)
(* each of them, for every set of requests, limit, window and reservation, *)
(* holds of the two together.                                              *)
(***************************************************************************)
EXTENDS Admission, Breaker, SumProofs

\* The constants of the request limit.
LEMMA RpmRate == Window \in Nat \ {0} /\ RpmLimit \in Nat
  BY RateConstants, RpmConstants

----------------------------------------------------------------------------
(* The arithmetic of the rule.                                             *)

\* Multiplication keeps the order, and products of naturals are naturals.
LEMMA MulMono ==
  ASSUME NEW a \in Nat, NEW b \in Nat, NEW c \in Nat, a <= b
  PROVE  a * c <= b * c /\ c * a <= c * b /\ a * c \in Nat /\ c * a \in Nat
  OBVIOUS

\* A common positive factor can be cancelled.
LEMMA MulCancel ==
  ASSUME NEW a \in Nat, NEW b \in Nat, NEW c \in Nat \ {0}, a * c <= b * c
  PROVE  a <= b
  OBVIOUS

\* The weighted count, and the limit it is compared with, are naturals.
LEMMA CountNat ==
  ASSUME NEW c \in Nat, NEW p \in Nat, NEW e \in 0..Window
  PROVE  Rpm!Count(c, p, e) \in Nat /\ RpmLimit * Window \in Nat
<1>1. Window - e \in Nat /\ Window \in Nat /\ RpmLimit \in Nat
  BY RpmRate
<1>2. c * Window \in Nat /\ p * (Window - e) \in Nat /\ RpmLimit * Window \in Nat
  BY <1>1, MulMono
<1> QED
  BY <1>2 DEF Rpm!Count

\* The weighted count falls with either counter and with the time passed.
LEMMA CountMono ==
  ASSUME NEW c \in Nat, NEW c1 \in 0..c, NEW p \in Nat, NEW p1 \in 0..p,
         NEW e \in Nat, NEW e1 \in Nat, e <= e1, e1 <= Window
  PROVE  Rpm!Count(c1, p1, e1) <= Rpm!Count(c, p, e)
<1> USE RpmRate
<1> DEFINE w == Window - e  w1 == Window - e1
<1>1. w \in Nat /\ w1 \in Nat /\ w1 <= w /\ Window \in Nat
  OBVIOUS
<1> HIDE DEF w, w1
<1>2. c1 * Window <= c * Window /\ c1 * Window \in Nat /\ c * Window \in Nat
  BY <1>1, MulMono
<1>3. p1 * w1 <= p * w1 /\ p1 * w1 \in Nat /\ p * w1 \in Nat
  BY <1>1, MulMono
<1>4. p * w1 <= p * w /\ p * w \in Nat
  BY <1>1, MulMono
<1>5. c1 * Window + p1 * w1 <= c * Window + p * w
  BY <1>2, <1>3, <1>4
<1> QED
  BY <1>5 DEF Rpm!Count, w, w1

\* One more request weighs exactly one window.
LEMMA CountAdmit ==
  ASSUME NEW c \in Nat, NEW p \in Nat, NEW e \in 0..Window
  PROVE  Rpm!Count(c + 1, p, e) = Rpm!Count(c, p, e) + 1 * Window
  BY RpmRate DEF Rpm!Count

\* A count within the limit has a current counter within it.
LEMMA CountCapsCurrent ==
  ASSUME NEW c \in Nat, NEW p \in Nat, NEW e \in 0..Window, Rpm!Count(c, p, e) <= RpmLimit * Window
  PROVE  c <= RpmLimit
<1>1. p * (Window - e) \in Nat /\ c * Window \in Nat /\ RpmLimit * Window \in Nat
  BY RpmRate, MulMono
<1>2. c * Window <= RpmLimit * Window
  BY <1>1 DEF Rpm!Count
<1> QED
  BY <1>2, RpmRate, MulCancel

\* At a boundary the old counter counts in full.
LEMMA CountRolled ==
  ASSUME NEW c \in 0..RpmLimit
  PROVE  Rpm!Count(0, c, 0) <= RpmLimit * Window
  BY RpmRate, MulMono DEF Rpm!Count

\* Whoever passes a limit's test fits in the current window by itself, whatever is left of the
\* previous one.
LEMMA RoomFits ==
  ASSUME NEW c \in Nat, NEW p \in Nat, NEW e \in 0..Window, NEW n \in Nat, NEW limit \in Nat,
         (c * Window + p * (Window - e)) + n * Window <= limit * Window
  PROVE  c + n <= limit
<1>1. Window \in Nat \ {0} /\ Window - e \in Nat
  BY RpmRate
<1>2. /\ c * Window \in Nat /\ n * Window \in Nat /\ p * (Window - e) \in Nat /\ limit * Window \in Nat
      /\ (c + n) * Window = c * Window + n * Window
  BY <1>1, MulMono
<1>3. (c + n) * Window <= limit * Window
  BY <1>2
<1> QED
  BY <1>1, <1>3, MulCancel

----------------------------------------------------------------------------
(* The request windows.                                                    *)

RpmInv == Rpm!TypeOK /\ Rpm!WeightedWithinLimit

\* An admission keeps the weighted count within the limit: that is what it tests.
LEMMA AdmitStep == RpmInv /\ Rpm!Admit => RpmInv'
<1> SUFFICES ASSUME RpmInv, Rpm!Admit PROVE RpmInv'
  OBVIOUS
<1>1. cur \in Nat /\ prev \in Nat /\ elapsed \in 0..Window
  BY RpmRate DEF RpmInv, Rpm!TypeOK
<1>2. Rpm!Count(cur + 1, prev, elapsed) <= RpmLimit * Window
  BY <1>1, CountAdmit DEF Rpm!Admit, Rpm!HasRoom
<1>3. cur + 1 <= RpmLimit
  BY <1>1, <1>2, CountCapsCurrent
<1>4. Rpm!TypeOK'
  BY <1>3, RpmRate DEF RpmInv, Rpm!TypeOK, Rpm!Admit, Rpm!WindowTtl
<1>5. Rpm!WeightedWithinLimit'
  BY <1>2 DEF Rpm!Admit, Rpm!WeightedWithinLimit
<1> QED
  BY <1>4, <1>5 DEF RpmInv

\* Inside a window time only lowers the weight of the previous counter.
LEMMA TickWithinStep == RpmInv /\ Rpm!TickWithin => RpmInv'
<1> SUFFICES ASSUME RpmInv, Rpm!TickWithin PROVE RpmInv'
  OBVIOUS
<1>1. /\ cur \in Nat /\ prev \in Nat /\ elapsed \in Nat /\ elapsed + 1 < Window
      /\ cur' \in 0..cur /\ prev' \in 0..prev /\ elapsed' = elapsed + 1
  BY RpmRate DEF RpmInv, Rpm!TypeOK, Rpm!TickWithin, Rpm!Age
<1>2. Rpm!TypeOK'
  BY <1>1, RpmRate DEF RpmInv, Rpm!TypeOK, Rpm!TickWithin, Rpm!Dec, Rpm!WindowTtl
<1>3. Rpm!Count(cur', prev', elapsed') <= Rpm!Count(cur, prev, elapsed)
  BY <1>1, RpmRate, CountMono
<1>4. /\ Rpm!Count(cur', prev', elapsed') \in Nat /\ Rpm!Count(cur, prev, elapsed) \in Nat
      /\ RpmLimit * Window \in Nat
  <2>1. /\ cur' \in Nat /\ prev' \in Nat /\ elapsed' \in 0..Window
        /\ elapsed \in 0..Window
    BY <1>1, RpmRate
  <2> QED
    BY <1>1, <2>1, CountNat
<1>5. Rpm!WeightedWithinLimit'
  BY <1>3, <1>4 DEF RpmInv, Rpm!WeightedWithinLimit
<1> QED
  BY <1>2, <1>5 DEF RpmInv

\* At the boundary the whole current counter becomes the previous one, at full weight: what it
\* counted was within the limit by itself.
LEMMA TickRollsStep == RpmInv /\ Rpm!TickRolls => RpmInv'
<1> SUFFICES ASSUME RpmInv, Rpm!TickRolls PROVE RpmInv'
  OBVIOUS
<1>1. prev' \in 0..RpmLimit /\ cur' = 0 /\ elapsed' = 0
  BY RpmRate DEF RpmInv, Rpm!TypeOK, Rpm!TickRolls, Rpm!Age
<1>2. Rpm!TypeOK'
  BY <1>1, RpmRate DEF RpmInv, Rpm!TypeOK, Rpm!TickRolls, Rpm!Dec, Rpm!WindowTtl
<1>3. Rpm!WeightedWithinLimit'
  BY <1>1, CountRolled DEF Rpm!WeightedWithinLimit
<1> QED
  BY <1>2, <1>3 DEF RpmInv

\* The counters keep their bounds, and at no instant does the weighted count pass the limit:
\* for every window length and limit.
THEOREM RpmLimitHolds == Rpm!Spec => [](Rpm!TypeOK /\ Rpm!WeightedWithinLimit)
<1>1. Rpm!Init => RpmInv
  <2> SUFFICES ASSUME Rpm!Init PROVE RpmInv
    OBVIOUS
  <2>1. Rpm!TypeOK
    BY RpmRate DEF Rpm!Init, Rpm!TypeOK, Rpm!WindowTtl
  <2>2. Rpm!WeightedWithinLimit
    BY RpmRate, CountRolled DEF Rpm!Init, Rpm!WeightedWithinLimit
  <2> QED
    BY <2>1, <2>2 DEF RpmInv
<1>2. RpmInv /\ [Rpm!Next]_Rpm!vars => RpmInv'
  <2>1. RpmInv /\ UNCHANGED Rpm!vars => RpmInv'
    BY DEF RpmInv, Rpm!TypeOK, Rpm!WeightedWithinLimit, Rpm!vars
  <2> QED
    BY <2>1, AdmitStep, TickWithinStep, TickRollsStep DEF Rpm!Next
<1> QED
  BY <1>1, <1>2, PTL DEF Rpm!Spec, RpmInv

----------------------------------------------------------------------------
(* What was admitted.                                                      *)

\* No counter is lost while it is read: the current one lives to the end of the next window, the
\* previous one to the end of this.
Deadlines ==
  /\ cur > 0 => curTtl + elapsed >= 2 * Window
  /\ prev > 0 => prevTtl + elapsed >= Window

\* RateWindow's CountersMatchHistory and NoDoubleBurst, with the sums of SumProofs.
Matches ==
  /\ cur = SumFunctionOnSet(hist, 0..elapsed)
  /\ prev = SumFunctionOnSet(hist, (elapsed + 1)..(elapsed + Window))

Burst == SumFunctionOnSet(hist, 0..(Window - 1))
BurstBelowTwice == RpmLimit > 0 => Burst < 2 * RpmLimit

HistoryInv == hist \in [Rpm!Ages -> Nat] /\ Deadlines /\ Matches

\* The history of any part of the last two windows has a sum.
LEMMA HistorySum ==
  ASSUME hist \in [Rpm!Ages -> Nat], NEW a \in Nat, NEW b \in Int, b < 2 * Window
  PROVE  /\ \A i \in a..b : hist[i] \in Int
         /\ SumFunctionOnSet(hist, a..b) \in Nat /\ IsFiniteSet(a..b)
<1>1. \A i \in a..b : hist[i] \in Nat
  BY RpmRate DEF Rpm!Ages
<1>2. IsFiniteSet(a..b)
  BY FS_Interval
<1>3. /\ SumFunctionOnSet(hist, a..b) \in Int
      /\ (\A i \in a..b : hist[i] >= 0) => SumFunctionOnSet(hist, a..b) >= 0
  BY <1>1, <1>2, SumType
<1> QED
  BY <1>1, <1>2, <1>3

\* A tick moves every admission one tick further into the past.
LEMMA ShiftMoves ==
  ASSUME hist \in [Rpm!Ages -> Nat], Rpm!Shift
  PROVE  /\ hist' \in [Rpm!Ages -> Nat] /\ hist'[0] = 0
         /\ \A a, b \in Nat : a <= b + 1 /\ b + 1 < 2 * Window =>
              SumFunctionOnSet(hist', (a + 1)..(b + 1)) = SumFunctionOnSet(hist, a..b)
<1>1. \A i \in Rpm!Ages : i # 0 => i - 1 \in Rpm!Ages
  BY RpmRate DEF Rpm!Ages
<1>2. hist' \in [Rpm!Ages -> Nat] /\ hist'[0] = 0 /\ \A i \in Rpm!Ages : i # 0 => hist'[i] = hist[i - 1]
  BY <1>1, RpmRate DEF Rpm!Shift, Rpm!Ages
<1>3. ASSUME NEW a \in Nat, NEW b \in Nat, a <= b + 1, b + 1 < 2 * Window
      PROVE  SumFunctionOnSet(hist', (a + 1)..(b + 1)) = SumFunctionOnSet(hist, a..b)
  <2>1. \A i \in a..b : i + 1 \in Rpm!Ages /\ i + 1 # 0 /\ (i + 1) - 1 = i /\ i \in Rpm!Ages
    BY <1>3, RpmRate DEF Rpm!Ages
  <2>2. \A i \in a..b : hist[i] \in Int /\ hist'[i + 1] = hist[i]
    BY <1>2, <2>1
  <2> QED
    BY <1>3, <2>2, SumShift
<1> QED
  BY <1>2, <1>3

\* An admission adds one to the latest tick, and to the current counter.
LEMMA AdmitHistory == RpmInv /\ HistoryInv /\ Rpm!Admit => HistoryInv'
<1> SUFFICES ASSUME RpmInv, HistoryInv, Rpm!Admit PROVE HistoryInv'
  OBVIOUS
<1>1. /\ elapsed \in Nat /\ elapsed < Window /\ Window \in Nat \ {0} /\ cur \in Nat /\ prev \in Nat
      /\ elapsed' = elapsed /\ cur' = cur + 1 /\ prev' = prev /\ prevTtl' = prevTtl /\ curTtl' = 2 * Window
  BY RpmRate DEF RpmInv, Rpm!TypeOK, Rpm!Admit, Rpm!WindowTtl
<1>2. /\ hist \in [Rpm!Ages -> Nat] /\ hist' \in [Rpm!Ages -> Nat] /\ 0 \in Rpm!Ages /\ hist'[0] = hist[0] + 1
      /\ \A i \in Rpm!Ages \ {0} : hist'[i] = hist[i]
  BY <1>1 DEF HistoryInv, Rpm!Admit, Rpm!Ages
<1>3. Deadlines'
  BY <1>1 DEF HistoryInv, Deadlines
<1>4. cur' = SumFunctionOnSet(hist', 0..elapsed')
  <2>1. \A i \in 0..elapsed : i \in Rpm!Ages /\ hist[i] \in Int /\ hist'[i] \in Int
    BY <1>1, <1>2 DEF Rpm!Ages
  <2>2. \A i \in (0..elapsed) \ {0} : hist'[i] = hist[i]
    BY <1>2, <2>1
  <2>3. IsFiniteSet(0..elapsed) /\ 0 \in 0..elapsed
    BY <1>1, FS_Interval
  <2>4. SumFunctionOnSet(hist', 0..elapsed) = (SumFunctionOnSet(hist, 0..elapsed) - hist[0]) + hist'[0]
    <3>1. PICK I, h, g : I = 0..elapsed /\ h = hist /\ g = hist'
      OBVIOUS
    <3>2. /\ IsFiniteSet(I) /\ 0 \in I /\ \A i \in I : h[i] \in Int /\ g[i] \in Int
          /\ \A i \in I \ {0} : g[i] = h[i]
      BY <2>1, <2>2, <2>3, <3>1, Zenon
    <3>3. SumFunctionOnSet(g, I) = (SumFunctionOnSet(h, I) - h[0]) + g[0]
      BY <3>2, SumChange
    <3> QED
      BY <3>1, <3>3
  <2>5. SumFunctionOnSet(hist, 0..elapsed) = cur /\ hist[0] \in Int
    BY <1>2 DEF HistoryInv, Matches
  <2> QED
    BY <1>1, <1>2, <2>4, <2>5
<1>5. prev' = SumFunctionOnSet(hist', (elapsed' + 1)..(elapsed' + Window))
  <2>1. \A i \in (elapsed + 1)..(elapsed + Window) : i \in Rpm!Ages \ {0}
    BY <1>1 DEF Rpm!Ages
  <2>2. IsFiniteSet((elapsed + 1)..(elapsed + Window))
    BY <1>1, FS_Interval
  <2>3. SumFunctionOnSet(hist', (elapsed + 1)..(elapsed + Window))
          = SumFunctionOnSet(hist, (elapsed + 1)..(elapsed + Window))
    <3>1. PICK I, h, g : I = (elapsed + 1)..(elapsed + Window) /\ h = hist /\ g = hist'
      OBVIOUS
    <3>2. IsFiniteSet(I) /\ \A i \in I : g[i] = h[i]
      BY <1>2, <2>1, <2>2, <3>1, Zenon
    <3>3. SumFunctionOnSet(g, I) = SumFunctionOnSet(h, I)
      BY <3>2, SumEqual
    <3> QED
      BY <3>1, <3>3
  <2> QED
    BY <1>1, <2>3 DEF HistoryInv, Matches
<1> QED
  BY <1>2, <1>3, <1>4, <1>5 DEF HistoryInv, Matches

\* Inside a window both counters survive the tick, and so do their sums.
LEMMA TickWithinHistory == RpmInv /\ HistoryInv /\ Rpm!TickWithin => HistoryInv'
<1> SUFFICES ASSUME RpmInv, HistoryInv, Rpm!TickWithin PROVE HistoryInv'
  OBVIOUS
<1>1. /\ elapsed \in Nat /\ elapsed + 1 < Window /\ Window \in Nat \ {0} /\ cur \in Nat /\ prev \in Nat
      /\ curTtl \in Nat /\ prevTtl \in Nat /\ elapsed' = elapsed + 1
  BY RpmRate DEF RpmInv, Rpm!TypeOK, Rpm!TickWithin, Rpm!WindowTtl
<1>2. cur' = cur /\ prev' = prev /\ Deadlines'
  BY <1>1 DEF HistoryInv, Deadlines, Rpm!TickWithin, Rpm!Age, Rpm!Dec
<1>3. /\ hist' \in [Rpm!Ages -> Nat] /\ hist'[0] = 0
      /\ \A a, b \in Nat : a <= b + 1 /\ b + 1 < 2 * Window =>
           SumFunctionOnSet(hist', (a + 1)..(b + 1)) = SumFunctionOnSet(hist, a..b)
  BY ShiftMoves DEF HistoryInv, Rpm!TickWithin
<1>4. cur' = SumFunctionOnSet(hist', 0..(elapsed + 1))
  <2>1. SumFunctionOnSet(hist', (0 + 1)..(elapsed + 1)) = SumFunctionOnSet(hist, 0..elapsed)
    BY <1>1, <1>3
  <2>2. \A i \in 0..(elapsed + 1) : hist'[i] \in Int
    BY <1>1, <1>3 DEF Rpm!Ages
  <2>3. SumFunctionOnSet(hist', 0..(elapsed + 1)) = hist'[0] + SumFunctionOnSet(hist', (0 + 1)..(elapsed + 1))
    <3>1. elapsed + 1 \in Int /\ 0 <= elapsed + 1
      BY <1>1
    <3> QED
      BY <2>2, <3>1, SumFirst
  <2>4. cur = SumFunctionOnSet(hist, 0..elapsed)
    BY DEF HistoryInv, Matches
  <2> QED
    BY <1>1, <1>2, <1>3, <2>1, <2>3, <2>4
<1>5. prev' = SumFunctionOnSet(hist', ((elapsed + 1) + 1)..((elapsed + 1) + Window))
  <2>1. elapsed + 1 \in Nat /\ elapsed + Window \in Nat /\ (elapsed + Window) + 1 = (elapsed + 1) + Window
    BY <1>1
  <2>2. SumFunctionOnSet(hist', ((elapsed + 1) + 1)..((elapsed + Window) + 1))
          = SumFunctionOnSet(hist, (elapsed + 1)..(elapsed + Window))
    BY <1>1, <1>3, <2>1
  <2> QED
    BY <1>2, <2>1, <2>2 DEF HistoryInv, Matches
<1> QED
  BY <1>1, <1>2, <1>3, <1>4, <1>5 DEF HistoryInv, Matches

\* At the boundary the whole current window is the previous one, and the new one is empty.
LEMMA TickRollsHistory == RpmInv /\ HistoryInv /\ Rpm!TickRolls => HistoryInv'
<1> SUFFICES ASSUME RpmInv, HistoryInv, Rpm!TickRolls PROVE HistoryInv'
  OBVIOUS
<1>1. /\ Window \in Nat \ {0} /\ elapsed = Window - 1 /\ elapsed' = 0 /\ cur' = 0 /\ cur \in Nat
      /\ curTtl \in Nat
  BY RpmRate DEF RpmInv, Rpm!TypeOK, Rpm!TickRolls, Rpm!WindowTtl
<1>2. prev' = cur /\ Deadlines'
  BY <1>1 DEF HistoryInv, Deadlines, Rpm!TickRolls, Rpm!Age, Rpm!Dec
<1>3. /\ hist' \in [Rpm!Ages -> Nat] /\ hist'[0] = 0
      /\ \A a, b \in Nat : a <= b + 1 /\ b + 1 < 2 * Window =>
           SumFunctionOnSet(hist', (a + 1)..(b + 1)) = SumFunctionOnSet(hist, a..b)
  BY ShiftMoves DEF HistoryInv, Rpm!TickRolls
<1>4. 0 = SumFunctionOnSet(hist', 0..0)
  <2>1. \A i \in 0..0 : i = 0
    OBVIOUS
  <2>2. IsFiniteSet(0..0)
    <3>1. 0..0 = {0}
      OBVIOUS
    <3> QED
      BY <3>1, FS_Singleton
  <2> QED
    BY <1>3, <2>1, <2>2, SumZero
<1>5. cur = SumFunctionOnSet(hist', (0 + 1)..(0 + Window))
  <2>1. Window - 1 \in Nat /\ (Window - 1) + 1 = 0 + Window
    BY <1>1
  <2>2. SumFunctionOnSet(hist', (0 + 1)..((Window - 1) + 1)) = SumFunctionOnSet(hist, 0..(Window - 1))
    BY <1>1, <1>3, <2>1
  <2> QED
    BY <1>1, <2>1, <2>2 DEF HistoryInv, Matches
<1> QED
  BY <1>1, <1>2, <1>3, <1>4, <1>5 DEF HistoryInv, Matches

\* The trailing window holds the current counter and a part of the previous one, and the weighted
\* count lets the two reach the limit together never.
LEMMA BurstBounded == RpmInv /\ HistoryInv => BurstBelowTwice
<1> SUFFICES ASSUME RpmInv, HistoryInv, RpmLimit > 0 PROVE Burst < 2 * RpmLimit
  BY DEF BurstBelowTwice
<1>1. /\ Window \in Nat \ {0} /\ RpmLimit \in Nat \ {0} /\ elapsed \in Nat /\ elapsed < Window
      /\ cur \in 0..RpmLimit /\ prev \in 0..RpmLimit /\ hist \in [Rpm!Ages -> Nat]
  BY RpmRate DEF RpmInv, Rpm!TypeOK, HistoryInv
<1> DEFINE inside == SumFunctionOnSet(hist, (elapsed + 1)..(Window - 1))
           past   == SumFunctionOnSet(hist, ((Window - 1) + 1)..(elapsed + Window))
<1>2. Burst = cur + inside
  <2>1. \A i \in 0..(Window - 1) : hist[i] \in Int
    BY <1>1 DEF Rpm!Ages
  <2>2. SumFunctionOnSet(hist, 0..(Window - 1)) = SumFunctionOnSet(hist, 0..elapsed) + inside
    <3>1. 0 <= elapsed + 1 /\ elapsed <= Window - 1 /\ elapsed \in Int /\ Window - 1 \in Int
      BY <1>1
    <3> QED
      BY <2>1, <3>1, SumSplit
  <2> QED
    BY <2>2 DEF Burst, HistoryInv, Matches
<1>3. prev = inside + past
  <2>1. \A i \in (elapsed + 1)..(elapsed + Window) : hist[i] \in Int
    BY <1>1 DEF Rpm!Ages
  <2>2. /\ elapsed + 1 <= (Window - 1) + 1 /\ Window - 1 <= elapsed + Window
        /\ elapsed + 1 \in Int /\ Window - 1 \in Int /\ elapsed + Window \in Int
    BY <1>1
  <2>3. SumFunctionOnSet(hist, (elapsed + 1)..(elapsed + Window)) = inside + past
    BY <2>1, <2>2, SumSplit
  <2> QED
    BY <2>3 DEF HistoryInv, Matches
<1>4. inside \in Nat /\ past \in Nat
  <2>1. /\ elapsed + 1 \in Nat /\ (Window - 1) + 1 \in Nat /\ Window - 1 \in Int /\ elapsed + Window \in Int
        /\ Window - 1 < 2 * Window /\ elapsed + Window < 2 * Window
    BY <1>1
  <2> QED
    BY <1>1, <2>1, HistorySum
<1> HIDE DEF inside, past
<1>5. ~(cur = RpmLimit /\ prev = RpmLimit)
  <2> SUFFICES ASSUME cur = RpmLimit, prev = RpmLimit PROVE FALSE
    OBVIOUS
  <2> DEFINE w == Window - elapsed
  <2>1. w \in Nat \ {0}
    BY <1>1
  <2>2. RpmLimit * Window + RpmLimit * w <= RpmLimit * Window
    BY DEF RpmInv, Rpm!WeightedWithinLimit, Rpm!Count
  <2> HIDE DEF w
  <2>3. 1 * w <= RpmLimit * w /\ RpmLimit * w \in Nat /\ RpmLimit * Window \in Nat
    BY <1>1, <2>1, MulMono
  <2> QED
    BY <2>1, <2>2, <2>3
<1> QED
  BY <1>1, <1>2, <1>3, <1>4, <1>5

\* The counters are exactly what was admitted in this window and the one before, and so no trailing
\* window, wherever it begins, holds twice the limit: for every window length and limit.
LEMMA NoBurst == Rpm!Spec => [](Matches /\ BurstBelowTwice)
<1>1. Rpm!Init => HistoryInv
  <2> SUFFICES ASSUME Rpm!Init PROVE HistoryInv
    OBVIOUS
  <2>1. hist \in [Rpm!Ages -> Nat] /\ \A i \in Rpm!Ages : hist[i] = 0
    BY DEF Rpm!Init
  <2>2. Deadlines
    BY DEF Rpm!Init, Deadlines
  <2>3. cur = SumFunctionOnSet(hist, 0..elapsed)
    <3>1. elapsed = 0 /\ cur = 0
      BY DEF Rpm!Init
    <3>2. \A i \in 0..elapsed : i \in Rpm!Ages
      BY <3>1, RpmRate DEF Rpm!Ages
    <3>3. IsFiniteSet(0..elapsed)
      <4>1. 0..elapsed = {0}
        BY <3>1
      <4> QED
        BY <4>1, FS_Singleton
    <3> QED
      BY <2>1, <3>1, <3>2, <3>3, SumZero
  <2>4. prev = SumFunctionOnSet(hist, (elapsed + 1)..(elapsed + Window))
    <3>1. Window \in Nat \ {0} /\ elapsed = 0 /\ prev = 0
      BY RpmRate DEF Rpm!Init
    <3>2. \A i \in 1..Window : i \in Rpm!Ages /\ i - 1 \in Rpm!Ages
      BY <3>1 DEF Rpm!Ages
    <3>3. IsFiniteSet(1..Window)
      BY <3>1, FS_Interval
    <3>4. SumFunctionOnSet(hist, 1..Window) = 0
      <4>1. \A i \in 1..Window : hist[i] = 0
        BY <2>1, <3>2
      <4> QED
        BY <3>3, <4>1, SumZero
    <3> QED
      BY <3>1, <3>4
  <2> QED
    BY <2>1, <2>2, <2>3, <2>4 DEF HistoryInv, Matches
<1>2. RpmInv /\ HistoryInv /\ [Rpm!Next]_Rpm!vars => HistoryInv'
  <2>1. HistoryInv /\ UNCHANGED Rpm!vars => HistoryInv'
    BY DEF HistoryInv, Deadlines, Matches, Rpm!vars
  <2> QED
    BY <2>1, AdmitHistory, TickWithinHistory, TickRollsHistory DEF Rpm!Next
<1>3. RpmInv /\ HistoryInv => Matches /\ BurstBelowTwice
  BY BurstBounded DEF HistoryInv
<1>4. Rpm!Spec => []RpmInv
  BY RpmLimitHolds, PTL DEF RpmInv
<1> QED
  BY <1>1, <1>2, <1>3, <1>4, PTL DEF Rpm!Spec

----------------------------------------------------------------------------
(* The two limits together.                                                *)

\* Every step of the composition is a step of the request limit, or leaves it alone.
LEMMA StepIsRpmStep == [AdmissionNext]_allVars => [Rpm!Next]_Rpm!vars
<1> SUFFICES ASSUME [AdmissionNext]_allVars PROVE [Rpm!Next]_Rpm!vars
  OBVIOUS
<1>1. ASSUME NEW r \in Requests, NEW n \in 1..MaxReserve, admit(r, n) PROVE Rpm!Next
  BY <1>1 DEF admit, Rpm!Next
<1>2. ASSUME NEW r \in Requests, NEW used \in 0..MaxUsed, settle(r, used) PROVE UNCHANGED Rpm!vars
  BY <1>2 DEF settle, rpmVars, Rpm!vars, ReconcileRefund, ReconcileCharge, ReconcileNothing
<1>3. ASSUME NEW r \in Requests, NEW used \in 0..MaxUsed, leave(r, used) PROVE UNCHANGED Rpm!vars
  BY <1>3 DEF leave, rpmVars, Rpm!vars, LeftAsReserved
<1>4. ASSUME time PROVE Rpm!Next
  BY <1>4 DEF time, Rpm!Next
<1>5. ASSUME UNCHANGED allVars PROVE UNCHANGED Rpm!vars
  BY <1>5 DEF allVars, vars, rpmVars, Rpm!vars
<1> QED
  BY <1>1, <1>2, <1>3, <1>4, <1>5 DEF AdmissionNext

\* Composed with the token limit and its settlements, the request limit is still RateWindow: the
\* select script writes both counters or neither, and reconciling touches the tokens only.
THEOREM AdmissionImplementsRpm == AdmissionSpec => Rpm!Spec
<1>1. AdmissionInit => Rpm!Init
  BY DEF AdmissionInit
<1> QED
  BY <1>1, StepIsRpmStep, PTL DEF AdmissionSpec, Rpm!Spec

\* So the weighted count of requests stays within the limit whatever the token limit refuses.
THEOREM AdmissionWithinLimit == AdmissionSpec => []WeightedWithinLimit
  BY AdmissionImplementsRpm, RpmLimitHolds, PTL DEF WeightedWithinLimit

\* And no trailing window holds twice the request limit: the counters still are what was admitted.
THEOREM AdmissionNoBurst == AdmissionSpec => [](CountersMatchHistory /\ NoDoubleBurst)
<1>1. Matches /\ BurstBelowTwice => CountersMatchHistory /\ NoDoubleBurst
  BY DEF CountersMatchHistory, Rpm!CountersMatchHistory, Matches, NoDoubleBurst, Rpm!NoDoubleBurst, BurstBelowTwice,
         Rpm!Trailing, Burst, Rpm!SumFunctionOnSet, SumFunctionOnSet, Rpm!FoldFunctionOnSet, FoldFunctionOnSet,
         Rpm!MapThenFoldSet, MapThenFoldSet
<1> QED
  BY <1>1, AdmissionImplementsRpm, NoBurst, PTL

----------------------------------------------------------------------------
(* The tokens.                                                             *)

\* The default mode keeps every window within the limit because the reservation is tested
\* against it and refunds only lower the counter; the deadline is set at each reservation and
\* ages with the window.  The deadline must also be known of a counter refunded to zero, which a
\* later charge fills again.
TpmInv == TypeOK /\ WindowWithinLimit /\ DeadlineCoversNextWindow

\* Whoever passes the token test fits in the current window by itself.
LEMMA ReserveFits ==
  ASSUME TypeOK, NEW r \in Requests, NEW n \in 1..MaxReserve, Reserve(r, n)
  PROVE  tpm + n <= Limit
<1>1. (tpm * Window + tpmPrev * (Window - elapsed)) + n * Window <= Limit * Window
  BY DEF Reserve, HasRoom, Count
<1>2. tpm \in Nat /\ tpmPrev \in Nat /\ elapsed \in 0..Window /\ n \in Nat /\ Limit \in Nat
  BY RateConstants, ReserveConstants DEF TypeOK
<1> QED
  BY <1>1, <1>2, RoomFits

\* Every reservation, refund, charge and tick keeps the invariant.
LEMMA TpmStep == TpmInv /\ [Next]_vars => TpmInv'
<1> SUFFICES ASSUME TpmInv, [Next]_vars PROVE TpmInv'
  OBVIOUS
<1> USE RateConstants, ReserveConstants
        DEF TpmInv, TypeOK, WindowWithinLimit, DeadlineCoversNextWindow, WindowTtl, counters, history
<1>1. ASSUME NEW r \in Requests, NEW n \in 1..MaxReserve, Reserve(r, n) PROVE TpmInv'
  <2>1. tpm + n <= Limit
    BY <1>1, ReserveFits
  <2> QED
    BY <1>1, <2>1 DEF Reserve
<1>2. ASSUME NEW r \in Requests, NEW used \in 0..MaxUsed, ReconcileRefund(r, used) PROVE TpmInv'
  BY <1>2 DEF ReconcileRefund, Refund, Settled
<1>3. ASSUME NEW r \in Requests, NEW used \in 0..MaxUsed, ReconcileCharge(r, used) PROVE TpmInv'
  <2>1. TypeOK'
    <3>1. held[r] \in 0..MaxReserve /\ used - held[r] \in Nat
      BY <1>3 DEF ReconcileCharge
    <3> QED
      BY <1>3, <3>1 DEF ReconcileCharge, Charge, Settled
  <2>2. WindowWithinLimit'
    BY <1>3 DEF ReconcileCharge
  <2>3. DeadlineCoversNextWindow'
    BY <1>3 DEF ReconcileCharge, Charge
  <2> QED
    BY <2>1, <2>2, <2>3
<1>4. ASSUME NEW r \in Requests, NEW used \in 0..MaxUsed,
             ReconcileNothing(r, used) \/ LeftAsReserved(r, used)
      PROVE  TpmInv'
  <2>1. /\ UNCHANGED <<elapsed, counters, twoWay>> /\ held' \in [Requests -> 0..MaxReserve]
        /\ straddles' \subseteq {q \in Requests : held'[q] > 0}
    BY <1>4 DEF ReconcileNothing, LeftAsReserved, Settled
  <2>2. Uncorrected(r, used) /\ held[r] \in 0..MaxReserve
    BY <1>4 DEF ReconcileNothing, LeftAsReserved
  <2>3. booked' \in Int /\ givenBack' \in Nat /\ carried' \in Nat /\ uncharged' \in Nat /\ unrefunded' \in Nat
    BY <2>2 DEF Uncorrected
  <2> QED
    BY <2>1, <2>3
<1>5. ASSUME TickWithin PROVE TpmInv'
  BY <1>5 DEF TickWithin, Age, Dec
<1>6. ASSUME TickRolls PROVE TpmInv'
  BY <1>6 DEF TickRolls, Age, Dec
<1>7. CASE UNCHANGED vars
  BY <1>7 DEF vars
<1> QED
  BY <1>1, <1>2, <1>3, <1>4, <1>5, <1>6, <1>7 DEF Next

\* The requests whose reservation is in the current window's counter.
Own == {r \in Requests : held[r] > 0 /\ r \notin straddles}

\* lo lays the window's own reservations side by side, each in its own interval of 0..booked.
Layout(lo) ==
  /\ lo \in [Requests -> Nat]
  /\ \A r \in Own : lo[r] + held[r] <= booked
  /\ \A p, q \in Own : p # q => lo[p] + held[p] <= lo[q] \/ lo[q] + held[q] <= lo[p]

\* The reservations of this window fit in what is booked together.  Their sum is never written
\* down: that they can be laid out without overlap says as much, for any set of requests.
Packed == booked \in Nat /\ \E lo : Layout(lo)

\* A new reservation is laid out above all the others.
LEMMA ReservePacks ==
  ASSUME TypeOK, Packed, NEW r \in Requests, NEW n \in 1..MaxReserve, Reserve(r, n)
  PROVE  Packed'
<1>1. PICK lo : Layout(lo)
  BY DEF Packed
<1>0. PICK above : above = [lo EXCEPT ![r] = booked]
  OBVIOUS
<1>2. Own' = Own \cup {r} /\ r \notin Own
  BY ReserveConstants DEF Reserve, Own, TypeOK
<1>3. \A q \in Own : q # r /\ held'[q] = held[q] /\ above[q] = lo[q] /\ held[q] \in Nat
  BY <1>0, <1>1, <1>2 DEF Reserve, TypeOK, Layout, Own
<1>4. above \in [Requests -> Nat] /\ above[r] = booked /\ held'[r] = n /\ booked' = booked + n /\ n \in Nat /\ booked \in Nat
  BY <1>0, <1>1 DEF Reserve, TypeOK, Layout, Packed
<1>5. \A q \in Own : lo[q] + held[q] <= booked /\ lo[q] \in Nat
  BY <1>1 DEF Layout, Own
<1>6. \A q \in Own' : above[q] + held'[q] <= booked'
  BY <1>2, <1>3, <1>4, <1>5
<1>7. \A p, q \in Own' : p # q => above[p] + held'[p] <= above[q] \/ above[q] + held'[q] <= above[p]
  BY <1>1, <1>2, <1>3, <1>4, <1>5 DEF Layout
<1> QED
  <2>1. Layout(above)'
    BY <1>4, <1>6, <1>7 DEF Layout
  <2> QED
    BY <2>1, <1>4 DEF Packed

\* When a request of this window turns out to have used less, those above it move down by as much.
LEMMA RefundPacks ==
  ASSUME TypeOK, Packed, NEW r \in Own, NEW used \in 0..MaxUsed, used < held[r], Settled(r),
         booked' = booked - (held[r] - used)
  PROVE  Packed' /\ booked - (held[r] - used) \in Nat
<1>1. PICK lo : Layout(lo)
  BY DEF Packed
<1>g. PICK g : g = held[r] - used
  OBVIOUS
<1>0. PICK down : down = [q \in Requests |-> IF lo[q] >= lo[r] + held[r] THEN lo[q] - g ELSE lo[q]]
  OBVIOUS
<1>2. g \in 1..held[r] /\ booked' = booked - g /\ Own' = Own \ {r} /\ held[r] \in Nat /\ booked \in Nat
  BY <1>g, ReserveConstants DEF Own, TypeOK, Settled, Packed
<1>3. \A q \in Own : lo[q] \in Nat /\ held[q] \in Nat \ {0} /\ lo[q] + held[q] <= booked
  BY <1>1 DEF Layout, Own, TypeOK
<1>4. \A q \in Own' : q \in Own /\ q # r /\ held'[q] = held[q]
  BY <1>2 DEF Settled, TypeOK, Own
<1>5. \A p, q \in Own : p # q => lo[p] + held[p] <= lo[q] \/ lo[q] + held[q] <= lo[p]
  BY <1>1 DEF Layout
<1>6. down \in [Requests -> Nat]
  <2>1. r \in Requests /\ lo \in [Requests -> Nat]
    BY <1>1 DEF Layout, Own
  <2> QED
    BY <1>0, <1>2, <2>1
<1>7. \A q \in Own : down[q] = IF lo[q] >= lo[r] + held[r] THEN lo[q] - g ELSE lo[q]
  BY <1>0 DEF Own
<1>8. \A q \in Own' : down[q] + held'[q] <= booked'
  BY <1>2, <1>3, <1>4, <1>5, <1>7
<1>9. \A p, q \in Own' : p # q => down[p] + held'[p] <= down[q] \/ down[q] + held'[q] <= down[p]
  BY <1>2, <1>3, <1>4, <1>5, <1>7
<1>10. booked - g \in Nat
  BY <1>2, <1>3
<1> QED
  <2>1. Layout(down)'
    BY <1>6, <1>8, <1>9 DEF Layout
  <2> QED
    BY <2>1, <1>g, <1>2, <1>10 DEF Packed

\* No other settlement and no tick adds an own reservation or books less, but the rollover, which
\* leaves this window with none.
LEMMA PackedStep == TypeOK /\ Packed /\ [Next]_vars => Packed'
<1> SUFFICES ASSUME TypeOK, Packed, [Next]_vars PROVE Packed'
  OBVIOUS
<1>0. PICK lo : Layout(lo)
  BY DEF Packed
\* What leaves the layout alone: fewer own reservations, the same amounts, no less booked.
<1>s. ASSUME Own' \subseteq Own, \A q \in Own' : held'[q] = held[q], booked' \in Nat, booked' >= booked
      PROVE  Packed'
  <2>1. \A q \in Own : lo[q] \in Nat /\ held[q] \in Nat /\ lo[q] + held[q] <= booked /\ booked \in Nat
    BY <1>0 DEF Layout, Own, TypeOK, Packed
  <2>2. \A q \in Own' : lo[q] + held'[q] <= booked'
    BY <1>s, <2>1
  <2>3. \A p, q \in Own' : p # q => lo[p] + held'[p] <= lo[q] \/ lo[q] + held'[q] <= lo[p]
    BY <1>0, <1>s DEF Layout
  <2>4. Layout(lo)'
    BY <1>0, <2>2, <2>3 DEF Layout
  <2> QED
    BY <1>s, <2>4 DEF Packed
<1>1. ASSUME NEW r \in Requests, NEW n \in 1..MaxReserve, Reserve(r, n) PROVE Packed'
  BY <1>1, ReservePacks
<1>2. ASSUME NEW r \in Requests, NEW used \in 0..MaxUsed, ReconcileRefund(r, used) PROVE Packed'
  <2>1. CASE r \in Own
    BY <1>2, <2>1, RefundPacks DEF ReconcileRefund, Own
  <2>2. CASE r \notin Own
    <3>1. r \in straddles /\ UNCHANGED booked
      BY <1>2, <2>2 DEF ReconcileRefund, Own, TypeOK
    <3>2. Own' \subseteq Own /\ \A q \in Own' : held'[q] = held[q]
      BY <1>2 DEF ReconcileRefund, Settled, Own, TypeOK
    <3> QED
      BY <3>1, <3>2, <1>s DEF Packed
  <2> QED
    BY <2>1, <2>2
<1>3. ASSUME NEW r \in Requests, NEW used \in 0..MaxUsed, ReconcileCharge(r, used) PROVE Packed'
  <2>1. Own' \subseteq Own /\ \A q \in Own' : held'[q] = held[q]
    BY <1>3 DEF ReconcileCharge, Settled, Own, TypeOK
  <2>2. booked' \in Nat /\ booked' >= booked
    BY <1>3, ReserveConstants DEF ReconcileCharge, Packed, TypeOK
  <2> QED
    BY <2>1, <2>2, <1>s
<1>4. ASSUME NEW r \in Requests, NEW used \in 0..MaxUsed,
             ReconcileNothing(r, used) \/ LeftAsReserved(r, used)
      PROVE  Packed'
  <2>1. Own' \subseteq Own /\ \A q \in Own' : held'[q] = held[q]
    BY <1>4 DEF ReconcileNothing, LeftAsReserved, Settled, Own, TypeOK
  <2>2. /\ Uncorrected(r, used) /\ Settled(r) /\ held[r] \in Nat \ {0} /\ booked \in Nat
        /\ used \in Nat
    BY <1>4, ReserveConstants DEF ReconcileNothing, LeftAsReserved, TypeOK, Packed
  <2>3. CASE r \in straddles
    BY <2>1, <2>2, <2>3, <1>s DEF Uncorrected, history
  <2>4. CASE r \notin straddles /\ used >= held[r]
    <3>1. booked' \in Nat /\ booked' >= booked
      BY <2>2, <2>4 DEF Uncorrected
    <3> QED
      BY <2>1, <3>1, <1>s
  <2>5. CASE r \notin straddles /\ used < held[r]
    <3>1. r \in Own /\ booked' = booked - (held[r] - used)
      BY <2>2, <2>5 DEF Uncorrected, Own
    <3> QED
      BY <2>2, <2>5, <3>1, RefundPacks
  <2> QED
    BY <2>2, <2>3, <2>4, <2>5
<1>5. ASSUME TickWithin PROVE Packed'
  BY <1>5, <1>s DEF TickWithin, Own, history, Packed
<1>6. ASSUME TickRolls PROVE Packed'
  <2>1. Own' = {}
    BY <1>6 DEF TickRolls, Own
  <2>2. Layout(lo)'
    BY <1>0, <2>1 DEF Layout
  <2> QED
    BY <1>6, <2>2 DEF TickRolls, Packed
<1>7. CASE UNCHANGED vars
  BY <1>7, <1>s DEF vars, Own, history, Packed
<1> QED
  BY <1>1, <1>2, <1>3, <1>4, <1>5, <1>6, <1>7 DEF Next

\* The counter follows what is booked: a refund clamped at zero loses nothing of this window's own
\* reservations (they fit in what is booked), and no tick inside the window expires the counter.
LEMMA ErrorStep ==
  TypeOK /\ DeadlineCoversNextWindow /\ Packed /\ ErrorAccountedFor /\ [Next]_vars
    => ErrorAccountedFor'
<1> SUFFICES ASSUME TypeOK, DeadlineCoversNextWindow, Packed, ErrorAccountedFor, [Next]_vars
             PROVE  ErrorAccountedFor'
  OBVIOUS
<1> USE DEF ErrorAccountedFor
<1>0. /\ tpm \in Nat /\ booked \in Nat /\ givenBack \in Nat /\ carried \in Nat
      /\ uncharged \in Nat /\ unrefunded \in Nat
  BY DEF TypeOK, Packed
<1>1. ASSUME NEW r \in Requests, NEW n \in 1..MaxReserve, Reserve(r, n) PROVE ErrorAccountedFor'
  BY <1>0, <1>1 DEF Reserve
<1>2. ASSUME NEW r \in Requests, NEW used \in 0..MaxUsed, ReconcileRefund(r, used)
      PROVE  ErrorAccountedFor'
  <2>1. held[r] - used \in Nat
    BY <1>2 DEF ReconcileRefund, TypeOK
  <2>2. CASE r \in Own
    <3>1. booked - (held[r] - used) \in Nat
      BY <1>2, <2>2, RefundPacks DEF ReconcileRefund, Own
    <3>2. r \notin straddles
      BY <2>2 DEF Own
    <3> QED
      BY <1>0, <1>2, <2>1, <3>1, <3>2 DEF ReconcileRefund, Refund
  <2>3. CASE r \notin Own
    <3>1. r \in straddles
      BY <1>2, <2>3 DEF ReconcileRefund, Own, TypeOK
    <3> QED
      BY <1>0, <1>2, <2>1, <3>1 DEF ReconcileRefund, Refund
  <2> QED
    BY <2>2, <2>3
<1>3. ASSUME NEW r \in Requests, NEW used \in 0..MaxUsed, ReconcileCharge(r, used)
      PROVE  ErrorAccountedFor'
  <2>1. used - held[r] \in Nat
    BY <1>3 DEF ReconcileCharge, TypeOK
  <2> QED
    BY <1>0, <1>3, <2>1 DEF ReconcileCharge, Charge
<1>4. ASSUME NEW r \in Requests, NEW used \in 0..MaxUsed,
             ReconcileNothing(r, used) \/ LeftAsReserved(r, used)
      PROVE  ErrorAccountedFor'
  <2>1. /\ UNCHANGED tpm /\ Uncorrected(r, used) /\ held[r] \in Nat /\ used \in Nat
    BY <1>4, ReserveConstants DEF ReconcileNothing, LeftAsReserved, TypeOK, counters
  <2> QED
    BY <1>0, <2>1 DEF Uncorrected, history
<1>5. ASSUME TickWithin PROVE ErrorAccountedFor'
  <2>1. tpmTtl # 1
    BY <1>5, RateConstants DEF TickWithin, TypeOK, DeadlineCoversNextWindow
  <2> QED
    BY <1>5, <2>1 DEF TickWithin, Age, history
<1>6. ASSUME TickRolls PROVE ErrorAccountedFor'
  BY <1>6 DEF TickRolls
<1>7. CASE UNCHANGED vars
  BY <1>7 DEF vars, counters, history
<1> QED
  BY <1>1, <1>2, <1>3, <1>4, <1>5, <1>6, <1>7 DEF Next

\* No interleaving of reservations, late refunds and charges takes a default-mode window past its
\* limit, drives a counter below zero or leaves one without a deadline; and the counter is off from
\* what this window's own requests hold or really used only by what straddling requests settled in
\* it, by use the mode does not charge, and by settlements that never ran.
THEOREM ReservationsHold ==
  Spec => [](TypeOK /\ WindowWithinLimit /\ DeadlineCoversNextWindow /\ ErrorAccountedFor)
<1>1. Init => TpmInv /\ Packed /\ ErrorAccountedFor
  <2> SUFFICES ASSUME Init PROVE TpmInv /\ Packed /\ ErrorAccountedFor
    OBVIOUS
  <2>1. TpmInv /\ ErrorAccountedFor
    BY RateConstants, ReserveConstants
       DEF Init, TpmInv, TypeOK, WindowWithinLimit, DeadlineCoversNextWindow, WindowTtl, ErrorAccountedFor
  <2>2. Own = {}
    BY DEF Init, Own
  <2>3. Layout([r \in Requests |-> 0])
    BY <2>2 DEF Layout
  <2> QED
    BY <2>1, <2>3 DEF Packed, Init
<1> QED
  BY <1>1, TpmStep, PackedStep, ErrorStep, PTL DEF Spec, TpmInv

\* The composition takes only TpmReserve's steps: a refusal by the request limit reserves nothing.
THEOREM AdmissionImplementsTpm == AdmissionSpec => Spec
<1>1. AdmissionInit => Init
  BY DEF AdmissionInit
<1>2. [AdmissionNext]_allVars => [Next]_vars
  BY DEF AdmissionNext, allVars, admit, settle, leave, time, Next
<1> QED
  BY <1>1, <1>2, PTL DEF AdmissionSpec, Spec

\* So both limits together keep the promises of the token limit.
THEOREM AdmissionKeepsTokens ==
  AdmissionSpec => [](WindowWithinLimit /\ DeadlineCoversNextWindow /\ ErrorAccountedFor)
  BY AdmissionImplementsTpm, ReservationsHold, PTL

----------------------------------------------------------------------------
(* The circuit breaker of the key: type correctness and the relations      *)
(* between its KV entries, for every value of its constants.  It shares no *)
(* state with the limits.                                                  *)

\* The cooldown curve stays inside its bounds: lib/breaker.ts nextCooldown.
LEMMA NextCooldownType ==
  ASSUME NEW c \in 0..MaxCooldown
  PROVE  NextCooldown(c) \in 1..MaxCooldown
  BY BreakerConstants DEF NextCooldown

\* The TTL of an opened gate is positive and at least the longest cooldown.
LEMMA OpenKeyTtlType == OpenKeyTtl \in Nat /\ MaxCooldown <= OpenKeyTtl /\ OpenKeyTtl > 0
  BY BreakerConstants DEF OpenKeyTtl

\* Every step keeps the types: in particular a strike that does not trip stays below the threshold.
LEMMA GateTypeStep == BreakerTypeOK /\ [BreakerNext]_breakerVars => BreakerTypeOK'
<1> SUFFICES ASSUME BreakerTypeOK, [BreakerNext]_breakerVars PROVE BreakerTypeOK'
  OBVIOUS
<1>0. NextCooldown(cooldown) \in 1..MaxCooldown
  BY NextCooldownType DEF BreakerTypeOK, KvTypes
<1>s. sealed' \in 0..RowTtl
  BY BreakerConstants DEF BreakerTypeOK, ProcessTypes, BreakerNext, Tick, breakerVars
<1> USE <1>s, BreakerConstants, OpenKeyTtlType DEF BreakerTypeOK, KvTypes, ProcessTypes, FlagTypes, Phases, To, kvVars, gateVars, strikeVars, cooldownVars, authVars
<1>1. ASSUME NEW r \in Slots, ListRoutable(r) PROVE BreakerTypeOK'
  BY <1>1 DEF ListRoutable
<1>2. ASSUME NEW r \in Slots, SelectAndReserve(r) PROVE BreakerTypeOK'
  BY <1>2 DEF SelectAndReserve, GateClosed, GateProbe
<1>3. ASSUME NEW r \in Slots, SelectRefuses(r) PROVE BreakerTypeOK'
  BY <1>3 DEF SelectRefuses
<1>4. ASSUME NEW r \in Slots, ReportSuccess(r) PROVE BreakerTypeOK'
  BY <1>4 DEF ReportSuccess, OnSuccess, DelOpen, DelProbe, DelStrikes, DelCooldown
<1>5. ASSUME NEW r \in Slots, MarkRecovered(r) PROVE BreakerTypeOK'
  BY <1>5 DEF MarkRecovered
<1>6. ASSUME NEW r \in Slots, ReportServerFailure(r) PROVE BreakerTypeOK'
  BY <1>6, <1>0 DEF ReportServerFailure, OnServerFailure, Opens, Trip, Strike, DelProbe, DelStrikes
<1>7. ASSUME NEW r \in Slots, ReportRateLimit(r) PROVE BreakerTypeOK'
  BY <1>7 DEF ReportRateLimit, OnRateLimit, OpenFlat, DelProbe
<1>8. ASSUME NEW r \in Slots, MarkCooling(r) PROVE BreakerTypeOK'
  BY <1>8 DEF MarkCooling
<1>9. ASSUME NEW r \in Slots, ReportAuthFailure(r) PROVE BreakerTypeOK'
  BY <1>9 DEF ReportAuthFailure, AfterRefusal
<1>10. ASSUME NEW r \in Slots, AuthExpire(r) PROVE BreakerTypeOK'
  BY <1>10 DEF AuthExpire, AfterRefusal
<1>11. ASSUME NEW r \in Slots, AuthRelease(r) PROVE BreakerTypeOK'
  BY <1>11 DEF AuthRelease, DelProbe
<1>12. ASSUME NEW r \in Slots, MarkBanned(r) PROVE BreakerTypeOK'
  BY <1>12 DEF MarkBanned
<1>13. ASSUME NEW r \in Slots, NoReport(r) PROVE BreakerTypeOK'
  BY <1>13 DEF NoReport
<1>14. ASSUME NEW r \in Slots, Crash(r) PROVE BreakerTypeOK'
  BY <1>14 DEF Crash
<1>15. ASSUME AdminBan PROVE BreakerTypeOK'
  BY <1>15 DEF AdminBan
<1>16. ASSUME AdminUnban PROVE BreakerTypeOK'
  BY <1>16 DEF AdminUnban, OnSuccess, DelOpen, DelProbe, DelStrikes, DelCooldown
<1>17. ASSUME AdminUnbanMark PROVE BreakerTypeOK'
  BY <1>17 DEF AdminUnbanMark
<1>18. ASSUME AdminCool PROVE BreakerTypeOK'
  BY <1>18 DEF AdminCool, OnRateLimit, OpenFlat, DelProbe
<1>19. ASSUME AdminCoolMark PROVE BreakerTypeOK'
  BY <1>19 DEF AdminCoolMark
<1>20. ASSUME Tick PROVE BreakerTypeOK'
  BY <1>20 DEF Tick, Expire, OpenExpires, OneLess
<1>21. ASSUME UpstreamRecovers PROVE BreakerTypeOK'
  BY <1>21 DEF UpstreamRecovers
<1>22. ASSUME Restart PROVE BreakerTypeOK'
  <2>1. KvTypes' /\ ProcessTypes'
    BY <1>22 DEF Restart, DelOpen, DelProbe, DelStrikes, DelCooldown
  <2>2. FlagTypes'
    BY <1>22, Zenon DEF Restart
  <2> QED
    BY <2>1, <2>2 DEF BreakerTypeOK
<1>23. ASSUME NEW r \in Slots, FillCache(r) PROVE BreakerTypeOK'
  BY <1>23 DEF FillCache
<1>24. ASSUME NEW r \in Slots, ListCached(r) PROVE BreakerTypeOK'
  BY <1>24 DEF ListCached
<1>25. CASE UNCHANGED breakerVars
  BY <1>25 DEF breakerVars
<1> QED
  BY <1>1, <1>2, <1>3, <1>4, <1>5, <1>6, <1>7, <1>8, <1>9, <1>10, <1>11, <1>12,
     <1>13, <1>14, <1>15, <1>16, <1>17, <1>18, <1>19, <1>20, <1>21, <1>22, <1>23, <1>24, <1>25
  DEF BreakerNext, RequestStep, AdminStep

\* The types hold in every reachable state of every instance.
THEOREM GateTypeCorrect == BreakerSpec => []BreakerTypeOK
<1>1. BreakerInit => BreakerTypeOK
  <2> SUFFICES ASSUME BreakerInit PROVE KvTypes /\ ProcessTypes /\ FlagTypes
    BY DEF BreakerTypeOK
  <2>1. KvTypes /\ ProcessTypes
    BY BreakerConstants, OpenKeyTtlType DEF BreakerInit, KvTypes, ProcessTypes, Phases
  <2>2. FlagTypes
    BY Zenon DEF BreakerInit, FlagTypes
  <2> QED
    BY <2>1, <2>2
<1> QED
  BY <1>1, GateTypeStep, PTL DEF BreakerSpec

\* What relates the KV entries of one key to each other.
KvInv == GateOutlivesCooldown /\ FreshWindowHasFreeSlot /\ EscalationBackedByGate /\ StrikesConsecutive

\* Every step keeps the relations; each one needs the types of the entries it compares.
LEMMA KvStep == BreakerTypeOK /\ KvInv /\ [BreakerNext]_breakerVars => KvInv'
<1> SUFFICES ASSUME BreakerTypeOK /\ KvInv, [BreakerNext]_breakerVars PROVE KvInv'
  OBVIOUS
<1>0. NextCooldown(cooldown) \in 1..MaxCooldown
  BY NextCooldownType DEF BreakerTypeOK, KvTypes
<1> USE BreakerConstants, OpenKeyTtlType DEF BreakerTypeOK, KvTypes, ProcessTypes, KvInv, GateOutlivesCooldown, FreshWindowHasFreeSlot, EscalationBackedByGate, StrikesConsecutive, OpenKeyTtl, To, kvVars, gateVars, strikeVars, cooldownVars, authVars
<1>1. ASSUME NEW r \in Slots, ListRoutable(r) PROVE KvInv'
  BY <1>1 DEF ListRoutable
<1>2. ASSUME NEW r \in Slots, SelectAndReserve(r) PROVE KvInv'
  BY <1>2 DEF SelectAndReserve, GateClosed, GateProbe
<1>3. ASSUME NEW r \in Slots, SelectRefuses(r) PROVE KvInv'
  BY <1>3 DEF SelectRefuses
<1>4. ASSUME NEW r \in Slots, ReportSuccess(r) PROVE KvInv'
  BY <1>4 DEF ReportSuccess, OnSuccess, DelOpen, DelProbe, DelStrikes, DelCooldown
<1>5. ASSUME NEW r \in Slots, MarkRecovered(r) PROVE KvInv'
  BY <1>5 DEF MarkRecovered
<1>6. ASSUME NEW r \in Slots, ReportServerFailure(r) PROVE KvInv'
  BY <1>6, <1>0 DEF ReportServerFailure, OnServerFailure, Opens, Trip, Strike, DelProbe, DelStrikes
<1>7. ASSUME NEW r \in Slots, ReportRateLimit(r) PROVE KvInv'
  BY <1>7 DEF ReportRateLimit, OnRateLimit, OpenFlat, DelProbe
<1>8. ASSUME NEW r \in Slots, MarkCooling(r) PROVE KvInv'
  BY <1>8 DEF MarkCooling
<1>9. ASSUME NEW r \in Slots, ReportAuthFailure(r) PROVE KvInv'
  BY <1>9 DEF ReportAuthFailure, AfterRefusal
<1>10. ASSUME NEW r \in Slots, AuthExpire(r) PROVE KvInv'
  BY <1>10 DEF AuthExpire, AfterRefusal
<1>11. ASSUME NEW r \in Slots, AuthRelease(r) PROVE KvInv'
  BY <1>11 DEF AuthRelease, DelProbe
<1>12. ASSUME NEW r \in Slots, MarkBanned(r) PROVE KvInv'
  BY <1>12 DEF MarkBanned
<1>13. ASSUME NEW r \in Slots, NoReport(r) PROVE KvInv'
  BY <1>13 DEF NoReport
<1>14. ASSUME NEW r \in Slots, Crash(r) PROVE KvInv'
  BY <1>14 DEF Crash
<1>15. ASSUME AdminBan PROVE KvInv'
  BY <1>15 DEF AdminBan
<1>16. ASSUME AdminUnban PROVE KvInv'
  BY <1>16 DEF AdminUnban, OnSuccess, DelOpen, DelProbe, DelStrikes, DelCooldown
<1>17. ASSUME AdminUnbanMark PROVE KvInv'
  BY <1>17 DEF AdminUnbanMark
<1>18. ASSUME AdminCool PROVE KvInv'
  BY <1>18 DEF AdminCool, OnRateLimit, OpenFlat, DelProbe
<1>19. ASSUME AdminCoolMark PROVE KvInv'
  BY <1>19 DEF AdminCoolMark
<1>20. ASSUME Tick PROVE KvInv'
  BY <1>20 DEF Tick, Expire, OpenExpires, OneLess
<1>21. ASSUME UpstreamRecovers PROVE KvInv'
  BY <1>21 DEF UpstreamRecovers
<1>22. ASSUME Restart PROVE KvInv'
  BY <1>22 DEF Restart, DelOpen, DelProbe, DelStrikes, DelCooldown
<1>23. ASSUME NEW r \in Slots, FillCache(r) PROVE KvInv'
  BY <1>23 DEF FillCache
<1>24. ASSUME NEW r \in Slots, ListCached(r) PROVE KvInv'
  BY <1>24 DEF ListCached
<1>25. CASE UNCHANGED breakerVars
  BY <1>25 DEF breakerVars
<1> QED
  BY <1>1, <1>2, <1>3, <1>4, <1>5, <1>6, <1>7, <1>8, <1>9, <1>10, <1>11, <1>12,
     <1>13, <1>14, <1>15, <1>16, <1>17, <1>18, <1>19, <1>20, <1>21, <1>22, <1>23, <1>24, <1>25
  DEF BreakerNext, RequestStep, AdminStep

\* The open entry outlives its cooldown and starts every half-open window with a free probe slot,
\* escalation never outlives the gate, and strikes are consecutive failures: for every value of
\* the constants.
THEOREM KvConsistent ==
  BreakerSpec => [](GateOutlivesCooldown /\ FreshWindowHasFreeSlot /\ EscalationBackedByGate
             /\ StrikesConsecutive)
<1>1. BreakerInit => KvInv
  BY BreakerConstants DEF BreakerInit, KvInv, GateOutlivesCooldown,
     FreshWindowHasFreeSlot, EscalationBackedByGate, StrikesConsecutive
<1> QED
  BY <1>1, GateTypeCorrect, KvStep, PTL DEF BreakerSpec, KvInv

\* A step that leaves the auth counter alone, and moves no request out of "authExpire", keeps
\* the auth window open.
LEMMA AuthUntouched ==
  ASSUME AuthWindowOpen, UNCHANGED <<authVars, lostExpire>>,
         \A r \in Slots : phase[r] = "authExpire" => phase'[r] = "authExpire"
  PROVE  AuthWindowOpen'
  BY DEF AuthWindowOpen, authVars

\* Every step keeps it: the three that touch the counter, the crash that loses its EXPIRE,
\* and all the others through AuthUntouched.
LEMMA AuthStep == BreakerTypeOK /\ AuthWindowOpen /\ [BreakerNext]_breakerVars => AuthWindowOpen'
<1> SUFFICES ASSUME BreakerTypeOK, AuthWindowOpen, [BreakerNext]_breakerVars PROVE AuthWindowOpen'
  OBVIOUS
<1> USE BreakerConstants DEF To, kvVars, authVars
<1>0. phase \in [Slots -> Phases] /\ refusals \in Nat /\ refusalsTtl \in Nat
  BY DEF BreakerTypeOK, KvTypes, ProcessTypes
<1>1. ASSUME NEW r \in Slots, ReportAuthFailure(r) PROVE AuthWindowOpen'
  BY <1>0, <1>1 DEF ReportAuthFailure, InFlight, AuthWindowOpen
<1>2. ASSUME NEW r \in Slots, AuthExpire(r) PROVE AuthWindowOpen'
  BY <1>0, <1>2 DEF AuthExpire, AuthWindowOpen
<1>3. ASSUME NEW r \in Slots, Crash(r) PROVE AuthWindowOpen'
  <2>1. CASE phase[r] = "authExpire"
    BY <1>3, <2>1 DEF Crash, AuthWindowOpen
  <2>2. CASE phase[r] # "authExpire"
    BY <1>0, <1>3, <2>2 DEF Crash, AuthWindowOpen
  <2> QED
    BY <2>1, <2>2
<1>4. ASSUME Tick PROVE AuthWindowOpen'
  BY <1>0, <1>4 DEF Tick, Expire, OneLess, AuthWindowOpen
<1>5. ASSUME Restart PROVE AuthWindowOpen'
  BY <1>5 DEF Restart, AuthWindowOpen
<1>6. ASSUME NEW r \in Slots,
             \/ ListRoutable(r) \/ FillCache(r) \/ ListCached(r)
             \/ SelectAndReserve(r) \/ SelectRefuses(r) \/ ReportSuccess(r)
             \/ MarkRecovered(r) \/ ReportServerFailure(r) \/ ReportRateLimit(r)
             \/ MarkCooling(r) \/ AuthRelease(r) \/ MarkBanned(r) \/ NoReport(r)
      PROVE  AuthWindowOpen'
  <2>1. UNCHANGED <<authVars, lostExpire>>
    BY <1>6 DEF ListRoutable, FillCache, ListCached, SelectAndReserve, SelectRefuses, ReportSuccess, MarkRecovered,
       ReportServerFailure, ReportRateLimit, MarkCooling, AuthRelease, MarkBanned, NoReport,
       OnSuccess, OnServerFailure, OnRateLimit, OpenFlat
  <2>2. phase[r] # "authExpire" /\ \A s \in Slots \ {r} : phase'[s] = phase[s]
    BY <1>0, <1>6 DEF ListRoutable, FillCache, ListCached, SelectAndReserve, SelectRefuses, ReportSuccess,
       MarkRecovered,
       ReportServerFailure, ReportRateLimit, MarkCooling, AuthRelease, MarkBanned, NoReport, InFlight
  <2> QED
    BY <2>1, <2>2, AuthUntouched
<1>7. ASSUME AdminStep \/ UpstreamRecovers \/ UNCHANGED breakerVars PROVE AuthWindowOpen'
  <2>1. UNCHANGED <<authVars, lostExpire, phase>>
    BY <1>7 DEF AdminStep, AdminBan, AdminUnban, AdminUnbanMark, AdminCool, AdminCoolMark,
       OnSuccess, OnRateLimit, OpenFlat, UpstreamRecovers, breakerVars
  <2> QED
    BY <2>1, AuthUntouched
<1> QED
  BY <1>1, <1>2, <1>3, <1>4, <1>5, <1>6, <1>7 DEF BreakerNext, RequestStep

\* The refusal counter always has its window, unless a process died between the two commands
\* that count and expire it: for every number of concurrent requests.
THEOREM AuthWindowAlwaysOpen == BreakerSpec => []AuthWindowOpen
<1>1. BreakerInit => AuthWindowOpen
  BY DEF BreakerInit, AuthWindowOpen
<1> QED
  BY <1>1, GateTypeCorrect, AuthStep, PTL DEF BreakerSpec

\* The time a settled ban has stood and what is left of any cache entry are together at most the life
\* of an entry: a fill needs a query under way, which starts the count again.
BanAges == /\ BanSettled => rowTtl + sealed <= RowTtl
           /\ ~BanSettled => sealed = 0

\* The less of two parts, the less their sum.
LEMMA SumShrinks ==
  ASSUME NEW a \in Nat, NEW b \in Nat, NEW c \in Nat, NEW d \in Nat, a + b <= c, d <= a
  PROVE  d + b <= c
  OBVIOUS

\* Only a fill makes a cache entry live longer, and it happens while a query is under way.
LEMMA BanAgesStep == BreakerTypeOK /\ BanAges /\ [BreakerNext]_breakerVars => BanAges'
<1> SUFFICES ASSUME BreakerTypeOK, BanAges, [BreakerNext]_breakerVars PROVE BanAges'
  OBVIOUS
<1>0. rowTtl \in 0..RowTtl /\ sealed \in 0..RowTtl /\ RowTtl \in Nat \ {0}
  BY BreakerConstants DEF BreakerTypeOK, ProcessTypes
<1>1. CASE Tick
  <2>1. BanSettled' = BanSettled
    BY <1>1 DEF Tick, BanSettled
  <2> QED
    BY <1>0, <1>1, <2>1 DEF Tick, OneLess, BanAges
<1>2. ASSUME sealed' = IF BanSettled' THEN sealed ELSE 0, rowTtl' \in 0..RowTtl,
             rowTtl' <= rowTtl \/ ~BanSettled
      PROVE  BanAges'
  <2>1. CASE BanSettled'
    <3>1. sealed' = sealed
      BY <1>2, <2>1
    <3>2. rowTtl' + sealed <= RowTtl
      <4>1. CASE BanSettled
        <5>1. rowTtl + sealed <= RowTtl
          BY <4>1 DEF BanAges
        <5>2. rowTtl' <= rowTtl
          BY <1>2, <4>1
        <5>3. rowTtl' \in Nat /\ rowTtl \in Nat /\ sealed \in Nat /\ RowTtl \in Nat
          BY <1>0, <1>2
        <5> QED
          BY <5>1, <5>2, <5>3, SumShrinks
      <4>2. CASE ~BanSettled
        <5>1. sealed = 0 /\ rowTtl' <= RowTtl /\ rowTtl' \in Nat /\ RowTtl \in Nat /\ RowTtl + 0 <= RowTtl
          BY <1>0, <1>2, <4>2 DEF BanAges
        <5> QED
          BY <5>1, SumShrinks
      <4> QED
        BY <4>1, <4>2
    <3> QED
      BY <2>1, <3>1, <3>2 DEF BanAges
  <2>2. CASE ~BanSettled'
    BY <1>2, <2>2 DEF BanAges
  <2> QED
    BY <2>1, <2>2
<1>3. ASSUME NEW r \in Slots, FillCache(r) PROVE rowTtl' \in 0..RowTtl /\ ~BanSettled
  BY <1>0, <1>3 DEF FillCache, BanSettled
<1>4. ASSUME NEW r \in Slots, RequestStep(r), ~FillCache(r) PROVE UNCHANGED rowTtl
  BY <1>4 DEF RequestStep, ListRoutable, ListCached, SelectAndReserve, SelectRefuses, ReportSuccess, MarkRecovered,
     ReportServerFailure, ReportRateLimit, MarkCooling, ReportAuthFailure, AuthExpire, AuthRelease, MarkBanned,
     NoReport, Crash
<1>5. ASSUME AdminStep \/ UpstreamRecovers PROVE UNCHANGED rowTtl
  BY <1>5 DEF AdminStep, AdminBan, AdminUnban, AdminUnbanMark, AdminCool, AdminCoolMark, UpstreamRecovers
<1>6. ASSUME Restart PROVE rowTtl' = 0
  BY <1>6 DEF Restart
<1>7. CASE UNCHANGED breakerVars
  BY <1>7 DEF breakerVars, BanAges, BanSettled
<1> QED
  BY <1>0, <1>1, <1>2, <1>3, <1>4, <1>5, <1>6, <1>7 DEF BreakerNext

\* A ban takes hold: once it has stood for the life of a cache entry, no request takes the key up,
\* whatever replicas cached it before and however many requests there are.
THEOREM BanReachesCaches == BreakerSpec => BanTakesHold
<1>1. BreakerInit => BanAges
  BY BreakerConstants DEF BreakerInit, BanAges, BanSettled
<1>2. BreakerTypeOK /\ BanAges /\ [BreakerNext]_breakerVars
        => [sealed = RowTtl => \A r \in Slots : phase[r] = "idle" => phase'[r] = "idle"]_breakerVars
  <2> SUFFICES ASSUME BreakerTypeOK, BanAges, BreakerNext, sealed = RowTtl, NEW q \in Slots, phase[q] = "idle"
               PROVE  phase'[q] = "idle"
    OBVIOUS
  <2>0. phase \in [Slots -> Phases] /\ rowTtl \in Nat /\ sealed \in Nat /\ RowTtl \in Nat \ {0}
    BY BreakerConstants DEF BreakerTypeOK, ProcessTypes
  <2>1. status = "banned" /\ rowTtl = 0
    BY <2>0 DEF BanAges, BanSettled
  <2>2. ASSUME NEW r \in Slots, RequestStep(r) PROVE phase'[q] = "idle"
    <3>1. phase[r] # "idle"
      BY <2>1, <2>2 DEF RequestStep, ListRoutable, Usable, FillCache, ListCached, SelectAndReserve,
         SelectRefuses, ReportSuccess, MarkRecovered, ReportServerFailure, ReportRateLimit, MarkCooling,
         ReportAuthFailure, AuthExpire, AuthRelease, MarkBanned, NoReport, Crash, InFlight
    <3>2. \E p \in Phases : To(r, p)
      BY <2>1, <2>2 DEF RequestStep, ListRoutable, FillCache, ListCached, SelectAndReserve,
         SelectRefuses, ReportSuccess, MarkRecovered, ReportServerFailure, ReportRateLimit, MarkCooling,
         ReportAuthFailure, AuthExpire, AuthRelease, MarkBanned, NoReport, Crash, AfterRefusal, Phases
    <3> QED
      BY <2>0, <3>1, <3>2 DEF To
  <2>3. ASSUME AdminStep \/ Tick \/ UpstreamRecovers \/ Restart PROVE phase'[q] = "idle"
    BY <2>3 DEF AdminStep, AdminBan, AdminUnban, AdminUnbanMark, AdminCool, AdminCoolMark, Tick, UpstreamRecovers,
       Restart
  <2> QED
    BY <2>2, <2>3 DEF BreakerNext
<1> QED
  BY <1>1, <1>2, GateTypeCorrect, BanAgesStep, PTL DEF BreakerSpec, BanTakesHold

=============================================================================
