---------------------------- MODULE RateWindow ----------------------------
(***************************************************************************)
(* The requests-per-minute limit of one key: admissions counted into the   *)
(* window they fall in, windows rolling with time, counters expiring.      *)
(* RPM is never refunded, so what the counters hold can be compared with   *)
(* what was really admitted, which the history variable records per tick.  *)
(***************************************************************************)
EXTENDS RateRule, Functions

VARIABLES
  elapsed,          \* ticks into the current window
  cur, curTtl,      \* nexus:rpm:<key>:<index>; a TTL of 0 is an absent counter
  prev, prevTtl,    \* nexus:rpm:<key>:<index - 1>
  hist              \* history: hist[i] requests were admitted i ticks ago

vars == <<elapsed, cur, curTtl, prev, prevTtl, hist>>

Ages == 0..(2 * Window - 1)

Init ==
  /\ elapsed = 0
  /\ cur = 0 /\ curTtl = 0 /\ prev = 0 /\ prevTtl = 0
  /\ hist = [i \in Ages |-> 0]

\* The script admits: INCR and EXPIRE on the current window's counter.
Admit ==
  /\ HasRoom(cur, prev, elapsed, 1)
  /\ cur' = cur + 1 /\ curTtl' = WindowTtl
  /\ hist' = [hist EXCEPT ![0] = @ + 1]
  /\ UNCHANGED <<elapsed, prev, prevTtl>>

Age(counter, ttl) == IF ttl <= 1 THEN 0 ELSE counter

Shift == hist' = [i \in Ages |-> IF i = 0 THEN 0 ELSE hist[i - 1]]

TickWithin ==
  /\ elapsed < Window - 1
  /\ elapsed' = elapsed + 1
  /\ cur' = Age(cur, curTtl) /\ curTtl' = Dec(curTtl)
  /\ prev' = Age(prev, prevTtl) /\ prevTtl' = Dec(prevTtl)
  /\ Shift

\* The index moves on: the current counter is the previous one from here.
TickRolls ==
  /\ elapsed = Window - 1
  /\ elapsed' = 0
  /\ cur' = 0 /\ curTtl' = 0
  /\ prev' = Age(cur, curTtl) /\ prevTtl' = Dec(curTtl)
  /\ Shift

Next == Admit \/ TickWithin \/ TickRolls

Spec == Init /\ [][Next]_vars

----------------------------------------------------------------------------

\* Counters within the limit, TTLs within two windows.
TypeOK ==
  /\ elapsed \in 0..(Window - 1)
  /\ cur \in 0..Limit /\ curTtl \in 0..WindowTtl
  /\ prev \in 0..Limit /\ prevTtl \in 0..WindowTtl

\* The weighted count never passes the limit, at any instant: not only when a request is admitted
\* but also after any time passes and across the boundary, where the current counter suddenly
\* becomes the previous one.
WeightedWithinLimit == Count(cur, prev, elapsed) <= Limit * Window

\* The two counters are exactly what was admitted in this window and in the one before: no
\* counter is lost to its TTL while the rule still reads it (EXPIRE at each admission, two windows).
CountersMatchHistory ==
  /\ cur = SumFunctionOnSet(hist, 0..elapsed)
  /\ prev = SumFunctionOnSet(hist, (elapsed + 1)..(elapsed + Window))

Trailing == SumFunctionOnSet(hist, 0..(Window - 1))

\* No trailing window ever holds twice the limit, which is what a fixed window would allow across
\* its boundary (the reason lib/rateWindow.ts gives for weighting the previous one).
NoDoubleBurst == Limit > 0 => Trailing < 2 * Limit

=============================================================================
