----------------------------- MODULE RateRule -----------------------------
(***************************************************************************)
(* lib/rateWindow.ts: what "per minute" means for one limit of one key.    *)
(* Two counters, this window's and the one before, the latter weighted by  *)
(* how much of it is still inside the trailing window.  The weight is the  *)
(* fraction 1 - elapsed/Window; everything is multiplied by Window so that *)
(* the arithmetic stays in the integers.                                   *)
(***************************************************************************)
EXTENDS Naturals

CONSTANTS
  Window,   \* RPM_TPM_WINDOW_SECONDS, in ticks
  Limit     \* the key's rpmLimit or tpmLimit

ASSUME RateConstants == Window \in Nat \ {0} /\ Limit \in Nat

\* The previous window does not count: a plain fixed window.
FixedWindow(cur, prev, elapsed) == cur * Window

\* nexusCount / rateCount, times Window.
Count(cur, prev, elapsed) == cur * Window + prev * (Window - elapsed)

\* Refuses only what is already over the limit, not what would go over it.
RoomWhileUnder(cur, prev, elapsed, n) == Count(cur, prev, elapsed) <= Limit * Window

\* The admission test of ADMIT_LUA and SELECT_KEY_LUA for n more units.
HasRoom(cur, prev, elapsed, n) == Count(cur, prev, elapsed) + n * Window <= Limit * Window

OneWindowTtl == Window

\* A window's counter is read again as "previous" for the whole of the next window.
WindowTtl == Window * 2

Dec(n) == IF n = 0 THEN 0 ELSE n - 1

=============================================================================
