---------------------------- MODULE TpmReserve ----------------------------
(***************************************************************************)
(* The tokens-per-minute budget of one key: a request reserves tokens when *)
(* it is admitted and settles them when the answer is known, possibly in a *)
(* later window than the one it reserved in.                               *)
(*                                                                         *)
(* Every exit of the proxy settles through reconcileTpm: with the tokens   *)
(* the provider reported, or with 0 to release the reservation.  The call  *)
(* is fire-and-forget, so it may also never take effect.                   *)
(***************************************************************************)
EXTENDS RateRule, Integers

CONSTANTS
  Requests,
  MaxReserve,   \* bound: the largest reservation (estimate or exact count of prompt and answer)
  MaxUsed       \* bound: the largest usage figure a provider reports, within MAX_USAGE_TOKENS

ASSUME ReserveConstants == MaxReserve \in Nat \ {0} /\ MaxUsed \in Nat

VARIABLES
  elapsed,                        \* ticks into the current window
  tpm, tpmTtl, tpmPrev, tpmPrevTtl, \* the two counters; tpm > 0 with TTL 0 would never expire
  held,                           \* what each request has reserved and not settled
  straddles,                      \* the requests whose reservation is in an earlier window
  twoWay,                         \* TPM_RECONCILE = 'two-way', read once at load
  booked,                         \* history: what this window's own requests hold or really used
  givenBack,                      \* history: refunded into this window by straddling requests
  carried,                        \* history: charged into this window by straddling requests
  uncharged,                      \* history: used by its own beyond their reservation, never charged
  unrefunded                      \* history: reserved by its own and not used, never given back

counters == <<tpm, tpmTtl, tpmPrev, tpmPrevTtl>>
history  == <<booked, givenBack, carried, uncharged, unrefunded>>
vars     == <<elapsed, counters, held, straddles, twoWay, history>>

Init ==
  /\ elapsed = 0 /\ tpm = 0 /\ tpmTtl = 0 /\ tpmPrev = 0 /\ tpmPrevTtl = 0
  /\ held = [r \in Requests |-> 0]
  /\ straddles = {}
  /\ twoWay \in BOOLEAN
  /\ booked = 0 /\ givenBack = 0 /\ carried = 0 /\ uncharged = 0 /\ unrefunded = 0

\* SELECT_KEY_LUA's TPM half.  reserveOn rounds up and clamps to at least one token.
Reserve(r, n) ==
  /\ held[r] = 0
  /\ HasRoom(tpm, tpmPrev, elapsed, n)
  /\ tpm' = tpm + n /\ tpmTtl' = WindowTtl
  /\ held' = [held EXCEPT ![r] = n]
  /\ booked' = booked + n
  /\ UNCHANGED <<elapsed, tpmPrev, tpmPrevTtl, straddles, twoWay, givenBack, carried, uncharged, unrefunded>>

RefundUnclamped(g) == tpm' = tpm - g /\ UNCHANGED tpmTtl

RefundTwice(g) == tpm' = (IF 2 * g > tpm THEN 0 ELSE tpm - 2 * g) /\ UNCHANGED tpmTtl

\* RECONCILE_LUA: clamped at zero, DECRBY keeps the deadline.
Refund(g) == tpm' = (IF g > tpm THEN 0 ELSE tpm - g) /\ UNCHANGED tpmTtl

ChargeNoDeadline(x) == tpm' = tpm + x /\ UNCHANGED tpmTtl

\* CHARGE_LUA: a counter it creates gets admission's deadline.
Charge(x) == tpm' = tpm + x /\ tpmTtl' = IF tpmTtl = 0 THEN WindowTtl ELSE tpmTtl

Settled(r) == held' = [held EXCEPT ![r] = 0] /\ straddles' = straddles \ {r}

\* reconcileTpm with fewer tokens used than reserved (0 releases the reservation).
ReconcileRefund(r, used) ==
  /\ used < held[r]
  /\ LET g == held[r] - used
     IN  /\ Refund(g)
         /\ IF r \in straddles THEN givenBack' = givenBack + g /\ UNCHANGED booked
                               ELSE booked' = booked - g /\ UNCHANGED givenBack
  /\ Settled(r)
  /\ UNCHANGED <<elapsed, tpmPrev, tpmPrevTtl, twoWay, carried, uncharged, unrefunded>>

\* reconcileTpm with more tokens used than reserved: only two-way charges them.
ReconcileCharge(r, used) ==
  /\ held[r] > 0 /\ used > held[r] /\ twoWay
  /\ LET x == used - held[r]
     IN  /\ Charge(x)
         /\ IF r \in straddles THEN carried' = carried + x /\ UNCHANGED booked
                               ELSE booked' = booked + x /\ UNCHANGED carried
  /\ Settled(r)
  /\ UNCHANGED <<elapsed, tpmPrev, tpmPrevTtl, twoWay, givenBack, uncharged, unrefunded>>

\* What a settlement that changes no counter leaves behind: this window's own request used what it
\* used, and the counter still holds what it reserved.
Uncorrected(r, used) ==
  IF r \in straddles THEN UNCHANGED history
  ELSE /\ booked' = booked - held[r] + used
       /\ uncharged' = uncharged + (IF used > held[r] THEN used - held[r] ELSE 0)
       /\ unrefunded' = unrefunded + (IF used < held[r] THEN held[r] - used ELSE 0)
       /\ UNCHANGED <<givenBack, carried>>

\* reconcileTpm returns early: nothing to give back, and nothing to charge in this mode.
ReconcileNothing(r, used) ==
  /\ held[r] > 0 /\ used >= held[r] /\ (twoWay => used = held[r])
  /\ Uncorrected(r, used)
  /\ Settled(r)
  /\ UNCHANGED <<elapsed, counters, twoWay>>

\* A usage figure that is negative, not a number or absurd, a reconcile the KV never ran, a process
\* that died: the reservation stays as it was, whatever was really used.
LeftAsReserved(r, used) ==
  /\ held[r] > 0
  /\ Uncorrected(r, used)
  /\ Settled(r)
  /\ UNCHANGED <<elapsed, counters, twoWay>>

Age(counter, ttl) == IF ttl = 1 THEN 0 ELSE counter

TickWithin ==
  /\ elapsed < Window - 1
  /\ elapsed' = elapsed + 1
  /\ tpm' = Age(tpm, tpmTtl) /\ tpmTtl' = Dec(tpmTtl)
  /\ tpmPrev' = Age(tpmPrev, tpmPrevTtl) /\ tpmPrevTtl' = Dec(tpmPrevTtl)
  /\ UNCHANGED <<held, straddles, twoWay, history>>

TickRolls ==
  /\ elapsed = Window - 1
  /\ elapsed' = 0
  /\ tpm' = 0 /\ tpmTtl' = 0
  /\ tpmPrev' = Age(tpm, tpmTtl) /\ tpmPrevTtl' = Dec(tpmTtl)
  /\ straddles' = {r \in Requests : held[r] > 0}
  /\ booked' = 0 /\ givenBack' = 0 /\ carried' = 0 /\ uncharged' = 0 /\ unrefunded' = 0
  /\ UNCHANGED <<held, twoWay>>

Next ==
  \/ \E r \in Requests :
       \/ \E n \in 1..MaxReserve : Reserve(r, n)
       \/ \E used \in 0..MaxUsed :
            ReconcileRefund(r, used) \/ ReconcileCharge(r, used) \/ ReconcileNothing(r, used) \/ LeftAsReserved(r, used)
  \/ TickWithin \/ TickRolls

Spec == Init /\ [][Next]_vars

----------------------------------------------------------------------------

\* Every counter is a natural number: no refund, however late, drives a window below zero.
TypeOK ==
  /\ elapsed \in 0..(Window - 1)
  /\ tpm \in Nat /\ tpmTtl \in 0..WindowTtl /\ tpmPrev \in Nat /\ tpmPrevTtl \in 0..WindowTtl
  /\ held \in [Requests -> 0..MaxReserve]
  /\ straddles \subseteq {r \in Requests : held[r] > 0}
  /\ twoWay \in BOOLEAN
  /\ booked \in Int /\ givenBack \in Nat /\ carried \in Nat /\ uncharged \in Nat /\ unrefunded \in Nat

\* The window's counter tells what this window's own requests hold or really used, and it is off by no
\* more than admission.ts admits to: below by the refunds of requests that straddle a boundary and by
\* use beyond a reservation that is not charged (every such use in the default mode), above by the
\* charges of straddling requests and by what a settlement that never ran failed to give back.
ErrorAccountedFor ==
  /\ tpm <= booked + carried + unrefunded
  /\ booked <= tpm + givenBack + uncharged

\* In the default mode no sequence of reservations and late refunds takes a window past the limit.
WindowWithinLimit == ~twoWay => tpm <= Limit

\* Every counter with tokens in it has a deadline, whichever script created it, and the deadline
\* reaches the end of the next window, through which the counter is read as the previous one.
DeadlineCoversNextWindow ==
  (tpm > 0 => tpmTtl > 0) /\ (tpmTtl > 0 => tpmTtl + elapsed >= Window * 2)

=============================================================================
