----------------------------- MODULE Admission -----------------------------
(***************************************************************************)
(* One key's two limits together: ADMIT_LUA and SELECT_KEY_LUA look at the *)
(* requests of the minute (RateWindow) and at its tokens (TpmReserve) in   *)
(* one script, and count into both or into neither.                        *)
(***************************************************************************)
EXTENDS TpmReserve

CONSTANT RpmLimit     \* the key's rpmLimit; Limit is its tpmLimit

ASSUME RpmConstants == RpmLimit \in Nat

VARIABLES cur, curTtl, prev, prevTtl, hist

Rpm == INSTANCE RateWindow WITH Limit <- RpmLimit

rpmVars == <<cur, curTtl, prev, prevTtl, hist>>
allVars == <<vars, rpmVars>>

\* Both have room, or nothing is written.
admit(r, n) == Rpm!Admit /\ Reserve(r, n)

\* Requests are never given back.
settle(r, used) ==
  /\ ReconcileRefund(r, used) \/ ReconcileCharge(r, used) \/ ReconcileNothing(r, used)
  /\ UNCHANGED rpmVars

leave(r, used) == LeftAsReserved(r, used) /\ UNCHANGED rpmVars

time == (TickWithin /\ Rpm!TickWithin) \/ (TickRolls /\ Rpm!TickRolls)

AdmissionInit == Init /\ Rpm!Init

AdmissionNext ==
  \/ \E r \in Requests :
       (\E n \in 1..MaxReserve : admit(r, n)) \/ (\E used \in 0..MaxUsed : settle(r, used) \/ leave(r, used))
  \/ time

AdmissionSpec == AdmissionInit /\ [][AdmissionNext]_allVars

-----------------------------------------------------------------------------

\* Of the requests, as in RateWindow, now with admissions that the token limit refuses and time that
\* settlements pass in: the weighted count never passes the limit at any instant.
WeightedWithinLimit == Rpm!WeightedWithinLimit

\* The request counters are exactly what was admitted: a refusal by the token limit counts nothing
\* into the requests, a settlement gives none back, and none is lost to its TTL while it is read.
CountersMatchHistory == Rpm!CountersMatchHistory

\* No trailing window ever holds twice the request limit, whatever the tokens do.
NoDoubleBurst == Rpm!NoDoubleBurst

=============================================================================
