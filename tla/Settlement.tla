----------------------------- MODULE Settlement -----------------------------
(***************************************************************************)
(* What the proxy promises about the accounting of one request, whatever   *)
(* happens to it: a reservation is taken at most once and given back or    *)
(* billed at most once, one outcome is recorded, and the two agree.  The   *)
(* only way out without an outcome is a throw of the key-value store or    *)
(* the database on the way (services/proxy/run.ts, lib/kvUnavailable.ts).  *)
(***************************************************************************)
CONSTANT Requests

VARIABLES
  ledger,     \* what became of the request's TPM reservation
  verdict     \* the outcome recorded for it; "open" until there is one

vars == <<ledger, verdict>>

Refusals  == {"client_error", "budget_blocked", "blocked", "no_capacity", "success"}
Unbilled  == {"ssrf_blocked", "client_error", "upstream_error", "client_cancelled", "success"}
Delivered == {"success", "upstream_error", "client_cancelled"}

Init ==
  /\ ledger = [r \in Requests |-> "none"]
  /\ verdict = [r \in Requests |-> "open"]

\* A key is chosen and the reservation is on its counter.
Hold(r) ==
  /\ verdict[r] = "open" /\ ledger[r] = "none"
  /\ ledger' = [ledger EXCEPT ![r] = "held"]
  /\ UNCHANGED verdict

\* The reservation goes back while the outcome is still to come.
GiveBack(r) ==
  /\ verdict[r] = "open" /\ ledger[r] = "held"
  /\ ledger' = [ledger EXCEPT ![r] = "returned"]
  /\ UNCHANGED verdict

\* The outcome: of a request that held nothing, of one that gave its
\* reservation back (before or now), or of one billed for what it used.
Conclude(r, l, v) ==
  /\ verdict[r] = "open"
  /\ \/ ledger[r] = "none" /\ l = "none" /\ v \in Refusals
     \/ ledger[r] \in {"held", "returned"} /\ l = "returned" /\ v \in Unbilled
     \/ ledger[r] = "held" /\ l = "billed" /\ v \in Delivered
  /\ ledger' = [ledger EXCEPT ![r] = l]
  /\ verdict' = [verdict EXCEPT ![r] = v]

\* A store threw: nothing more is recorded of the request.
Lose(r) ==
  /\ verdict[r] = "open"
  /\ verdict' = [verdict EXCEPT ![r] = "lost"]
  /\ UNCHANGED ledger

Next == \E r \in Requests :
  \/ Hold(r) \/ GiveBack(r) \/ Lose(r)
  \/ \E l \in {"none", "returned", "billed"}, v \in Refusals \cup Unbilled : Conclude(r, l, v)

Spec == Init /\ [][Next]_vars

=============================================================================
