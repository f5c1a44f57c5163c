------------------------------- MODULE Proxy --------------------------------
(***************************************************************************)
(* The proxy pipeline: one proxied request from admission to its last      *)
(* byte, several of them at once, over the keys they share.                *)
(*                                                                         *)
(* services/completionsProxy.service.ts with services/proxy/ (chat) and    *)
(* services/proxyDispatch.service.ts (other modalities), and the key       *)
(* selection of services/routing/ and lib/selectKey.ts underneath.  Every  *)
(* await is a point where other requests, a timer or the caller's hang-up  *)
(* may step in; an abort rejects the pending read in the same turn of the  *)
(* event loop, so nothing steps in between an abort and its handling.      *)
(*                                                                         *)
(* The breaker's timing is module Breaker's: here a key is closed, open or *)
(* due a probe, and a failure may or may not reach the threshold.  Budget  *)
(* and guardrail verdicts are choices, and no rate window ends.            *)
(***************************************************************************)
EXTENDS Routing, Functions

CONSTANTS
  Requests,
  NoKey, NoUser,
  Mixes,          \* what the requests ask for: a set of functions on Requests
  Estimate,       \* tokens the fast estimate reserves for a request
  Exact,          \* tokens the tokenizer counts
  Used,           \* tokens an answer turns out to use
  TpmLimit,       \* a key's tokens per minute
  MaxUsers,       \* a key's Max Users
  MaxFaults       \* bound: throws of the key-value store or the database

Callers == {mix[r].session : mix \in Mixes, r \in Requests} \cup {mix[r].user : mix \in Mixes, r \in Requests}

ASSUME ProxyConstants ==
  /\ IsFiniteSet(Requests) /\ NoKey \notin Keys
  /\ Mixes \subseteq [Requests ->
       [team : Teams \cup {NoTeam}, kind : {"chat", "image"}, stream : BOOLEAN,
        session : Callers, user : Callers, pin : Models \cup {NoModel}]]
  /\ Estimate \in Nat /\ Exact \in Nat /\ Used \in Nat /\ TpmLimit \in Nat
  /\ MaxUsers \in Nat \ {0} /\ MaxFaults \in Nat

VARIABLES
  registry,   \* the model registry, populated or not
  gate,       \* each key's breaker: closed, open, due a probe; or the key is banned
  slot,       \* the keys whose probe slot is taken
  users,      \* the end users counted on each key
  tpm,        \* the tokens counted on each key
  sticky,     \* the key that last served each session
  cache,      \* the response cache: a set of answers with their cache identity
  run,        \* each request: its input, its place and its local state
  faults,     \* throws so far
  twoWay      \* NEXUS_TPM_RECONCILE is two-way, read once at load

keyVars    == <<gate, slot, users>>
storeVars  == <<keyVars, tpm, sticky, cache>>
vars == <<registry, storeVars, run, faults, twoWay>>

Sessions == {mix[r].session : mix \in Mixes, r \in Requests} \ {NoUser}

NewRun(input, exact) ==
  [at |-> "new", ask |-> input, scope |-> resolveScope(NoTeam, "fallback"), tier |-> NoTier,
   pass |-> "sticky", next |-> 1, exact |-> exact, gone |-> FALSE,
   key |-> NoKey, model |-> NoModel, probe |-> FALSE, took |-> 0, reserve |-> 0,
   ledger |-> "none", verdict |-> "open", blame |-> "none"]

Init ==
  /\ registry \in {Models, {}}
  /\ gate = [k \in Keys |-> "closed"] /\ slot = {}
  /\ users = [k \in Keys |-> {}] /\ tpm = [k \in Keys |-> 0]
  /\ sticky = [s \in Sessions |-> NoKey] /\ cache = {}
  /\ twoWay \in BOOLEAN
  /\ \E exact \in BOOLEAN, mix \in Mixes :      \* the fast estimate always runs two-way
       run = [r \in Requests |-> NewRun(mix[r], exact)] /\ (exact \/ twoWay)
  /\ faults = 0

At(r, place) == run[r].at = place
Set(r, rec)  == run' = [run EXCEPT ![r] = rec]

-----------------------------------------------------------------------------
(* Settling: the outcome (observe), the refund and the bill.  A refund and *)
(* a bill are fire-and-forget; how they land in a window is TpmReserve.    *)

\* The handler returns: its ledger and outcome stay, its locals are gone.
Over(r, outcome, ledger) ==
  [run[r] EXCEPT !.at = "done", !.verdict = outcome, !.ledger = ledger,
                 !.pass = "sticky", !.next = 1, !.gone = FALSE, !.tier = NoTier, !.exact = TRUE,
                 !.model = NoModel, !.reserve = 0]

Observe(r, outcome) == Set(r, Over(r, outcome, run[r].ledger))
Refund(r) == tpm' = [tpm EXCEPT ![run[r].key] = @ - run[r].reserve]

\* What a settled reservation of n leaves counted: use beyond it only two-way.
Kept(n) == IF twoWay \/ Used < n THEN Used ELSE n
reconcileTpm(r) == tpm' = [tpm EXCEPT ![run[r].key] = (@ - run[r].reserve) + Kept(run[r].reserve)]

\* kvAwareErrorHandler: an awaited store call threw.  503, and no outcome.
KvThrows(r) ==
  /\ faults < MaxFaults /\ faults' = faults + 1
  /\ run[r].at \in {"cache", "route", "vet", "report", "error"}
  /\ Observe(r, "lost")
  /\ UNCHANGED <<storeVars, registry>>

-----------------------------------------------------------------------------
(* What an answer does to its key (services/routing/keyHealth.ts).         *)

reportSuccess(k) ==
  gate' = [gate EXCEPT ![k] = IF @ = "banned" THEN @ ELSE "closed"] /\ slot' = slot \ {k}

\* The slot goes whoever claimed it, and markCooling overwrites a ban.
reportServerFailure(k, isProbe) ==
  /\ slot' = slot \ {k}
  /\ \E opens \in {isProbe, TRUE} : gate' = [gate EXCEPT ![k] = IF opens THEN "open" ELSE @]

reportRateLimit(k) == gate' = [gate EXCEPT ![k] = "open"] /\ slot' = slot \ {k}

reportAuthFailure(k) ==
  slot' = slot \ {k} /\ \E bans \in BOOLEAN : gate' = [gate EXCEPT ![k] = IF bans THEN "banned" ELSE @]

markHealthy(r) ==
  /\ reportSuccess(run[r].key)
  /\ sticky' = IF run[r].ask.session = NoUser THEN sticky
               ELSE [sticky EXCEPT ![run[r].ask.session] = run[r].key]

CooldownEnds(k) ==
  /\ gate[k] = "open" /\ gate' = [gate EXCEPT ![k] = "due"]
  /\ UNCHANGED <<slot, users, tpm, sticky, cache, registry, run, faults>>

ProbeExpires(k) ==
  /\ k \in slot /\ slot' = slot \ {k}
  /\ UNCHANGED <<gate, users, tpm, sticky, cache, registry, run, faults>>

-----------------------------------------------------------------------------
(* Admission, input guardrails and the response cache.                     *)

\* The scope and the pin are settled here, once, and the budget is asked.
\* The team's isolation settings are whatever the operator left them at last.
admitRequest(r) ==
  /\ At(r, "new")
  /\ \E policy \in {"fallback", "isolated", "byok-only"} :
     LET ask == run[r].ask
         s   == resolveScope(ask.team, policy)
         in  == [run[r] EXCEPT !.scope = s, !.at = IF ask.kind = "chat" THEN "guard" ELSE "route"]
     IN  IF ~Resolvable(registry, ask.kind, s, ask.pin) THEN Observe(r, "client_error")
         ELSE \/ Set(r, in)
              \/ ask.team # NoTeam /\ Set(r, [in EXCEPT !.tier = FastTier])
              \/ ask.team # NoTeam /\ Observe(r, "budget_blocked")
  /\ UNCHANGED <<storeVars, registry, faults>>

\* A rule blocks, or the request goes on as it is or redacted.  Buffered-safe
\* mode turns a stream into a whole answer before it is relayed.
guardInput(r) ==
  /\ At(r, "guard")
  /\ \/ Observe(r, "blocked")
     \/ \E buffer \in {FALSE, run[r].ask.stream} :
          Set(r, [run[r] EXCEPT !.at = "cache", !.ask.stream = @ /\ ~buffer])
  /\ UNCHANGED <<storeVars, registry, faults>>

CacheKey(r) == <<run[r].scope.namespace, run[r].ask.pin>>

lookUpResponseCache(r) ==
  /\ At(r, "cache")
  /\ IF \E e \in cache : e.key = CacheKey(r)
     THEN Observe(r, "success")
     ELSE Set(r, [run[r] EXCEPT !.at = "route"])
  /\ UNCHANGED <<storeVars, registry, faults>>

setCached(r, whole) ==
  cache' = {e \in cache : e.key # CacheKey(r)} \cup
           {[key |-> CacheKey(r), payer |-> KeyOwner[run[r].key], model |-> run[r].model, whole |-> whole]}

-----------------------------------------------------------------------------
(* Routing: the sticky key, then the team's own keys, then the shared pool *)
(* (discoverBestPool), each pool asked in one atomic script.               *)

Tokens(exact) == IF exact THEN Exact ELSE Estimate

\* SELECT_KEY_LUA's tests, on one key.
Admits(k, r, tokens) ==
  LET u == run[r].ask.user
  IN  /\ gate[k] = "closed" \/ (gate[k] = "due" /\ k \notin slot)
      /\ u = NoUser \/ u \in users[k] \/ Cardinality(users[k]) < MaxUsers
      /\ tpm[k] + tokens <= TpmLimit

\* What dispatchUpstream takes for the reservation: counted.tokens, read after
\* routing has chosen; the mutant reads it before.
ReserveReadEarly(r, exact) == Tokens(run[r].exact)
ReserveRead(r, exact)      == Tokens(exact)

\* ... and its writes.
Chosen(r, k, offer, exact) ==
  /\ slot' = IF gate[k] = "due" THEN slot \cup {k} ELSE slot
  /\ users' = [users EXCEPT ![k] = @ \cup ({run[r].ask.user} \ {NoUser})]
  /\ tpm' = [tpm EXCEPT ![k] = @ + Tokens(exact)]
  /\ Set(r, [run[r] EXCEPT !.at = "vet", !.key = k, !.model = offer.model, !.probe = gate[k] = "due",
                           !.exact = exact, !.took = Tokens(exact), !.reserve = ReserveRead(r, exact), !.ledger = "held"])

\* selectAndReserve: the estimate first, unless it is above a whole limit;
\* refused, the exact count is made and, when smaller, asked once more.
Fits(r, ks, exact) == {k \in ks : Admits(k, r, Tokens(exact))}
FirstTry(r, ks)    == run[r].exact \/ (ks # {} /\ Estimate > TpmLimit)
SecondTry(r, ks)   == ks # {} /\ ~FirstTry(r, ks) /\ Exact < Estimate

\* The keys it could reserve on, with the count it would reserve.
Grants(r, ks) ==
  LET first == Fits(r, ks, FirstTry(r, ks))
  IN  IF first # {} THEN {<<k, FirstTry(r, ks)>> : k \in first}
      ELSE IF SecondTry(r, ks) THEN {<<k, TRUE>> : k \in Fits(r, ks, TRUE)}
      ELSE {}

\* Nothing was granted: the next pool, pass or exit.
PassedOver(r, ks, pass, next) ==
  Set(r, [run[r] EXCEPT !.pass = pass, !.next = next, !.exact = @ \/ ks # {}])

OfferTable == [g \in {Models, {}} |-> [kind \in {"chat", "image"} |-> [tier \in {FastTier, NoTier} |->
  [pin \in Models \cup {NoModel} |-> Offers(g, kind, tier, pin)]]]]
OffersOf(r) == OfferTable[registry][run[r].ask.kind][run[r].tier][run[r].ask.pin]

\* tryStickyKey: the pin outlives its request and may be another team's.
tryStickyKey(r) ==
  /\ At(r, "route") /\ run[r].pass = "sticky"
  /\ LET s      == run[r].ask.session
         pinned == IF run[r].ask.kind # "chat" \/ s = NoUser THEN {} ELSE {sticky[s]} \ {NoKey}
         usable == {k \in pinned : gate[k] # "banned" /\ Eligible(run[r].scope, k)
                                   /\ PickModel(OffersOf(r), KeyPool[k]) # {}}
         grants == Grants(r, usable)
     IN  IF grants = {}
         THEN /\ PassedOver(r, usable, IF run[r].scope.owner # NoTeam THEN "own" ELSE "shared", 1)
              /\ UNCHANGED <<slot, users, tpm>>
         ELSE \E g \in grants : \E i \in PickModel(OffersOf(r), KeyPool[g[1]]) :
                Chosen(r, g[1], OffersOf(r)[i], g[2])
  /\ UNCHANGED <<gate, sticky, cache, registry, faults>>

\* sweepModels and tryPickKey: the next offer's pool, keys of one owner.
sweepModels(r) ==
  /\ At(r, "route") /\ run[r].pass \in {"own", "shared"} /\ run[r].next <= Len(OffersOf(r))
  /\ LET offer  == OffersOf(r)[run[r].next]
         owner  == IF run[r].pass = "own" THEN run[r].scope.owner ELSE NoTeam
         ks     == {k \in Keys : KeyPool[k] = offer.pool /\ KeyOwner[k] = owner /\ gate[k] # "banned"}
         grants == Grants(r, ks)
     IN  IF grants = {}
         THEN PassedOver(r, ks, run[r].pass, run[r].next + 1) /\ UNCHANGED <<slot, users, tpm>>
         ELSE \E g \in grants : Chosen(r, g[1], offer, g[2])
  /\ UNCHANGED <<gate, sticky, cache, registry, faults>>

\* The own keys are exhausted: the shared pool, or hard isolation.
OwnExhausted(r) ==
  /\ At(r, "route") /\ run[r].pass = "own" /\ run[r].next > Len(OffersOf(r))
  /\ PassedOver(r, {}, IF run[r].scope.fallback THEN "shared" ELSE "none", 1)
  /\ UNCHANGED <<storeVars, registry, faults>>

\* discoverBestPool returned null: add a key, or no capacity.
NoRoute(r) ==
  /\ At(r, "route")
  /\ run[r].pass = "none" \/ (run[r].pass = "shared" /\ run[r].next > Len(OffersOf(r)))
  /\ Observe(r, IF ByokKeyRequired(registry, run[r].ask.kind, run[r].scope, run[r].ask.pin)
                THEN "client_error" ELSE "no_capacity")
  /\ UNCHANGED <<storeVars, registry, faults>>

-----------------------------------------------------------------------------
(* The provider call (dispatchUpstream, dispatchProxy).                    *)

Chat(r)   == run[r].ask.kind = "chat"
Key(r)    == run[r].key

\* Reported without giving the reservation back.
FailedKeepsTokens(r, cause) == [run[r] EXCEPT !.at = "report", !.blame = cause]
Failed(r, cause) == [run[r] EXCEPT !.at = "report", !.ledger = "returned", !.blame = cause]

\* The base URL is re-checked; then the call starts, and with it, for chat,
\* the watch on the caller.  One who left during routing aborts it at once.
Vet(r) ==
  /\ At(r, "vet")
  /\ \/ Refund(r) /\ Set(r, Over(r, "ssrf_blocked", "returned"))
     \/ IF Chat(r) /\ run[r].gone
        THEN Refund(r) /\ Set(r, Over(r, "client_cancelled", "returned"))
        ELSE Set(r, [run[r] EXCEPT !.at = "fetch", !.gone = FALSE]) /\ UNCHANGED tpm
  /\ UNCHANGED <<keyVars, sticky, cache, registry, faults>>

\* The fetch rejects: the connection failed, or no headers came in time.
FetchThrows(r, cause) ==
  /\ At(r, "fetch")
  /\ Refund(r) /\ Set(r, Failed(r, cause))
  /\ UNCHANGED <<keyVars, sticky, cache, registry, faults>>

ConnectionFails(r) == FetchThrows(r, "provider")
TtftTimer(r)       == FetchThrows(r, "timer")

\* The awaited reportServerFailure, and then the outcome.
ReportTimeout(r) ==
  /\ At(r, "report")
  /\ reportServerFailure(Key(r), run[r].probe)
  /\ Observe(r, "upstream_error")
  /\ UNCHANGED <<users, tpm, sticky, cache, registry, faults>>

Headers(r) ==
  /\ At(r, "fetch")
  /\ \E place \in {"errbody", IF run[r].ask.stream THEN "read" ELSE "body"} : Set(r, [run[r] EXCEPT !.at = place])
  /\ UNCHANGED <<storeVars, registry, faults>>

\* The text of a refusal is awaited with no timer left running: it arrives, it
\* breaks off, or, for chat, the caller's leaving aborts it.  Its status is
\* known, so which of them makes no difference.
ErrorBody(r) ==
  /\ At(r, "errbody") /\ Set(r, [run[r] EXCEPT !.at = "error"])
  /\ UNCHANGED <<storeVars, registry, faults>>

\* answerUpstreamFailure: report, refund, outcome.
answerUpstreamFailure(r) ==
  /\ At(r, "error") /\ Refund(r)
  /\ \/ /\ Set(r, [Over(r, "upstream_error", "returned") EXCEPT !.blame = "provider"])
        /\ reportRateLimit(Key(r)) \/ reportAuthFailure(Key(r)) \/ reportServerFailure(Key(r), run[r].probe)
     \/ Set(r, Over(r, "client_error", "returned")) /\ UNCHANGED <<gate, slot>>
  /\ UNCHANGED <<users, sticky, cache, registry, faults>>

-----------------------------------------------------------------------------
(* Delivery of a whole answer (deliver.ts).                                *)

\* The outcome is recorded, the reservation forgotten.
BodyFailsUnrefunded(r) == At(r, "body") /\ Observe(r, "upstream_error") /\ UNCHANGED <<storeVars, registry, faults>>

\* readJsonBody failed: malformed or cut off, or out of time.  No report.
BodyFails(r) ==
  /\ At(r, "body")
  /\ Refund(r) /\ Set(r, Over(r, "upstream_error", "returned"))
  /\ UNCHANGED <<keyVars, sticky, cache, registry, faults>>

BodyTimer(r) == BodyFails(r)

\* settleJson; image and speech answers are billed by the unit, and give the
\* whole reservation back.
settleJson(r) ==
  /\ At(r, "body")
  /\ markHealthy(r)
  /\ \/ reconcileTpm(r) /\ Set(r, Over(r, "success", "billed"))
     \/ ~Chat(r) /\ Refund(r) /\ Set(r, Over(r, "success", "returned"))
  /\ (Chat(r) /\ setCached(r, TRUE)) \/ UNCHANGED cache
  /\ UNCHANGED <<users, registry, faults>>

-----------------------------------------------------------------------------
(* The live stream (deliverStream.ts), at the caller's pace: a chunk is    *)
(* read, then written; the idle timer runs only while reading, the ceiling *)
(* on the whole request throughout.                                        *)

ChunkArrives(r) ==
  /\ At(r, "read") /\ Set(r, [run[r] EXCEPT !.at = "write"])
  /\ UNCHANGED <<storeVars, registry, faults>>

Drained(r) ==
  /\ At(r, "write") /\ Set(r, [run[r] EXCEPT !.at = "read"])
  /\ UNCHANGED <<storeVars, registry, faults>>

\* Stores whatever arrived.
StreamOverCachesCancel(r, cutShort, failed, cause, done, degraded) ==
  LET cancelled == cutShort = "client"
      outcome   == IF cancelled THEN "client_cancelled" ELSE IF failed THEN "upstream_error" ELSE "success"
  IN  /\ reconcileTpm(r)
      /\ Set(r, [Over(r, outcome, "billed") EXCEPT !.blame = IF outcome = "upstream_error" THEN cause ELSE "none"])
      /\ markHealthy(r) /\ setCached(r, done /\ ~degraded)
      /\ UNCHANGED <<users, registry, faults>>

\* What follows the loop: the three endings, one row, one reconciliation.
\* done says the reader saw the provider's end, degraded that the tally
\* dropped a frame; only the outcome and the latter decide about the cache.
StreamOver(r, cutShort, failed, cause, done, degraded) ==
  LET cancelled == cutShort = "client"
      outcome   == IF cancelled THEN "client_cancelled" ELSE IF failed THEN "upstream_error" ELSE "success"
      blamed    == outcome = "upstream_error"
  IN  /\ reconcileTpm(r)
      /\ Set(r, [Over(r, outcome, "billed") EXCEPT !.blame = IF blamed THEN cause ELSE "none"])
      /\ IF blamed THEN reportServerFailure(Key(r), run[r].probe) /\ UNCHANGED sticky ELSE markHealthy(r)
      /\ (outcome = "success" /\ ~degraded /\ setCached(r, done /\ ~degraded)) \/ UNCHANGED cache
      /\ UNCHANGED <<users, registry, faults>>

\* The provider ends the stream: complete, with a dropped frame, or after an
\* error event the tally knows.  An error frame inside an OpenAI stream is not
\* one of those: it passes for a frame of the answer.
StreamEnds(r) ==
  /\ At(r, "read")
  /\ \E failed, degraded \in BOOLEAN : StreamOver(r, "none", failed, "provider", TRUE, degraded)

\* Cut off, whatever was dropped before.
CutOff(r, cutShort, cause) == \E degraded \in BOOLEAN : StreamOver(r, cutShort, TRUE, cause, FALSE, degraded)

StreamBreaks(r) == At(r, "read") /\ CutOff(r, "none", "provider")
IdleTimer(r)    == At(r, "read") /\ CutOff(r, "idle", "timer")

\* Stopped while a write waits for the caller, like the idle timer.
WholeTimerReadOnly(r) == At(r, "read") /\ CutOff(r, "duration", "timer")

\* The ceiling: while a write waits, the provider may have closed already,
\* and the next read then finds the end rather than the abort.
WholeTimer(r) ==
  \/ run[r].at \in {"read", "write"} /\ CutOff(r, "duration", "timer")
  \/ At(r, "write") /\ \E degraded \in BOOLEAN : StreamOver(r, "duration", FALSE, "timer", TRUE, degraded)

-----------------------------------------------------------------------------
(* The caller hangs up (clientDeparture.ts, clientWriter.ts).              *)

LeavesEarly(r) ==
  /\ run[r].at \in {"route", "vet"} /\ ~run[r].gone
  /\ Set(r, [run[r] EXCEPT !.gone = TRUE])
  /\ UNCHANGED <<storeVars, registry, faults>>

\* Nobody asks whether the caller left: the key is reported.
LeavesWaitingReported(r) ==
  /\ run[r].at \in {"fetch", "body"} /\ Chat(r)
  /\ Refund(r) /\ Set(r, Failed(r, "caller"))
  /\ UNCHANGED <<keyVars, sticky, cache, registry, faults>>

\* Before the headers, or before a whole body: not the key's fault.
LeavesWaiting(r) ==
  /\ run[r].at \in {"fetch", "body"} /\ Chat(r)
  /\ Refund(r) /\ Set(r, Over(r, "client_cancelled", "returned"))
  /\ UNCHANGED <<keyVars, sticky, cache, registry, faults>>

LeavesStream(r) == run[r].at \in {"read", "write"} /\ CutOff(r, "client", "caller")

Timer(r) == TtftTimer(r) \/ BodyTimer(r) \/ WholeTimer(r)

\* Steps the gateway takes by itself.
Gateway(r) ==
  \/ guardInput(r) \/ lookUpResponseCache(r)
  \/ tryStickyKey(r) \/ sweepModels(r) \/ OwnExhausted(r) \/ NoRoute(r)
  \/ Vet(r) \/ ReportTimeout(r) \/ answerUpstreamFailure(r)

\* Steps of the provider, the caller and the stores.
World(r) ==
  \/ admitRequest(r) \/ KvThrows(r)
  \/ ConnectionFails(r) \/ Headers(r) \/ ErrorBody(r) \/ BodyFails(r) \/ settleJson(r)
  \/ ChunkArrives(r) \/ StreamEnds(r) \/ StreamBreaks(r) \/ IdleTimer(r)
  \/ Drained(r) \/ LeavesEarly(r) \/ LeavesWaiting(r) \/ LeavesStream(r)

AllDone == (\A r \in Requests : At(r, "done")) /\ UNCHANGED vars

Next ==
  \/ /\ \/ \E r \in Requests : Timer(r) \/ Gateway(r) \/ World(r)
        \/ \E k \in Keys : CooldownEnds(k) \/ ProbeExpires(k)
     /\ UNCHANGED twoWay
  \/ AllDone

\* The event loop runs what is ready, and every timer fires.  Nothing is
\* assumed of the provider or the caller.
Fairness == \A r \in Requests : WF_vars(Gateway(r) /\ UNCHANGED twoWay) /\ WF_vars(Timer(r) /\ UNCHANGED twoWay)

Spec == Init /\ [][Next]_vars /\ Fairness

-----------------------------------------------------------------------------
(* Properties.                                                             *)

\* The shape of a request: what it holds goes with where it is.
TypeOK ==
  /\ gate \in [Keys -> {"closed", "open", "due", "banned"}] /\ slot \subseteq Keys
  /\ tpm \in [Keys -> 0..TpmLimit + Cardinality(Requests) * Used]
  /\ \A r \in Requests :
       /\ run[r].at \in {"vet", "fetch", "errbody", "error", "body", "read", "write"} => run[r].ledger = "held" /\ Key(r) \in Keys
       /\ run[r].at = "report" => run[r].ledger = "returned"
       /\ run[r].at = "done" <=> run[r].verdict # "open"

\* The pipeline implements Settlement: on every path, with every timer,
\* hang-up and failing store, the reservation and the outcome settle once
\* and agree (run.ts: "Every exit calls this exactly once", up to a throw).
Account == INSTANCE Settlement WITH
  ledger <- [r \in Requests |-> run[r].ledger], verdict <- [r \in Requests |-> run[r].verdict]
Settles == Account!Spec

\* A key is reported to its breaker only for what the provider did or for a
\* timer of the gateway that ran out, never because the caller hung up
\* (dispatch.ts: "the key did nothing wrong"; deliverStream's three endings).
BlameFollowsProvider == \A r \in Requests : run[r].blame # "caller"

\* A request uses no key outside the scope it was admitted with, also through
\* a sticky pin that another team's session left behind; and no namespace of
\* the response cache holds an answer that another team's key paid for.
ScopeKept ==
  /\ \A r \in Requests : Key(r) # NoKey =>
       KeyOwner[Key(r)] \in {run[r].scope.owner} \cup (IF run[r].scope.fallback THEN {NoTeam} ELSE {})
  /\ \A e \in cache : e.payer \in {NoTeam, e.key[1]}

Charge(r) == CASE run[r].ledger = "held" -> run[r].took
               [] run[r].ledger = "billed" -> Kept(run[r].took)
               [] OTHER -> 0
Charges   == [r \in Requests |-> Charge(r)]
Served(k) == {r \in Requests : Key(r) = k}

\* A key carries the marks of the requests it was chosen for and of no
\* other: its tokens are what they hold or used, its users are theirs, and
\* its probe slot was claimed by one of them (selectKey.ts: "Nothing below
\* may leave a mark on a key it rejects").
MarksEarned == \A k \in Keys :
  /\ tpm[k] = SumFunctionOnSet(Charges, Served(k))
  /\ users[k] \subseteq {run[r].ask.user : r \in Served(k)}
  /\ k \in slot => \E r \in Served(k) : run[r].probe

\* What the cache replays was read to the provider's end with no frame dropped,
\* whichever timer or hang-up raced that end, and comes from the model that was
\* named when one was (deliverStream.ts: "a cached hole is served to everyone").
CacheHasNoHole == \A e \in cache : e.whole /\ e.key[2] \in {NoModel, e.model}

\* Every admitted request is answered, whatever the provider and the caller do,
\* with one exception: it may be left waiting for the text of a refusal, the one
\* await on a provider that no timer of the gateway bounds.
Finishes == \A r \in Requests : ~At(r, "new") ~> (At(r, "done") \/ At(r, "errbody"))

=============================================================================
