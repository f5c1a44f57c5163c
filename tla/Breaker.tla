------------------------------ MODULE Breaker ------------------------------
(***************************************************************************)
(* The circuit breaker of ONE provider key, and everything that moves it:  *)
(* the requests routed to the key, the outcome reporters, the operator's   *)
(* ban / unban / cool buttons, key expiry in the KV, crashes.              *)
(*                                                                         *)
(* Keys share no breaker state, so one key is the whole system here.  The  *)
(* limits a key must pass as well are in Admission, the choice in Routing. *)
(*                                                                         *)
(* Time is counted in ticks, and a KV entry is kept as what is left of it: *)
(* a TTL of 0 is an absent entry.  The value of the `open` entry, an       *)
(* absolute reopen time, is kept as openWait, the ticks until then.        *)
(*                                                                         *)
(* A reporter is two or more awaits, the KV first and the database second; *)
(* each await is a step of its own, so other requests run in between.      *)
(* The coolingUntil column is display data and is left out; `status` is    *)
(* kept, because listRoutable filters on it.                               *)
(***************************************************************************)
EXTENDS Naturals

CONSTANTS
  Slots,              \* slots for concurrent requests, on any replica
  StrikeThreshold,    \* STRIKE_THRESHOLD
  StrikeWindow,       \* STRIKE_WINDOW_SECONDS
  BaseCooldown,       \* BASE_COOLDOWN_SECONDS
  MaxCooldown,        \* MAX_COOLDOWN_SECONDS
  ProbeTtl,           \* PROBE_TTL_SECONDS
  AuthBanThreshold,   \* AUTH_BAN_THRESHOLD
  AuthWindow,         \* AUTH_WINDOW_SECONDS
  RateLimitCooldown,  \* RATE_LIMIT_COOLDOWN_SECONDS
  RowTtl,             \* KEY_ROW_CACHE_TTL_MS
  MaxRefusals         \* bound: the auth counter is not followed past this value

ASSUME BreakerConstants ==
  /\ StrikeThreshold \in Nat \ {0}
  /\ StrikeWindow \in Nat \ {0}
  /\ BaseCooldown \in Nat \ {0}
  /\ MaxCooldown \in Nat \ {0}
  /\ ProbeTtl \in Nat \ {0}
  /\ AuthBanThreshold \in Nat \ {0}
  /\ AuthWindow \in Nat \ {0}
  /\ RateLimitCooldown \in Nat \ {0}
  /\ RowTtl \in Nat \ {0}
  /\ MaxRefusals \in Nat \ {0}
  /\ BaseCooldown <= MaxCooldown
  /\ RateLimitCooldown <= MaxCooldown

OpenKeyTtl == MaxCooldown * 4

VARIABLES
  openWait, openTtl,          \* nexus:breaker:open:<key>
  probeTtl,                   \* nexus:breaker:probe:<key>
  strikes, strikesTtl,        \* nexus:breaker:strikes:<key>
  cooldown, cooldownTtl,      \* nexus:breaker:cooldown:<key>
  refusals, refusalsTtl,      \* nexus:breaker:auth:<key>; refusals > 0 with TTL 0 never expires
  status,                     \* the key row's status column
  rowTtl,                     \* how long some replica's cache may still serve the row as usable
  phase,                      \* where each request is
  admin,                      \* where the operator's own two-step action is
  healthy,                    \* the provider has recovered and will fail no more
  fails,                      \* history: server failures since the last healthy answer
  lostExpire,                 \* history: a process died between the auth counter's INCR and EXPIRE
  sealed                      \* history: ticks the key has been banned with no query about it under way

gateVars     == <<openWait, openTtl>>
strikeVars   == <<strikes, strikesTtl>>
cooldownVars == <<cooldown, cooldownTtl>>
authVars     == <<refusals, refusalsTtl>>
kvVars       == <<gateVars, probeTtl, strikeVars, cooldownVars, authVars>>
breakerVars  == <<kvVars, status, rowTtl, phase, admin, healthy, fails, lostExpire, sealed>>

Phases == {"idle",        \* the slot is free
           "reading",     \* listRoutable or findRoutable has read the row, which is not cached yet
           "listed",      \* the key is a candidate, not yet reserved
           "inflight",    \* the upstream call runs, on a closed breaker
           "probing",     \* the upstream call runs, as the trial request of a half-open breaker
           "toCool",      \* the breaker is open in the KV, markCooling is still to be written
           "toRecover",   \* the breaker is closed in the KV, markRecovered is still to be written
           "authExpire",  \* the refusal is counted, EXPIRE is still to be sent
           "authRelease", \* the probe slot is still to be released
           "banRelease",  \* the same, and this refusal reached the ban threshold
           "toBan"}       \* the ban is decided, markBanned is still to be written

Usable == {"active", "cooling"}

OneLess(n) == IF n = 0 THEN 0 ELSE n - 1

----------------------------------------------------------------------------
(* lib/breaker.ts: the atomic KV programs.                                 *)

NextCooldown(current) ==
  LET next == IF current = 0 THEN BaseCooldown ELSE current * 2
  IN  IF next > MaxCooldown THEN MaxCooldown ELSE next

DelOpen     == openWait' = 0 /\ openTtl' = 0
DelProbe    == probeTtl' = 0
DelStrikes  == strikes' = 0 /\ strikesTtl' = 0
DelCooldown == cooldown' = 0 /\ cooldownTtl' = 0

\* A success that forgets to clear the strikes, or the escalation.
OnSuccessKeepsStrikes  == DelOpen /\ DelProbe /\ DelCooldown /\ UNCHANGED <<strikeVars, authVars>>
OnSuccessKeepsCooldown == DelOpen /\ DelProbe /\ DelStrikes /\ UNCHANGED <<cooldownVars, authVars>>

\* One DEL of four entries; the auth counter is not among them.
OnSuccess == DelOpen /\ DelProbe /\ DelStrikes /\ DelCooldown /\ UNCHANGED authVars

\* The open entry expires when its cooldown ends.
TripExpiresWithCooldown ==
  /\ cooldown' = NextCooldown(cooldown) /\ cooldownTtl' = NextCooldown(cooldown)
  /\ openWait' = NextCooldown(cooldown) /\ openTtl' = NextCooldown(cooldown)
  /\ DelStrikes

\* SERVER_FAILURE_LUA's trip(): escalate, open, forget the strikes.
Trip ==
  /\ cooldown' = NextCooldown(cooldown) /\ cooldownTtl' = OpenKeyTtl
  /\ openWait' = NextCooldown(cooldown) /\ openTtl' = OpenKeyTtl
  /\ DelStrikes

Strike ==
  /\ strikes' = strikes + 1
  /\ strikesTtl' = IF strikes = 0 THEN StrikeWindow ELSE strikesTtl
  /\ UNCHANGED <<gateVars, cooldownVars>>

\* The threshold is tested before the strike is counted.
OpensOneLate(wasProbe) == wasProbe \/ strikes >= StrikeThreshold

\* What SERVER_FAILURE_LUA decides before it writes: does this failure open the breaker?
Opens(wasProbe) == wasProbe \/ strikes + 1 >= StrikeThreshold

OnServerFailure(wasProbe) ==
  /\ DelProbe
  /\ IF Opens(wasProbe) THEN Trip ELSE Strike
  /\ UNCHANGED authVars

OpenFlat ==
  /\ openWait' = RateLimitCooldown /\ openTtl' = OpenKeyTtl
  /\ UNCHANGED <<strikeVars, cooldownVars, authVars>>

\* The probe slot is not released.
OnRateLimitKeepsProbe == OpenFlat /\ UNCHANGED probeTtl

\* Flat cooldown: neither the strikes nor the escalation is touched.
OnRateLimit == OpenFlat /\ DelProbe

\* The gate read by ACQUIRE_LUA and by SELECT_KEY_LUA.
GateClosed == openTtl = 0
GateProbe  == openTtl > 0 /\ openWait = 0 /\ probeTtl = 0

----------------------------------------------------------------------------
(* Routing: read the key row, then reserve on it.                          *)

To(r, p) == phase' = [phase EXCEPT ![r] = p]
InFlight(r) == phase[r] \in {"inflight", "probing"}
WasProbe(r) == phase[r] = "probing"

\* tryPickKey / tryStickyKey miss the cache: the query returns active and cooling keys.
ListRoutable(r) ==
  /\ phase[r] = "idle"
  /\ status \in Usable
  /\ To(r, "reading")
  /\ UNCHANGED <<kvVars, status, rowTtl, admin, healthy, fails, lostExpire>>

\* An entry is served at its deadline too (> for >=).
FillCacheServedAtDeadline(r) ==
  /\ phase[r] = "reading"
  /\ rowTtl' = RowTtl + 1
  /\ To(r, "listed")
  /\ UNCHANGED <<kvVars, status, admin, healthy, fails, lostExpire>>

\* setKeyList / setKeyRow, when the query has returned: what is cached may be banned since.
FillCache(r) ==
  /\ phase[r] = "reading"
  /\ rowTtl' = RowTtl
  /\ To(r, "listed")
  /\ UNCHANGED <<kvVars, status, admin, healthy, fails, lostExpire>>

\* getKeyList / getKeyRow hit.  forgetKeyRow clears the cache of the replica that wrote the row
\* and no other, so the row may be served from a cache whatever its status is now.
ListCached(r) ==
  /\ phase[r] = "idle"
  /\ rowTtl > 0
  /\ To(r, "listed")
  /\ UNCHANGED <<kvVars, status, rowTtl, admin, healthy, fails, lostExpire>>

\* SELECT_KEY_LUA admits the key: a closed breaker, or the one trial slot.
SelectAndReserve(r) ==
  /\ phase[r] = "listed"
  /\ \/ GateClosed /\ To(r, "inflight") /\ UNCHANGED probeTtl
     \/ GateProbe /\ To(r, "probing") /\ probeTtl' = ProbeTtl
  /\ UNCHANGED <<gateVars, strikeVars, cooldownVars, authVars, status, rowTtl, admin, healthy, fails, lostExpire>>

\* The breaker is open, or a limit of the key refuses it; nothing is written either way.
SelectRefuses(r) ==
  /\ phase[r] = "listed"
  /\ To(r, "idle")
  /\ UNCHANGED <<kvVars, status, rowTtl, admin, healthy, fails, lostExpire>>

----------------------------------------------------------------------------
(* services/routing/keyHealth.ts: the outcome reporters.                   *)

\* reportSuccess, first await.  Only a probe goes on to markRecovered.
ReportSuccess(r) ==
  /\ InFlight(r)
  /\ OnSuccess
  /\ fails' = 0
  /\ To(r, IF WasProbe(r) THEN "toRecover" ELSE "idle")
  /\ UNCHANGED <<status, rowTtl, admin, healthy, lostExpire>>

\* reportSuccess, second await: `where status = 'cooling'`.
MarkRecovered(r) ==
  /\ phase[r] = "toRecover"
  /\ status' = IF status = "cooling" THEN "active" ELSE status
  /\ To(r, "idle")
  /\ UNCHANGED <<kvVars, rowTtl, admin, healthy, fails, lostExpire>>

\* reportServerFailure, first await: a 5xx, a timeout, a broken stream.
ReportServerFailure(r) ==
  /\ InFlight(r)
  /\ ~healthy
  /\ OnServerFailure(WasProbe(r))
  /\ fails' = IF fails = StrikeThreshold THEN fails ELSE fails + 1
  /\ To(r, IF Opens(WasProbe(r)) THEN "toCool" ELSE "idle")
  /\ UNCHANGED <<status, rowTtl, admin, healthy, lostExpire>>

\* reportRateLimit -> coolKey, first await.
ReportRateLimit(r) ==
  /\ InFlight(r)
  /\ ~healthy
  /\ OnRateLimit
  /\ To(r, "toCool")
  /\ UNCHANGED <<status, rowTtl, admin, healthy, fails, lostExpire>>

\* The last await of both: the key store's markCooling has no condition on the status.
MarkCooling(r) ==
  /\ phase[r] = "toCool"
  /\ status' = "cooling"
  /\ To(r, "idle")
  /\ UNCHANGED <<kvVars, rowTtl, admin, healthy, fails, lostExpire>>

AfterRefusal(n) == IF n >= AuthBanThreshold THEN "banRelease" ELSE "authRelease"

\* EXPIRE is never sent.
AuthCountNoWindow(r) ==
  /\ InFlight(r)
  /\ ~healthy
  /\ refusals < MaxRefusals
  /\ refusals' = refusals + 1
  /\ To(r, AfterRefusal(refusals + 1))
  /\ UNCHANGED <<gateVars, probeTtl, strikeVars, cooldownVars, refusalsTtl, status, rowTtl,
                 admin, healthy, fails, lostExpire>>

\* reportAuthFailure -> onAuthFailure, first await: INCR.  What it returned decides the rest.
ReportAuthFailure(r) ==
  /\ InFlight(r)
  /\ ~healthy
  /\ refusals < MaxRefusals
  /\ refusals' = refusals + 1
  /\ To(r, IF refusals = 0 THEN "authExpire" ELSE AfterRefusal(refusals + 1))
  /\ UNCHANGED <<gateVars, probeTtl, strikeVars, cooldownVars, refusalsTtl, status, rowTtl,
                 admin, healthy, fails, lostExpire>>

\* Second await, after the first refusal only: EXPIRE opens the window.
AuthExpire(r) ==
  /\ phase[r] = "authExpire"
  /\ refusalsTtl' = AuthWindow
  /\ To(r, AfterRefusal(1))
  /\ UNCHANGED <<gateVars, probeTtl, strikeVars, cooldownVars, refusals, status, rowTtl,
                 admin, healthy, fails, lostExpire>>

\* Third await: DEL probe, whoever claimed it.
AuthRelease(r) ==
  /\ phase[r] \in {"authRelease", "banRelease"}
  /\ DelProbe
  /\ To(r, IF phase[r] = "banRelease" THEN "toBan" ELSE "idle")
  /\ UNCHANGED <<gateVars, strikeVars, cooldownVars, authVars, status, rowTtl, admin,
                 healthy, fails, lostExpire>>

\* banKey: markBanned.
MarkBanned(r) ==
  /\ phase[r] = "toBan"
  /\ status' = "banned"
  /\ To(r, "idle")
  /\ UNCHANGED <<kvVars, rowTtl, admin, healthy, fails, lostExpire>>

\* An exit that reports nothing: the caller hung up before the provider answered, the URL was
\* blocked, the provider answered a 4xx of the caller's own, or the body could not be read.
\* A claimed probe slot is left to its TTL.
NoReport(r) ==
  /\ InFlight(r)
  /\ To(r, "idle")
  /\ UNCHANGED <<kvVars, status, rowTtl, admin, healthy, fails, lostExpire>>

\* The process dies, or the store it awaits throws: what the report had left to do is not done.
Crash(r) ==
  /\ phase[r] # "idle"
  /\ To(r, "idle")
  /\ lostExpire' = (lostExpire \/ phase[r] = "authExpire")
  /\ UNCHANGED <<kvVars, status, rowTtl, admin, healthy, fails>>

----------------------------------------------------------------------------
(* routes/admin/keys.routes.ts: the operator's buttons.                    *)

AdminBan ==
  /\ status' = "banned"
  /\ UNCHANGED <<kvVars, rowTtl, phase, admin, healthy, fails, lostExpire>>

\* Unban, first await: breakerReset.  The refusals counted so far stay.
AdminUnban ==
  /\ admin = "idle"
  /\ OnSuccess
  /\ fails' = 0
  /\ admin' = "unbanning"
  /\ UNCHANGED <<status, rowTtl, phase, healthy, lostExpire>>

AdminUnbanMark ==
  /\ admin = "unbanning"
  /\ status' = "active"
  /\ admin' = "idle"
  /\ UNCHANGED <<kvVars, rowTtl, phase, healthy, fails, lostExpire>>

\* Cool, first await.
AdminCool ==
  /\ admin = "idle"
  /\ OnRateLimit
  /\ admin' = "cooling"
  /\ UNCHANGED <<status, rowTtl, phase, healthy, fails, lostExpire>>

AdminCoolMark ==
  /\ admin = "cooling"
  /\ status' = "cooling"
  /\ admin' = "idle"
  /\ UNCHANGED <<kvVars, rowTtl, phase, healthy, fails, lostExpire>>

----------------------------------------------------------------------------
(* The environment.                                                        *)

\* The open entry has no TTL.
OpenNeverExpires == openWait' = OneLess(openWait) /\ openTtl' = openTtl
OpenExpires      == openWait' = OneLess(openWait) /\ openTtl' = OneLess(openTtl)

\* Every KV entry ages by a tick; one whose TTL ends is gone.
Expire ==
  /\ OpenExpires
  /\ probeTtl' = OneLess(probeTtl)
  /\ strikesTtl' = OneLess(strikesTtl)
  /\ strikes' = IF strikesTtl <= 1 THEN 0 ELSE strikes
  /\ cooldownTtl' = OneLess(cooldownTtl)
  /\ cooldown' = IF cooldownTtl <= 1 THEN 0 ELSE cooldown
  /\ refusalsTtl' = OneLess(refusalsTtl)
  /\ refusals' = IF refusalsTtl = 1 THEN 0 ELSE refusals

\* No query under way can put a banned key into a cache any more.
BanSettled == status = "banned" /\ \A r \in Slots : phase[r] # "reading"

Tick ==
  /\ Expire
  /\ rowTtl' = OneLess(rowTtl)
  /\ sealed' = IF BanSettled /\ sealed < RowTtl THEN sealed + 1 ELSE sealed
  /\ UNCHANGED <<status, phase, admin, healthy, fails, lostExpire>>

UpstreamRecovers ==
  /\ ~healthy
  /\ healthy' = TRUE
  /\ UNCHANGED <<kvVars, status, rowTtl, phase, admin, fails, lostExpire>>

\* A gateway on the in-process KV restarts: the KV and the requests are gone, the row stays.
Restart ==
  /\ DelOpen /\ DelProbe /\ DelStrikes /\ DelCooldown
  /\ refusals' = 0 /\ refusalsTtl' = 0
  /\ phase' = [r \in Slots |-> "idle"]
  /\ rowTtl' = 0 /\ admin' = "idle" /\ fails' = 0 /\ lostExpire' = FALSE
  /\ UNCHANGED <<status, healthy>>

----------------------------------------------------------------------------

BreakerInit ==
  /\ openWait = 0 /\ openTtl = 0 /\ probeTtl = 0
  /\ strikes = 0 /\ strikesTtl = 0 /\ cooldown = 0 /\ cooldownTtl = 0
  /\ refusals = 0 /\ refusalsTtl = 0
  /\ status = "active" /\ rowTtl = 0
  /\ phase = [r \in Slots |-> "idle"]
  /\ admin = "idle" /\ healthy = FALSE /\ fails = 0 /\ lostExpire = FALSE /\ sealed = 0

RequestStep(r) ==
  \/ ListRoutable(r) \/ FillCache(r) \/ ListCached(r) \/ SelectAndReserve(r) \/ SelectRefuses(r)
  \/ ReportSuccess(r) \/ MarkRecovered(r)
  \/ ReportServerFailure(r) \/ ReportRateLimit(r) \/ MarkCooling(r)
  \/ ReportAuthFailure(r) \/ AuthExpire(r) \/ AuthRelease(r) \/ MarkBanned(r)
  \/ NoReport(r) \/ Crash(r)

AdminStep == AdminBan \/ AdminUnban \/ AdminUnbanMark \/ AdminCool \/ AdminCoolMark

BreakerNext ==
  \/ /\ (\E r \in Slots : RequestStep(r)) \/ AdminStep \/ UpstreamRecovers \/ Restart
     /\ sealed' = IF BanSettled' THEN sealed ELSE 0
  \/ Tick

\* Time passes: that is all the breaker's own recovery needs.
Fairness == WF_breakerVars(Tick)

BreakerSpec == BreakerInit /\ [][BreakerNext]_breakerVars /\ Fairness

----------------------------------------------------------------------------
(* Properties.                                                             *)

KvTypes ==
  /\ openWait \in 0..MaxCooldown /\ openTtl \in 0..OpenKeyTtl
  /\ probeTtl \in 0..ProbeTtl
  /\ strikes \in 0..(StrikeThreshold - 1) /\ strikesTtl \in 0..StrikeWindow
  /\ cooldown \in 0..MaxCooldown /\ cooldownTtl \in 0..OpenKeyTtl
  /\ refusals \in 0..MaxRefusals /\ refusalsTtl \in 0..AuthWindow

ProcessTypes ==
  /\ status \in {"active", "cooling", "banned"} /\ rowTtl \in 0..RowTtl /\ sealed \in 0..RowTtl
  /\ phase \in [Slots -> Phases]
  /\ admin \in {"idle", "unbanning", "cooling"}
  /\ fails \in 0..StrikeThreshold

FlagTypes == healthy \in BOOLEAN /\ lostExpire \in BOOLEAN

\* Every variable keeps its type; the INCR that reaches the strike threshold is always
\* consumed by the trip of the same script, so a stored strike count is below it.
BreakerTypeOK == KvTypes /\ ProcessTypes /\ FlagTypes

\* The open entry outlives the cooldown it announces, by the part of its TTL that no cooldown
\* can use up: the breaker always passes through half-open, and never drops straight to closed
\* (the hazard the comment above OPEN_KEY_TTL_SECONDS describes).
GateOutlivesCooldown ==
  openWait > 0 => openTtl >= openWait + (OpenKeyTtl - MaxCooldown)

\* Whatever (re)opens the breaker has freed the probe slot: a cooldown never ends with the slot
\* still held by a trial of an earlier half-open window.
FreshWindowHasFreeSlot == openWait > 0 => probeTtl = 0

\* The escalation is never remembered longer than the gate: a key whose breaker is closed trips
\* at the base cooldown again, whichever of success, expiry or restart closed it.
EscalationBackedByGate == (cooldown > 0 <=> cooldownTtl > 0) /\ cooldownTtl <= openTtl

\* The strikes counted are consecutive: none is older than the last healthy answer, and
\* there are never more of them than server failures since.
StrikesConsecutive == strikes <= fails

\* The auth counter has its window whenever nobody is about to open it, except after a process
\* died between INCR and EXPIRE (onAuthFailure sends them as two commands).
AuthWindowOpen ==
  (refusals > 0 /\ refusalsTtl = 0) => (lostExpire \/ \E r \in Slots : phase[r] = "authExpire")

\* A ban takes hold on every replica: once it has stood for the life of a cache entry, with no query
\* under way that may have read the row before it, no request takes the key up any more, from the
\* database or from a cache that the ban did not clear (forgetKeyRow clears one replica's only).
BanTakesHold ==
  [][sealed = RowTtl => \A r \in Slots : phase[r] = "idle" => phase'[r] = "idle"]_breakerVars

\* A provider that has recovered for good gets its key back, even if every trial request is
\* abandoned by its caller: some entry's TTL always ends the cooling.
Recovers == <>[](healthy /\ admin = "idle") => <>[](openTtl = 0)

----------------------------------------------------------------------------
(* What the documentation says, and the code does not do.                  *)

\* keyHealth.ts, banKey: "A banned key is never routed to again".  Nothing but an operator's own
\* action takes a key out of the banned status, which is what keeps it from being listed.
BannedStaysBanned == [][status = "banned" /\ status' # "banned" => admin # "idle"]_breakerVars

=============================================================================
