# TLA+ verification of Alayra Nexus

Alayra Nexus is an LLM gateway: callers send OpenAI- or Anthropic-shaped requests, the gateway picks
one of many provider keys, forwards the request, and meters, bills and audits what happened. Several
gateway processes (or one cluster of workers) share a key-value store (Redis, or an in-process store
for a single node) and a SQL database. Almost everything that can go wrong is an interleaving of
requests over this shared state, or time running out between two of their steps. That is what the
modules here describe and check.

All paths below are relative to the repository root (`src/...` is its application code).

## 1. Inventory

| component | code | state | operations |
|---|---|---|---|
| circuit breaker and key health | `src/lib/breaker.ts`, `src/services/routing/keyHealth.ts`, `src/adapters/prisma/keyStore.ts`, `src/routes/admin/keys.routes.ts` | five KV entries per key (`open`, `probe`, `strikes`, `cooldown`, `auth`), the row's `status` | gate, the outcome reports (success, 5xx, 429, 401/403), operator's ban / unban / cool |
| key row cache | `src/lib/keyRowCache.ts` | per-process cache of key rows with a TTL | fill, hit, forget |
| rate windows (RPM) | `src/lib/rateWindow.ts`, `src/lib/admission.ts` | two counters per key and limit, with deadlines | admit, roll, expire |
| token reservation (TPM) | `src/lib/admission.ts`, `src/lib/selectKey.ts` | the same counters, reserved before the call | reserve, refund, charge |
| key selection and discovery | `src/services/routing/`, `src/lib/selectKey.ts`, `src/lib/scope.ts` | sticky pins, Max Users sets, probe slots | list the pools in scope, pick a model, pick a key, pin it |
| usage pipeline, audit writer | `src/services/usagePipeline.ts`, `src/services/audit.service.ts` | bounded buffer, flush in flight, interval | emit, flush, requeue, drain |
| team budgets | `src/services/budget.service.ts`, `src/services/token.service.ts` | one KV counter per team and window, the usage table | check, seed, add, roll |
| proxy pipeline | `src/services/proxy/`, `src/services/completionsProxy.service.ts`, `src/services/proxyDispatch.service.ts` | one request: its key, its timers, the caller's socket; the response cache | admit, look up, route, dispatch, relay, report, settle, record |
| shutdown and lifecycle | `src/lib/lifecycle.ts`, `src/server.ts` | ordered steps, a deadline | drain, close, exit |
| factory reset, first run | `src/services/firstRun.service.ts` | owner row, setup token | claim, reset |
| maintenance, backup, restore | `src/services/maintenance.service.ts`, `src/lib/backup/` | maintenance flag, backup archive | enter, drain, restore, leave |
| backup schedule | `src/services/backupSchedule.service.ts` | lock with TTL, last run | tick, catch up |
| admin authentication | `src/services/adminAuth.service.ts`, `src/services/adminUsers.service.ts` | sessions and their index, attempt counters, lockouts, accounts, API tokens | claim, sign in, refresh, sign out, change role or status, remove, mint, revoke |
| caches and memos | `src/lib/ttlMemo.ts`, `src/services/settings.service.ts`, `src/services/providerCache.service.ts` | per process: value, age, read in flight; a shared copy in Redis | load, refill, write through or drop, forget |
| cluster primary | `src/lib/cluster.ts`, `src/server.ts` | workers, deaths in the crash window, fork timers | fork, replace, back off, wind down |
| protocol translation | `src/lib/anthropic.ts`, `src/lib/anthropicReply.ts`, `src/lib/streamTally.ts` | open content blocks, a line not finished | translate a frame, tally it, end |
| key-value store | `src/lib/kv/` | entries with deadlines | commands and scripts |
| notifications, migration, model registry, guardrails, analytics, command line, dashboard | see `PROJECT.json` | mostly configuration or none | |

How they interact. A request passes authentication, the **budget** check, and model selection; key
selection lists the usable rows (through the **row cache**) and runs one script that reads the
**breaker** gate and the **rate windows** and reserves tokens. The provider's answer becomes exactly
one report to key health, one settlement of the reservation, one cost added to the budget counter and
one event for the **usage pipeline**, which later writes the row from which a lost budget counter is
seeded again. Shutdown, factory reset and restore drain the pipelines before they exit or wipe. A
streamed answer is relayed chunk by chunk through the **translator**, if the caller speaks Anthropic,
while the **tally** reads it for the bill and the response cache. A restore raises the maintenance
flag, replaces the tables and wipes the key-value store under everyone's feet; sign-ins, scheduled
backups and memoised settings go on around it in other replicas.

What is hard here:
- a report is several awaits (KV, then database), so any other request's steps run in between;
- TTLs are the recovery mechanism: an abandoned trial, a crash between two commands, and a provider
  that came back are all handled by some entry expiring in time, and in the right order;
- settlements and seeds are fire-and-forget or slow, and may land in a later window than they began;
- inserts fail half-way and are retried; buffers are bounded; draining races with a flush in flight.

What makes each component correct: a breaker that always passes through half-open, escalates only
while it has not recovered, counts only consecutive failures, and gives the key back; a ban that takes
hold on every replica; limits that hold at every instant and across window boundaries; token counters
whose error is accounted for; a buffer that loses nothing silently and keeps order; a
budget counter that never shrinks, never imports another window, and survives the loss of the KV; a
request whose reservation and outcome settle once and agree, on every path, that blames no key for its
caller, and touches no key and no cached answer outside its scope; a restore that no session of the old
data survives; a schedule that takes each backup once; a lockout that holds under overlapping
sign-ins; memos whose staleness is bounded; a fleet that neither shrinks, grows nor spins; a stream that
is well formed for the client and billed for what it said.
`PROJECT.json` lists the hazards line by line, with the properties that cover them.

## 2. Modules and their correspondence to the code

**Breaker**. One key; keys share no breaker state. Variables are the five KV entries, each kept as its
value and the ticks left of its TTL (0 = absent; the stored reopen time of `open` is kept as the ticks
until then), the row's `status`, how long some replica's cache may still serve the row (`rowTtl`), the
phase of every request slot, and the operator's own two-step action. Each Lua script is one operator
(`OnSuccess`, `OnServerFailure`, `OnRateLimit`); each await of a reporter is an action
(`ReportServerFailure` then `MarkCooling`, `ReportAuthFailure` then `AuthExpire` then `AuthRelease` then
`MarkBanned`, ...). `ListRoutable` / `FillCache` / `ListCached` are the query, the cache filled after it,
and the hit on any replica. `Crash` drops whatever a request had left to do; `Restart` is a gateway on the
in-process store. `fails`, `lostExpire` and `sealed` are history variables: the last counts the ticks that
a ban has stood with no query under way that may have read the row before it. The operator is one person:
a second two-step button press waits for the first; a ban, which is one write, may come at any time. The
auth counter is followed up to `MaxRefusals` only. `coolingUntil` is display data and is left out; so is
the fact that a success which was not the trial closes the breaker while the displayed status stays
`cooling`.

**RateRule**, **RateWindow**, **TpmReserve**, **Admission**. `RateRule` is the counting rule of
`rateWindow.ts`, multiplied by the window length to stay in the integers. `RateWindow` is the RPM limit
with rolling windows and expiring counters, and a history of true admissions per tick to compare with.
`TpmReserve` is the reservation: `Reserve` (the select script), `ReconcileRefund`, `ReconcileCharge` and
`ReconcileNothing` (`reconcileTpm` in both modes: the default one returns early when more was used than
reserved), `LeftAsReserved` (the settlement that never ran). Requests whose reservation belongs to an
earlier window are in `straddles`. The truth the counter is compared with is `booked`, what this window's
own requests hold or really used; `givenBack`, `carried`, `uncharged` and `unrefunded` record each way the
two can come apart. `Admission` composes the two the way the select script does: one look at both, and a
count in both or in neither.

**WriteBuffer**. The buffer shared by the usage pipeline and the audit writer: emission, the timer, a
flush chunk by chunk that may fail at any chunk and then puts the whole batch back in front (rows already
written are ignored by id the second time), the cap, the drain's rounds, the table's wipe and the exit. Events are numbered, so order and loss stay visible.

**Budget**. One team's counter, kept as how often it counts each request. `Ask` and `Bill` are the calls
of `checkTeamBudget` and `addSpend`, where the code works out the window key; the commands that follow run
later, on that key. So an addition is `sent` with the key of the current window, or `past` once that
window has ended, and a check whose window ended under it is in `late`: its seed goes to a key nobody
reads, and its verdict is any.

**Routing**, **Proxy**, **Settlement**. `Routing` holds the pure rules: which keys a team's scope lets it
use, which models can serve a request, in which order pools are tried. `Proxy` is the pipeline: each await
of a handler is a point where another request, a timer or the caller's hang-up may step in. Its actions
follow the code from `admitRequest` through the cache look-up, the sticky pin, the walk over pools, the
script's verdict, dispatch, headers, body or stream, to the report, the refund or bill and the record. A
refusal's text is awaited (`ErrorBody`) before it is answered; no timer runs then. A stream's end is what
the loop knows of it, and it is cached when it was a success and the tally had dropped no frame. Both
reconcile modes are in (`twoWay`; `Kept` is what a settled request leaves on the counter). Any report of a
server failure frees the probe slot, and `markCooling` may overwrite a ban, as in the code. The breaker is
reduced to closed / open / due a probe, and budget and guardrail verdicts to choices. `Settlement` is the
abstract specification of a request's accounting (a reservation is taken at most once, given back or
billed at most once, one outcome recorded, and the two agree); `Proxy` implements it through `Account ==
INSTANCE Settlement WITH ...`, checked as the property `Settles`.

**BackupSchedule**, **Backup**. The first has the due rule and retention as operators. The second has
several replicas, each with a scheduler tick, a backup job and a restore, over the shared tables (as a
generation number), stored backups, the schedule's state, the lock, the maintenance flag with its cached
reads, and the sessions. A TTL may run out at any time, because nothing in the code bounds the work by it.
A sign-in is two steps, verified against the tables (`login`) and written to the store (`createSession`),
and so is a read of the flag (`load`, then `readMaintenance` fills the cache). What may throw does: the
export, the wipe, the schedule's state, the commands on the lock, the lowering of the flag. `undercut`,
`halfDone`, `upset`, `stale`, `missed` and `astride` record that a deviation described below has happened,
and to which backup, name or sign-in, so that the properties can say what holds otherwise.

**AdminAuth**. Requests in flight, each with what it has read; accounts, sessions with their per-person
index, API tokens, the attempt counter and the lockout. A sign-in, a guarded call and its refresh, a
sign-out (off the index, then deleted), a change of role or status, a removal, a claim are sequences of
actions, one per await. Simplifications: the row and the count of owners are read in one step, several
sessions of a person are revoked in one step, tokens are minted with the owner's role.

**Memo**. A value in the database, in Redis and in each process's `TtlMemo`. Values are version numbers.
`through` chooses between settings (written through) and pools (dropped). A read is a sequence `load` →
`GetShared` → `ReadStore` → `FillShared` → `Store`, any of which may be overtaken, fail or come late; a
change is `Change` → `ChangeShared` → `ChangeMemo`, any of which may be the last. What is followed is the
entry, not the callers: those that wait on a read which a change overtakes are handed its old value once
(`src/lib/ttlMemo.ts:194`), though it is not stored. The shared copy goes when its TTL ends or a change or
a flush of the pools deletes it; that Redis is emptied or evicts it at another time, in the midst of a
read, is not modelled. The model registry, whose loader stacks a second shared copy behind the first
(`src/lib/registrySnapshot.ts:130`), is outside the bound of `StaleBounded`.

**Fleet**. The primary's `exit` handler, fork timers and crash window; workers that boot, serve, die, are
asked to stop, drain and are cut off by their watchdog; who runs the background jobs. The crash window is
kept as the number of deaths by age, the timers as the number of replacements by the ticks they still
wait: the code looks at how many there are, never at which. `weather` is the world outside: in a storm
workers die and boots fail at will.

**Stream**. One translated stream. The operators `begin`, `textRun`, `toolCall`, `consume`, `end` are the
translator's methods, on a record of its fields and the list of events written so far; `readFrame` is the
tally. A frame is what its JSON says; what is kept of the bytes is where they are cut (`gap`) and whether
the tally has forgotten the beginning of the line under way because it grew past a million characters
(`lost`). Each of a frame's two usage figures may be a number, digits in quotes or missing: the translator
takes a usage object field by field and keeps the earlier value of what is missing (`Merged`), the tally
takes one with a numeric prompt count and sets a missing output to zero (`LastUsage`). The loop's chunk is
one step: the tally, the translation and the boundary all see it before the next read. `mixed` records
that a frame with an error in it also carried text, `oddUsage` that the last usage was one that the two
may read differently.

The proofs are in modules of their own:

| module | proves about |
|---|---|
| `AdmissionProofs` | Admission, with RateRule, RateWindow and TpmReserve; Breaker |
| `UsageProofs` | WriteBuffer; Budget |
| `ProxyProofs` | Proxy and its refinement of Settlement |
| `StreamProofs` | Stream |
| `ClusterProofs` | Fleet; Memo |
| `BackupProofs`, `AdminAuthProofs` | the module they are named after |
| `SumProofs` | induction, finite sums, recursion over the naturals, powers of two, for the others |

A proof module that covers two components extends both, so the standard definitions of the second carry
its name (`BreakerSpec`, `BudgetInit`, `MemoTypeOK`, ...); the two share no variable and no constant, and
each theorem names the specification it is about.

Above a definition stand, here and there, variants of it with a plausible bug (`OnSuccessKeepsStrikes`,
`SeedOverwrites`, `addUp`, ...). No specification uses them: each one is the substitution under which the
property named next to it in `PROJECT.json` must fail. The type invariant of every module is evaluated while
developing, and proved (as `TypeOK`, or as part of the inductive invariant) wherever
there are proofs; the runs spend their time on the other properties.

## 3. Runs

Passing:

| run | checks | bounds |
|---|---|---|
| `breaker` | `GateOutlivesCooldown`, `FreshWindowHasFreeSlot`, `EscalationBackedByGate`, `StrikesConsecutive`, `AuthWindowOpen`, `BanTakesHold`, `Recovers` | two requests, cooldown 1 doubling to 2 (so it escalates and saturates), two strikes, every other duration 1 |
| `admission` | `ErrorAccountedFor`, `WindowWithinLimit`, `DeadlineCoversNextWindow`, `WeightedWithinLimit`, `NoDoubleBurst` | two requests in flight, window of 4 ticks, both limits 3, reservations to 2, usage to 3, both reconcile modes; time is unbounded |
| `write_buffer` | `OldestFirst`, `NothingVanishes`, `EventuallyFlushed` | five events, batch 2, cap 3, chunk 2, two drain rounds: the buffer fills, sheds, fails half-way and is cut |
| `budget` | `TwiceOnlyFromTable`, `SurvivesFlush`, `OnlyThisWindow`, `SpendNeverShrinks` | three requests, cap 2, one window end, one counter loss |
| `proxy` | `BlameFollowsProvider`, `ScopeKept`, `MarksEarned`, `CacheHasNoHole`, `Settles` (refinement), `Finishes` | two requests out of three mixes (a streamed turn of team A, a whole answer in the same session from outside, a pinned stream of team B, an image), a shared and an owned key, one token limit they can exhaust, both reconcile modes, one store failure |
| `backup` | `FlagCoversRestore`, `SessionsFollowData`, `NewestKept`, `OncePerWindow`, `Heals` | two replicas and four mixes: jobs over two days with a fault, jobs and "Back up now" with a fault, two restores with a sign-in, a read of the flag and a fault, a job with a restore; a fault is a crash or a throw; days of two ticks, one backup kept |
| `admin` | `LockoutHolds`, `TokensGoWithPerson`, `SuspensionErases` | two people, two concurrent requests, one token, lockout after two failures, mixes of sign-ins, calls, changes, claims and crashes |
| `fleet` | `FleetSize`, `NoSpin`, `Heals` | three workers, back-off 1 doubling to a cap of 3, a crash window of 5 ticks, deadline 3 |
| `memo` | `StaleBounded`, `RotationReaches` | two instances, two reads in flight, three versions, memo ages 1 and 2, shared copy 2, one fault |
| `stream` | `WellFramed`, `SameAnswer` | four frames out of twelve kinds, each whole or cut in two ways, too long for the tally or not, five ways to end |

Why the bounds suffice: two requests are enough for each hazard of the breaker, whose KV entries do not
say who wrote them: one request stands for the late report, the other for the state it meets. The same
holds for the sessions and accounts of `admin` and the two instances of `memo`: one acts, the other has
read before. Three are needed where a third party observes (a seed that races an addition while a third
check reads; a death while another worker's replacement is on a timer). Ratios are kept rather than
magnitudes: the open entry lives four times the longest cooldown, the cooldown takes at least one
doubling, the buffer's cap is above its batch and is not a multiple of the chunk, the crash window is
longer than the longest back-off, the primary's grace is shorter than the workers' deadline (3 s and 10 s
in the code). Four frames allow text, a tool, text again, and a second tool or a fragment of the first;
two of them carry usage that the two readers must merge.
Mixes rather than full products keep the sequential parts small; each mix is a set of requests or
commands that can meet on some piece of shared state.

Same-named properties are separate definitions of their modules: `Heals` of `Backup` and of `Fleet`.

`CHECK_DEADLOCK FALSE` appears where the system really may stop: requests, events or frames that are
finitely many, a process that has exited.

Violations, each one a sentence in the repository that the code does not keep:

- `fleet_jobs`, `JobsKeepRunning`. `src/lib/cluster.ts` gives the once-per-deployment background jobs to
  the worker with id 1, and Node never uses an id again: when that worker dies and is replaced, a full
  fleet runs no retention, no scheduled backup and no sampling until the whole gateway is restarted.
- `stream_cut`, `TruncationShown`. `src/services/proxy/sse.ts:45`: "a truncated reply that looks whole is
  worse than an error". A provider connection that breaks mid-stream leaves the loop through `catch` with
  no reason set, no frame is written (`deliverStream.ts:88`), and the translator's `end()` closes the
  message with `end_turn`. A timer that cuts inside an event has the same effect, there on purpose for
  callers that speak OpenAI.

Known deviations without a run of their own. The first five are stated as properties in the modules; add
the name to the module's `.cfg` and TLC prints the trace:

- `BannedStaysBanned` (Breaker). `src/services/routing/keyHealth.ts:38`: "A banned key is never routed to
  again". A 429 or 5xx report is two awaits; a ban between them is overwritten by `markCooling`, whose
  update has no condition on the status (`src/adapters/prisma/keyStore.ts:57`; `markRecovered` beside it
  has one). `BanTakesHold` is what does hold: forgetting the row reaches one replica's cache only, but once
  the ban has stood for the life of a cache entry with no earlier query under way, no request takes the
  key up from anywhere.
- `NoResurrection` (WriteBuffer). `src/services/firstRun.service.ts:196`: drained first, "so no buffered
  pre-reset entry can flush after the wipe". `flush()` returns 0 while another flush is in flight, so
  `drain()` returns without waiting for it and its rows land in the emptied table.
- `AlwaysAnOwner` (AdminAuth). `src/services/adminUsers.service.ts:154`: the last-owner check and the
  change are two statements; two owners who demote each other at once leave none.
- `SessionsEnd` (AdminAuth). `src/services/adminAuth.service.ts:356`: a refresh writes the session back
  with `KEEPTTL` after it was deleted, and it then has no deadline at all.
- `ArchiveKept` (Backup). A replace restore empties the tables of the stored backups
  (`src/lib/backup/restore.ts:389`), which `src/lib/backup/modelOrder.ts:86` sets apart from the data.
- The breaker's probe slot lives 30 s, less than a trial may run, and every report deletes it, so more
  than one trial can run (`src/lib/breaker.ts:26`, `docs/routing.md:44` say exactly one).
- A cost that found no budget counter is skipped, and a seed may sum the table before its row is written:
  it is missing for the rest of the window (`src/services/budget.service.ts:89`: "a stale partial counter
  is never created").
- `docs/routing.md:9` calls the limits "enforced exactly". The weighted window estimates; a trailing
  window can hold more than the limit. `NoDoubleBurst` states the bound that does hold.

Observed while modelling, and reflected in the models where they are in scope:

- Proxy: a store that throws at an awaited report leaves the request without an outcome (`Lose` of
  Settlement); a throw of `touchLastUsed` after the reservation leaves it held (`pickKey.ts:79`); a caller
  that stops reading runs the whole-request ceiling down and the key is struck for it
  (`deliverStream.ts:61`); the text of a provider's refusal is awaited
  (`upstreamFailure.ts:139`) after the timer was cleared (`dispatch.ts:221`), so a provider that drips it
  holds the request, and `Finishes` makes that exception; an error frame inside an OpenAI-format stream is
  not seen as a failure and the answer is cached (`deliverStream.ts:116`; `CacheHasNoHole` does not speak
  of it: it says that what is cached was read to the provider's end with no frame dropped); an answer with
  text and tool calls is cached without the calls (`src/lib/responseCache.ts:139`).
- Admission: in the default mode what a request uses beyond its reservation is never charged
  (`src/lib/admission.ts:133`), so a window's counter may be below what its own requests used without any
  of them straddling a boundary. `ErrorAccountedFor` counts it as `uncharged`.
- Stream: a last line without its line end is billed and cached (`streamTally.ts:196`) but not translated.
  Of a frame with an error in it the translator reads nothing else (`src/lib/anthropic.ts:298`), while the
  tally takes its text and usage (found when `SameAnswer` could not be proved without `mixed`). The guards on
  usage differ (`streamTally.ts:140`, `anthropic.ts:306`): figures in quotes, or an object without a prompt
  count, reach the client and not the bill; an object without an output count is billed as zero output.
  A line beyond a million characters is dropped by the tally (`streamTally.ts:181`), which then calls itself
  degraded, and translated all the same.
- Backup: the first of two concurrent restores to end lowers the flag for both; the flag lapses when no
  batch ends for five minutes; a restore drains only its own process's buffers; a replace wipes the
  schedule's lock and moves its state back; a crash between commit and wipe, or a wipe that throws
  (`backup.service.ts:233`), leaves the old sessions; a sign-in verified before the wipe writes its session
  after it (`adminAuth.service.ts:543` to `568`, `319`), and it stays; a backup whose record cannot be
  written (`backupSchedule.service.ts:301`) is taken again at the next tick; a read of the flag begun before
  `beginMaintenance` may overwrite the cache it has just set (`maintenance.service.ts:186`);
  retention deletes by file name (`backupSchedule.service.ts:212`), so a pass that listed a name before a
  replace emptied the archive deletes the backup that another replica's slow job has since stored under
  it, though it is the newest (`stale`; found when `NewestKept` could not be proved without it).
- AdminAuth: a sign-out takes the session off its index and then deletes it
  (`adminAuth.service.ts:405`): a process that dies between the two leaves a session that works and that a
  later suspension does not find; a recovery code is found and stamped in two statements; a token minted
  between the two statements of a removal survives; a crash between INCR and EXPIRE leaves an attempt
  counter without a deadline; the DEL that follows a lockout's SET (`adminAuth.service.ts:238`) may come
  after a sign-in that succeeded has lifted the lockout, and then wipes the failures counted since, so
  with a threshold of three or more a source gets a new slate without a success of its own after them
  (found when `LockoutHolds` could not be proved; the model counts that DEL as a clean slate).
- Memo: after a refused DEL the next load of the same instance reads the old shared copy, although
  `providerCache.service.ts:109` calls the instance "never stale about its own change"; two overlapping
  changes of one setting can leave Redis on the older value for its TTL; a registry edit through a
  memoised copy loses a concurrent one (`src/services/model.service.ts:238`).
- Fleet: the back-off does not settle at thirty seconds but falls again as the crash window empties
  (`src/lib/cluster.ts:117`); the primary leaves after 3 s while workers may drain for 10 s
  (`src/server.ts:406`); Ctrl-C signals workers twice, and the second signal skips the flush.

## 4. Fairness

- Breaker: weak fairness of `Tick`, nothing else. Time passes whatever the gateway does. No request,
  report or operator is assumed to act: `Recovers` holds even if every trial is abandoned.
- WriteBuffer: weak fairness of `TimerFlush` (an interval that is set and not cleared fires) and of
  `InsertChunk` (an insert is eventually answered). That inserts stop failing is not assumed: it is a
  hypothesis (`dbUp`) of the property. A stopped interval is the conclusion's other branch, because
  `drain()` really stops it and only a new event starts it again.
- Proxy: weak fairness of each request's own next step (`Gateway`: the event loop runs a continuation
  whose promise is settled, and stores answer or throw) and of its timers. The provider and the caller
  need never act: `Finishes` is what the timers are for. The end of a refusal's text (`ErrorBody`) is the
  provider's step and has no timer, so it is not fair, and `Finishes` excuses the wait for it.
- Backup: weak fairness of each replica's scheduler tick and of the steps of a job or restore that has
  begun, and of the expiry of the lock and of a flag nobody refreshes. Crashes, throws and new commands are
  not fair, and bounded.
- Fleet: weak fairness of the fork timer, of a boot's end (it serves or fails), of the worker's watchdog, of the
  primary's exit once it is stopping, and of time. `Heals` assumes that the storm ends.
- Admission, Budget, AdminAuth, Memo and Stream are safety only.

## 5. Proofs

Every theorem holds for all values of the constants that satisfy the named assumptions of its module
(`BreakerConstants`, `RateConstants`, `ReserveConstants`, `RpmConstants`, `BudgetConstants`,
`BufferConstants`, `RoutingConstants`, `ProxyConstants`, `ScheduleConstants`, `BackupConstants`,
`AdminConstants`, `FleetAssumption`, `MemoAssumption`, `StreamAssumption`). They say that durations,
limits and bounds are (mostly positive) naturals, that requests, replicas and people are finite sets, that
"nobody", "no key" and the like are not members of what they
stand outside of, and that the mixes are records of naturals; the breaker's also that the base and the
rate-limit cooldown do not exceed the maximum.

Of the 40 properties of the passing runs 35 are theorems: all 32 invariants, the action properties
`BanTakesHold` and `SpendNeverShrinks`, and the refinement `Settles`. Each strengthened invariant
was an invariant of a TLC run before it was proved.

**Breaker.**
- `GateTypeCorrect`: the type invariant, inductive by itself. The point is the strike counter: it is stored
  below its threshold because the script that reaches it trips and deletes it.
- `KvConsistent`: the four KV invariants together. None is inductive without the types;
  `EscalationBackedByGate` needs the fact that every write of `cooldown` also writes `open` with the same
  TTL, and that a 429 only lengthens `open`'s TTL. The reports reduce to the three scripts, time to
  `Expire`, all else leaves the KV alone.
- `AuthWindowAlwaysOpen`: the auth counter has a window unless somebody is about to open it or died before
  doing so. Only the one INCR that returned 1 enters that phase.
- `BanReachesCaches`: the action property `BanTakesHold`. No cache is ever told of the ban by another
  replica; what makes it hold is that the time a ban has stood and what is left of any cache entry are
  together at most the life of an entry (`BanAges`). Only a fill makes an entry live longer, a fill needs a
  query under way, and a query under way starts the count again.

**Budget.**
- `CounterSound`: a cost is counted twice only from the table, a lost counter comes back with the durable
  rows, and no other window's cost gets in, although seeds and additions run later than the call that fixed
  their window. The strengthening records what the invariants leave implicit: a
  request not answered yet has recorded nothing (`NothingRecordedYet`), a seeder in this window holds only
  rows of the table and of this window, and every durable one (`SeedsFromTable`), an addition with this
  window's key is of a cost that became known in it (`KeyOfTheCall`), and what a count of one
  or two says about the row and the addition (`CountedFor`).
- `CounterMonotone`: a living counter never shrinks; from the same invariant, and `NX`.

**Admission.** The two limits are proved apart and carried over by refinement.
- `RpmLimitHolds`: the weighted count is within the limit at every instant. Time within a window only
  lowers the weight (`CountMono`), the counter of a full window is at most the limit
  (`CountCapsCurrent`), and rolling turns it into the previous one at weight one (`CountRolled`), so the
  boundary is covered.
- `NoBurst`, a lemma: the counters are the sums of the admissions in this window and the one before, as no
  counter expires while it is read, and so a trailing window, which is this window's admissions and part of
  the last one's, is below twice the limit.
- `AdmissionImplementsRpm`, `AdmissionImplementsTpm`: an admission is an admission of both, a settlement
  is a stutter of RateWindow. So `AdmissionWithinLimit`, `AdmissionNoBurst` and `AdmissionKeepsTokens`
  follow from `RpmLimitHolds`, `NoBurst` and `ReservationsHold`.
- `ReservationsHold`: without two-way charging no window passes the limit, every counter has a deadline
  that reaches the end of the next window, and the counter is off from what the window's own requests hold
  or really used by no more than `givenBack` and `uncharged` below, `carried` and `unrefunded` above. A refund
  stops at zero, so the proof must know that what this window's own requests hold together is no more than
  what is booked: `Packed` says that their reservations can be laid out in `0..booked` without overlap.
  That does the work of a sum over the requests, which need not be finitely many.

**WriteBuffer.** `BufferSound`: memory within its cap, in the order of emission with no event twice, and
every event in memory, in the table, or recorded as shed or cut. `OldestFirst` and `NothingVanishes` need
each other (a cut at the cap takes the newest because the order holds), and `SentInTable`: a flush that
completes may forget its batch because the rows of its earlier chunks are in the table.

**Proxy.** The four safety properties, and the refinement of Settlement. What a request holds, whom its
key belongs to and what it costs follow from that request's own record: `Good` says so of each record, and
`Step` says what an action of a request may do: take its record to a good one by a move of the
accounting (`Move`), and leave on the keys exactly the marks of that change (`Counted`). Each of the
pipeline's actions is shown to be a `Step` once; from `Step` alone follow the invariant
(`StepKeepsInv`), the marks (`StepKeepsMarks`: a key's tokens are a sum in which one summand changes) and
the refinement (`StepSettles`). The theorems are `ProxySafe` and `ProxySettles`; the second is the safety
of Settlement, which states no fairness.

**Backup.** `BackupSafe`, four invariants with a strengthening each.
- `FlagCoversRestore` and `SessionsFollowData`: what a restore's step says of the flag, the generation and
  the sessions. The sign-ins on their way must be as good as the sessions they will write
  (`SignInsFollowData`): those that a wipe overtakes are `astride`, and a wipe that failed is `halfDone`
  until one succeeds.
- `NewestKept`: a name is beaten when `Keep` of the names in `kept` are above it. `Retention` says that
  none in `kept` is, that every completed backup is in `kept` or beaten, and that a pass is about to delete
  only beaten or stale names, however many replicas prune at once; that what retention lists is beaten by
  the rest is `BeatenByTheRest`.
- `OncePerWindow`: the lock has one holder; a name that was taken and recorded (`Recorded`: not one of
  `missed`) is no later than the stored last run, or its holder is about to store it; and a job that is owed
  was due later than all of them.

**AdminAuth.** `AdminSafe`.
- `LockoutHolds`: `LockInv` counts the requests at each step. While the source is not locked out, every
  wrong credential is counted or about to be, and all beyond the threshold belong to requests on their way
  to lock it out; once it is, only those already past the check can add to them.
- `TokensGoWithPerson`: a working token belongs to its minter as long as the account is there, so a removal
  that has read the account's tokens has read all it minted but those minted since.
- `SuspensionErases`: a session that was to be erased and still works is in its account's index, and a
  request by somebody else is after it (`Chased`): it has still to list the sessions, or has listed this
  one; or a sign-out has taken it off the index and is about to delete it (`Leaving`). That needs
  `IndexedOwn` and `OpenedOwn` (an index lists only the account's own sessions) and `ForeverRaised` (an
  index does not expire before the sessions in it, unless they were written back).

**Stream.** `WellFormedMessage`: `WellFramed` and `SameAnswer`. `WellFramed` speaks of the events on the
socket only. What keeps it is how the translator's fields stand to them (`Framed`): every index below the
next one was started, in order, and is stopped exactly when no field holds it any more (`textIndex` or a
value of `toolBlocks`), and no two fields hold the same one (`Apart`). What one more event changes is proved
first, then each method of the translator, then `end`, which stops the tool blocks in the order they were
opened. `SameAnswer` is inductive with it: the two readers see the same lines, but for the one that is not
finished when the stream ends there and those too long for the tally (whenever it has forgotten part of a
line it has said so). That the two ways of taking usage give the same record for two numbers, whatever
either had before, is `UsageRead`; after any other figures the next two numbers bring them together again.

**Memo.** `MemoServes`: `StaleBounded` and `RotationReaches`.
- Versions are replaced in order (`Replaced`). `Aged` bounds, for the value in each place, how long ago the
  database can have replaced it: a read in flight by its own age, the shared copy by one call and the time
  it has lived, an entry by both and its own age. A refill passes a value on with the age of its read, so
  no chain of refills adds up.
- For settings whose changes neither overlapped nor failed half way: at most one change is under way
  (`OneChange`), the shared copy holds the newest version that has reached it (`Current`, `Known`), and so
  a read that began after a change returned brings that change or a later one (`Reached`).

**Fleet.** `FleetHolds`: `FleetSize` and `NoSpin`.
- `FleetSize`: a death takes one worker from the living and adds one to the sum of the waiting
  replacements, or neither; a timer does the reverse.
- `NoSpin` says nothing of the timers, and is far from inductive. `Earned` is what is: choose some of the
  waiting replacements and an age. The deaths up to that age, less the replacements waiting that were not
  chosen, have together waited what the curve of the delays says, but for what the chosen ones still have
  to wait, and at most one worker per place waits in any tick. A death adds a delay that is no less than
  the next step of the curve, as the crash window holds all the young deaths; a tick takes one from every
  chosen wait and makes the age one more; a timer that fires was waiting for nothing. With none chosen, and
  the age of the whole window, it is `NoSpin`.
- On the way `DelayIsCurve` shows that `forkDelayMs`, a power of two cut at the ceiling, is the curve that
  `NoSpin` defines by doubling, grows with the deaths, never passes the ceiling and is zero for the first
  death only.

Model-checked only: `Recovers`, `EventuallyFlushed`, `Finishes` and both `Heals`. Liveness under fairness is
outside the prover's reach. So are the refutations of `fleet_jobs` and `stream_cut`, which are traces.

Sums, least elements and recursive functions do need induction. The library's induction theorems take an
operator, so `SumProofs` derives induction for a set (`SetInduction`) and the least element (`LeastNat`) from
the well-foundedness of the naturals, and from those the laws of the community modules' `SumFunctionOnSet`
and the existence of a function computed step by step (`NatRecursion`), which `Curve` and `Waited` need.
`Powers` has the doubling of `2 ^ k` by counting subsets: the provers know nothing of exponents.

`SurvivesFlush` exempts the loss of the counter while a seed is between its sum and its `SET`: that
seed may write back a sum read before the last rows were written.

## 6. Not modelled, and the plan

Text and I/O stay out: guardrail patterns, request and JSON-reply translation, prices, analytics queries,
the dashboard, the command line, cryptography, the archive's byte format and the SSO protocol. They are
most of the repository's lines, and carry little of its control. Clocks of different replicas are assumed
equal (the window index is computed by the caller's clock). Notifications are best effort and nothing
reads their state; the database migration has the restore's control.

Left, in this order:

1. AdminAuth: recovery codes, TOTP enrolment, invitations.
2. The in-process key-value store as a refinement of the commands the scripts use; bounded clock skew in
   Admission.
3. Proofs: with every invariant of the runs proved, what is left is what these models do not say yet.
