------------------------------- MODULE Fleet -------------------------------
(***************************************************************************)
(* The gateway as a cluster: a primary that only supervises, the workers   *)
(* it forks and replaces, and the timers that are not per-request work     *)
(* (src/server.ts, lib/cluster.ts, lib/lifecycle.ts,                       *)
(* services/preflight.service.ts).                                         *)
(*                                                                         *)
(* Names of Workers are reused after a death; Node's worker ids are not,   *)
(* so `first' keeps the one fact about ids the code reads: which live      *)
(* worker, if any, has the id 1.  Time advances in ticks; a boot and a     *)
(* death take none, which is the worst case for the replacement loop.      *)
(* The steps of a wind-down (close, flush, flush, disconnect) are one      *)
(* stage of any length here; what they write is in WriteBuffer.            *)
(***************************************************************************)
EXTENDS Integers, FiniteSets, Functions

CONSTANTS
  Workers,              \* names for the worker processes
  Nobody,               \* no worker
  FORK_BACKOFF_BASE,    \* 200 ms, in ticks
  FORK_BACKOFF_MAX,     \* 30 s
  CRASH_WINDOW,         \* 60 s
  SHUTDOWN_DEADLINE,    \* 10 s: a wind-down's own watchdog
  PRIMARY_EXIT_GRACE    \* 3 s: how long the primary stays after SIGTERM

Bounds ==
  /\ IsFiniteSet(Workers) /\ Cardinality(Workers) > 1 /\ Nobody \notin Workers
  /\ {FORK_BACKOFF_BASE, FORK_BACKOFF_MAX, CRASH_WINDOW, SHUTDOWN_DEADLINE, PRIMARY_EXIT_GRACE} \subseteq Nat \ {0}
  /\ FORK_BACKOFF_BASE <= FORK_BACKOFF_MAX

ASSUME FleetAssumption == Bounds

VARIABLES
  weather,   \* "calm", "outage" (a dependency does not answer) or "bugs" (workers die)
  primary,   \* "up", "stopping" or "gone"
  since,     \* ticks since the primary was told to stop
  stage,     \* of each worker: "none", "boot", "serve" or "drain"
  spent,     \* ticks of the worker's wind-down so far
  first,     \* the live worker whose id is 1
  jobs,      \* the workers that run the background jobs
  recent,    \* createCrashWindow's list: the deaths inside the window, by their age
  due        \* the pending replacements, by the ticks they still wait

vars == <<weather, primary, since, stage, spent, first, jobs, recent, due>>

TypeOK ==
  /\ weather \in {"calm", "outage", "bugs"}
  /\ primary \in {"up", "stopping", "gone"} /\ since \in 0..PRIMARY_EXIT_GRACE
  /\ stage \in [Workers -> {"none", "boot", "serve", "drain"}]
  /\ spent \in [Workers -> 0..SHUTDOWN_DEADLINE]
  /\ first \in Workers \cup {Nobody} /\ jobs \subseteq Workers
  /\ recent \in [0..(CRASH_WINDOW - 1) -> Nat]
  /\ due \in [0..FORK_BACKOFF_MAX -> Nat]

\* The initial forks: every worker of the number asked for is starting.
Init ==
  /\ weather = "calm"
  /\ primary = "up" /\ since = 0
  /\ stage = [w \in Workers |-> "boot"]
  /\ spent = [w \in Workers |-> 0]
  /\ first \in Workers /\ jobs = {}
  /\ recent = [age \in 0..(CRASH_WINDOW - 1) |-> 0]
  /\ due = [d \in 0..FORK_BACKOFF_MAX |-> 0]

Smaller(a, b) == IF a < b THEN a ELSE b

\* Supervision as it was before the back-off.
forkAtOnce(crashesInWindow) == 0

forkDelay(crashesInWindow) ==
  IF crashesInWindow <= 1 THEN 0
  ELSE Smaller(FORK_BACKOFF_BASE * 2 ^ (crashesInWindow - 2), FORK_BACKOFF_MAX)

\* record(now): this death joins the ones still inside the window.  (The
\* filter takes one out when it is CRASH_WINDOW old, which is when Tick does:
\* nothing reads the list in between.)
inWindow == SumFunctionOnSet(recent, DOMAIN recent)
record == [recent EXCEPT ![0] = @ + 1]

---------------------------------------------------------------------------

\* The replacement waits on a timer, unless it is forked at once.
\* (Without the handler's early return it would be both.)
bothWays(delay) == [due EXCEPT ![delay] = @ + 1]

waiting(delay) == IF delay = 0 THEN due ELSE [due EXCEPT ![delay] = @ + 1]

\* cluster.on('exit') of a worker named w, by whatever cause: replaced at
\* once, or after the delay, or not at all once the gateway is stopping.
exited(w) ==
  /\ first' = IF first = w THEN Nobody ELSE first
  /\ jobs' = jobs \ {w}
  /\ spent' = [spent EXCEPT ![w] = 0]
  /\ IF primary # "up"
     THEN stage' = [stage EXCEPT ![w] = "none"] /\ UNCHANGED <<recent, due>>
     ELSE LET delay == forkDelay(inWindow + 1) IN
          /\ recent' = record
          /\ stage' = [stage EXCEPT ![w] = IF delay = 0 THEN "boot" ELSE "none"]
          /\ due' = waiting(delay)

\* The timer looks at `stopping' again before it forks.  (A supervisor that
\* gives up would also look at how often it has forked.)
untilThreeDeaths == primary = "up" /\ inWindow < 3

stillForks == primary = "up"

ForkTimer ==
  /\ due[0] > 0
  /\ due' = [due EXCEPT ![0] = @ - 1]
  /\ \/ stillForks /\ \E w \in Workers : stage[w] = "none" /\ stage' = [stage EXCEPT ![w] = "boot"]
     \/ ~stillForks /\ UNCHANGED stage
  /\ UNCHANGED <<weather, primary, since, spent, first, jobs, recent>>

\* Retention, the health sampler and the backup scheduler.
ownsBackgroundJobs(w) == first = w

\* A worker's bootstrap: dependencies checked, server listening, handlers
\* installed, and the jobs started in the worker with the id 1.
Serve(w) ==
  /\ stage[w] = "boot" /\ weather # "outage"
  /\ stage' = [stage EXCEPT ![w] = "serve"]
  /\ jobs' = IF ownsBackgroundJobs(w) THEN jobs \cup {w} ELSE jobs
  /\ UNCHANGED <<weather, primary, since, spent, first, recent, due>>

\* assertDependencies throws and bootstrap's catch exits 1.
BootFails(w) ==
  /\ stage[w] = "boot" /\ weather = "outage"
  /\ exited(w)
  /\ UNCHANGED <<weather, primary, since>>

\* An error escapes, or the worker is signalled on its own: shutdown()
\* begins the wind-down; a second call ends the process on the spot.
Fatal(w) ==
  /\ weather = "bugs" /\ stage[w] \in {"serve", "drain"}
  /\ \/ /\ stage[w] = "serve"
        /\ stage' = [stage EXCEPT ![w] = "drain"]
        /\ UNCHANGED <<spent, first, jobs, recent, due>>
     \/ stage[w] = "drain" /\ exited(w)
  /\ UNCHANGED <<weather, primary, since>>

\* The process dies with no wind-down: out of memory, or killed.
Killed(w) ==
  /\ weather = "bugs" /\ stage[w] # "none"
  /\ exited(w)
  /\ UNCHANGED <<weather, primary, since>>

\* Every step has run, failed ones included.
Drained(w) ==
  /\ stage[w] = "drain"
  /\ exited(w)
  /\ UNCHANGED <<weather, primary, since>>

\* A step hangs; the watchdog ends the process.
Watchdog(w) ==
  /\ stage[w] = "drain" /\ spent[w] = SHUTDOWN_DEADLINE
  /\ exited(w)
  /\ UNCHANGED <<weather, primary, since>>

\* SIGTERM or SIGINT at the primary, once or again: each worker is
\* signalled.  One that is still starting has no handler yet and dies; one
\* that is winding down takes it for a second signal and exits.
Stop ==
  /\ primary # "gone"
  /\ primary' = "stopping"
  /\ stage' = [w \in Workers |-> IF stage[w] = "serve" THEN "drain" ELSE "none"]
  /\ spent' = [w \in Workers |-> 0]
  /\ first' = IF first # Nobody /\ stage[first] = "serve" THEN first ELSE Nobody
  /\ jobs' = {w \in jobs : stage[w] = "serve"}
  /\ UNCHANGED <<weather, since, recent, due>>

\* The grace is over, or an error reached the top of the primary itself.  A
\* worker that loses its channel to the primary exits (node:cluster),
\* whatever it was doing.
PrimaryLeaves ==
  /\ \/ primary = "stopping" /\ since = PRIMARY_EXIT_GRACE
     \/ primary # "gone" /\ weather = "bugs"
  /\ primary' = "gone"
  /\ stage' = [w \in Workers |-> "none"]
  /\ spent' = [w \in Workers |-> 0]
  /\ first' = Nobody /\ jobs' = {}
  /\ due' = [d \in DOMAIN due |-> 0]
  /\ UNCHANGED <<weather, since, recent>>

\* Time passes; a timer that is due runs before it does.
Tick ==
  /\ primary # "gone" /\ due[0] = 0
  /\ primary = "stopping" => since < PRIMARY_EXIT_GRACE
  /\ \A w \in Workers : stage[w] = "drain" => spent[w] < SHUTDOWN_DEADLINE
  /\ since' = IF primary = "stopping" THEN since + 1 ELSE since
  /\ spent' = [w \in Workers |-> IF stage[w] = "drain" THEN spent[w] + 1 ELSE 0]
  /\ recent' = [age \in DOMAIN recent |-> IF age = 0 THEN 0 ELSE recent[age - 1]]
  /\ due' = [d \in DOMAIN due |-> IF d < FORK_BACKOFF_MAX THEN due[d + 1] ELSE 0]
  /\ UNCHANGED <<weather, primary, stage, first, jobs>>

\* The world around the gateway.
Weather ==
  /\ primary = "up"
  /\ weather' \in {"calm", "outage", "bugs"} \ {weather}
  /\ UNCHANGED <<primary, since, stage, spent, first, jobs, recent, due>>

Exits(w) == Drained(w) \/ Watchdog(w)

Next ==
  \/ \E w \in Workers : Serve(w) \/ BootFails(w) \/ Fatal(w) \/ Killed(w) \/ Exits(w)
  \/ ForkTimer \/ Stop \/ PrimaryLeaves \/ Tick \/ Weather

\* Timers fire and a process that is starting or winding down gets there;
\* nothing is assumed of operators, crashes or the weather.
Fairness ==
  /\ \A w \in Workers : WF_vars(Serve(w)) /\ WF_vars(BootFails(w)) /\ WF_vars(Watchdog(w))
  /\ WF_vars(ForkTimer) /\ WF_vars(primary = "stopping" /\ PrimaryLeaves) /\ WF_vars(Tick)

Spec == Init /\ [][Next]_vars /\ Fairness

---------------------------------------------------------------------------

Alive == {w \in Workers : stage[w] # "none"}

Pending == SumFunctionOnSet(due, DOMAIN due)

\* Every death is answered by exactly one replacement, alive or on a timer:
\* the fleet neither shrinks nor grows, whatever dies in whatever order
\* (server.ts, the 'exit' handler).
FleetSize ==
  primary = "up" => Cardinality(Alive) + Pending = Cardinality(Workers)

\* The intended curve: nothing for the first death, then the base, doubled
\* by each further one up to the ceiling; and what n deaths wait in all.
Curve[n \in Nat] ==
  IF n <= 1 THEN 0 ELSE IF n = 2 THEN FORK_BACKOFF_BASE ELSE Smaller(2 * Curve[n - 1], FORK_BACKOFF_MAX)

Waited[n \in Nat] == IF n = 0 THEN 0 ELSE Waited[n - 1] + Curve[n]

\* However the workers die, replacing them never becomes a spin: the deaths
\* inside one crash window are so few that the delays they earned fit into
\* the window once per worker (lib/cluster.ts, forkDelayMs).
NoSpin ==
  LET answered == inWindow - Cardinality(Workers) IN
  answered > 0 => Waited[answered] <= Cardinality(Workers) * (CRASH_WINDOW - 1)

\* "It never gives up" (lib/cluster.ts): once workers stop dying and the
\* dependencies answer, every worker the operator asked for serves again.
Heals ==
  <>[](weather = "calm") => <>[](primary # "up" \/ \A w \in Workers : stage[w] = "serve")

\* The background jobs run once per deployment: a fleet at full strength
\* has a worker that runs them (lib/cluster.ts, ownsBackgroundJobs).
JobsKeepRunning ==
  (\A w \in Workers : stage[w] = "serve") => jobs # {}

=============================================================================
