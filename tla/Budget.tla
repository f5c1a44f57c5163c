------------------------------- MODULE Budget -------------------------------
(***************************************************************************)
(* One team's budget window: services/budget.service.ts, the admission     *)
(* check in front of it and the recording behind it (token.service.ts).    *)
(*                                                                         *)
(* The counter lives in the KV and is seeded from the usage table when it  *)
(* is absent; costs are added to it when an answer is known; the usage     *)
(* row itself reaches the table later, through the usage pipeline.  Every  *)
(* billed request costs one unit, and the counter is kept as how often it  *)
(* counts each request, so that a cost missed and a cost counted twice     *)
(* stay visible.                                                           *)
(***************************************************************************)
EXTENDS Naturals, FiniteSets, Functions

CONSTANTS
  Requests,     \* the requests made, each with one unit of cost
  BudgetCap,    \* the team's budgetUsd, in units
  MaxPeriods,   \* bound: how many windows are followed
  MaxLosses     \* bound: how often the KV loses the counter

ASSUME BudgetConstants ==
  IsFiniteSet(Requests) /\ BudgetCap \in Nat \ {0} /\ MaxPeriods \in Nat /\ MaxLosses \in Nat

VARIABLES
  exists,       \* nexus:budget:<team>:<current window> is there
  counted,      \* how often the counter counts each request
  phase,        \* where each request is on its way to the provider
  seen,         \* what a seeding request summed from the table
  spend,        \* where each request's addSpend is: "sent" carries the key of the current window,
                \* "past" that of an ended one; "added" is in the counter there is now
  row,          \* where each request's usage row is
  current,      \* the rows created in the current window
  late,         \* the checks under way whose window has ended since they began
  action,       \* the team's overBudgetAction
  downgraded,   \* the requests admitted on the cheapest tier
  period,       \* the current window
  losses,       \* counters lost so far
  durable,      \* history: rows the table already held when the counter was lost
  billed        \* history: the requests whose cost became known in the current window

requestVars == <<phase, seen, late, downgraded>>
clockVars   == <<period, losses>>
budgetVars == <<exists, counted, requestVars, spend, row, current, action, clockVars, durable, billed>>

Phases == {"new", "asked", "missed", "seeding", "inflight", "refused", "answered"}

Written == {r \in Requests : row[r] = "written"}
Value   == SumFunction(counted)

BudgetInit ==
  /\ exists = FALSE /\ counted = [r \in Requests |-> 0]
  /\ phase = [r \in Requests |-> "new"]
  /\ seen = [r \in Requests |-> {}] /\ late = {}
  /\ spend = [r \in Requests |-> "none"] /\ row = [r \in Requests |-> "none"]
  /\ current = {} /\ durable = {} /\ billed = {} /\ downgraded = {}
  /\ action \in {"block", "notify", "downgrade"}
  /\ period = 0 /\ losses = 0

\* checkTeamBudget, once the spend is known.
Verdict(r, spent) ==
  LET over == spent >= BudgetCap
  IN  /\ phase' = [phase EXCEPT ![r] = IF over /\ action = "block" THEN "refused" ELSE "inflight"]
      /\ downgraded' = IF over /\ action = "downgrade" THEN downgraded \cup {r} ELSE downgraded

\* checkTeamBudget is called: the window it asks about is fixed here.
Ask(r) ==
  /\ phase[r] = "new"
  /\ phase' = [phase EXCEPT ![r] = "asked"]
  /\ UNCHANGED <<exists, counted, seen, late, downgraded, spend, row, current, action, clockVars, durable, billed>>

\* A verdict from the counter or the rows of a window that has ended, whose sum is not followed.
LateVerdict(r) == \E spent \in {0, BudgetCap} : Verdict(r, spent)

\* getCurrentSpend, first await: the counter is there (or may be, when the window has ended).
CheckHit(r) ==
  /\ phase[r] = "asked"
  /\ \/ r \notin late /\ exists /\ Verdict(r, Value)
     \/ r \in late /\ LateVerdict(r)
  /\ late' = late \ {r}
  /\ UNCHANGED <<exists, counted, seen, spend, row, current, action, clockVars, durable, billed>>

CheckMiss(r) ==
  /\ phase[r] = "asked" /\ (exists => r \in late)
  /\ phase' = [phase EXCEPT ![r] = "missed"]
  /\ UNCHANGED <<exists, counted, seen, late, downgraded, spend, row, current, action, clockVars, durable, billed>>

\* Second await: teamSpendSince sums the window's rows.  A request that began in the window before
\* sums that window's rows, whose total decides nothing that is followed here.
SumRows(r) ==
  /\ phase[r] = "missed"
  /\ seen' = [seen EXCEPT ![r] = IF r \in late THEN {} ELSE Written \cap current]
  /\ phase' = [phase EXCEPT ![r] = "seeding"]
  /\ UNCHANGED <<exists, counted, late, downgraded, spend, row, current, action, clockVars, durable, billed>>

CountOnce(set) == [r \in Requests |-> IF r \in set THEN 1 ELSE 0]

\* A plain SET.
SeedOverwrites(r) ==
  IF r \in late THEN UNCHANGED <<exists, counted>>
  ELSE exists' = TRUE /\ counted' = CountOnce(seen[r])

\* SET ... NX: a counter that is there stays.  A late seed goes to the key of its own window.
SeedCounter(r) ==
  IF exists \/ r \in late THEN UNCHANGED <<exists, counted>>
  ELSE exists' = TRUE /\ counted' = CountOnce(seen[r])

\* Third await, then the verdict on the sum it read itself (any sum, for a late one).
Seed(r) ==
  /\ phase[r] = "seeding"
  /\ SeedCounter(r)
  /\ \/ r \notin late /\ Verdict(r, Cardinality(seen[r]))
     \/ r \in late /\ LateVerdict(r)
  /\ seen' = [seen EXCEPT ![r] = {}] /\ late' = late \ {r}
  /\ UNCHANGED <<spend, row, current, action, clockVars, durable, billed>>

\* recordTokenUsage: addSpend is called, which fixes its window, and the row will be emitted after
\* one more await.
Bill(r) ==
  /\ phase[r] = "inflight"
  /\ phase' = [phase EXCEPT ![r] = "answered"]
  /\ spend' = [spend EXCEPT ![r] = "sent"] /\ row' = [row EXCEPT ![r] = "due"]
  /\ billed' = billed \cup {r}
  /\ UNCHANGED <<exists, counted, seen, late, downgraded, current, action, clockVars, durable>>

\* The request failed, was served from the cache or has no price: nothing is added.
NoCost(r) ==
  /\ phase[r] = "inflight"
  /\ phase' = [phase EXCEPT ![r] = "answered"]
  /\ UNCHANGED <<exists, counted, seen, late, downgraded, spend, row, current, action, clockVars, durable, billed>>

Ran(r, result) == spend' = [spend EXCEPT ![r] = result]

\* INCRBYFLOAT without the EXISTS guard creates the counter.
AddAlways(r) == exists' = TRUE /\ counted' = [counted EXCEPT ![r] = @ + 1] /\ Ran(r, "added")

\* The client sends the command again after an answer was lost.
AddRetried(r) ==
  IF exists THEN counted' = [counted EXCEPT ![r] = @ + 2] /\ UNCHANGED exists /\ Ran(r, "added")
            ELSE UNCHANGED <<exists, counted>> /\ Ran(r, "skipped")

\* ADD_SPEND_LUA on the key of the current window.
AddToCounter(r) ==
  IF exists THEN counted' = [counted EXCEPT ![r] = @ + 1] /\ UNCHANGED exists /\ Ran(r, "added")
            ELSE UNCHANGED <<exists, counted>> /\ Ran(r, "skipped")

\* The key is worked out when the script runs.
AddSpendNow(r) ==
  /\ spend[r] \in {"sent", "past"}
  /\ AddToCounter(r)
  /\ UNCHANGED <<requestVars, row, current, action, clockVars, durable, billed>>

\* The script runs on the key addSpend was called with: that of an ended window counts here no more.
AddSpend(r) ==
  /\ \/ spend[r] = "sent" /\ AddToCounter(r)
     \/ spend[r] = "past" /\ Ran(r, "gone") /\ UNCHANGED <<exists, counted>>
  /\ UNCHANGED <<requestVars, row, current, action, clockVars, durable, billed>>

\* addSpend is fire-and-forget: its failure is swallowed.
SpendFails(r) ==
  /\ spend[r] \in {"sent", "past"}
  /\ Ran(r, "failed")
  /\ UNCHANGED <<exists, counted, requestVars, row, current, action, clockVars, durable, billed>>

\* emit: createdAt is now.
EmitRow(r) ==
  /\ row[r] = "due"
  /\ row' = [row EXCEPT ![r] = "buffered"]
  /\ current' = current \cup {r}
  /\ UNCHANGED <<exists, counted, requestVars, spend, action, clockVars, durable, billed>>

\* The usage pipeline writes the row (module WriteBuffer), or loses it.
WriteRow(r) ==
  /\ row[r] = "buffered"
  /\ \E s \in {"written", "lost"} : row' = [row EXCEPT ![r] = s]
  /\ UNCHANGED <<exists, counted, requestVars, spend, current, action, clockVars, durable, billed>>

\* Where an addition stands once the counter is gone: one that is there is gone with it.
Forgotten(r) == IF spend[r] = "added" THEN "gone" ELSE spend[r]

\* The window ends: the key of the next one is absent, and calls under way keep the key they have.
PeriodRolls ==
  /\ period < MaxPeriods
  /\ period' = period + 1
  /\ exists' = FALSE /\ counted' = [r \in Requests |-> 0]
  /\ spend' = [r \in Requests |-> IF spend[r] = "sent" THEN "past" ELSE Forgotten(r)]
  /\ current' = {} /\ durable' = {} /\ billed' = {}
  /\ late' = {r \in Requests : phase[r] \in {"asked", "missed", "seeding"}}
  /\ UNCHANGED <<phase, seen, downgraded, row, action, losses>>

\* Redis is flushed or evicts the key, or the process with the in-process KV restarts.
CounterLost ==
  /\ exists /\ losses < MaxLosses
  /\ losses' = losses + 1
  /\ exists' = FALSE /\ counted' = [r \in Requests |-> 0]
  /\ spend' = [r \in Requests |-> Forgotten(r)]
  /\ durable' = IF \E r \in Requests \ late : phase[r] = "seeding" THEN {} ELSE Written \cap current
  /\ UNCHANGED <<requestVars, row, current, action, period, billed>>

BudgetNext ==
  \/ \E r \in Requests :
       \/ Ask(r) \/ CheckHit(r) \/ CheckMiss(r) \/ SumRows(r) \/ Seed(r)
       \/ Bill(r) \/ NoCost(r) \/ AddSpend(r) \/ SpendFails(r) \/ EmitRow(r) \/ WriteRow(r)
  \/ PeriodRolls \/ CounterLost

BudgetSpec == BudgetInit /\ [][BudgetNext]_budgetVars

----------------------------------------------------------------------------

\* Types; a counter that is absent counts nothing, and a row of the current window was created.
BudgetTypeOK ==
  /\ exists \in BOOLEAN
  /\ counted \in [Requests -> 0..2] /\ (~exists => \A r \in Requests : counted[r] = 0)
  /\ phase \in [Requests -> Phases]
  /\ seen \in [Requests -> SUBSET Requests]
  /\ spend \in [Requests -> {"none", "sent", "past", "added", "skipped", "failed", "gone"}]
  /\ row \in [Requests -> {"none", "due", "buffered", "written", "lost"}]
  /\ current \subseteq Requests /\ billed \subseteq Requests /\ durable \subseteq Requests
  /\ late \subseteq Requests /\ downgraded \subseteq Requests
  /\ action \in {"block", "notify", "downgrade"}
  /\ period \in 0..MaxPeriods /\ losses \in 0..MaxLosses

\* While a counter lives it never goes down, whatever seeds and additions race for it: a slow
\* seeder does not erase what was added since it read the table (the reason for NX).
SpendNeverShrinks ==
  [][(exists /\ exists' /\ period' = period) => \A r \in Requests : counted'[r] >= counted[r]]_budgetVars

\* A cost is counted twice only once its row is in the table: then, and only then, a seed may have
\* summed the row before the request's own addSpend lands.
TwiceOnlyFromTable == \A r \in Requests : counted[r] > 1 => (row[r] = "written" /\ spend[r] = "added")

\* Budgets survive the loss of the counter: a counter that exists again counts every row that was in
\* the table when the last one was lost, unless a seed was under way at that very moment.
SurvivesFlush == exists => \A r \in durable : counted[r] > 0

\* A new window starts from zero: the counter counts a request only if its row was created in this
\* window or its cost became known in it, even when a check began, or an addSpend was called, in the
\* window before and its command reaches the KV after midnight.
OnlyThisWindow == \A r \in Requests : counted[r] > 0 => (r \in current \/ r \in billed)

=============================================================================
