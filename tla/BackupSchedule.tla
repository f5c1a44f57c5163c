--------------------------- MODULE BackupSchedule ---------------------------
(***************************************************************************)
(* When a scheduled backup is owed, and which stored ones retention may    *)
(* delete: the pure rules of lib/backupSchedule.ts.  Time is a number of   *)
(* ticks, Day ticks to a day; a schedule falls due at TimeOfDay on every   *)
(* EveryDays-th day counted from the epoch.  A backup is named after the   *)
(* tick it was begun in, as its file name is after the second.             *)
(***************************************************************************)
EXTENDS Integers, FiniteSets, FiniteSetsExt

CONSTANTS Day, TimeOfDay, EveryDays, Keep

ASSUME ScheduleConstants ==
  /\ Day \in Nat \ {0} /\ TimeOfDay \in 0..Day - 1
  /\ EveryDays \in Nat \ {0} /\ Keep \in Nat \ {0}

Never == -1     \* lastRunAt is null

onCycle(day) == day % EveryDays = 0

\* The due instants at or before now that the loop looks at.
DueInstants(now) ==
  {at \in {day * Day + TimeOfDay : day \in {d \in (now \div Day) - EveryDays..now \div Day : onCycle(d)}} : at <= now}

\* The latest of them; at least one of the last EveryDays + 1 days qualifies.
lastDueAt(now) == IF DueInstants(now) = {} THEN Never ELSE Max(DueInstants(now))

isDue(lastRunAt, now) == lastDueAt(now) # Never /\ lastRunAt < lastDueAt(now)

\* All but the Keep newest names.
prunable(names) == {n \in names : Cardinality({m \in names : m > n}) >= Keep}

=============================================================================
