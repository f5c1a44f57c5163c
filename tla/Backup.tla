------------------------------- MODULE Backup -------------------------------
(***************************************************************************)
(* Backup, restore and maintenance mode over several replicas of the       *)
(* gateway: services/backup.service.ts, services/maintenance.service.ts,   *)
(* services/backupSchedule.service.ts and lib/backup/.                     *)
(*                                                                         *)
(* Each replica may run one backup job (a tick of the scheduler, or "Back  *)
(* up now") and one restore, each a sequence of awaited steps.  They share *)
(* the database (its contents, the stored backups, the schedule's state)   *)
(* and the key-value store (the maintenance flag, the schedule's lock, the *)
(* sessions).  What a backup file holds is abstracted to whether it can be *)
(* restored; the database's contents to a generation, which a replace      *)
(* restore changes.  A TTL may run out at any time: no work here is        *)
(* bounded by it.                                                          *)
(***************************************************************************)
EXTENDS BackupSchedule, Functions

CONSTANTS
  Replicas,
  Free, Orphan,       \* the lock when nobody's, and when its holder is dead
  Mixes               \* bounds: how much of each thing may happen together

ASSUME BackupConstants ==
  /\ IsFiniteSet(Replicas) /\ Free \notin Replicas /\ Orphan \notin Replicas \cup {Free}
  /\ \A mix \in Mixes : mix \in [enabled : BOOLEAN, ticks : Nat, manual : Nat, restores : Nat,
                                 reads : Nat, logins : Nat, faults : Nat]

VARIABLES
  clock,
  gen,        \* which gateway the tables describe
  lastRun,    \* the schedule's state row: lastRunAt
  archive,    \* the Backup rows: writer, name, complete or partial
  lock,       \* nexus:backup:schedule:lock
  flag,       \* nexus:maintenance is there
  sessions,   \* the generations that the sessions in the store were opened in
  signing,    \* the generations that sign-ins on their way were verified against
  job,        \* each replica's backup job
  restore,    \* each replica's restore; "knows" is its cached answer about the flag
  asking,     \* each replica's read of the flag on its way: what it found
  left,       \* what may still happen
  taken,      \* history: the names of the scheduled backups committed
  missed,     \* history: those of them whose record could not be written
  kept,       \* history: the Keep newest names committed since the archive was last empty
  stale,      \* history: names that a retention pass had listed when a replace emptied the archive
  upset,      \* history: the lock was lost or lastRun moved back
  undercut,   \* history: the flag lapsed, or another restore lowered it, during a restore
  halfDone,   \* history: a wipe failed, or a replica died before it, and none has succeeded since
  astride     \* history: the sign-ins that were on their way at the last wipe

tableVars   == <<gen, lastRun, archive>>
jobVars     == <<job, lock, taken, missed, kept, stale, upset>>
signVars    == <<sessions, signing, astride>>
restoreVars == <<restore, asking, flag, signVars, undercut, halfDone>>
vars == <<clock, left, tableVars, jobVars, restoreVars>>

NoJob     == [at |-> "idle", now |-> Never, manual |-> FALSE, doomed |-> {}]
NoRestore == [at |-> "idle", mode |-> "none", knows |-> FALSE]

Init ==
  /\ clock = 1 /\ gen = 0 /\ lastRun = Never /\ archive = {}
  /\ lock = Free /\ flag = FALSE /\ sessions = {0} /\ signing = {} /\ astride = {}
  /\ job = [p \in Replicas |-> NoJob] /\ taken = {} /\ missed = {} /\ kept = {} /\ stale = {} /\ upset = FALSE
  /\ restore = [p \in Replicas |-> NoRestore] /\ asking = [p \in Replicas |-> "nothing"] /\ left \in Mixes
  /\ undercut = FALSE /\ halfDone = FALSE

\* One of these may happen, and one fewer after it.
May(what) == left[what] > 0 /\ left' = [left EXCEPT ![what] = @ - 1]

Announced(p) == restore[p].mode = "replace"

\* An open replace transaction holds every table: writers wait for it, and
\* readers wait (PostgreSQL) or see the old rows (SQLite).
TablesFree == \A p \in Replicas : ~(Announced(p) /\ restore[p].at = "rows")

-----------------------------------------------------------------------------
(* Stored backups (backupStore.ts).                                        *)

Completed     == {b \in archive : b.done}
Names(rows)   == {b.name : b \in rows}
Partial(p)    == [by |-> p, name |-> job[p].now, done |-> FALSE]
JobAt(p, at)  == job[p].at = at
JobTo(p, at)  == job' = [job EXCEPT ![p].at = at]

\* Counts the partials too.
listEverything == archive

listStoredBackups == Completed

-----------------------------------------------------------------------------
(* One backup job.                                                         *)

\* tick: with nothing owed, or the schedule off, nothing is done.
tick(p) ==
  /\ JobAt(p, "idle") /\ left.enabled /\ isDue(lastRun, clock)
  /\ job' = [job EXCEPT ![p] = [NoJob EXCEPT !.at = "lock", !.now = clock]]
  /\ UNCHANGED <<lastRun, archive, lock, taken, missed, kept, stale, upset>>

\* "Back up now" does not ask whether one is owed.
runNow(p) ==
  /\ JobAt(p, "idle") /\ May("manual")
  /\ job' = [job EXCEPT ![p] = [NoJob EXCEPT !.at = "lock", !.now = clock, !.manual = TRUE]]
  /\ UNCHANGED <<lastRun, archive, lock, taken, missed, kept, stale, upset>>

\* underLock: SET NX EX, or another instance has it.
acquire(p) ==
  /\ JobAt(p, "lock")
  /\ IF lock = Free
     THEN lock' = p /\ JobTo(p, IF job[p].manual THEN "begin" ELSE "recheck")
     ELSE job' = [job EXCEPT ![p] = NoJob] /\ UNCHANGED lock
  /\ UNCHANGED <<lastRun, archive, taken, missed, kept, stale, upset>>

\* Goes straight on.
recheckNothing(p) ==
  /\ JobAt(p, "recheck") /\ JobTo(p, "begin")
  /\ UNCHANGED <<lastRun, archive, lock, taken, missed, kept, stale, upset>>

\* Another replica may have taken this backup since the first check.
recheck(p) ==
  /\ JobAt(p, "recheck")
  /\ IF isDue(lastRun, job[p].now) THEN JobTo(p, "begin")
     ELSE job' = [job EXCEPT ![p] = [NoJob EXCEPT !.at = "release"]]
  /\ UNCHANGED <<lastRun, archive, lock, taken, missed, kept, stale, upset>>

\* A completed backup has this name: refused.  A partial one is replaced.
beginStoredBackup(p) ==
  /\ JobAt(p, "begin") /\ TablesFree
  /\ IF job[p].now \in Names(Completed)
     THEN JobTo(p, "stamp") /\ UNCHANGED archive
     ELSE /\ archive' = {b \in archive : b.name # job[p].now} \cup {Partial(p)}
          /\ JobTo(p, "export")
  /\ UNCHANGED <<lastRun, lock, taken, missed, kept, stale, upset>>

\* The export runs, page by page; it fails, or its row went with a restore,
\* and what it wrote is removed.
exportFails(p) ==
  /\ JobAt(p, "export") /\ TablesFree
  /\ archive' = archive \ {Partial(p)} /\ JobTo(p, "stamp")
  /\ UNCHANGED <<lastRun, lock, taken, missed, kept, stale, upset>>

\* The rename.  A name taken meanwhile, a row gone with a restore or any
\* other error makes it throw, and leaves the partial behind.
commit(p) ==
  /\ JobAt(p, "export") /\ TablesFree
  /\ \/ /\ Partial(p) \in archive /\ job[p].now \notin Names(Completed)
        /\ archive' = (archive \ {Partial(p)}) \cup {[Partial(p) EXCEPT !.done = TRUE]}
        /\ taken' = IF job[p].manual THEN taken ELSE taken \cup {job[p].now}
        /\ kept' = (kept \cup {job[p].now}) \ prunable(kept \cup {job[p].now})
        /\ JobTo(p, "list")
     \/ JobTo(p, "stamp") /\ UNCHANGED <<archive, taken, kept>>
  /\ UNCHANGED <<lastRun, lock, missed, stale, upset>>

\* Retention, only after a committed backup: the names to go are listed,
listDoomed(p) ==
  /\ JobAt(p, "list")
  /\ job' = [job EXCEPT ![p].at = "prune", ![p].doomed = prunable(Names(listStoredBackups))]
  /\ UNCHANGED <<lastRun, archive, lock, taken, missed, kept, stale, upset>>

\* and deleted one by one, all of them or until the database throws.
deleteStoredBackups(p) ==
  /\ JobAt(p, "prune") /\ TablesFree
  /\ \E names \in SUBSET job[p].doomed : archive' = {b \in archive : ~b.done \/ b.name \notin names}
  /\ job' = [job EXCEPT ![p].at = "stamp", ![p].doomed = {}]
  /\ UNCHANGED <<lastRun, lock, taken, missed, kept, stale, upset>>

\* Only a success is recorded.
writeStateOfSuccess(p) ==
  /\ JobAt(p, "stamp") /\ TablesFree /\ job' = [job EXCEPT ![p] = [NoJob EXCEPT !.at = "release"]]
  /\ lastRun' = IF job[p].now \in Names(Completed) THEN job[p].now ELSE lastRun
  /\ UNCHANGED <<archive, lock, taken, missed, kept, stale, upset>>

\* lastRunAt is stamped for a success and for a failure.
writeState(p) ==
  /\ JobAt(p, "stamp") /\ TablesFree /\ job' = [job EXCEPT ![p] = [NoJob EXCEPT !.at = "release"]]
  /\ lastRun' = job[p].now
  /\ upset' = (upset \/ job[p].now < lastRun)
  /\ UNCHANGED <<archive, lock, taken, missed, kept, stale>>

\* GET, and DEL if it is still ours: two commands.
releaseGet(p) ==
  /\ JobAt(p, "release")
  /\ job' = [job EXCEPT ![p] = IF lock = p THEN [NoJob EXCEPT !.at = "unlock"] ELSE NoJob]
  /\ UNCHANGED <<lastRun, archive, lock, taken, missed, kept, stale, upset>>

releaseDel(p) ==
  /\ JobAt(p, "unlock") /\ lock' = Free
  /\ job' = [job EXCEPT ![p] = NoJob]
  /\ upset' = (upset \/ lock \notin {p, Free})
  /\ UNCHANGED <<lastRun, archive, taken, missed, kept, stale>>

\* A read or a write of the schedule's state throws: the backup, committed or
\* not, goes unrecorded, and the lock is released.
stateThrows(p) ==
  /\ job[p].at \in {"recheck", "stamp"}
  /\ job' = [job EXCEPT ![p] = [NoJob EXCEPT !.at = "release"]]
  /\ missed' = missed \cup (IF JobAt(p, "stamp") THEN taken \cap {job[p].now} ELSE {})
  /\ UNCHANGED <<lastRun, archive, lock, taken, kept, stale, upset>>

\* A command on the lock throws, the SET perhaps after it took hold: the job
\* is over, and a lock it held stays until its TTL.
lockThrows(p) ==
  /\ job[p].at \in {"lock", "release", "unlock"}
  /\ job' = [job EXCEPT ![p] = NoJob]
  /\ \/ lock' = IF lock = p THEN Orphan ELSE lock
     \/ JobAt(p, "lock") /\ lock = Free /\ lock' = Orphan
  /\ UNCHANGED <<lastRun, archive, taken, missed, kept, stale, upset>>

jobMoves(p) ==
  \/ acquire(p) \/ recheck(p) \/ beginStoredBackup(p) \/ exportFails(p) \/ commit(p) \/ listDoomed(p)
  \/ deleteStoredBackups(p) \/ writeState(p) \/ releaseGet(p) \/ releaseDel(p)

Beside      == UNCHANGED <<clock, gen, restoreVars>>
tickStep(p) == tick(p) /\ UNCHANGED left /\ Beside
jobStep(p)  == jobMoves(p) /\ UNCHANGED left /\ Beside
nowStep(p)  == runNow(p) /\ Beside
jobThrows(p) == (stateThrows(p) \/ lockThrows(p)) /\ May("faults") /\ Beside

\* LOCK_TTL_SECONDS ran out.
lockExpires ==
  /\ lock # Free /\ lock' = Free /\ upset' = (upset \/ lock # Orphan)
  /\ UNCHANGED <<clock, tableVars, job, taken, missed, kept, stale, restoreVars, left>>

-----------------------------------------------------------------------------
(* Maintenance mode (maintenance.service.ts).                              *)

\* endMaintenance, whoever else's restore the flag stands for.
lower(p) ==
  /\ flag' = FALSE
  /\ undercut' = (undercut \/ \E q \in Replicas \ {p} : Announced(q))

\* A request finds its replica's cached answer aged: the flag is read,
load(p) ==
  /\ asking[p] = "nothing" /\ May("reads")
  /\ asking' = [asking EXCEPT ![p] = IF flag THEN "up" ELSE "down"]
  /\ UNCHANGED <<clock, tableVars, jobVars, restore, flag, signVars, undercut, halfDone>>

\* and what was found is cached, over whatever a restore here has cached in
\* between.  (An answer bears on a replica's own requests and its restore's
\* progress only.)
readMaintenance(p) ==
  /\ asking[p] # "nothing" /\ asking' = [asking EXCEPT ![p] = "nothing"]
  /\ restore' = IF Announced(p) THEN [restore EXCEPT ![p].knows = asking[p] = "up"] ELSE restore
  /\ UNCHANGED <<clock, tableVars, jobVars, flag, signVars, undercut, halfDone, left>>

\* TTL_SECONDS without progress: the restore is dead, or stalled.
flagExpires ==
  /\ flag /\ flag' = FALSE
  /\ undercut' = (undercut \/ \E p \in Replicas : Announced(p))
  /\ UNCHANGED <<clock, tableVars, jobVars, restore, asking, signVars, halfDone, left>>

-----------------------------------------------------------------------------
(* A restore (backup.service.ts, restore.ts).                              *)

RestoreAt(p, at) == restore[p].at = at
RestoreTo(p, at) == restore' = [restore EXCEPT ![p].at = at]
Over(p)          == restore' = [restore EXCEPT ![p] = NoRestore]

\* restoreBackup begins; only a replace raises the flag.
restoreBackup(p) ==
  /\ RestoreAt(p, "idle") /\ May("restores")
  /\ \E mode \in {"replace", "merge", "dry run"} :
       /\ restore' = [restore EXCEPT ![p] = [at |-> "open", mode |-> mode, knows |-> mode = "replace"]]
       /\ flag' = (flag \/ mode = "replace")
       /\ undercut' = (undercut /\ \E q \in Replicas : Announced(q))
  /\ UNCHANGED <<tableVars, jobVars, asking, signVars, halfDone>>

\* readBackup: manifest and schema first; a dry run then reads to the end.
openTransaction(p) ==
  /\ RestoreAt(p, "open") /\ TablesFree
  /\ IF restore[p].mode = "dry run" THEN Over(p) ELSE RestoreTo(p, "rows")
  /\ UNCHANGED <<tableVars, jobVars, asking, flag, signVars, undercut, halfDone>>

\* A batch landed: reportProgress, from the cached answer, however old, or
\* else from the store; a flag known to be gone is not raised again.
reportProgress(p) ==
  /\ RestoreAt(p, "rows") /\ Announced(p) /\ (restore[p].knows \/ flag)
  /\ flag' = TRUE /\ restore' = [restore EXCEPT ![p].knows = TRUE]
  /\ UNCHANGED <<tableVars, jobVars, asking, signVars, undercut, halfDone>>

\* Wrong passphrase, drifted schema, incomplete file, a row that cannot be
\* written, the deadline: all is rolled back.  Lowering the flag may fail.
restoreFails(p) ==
  /\ restore[p].at \in {"open", "rows"} /\ Over(p)
  /\ (Announced(p) /\ lower(p)) \/ UNCHANGED <<flag, undercut>>
  /\ UNCHANGED <<tableVars, jobVars, asking, signVars, halfDone>>

\* The transaction commits.  A replace emptied every table, the stored
\* backups' too, which the file does not hold; the schedule's state is the
\* file's.  A merge brings that row only where there is none.
commitRestore(p) ==
  /\ RestoreAt(p, "rows") /\ RestoreTo(p, "wipe")
  /\ IF Announced(p)
     THEN /\ gen' = gen + 1 /\ archive' = {} /\ kept' = {} /\ lastRun' \in {Never, 1}
          /\ stale' = stale \cup UNION {job[q].doomed : q \in Replicas}
     ELSE lastRun' \in {lastRun, IF lastRun = Never THEN 1 ELSE lastRun} /\ UNCHANGED <<gen, archive, kept, stale>>
  /\ upset' = (upset \/ lastRun' < lastRun)
  /\ UNCHANGED <<job, lock, taken, missed, asking, flag, signVars, undercut, halfDone>>

\* What a wipe leaves: neither a session nor a lock, and only the sign-ins on
\* their way may still bring one of the former data.
Wiped ==
  /\ sessions' = {} /\ astride' = signing /\ halfDone' = FALSE
  /\ lock' = Free /\ upset' = (upset \/ lock \in Replicas)

\* The flag goes before the wipe has run.
wipeKvUncovered(p) ==
  /\ RestoreAt(p, "wipe")
  /\ IF Announced(p) THEN lower(p) /\ RestoreTo(p, "end") /\ Wiped
     ELSE Over(p) /\ UNCHANGED <<sessions, astride, halfDone, lock, upset, flag, undercut>>
  /\ UNCHANGED <<tableVars, job, taken, missed, kept, stale, asking, signing>>

\* KV_PRESERVED lists the sessions too.
wipeKvPartly(p) ==
  /\ RestoreAt(p, "wipe")
  /\ IF Announced(p)
     THEN RestoreTo(p, "end") /\ lock' = Free /\ upset' = (upset \/ lock \in Replicas)
     ELSE Over(p) /\ UNCHANGED <<lock, upset>>
  /\ UNCHANGED <<tableVars, job, taken, missed, kept, stale, asking, flag, signVars, undercut, halfDone>>

\* Everything under nexus: but the flag; after a merge, cached settings.
wipeKv(p) ==
  /\ RestoreAt(p, "wipe")
  /\ IF Announced(p) THEN RestoreTo(p, "end") /\ Wiped
     ELSE Over(p) /\ UNCHANGED <<sessions, astride, halfDone, lock, upset>>
  /\ UNCHANGED <<tableVars, job, taken, missed, kept, stale, asking, flag, signing, undercut>>

\* The wipe throws part of the way: the restore is over, and the flag left to
\* its TTL.
wipeThrows(p) ==
  /\ RestoreAt(p, "wipe") /\ Over(p) /\ halfDone' = (halfDone \/ Announced(p))
  /\ \/ UNCHANGED <<sessions, lock, upset>>
     \/ /\ Announced(p) /\ sessions' \in SUBSET sessions
        /\ lock' \in {lock, Free} /\ upset' = (upset \/ (lock' # lock /\ lock \in Replicas))
  /\ UNCHANGED <<tableVars, job, taken, missed, kept, stale, asking, flag, signing, astride, undercut>>

\* Lowering the flag may fail here too.
endMaintenance(p) ==
  /\ RestoreAt(p, "end") /\ Over(p)
  /\ lower(p) \/ UNCHANGED <<flag, undercut>>
  /\ UNCHANGED <<tableVars, jobVars, asking, signVars, halfDone>>

restoreMoves(p) == openTransaction(p) \/ restoreFails(p) \/ commitRestore(p) \/ wipeKv(p) \/ wipeThrows(p) \/ endMaintenance(p)

restoreSteps(p) == (restoreBackup(p) \/ ((reportProgress(p) \/ restoreMoves(p)) /\ UNCHANGED left)) /\ UNCHANGED clock

-----------------------------------------------------------------------------
(* The rest of the gateway.                                                *)

\* An operator's credential is checked against the tables,
login ==
  /\ May("logins") /\ signing' = signing \cup {gen}
  /\ UNCHANGED <<clock, tableVars, jobVars, restore, asking, flag, sessions, astride, undercut, halfDone>>

\* and, some awaits later, the session is written: it carries a role, not an
\* account.  Others verified against the same data may be on their way still.
createSession(g) ==
  /\ g \in signing /\ signing' \in {signing, signing \ {g}}
  /\ sessions' = sessions \cup {g}
  /\ UNCHANGED <<clock, tableVars, jobVars, restore, asking, flag, astride, undercut, halfDone, left>>

\* A replica dies and starts again: its transaction rolls back, what it
\* left in the stores stays.
crash(p) ==
  /\ May("faults")
  /\ job' = [job EXCEPT ![p] = NoJob] /\ Over(p) /\ asking' = [asking EXCEPT ![p] = "nothing"]
  /\ lock' = IF lock = p THEN Orphan ELSE lock
  /\ upset' = (upset \/ lock = p)
  /\ halfDone' = (halfDone \/ (RestoreAt(p, "wipe") /\ Announced(p)))
  /\ UNCHANGED <<clock, tableVars, taken, missed, kept, stale, flag, signVars, undercut>>

passTime ==
  /\ May("ticks") /\ clock' = clock + 1
  /\ UNCHANGED <<tableVars, jobVars, restoreVars>>

Next ==
  \/ \E p \in Replicas :
       \/ tickStep(p) \/ nowStep(p) \/ jobStep(p) \/ jobThrows(p)
       \/ restoreSteps(p) \/ load(p) \/ readMaintenance(p) \/ crash(p)
  \/ \E g \in signing : createSession(g)
  \/ lockExpires \/ flagExpires \/ login \/ passTime

\* The scheduler ticks, what is ready runs, a restore has a deadline, and a
\* TTL that nobody renews runs out.
Fairness ==
  /\ \A p \in Replicas :
       /\ WF_vars(tickStep(p)) /\ WF_vars(jobStep(p))
       /\ WF_vars(restoreMoves(p) /\ UNCHANGED <<clock, left>>)
  /\ WF_vars(lockExpires) /\ WF_vars(flagExpires /\ \A p \in Replicas : ~Announced(p))

Spec == Init /\ [][Next]_vars /\ Fairness

-----------------------------------------------------------------------------
(* Properties.                                                             *)

\* From the moment a replace restore is announced until it has wiped the
\* key-value store, the flag stands, unless it lapsed for want of progress or
\* another restore's end took it down (backup.service.ts: "so the wipe spares
\* it", "AFTER the wipe").  The replica that restores may not know of it: an
\* older read of the flag can land in its cache.
FlagCoversRestore == \A p \in Replicas : Announced(p) /\ ~undercut => flag

\* Whatever the order of sign-ins, restores and failures, every session in
\* the store was opened on the data that is in the tables (backup.service.ts:
\* "the security half").  There are three exceptions: the moment between a
\* replace's commit and its wipe; a wipe that failed or never ran, until one
\* succeeds; and a sign-in verified before the wipe whose session is written
\* after it.
SessionsFollowData ==
  (\A p \in Replicas : ~(RestoreAt(p, "wipe") /\ Announced(p))) /\ ~halfDone => sessions \subseteq {gen} \cup astride

\* Retention leaves the Keep newest completed backups, also when two jobs
\* overlap because the lock ran out, finish out of order or leave partial
\* rows behind.  But a pass deletes by name: what it listed before a replace
\* restore emptied the archive it still deletes after, whoever has taken a
\* backup of that name since.
NewestKept == kept \ stale \subseteq Names(Completed)

\* The schedule takes one backup for each time it falls due, whichever
\* replicas tick, unless the lock was lost or the schedule's state moved
\* back (backupSchedule.service.ts: "Re-checked under the lock").  A backup
\* whose record could not be written is the one that may be taken again.
OncePerWindow ==
  upset \/ \A a, b \in taken \ missed : lastDueAt(a) = lastDueAt(b) => a = b

\* The flag does not stay up for ever, and a backup that is owed does not
\* stay owed for ever: through crashes, failed restores and exports that
\* fail each time (maintenance.service.ts: "a dead one always does").
Heals == (flag ~> ~flag) /\ []<>(left.enabled => ~isDue(lastRun, clock))

\* A restore leaves the gateway's own stored backups alone (modelOrder.ts:
\* "restoring a backup does not restore the list of backups. A gateway
\* keeps its own").
ArchiveKept == [][gen' # gen => Completed \subseteq archive']_vars

=============================================================================
