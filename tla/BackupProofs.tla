---------------------------- MODULE BackupProofs ----------------------------
(***************************************************************************)
(* The backup invariants for any number of replicas, any schedule, any     *)
(* Keep and any mix of jobs, restores and crashes: the maintenance flag    *)
(* over a replace restore, the sessions after it, what retention leaves    *)
(* and one scheduled backup for each time one falls due.                   *)
(***************************************************************************)
EXTENDS Backup, SumProofs

-----------------------------------------------------------------------------
(* The schedule's rules (BackupSchedule).                                  *)

\* A set of whole numbers with a bound has a greatest element.
LEMMA GreatestInt ==
  ASSUME NEW S, S \subseteq Int, S # {}, NEW top \in Int, \A n \in S : n <= top
  PROVE  \E m \in S : \A n \in S : n <= m
<1> DEFINE T == {top - n : n \in S}
<1>1. T \subseteq Nat /\ T # {}
  <2>1. ASSUME NEW n \in S PROVE top - n \in Nat
    OBVIOUS
  <2>2. PICK s \in S : TRUE
    OBVIOUS
  <2>3. top - s \in T
    OBVIOUS
  <2> QED
    BY <2>1, <2>3
<1>2. PICK t \in T : \A u \in T : t <= u
  BY <1>1, LeastNat
<1>3. PICK m \in S : t = top - m
  BY <1>2
<1>4. ASSUME NEW n \in S PROVE n <= m
  <2>1. top - n \in T
    OBVIOUS
  <2>2. t <= top - n
    BY <1>2, <2>1
  <2> QED
    BY <2>2, <1>3
<1> QED
  BY <1>4

\* The last time a backup fell due is not after now.
LEMMA LastDueIsPast ==
  ASSUME NEW now \in Int, now >= Never
  PROVE  lastDueAt(now) \in Int /\ lastDueAt(now) <= now
<1> DEFINE D == DueInstants(now)
<1>1. D \subseteq Int /\ \A at \in D : at <= now
  BY ScheduleConstants DEF DueInstants
<1>2. CASE D = {}
  BY <1>2 DEF lastDueAt, Never
<1>3. CASE D # {}
  <2> HIDE DEF D
  <2>1. \E m \in D : \A n \in D : n <= m
    BY <1>1, <1>3, GreatestInt
  <2>2. Max(D) \in D
    BY <2>1, <1>1 DEF Max
  <2> QED
    BY <2>2, <1>1, <1>3 DEF lastDueAt, D
<1> QED
  BY <1>2, <1>3

\* The names above n.
Above(names, n) == {m \in names : m > n}

\* Keep or more of the names are above n: it is not among the newest.
Beaten(names, n) == Cardinality(Above(names, n)) >= Keep

LEMMA AboveFinite ==
  ASSUME NEW S, IsFiniteSet(S), NEW n
  PROVE  IsFiniteSet(Above(S, n)) /\ Cardinality(Above(S, n)) \in Nat
  BY FS_Subset, FS_CardinalityType DEF Above

\* More names, or a lower rank, and it is beaten all the same.
LEMMA BeatenMono ==
  ASSUME NEW T, IsFiniteSet(T), NEW S, NEW m, NEW n, Beaten(S, n), Above(S, n) \subseteq Above(T, m)
  PROVE  Beaten(T, m)
<1>1. IsFiniteSet(Above(T, m)) /\ Cardinality(Above(T, m)) \in Nat
  BY AboveFinite
<1>2. Cardinality(Above(S, n)) <= Cardinality(Above(T, m)) /\ Cardinality(Above(S, n)) \in Nat
  BY <1>1, FS_Subset, FS_CardinalityType
<1> QED
  BY <1>1, <1>2, ScheduleConstants DEF Beaten

\* Retention takes away none of the Keep newest: what was beaten by the whole
\* set is beaten by what is left of it.
LEMMA BeatenByTheRest ==
  ASSUME NEW S, S \subseteq Int, IsFiniteSet(S), NEW top \in Int, \A m \in S : m <= top,
         NEW n \in Int, Beaten(S, n)
  PROVE  Beaten(S \ prunable(S), n)
<1> SUFFICES ASSUME ~Beaten(S \ prunable(S), n) PROVE FALSE
  OBVIOUS
<1> DEFINE U == Above(S \ prunable(S), n)
           T == Above(S, n)
<1>1. IsFiniteSet(U) /\ Cardinality(U) \in Nat /\ Cardinality(U) < Keep
  <2>1. IsFiniteSet(S \ prunable(S))
    BY FS_Subset
  <2> QED
    BY <2>1, AboveFinite, ScheduleConstants DEF Beaten
<1>2. IsFiniteSet(T) /\ Cardinality(T) >= Keep /\ U \subseteq T
  BY AboveFinite DEF Beaten, Above
<1>3. T \ U # {}
  <2>1. T # U
    BY <1>1, <1>2, ScheduleConstants
  <2> QED
    BY <2>1, <1>2
<1>4. PICK x \in T \ U : \A y \in T \ U : y <= x
  <2>1. T \ U \subseteq Int /\ \A m \in T \ U : m <= top
    BY DEF Above
  <2> HIDE DEF T, U
  <2> QED
    BY <2>1, <1>3, GreatestInt
<1>5. x \in S /\ x > n /\ x \in prunable(S)
  BY DEF Above
<1>6. Above(S, x) \subseteq U
  <2> SUFFICES ASSUME NEW m \in S, m > x PROVE m \in U
    BY DEF Above
  <2>1. m \in Int /\ x \in Int /\ m > n
    BY <1>5
  <2>2. m \in T
    BY <2>1 DEF Above
  <2>3. m \notin T \ U
    BY <2>1, <1>4
  <2> QED
    BY <2>2, <2>3
<1>7. Cardinality(Above(S, x)) <= Cardinality(U) /\ Cardinality(Above(S, x)) \in Nat
  BY <1>1, <1>6, FS_Subset, FS_CardinalityType
<1>8. Cardinality(Above(S, x)) >= Keep
  BY <1>5 DEF prunable, Above
<1> QED
  BY <1>1, <1>7, <1>8, ScheduleConstants

\* What retention leaves is left alone when it comes again.
LEMMA NothingMoreToPrune ==
  ASSUME NEW S, S \subseteq Int, IsFiniteSet(S)
  PROVE  \A n \in S \ prunable(S) : ~Beaten(S \ prunable(S), n)
<1> SUFFICES ASSUME NEW n \in S \ prunable(S), Beaten(S \ prunable(S), n) PROVE FALSE
  OBVIOUS
<1>1. Beaten(S, n)
  BY BeatenMono DEF Above
<1> QED
  BY <1>1 DEF prunable, Beaten, Above

-----------------------------------------------------------------------------
(* A restore: the flag and the sessions.                                   *)

Restoring ==
  /\ restore \in [Replicas -> [at : {"idle", "open", "rows", "wipe", "end"},
                               mode : {"none", "replace", "merge", "dry run"}, knows : BOOLEAN]]
  /\ flag \in BOOLEAN /\ undercut \in BOOLEAN /\ halfDone \in BOOLEAN

\* The sign-ins on their way are as good as the sessions they will write.
SignInsFollowData ==
  (\A p \in Replicas : ~(RestoreAt(p, "wipe") /\ Announced(p))) /\ ~halfDone
    => sessions \cup signing \subseteq {gen} \cup astride

RestoreInv == Restoring /\ FlagCoversRestore /\ SignInsFollowData

\* A restore that is over, the flag and the sessions as they were: the
\* others' are as good as before.
LEMMA OverStep ==
  ASSUME RestoreInv, NEW p \in Replicas, Over(p), ~(RestoreAt(p, "wipe") /\ Announced(p)),
         UNCHANGED <<gen, flag, signVars, undercut, halfDone>>
  PROVE  RestoreInv'
<1> USE DEF RestoreInv, Restoring, FlagCoversRestore, SignInsFollowData, Announced, RestoreAt, signVars
<1>1. restore'[p] = NoRestore /\ \A q \in Replicas \ {p} : restore'[q] = restore[q]
  BY DEF Over
<1>2. Restoring'
  BY DEF Over, NoRestore
<1>3. FlagCoversRestore'
  <2> SUFFICES ASSUME NEW q \in Replicas, restore'[q].mode = "replace", ~undercut
               PROVE  flag
    OBVIOUS
  <2>1. q # p
    BY <1>1, NoRestore.mode = "none" DEF NoRestore
  <2>2. restore'[q] = restore[q]
    BY <1>1, <2>1
  <2> QED
    BY <2>2
<1>4. \A q \in Replicas : RestoreAt(q, "wipe") /\ Announced(q) => (RestoreAt(q, "wipe") /\ Announced(q))'
  BY <1>1
<1>5. SignInsFollowData'
  BY <1>4
<1> QED
  BY <1>2, <1>3, <1>5

LEMMA RestoreStep == RestoreInv /\ [Next]_vars => RestoreInv'
<1> SUFFICES ASSUME RestoreInv, [Next]_vars PROVE RestoreInv'
  OBVIOUS
<1> USE DEF RestoreInv, Restoring, FlagCoversRestore, SignInsFollowData, Announced, RestoreAt, signVars
<1>1. CASE UNCHANGED <<gen, restoreVars>>
  BY <1>1 DEF restoreVars
<1>2. ASSUME NEW p \in Replicas, restoreSteps(p) PROVE RestoreInv'
  <2>1. CASE restoreBackup(p)
    <3>1. PICK mode \in {"replace", "merge", "dry run"} :
            /\ restore' = [restore EXCEPT ![p] = [at |-> "open", mode |-> mode, knows |-> mode = "replace"]]
            /\ flag' = (flag \/ mode = "replace")
            /\ undercut' = (undercut /\ \E q \in Replicas : Announced(q))
      BY <2>1 DEF restoreBackup
    <3>2. UNCHANGED <<gen, signVars, halfDone>>
      BY <2>1 DEF restoreBackup, tableVars
    <3>3. Restoring'
      BY <3>1, <3>2
    <3>4. FlagCoversRestore'
      BY <3>1, <3>3
    <3>5. \A q \in Replicas : RestoreAt(q, "wipe")' => RestoreAt(q, "wipe") /\ Announced(q)' = Announced(q)
      BY <3>1
    <3>6. \A q \in Replicas : RestoreAt(q, "wipe") => RestoreAt(q, "wipe")' /\ Announced(q)' = Announced(q)
      BY <3>1, <2>1 DEF restoreBackup
    <3> QED
      BY <3>2, <3>3, <3>4, <3>5, <3>6
  <2>2. CASE openTransaction(p)
    <3>1. CASE restore[p].mode = "dry run"
      BY <2>2, <3>1, OverStep DEF openTransaction, tableVars
    <3>2. CASE restore[p].mode # "dry run"
      BY <2>2, <3>2 DEF openTransaction, RestoreTo, tableVars
    <3> QED
      BY <3>1, <3>2
  <2>3. CASE reportProgress(p)
    BY <2>3 DEF reportProgress, tableVars
  <2>4. CASE restoreFails(p)
    <3>1. /\ UNCHANGED <<gen, signVars, halfDone>>
          /\ restore' = [restore EXCEPT ![p] = NoRestore]
          /\ restore[p].at # "wipe"
      BY <2>4 DEF restoreFails, Over, tableVars
    <3>2. CASE lower(p)
      BY <3>1, <3>2 DEF NoRestore, lower
    <3>3. CASE flag' = flag /\ undercut' = undercut
      BY <3>1, <3>3 DEF NoRestore
    <3> QED
      BY <2>4, <3>2, <3>3 DEF restoreFails
  <2>5. CASE commitRestore(p)
    <3>1. CASE Announced(p)
      <4>1. restore' = [restore EXCEPT ![p].at = "wipe"] /\ UNCHANGED <<flag, undercut, halfDone>>
        BY <2>5 DEF commitRestore, RestoreTo
      <4>2. restore'[p].at = "wipe" /\ \A q \in Replicas : restore'[q].mode = restore[q].mode
        BY <4>1
      <4>3. SignInsFollowData'
        BY <3>1, <4>2
      <4> QED
        BY <4>1, <4>2, <4>3
    <3>2. CASE ~Announced(p)
      BY <2>5, <3>2 DEF commitRestore, RestoreTo
    <3> QED
      BY <3>1, <3>2
  <2>6. CASE wipeKv(p)
    <3>1. CASE Announced(p)
      BY <2>6, <3>1 DEF wipeKv, Wiped, RestoreTo, tableVars
    <3>2. CASE ~Announced(p)
      BY <2>6, <3>2, OverStep DEF wipeKv, tableVars
    <3> QED
      BY <3>1, <3>2
  <2>7. CASE endMaintenance(p)
    <3>1. UNCHANGED <<gen, signVars, halfDone>> /\ restore' = [restore EXCEPT ![p] = NoRestore] /\ restore[p].at # "wipe"
      BY <2>7 DEF endMaintenance, Over, tableVars
    <3>2. CASE lower(p)
      BY <3>1, <3>2 DEF NoRestore, lower
    <3>3. CASE flag' = flag /\ undercut' = undercut
      BY <3>1, <3>3 DEF NoRestore
    <3> QED
      BY <2>7, <3>2, <3>3 DEF endMaintenance
  <2>8. CASE wipeThrows(p)
    <3>1. CASE Announced(p)
      BY <2>8, <3>1 DEF wipeThrows, Over, NoRestore, tableVars
    <3>2. CASE ~Announced(p)
      BY <2>8, <3>2, OverStep DEF wipeThrows, tableVars
    <3> QED
      BY <3>1, <3>2
  <2> QED
    BY <1>2, <2>1, <2>2, <2>3, <2>4, <2>5, <2>6, <2>7, <2>8 DEF restoreSteps, restoreMoves
<1>3. ASSUME NEW p \in Replicas, readMaintenance(p) PROVE RestoreInv'
  BY <1>3 DEF readMaintenance, tableVars
<1>4. ASSUME NEW p \in Replicas, crash(p) PROVE RestoreInv'
  BY <1>4 DEF crash, Over, NoRestore, tableVars
<1>5. CASE flagExpires
  BY <1>5 DEF flagExpires, tableVars
<1>6. CASE login
  BY <1>6 DEF login, tableVars
<1>10. ASSUME NEW g \in signing, createSession(g) PROVE RestoreInv'
  BY <1>10 DEF createSession, tableVars
<1>11. ASSUME NEW p \in Replicas, load(p) PROVE RestoreInv'
  BY <1>11 DEF load, tableVars
<1>7. ASSUME NEW p \in Replicas, tickStep(p) \/ nowStep(p) \/ jobStep(p) \/ jobThrows(p)
      PROVE  UNCHANGED <<gen, restoreVars>>
  BY <1>7 DEF tickStep, nowStep, jobStep, jobThrows, Beside
<1>8. lockExpires \/ passTime => UNCHANGED <<gen, restoreVars>>
  BY DEF lockExpires, passTime, tableVars
<1>9. UNCHANGED vars => UNCHANGED <<gen, restoreVars>>
  BY DEF vars, tableVars
<1> QED
  BY <1>1, <1>2, <1>3, <1>4, <1>5, <1>6, <1>7, <1>8, <1>9, <1>10, <1>11 DEF Next

-----------------------------------------------------------------------------
(* A backup job: what its variables hold.                                  *)

Ticks == Never..clock

Ats == {"idle", "lock", "recheck", "begin", "export", "list", "prune", "stamp", "release", "unlock"}

Job == [at : Ats, now : Ticks, manual : BOOLEAN, doomed : SUBSET Ticks]

JobTypes ==
  /\ clock \in Nat /\ lastRun \in Int
  /\ archive \subseteq [by : Replicas, name : Ticks, done : BOOLEAN]
  /\ job \in [Replicas -> Job]
  /\ taken \subseteq Ticks /\ kept \subseteq Ticks
  /\ upset \in BOOLEAN

\* What every step of a job and of a restore leaves alone.
RestVars == <<clock, tableVars, jobVars>>

\* A wipe that succeeds or throws: the lock goes or stays.
Wipes(p) ==
  /\ lock' \in {lock, Free} /\ upset' = (upset \/ (lock' # lock /\ lock \in Replicas))
  /\ UNCHANGED <<tableVars, job, taken, missed, kept, stale>>

\* The steps that touch the jobs, the archive or the schedule's state.
LEMMA JobSteps ==
  ASSUME JobTypes, [Next]_vars
  PROVE  \/ UNCHANGED RestVars
         \/ \E p \in Replicas :
              \/ (tick(p) \/ runNow(p) \/ jobMoves(p) \/ stateThrows(p) \/ lockThrows(p)) /\ UNCHANGED clock
              \/ (commitRestore(p) \/ Wipes(p)) /\ UNCHANGED clock
              \/ crash(p)
         \/ lockExpires \/ passTime
<1>1. ASSUME NEW p \in Replicas, restoreSteps(p)
      PROVE  UNCHANGED RestVars \/ ((commitRestore(p) \/ Wipes(p)) /\ UNCHANGED clock)
  <2>0. UNCHANGED clock
    BY <1>1 DEF restoreSteps
  <2>1. CASE wipeKv(p)
    <3>1. lock' \in {lock, Free} /\ upset' = (upset \/ (lock' # lock /\ lock \in Replicas))
      BY <2>1, BackupConstants DEF wipeKv, Wiped, JobTypes
    <3> QED
      BY <2>0, <2>1, <3>1 DEF wipeKv, Wipes
  <2>2. CASE wipeThrows(p)
    <3>1. lock' \in {lock, Free} /\ upset' = (upset \/ (lock' # lock /\ lock \in Replicas))
      BY <2>2 DEF wipeThrows, JobTypes
    <3> QED
      BY <2>0, <2>2, <3>1 DEF wipeThrows, Wipes
  <2>3. restoreBackup(p) \/ openTransaction(p) \/ reportProgress(p) \/ restoreFails(p) \/ endMaintenance(p)
          => UNCHANGED RestVars
    BY <2>0 DEF restoreBackup, openTransaction, reportProgress, restoreFails, endMaintenance, RestVars
  <2> QED
    BY <1>1, <2>0, <2>1, <2>2, <2>3 DEF restoreSteps, restoreMoves
<1>2. ASSUME NEW p \in Replicas, load(p) \/ readMaintenance(p) PROVE UNCHANGED RestVars
  BY <1>2 DEF load, readMaintenance, RestVars
<1>3. ASSUME NEW p \in Replicas, tickStep(p) \/ nowStep(p) \/ jobStep(p) \/ jobThrows(p)
      PROVE  (tick(p) \/ runNow(p) \/ jobMoves(p) \/ stateThrows(p) \/ lockThrows(p)) /\ UNCHANGED clock
  BY <1>3 DEF tickStep, nowStep, jobStep, jobThrows, Beside
<1>4. flagExpires \/ login \/ (\E g \in signing : createSession(g)) \/ UNCHANGED vars => UNCHANGED RestVars
  BY DEF flagExpires, login, createSession, vars, RestVars
<1> QED
  BY <1>1, <1>2, <1>3, <1>4 DEF Next

LEMMA JobTypeStep == JobTypes /\ [Next]_vars => JobTypes'
<1> SUFFICES ASSUME JobTypes, [Next]_vars PROVE JobTypes'
  OBVIOUS
<1>1. CASE UNCHANGED RestVars
  BY <1>1 DEF JobTypes, Job, Ticks, RestVars, tableVars, jobVars
<1>2. ASSUME NEW p \in Replicas, tick(p) \/ runNow(p) \/ jobMoves(p) \/ stateThrows(p) \/ lockThrows(p), UNCHANGED clock
      PROVE  JobTypes'
  <2>a. Ticks' = Ticks /\ Job' = Job
    BY <1>2 DEF Ticks, Job
  <2>c. Never \in Ticks /\ clock \in Ticks
    BY DEF Ticks, Never, JobTypes
  <2>d. /\ NoJob \in Job
        /\ \A at \in Ats : [NoJob EXCEPT !.at = at] \in Job
        /\ \A at \in Ats : [NoJob EXCEPT !.at = at, !.now = clock] \in Job
        /\ \A at \in Ats : [NoJob EXCEPT !.at = at, !.now = clock, !.manual = TRUE] \in Job
    <3>1. NoJob \in Job
      BY <2>c DEF NoJob, Ats, Job
    <3>2. \A j \in Job, at \in Ats : [j EXCEPT !.at = at] \in Job
      BY DEF Job
    <3>3. \A j \in Job, at \in Ats : [j EXCEPT !.at = at, !.now = clock] \in Job
      BY <2>c DEF Job
    <3>4. \A j \in Job, at \in Ats : [j EXCEPT !.at = at, !.now = clock, !.manual = TRUE] \in Job
      BY <2>c DEF Job
    <3> QED
      BY <3>1, <3>2, <3>3, <3>4
  <2>e. job \in [Replicas -> Job] /\ job[p] \in Job /\ job[p].now \in Ticks /\ job[p].at \in Ats
    BY DEF JobTypes, Job
  <2>f. \A j \in Job, at \in Ats : [j EXCEPT !.at = at] \in Job
    BY DEF Job
  <2>g. \A at \in Ats : JobTo(p, at) => job' \in [Replicas -> Job]
    BY <2>e, <2>f DEF JobTo
  <2>h. \A j \in Job : job' = [job EXCEPT ![p] = j] => job' \in [Replicas -> Job]
    BY <2>e
  <2>i. lastRun \in Int /\ archive \subseteq [by : Replicas, name : Ticks, done : BOOLEAN] /\ upset \in BOOLEAN
        /\ taken \subseteq Ticks /\ kept \subseteq Ticks /\ clock \in Nat /\ Ticks \subseteq Int
    BY DEF JobTypes, Ticks, Never
  <2>j. \A b \in BOOLEAN : [by |-> p, name |-> job[p].now, done |-> b] \in [by : Replicas, name : Ticks, done : BOOLEAN]
    BY <2>e
  <2>k. job' \in [Replicas -> Job] /\ archive' \subseteq [by : Replicas, name : Ticks, done : BOOLEAN]
        /\ taken' \subseteq Ticks /\ kept' \subseteq Ticks /\ lastRun' \in Int /\ upset' \in BOOLEAN
    <3>1. CASE tick(p)
      BY <3>1, <2>d, <2>h, <2>i DEF tick, Ats
    <3>2. CASE runNow(p)
      BY <3>2, <2>d, <2>h, <2>i DEF runNow, Ats
    <3>3. CASE acquire(p)
      BY <3>3, <2>d, <2>g, <2>h, <2>i DEF acquire, Ats
    <3>4. CASE recheck(p)
      BY <3>4, <2>d, <2>g, <2>h, <2>i DEF recheck, Ats
    <3>5. CASE beginStoredBackup(p)
      BY <3>5, <2>g, <2>i, <2>j DEF beginStoredBackup, Partial, Ats
    <3>6. CASE exportFails(p)
      BY <3>6, <2>g, <2>i DEF exportFails, Ats
    <3>7. CASE commit(p)
      <4>1. [Partial(p) EXCEPT !.done = TRUE] \in [by : Replicas, name : Ticks, done : BOOLEAN]
        BY <2>j DEF Partial
      <4> QED
        BY <3>7, <4>1, <2>e, <2>g, <2>i DEF commit, Ats
    <3>8. CASE listDoomed(p)
      <4>1. prunable(Names(listStoredBackups)) \subseteq Ticks
        BY <2>i DEF prunable, Names, listStoredBackups, Completed
      <4>2. [job[p] EXCEPT !.at = "prune", !.doomed = prunable(Names(listStoredBackups))] \in Job
        BY <4>1, <2>e DEF Job, Ats
      <4> QED
        BY <3>8, <4>2, <2>h, <2>i DEF listDoomed
    <3>9. CASE deleteStoredBackups(p)
      <4>1. [job[p] EXCEPT !.at = "stamp", !.doomed = {}] \in Job
        BY <2>e DEF Job, Ats
      <4> QED
        BY <3>9, <4>1, <2>h, <2>i DEF deleteStoredBackups
    <3>10. CASE writeState(p)
      BY <3>10, <2>d, <2>e, <2>h, <2>i DEF writeState, Ats
    <3>11. CASE releaseGet(p)
      BY <3>11, <2>d, <2>h, <2>i DEF releaseGet, Ats
    <3>12. CASE releaseDel(p)
      BY <3>12, <2>d, <2>h, <2>i DEF releaseDel, Ats
    <3>13. CASE stateThrows(p)
      BY <3>13, <2>d, <2>h, <2>i DEF stateThrows, Ats
    <3>14. CASE lockThrows(p)
      BY <3>14, <2>d, <2>h, <2>i DEF lockThrows, Ats
    <3> QED
      BY <1>2, <3>1, <3>2, <3>3, <3>4, <3>5, <3>6, <3>7, <3>8, <3>9, <3>10, <3>11, <3>12, <3>13, <3>14 DEF jobMoves
  <2> QED
    BY <1>2, <2>a, <2>i, <2>k DEF JobTypes
<1>3. ASSUME NEW p \in Replicas, commitRestore(p), UNCHANGED clock PROVE JobTypes'
  <2>1. Ticks' = Ticks /\ Job' = Job
    BY <1>3 DEF Ticks, Job
  <2> QED
    BY <1>3, <2>1 DEF commitRestore, JobTypes, Never
<1>4. ASSUME NEW p \in Replicas, Wipes(p), UNCHANGED clock PROVE JobTypes'
  <2>1. Ticks' = Ticks /\ Job' = Job
    BY <1>4 DEF Ticks, Job
  <2> QED
    BY <1>4, <2>1 DEF Wipes, JobTypes, tableVars
<1>5. ASSUME NEW p \in Replicas, crash(p) PROVE JobTypes'
  <2>1. Ticks' = Ticks /\ Job' = Job
    BY <1>5 DEF Ticks, Job, crash
  <2>2. NoJob \in Job
    BY DEF NoJob, Job, Ats, Ticks, Never, JobTypes
  <2> QED
    BY <1>5, <2>1, <2>2 DEF crash, JobTypes, tableVars
<1>6. CASE lockExpires
  BY <1>6 DEF lockExpires, JobTypes, Job, Ticks, Never, tableVars
<1>7. CASE passTime
  <2>1. Ticks \subseteq Ticks'
    BY <1>7 DEF passTime, JobTypes, Ticks, Never
  <2>2. Job \subseteq Job'
    BY <2>1 DEF Job
  <2>3. [by : Replicas, name : Ticks, done : BOOLEAN] \subseteq [by : Replicas, name : Ticks, done : BOOLEAN]'
    BY <2>1
  <2>4. clock' \in Nat /\ UNCHANGED <<lastRun, archive, job, taken, kept, upset>>
    BY <1>7 DEF passTime, JobTypes, tableVars, jobVars
  <2> QED
    BY <2>1, <2>2, <2>3, <2>4 DEF JobTypes
<1> QED
  BY <1>1, <1>2, <1>3, <1>4, <1>5, <1>6, <1>7, JobSteps

-----------------------------------------------------------------------------
(* Retention.                                                              *)

\* kept holds no more than the newest; whatever else is stored, or listed to
\* be deleted since the archive was last empty, is beaten by them.
Retention ==
  /\ \A n \in kept : ~Beaten(kept, n)
  /\ \A n \in Names(Completed) : n \in kept \/ Beaten(kept, n)
  /\ \A p \in Replicas : \A n \in job[p].doomed : n \in stale \/ Beaten(kept, n)
  /\ NewestKept

\* A step that commits, lists and deletes nothing.
LEMMA RetentionSame ==
  ASSUME Retention, UNCHANGED <<kept, stale>>, Completed' = Completed,
         \A p \in Replicas : job'[p].doomed \subseteq job[p].doomed
  PROVE  Retention'
<1>1. Names(Completed)' = Names(Completed)
  BY DEF Names
<1>2. \A n : Beaten(kept, n)' <=> Beaten(kept, n)
  BY DEF Beaten, Above
<1> QED
  BY <1>1, <1>2 DEF Retention, NewestKept

LEMMA TicksFinite ==
  ASSUME JobTypes
  PROVE  /\ Ticks \subseteq Int /\ clock \in Int /\ \A n \in Ticks : n <= clock
         /\ \A S \in SUBSET Ticks : IsFiniteSet(S)
<1>1. Ticks \subseteq Int /\ clock \in Int /\ \A n \in Ticks : n <= clock
  BY DEF JobTypes, Ticks, Never
<1>2. IsFiniteSet(Ticks)
  BY FS_Interval DEF Ticks, Never, JobTypes
<1> QED
  BY <1>1, <1>2, FS_Subset

\* A backup is committed: the newest are the newest of one more.
LEMMA CommitRetention ==
  ASSUME JobTypes, Retention, NEW p \in Replicas, commit(p), Partial(p) \in archive,
         archive' = (archive \ {Partial(p)}) \cup {[Partial(p) EXCEPT !.done = TRUE]},
         kept' = (kept \cup {job[p].now}) \ prunable(kept \cup {job[p].now}), JobTo(p, "list")
  PROVE  Retention'
<1> DEFINE S == kept \cup {job[p].now}
<1>1. job[p] \in Job /\ job[p].now \in Ticks /\ S \subseteq Ticks
  BY DEF JobTypes, Job
<1>2. S \subseteq Int /\ IsFiniteSet(S) /\ (\A m \in S : m <= clock) /\ clock \in Int
  BY <1>1, TicksFinite
<1>3. kept' = S \ prunable(S) /\ stale' = stale
  BY DEF commit
<1>4. Names(Completed)' = Names(Completed) \cup {job[p].now}
  <2>1. Completed' = Completed \cup {[Partial(p) EXCEPT !.done = TRUE]}
    BY DEF Completed, Partial
  <2>2. [Partial(p) EXCEPT !.done = TRUE].name = job[p].now
    BY DEF Partial
  <2> QED
    BY <2>1, <2>2 DEF Names
<1>5. ASSUME NEW n \in Int, Beaten(kept, n) PROVE Beaten(kept', n)
  <2>1. Beaten(S, n)
    BY <1>2, <1>5, BeatenMono DEF Above
  <2> QED
    BY <2>1, <1>2, <1>3, BeatenByTheRest
<1>6. ASSUME NEW n \in S PROVE n \in kept' \/ Beaten(kept', n)
  <2>1. CASE n \in prunable(S)
    <3>1. Beaten(S, n)
      BY <2>1 DEF prunable, Beaten, Above
    <3> QED
      BY <3>1, <1>2, <1>3, BeatenByTheRest
  <2> QED
    BY <2>1, <1>3
<1>7. \A n \in kept' : ~Beaten(kept', n)
  BY <1>2, <1>3, NothingMoreToPrune
<1>8. ASSUME NEW n \in Names(Completed)' PROVE n \in kept' \/ Beaten(kept', n)
  <2>1. n \in S \/ (n \in Names(Completed) /\ Beaten(kept, n))
    BY <1>4 DEF Retention
  <2>2. \A m \in Names(Completed) : m \in Int
    BY TicksFinite DEF JobTypes, Names, Completed
  <2> QED
    BY <2>1, <2>2, <1>5, <1>6
<1>9. ASSUME NEW q \in Replicas, NEW n \in job'[q].doomed PROVE n \in stale' \/ Beaten(kept', n)
  <2>1. job'[q].doomed = job[q].doomed /\ job[q].doomed \subseteq Int
    BY TicksFinite DEF JobTo, JobTypes, Job
  <2> QED
    BY <2>1, <1>3, <1>5 DEF Retention
<1>10. NewestKept'
  BY <1>3, <1>4 DEF Retention, NewestKept
<1> QED
  BY <1>7, <1>8, <1>9, <1>10 DEF Retention, Beaten, Above

\* What a pass lists is beaten by the newest.
LEMMA ListRetention ==
  ASSUME JobTypes, Retention, NEW p \in Replicas, listDoomed(p)
  PROVE  Retention'
<1> DEFINE N == Names(Completed)
<1>1. N \subseteq Ticks /\ kept \subseteq Ticks
  BY DEF JobTypes, Names, Completed
<1>2. N \subseteq Int /\ kept \subseteq Int /\ IsFiniteSet(kept)
  BY <1>1, TicksFinite
<1>3. ASSUME NEW n \in prunable(N) PROVE Beaten(kept, n)
  <2>1. n \in N /\ Beaten(N, n) /\ n \in Int
    BY <1>2 DEF prunable, Beaten, Above
  <2>2. CASE \E m \in N : m > n /\ Beaten(kept, m)
    <3>1. PICK m \in N : m > n /\ Beaten(kept, m)
      BY <2>2
    <3>2. Above(kept, m) \subseteq Above(kept, n)
      <4>1. \A x \in kept : x > m => x > n
        BY <3>1, <2>1, <1>2
      <4> QED
        BY <4>1 DEF Above
    <3> QED
      BY <3>1, <3>2, <1>2, BeatenMono
  <2>3. CASE \A m \in N : m > n => ~Beaten(kept, m)
    <3>1. \A m \in N : m > n => m \in kept
      BY <2>3 DEF Retention
    <3>2. Above(N, n) \subseteq Above(kept, n)
      BY <3>1 DEF Above
    <3> QED
      BY <3>2, <2>1, <1>2, BeatenMono
  <2> QED
    BY <2>2, <2>3
<1>4. /\ UNCHANGED <<kept, stale, archive>>
      /\ job'[p].doomed = prunable(N)
      /\ \A q \in Replicas \ {p} : job'[q] = job[q]
  BY DEF listDoomed, listStoredBackups, JobTypes, Job
<1>5. Completed' = Completed
  BY <1>4 DEF Completed
<1>6. Names(Completed)' = N
  BY <1>5 DEF Names
<1>7. \A n : Beaten(kept, n)' <=> Beaten(kept, n)
  BY <1>4 DEF Beaten, Above
<1>8. ASSUME NEW q \in Replicas, NEW n \in job'[q].doomed PROVE n \in stale \/ Beaten(kept, n)
  BY <1>3, <1>4 DEF Retention
<1> QED
  BY <1>4, <1>6, <1>7, <1>8 DEF Retention, NewestKept

\* None of the newest is deleted.
LEMMA DeleteRetention ==
  ASSUME JobTypes, Retention, NEW p \in Replicas, deleteStoredBackups(p)
  PROVE  Retention'
<1>1. PICK names \in SUBSET job[p].doomed : archive' = {b \in archive : ~b.done \/ b.name \notin names}
  BY DEF deleteStoredBackups
<1>2. UNCHANGED <<kept, stale>> /\ \A q \in Replicas : job'[q].doomed \subseteq job[q].doomed
  BY DEF deleteStoredBackups, JobTypes, Job
<1>3. Completed' = {b \in Completed : b.name \notin names}
  BY <1>1 DEF Completed
<1>4. Names(Completed)' = Names(Completed) \ names
  BY <1>3 DEF Names
<1>5. \A n : Beaten(kept, n)' <=> Beaten(kept, n)
  BY <1>2 DEF Beaten, Above
<1>6. ASSUME NEW n \in kept \ stale PROVE n \notin names
  BY DEF Retention
<1> QED
  BY <1>2, <1>4, <1>5, <1>6 DEF Retention, NewestKept

LEMMA RetentionStep == JobTypes /\ Retention /\ [Next]_vars => Retention'
<1> SUFFICES ASSUME JobTypes, Retention, [Next]_vars PROVE Retention'
  OBVIOUS
<1>0. \A q \in Replicas : job[q] \in Job
  BY DEF JobTypes
<1>a. ASSUME NEW p \in Replicas, NEW j \in [at : Ats, now : Int, manual : BOOLEAN, doomed : {{}}],
             job' = [job EXCEPT ![p] = j]
      PROVE  \A q \in Replicas : job'[q].doomed \subseteq job[q].doomed
  BY <1>a DEF JobTypes
<1>b. ASSUME NEW p \in Replicas, NEW at, JobTo(p, at)
      PROVE  \A q \in Replicas : job'[q].doomed \subseteq job[q].doomed
  BY <1>b, <1>0 DEF JobTypes, Job, JobTo
<1>c. /\ NoJob \in [at : Ats, now : Int, manual : BOOLEAN, doomed : {{}}]
      /\ \A at \in Ats : [NoJob EXCEPT !.at = at] \in [at : Ats, now : Int, manual : BOOLEAN, doomed : {{}}]
      /\ \A at \in Ats : [NoJob EXCEPT !.at = at, !.now = clock] \in [at : Ats, now : Int, manual : BOOLEAN, doomed : {{}}]
      /\ \A at \in Ats : [NoJob EXCEPT !.at = at, !.now = clock, !.manual = TRUE]
                           \in [at : Ats, now : Int, manual : BOOLEAN, doomed : {{}}]
  <2>1. clock \in Int /\ Never \in Int /\ "idle" \in Ats
    BY DEF JobTypes, Never, Ats
  <2> QED
    BY <2>1 DEF NoJob
<1>1. CASE UNCHANGED <<archive, job, kept, stale>>
  BY <1>1, RetentionSame DEF Completed
<1>2. ASSUME NEW p \in Replicas, tick(p) \/ runNow(p) \/ jobMoves(p) \/ stateThrows(p) \/ lockThrows(p) PROVE Retention'
  <2>1. CASE tick(p)
    BY <2>1, <1>a, <1>c, RetentionSame DEF tick, Completed, Ats
  <2>2. CASE runNow(p)
    BY <2>2, <1>a, <1>c, RetentionSame DEF runNow, Completed, Ats
  <2>3. CASE acquire(p)
    BY <2>3, <1>a, <1>b, <1>c, RetentionSame DEF acquire, Completed
  <2>4. CASE recheck(p)
    BY <2>4, <1>a, <1>b, <1>c, RetentionSame DEF recheck, Completed, Ats
  <2>5. CASE beginStoredBackup(p)
    <3>1. Completed' = Completed
      <4>1. CASE job[p].now \in Names(Completed)
        BY <2>5, <4>1 DEF beginStoredBackup, Completed
      <4>2. CASE job[p].now \notin Names(Completed)
        <5>1. ~Partial(p).done
          BY DEF Partial
        <5>2. archive' = {b \in archive : b.name # job[p].now} \cup {Partial(p)}
          BY <2>5, <4>2 DEF beginStoredBackup
        <5>3. \A b \in Completed : b.name # job[p].now
          BY <4>2 DEF Names
        <5> QED
          BY <5>1, <5>2, <5>3 DEF Completed
      <4> QED
        BY <4>1, <4>2
    <3> QED
      BY <2>5, <3>1, <1>b, RetentionSame DEF beginStoredBackup
  <2>6. CASE exportFails(p)
    <3>1. Completed' = Completed
      BY <2>6 DEF exportFails, Completed, Partial
    <3> QED
      BY <2>6, <3>1, <1>b, RetentionSame DEF exportFails
  <2>7. CASE commit(p)
    <3>1. CASE UNCHANGED <<archive, taken, kept>> /\ JobTo(p, "stamp")
      BY <2>7, <3>1, <1>b, RetentionSame DEF commit, Completed
    <3> QED
      BY <2>7, <3>1, CommitRetention DEF commit
  <2>8. CASE listDoomed(p)
    BY <2>8, ListRetention
  <2>9. CASE deleteStoredBackups(p)
    BY <2>9, DeleteRetention
  <2>10. CASE writeState(p)
    BY <2>10, <1>a, <1>c, RetentionSame DEF writeState, Completed, Ats
  <2>11. CASE releaseGet(p)
    BY <2>11, <1>a, <1>c, RetentionSame DEF releaseGet, Completed, Ats
  <2>12. CASE releaseDel(p)
    BY <2>12, <1>a, <1>c, RetentionSame DEF releaseDel, Completed
  <2>13. CASE stateThrows(p)
    BY <2>13, <1>a, <1>c, RetentionSame DEF stateThrows, Completed, Ats
  <2>14. CASE lockThrows(p)
    BY <2>14, <1>a, <1>c, RetentionSame DEF lockThrows, Completed
  <2> QED
    BY <1>2, <2>1, <2>2, <2>3, <2>4, <2>5, <2>6, <2>7, <2>8, <2>9, <2>10, <2>11, <2>12, <2>13, <2>14 DEF jobMoves
<1>3. ASSUME NEW p \in Replicas, commitRestore(p) PROVE Retention'
  <2>1. CASE Announced(p)
    <3>1. archive' = {} /\ kept' = {} /\ job' = job /\ \A q \in Replicas : job[q].doomed \subseteq stale'
      BY <1>3, <2>1 DEF commitRestore
    <3>2. Names(Completed)' = {}
      BY <3>1 DEF Names, Completed
    <3> QED
      BY <3>1, <3>2 DEF Retention, NewestKept
  <2>2. CASE ~Announced(p)
    BY <1>3, <2>2, <1>1 DEF commitRestore
  <2> QED
    BY <2>1, <2>2
<1>4. ASSUME NEW p \in Replicas, crash(p) PROVE Retention'
  BY <1>4, <1>a, <1>c, RetentionSame DEF crash, Completed, tableVars
<1>5. ASSUME NEW p \in Replicas, Wipes(p) PROVE UNCHANGED <<archive, job, kept, stale>>
  BY <1>5 DEF Wipes, tableVars
<1>6. UNCHANGED RestVars \/ lockExpires \/ passTime => UNCHANGED <<archive, job, kept, stale>>
  BY DEF RestVars, lockExpires, passTime, tableVars, jobVars
<1> QED
  BY <1>1, <1>2, <1>3, <1>4, <1>5, <1>6, JobSteps

-----------------------------------------------------------------------------
(* One backup for each time one falls due.                                 *)

\* The job is under the lock.
Held(p) == job[p].at \notin {"idle", "lock"}

\* Its backup is committed, and the schedule's state not written yet.
Unstamped(p) == job[p].at \in {"list", "prune", "stamp"}

\* It has found its backup owed, and not committed it yet.
Owing(p) == job[p].at \in {"begin", "export"} /\ ~job[p].manual

\* The scheduled backups taken but for those that could not be recorded.
Recorded == taken \ missed

\* While nothing upsets the schedule, a job under the lock is its holder; a
\* scheduled backup that was taken is in the schedule's state, or the holder
\* is about to write it; and a job that found its backup owed is for a later
\* due instant than all that were taken.
Once ==
  /\ \A p \in Replicas : Held(p) => lock = p
  /\ \A a \in Recorded : a <= lastRun \/ \E p \in Replicas : Unstamped(p) /\ job[p].now = a
  /\ \A p \in Replicas : Owing(p) => \A a \in Recorded : a < lastDueAt(job[p].now)
  /\ \A a, b \in Recorded : lastDueAt(a) = lastDueAt(b) => a = b

\* A step that takes no backup: nobody comes under the lock, comes to owe a
\* backup or has one unstamped who had not, and lastRun covers the others'.
LEMMA OnceSame ==
  ASSUME Once, Recorded' \subseteq Recorded, lastRun \in Int, lastRun' \in Int, lastRun' >= lastRun, taken \subseteq Int,
         \A p \in Replicas : Held(p)' => lock' = p,
         \A p \in Replicas : Owing(p)' => Owing(p) /\ job'[p].now = job[p].now,
         \A p \in Replicas : Unstamped(p) => \/ Unstamped(p)' /\ job'[p].now = job[p].now
                                             \/ job[p].now <= lastRun' \/ job[p].now \notin Recorded'
  PROVE  Once'
<1>1. ASSUME NEW a \in Recorded' PROVE a <= lastRun' \/ \E p \in Replicas : Unstamped(p)' /\ job'[p].now = a
  <2>0. a \in Recorded /\ a \in Int
    BY DEF Recorded
  <2>1. CASE a <= lastRun
    BY <2>0, <2>1
  <2>2. CASE \E p \in Replicas : Unstamped(p) /\ job[p].now = a
    BY <2>2
  <2> QED
    BY <2>0, <2>1, <2>2 DEF Once
<1>2. \A p \in Replicas : Owing(p)' => \A a \in Recorded' : a < lastDueAt(job'[p].now)
  BY DEF Once
<1> QED
  BY <1>1, <1>2 DEF Once, lastDueAt, DueInstants, onCycle

LEMMA OnceStep == JobTypes /\ (upset \/ Once) /\ [Next]_vars => (upset \/ Once)'
<1> SUFFICES ASSUME JobTypes, upset \/ Once, [Next]_vars, ~upset' PROVE Once'
  BY DEF JobTypes
<1>k. UNCHANGED <<taken, missed>> => Recorded' \subseteq Recorded
  BY DEF Recorded
<1>0. /\ lastRun \in Int /\ taken \subseteq Int /\ Recorded \subseteq taken /\ clock \in Int /\ upset \in BOOLEAN
      /\ job \in [Replicas -> Job] /\ \A q \in Replicas : job[q].now \in Int /\ job[q].now >= Never
  BY TicksFinite DEF JobTypes, Job, Ticks, Never, Recorded
<1>1. CASE UNCHANGED RestVars
  BY <1>0, <1>1, OnceSame, <1>k DEF RestVars, tableVars, jobVars, Once, Held, Owing, Unstamped
<1>2. ASSUME NEW p \in Replicas, tick(p) \/ runNow(p) \/ jobMoves(p) \/ stateThrows(p) \/ lockThrows(p), UNCHANGED clock
      PROVE  Once'
  <2>a. Once
    BY <1>2 DEF jobMoves, tick, runNow, acquire, recheck, beginStoredBackup, exportFails, commit, listDoomed,
                deleteStoredBackups, writeState, releaseGet, releaseDel, stateThrows, lockThrows
  <2>b. ASSUME NEW q \in Replicas, Held(q), Held(p) PROVE q = p
    BY <2>a, <2>b DEF Once
  <2>1. CASE tick(p)
    BY <1>0, <2>1, OnceSame, <1>k DEF tick, JobAt, NoJob, Once, Held, Owing, Unstamped
  <2>2. CASE runNow(p)
    BY <1>0, <2>2, OnceSame, <1>k DEF runNow, JobAt, NoJob, Once, Held, Owing, Unstamped
  <2>3. CASE acquire(p)
    <3>1. CASE lock = Free
      <4>1. \A q \in Replicas : ~Held(q)
        BY <2>a, <3>1, BackupConstants DEF Once
      <4>2. /\ lock' = p /\ UNCHANGED <<lastRun, taken, missed>> /\ job[p].at = "lock"
            /\ \/ job[p].manual /\ job' = [job EXCEPT ![p].at = "begin"]
               \/ ~job[p].manual /\ job' = [job EXCEPT ![p].at = "recheck"]
        BY <2>3, <3>1 DEF acquire, JobAt, JobTo
      <4>3. \A q \in Replicas : Held(q)' => lock' = q
        BY <4>1, <4>2, <1>0 DEF Held, Job
      <4>4. \A q \in Replicas : Owing(q)' => Owing(q) /\ job'[q].now = job[q].now
        BY <4>1, <4>2, <1>0 DEF Held, Owing, Job
      <4>5. \A q \in Replicas : ~Unstamped(q)
        BY <4>1 DEF Held, Unstamped
      <4> QED
        BY <2>a, <4>2, <4>3, <4>4, <4>5, <1>0, OnceSame, <1>k
    <3>2. CASE lock # Free
      BY <1>0, <2>a, <2>3, <3>2, OnceSame, <1>k DEF acquire, JobAt, NoJob, Once, Held, Owing, Unstamped
    <3> QED
      BY <3>1, <3>2
  <2>4. CASE recheck(p)
    <3>1. CASE isDue(lastRun, job[p].now)
      <4>1. UNCHANGED <<lock, taken, missed, lastRun>> /\ job[p].at = "recheck" /\ job' = [job EXCEPT ![p].at = "begin"]
        BY <2>4, <3>1 DEF recheck, JobAt, JobTo
      <4>2. \A q \in Replicas : ~Unstamped(q)
        BY <2>b, <4>1 DEF Held, Unstamped
      <4>3. \A a \in Recorded : a < lastDueAt(job[p].now)
        <5>1. \A a \in Recorded : a <= lastRun
          BY <2>a, <4>2 DEF Once
        <5>2. lastDueAt(job[p].now) \in Int
          BY <1>0, LastDueIsPast
        <5> QED
          BY <5>1, <5>2, <3>1, <1>0 DEF isDue
      <4>4. /\ job'[p].now = job[p].now /\ job'[p].at = "begin"
            /\ \A q \in Replicas \ {p} : job'[q] = job[q]
        BY <4>1, <1>0 DEF Job
      <4>5. \A q \in Replicas : Held(q)' => lock' = q
        BY <2>a, <4>1, <4>4 DEF Once, Held
      <4>6. \A a \in Recorded : a <= lastRun
        BY <2>a, <4>2 DEF Once
      <4>7. ASSUME NEW q \in Replicas, Owing(q)' PROVE \A a \in Recorded : a < lastDueAt(job'[q].now)
        <5>1. CASE q = p
          BY <5>1, <4>3, <4>4
        <5>2. CASE q # p
          BY <5>2, <4>4, <4>7, <2>a DEF Once, Owing
        <5> QED
          BY <5>1, <5>2
      <4>8. \A a, b \in Recorded : lastDueAt(a) = lastDueAt(b) => a = b
        BY <2>a DEF Once
      <4> QED
        BY <4>1, <4>5, <4>6, <4>7, <4>8 DEF Once, Recorded, lastDueAt, DueInstants, onCycle
    <3>2. CASE ~isDue(lastRun, job[p].now)
      BY <1>0, <2>a, <2>4, <3>2, OnceSame, <1>k DEF recheck, JobAt, NoJob, Once, Held, Owing, Unstamped
    <3> QED
      BY <3>1, <3>2
  <2>5. CASE beginStoredBackup(p)
    <3>1. UNCHANGED <<lock, taken, missed, lastRun>> /\ job[p].at = "begin"
      BY <2>5 DEF beginStoredBackup, JobAt
    <3>2. CASE job' = [job EXCEPT ![p].at = "stamp"]
      BY <1>0, <2>a, <3>1, <3>2, OnceSame, <1>k DEF Once, Held, Owing, Unstamped
    <3>3. CASE job' = [job EXCEPT ![p].at = "export"]
      BY <1>0, <2>a, <3>1, <3>3, OnceSame, <1>k DEF Once, Held, Owing, Unstamped, Job
    <3> QED
      BY <2>5, <3>2, <3>3 DEF beginStoredBackup, JobTo
  <2>6. CASE exportFails(p)
    BY <1>0, <2>6, OnceSame, <1>k DEF exportFails, JobAt, JobTo, Once, Held, Owing, Unstamped
  <2>7. CASE commit(p)
    <3>1. UNCHANGED <<lock, missed, lastRun>> /\ job[p].at = "export"
      BY <2>7 DEF commit, JobAt
    <3>2. CASE UNCHANGED taken /\ job' = [job EXCEPT ![p].at = "stamp"]
      BY <1>0, <2>a, <3>1, <3>2, OnceSame, <1>k DEF Once, Held, Owing, Unstamped
    <3>3. CASE UNCHANGED taken /\ job' = [job EXCEPT ![p].at = "list"]
      BY <1>0, <2>a, <3>1, <3>3, OnceSame, <1>k DEF Once, Held, Owing, Unstamped
    <3>4. CASE ~job[p].manual /\ taken' = taken \cup {job[p].now} /\ job' = [job EXCEPT ![p].at = "list"]
      <4>1. /\ job'[p].now = job[p].now /\ job'[p].at = "list"
            /\ \A q \in Replicas \ {p} : job'[q] = job[q]
        BY <3>4, <1>0 DEF Job
      <4>2. Held(p) /\ Owing(p)
        BY <3>1, <3>4 DEF Held, Owing
      <4>3. \A q \in Replicas : ~Unstamped(q)
        BY <2>b, <3>1, <4>2 DEF Held, Unstamped
      <4>4. \A q \in Replicas : Held(q)' => lock' = q
        BY <2>a, <3>1, <4>1, <4>2 DEF Once, Held
      <4>5. \A a \in Recorded' : a <= lastRun' \/ \E q \in Replicas : Unstamped(q)' /\ job'[q].now = a
        BY <2>a, <3>1, <3>4, <4>1, <4>3 DEF Once, Unstamped, Recorded
      <4>6. \A q \in Replicas : ~Owing(q)'
        BY <2>b, <4>1, <4>2 DEF Held, Owing
      <4>7. ASSUME NEW a \in Recorded PROVE lastDueAt(a) # lastDueAt(job[p].now)
        <5>1. a < lastDueAt(job[p].now)
          BY <2>a, <4>2 DEF Once
        <5>2. a \in Int /\ a >= Never
          BY <1>0 DEF JobTypes, Ticks, Never
        <5>3. /\ lastDueAt(a) \in Int /\ lastDueAt(a) <= a
              /\ lastDueAt(job[p].now) \in Int
          BY <5>2, <1>0, LastDueIsPast
        <5> QED
          BY <5>1, <5>2, <5>3
      <4>8. \A a, b \in Recorded' : lastDueAt(a) = lastDueAt(b) => a = b
        BY <2>a, <3>1, <3>4, <4>7 DEF Once, Recorded
      <4> QED
        BY <4>4, <4>5, <4>6, <4>8 DEF Once, lastDueAt, DueInstants, onCycle
    <3> QED
      BY <2>7, <3>2, <3>3, <3>4, <1>0 DEF commit, JobTo
  <2>8. CASE listDoomed(p)
    BY <1>0, <2>8, OnceSame, <1>k DEF listDoomed, JobAt, Once, Held, Owing, Unstamped
  <2>9. CASE deleteStoredBackups(p)
    BY <1>0, <2>9, OnceSame, <1>k DEF deleteStoredBackups, JobAt, Once, Held, Owing, Unstamped
  <2>10. CASE writeState(p)
    <3>1. /\ UNCHANGED <<lock, taken, missed>> /\ job[p].at = "stamp" /\ lastRun' = job[p].now
          /\ job' = [job EXCEPT ![p] = [NoJob EXCEPT !.at = "release"]]
          /\ upset' = (upset \/ job[p].now < lastRun)
      BY <2>10 DEF writeState, JobAt
    <3>2. lastRun' \in Int /\ lastRun' >= lastRun
      <4>1. ~(job[p].now < lastRun)
        BY <3>1, Zenon
      <4> QED
        BY <3>1, <4>1, <1>0
    <3>3. job'[p].at = "release" /\ \A q \in Replicas \ {p} : job'[q] = job[q]
      BY <3>1, <1>0 DEF NoJob
    <3>4. \A q \in Replicas : Held(q)' => lock' = q
      BY <2>a, <3>1, <3>3 DEF Once, Held
    <3>5. \A q \in Replicas : Owing(q)' => Owing(q) /\ job'[q].now = job[q].now
      BY <3>3 DEF Owing
    <3>6. \A q \in Replicas : Unstamped(q) => \/ Unstamped(q)' /\ job'[q].now = job[q].now
                                              \/ job[q].now <= lastRun'
      BY <3>1, <3>3, <1>0 DEF Unstamped
    <3> QED
      BY <2>a, <3>1, <3>2, <3>4, <3>5, <3>6, <1>0, OnceSame, <1>k
  <2>11. CASE releaseGet(p)
    BY <1>0, <2>11, OnceSame, <1>k DEF releaseGet, JobAt, NoJob, Once, Held, Owing, Unstamped
  <2>12. CASE releaseDel(p)
    BY <1>0, <2>12, OnceSame, <1>k DEF releaseDel, JobAt, NoJob, Once, Held, Owing, Unstamped
  <2>13. CASE stateThrows(p)
    <3>1. /\ UNCHANGED <<lock, taken, lastRun>> /\ job[p].at \in {"recheck", "stamp"}
          /\ job' = [job EXCEPT ![p] = [NoJob EXCEPT !.at = "release"]]
          /\ missed' = missed \cup (IF job[p].at = "stamp" THEN taken \cap {job[p].now} ELSE {})
      BY <2>13 DEF stateThrows, JobAt
    <3>2. job'[p].at = "release" /\ \A q \in Replicas \ {p} : job'[q] = job[q]
      BY <3>1, <1>0 DEF NoJob
    <3>3. Recorded' \subseteq Recorded /\ (job[p].at = "stamp" => job[p].now \notin Recorded')
      BY <3>1 DEF Recorded
    <3>4. \A q \in Replicas : Held(q)' => lock' = q
      BY <2>a, <3>1, <3>2 DEF Once, Held
    <3>5. \A q \in Replicas : Owing(q)' => Owing(q) /\ job'[q].now = job[q].now
      BY <3>2 DEF Owing
    <3>6. \A q \in Replicas : Unstamped(q) => \/ Unstamped(q)' /\ job'[q].now = job[q].now
                                              \/ job[q].now \notin Recorded'
      BY <3>1, <3>2, <3>3 DEF Unstamped
    <3> QED
      BY <2>a, <3>1, <3>3, <3>4, <3>5, <3>6, <1>0, OnceSame
  <2>14. CASE lockThrows(p)
    <3>1. /\ UNCHANGED <<lastRun, taken, missed>> /\ job' = [job EXCEPT ![p] = NoJob]
          /\ job[p].at \in {"lock", "release", "unlock"} /\ lock' \in {lock, Orphan}
          /\ lock' # lock => lock = p \/ lock = Free
      BY <2>14 DEF lockThrows
    <3>2. job'[p].at = "idle" /\ \A q \in Replicas \ {p} : job'[q] = job[q]
      BY <3>1, <1>0 DEF NoJob
    <3>3. \A q \in Replicas : Held(q)' => lock' = q
      BY <2>a, <3>1, <3>2, BackupConstants DEF Once, Held
    <3>4. \A q \in Replicas : Owing(q)' => Owing(q) /\ job'[q].now = job[q].now
      BY <3>2 DEF Owing
    <3>5. \A q \in Replicas : Unstamped(q) => Unstamped(q)' /\ job'[q].now = job[q].now
      BY <3>1, <3>2 DEF Unstamped
    <3> QED
      BY <2>a, <3>1, <3>3, <3>4, <3>5, <1>0, <1>k, OnceSame
  <2> QED
    BY <1>2, <2>1, <2>2, <2>3, <2>4, <2>5, <2>6, <2>7, <2>8, <2>9, <2>10, <2>11, <2>12, <2>13, <2>14 DEF jobMoves
<1>3. ASSUME NEW p \in Replicas, commitRestore(p) PROVE Once'
  <2>1. UNCHANGED <<job, lock, taken, missed>> /\ upset' = (upset \/ lastRun' < lastRun)
    BY <1>3 DEF commitRestore
  <2>2. lastRun' \in Int
    BY <1>3, <1>0 DEF commitRestore, Never
  <2>3. lastRun' >= lastRun /\ Once
    <3>1. ~(lastRun' < lastRun) /\ Once
      BY <2>1, Zenon
    <3> QED
      BY <3>1, <2>2, <1>0
  <2> QED
    BY <2>1, <2>2, <2>3, <1>0, OnceSame, <1>k DEF Once, Held, Owing, Unstamped
<1>4. ASSUME NEW p \in Replicas, Wipes(p) PROVE Once'
  <2>1. /\ lock' \in {lock, Free} /\ UNCHANGED <<lastRun, job, taken, missed>>
        /\ upset' = (upset \/ (lock' # lock /\ lock \in Replicas))
    BY <1>4 DEF Wipes, tableVars
  <2>2. Once /\ ~(lock' # lock /\ lock \in Replicas)
    BY <2>1, Zenon
  <2>3. \A q \in Replicas : Held(q)' => lock' = q
    BY <2>1, <2>2 DEF Once, Held
  <2> QED
    BY <2>1, <2>2, <2>3, <1>0, <1>k, OnceSame DEF Owing, Unstamped
<1>5. ASSUME NEW p \in Replicas, crash(p) PROVE Once'
  BY <1>0, <1>5, OnceSame, <1>k DEF crash, tableVars, NoJob, Once, Held, Owing, Unstamped
<1>6. CASE lockExpires
  BY <1>0, <1>6, OnceSame, <1>k, BackupConstants DEF lockExpires, tableVars, Once, Held, Owing, Unstamped
<1>7. CASE passTime
  BY <1>0, <1>7, OnceSame, <1>k DEF passTime, tableVars, jobVars, Once, Held, Owing, Unstamped
<1> QED
  BY <1>1, <1>2, <1>3, <1>4, <1>5, <1>6, <1>7, JobSteps

-----------------------------------------------------------------------------

\* Whatever the replicas' jobs, restores, crashes and lapsing deadlines: the
\* flag covers every replace restore, the sessions follow the data, retention
\* keeps the newest, and no due instant gets two scheduled backups.
THEOREM BackupSafe == Spec => [](FlagCoversRestore /\ SessionsFollowData /\ NewestKept /\ OncePerWindow)
<1> DEFINE Inv == RestoreInv /\ JobTypes /\ Retention /\ (upset \/ Once)
<1>1. Init => Inv
  <2> SUFFICES ASSUME Init PROVE Inv
    OBVIOUS
  <2>1. RestoreInv
    BY DEF Init, RestoreInv, Restoring, FlagCoversRestore, SignInsFollowData, Announced, NoRestore
  <2>2. JobTypes
    <3>1. NoJob \in Job
      BY DEF Init, NoJob, Job, Ats, Ticks, Never
    <3> QED
      BY <3>1, Never \in Int, 1 \in Nat DEF Init, JobTypes, Never
  <2>3. Retention
    BY DEF Init, Retention, NewestKept, Names, Completed, NoJob
  <2>4. Once
    BY DEF Init, Once, Recorded, Held, Owing, NoJob
  <2> QED
    BY <2>1, <2>2, <2>3, <2>4
<1>2. Inv /\ [Next]_vars => Inv'
  BY RestoreStep, JobTypeStep, RetentionStep, OnceStep
<1>3. Inv => FlagCoversRestore /\ SessionsFollowData /\ NewestKept /\ OncePerWindow
  BY DEF RestoreInv, SignInsFollowData, SessionsFollowData, Retention, Once, Recorded, OncePerWindow
<1> QED
  BY <1>1, <1>2, <1>3, PTL DEF Spec

=============================================================================
