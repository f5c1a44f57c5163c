------------------------------- MODULE Memo -------------------------------
(***************************************************************************)
(* A configuration value in its three places: the database, the copy every *)
(* instance shares in Redis, and a per-process memo in front of it         *)
(* (lib/ttlMemo.ts), read and changed concurrently by several instances.   *)
(*                                                                         *)
(* Two ways to keep the copies in step exist in the code, and `through'    *)
(* says which one the value has.  A setting is written through             *)
(* (services/settings.service.ts): the change is SET in Redis and in the   *)
(* writer's memo.  The provider pools are dropped                          *)
(* (services/providerCache.service.ts): the change DELetes the Redis copy  *)
(* and forgets the writer's memo, and the next reader refills both.        *)
(*                                                                         *)
(* Values are version numbers: what matters of a value is how long ago it  *)
(* was replaced.  An operation between two awaits is one step; a Redis or  *)
(* database command takes effect in a step of its own.                     *)
(***************************************************************************)
EXTENDS Integers

CONSTANTS
  Instances,     \* the gateway processes
  NoInstance,    \* no instance
  Reads,         \* the loader calls that can be under way at once
  Ttl,           \* the memo's own window, 5 s
  MaxStale,      \* MEMO_MAX_STALE_MS; at most Ttl for a NEVER_STALE setting
  SharedTtl,     \* EX of the Redis copy: 300 s for a setting, 60 s for pools
  MaxCall,       \* bound: how long one read or one write takes
  MaxVersion,    \* bound: how often the value changes
  MaxFaults      \* bound: refused commands, failed reads, restarts and flushes

ASSUME MemoAssumption ==
  /\ {Ttl, SharedTtl, MaxCall} \subseteq Nat \ {0}
  /\ MaxStale \in Nat /\ MaxVersion \in Nat
  /\ MaxFaults \in Nat
  /\ MaxCall < SharedTtl /\ NoInstance \notin Instances

VARIABLES
  through,   \* written through (a setting) or dropped (the pools)
  db,        \* the version the database holds
  shared,    \* [v, ttl]: the Redis copy; none when ttl = 0
  entry,     \* [v, age] by instance: the memo's entry, aged from the START of its read
  read,      \* the loader calls: [at, by, v, age, listed]
  write,     \* by instance: [at, v, age], the change it is making
  wrote,     \* history: the newest version the instance wrote and was told so
  gone,      \* history: by version, ticks since the database replaced it
  told,      \* history: by version, ticks since a change that replaced it returned
  clean,     \* history: no two changes overlapped, none failed half way
  faults     \* how many of MaxFaults have happened

memoVars == <<through, db, shared, entry, read, write, wrote, gone, told, clean, faults>>

Versions == 0..MaxVersion

\* How long an entry may be served: load() compares its age with both.
Window == IF Ttl < MaxStale THEN MaxStale ELSE Ttl

\* Ages and histories stop counting here.
Horizon == MaxCall + SharedTtl + Window
Never == -1
Older(n) == IF n = Never \/ n = Horizon THEN n ELSE n + 1

None == [v |-> 0, age |-> Window]
Idle == [at |-> "idle", by |-> NoInstance, v |-> 0, age |-> 0, listed |-> FALSE]
Resting == [at |-> "idle", v |-> 0, age |-> 0]

MemoTypeOK ==
  /\ through \in BOOLEAN /\ clean \in BOOLEAN
  /\ db \in Versions
  /\ shared \in [v : Versions, ttl : 0..SharedTtl]
  /\ entry \in [Instances -> [v : Versions, age : Nat]]
  /\ read \in [Reads -> [at : {"idle", "get", "db", "check", "fill", "store"}, by : Instances \cup {NoInstance},
                         v : Versions, age : 0..MaxCall, listed : BOOLEAN]]
  /\ write \in [Instances -> [at : {"idle", "shared", "memo"}, v : Versions, age : 0..MaxCall]]
  /\ wrote \in [Instances -> Versions]
  /\ gone \in [Versions -> Never..Horizon] /\ told \in [Versions -> Never..Horizon]

MemoInit ==
  /\ through \in BOOLEAN
  /\ db = 0
  /\ shared = [v |-> 0, ttl |-> 0]
  /\ entry = [i \in Instances |-> None]
  /\ read = [r \in Reads |-> Idle]
  /\ write = [i \in Instances |-> Resting]
  /\ wrote = [i \in Instances |-> 0]
  /\ gone = [v \in Versions |-> Never]
  /\ told = [v \in Versions |-> Never]
  /\ clean = TRUE
  /\ faults = 0

history == <<wrote, gone, told, clean>>

Fault == faults < MaxFaults /\ faults' = faults + 1

---------------------------------------------------------------------------
\* Reading.

Listed(i) == {r \in Reads : read[r].listed /\ read[r].by = i}

\* current(): this read is still the one its instance lists.
current(r) == read[r].listed

To(r, at) == read' = [read EXCEPT ![r].at = at]

\* load() where the entry has expired (or there is none) and no read is
\* under way.  A held entry inside the window is served and changes nothing.
load(i, r) ==
  /\ read[r].at = "idle" /\ Listed(i) = {}
  /\ entry[i].age >= Ttl
  /\ read' = [read EXCEPT ![r] = [at |-> "get", by |-> i, v |-> 0, age |-> 0, listed |-> TRUE]]
  /\ UNCHANGED <<through, db, shared, entry, write, history, faults>>

\* The loader: GET the shared copy.
GetShared(r) ==
  /\ read[r].at = "get"
  /\ IF shared.ttl > 0
     THEN read' = [read EXCEPT ![r].at = "store", ![r].v = shared.v]
     ELSE To(r, "db")
  /\ UNCHANGED <<through, db, shared, entry, write, history, faults>>

\* It was missing: the database answers.
ReadStore(r) ==
  /\ read[r].at = "db"
  /\ read' = [read EXCEPT ![r].at = "check", ![r].v = db]
  /\ UNCHANGED <<through, db, shared, entry, write, history, faults>>

\* The pools refill the shared copy only if no local change overtook this
\* read; a setting always tries to.
Refill(r) ==
  /\ read[r].at = "check"
  /\ To(r, IF through \/ current(r) THEN "fill" ELSE "store")
  /\ UNCHANGED <<through, db, shared, entry, write, history, faults>>

\* SET ... EX NX: only a copy that is still missing is filled.
\* (Without NX the newer copy would be overwritten.)
overwritten(v) == [v |-> v, ttl |-> SharedTtl]

filled(v) == IF shared.ttl = 0 THEN [v |-> v, ttl |-> SharedTtl] ELSE shared

FillShared(r) ==
  /\ read[r].at = "fill"
  /\ shared' = filled(read[r].v)
  /\ To(r, "store")
  /\ UNCHANGED <<through, db, entry, write, history, faults>>

\* What the memo keeps of a read: its value, aged from when it started.
\* (Aged from when it ended, it would be served for longer.)
freshlyRead(r) == [v |-> read[r].v, age |-> 0]

kept(r) == [v |-> read[r].v, age |-> read[r].age]

\* The read's promise resolves: stored unless it was overtaken.
Store(r) ==
  /\ read[r].at = "store"
  /\ entry' = IF current(r) THEN [entry EXCEPT ![read[r].by] = kept(r)] ELSE entry
  /\ read' = [read EXCEPT ![r] = Idle]
  /\ UNCHANGED <<through, db, shared, write, history, faults>>

\* The loader rejects: nothing held is touched.
ReadFails(r) ==
  /\ Fault
  /\ read[r].at \in {"get", "db", "fill"}
  /\ read' = [read EXCEPT ![r] = Idle]
  /\ UNCHANGED <<through, db, shared, entry, write, history>>

---------------------------------------------------------------------------
\* Changing.

\* set() and forget() both drop the read under way: it goes on, unlisted.
Overtaken(i) == read' = [r \in Reads |-> IF read[r].by = i THEN [read[r] EXCEPT !.listed = FALSE] ELSE read[r]]

\* The row is written first: setSetting, or a pool route before it
\* invalidates.
Change(i) ==
  /\ write[i].at = "idle" /\ db < MaxVersion
  /\ db' = db + 1
  /\ write' = [write EXCEPT ![i] = [at |-> "shared", v |-> db + 1, age |-> 0]]
  /\ gone' = [gone EXCEPT ![db] = 0]
  /\ clean' = (clean /\ \A j \in Instances : write[j].at = "idle")
  /\ UNCHANGED <<through, shared, entry, read, wrote, told, faults>>

\* Then Redis: SET the new value, or DEL the copy.
ChangeShared(i) ==
  /\ write[i].at = "shared"
  /\ shared' = IF through THEN [v |-> write[i].v, ttl |-> SharedTtl] ELSE [shared EXCEPT !.ttl = 0]
  /\ write' = [write EXCEPT ![i].at = "memo"]
  /\ UNCHANGED <<through, db, entry, read, history, faults>>

\* Redis refuses.  setSetting throws with the memo as it was;
\* invalidateProviderCache forgets in its finally.
SharedRefused(i) ==
  /\ Fault
  /\ write[i].at = "shared"
  /\ write' = [write EXCEPT ![i] = IF through THEN Resting ELSE [@ EXCEPT !.at = "memo"]]
  /\ clean' = FALSE
  /\ UNCHANGED <<through, db, shared, entry, read, wrote, gone, told>>

\* Last the writer's own memo, and the call returns.
ChangeMemo(i) ==
  /\ write[i].at = "memo"
  /\ Overtaken(i)
  /\ entry' = [entry EXCEPT ![i] = IF through THEN [v |-> write[i].v, age |-> 0] ELSE None]
  /\ IF through /\ clean
     THEN /\ wrote' = [wrote EXCEPT ![i] = write[i].v]
          /\ told' = [v \in Versions |-> IF v < write[i].v /\ told[v] = Never THEN 0 ELSE told[v]]
     ELSE UNCHANGED <<wrote, told>>
  /\ write' = [write EXCEPT ![i] = Resting]
  /\ UNCHANGED <<through, db, shared, gone, clean, faults>>

\* POST /admin/cache/flush: the pools' shared copy is deleted and their memo
\* forgotten, as by a change; of a setting only the memo is.
Flush(i) ==
  /\ Fault
  /\ write[i].at = "idle"
  /\ IF through
     THEN Overtaken(i) /\ entry' = [entry EXCEPT ![i] = None] /\ UNCHANGED write
     ELSE /\ write' = [write EXCEPT ![i] = [at |-> "shared", v |-> 0, age |-> 0]]
          /\ UNCHANGED <<read, entry>>
  /\ UNCHANGED <<through, db, shared, history>>

\* The process dies and comes back with empty memory.
Restart(i) ==
  /\ Fault
  /\ entry' = [entry EXCEPT ![i] = None]
  /\ read' = [r \in Reads |-> IF read[r].by = i THEN Idle ELSE read[r]]
  /\ write' = [write EXCEPT ![i] = Resting]
  /\ clean' = (clean /\ write[i].at = "idle")
  /\ UNCHANGED <<through, db, shared, wrote, gone, told>>

\* Time passes; no call outlives MaxCall.
MemoTick ==
  /\ \A r \in Reads : read[r].at # "idle" => read[r].age < MaxCall
  /\ \A i \in Instances : write[i].at # "idle" => write[i].age < MaxCall
  /\ read' = [r \in Reads |-> IF read[r].at = "idle" THEN Idle ELSE [read[r] EXCEPT !.age = @ + 1]]
  /\ write' = [i \in Instances |-> IF write[i].at = "idle" THEN Resting ELSE [write[i] EXCEPT !.age = @ + 1]]
  /\ entry' = [i \in Instances |-> IF entry[i].age + 1 >= Window THEN None ELSE [entry[i] EXCEPT !.age = @ + 1]]
  /\ shared' = IF shared.ttl > 0 THEN [shared EXCEPT !.ttl = @ - 1] ELSE shared
  /\ gone' = [v \in Versions |-> Older(gone[v])]
  /\ told' = [v \in Versions |-> Older(told[v])]
  /\ UNCHANGED <<through, db, wrote, clean, faults>>

MemoNext ==
  \/ \E i \in Instances, r \in Reads : load(i, r)
  \/ \E r \in Reads : GetShared(r) \/ ReadStore(r) \/ Refill(r) \/ FillShared(r) \/ Store(r) \/ ReadFails(r)
  \/ \E i \in Instances : Change(i) \/ ChangeShared(i) \/ SharedRefused(i) \/ ChangeMemo(i) \/ Flush(i) \/ Restart(i)
  \/ MemoTick

MemoSpec == MemoInit /\ [][MemoNext]_memoVars

---------------------------------------------------------------------------

Servable(i) == entry[i].age < Window

\* Whatever races, fails or dies, a memo never serves a value that was
\* replaced longer ago than one late call, one life of the shared copy and
\* one window together: no chain of refills keeps an old value alive.  (In
\* whole ticks a copy is last found one tick before it expires, and so is
\* an entry.)
StaleBounded ==
  \A i \in Instances : Servable(i) => gone[entry[i].v] <= MaxCall + (SharedTtl - 1) + (Window - 1)

\* Once a change of a setting has returned (a rotated master key's hash,
\* say), no instance serves an older value for longer than the memo's
\* window, and the instance that made it never does: "another instance can
\* go on serving the previous value until its own entry expires"
\* (settings.service.ts), provided no other change overlapped it and none
\* failed half way.
RotationReaches ==
  through /\ clean => \A i \in Instances : Servable(i) =>
    told[entry[i].v] < Window /\ entry[i].v >= wrote[i]

=============================================================================
