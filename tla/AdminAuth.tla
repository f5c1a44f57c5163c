----------------------------- MODULE AdminAuth -----------------------------
(***************************************************************************)
(* Who may administer the gateway: sign-in with its lockout, sessions and  *)
(* their index, the guard of the admin routes, accounts, roles and API     *)
(* tokens (services/adminAuth.service.ts, services/adminUsers.service.ts,  *)
(* services/firstRun.service.ts, middleware/auth.middleware.ts,            *)
(* routes/admin/auth.routes.ts and users.routes.ts).                       *)
(*                                                                         *)
(* Several requests are handled at once, each a sequence of awaited        *)
(* commands on the key-value store and statements on the database; what a  *)
(* handler has read it keeps in its own record.  A session is the hash     *)
(* that names it, an account its id; passwords and codes are abstracted to *)
(* right or wrong, and the three roles to whether they are the owner's.    *)
(***************************************************************************)
EXTENDS Naturals, FiniteSets, Functions

CONSTANTS
  People, Nobody,       \* account ids; Nobody for a session or token without an account
  Tokens,               \* admin API tokens that may be minted
  MaxSessions,          \* bound: sessions ever opened
  Requests,             \* bound: requests handled at once
  MAX_LOGIN_ATTEMPTS,
  Mixes                 \* bounds: how much of each thing may happen together

ASSUME AdminConstants ==
  /\ IsFiniteSet(People) /\ Nobody \notin People /\ IsFiniteSet(Requests)
  /\ MaxSessions \in Nat /\ MAX_LOGIN_ATTEMPTS \in Nat \ {0}
  /\ \A mix \in Mixes :
       mix \in [claimed : BOOLEAN, logins : Nat, calls : Nat, changes : Nat, claims : Nat, crashes : Nat]

Sessions == 1..MaxSessions

VARIABLES
  status,     \* AdminUser rows: "none" yet, "active", "suspended" or "gone"
  owner,      \* the accounts whose role is owner
  token,      \* AdminApiToken rows: "none", "live" or "revoked", and createdById
  session,    \* nexus:adminsession:*: live, without a deadline, the account or the role
  index,      \* nexus:adminsessionidx:<account>
  fails,      \* nexus:adminfail:<source>, and whether it has a deadline
  locked,     \* nexus:adminlock:<source>
  req,        \* the requests being handled
  left,       \* what may still happen
  claimed,    \* history: there has been an active owner
  guesses,    \* history: wrong credentials answered since the source's slate was clean
  doomed,     \* history: the sessions an account had when it was suspended or removed
  raised,     \* history: sessions that a refresh wrote when they were already gone
  minter,     \* history: who minted each token
  between     \* history: tokens minted while their minter was being removed

accountVars == <<status, owner, token>>
throttle    == <<fails, locked>>
history     == <<claimed, guesses, doomed, raised, minter, between>>
vars == <<accountVars, session, index, throttle, req, left, history>>

Idle       == [at |-> "idle", who |-> Nobody, owner |-> FALSE, ses |-> 0, on |-> Nobody, seen |-> {}]
NoSession  == [live |-> FALSE, forever |-> FALSE, who |-> Nobody, owner |-> FALSE]
SessionOf(u) == [NoSession EXCEPT !.live = TRUE, !.who = u]

ActiveOwners == {u \in owner : status[u] = "active"}
isUnclaimed  == ActiveOwners = {}

At(r, at)   == req[r].at = at
Go(r, at)   == req' = [req EXCEPT ![r].at = at]
Finish(r)   == req' = [req EXCEPT ![r] = Idle]
May(what)   == left[what] > 0 /\ left' = [left EXCEPT ![what] = @ - 1]
Opened      == {s \in Sessions : session[s] # NoSession}

\* Either two owners, both signed in, or a gateway nobody has claimed.
Init ==
  /\ left \in Mixes
  /\ LET there == IF left.claimed THEN People ELSE {} IN
     /\ status = [u \in People |-> IF u \in there THEN "active" ELSE "none"]
     /\ owner = there /\ claimed = left.claimed
     /\ \E ids \in [there -> Sessions] :
          /\ IsInjective(ids) /\ Range(ids) = 1..Cardinality(there)
          /\ session = [s \in Sessions |-> IF s \in Range(ids)
                                           THEN SessionOf(CHOOSE u \in there : ids[u] = s) ELSE NoSession]
          /\ index = [u \in People |-> IF u \in there THEN {ids[u]} ELSE {}]
  /\ token = [t \in Tokens |-> [is |-> "none", by |-> Nobody]]
  /\ fails = [n |-> 0, ttl |-> TRUE] /\ locked = FALSE
  /\ req = [r \in Requests |-> Idle]
  /\ guesses = 0 /\ doomed = {} /\ raised = {} /\ between = {}
  /\ minter = [t \in Tokens |-> Nobody]

-----------------------------------------------------------------------------
(* Sign-in.                                                                *)

\* POST /admin/login: lockoutRemaining first.
login(r) ==
  /\ At(r, "idle") /\ May("logins") /\ ~locked
  /\ Go(r, "check")
  /\ UNCHANGED <<accountVars, session, index, throttle, history>>

\* Right, and a session for this account, or with this role only.
LetIn(r, u, asOwner) == req' = [req EXCEPT ![r] = [Idle EXCEPT !.at = "clear", !.who = u, !.owner = asOwner]]
Wrong(r) == Go(r, "count") /\ guesses' = guesses + 1

\* The first half of a two-step sign-in is not counted.
examineForFree(r) ==
  /\ At(r, "check")
  /\ \/ Wrong(r)
     \/ (\E u \in People : status[u] = "active") /\ Finish(r) /\ guesses' = guesses + 1
  /\ UNCHANGED <<accountVars, session, index, throttle, left, claimed, doomed, raised, minter, between>>

\* The credentials are examined: an API token in the password's place; the
\* master password while nobody owns the gateway; else an account that is
\* there and active.  A wrong password, a suspended account, a missing or
\* wrong code: all are failures.
examine(r) ==
  /\ At(r, "check")
  /\ \/ \E t \in Tokens : token[t].is = "live" /\ LetIn(r, Nobody, TRUE) /\ UNCHANGED guesses
     \/ isUnclaimed /\ LetIn(r, Nobody, TRUE) /\ UNCHANGED guesses
     \/ ~isUnclaimed /\ (\E u \in People : status[u] = "active" /\ LetIn(r, u, FALSE)) /\ UNCHANGED guesses
     \/ Wrong(r)
  /\ UNCHANGED <<accountVars, session, index, throttle, left, claimed, doomed, raised, minter, between>>

\* recordFailedAttempt: INCR.
countFailure(r) ==
  /\ At(r, "count") /\ fails' = [n |-> fails.n + 1, ttl |-> fails.n > 0 /\ fails.ttl]
  /\ Go(r, IF fails.n = 0 THEN "expire" ELSE IF fails.n + 1 >= MAX_LOGIN_ATTEMPTS THEN "lock" ELSE "idle")
  /\ UNCHANGED <<accountVars, session, index, locked, left, history>>

\* EXPIRE, for the first failure only.
expireCount(r) ==
  /\ At(r, "expire") /\ fails' = [fails EXCEPT !.ttl = TRUE]
  /\ Go(r, IF MAX_LOGIN_ATTEMPTS = 1 THEN "lock" ELSE "idle")
  /\ UNCHANGED <<accountVars, session, index, locked, left, history>>

\* The threshold: SET the lockout,
lockOut(r) ==
  /\ At(r, "lock") /\ locked' = TRUE /\ Go(r, "unlist")
  /\ UNCHANGED <<accountVars, session, index, fails, left, history>>

\* then DEL the counter, and with it what was counted since if a sign-in
\* that succeeded has lifted the lockout in between.
clearCount(r) ==
  /\ At(r, "unlist") /\ fails' = [n |-> 0, ttl |-> TRUE] /\ Finish(r)
  /\ guesses' = IF locked THEN guesses ELSE 0
  /\ UNCHANGED <<accountVars, session, index, locked, left, claimed, doomed, raised, minter, between>>

\* clearFailedAttempts: one DEL for the counter and the lockout.
clearFailedAttempts(r) ==
  /\ At(r, "clear") /\ fails' = [n |-> 0, ttl |-> TRUE] /\ locked' = FALSE /\ guesses' = 0
  /\ Go(r, "open")
  /\ UNCHANGED <<accountVars, session, index, left, claimed, doomed, raised, minter, between>>

\* createSession: SET EX; an account's session is then indexed.
createSession(r) ==
  /\ At(r, "open") /\ Opened # Sessions
  /\ LET s == CHOOSE n \in Sessions \ Opened : \A m \in Sessions \ Opened : n <= m IN
     /\ session' = [session EXCEPT ![s] =
                      [live |-> TRUE, forever |-> FALSE, who |-> req[r].who, owner |-> req[r].owner]]
     /\ req' = [req EXCEPT ![r] = IF @.who = Nobody THEN Idle ELSE [@ EXCEPT !.at = "index", !.ses = s]]
  /\ UNCHANGED <<accountVars, index, throttle, left, history>>

\* SADD and EXPIRE.
indexSession(r) ==
  /\ At(r, "index") /\ index' = [index EXCEPT ![req[r].who] = @ \cup {req[r].ses}] /\ Finish(r)
  /\ UNCHANGED <<accountVars, session, throttle, left, history>>

signIn(r) ==
  \/ login(r) \/ examine(r) \/ countFailure(r) \/ expireCount(r) \/ lockOut(r) \/ clearCount(r)
  \/ clearFailedAttempts(r) \/ createSession(r) \/ indexSession(r)

-----------------------------------------------------------------------------
(* The guard of every admin route (auth.middleware.ts, guard.ts).          *)

\* The sign-in that opened it has answered.
HandedOut(s) == ~\E r \in Requests : req[r].ses = s /\ At(r, "index")

\* resolveSession: GET; whether lastSeenAt is more than a minute old is left open.
resolveSession(r, s) ==
  /\ At(r, "idle") /\ session[s].live /\ HandedOut(s) /\ May("calls")
  /\ \E at \in {"refresh", "account"} : req' = [req EXCEPT ![r] = [Idle EXCEPT !.at = at, !.ses = s]]
  /\ UNCHANGED <<accountVars, session, index, throttle, history>>

\* SET KEEPTTL writes the session back; where it has gone meanwhile there is
\* no deadline to keep.
refreshLastSeen(r) ==
  /\ At(r, "refresh") /\ Go(r, "account")
  /\ LET s == req[r].ses IN
     /\ session' = [session EXCEPT ![s].live = TRUE, ![s].forever = @ \/ ~session[s].live]
     /\ raised' = IF session[s].live THEN raised ELSE raised \cup {s}
  /\ UNCHANGED <<accountVars, index, throttle, left, claimed, guesses, doomed, minter, between>>

\* Who is behind it: the role it carries, or the account as it is now.
resolveAccount(r) ==
  /\ At(r, "account")
  /\ LET who == session[req[r].ses].who IN
     req' = [req EXCEPT ![r] =
       IF who # Nobody /\ status[who] # "active" THEN Idle
       ELSE [@ EXCEPT !.at = "handle", !.who = who,
                      !.owner = IF who = Nobody THEN session[req[r].ses].owner ELSE who \in owner]]
  /\ UNCHANGED <<accountVars, session, index, throttle, left, history>>

\* An API token that is not revoked, or the raw password while nobody has
\* claimed the gateway, as bearer: nobody's account.
bearer(r) ==
  /\ At(r, "idle") /\ May("calls")
  /\ isUnclaimed \/ \E t \in Tokens : token[t].is = "live"
  /\ req' = [req EXCEPT ![r] = [Idle EXCEPT !.at = "handle", !.owner = TRUE]]
  /\ UNCHANGED <<accountVars, session, index, throttle, history>>

guard(r) ==
  (\E s \in Sessions : resolveSession(r, s)) \/ refreshLastSeen(r) \/ resolveAccount(r) \/ bearer(r)

-----------------------------------------------------------------------------
(* A person's own sessions.                                                *)

\* destroySession: a session that is still there is unlisted first,
logout(r) ==
  /\ At(r, "handle") /\ req[r].ses # 0
  /\ index' = IF session[req[r].ses].live THEN [u \in People |-> index[u] \ {req[r].ses}] ELSE index
  /\ Go(r, "destroy")
  /\ UNCHANGED <<accountVars, session, throttle, left, history>>

\* and deleted then.
destroySession(r) ==
  /\ At(r, "destroy") /\ Finish(r)
  /\ session' = [session EXCEPT ![req[r].ses].live = FALSE]
  /\ UNCHANGED <<accountVars, index, throttle, left, history>>

\* "Sign out everywhere else", and one session only: what is to go is listed.
revokeOtherSessions(r) ==
  /\ At(r, "handle") /\ req[r].who # Nobody
  /\ req' = [req EXCEPT ![r].at = "list", ![r].on = req[r].who]
  /\ UNCHANGED <<accountVars, session, index, throttle, left, history>>

revokeSessionById(r) ==
  /\ At(r, "handle") /\ req[r].who # Nobody
  /\ \E s \in index[req[r].who] :
       req' = [req EXCEPT ![r].at = "revoke", ![r].on = req[r].who, ![r].seen = {s}]
  /\ UNCHANGED <<accountVars, session, index, throttle, left, history>>

\* listSessions drops the members whose session is gone; the caller's own
\* session is spared when it signs out everywhere else.
listSessions(r) ==
  /\ At(r, "list") \/ At(r, "listToRemove")
  /\ LET live == {s \in index[req[r].on] : session[s].live} IN
     /\ index' = [index EXCEPT ![req[r].on] = live]
     /\ req' = [req EXCEPT ![r].at = IF At(r, "list") THEN "revoke" ELSE "revokeToRemove",
                           ![r].seen = IF req[r].who = req[r].on THEN live \ {req[r].ses} ELSE live]
  /\ UNCHANGED <<accountVars, session, throttle, left, history>>

\* Each one that is still in the index is deleted.
revokeSessions(r) ==
  /\ At(r, "revoke") \/ At(r, "revokeToRemove")
  /\ LET going == req[r].seen \cap index[req[r].on] IN
     /\ session' = [s \in Sessions |-> IF s \in going THEN [session[s] EXCEPT !.live = FALSE] ELSE session[s]]
     /\ index' = [index EXCEPT ![req[r].on] = @ \ going]
  /\ IF At(r, "revoke") THEN Finish(r) ELSE Go(r, "find")
  /\ UNCHANGED <<accountVars, throttle, left, history>>

ownSessions(r) ==
  \/ logout(r) \/ destroySession(r)
  \/ revokeOtherSessions(r) \/ revokeSessionById(r) \/ listSessions(r) \/ revokeSessions(r)

-----------------------------------------------------------------------------
(* People and tokens: owners only, and never one's own account.            *)

Exists(u)       == status[u] \in {"active", "suspended"}
assertNotLastOwner(u) == u \in ActiveOwners => Cardinality(ActiveOwners) > 1
Handles(r)      == At(r, "handle") /\ req[r].owner

\* PATCH: the row and the number of owners are read.
updateUser(r, u) ==
  /\ Handles(r) /\ u # req[r].who /\ Exists(u) /\ May("changes")
  /\ \E change \in {"demote", "promote", "suspend", "activate"} :
       /\ change \in {"demote", "suspend"} => assertNotLastOwner(u)
       /\ req' = [req EXCEPT ![r].at = change, ![r].on = u]
  /\ UNCHANGED <<accountVars, session, index, throttle, history>>

\* The suspended person's sessions are left to expire.
writeUserOnly(r) ==
  /\ req[r].at \in {"demote", "promote", "suspend", "activate"} /\ Exists(req[r].on) /\ Finish(r)
  /\ status' = [status EXCEPT ![req[r].on] = CASE At(r, "suspend") -> "suspended" [] At(r, "activate") -> "active" [] OTHER -> @]
  /\ doomed' = IF At(r, "suspend") THEN doomed \cup index[req[r].on] ELSE doomed
  /\ UNCHANGED <<owner, token, session, index, throttle, left, claimed, guesses, raised, minter, between>>

\* The row is written, whatever has become of the owners since, and a
\* suspended person's sessions are erased.
writeUser(r) ==
  /\ req[r].at \in {"demote", "promote", "suspend", "activate"}
  /\ LET u == req[r].on IN
     IF ~Exists(u) THEN Finish(r) /\ UNCHANGED <<status, owner, doomed>>
     ELSE /\ owner'  = CASE At(r, "demote") -> owner \ {u} [] At(r, "promote") -> owner \cup {u} [] OTHER -> owner
          /\ status' = CASE At(r, "suspend")  -> [status EXCEPT ![u] = "suspended"]
                         [] At(r, "activate") -> [status EXCEPT ![u] = "active"]
                         [] OTHER -> status
          /\ IF At(r, "suspend")
             THEN Go(r, "list") /\ doomed' = doomed \cup {s \in index[u] : session[s].live}
             ELSE Finish(r) /\ UNCHANGED doomed
  /\ UNCHANGED <<token, session, index, throttle, left, claimed, guesses, raised, minter, between>>

\* DELETE: the sessions first,
removeUser(r, u) ==
  /\ Handles(r) /\ u # req[r].who /\ May("changes")
  /\ req' = [req EXCEPT ![r].at = "listToRemove", ![r].on = u]
  /\ UNCHANGED <<accountVars, session, index, throttle, history>>

\* then the row and the number of owners are read,
findUser(r) ==
  /\ At(r, "find")
  /\ IF Exists(req[r].on) /\ assertNotLastOwner(req[r].on) THEN Go(r, "tokens") ELSE Finish(r)
  /\ UNCHANGED <<accountVars, session, index, throttle, left, history>>

\* The account goes first, and with it the tokens' createdById.
findTokensAfter(r) ==
  /\ At(r, "tokens") /\ req' = [req EXCEPT ![r].at = "delete", ![r].seen = {}]
  /\ UNCHANGED <<accountVars, session, index, throttle, left, history>>

\* and in a transaction their tokens are found
findTokens(r) ==
  /\ At(r, "tokens")
  /\ req' = [req EXCEPT ![r].at = "delete",
                        ![r].seen = {t \in Tokens : token[t].is = "live" /\ token[t].by = req[r].on}]
  /\ UNCHANGED <<accountVars, session, index, throttle, left, history>>

\* and revoked, and the account deleted; the other tokens of theirs become nobody's.
deleteUser(r) ==
  /\ At(r, "delete") /\ Finish(r)
  /\ LET u == req[r].on IN
     IF ~Exists(u) THEN UNCHANGED accountVars
     ELSE /\ status' = [status EXCEPT ![u] = "gone"] /\ owner' = owner \ {u}
          /\ token' = [t \in Tokens |-> [is |-> IF t \in req[r].seen THEN "revoked" ELSE token[t].is,
                                         by |-> IF token[t].by = u THEN Nobody ELSE token[t].by]]
  /\ UNCHANGED <<session, index, throttle, left, history>>

\* An account that is gone meanwhile fails the foreign key.
createAdminApiToken(r, t) ==
  /\ Handles(r) /\ token[t].is = "none" /\ May("changes") /\ Finish(r)
  /\ IF req[r].who # Nobody /\ ~Exists(req[r].who) THEN UNCHANGED <<token, minter, between>>
     ELSE /\ token' = [token EXCEPT ![t] = [is |-> "live", by |-> req[r].who]]
          /\ minter' = [minter EXCEPT ![t] = req[r].who]
          /\ between' = IF \E q \in Requests : At(q, "delete") /\ req[q].on = req[r].who
                        THEN between \cup {t} ELSE between
  /\ UNCHANGED <<status, owner, session, index, throttle, claimed, guesses, doomed, raised>>

revokeAdminApiToken(r, t) ==
  /\ Handles(r) /\ token[t].is = "live" /\ May("changes") /\ Finish(r)
  /\ token' = [token EXCEPT ![t].is = "revoked"]
  /\ UNCHANGED <<status, owner, session, index, throttle, history>>

people(r) ==
  \/ \E u \in People : updateUser(r, u) \/ removeUser(r, u)
  \/ writeUser(r) \/ findUser(r) \/ findTokens(r) \/ deleteUser(r)
  \/ \E t \in Tokens : createAdminApiToken(r, t) \/ revokeAdminApiToken(r, t)

-----------------------------------------------------------------------------
(* First run (firstRun.service.ts).                                        *)

\* POST /admin/setup/claim, with the password of the environment.
claimGateway(r) ==
  /\ At(r, "idle") /\ isUnclaimed /\ May("claims") /\ Go(r, "claim")
  /\ UNCHANGED <<accountVars, session, index, throttle, history>>

\* createUser, an owner with an address that has no account, signed in at once.
createOwner(r) ==
  /\ At(r, "claim")
  /\ \E u \in People :
       /\ status[u] = "none" /\ status' = [status EXCEPT ![u] = "active"] /\ owner' = owner \cup {u}
       /\ req' = [req EXCEPT ![r].at = "open", ![r].who = u]
  /\ claimed' = TRUE
  /\ UNCHANGED <<token, session, index, throttle, left, guesses, doomed, raised, minter, between>>

-----------------------------------------------------------------------------
(* Deadlines and failures.                                                 *)

Passing == UNCHANGED <<accountVars, req, left, claimed, doomed, raised, minter, between>>

expireSession(s) ==
  /\ session[s].live /\ ~session[s].forever /\ session' = [session EXCEPT ![s].live = FALSE]
  /\ UNCHANGED <<index, throttle, guesses>> /\ Passing

\* The index is renewed with each session, so it outlives those with a deadline.
expireIndex(u) ==
  /\ index[u] # {} /\ \A s \in index[u] : session[s].live => session[s].forever
  /\ index' = [index EXCEPT ![u] = {}] /\ UNCHANGED <<session, throttle, guesses>> /\ Passing

\* LOCKOUT_SECONDS, far longer than the two commands that lock out.
expireLock ==
  /\ locked /\ (\A r \in Requests : ~At(r, "unlist")) /\ locked' = FALSE /\ guesses' = 0
  /\ UNCHANGED <<session, index, fails>> /\ Passing

expireFails ==
  /\ fails.n > 0 /\ fails.ttl /\ fails' = [n |-> 0, ttl |-> TRUE] /\ guesses' = 0
  /\ UNCHANGED <<session, index, locked>> /\ Passing

\* The process dies, or a store throws, between two steps of a handler: the
\* caller has no answer, and a session that was not indexed yet was never
\* handed out.  A suspension or a sign-out that dies no longer erases anything.
crash(r) ==
  /\ ~At(r, "idle") /\ May("crashes") /\ Finish(r)
  /\ doomed' = {s \in doomed : session[s].who # req[r].on /\ ~(At(r, "destroy") /\ req[r].ses = s)}
  /\ guesses' = IF req[r].at \in {"count", "expire", "lock", "unlist"} /\ guesses > 0 THEN guesses - 1 ELSE guesses
  /\ session' = IF At(r, "index") THEN [session EXCEPT ![req[r].ses].live = FALSE] ELSE session
  /\ UNCHANGED <<accountVars, index, throttle, claimed, raised, minter, between>>

Next ==
  \/ \E r \in Requests : signIn(r) \/ guard(r) \/ ownSessions(r) \/ people(r) \/ claimGateway(r) \/ createOwner(r) \/ crash(r)
  \/ \E s \in Sessions : expireSession(s)
  \/ \E u \in People : expireIndex(u)
  \/ expireLock \/ expireFails

Spec == Init /\ [][Next]_vars

-----------------------------------------------------------------------------
(* Properties.                                                             *)

\* However many sign-ins overlap, a source has at most this many wrong
\* credentials examined before it is locked out (recordFailedAttempt: every
\* failure counts, and the counter goes only once the lockout stands).  The
\* slate is clean after a success, after a deadline, and after a counter
\* deleted late: behind a success that has lifted the lockout it was for.
LockoutHolds == guesses <= MAX_LOGIN_ATTEMPTS + Cardinality(Requests) - 1

\* A person who is removed leaves no working API token behind, but for one
\* minted while the removal was between its two statements
\* (adminUsers.service.ts: "Removing a person revokes the API tokens they created").
TokensGoWithPerson ==
  \A t \in Tokens : minter[t] # Nobody /\ status[minter[t]] = "gone" => token[t].is # "live" \/ t \in between

\* A session that a suspension was to erase does not come back when the
\* account is active again, unless a request that had read it before wrote
\* it back, or it is just being signed out (users.routes.ts: "never the resurrection of every session they
\* held before").
SuspensionErases ==
  \A s \in doomed :
    session[s].live /\ status[session[s].who] = "active" =>
      \/ s \in raised
      \/ \E r \in Requests : req[r].at \in {"list", "revoke"} /\ req[r].on = session[s].who
      \/ \E r \in Requests : At(r, "destroy") /\ req[r].ses = s

\* Once somebody owns the gateway, somebody does (adminUsers.service.ts: "The
\* last active owner cannot be removed, demoted, or suspended").
AlwaysAnOwner == claimed => ActiveOwners # {}

\* Every session has a deadline (adminAuth.service.ts: "activity must never
\* quietly extend a session's life").
SessionsEnd == \A s \in Sessions : session[s].live => ~session[s].forever

=============================================================================
