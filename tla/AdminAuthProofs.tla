-------------------------- MODULE AdminAuthProofs --------------------------
(***************************************************************************)
(* The invariants of the admin sign-in for any number of people, tokens,   *)
(* sessions and requests at once, and any threshold: the lockout, the      *)
(* tokens of a person who is removed and the sessions of one suspended.    *)
(***************************************************************************)
EXTENDS AdminAuth, SumProofs

-----------------------------------------------------------------------------
(* What the variables hold.                                                *)

Anyone == People \cup {Nobody}

\* The steps of a sign-in that has not been answered.
LoginAts == {"check", "count", "expire", "lock", "unlist"}

\* The steps that need nothing of the request's record.
PlainAts == {"idle", "clear", "open", "handle", "claim"}

ChangeAts == {"demote", "promote", "suspend", "activate"}
OnAts == ChangeAts \cup {"list", "listToRemove", "revoke", "revokeToRemove", "find", "tokens", "delete"}
SesAts == {"refresh", "account", "index", "destroy"}
Ats == LoginAts \cup PlainAts \cup OnAts \cup SesAts

Fields == [at : Ats, who : Anyone, owner : BOOLEAN, ses : 0..MaxSessions, on : Anyone,
           seen : SUBSET (Sessions \cup Tokens)]

\* A handler has read what its step is about; nobody changes their own account.
Placed(q) ==
  /\ q.at \in SesAts => q.ses \in Sessions
  /\ q.at \in OnAts => q.on \in People
  /\ q.at = "index" => q.who \in People
  /\ q.at \in ChangeAts => q.who # q.on

Req == {q \in Fields : Placed(q)}

SessionRow == [live : BOOLEAN, forever : BOOLEAN, who : Anyone, owner : BOOLEAN]

Types ==
  /\ req \in [Requests -> Req]
  /\ session \in [Sessions -> SessionRow]
  /\ index \in [People -> SUBSET Sessions]
  /\ status \in [People -> {"none", "active", "suspended", "gone"}]
  /\ token \in [Tokens -> [is : {"none", "live", "revoked"}, by : Anyone]]
  /\ minter \in [Tokens -> Anyone]
  /\ fails \in [n : Nat, ttl : BOOLEAN] /\ locked \in BOOLEAN /\ guesses \in Nat
  /\ doomed \subseteq Sessions

\* One request moves on, the others stay where they are.
Moved(r) == req' \in [Requests -> Req] /\ \A q \in Requests \ {r} : req'[q] = req[q]

LEMMA MovedTo ==
  ASSUME Types, NEW r \in Requests, NEW j \in Req, req' = [req EXCEPT ![r] = j]
  PROVE  Moved(r) /\ req'[r] = j
  BY DEF Types, Moved

LEMMA IdleReq == Idle \in Req
  BY AdminConstants DEF Idle, Req, Fields, Placed, Ats, PlainAts, LoginAts, OnAts, SesAts, ChangeAts, Anyone

LEMMA FinishMoves ==
  ASSUME Types, NEW r \in Requests, Finish(r)
  PROVE  Moved(r) /\ req'[r] = Idle
  BY MovedTo, IdleReq DEF Finish

\* A step that needs nothing, or nothing that was not there before.
LEMMA GoMoves ==
  ASSUME Types, NEW r \in Requests, NEW at \in Ats, Go(r, at),
         at \in SesAts => req[r].ses \in Sessions,
         at \in OnAts => req[r].on \in People,
         at # "index", at \notin ChangeAts
  PROVE  Moved(r) /\ req'[r] = [req[r] EXCEPT !.at = at]
<1>1. req[r] \in Req /\ req[r] \in Fields
  BY DEF Types, Req
<1>2. [req[r] EXCEPT !.at = at] \in Fields
  BY <1>1 DEF Fields
<1>3. Placed([req[r] EXCEPT !.at = at])
  BY <1>1 DEF Placed, Fields
<1>4. [req[r] EXCEPT !.at = at] \in Req
  BY <1>2, <1>3 DEF Req
<1> QED
  BY <1>4, MovedTo DEF Go

LEMMA LeastSession ==
  ASSUME Opened # Sessions
  PROVE  (CHOOSE n \in Sessions \ Opened : \A m \in Sessions \ Opened : n <= m) \in Sessions \ Opened
<1>1. Sessions \ Opened \subseteq Nat /\ Sessions \ Opened # {}
  BY AdminConstants DEF Opened, Sessions
<1>2. \E n \in Sessions \ Opened : \A m \in Sessions \ Opened : n <= m
  BY <1>1, LeastNat
<1> QED
  BY <1>2

-----------------------------------------------------------------------------
(* Each handler moves one request.                                         *)

LEMMA SignInMoves ==
  ASSUME Types, NEW r \in Requests, signIn(r) PROVE Moved(r)
<1> USE DEF LoginAts, PlainAts, OnAts, ChangeAts, SesAts, Ats
<1>0. req[r] \in Req /\ req[r] \in Fields /\ req[r].who \in Anyone
  BY DEF Types, Req, Fields
<1>1. CASE login(r)
  BY <1>1, GoMoves DEF login
<1>2. CASE examine(r)
  <2>1. ASSUME NEW u \in Anyone, LetIn(r, u, TRUE) \/ LetIn(r, u, FALSE) PROVE Moved(r)
    <3>1. Idle \in Fields
      BY IdleReq DEF Req
    <3>2. \A o \in BOOLEAN : [Idle EXCEPT !.at = "clear", !.who = u, !.owner = o] \in Fields
      BY <3>1 DEF Fields
    <3>3. \A o \in BOOLEAN : Placed([Idle EXCEPT !.at = "clear", !.who = u, !.owner = o])
      BY <3>1 DEF Placed, Fields
    <3>4. \A o \in BOOLEAN : [Idle EXCEPT !.at = "clear", !.who = u, !.owner = o] \in Req
      BY <3>2, <3>3 DEF Req
    <3> QED
      BY <2>1, <3>4, MovedTo DEF LetIn
  <2>2. CASE Wrong(r)
    BY <2>2, GoMoves DEF Wrong
  <2> QED
    BY <1>2, <2>1, <2>2 DEF examine, Anyone
<1>3. CASE countFailure(r)
  <2>1. \E at \in {"expire", "lock", "idle"} : Go(r, at)
    BY <1>3 DEF countFailure
  <2> QED
    BY <2>1, GoMoves
<1>4. CASE expireCount(r)
  <2>1. \E at \in {"lock", "idle"} : Go(r, at)
    BY <1>4 DEF expireCount
  <2> QED
    BY <2>1, GoMoves
<1>5. CASE lockOut(r)
  BY <1>5, GoMoves DEF lockOut
<1>6. CASE clearCount(r)
  BY <1>6, FinishMoves DEF clearCount
<1>7. CASE clearFailedAttempts(r)
  BY <1>7, GoMoves DEF clearFailedAttempts
<1>8. CASE createSession(r)
  <2>1. PICK s : s = CHOOSE n \in Sessions \ Opened : \A m \in Sessions \ Opened : n <= m
    OBVIOUS
  <2>2. s \in Sessions /\ s \in 0..MaxSessions
    BY <1>8, <2>1, LeastSession, AdminConstants DEF createSession, Sessions
  <2>3. CASE req[r].who = Nobody
    BY <1>8, <2>1, <2>3, FinishMoves DEF createSession, Finish
  <2>4. CASE req[r].who # Nobody
    <3>1. req' = [req EXCEPT ![r] = [req[r] EXCEPT !.at = "index", !.ses = s]]
      BY <1>8, <2>1, <2>4 DEF createSession
    <3>2. [req[r] EXCEPT !.at = "index", !.ses = s] \in Fields
      BY <1>0, <2>2 DEF Fields
    <3>3. Placed([req[r] EXCEPT !.at = "index", !.ses = s])
      BY <1>0, <2>2, <2>4 DEF Placed, Fields, Anyone
    <3> QED
      BY <3>1, <3>2, <3>3, MovedTo DEF Req
  <2> QED
    BY <2>3, <2>4
<1>9. CASE indexSession(r)
  BY <1>9, FinishMoves DEF indexSession
<1> QED
  BY <1>1, <1>2, <1>3, <1>4, <1>5, <1>6, <1>7, <1>8, <1>9 DEF signIn

\* It was not in the midst of a sign-in, and is not.
Elsewhere(r) == Moved(r) /\ req[r].at \notin LoginAts /\ req'[r].at \notin LoginAts

LEMMA GuardMoves ==
  ASSUME Types, NEW r \in Requests, guard(r) PROVE Elsewhere(r)
<1> USE DEF Elsewhere, LoginAts, PlainAts, OnAts, ChangeAts, SesAts, Ats
<1>0. /\ req[r] \in Req /\ req[r] \in Fields /\ Placed(req[r]) /\ Idle \in Fields
      /\ Idle.at = "idle" /\ Sessions \subseteq 0..MaxSessions
  BY IdleReq, AdminConstants DEF Types, Req, Idle, Sessions
<1>1. ASSUME NEW s \in Sessions, resolveSession(r, s)
      PROVE  Elsewhere(r)
  <2>1. PICK at \in {"refresh", "account"} : req' = [req EXCEPT ![r] = [Idle EXCEPT !.at = at, !.ses = s]]
    BY <1>1 DEF resolveSession
  <2>2. [Idle EXCEPT !.at = at, !.ses = s] \in Fields
    BY <1>0 DEF Fields
  <2>3. Placed([Idle EXCEPT !.at = at, !.ses = s]) /\ [Idle EXCEPT !.at = at, !.ses = s].at = at
    BY <1>0 DEF Placed, Fields
  <2> QED
    BY <1>1, <2>1, <2>2, <2>3, MovedTo DEF Req, resolveSession, At
<1>2. CASE refreshLastSeen(r)
  <2>1. At(r, "refresh") /\ Go(r, "account") /\ req[r].ses \in Sessions
    BY <1>2, <1>0 DEF refreshLastSeen, At, Placed
  <2>2. [req[r] EXCEPT !.at = "account"].at = "account"
    BY <1>0 DEF Fields
  <2> QED
    BY <2>1, <2>2, GoMoves DEF At
<1>3. CASE resolveAccount(r)
  <2>1. At(r, "account")
    BY <1>3 DEF resolveAccount
  <2>2. PICK who : who = session[req[r].ses].who
    OBVIOUS
  <2>3. CASE req' = [req EXCEPT ![r] = Idle]
    BY <2>1, <2>3, <1>0, FinishMoves DEF Finish, At
  <2>4. CASE req' # [req EXCEPT ![r] = Idle]
    <3>1. who \in Anyone /\ session[req[r].ses].owner \in BOOLEAN
      BY <2>1, <2>2, <1>0 DEF Types, SessionRow, At, Placed
    <3>a. PICK o : o = IF who = Nobody THEN session[req[r].ses].owner ELSE who \in owner
      OBVIOUS
    <3>b. o \in BOOLEAN
      <4>1. CASE who = Nobody
        BY <3>a, <3>1, <4>1
      <4>2. CASE who # Nobody
        BY <3>a, <4>2
      <4> QED
        BY <4>1, <4>2
    <3>2. req' = [req EXCEPT ![r] = [req[r] EXCEPT !.at = "handle", !.who = who, !.owner = o]]
      <4>1. CASE who # Nobody /\ status[who] # "active"
        BY <1>3, <2>2, <2>4, <4>1 DEF resolveAccount
      <4>2. CASE ~(who # Nobody /\ status[who] # "active")
        BY <1>3, <2>2, <4>2, <3>a DEF resolveAccount
      <4> QED
        BY <4>1, <4>2
    <3>3. [req[r] EXCEPT !.at = "handle", !.who = who, !.owner = o] \in Fields
      BY <1>0, <3>1, <3>b DEF Fields
    <3>4. /\ Placed([req[r] EXCEPT !.at = "handle", !.who = who, !.owner = o])
          /\ [req[r] EXCEPT !.at = "handle", !.who = who, !.owner = o].at = "handle"
      BY <1>0 DEF Placed, Fields
    <3> QED
      BY <2>1, <3>2, <3>3, <3>4, MovedTo DEF Req, At
  <2> QED
    BY <2>3, <2>4
<1>4. CASE bearer(r)
  <2>1. [Idle EXCEPT !.at = "handle", !.owner = TRUE] \in Fields
    BY <1>0 DEF Fields
  <2>2. /\ Placed([Idle EXCEPT !.at = "handle", !.owner = TRUE])
        /\ [Idle EXCEPT !.at = "handle", !.owner = TRUE].at = "handle"
    BY <1>0 DEF Placed, Fields
  <2> QED
    BY <1>4, <2>1, <2>2, MovedTo DEF Req, bearer, At
<1> QED
  BY <1>1, <1>2, <1>3, <1>4 DEF guard

LEMMA OwnSessionsMoves ==
  ASSUME Types, NEW r \in Requests, ownSessions(r) PROVE Elsewhere(r)
<1> USE DEF Elsewhere, LoginAts, PlainAts, OnAts, ChangeAts, SesAts, Ats
<1>0. /\ req[r] \in Req /\ req[r] \in Fields /\ Placed(req[r]) /\ Idle.at = "idle"
      /\ req[r].who \in Anyone /\ req[r].seen \in SUBSET (Sessions \cup Tokens)
  BY DEF Types, Req, Fields, Idle
<1>1. CASE logout(r)
  <2>1. req[r].at = "handle" /\ req[r].ses \in Sessions /\ Go(r, "destroy")
    BY <1>0, <1>1, AdminConstants DEF logout, At, Fields, Sessions
  <2>2. [req[r] EXCEPT !.at = "destroy"].at = "destroy"
    BY <1>0 DEF Fields
  <2> QED
    BY <2>1, <2>2, GoMoves
<1>6. CASE destroySession(r)
  BY <1>6, <1>0, FinishMoves DEF destroySession, At
<1>2. CASE revokeOtherSessions(r)
  <2> DEFINE j == [req[r] EXCEPT !.at = "list", !.on = req[r].who]
  <2>1. req[r].who \in People /\ req[r].at = "handle" /\ req' = [req EXCEPT ![r] = j]
    BY <1>0, <1>2 DEF revokeOtherSessions, At, Anyone
  <2>2. j \in Fields /\ j.at = "list" /\ Placed(j)
    BY <1>0, <2>1 DEF Fields, Placed
  <2> QED
    BY <2>1, <2>2, MovedTo DEF Req
<1>3. CASE revokeSessionById(r)
  <2>1. req[r].who \in People /\ req[r].at = "handle"
    BY <1>0, <1>3 DEF revokeSessionById, At, Anyone
  <2>2. PICK s \in index[req[r].who] :
          req' = [req EXCEPT ![r].at = "revoke", ![r].on = req[r].who, ![r].seen = {s}]
    BY <1>3 DEF revokeSessionById
  <2> DEFINE j == [req[r] EXCEPT !.at = "revoke", !.on = req[r].who, !.seen = {s}]
  <2>3. s \in Sessions /\ req' = [req EXCEPT ![r] = j]
    BY <2>1, <2>2 DEF Types
  <2>4. j \in Fields /\ j.at = "revoke" /\ Placed(j)
    BY <1>0, <2>1, <2>3 DEF Fields, Placed
  <2> QED
    BY <2>1, <2>3, <2>4, MovedTo DEF Req
<1>4. CASE listSessions(r)
  <2>1. PICK live : live = {s \in index[req[r].on] : session[s].live}
    OBVIOUS
  <2>2. req[r].at \in {"list", "listToRemove"} /\ req[r].on \in People /\ live \subseteq Sessions
    BY <1>0, <1>4, <2>1 DEF listSessions, At, Types, Placed
  <2>3. PICK at : at = IF At(r, "list") THEN "revoke" ELSE "revokeToRemove"
    OBVIOUS
  <2>4. PICK seen : seen = IF req[r].who = req[r].on THEN live \ {req[r].ses} ELSE live
    OBVIOUS
  <2> DEFINE j == [req[r] EXCEPT !.at = at, !.seen = seen]
  <2>5. req' = [req EXCEPT ![r] = j]
    BY <1>4, <2>1, <2>3, <2>4 DEF listSessions
  <2>6. at \in {"revoke", "revokeToRemove"} /\ seen \in SUBSET Sessions
    BY <2>2, <2>3, <2>4
  <2>7. j \in Fields /\ j.at = at /\ Placed(j)
    BY <1>0, <2>2, <2>6 DEF Fields, Placed
  <2> QED
    BY <2>2, <2>5, <2>6, <2>7, MovedTo DEF Req
<1>5. CASE revokeSessions(r)
  <2>1. req[r].at \in {"revoke", "revokeToRemove"} /\ req[r].on \in People
    BY <1>0, <1>5 DEF revokeSessions, At, Placed
  <2>2. CASE Finish(r)
    BY <1>0, <2>1, <2>2, FinishMoves
  <2>3. CASE Go(r, "find")
    <3>1. [req[r] EXCEPT !.at = "find"].at = "find"
      BY <1>0 DEF Fields
    <3> QED
      BY <2>1, <2>3, <3>1, GoMoves
  <2> QED
    BY <1>5, <2>2, <2>3 DEF revokeSessions
<1> QED
  BY <1>1, <1>2, <1>3, <1>4, <1>5, <1>6 DEF ownSessions

LEMMA PeopleMoves ==
  ASSUME Types, NEW r \in Requests, people(r) \/ claimGateway(r) \/ createOwner(r) PROVE Elsewhere(r)
<1> USE DEF Elsewhere, LoginAts, PlainAts, OnAts, ChangeAts, SesAts, Ats
<1>0. /\ req[r] \in Req /\ req[r] \in Fields /\ Placed(req[r]) /\ Idle.at = "idle"
      /\ req[r].who \in Anyone
  BY DEF Types, Req, Fields, Idle
<1>1. ASSUME NEW u \in People, updateUser(r, u) PROVE Elsewhere(r)
  <2>1. PICK change \in ChangeAts : req' = [req EXCEPT ![r].at = change, ![r].on = u]
    BY <1>1 DEF updateUser
  <2> DEFINE j == [req[r] EXCEPT !.at = change, !.on = u]
  <2>2. req' = [req EXCEPT ![r] = j] /\ req[r].at = "handle" /\ u # req[r].who
    BY <1>1, <2>1 DEF updateUser, Handles, At
  <2>3. j \in Fields /\ j.at = change /\ Placed(j)
    BY <1>0, <2>2 DEF Fields, Placed, Anyone
  <2> QED
    BY <2>2, <2>3, MovedTo DEF Req
<1>2. ASSUME NEW u \in People, removeUser(r, u) PROVE Elsewhere(r)
  <2> DEFINE j == [req[r] EXCEPT !.at = "listToRemove", !.on = u]
  <2>1. req' = [req EXCEPT ![r] = j] /\ req[r].at = "handle"
    BY <1>2 DEF removeUser, Handles, At
  <2>2. j \in Fields /\ j.at = "listToRemove" /\ Placed(j)
    BY <1>0 DEF Fields, Placed, Anyone
  <2> QED
    BY <2>1, <2>2, MovedTo DEF Req
<1>3. CASE writeUser(r)
  <2>1. req[r].at \in ChangeAts /\ req[r].on \in People
    BY <1>0, <1>3 DEF writeUser, Placed
  <2>2. CASE Finish(r)
    BY <1>0, <2>1, <2>2, FinishMoves
  <2>3. CASE Go(r, "list")
    <3>1. [req[r] EXCEPT !.at = "list"].at = "list"
      BY <1>0 DEF Fields
    <3> QED
      BY <2>1, <2>3, <3>1, GoMoves
  <2> QED
    BY <1>3, <2>2, <2>3 DEF writeUser
<1>4. CASE findUser(r)
  <2>1. req[r].at = "find" /\ req[r].on \in People
    BY <1>0, <1>4 DEF findUser, Placed, At
  <2>2. CASE Finish(r)
    BY <1>0, <2>1, <2>2, FinishMoves
  <2>3. CASE Go(r, "tokens")
    <3>1. [req[r] EXCEPT !.at = "tokens"].at = "tokens"
      BY <1>0 DEF Fields
    <3> QED
      BY <2>1, <2>3, <3>1, GoMoves
  <2> QED
    BY <1>4, <2>2, <2>3 DEF findUser
<1>5. CASE findTokens(r)
  <2>1. PICK seen : seen = {t \in Tokens : token[t].is = "live" /\ token[t].by = req[r].on}
    OBVIOUS
  <2> DEFINE j == [req[r] EXCEPT !.at = "delete", !.seen = seen]
  <2>2. req' = [req EXCEPT ![r] = j] /\ req[r].at = "tokens" /\ seen \in SUBSET Tokens
    BY <1>5, <2>1 DEF findTokens, At
  <2>3. j \in Fields /\ j.at = "delete" /\ Placed(j)
    BY <1>0, <2>2 DEF Fields, Placed
  <2> QED
    BY <2>2, <2>3, MovedTo DEF Req
<1>6. CASE deleteUser(r)
  BY <1>6, <1>0, FinishMoves DEF deleteUser, At
<1>7. ASSUME NEW t \in Tokens, createAdminApiToken(r, t) \/ revokeAdminApiToken(r, t) PROVE Elsewhere(r)
  BY <1>7, <1>0, FinishMoves DEF createAdminApiToken, revokeAdminApiToken, Handles, At
<1>8. CASE claimGateway(r)
  <2>1. [req[r] EXCEPT !.at = "claim"].at = "claim"
    BY <1>0 DEF Fields
  <2> QED
    BY <1>8, <2>1, GoMoves DEF claimGateway, At
<1>9. CASE createOwner(r)
  <2>1. PICK u \in People : req' = [req EXCEPT ![r].at = "open", ![r].who = u]
    BY <1>9 DEF createOwner
  <2> DEFINE j == [req[r] EXCEPT !.at = "open", !.who = u]
  <2>2. req' = [req EXCEPT ![r] = j] /\ req[r].at = "claim"
    BY <1>9, <2>1 DEF createOwner, At
  <2>3. j \in Fields /\ j.at = "open" /\ Placed(j)
    BY <1>0 DEF Fields, Placed, Anyone
  <2> QED
    BY <2>2, <2>3, MovedTo DEF Req
<1> QED
  BY <1>1, <1>2, <1>3, <1>4, <1>5, <1>6, <1>7, <1>8, <1>9 DEF people

\* What the tables and the store hold, whoever is being served.
Stored ==
  /\ session \in [Sessions -> SessionRow]
  /\ index \in [People -> SUBSET Sessions]
  /\ status \in [People -> {"none", "active", "suspended", "gone"}]
  /\ token \in [Tokens -> [is : {"none", "live", "revoked"}, by : Anyone]]
  /\ minter \in [Tokens -> Anyone]
  /\ fails \in [n : Nat, ttl : BOOLEAN] /\ locked \in BOOLEAN /\ guesses \in Nat
  /\ doomed \subseteq Sessions

LEMMA StoredStep == Types /\ [Next]_vars => Stored'
<1> SUFFICES ASSUME Types, [Next]_vars PROVE Stored'
  OBVIOUS
<1> USE DEF accountVars, throttle, history
<1>0. Stored /\ \A r \in Requests : req[r] \in Fields /\ Placed(req[r])
  BY DEF Types, Stored, Req
<1>a. ASSUME NEW r \in Requests
      PROVE  /\ req[r].at \in SesAts => req[r].ses \in Sessions
             /\ req[r].at \in OnAts => req[r].on \in People
             /\ req[r].at = "index" => req[r].who \in People
             /\ req[r].who \in Anyone /\ req[r].owner \in BOOLEAN
  BY <1>0 DEF Placed, Fields
<1>1. CASE UNCHANGED <<session, index, status, token, minter, fails, locked, guesses, doomed>>
  BY <1>0, <1>1 DEF Stored
<1>2. ASSUME NEW r \in Requests, signIn(r) PROVE Stored'
  <2>1. login(r) => Stored'
    BY <1>1 DEF login
  <2>2. ASSUME examine(r) PROVE Stored'
    <3>1. UNCHANGED <<session, index, status, token, minter, fails, locked, doomed>>
      BY <2>2 DEF examine
    <3>2. guesses' = guesses \/ guesses' = guesses + 1
      BY <2>2 DEF examine, Wrong
    <3> QED
      BY <1>0, <3>1, <3>2 DEF Stored
  <2>3. countFailure(r) => Stored'
    BY <1>0 DEF Stored, countFailure
  <2>4. expireCount(r) => Stored'
    BY <1>0 DEF Stored, expireCount
  <2>5. lockOut(r) => Stored'
    BY <1>0 DEF Stored, lockOut
  <2>6. clearCount(r) => Stored'
    BY <1>0 DEF Stored, clearCount
  <2>7. ASSUME clearFailedAttempts(r) PROVE Stored'
    <3>1. UNCHANGED <<session, index, status, token, minter, doomed>>
      BY <2>7 DEF clearFailedAttempts
    <3>2. fails' = [n |-> 0, ttl |-> TRUE] /\ locked' = FALSE /\ guesses' = 0
      BY <2>7 DEF clearFailedAttempts
    <3> QED
      BY <1>0, <3>1, <3>2 DEF Stored
  <2>8. ASSUME createSession(r) PROVE Stored'
    <3>1. UNCHANGED <<index, status, token, minter, fails, locked, guesses, doomed>>
      BY <2>8 DEF createSession
    <3>2. PICK s : s = CHOOSE n \in Sessions \ Opened : \A m \in Sessions \ Opened : n <= m
      OBVIOUS
    <3>3. session' = [session EXCEPT ![s] = [live |-> TRUE, forever |-> FALSE, who |-> req[r].who, owner |-> req[r].owner]]
      BY <2>8, <3>2 DEF createSession
    <3>4. [live |-> TRUE, forever |-> FALSE, who |-> req[r].who, owner |-> req[r].owner] \in SessionRow
      BY <1>a DEF SessionRow
    <3> QED
      BY <1>0, <3>1, <3>3, <3>4 DEF Stored
  <2>9. indexSession(r) => Stored'
    BY <1>0, <1>a DEF Stored, indexSession, At, SesAts
  <2> QED
    BY <1>2, <2>1, <2>2, <2>3, <2>4, <2>5, <2>6, <2>7, <2>8, <2>9 DEF signIn
<1>3. ASSUME NEW r \in Requests, guard(r) PROVE Stored'
  <2>1. CASE refreshLastSeen(r)
    <3>1. UNCHANGED <<index, status, token, minter, fails, locked, guesses, doomed>> /\ req[r].ses \in Sessions
      BY <1>a, <2>1 DEF refreshLastSeen, At, SesAts
    <3>2. PICK f \in BOOLEAN : session' = [session EXCEPT ![req[r].ses] = [session[req[r].ses] EXCEPT !.live = TRUE, !.forever = f]]
      <4>1. session[req[r].ses] \in SessionRow
        BY <1>0, <3>1 DEF Stored
      <4>2. (session[req[r].ses].forever \/ ~session[req[r].ses].live) \in BOOLEAN
        BY <4>1 DEF SessionRow
      <4> QED
        BY <2>1, <4>2 DEF refreshLastSeen
    <3>3. [session[req[r].ses] EXCEPT !.live = TRUE, !.forever = f] \in SessionRow
      <4>1. \A row \in SessionRow : [row EXCEPT !.live = TRUE, !.forever = f] \in SessionRow
        BY DEF SessionRow
      <4>2. session[req[r].ses] \in SessionRow
        BY <1>0, <3>1 DEF Stored
      <4> QED
        BY <4>1, <4>2
    <3> QED
      BY <1>0, <3>1, <3>2, <3>3 DEF Stored
  <2> QED
    BY <1>3, <1>1, <2>1 DEF guard, resolveSession, resolveAccount, bearer
<1>4. ASSUME NEW r \in Requests, ownSessions(r) PROVE Stored'
  <2>1. CASE logout(r)
    <3>1. index' \in [People -> SUBSET Sessions]
      BY <1>0, <2>1 DEF Stored, logout
    <3> QED
      BY <1>0, <2>1, <3>1 DEF Stored, logout
  <2>4. CASE destroySession(r)
    <3>1. session' \in [Sessions -> SessionRow]
      BY <1>0, <2>4 DEF Stored, destroySession, SessionRow
    <3> QED
      BY <1>0, <2>4, <3>1 DEF Stored, destroySession
  <2>2. CASE listSessions(r)
    BY <1>0, <1>a, <2>2 DEF Stored, listSessions, At, OnAts
  <2>3. CASE revokeSessions(r)
    <3>1. session' \in [Sessions -> SessionRow]
      BY <1>0, <2>3 DEF Stored, revokeSessions, SessionRow
    <3>2. index' \in [People -> SUBSET Sessions]
      BY <1>0, <2>3 DEF Stored, revokeSessions
    <3> QED
      BY <1>0, <2>3, <3>1, <3>2 DEF Stored, revokeSessions
  <2> QED
    BY <1>4, <1>1, <2>1, <2>2, <2>3, <2>4 DEF ownSessions, revokeOtherSessions, revokeSessionById
<1>5. ASSUME NEW r \in Requests, people(r) PROVE Stored'
  <2>1. CASE writeUser(r)
    <3>1. req[r].on \in People /\ index[req[r].on] \subseteq Sessions
      BY <1>0, <1>a, <2>1 DEF writeUser, OnAts, ChangeAts, Stored
    <3>2. status' \in [People -> {"none", "active", "suspended", "gone"}]
      BY <1>0, <2>1 DEF Stored, writeUser
    <3>3. doomed' \subseteq Sessions
      BY <1>0, <2>1, <3>1 DEF Stored, writeUser
    <3> QED
      BY <1>0, <2>1, <3>2, <3>3 DEF Stored, writeUser
  <2>2. CASE deleteUser(r)
    <3>1. token' \in [Tokens -> [is : {"none", "live", "revoked"}, by : Anyone]]
      BY <1>0, <2>2 DEF Stored, deleteUser, Anyone
    <3>2. status' \in [People -> {"none", "active", "suspended", "gone"}]
      BY <1>0, <2>2 DEF Stored, deleteUser
    <3> QED
      BY <1>0, <2>2, <3>1, <3>2 DEF Stored, deleteUser
  <2>3. ASSUME NEW t \in Tokens, createAdminApiToken(r, t) PROVE Stored'
    BY <1>0, <1>a, <2>3 DEF Stored, createAdminApiToken
  <2>4. ASSUME NEW t \in Tokens, revokeAdminApiToken(r, t) PROVE Stored'
    BY <1>0, <2>4 DEF Stored, revokeAdminApiToken
  <2>5. ASSUME NEW u \in People, updateUser(r, u) \/ removeUser(r, u) PROVE Stored'
    BY <1>1, <2>5 DEF updateUser, removeUser
  <2>6. CASE findUser(r) \/ findTokens(r)
    BY <1>1, <2>6 DEF findUser, findTokens
  <2> QED
    BY <1>5, <2>1, <2>2, <2>3, <2>4, <2>5, <2>6 DEF people
<1>6. ASSUME NEW r \in Requests, claimGateway(r) PROVE Stored'
  BY <1>1, <1>6 DEF claimGateway
<1>7. ASSUME NEW r \in Requests, createOwner(r) PROVE Stored'
  BY <1>0, <1>7 DEF Stored, createOwner
<1>8. ASSUME NEW r \in Requests, crash(r) PROVE Stored'
  <2>1. session' \in [Sessions -> SessionRow]
    <3>1. session' = session \/ session' = [session EXCEPT ![req[r].ses].live = FALSE]
      BY <1>8 DEF crash
    <3>2. session \in [Sessions -> SessionRow]
      BY <1>0 DEF Stored
    <3>3. ASSUME NEW s \in Sessions PROVE [session[s] EXCEPT !.live = FALSE] \in SessionRow
      BY <3>2, <3>3 DEF SessionRow
    <3> QED
      BY <3>1, <3>2, <3>3
  <2>2. guesses' \in Nat
    BY <1>0, <1>8 DEF Stored, crash
  <2> QED
    BY <1>0, <1>8, <2>1, <2>2 DEF Stored, crash
<1>9. ASSUME NEW s \in Sessions, expireSession(s) PROVE Stored'
  BY <1>0, <1>9 DEF Stored, expireSession, Passing, SessionRow
<1>10. ASSUME NEW u \in People, expireIndex(u) PROVE Stored'
  BY <1>0, <1>10 DEF Stored, expireIndex, Passing
<1>11. CASE expireLock
  BY <1>0, <1>11 DEF Stored, expireLock, Passing
<1>12. CASE expireFails
  BY <1>0, <1>12 DEF Stored, expireFails, Passing
<1>13. CASE UNCHANGED vars
  BY <1>1, <1>13 DEF vars
<1> QED
  BY <1>2, <1>3, <1>4, <1>5, <1>6, <1>7, <1>8, <1>9, <1>10, <1>11, <1>12, <1>13 DEF Next

LEMMA TypeStep == Types /\ [Next]_vars => Types'
<1> SUFFICES ASSUME Types, [Next]_vars PROVE req' \in [Requests -> Req]
  BY StoredStep DEF Types, Stored
<1>1. ASSUME NEW r \in Requests,
             signIn(r) \/ guard(r) \/ ownSessions(r) \/ people(r) \/ claimGateway(r) \/ createOwner(r) \/ crash(r)
      PROVE  Moved(r)
  BY <1>1, SignInMoves, GuardMoves, OwnSessionsMoves, PeopleMoves, FinishMoves DEF Elsewhere, crash
<1>2. ASSUME NEW s \in Sessions, expireSession(s) PROVE UNCHANGED req
  BY <1>2 DEF expireSession, Passing
<1>3. ASSUME NEW u \in People, expireIndex(u) PROVE UNCHANGED req
  BY <1>3 DEF expireIndex, Passing
<1>4. expireLock \/ expireFails \/ UNCHANGED vars => UNCHANGED req
  BY DEF expireLock, expireFails, Passing, vars
<1> QED
  BY <1>1, <1>2, <1>3, <1>4 DEF Next, Moved, Types

-----------------------------------------------------------------------------
(* The lockout.                                                            *)

\* How many requests are at one of these steps.
Num(ats) == Cardinality({r \in Requests : req[r].at \in ats})

In(at, ats) == IF at \in ats THEN 1 ELSE 0

\* A wrong credential whose request has not finished, or which has not been
\* below the threshold when it was counted.
Guilty == IF MAX_LOGIN_ATTEMPTS = 1 THEN {"count", "expire", "lock", "unlist"} ELSE {"count", "lock", "unlist"}

\* While the source is not locked out, every wrong credential is counted or
\* about to be, and all but MAX_LOGIN_ATTEMPTS - 1 belong to requests that
\* are about to lock it out; once it is, only those already let past the
\* lockout's check can add to them.
LockInv ==
  /\ ~locked => /\ guesses <= fails.n + Num({"count"})
                /\ guesses <= MAX_LOGIN_ATTEMPTS - 1 + Num(Guilty)
  /\ locked => guesses + Num({"check"}) <= MAX_LOGIN_ATTEMPTS - 1 + Cardinality(Requests)

LEMMA NumNat == \A ats : Num(ats) \in Nat /\ Num(ats)' \in Nat
  BY FS_Subset, FS_CardinalityType, AdminConstants DEF Num

LEMMA NumMoved ==
  ASSUME NEW r \in Requests, Moved(r), NEW ats
  PROVE  /\ Num(ats) \in Nat
         /\ Num(ats)' = (Num(ats) - In(req[r].at, ats)) + In(req'[r].at, ats)
<1> DEFINE rest == {q \in Requests \ {r} : req[q].at \in ats}
           old == {q \in Requests : req[q].at \in ats}
           new == {q \in Requests : req'[q].at \in ats}
<1>1. IsFiniteSet(rest) /\ r \notin rest /\ Cardinality(rest) \in Nat
  BY FS_Subset, FS_CardinalityType, AdminConstants
<1>2. IsFiniteSet(rest \cup {r}) /\ Cardinality(rest \cup {r}) = Cardinality(rest) + 1
  BY <1>1, FS_AddElement
<1>3. Cardinality(old) = Cardinality(rest) + In(req[r].at, ats)
  <2>1. CASE req[r].at \in ats
    <3>1. old = rest \cup {r}
      BY <2>1
    <3> QED
      BY <3>1, <2>1, <1>2 DEF In
  <2>2. CASE req[r].at \notin ats
    <3>1. old = rest
      BY <2>2
    <3>2. In(req[r].at, ats) = 0
      BY <2>2 DEF In
    <3> HIDE DEF rest, old, new
    <3> QED
      BY <3>1, <3>2, <1>1
  <2> QED
    BY <2>1, <2>2
<1>4. Cardinality(new) = Cardinality(rest) + In(req'[r].at, ats)
  <2>1. CASE req'[r].at \in ats
    <3>1. new = rest \cup {r}
      BY <2>1 DEF Moved
    <3> QED
      BY <3>1, <2>1, <1>2 DEF In
  <2>2. CASE req'[r].at \notin ats
    <3>1. new = rest
      BY <2>2 DEF Moved
    <3>2. In(req'[r].at, ats) = 0
      BY <2>2 DEF In
    <3> HIDE DEF rest, old, new
    <3> QED
      BY <3>1, <3>2, <1>1
  <2> QED
    BY <2>1, <2>2
<1>5. Num(ats) = Cardinality(old) /\ Num(ats)' = Cardinality(new)
  BY DEF Num
<1>6. In(req[r].at, ats) \in Int /\ In(req'[r].at, ats) \in Int /\ Num(ats) \in Nat
  BY NumNat DEF In
<1> HIDE DEF rest, old, new
<1> QED
  BY <1>1, <1>3, <1>4, <1>5, <1>6

LEMMA NumBounds == Num({"count"}) <= Num(Guilty) /\ Num({"check"}) + Num(Guilty) <= Cardinality(Requests)
<1> DEFINE A == {r \in Requests : req[r].at \in {"check"}}
           B == {r \in Requests : req[r].at \in Guilty}
           C == {r \in Requests : req[r].at \in {"count"}}
<1>1. IsFiniteSet(A) /\ IsFiniteSet(B) /\ IsFiniteSet(A \cup B) /\ IsFiniteSet(Requests)
  BY FS_Subset, AdminConstants
<1>2. A \cap B = {} /\ C \subseteq B
  BY DEF Guilty
<1>3. Cardinality(C) <= Cardinality(B)
  BY <1>1, <1>2, FS_Subset
<1>4. Cardinality(A \cup B) = Cardinality(A) + Cardinality(B)
  <2>1. Cardinality(A \cup B) = Cardinality(A) + Cardinality(B) - Cardinality(A \cap B)
    BY <1>1, FS_Union
  <2>2. Cardinality(A \cap B) = 0
    BY <1>2, FS_EmptySet
  <2>3. Cardinality(A) \in Nat /\ Cardinality(B) \in Nat
    BY <1>1, FS_CardinalityType
  <2> QED
    BY <2>1, <2>2, <2>3
<1>5. Cardinality(A \cup B) <= Cardinality(Requests)
  BY <1>1, FS_Subset
<1> QED
  BY <1>3, <1>4, <1>5 DEF Num

LEMMA LockStep == Types /\ LockInv /\ [Next]_vars => LockInv'
<1> SUFFICES ASSUME Types, LockInv, [Next]_vars PROVE LockInv'
  OBVIOUS
<1> DEFINE X == Num({"count"})
           G == Num(Guilty)
           C == Num({"check"})
           M == MAX_LOGIN_ATTEMPTS
           N == Cardinality(Requests)
<1>0. /\ M \in Nat /\ M >= 1 /\ N \in Nat /\ X \in Nat /\ G \in Nat /\ C \in Nat
      /\ X <= G /\ C + G <= N /\ guesses \in Nat /\ fails.n \in Nat /\ locked \in BOOLEAN
  BY NumNat, NumBounds, AdminConstants, FS_CardinalityType DEF Types
<1> HIDE DEF X, G, C, M, N
<1>l. /\ ~locked => guesses <= fails.n + X /\ guesses <= M - 1 + G
      /\ locked => guesses + C <= M - 1 + N
  BY DEF LockInv, X, G, C, M, N
<1>g. ASSUME ~locked' => guesses' <= fails'.n + X' /\ guesses' <= M - 1 + G',
             locked' => guesses' + C' <= M - 1 + N
      PROVE  LockInv'
  BY <1>g DEF LockInv, X, G, C, M, N
<1>p. X' \in Nat /\ G' \in Nat /\ C' \in Nat
  BY NumNat DEF X, G, C
<1>m. ASSUME NEW r \in Requests, Moved(r)
      PROVE  /\ X' = (X - In(req[r].at, {"count"})) + In(req'[r].at, {"count"})
             /\ G' = (G - In(req[r].at, Guilty)) + In(req'[r].at, Guilty)
             /\ C' = (C - In(req[r].at, {"check"})) + In(req'[r].at, {"check"})
  BY <1>m, NumMoved DEF X, G, C
<1>e. ASSUME NEW r \in Requests, Moved(r), req[r].at \notin LoginAts, req'[r].at \notin LoginAts
      PROVE  X' = X /\ G' = G /\ C' = C
  <2>1. /\ In(req[r].at, {"count"}) = 0 /\ In(req[r].at, Guilty) = 0 /\ In(req[r].at, {"check"}) = 0
        /\ In(req'[r].at, {"count"}) = 0 /\ In(req'[r].at, Guilty) = 0 /\ In(req'[r].at, {"check"}) = 0
    BY <1>e DEF In, Guilty, LoginAts
  <2> QED
    BY <1>0, <1>e, <1>m, <2>1
<1>f. ASSUME NEW r \in Requests, Finish(r) PROVE Moved(r) /\ req'[r].at = "idle"
  BY <1>f, FinishMoves DEF Idle
<1>go. ASSUME NEW r \in Requests, NEW at \in LoginAts \cup PlainAts, Go(r, at) PROVE Moved(r) /\ req'[r].at = at
  <2>1. req[r] \in Fields
    BY DEF Types, Req
  <2>2. Moved(r) /\ req'[r] = [req[r] EXCEPT !.at = at]
    BY <1>go, GoMoves DEF LoginAts, PlainAts, Ats, SesAts, OnAts, ChangeAts
  <2> QED
    BY <2>1, <2>2 DEF Fields
<1>i. /\ In("count", {"count"}) = 1 /\ In("count", Guilty) = 1 /\ In("count", {"check"}) = 0
      /\ In("check", {"count"}) = 0 /\ In("check", Guilty) = 0 /\ In("check", {"check"}) = 1
      /\ In("lock", {"count"}) = 0 /\ In("lock", Guilty) = 1 /\ In("lock", {"check"}) = 0
      /\ In("unlist", {"count"}) = 0 /\ In("unlist", Guilty) = 1 /\ In("unlist", {"check"}) = 0
      /\ In("idle", {"count"}) = 0 /\ In("idle", Guilty) = 0 /\ In("idle", {"check"}) = 0
      /\ In("clear", {"count"}) = 0 /\ In("clear", Guilty) = 0 /\ In("clear", {"check"}) = 0
      /\ In("expire", {"count"}) = 0 /\ In("expire", {"check"}) = 0
      /\ M = 1 => In("expire", Guilty) = 1
      /\ M # 1 => In("expire", Guilty) = 0
  BY DEF In, Guilty, M
<1>z. ASSUME guesses' = 0, fails'.n \in Nat, locked' => C' <= N PROVE LockInv'
  <2>1. \A a, b, c \in Nat : 0 <= a + b /\ 0 <= M - 1 + b /\ (c <= N => 0 + c <= M - 1 + N)
    BY <1>0
  <2>2. 0 <= fails'.n + X' /\ 0 <= M - 1 + G' /\ (locked' => 0 + C' <= M - 1 + N)
    BY <1>p, <1>z, <2>1
  <2> QED
    BY <1>g, <1>z, <2>2
<1>1. CASE UNCHANGED <<req, fails, locked, guesses>>
  BY <1>1 DEF LockInv, Num
<1>2. ASSUME NEW r \in Requests, Elsewhere(r), UNCHANGED <<fails, locked, guesses>> PROVE LockInv'
  BY <1>2, <1>e, <1>l, <1>g DEF Elsewhere
<1>3. ASSUME NEW r \in Requests, login(r) PROVE LockInv'
  <2>1. req[r].at = "idle" /\ req'[r].at = "check" /\ Moved(r) /\ ~locked /\ UNCHANGED <<fails, locked, guesses>>
    BY <1>3, <1>go DEF login, At, LoginAts, throttle, history
  <2>2. X' = X /\ G' = G
    BY <1>0, <1>i, <1>m, <2>1
  <2> QED
    BY <1>g, <1>l, <2>1, <2>2
<1>4. ASSUME NEW r \in Requests, examine(r) PROVE LockInv'
  <2>1. req[r].at = "check" /\ UNCHANGED <<fails, locked>> /\ Moved(r)
    BY <1>4, SignInMoves DEF examine, At, throttle, signIn
  <2>2. CASE Wrong(r)
    <3>1. req'[r].at = "count" /\ guesses' = guesses + 1
      BY <2>2, <1>go DEF Wrong, LoginAts
    <3>2. X' = X + 1 /\ G' = G + 1 /\ C' = C - 1
      BY <1>0, <1>i, <1>m, <2>1, <3>1
    <3> QED
      BY <1>0, <1>g, <1>l, <2>1, <3>1, <3>2
  <2>3. ASSUME NEW u \in Anyone, NEW o \in BOOLEAN, LetIn(r, u, o), UNCHANGED guesses PROVE LockInv'
    <3>1. req'[r].at = "clear"
      <4>1. req'[r] = [Idle EXCEPT !.at = "clear", !.who = u, !.owner = o]
        BY <2>3 DEF LetIn, Types
      <4> QED
        BY <4>1 DEF Idle
    <3>2. X' = X /\ G' = G /\ C' = C - 1
      BY <1>0, <1>i, <1>m, <2>1, <3>1
    <3> QED
      BY <1>0, <1>g, <1>l, <2>1, <2>3, <3>2
  <2> QED
    BY <1>4, <2>2, <2>3 DEF examine, Anyone
<1>5. ASSUME NEW r \in Requests, countFailure(r) PROVE LockInv'
  <2>1. /\ req[r].at = "count" /\ UNCHANGED <<locked, guesses>> /\ Moved(r) /\ fails'.n = fails.n + 1
    BY <1>5, SignInMoves DEF countFailure, At, history, signIn
  <2>2. /\ fails.n = 0 => req'[r].at = "expire"
        /\ fails.n # 0 /\ fails.n + 1 >= M => req'[r].at = "lock"
        /\ fails.n # 0 /\ ~(fails.n + 1 >= M) => req'[r].at = "idle"
    BY <1>5, <1>go DEF countFailure, LoginAts, PlainAts, M
  <2>3. CASE fails.n = 0
    <3>1. X' = X - 1 /\ C' = C /\ (M = 1 => G' = G) /\ (M # 1 => G' = G - 1)
      BY <1>0, <1>i, <1>m, <2>1, <2>2, <2>3
    <3> QED
      BY <1>0, <1>g, <1>l, <2>1, <2>3, <3>1
  <2>4. CASE fails.n # 0 /\ fails.n + 1 >= M
    <3>1. X' = X - 1 /\ C' = C /\ G' = G
      BY <1>0, <1>i, <1>m, <2>1, <2>2, <2>4
    <3> QED
      BY <1>0, <1>g, <1>l, <2>1, <3>1
  <2>5. CASE fails.n # 0 /\ ~(fails.n + 1 >= M)
    <3>1. X' = X - 1 /\ C' = C /\ G' = G - 1
      BY <1>0, <1>i, <1>m, <2>1, <2>2, <2>5
    <3> QED
      BY <1>0, <1>g, <1>l, <2>1, <2>5, <3>1
  <2> QED
    BY <2>3, <2>4, <2>5
<1>6. ASSUME NEW r \in Requests, expireCount(r) PROVE LockInv'
  <2>1. /\ req[r].at = "expire" /\ UNCHANGED <<locked, guesses>> /\ Moved(r) /\ fails'.n = fails.n
        /\ M = 1 => req'[r].at = "lock"
        /\ M # 1 => req'[r].at = "idle"
    BY <1>6, <1>go, SignInMoves DEF expireCount, At, history, signIn, LoginAts, PlainAts, M, Types
  <2>2. X' = X /\ C' = C /\ G' = G
    BY <1>0, <1>i, <1>m, <2>1
  <2> QED
    BY <1>g, <1>l, <2>1, <2>2
<1>7. ASSUME NEW r \in Requests, lockOut(r) PROVE LockInv'
  <2>1. req[r].at = "lock" /\ locked' = TRUE /\ UNCHANGED guesses /\ Moved(r) /\ req'[r].at = "unlist"
    BY <1>7, <1>go DEF lockOut, At, history, LoginAts
  <2>2. C' = C
    BY <1>0, <1>i, <1>m, <2>1
  <2> QED
    BY <1>0, <1>g, <1>l, <2>1, <2>2
<1>8. ASSUME NEW r \in Requests, clearCount(r) PROVE LockInv'
  <2>1. /\ req[r].at = "unlist" /\ UNCHANGED locked /\ Moved(r) /\ req'[r].at = "idle" /\ fails'.n = 0
        /\ guesses' = IF locked THEN guesses ELSE 0
    BY <1>8, <1>f DEF clearCount, At
  <2>2. C' = C
    BY <1>0, <1>i, <1>m, <2>1
  <2>3. CASE locked
    BY <1>0, <1>g, <1>l, <2>1, <2>2, <2>3
  <2>4. CASE ~locked
    BY <1>z, <2>1, <2>4
  <2> QED
    BY <2>3, <2>4
<1>9. ASSUME NEW r \in Requests, clearFailedAttempts(r) PROVE LockInv'
  <2>1. ~locked' /\ guesses' = 0 /\ fails'.n = 0
    BY <1>9 DEF clearFailedAttempts
  <2> QED
    BY <1>z, <2>1
<1>10. ASSUME NEW r \in Requests, createSession(r) \/ indexSession(r) PROVE LockInv'
  <2>1. Moved(r) /\ UNCHANGED <<fails, locked, guesses>> /\ req[r].at \in {"open", "index"}
    BY <1>10, SignInMoves DEF createSession, indexSession, signIn, At, throttle, history
  <2>2. req'[r].at \in {"idle", "index"}
    <3>1. CASE Finish(r)
      BY <1>f, <3>1
    <3>2. CASE \E s : req' = [req EXCEPT ![r] = [req[r] EXCEPT !.at = "index", !.ses = s]]
      BY <3>2 DEF Types, Req, Fields
    <3> QED
      BY <1>10, <3>1, <3>2 DEF createSession, indexSession, Finish
  <2> QED
    BY <2>1, <2>2, <1>2 DEF Elsewhere, LoginAts
<1>11. ASSUME NEW r \in Requests, crash(r) PROVE LockInv'
  <2>1. Moved(r) /\ req'[r].at = "idle" /\ UNCHANGED <<fails, locked>>
    BY <1>11, <1>f DEF crash, throttle
  <2>2. CASE req[r].at \in {"count", "expire", "lock", "unlist"}
    <3>1. guesses' \in Nat /\ (guesses > 0 => guesses' = guesses - 1) /\ (guesses = 0 => guesses' = 0)
      BY <1>0, <1>11, <2>2 DEF crash
    <3>2. X' >= X - 1 /\ G' >= G - 1 /\ C' = C
      <4>1. In(req[r].at, {"count"}) \in 0..1 /\ In(req[r].at, Guilty) \in 0..1 /\ In(req[r].at, {"check"}) = 0
        BY <2>2 DEF In
      <4> QED
        BY <1>0, <1>i, <1>m, <2>1, <4>1
    <3> QED
      BY <1>0, <1>p, <1>g, <1>l, <2>1, <3>1, <3>2
  <2>3. CASE req[r].at = "check"
    <3>1. guesses' = guesses
      BY <1>11, <2>3 DEF crash
    <3>2. X' = X /\ G' = G /\ C' = C - 1
      BY <1>0, <1>i, <1>m, <2>1, <2>3
    <3> QED
      BY <1>0, <1>g, <1>l, <2>1, <3>1, <3>2
  <2>4. CASE req[r].at \notin LoginAts
    <3>1. guesses' = guesses
      BY <1>11, <2>4 DEF crash, LoginAts
    <3> QED
      BY <1>2, <2>1, <2>4, <3>1 DEF Elsewhere, LoginAts
  <2> QED
    BY <2>2, <2>3, <2>4 DEF LoginAts
<1>12. ASSUME NEW r \in Requests, guard(r) \/ ownSessions(r) \/ people(r) \/ claimGateway(r) \/ createOwner(r)
       PROVE  LockInv'
  <2>1. Elsewhere(r)
    BY <1>12, GuardMoves, OwnSessionsMoves, PeopleMoves
  <2>2. UNCHANGED <<fails, locked, guesses>>
    <3>1. guard(r) => UNCHANGED <<fails, locked, guesses>>
      BY DEF guard, resolveSession, refreshLastSeen, resolveAccount, bearer, throttle, history
    <3>2. ownSessions(r) => UNCHANGED <<fails, locked, guesses>>
      BY DEF ownSessions, logout, destroySession, revokeOtherSessions, revokeSessionById, listSessions,
             revokeSessions, throttle, history
    <3>3. people(r) => UNCHANGED <<fails, locked, guesses>>
      BY DEF people, updateUser, removeUser, writeUser, findUser, findTokens, deleteUser, createAdminApiToken,
             revokeAdminApiToken, throttle, history
    <3>4. claimGateway(r) \/ createOwner(r) => UNCHANGED <<fails, locked, guesses>>
      BY DEF claimGateway, createOwner, throttle, history
    <3> QED
      BY <1>12, <3>1, <3>2, <3>3, <3>4
  <2> QED
    BY <1>2, <2>1, <2>2
<1>13. ASSUME NEW s \in Sessions, expireSession(s) PROVE LockInv'
  BY <1>1, <1>13 DEF expireSession, Passing, throttle
<1>14. ASSUME NEW u \in People, expireIndex(u) PROVE LockInv'
  BY <1>1, <1>14 DEF expireIndex, Passing, throttle
<1>15. CASE expireLock
  <2>1. ~locked' /\ guesses' = 0 /\ UNCHANGED fails
    BY <1>15 DEF expireLock
  <2> QED
    BY <1>0, <1>z, <2>1
<1>16. CASE expireFails
  <2>1. guesses' = 0 /\ fails'.n = 0 /\ UNCHANGED <<locked, req>>
    BY <1>16 DEF expireFails, Passing
  <2>2. C' = C
    BY <2>1 DEF C, Num
  <2> QED
    BY <1>0, <1>z, <2>1, <2>2
<1>17. CASE UNCHANGED vars
  BY <1>1, <1>17 DEF vars, throttle, history
<1> QED
  BY <1>3, <1>4, <1>5, <1>6, <1>7, <1>8, <1>9, <1>10, <1>11, <1>12, <1>13, <1>14, <1>15, <1>16, <1>17 DEF Next, signIn

-----------------------------------------------------------------------------
(* Where a request goes.                                                   *)

\* Only a request that has found a person's tokens is about to delete them,
\* and only one that has opened a session is about to index it.
LEMMA SignInArrives ==
  ASSUME Types, NEW r \in Requests, signIn(r)
  PROVE  req'[r].at # "delete" /\ (req'[r].at = "index" => createSession(r)) /\ req[r].at \notin {"list", "revoke", "destroy"}
<1>1. req \in [Requests -> Fields] /\ Idle.at = "idle" /\ Idle \in Fields
  BY IdleReq DEF Types, Req, Idle
<1>2. ASSUME NEW at, Go(r, at) PROVE req'[r].at = at
  BY <1>1, <1>2 DEF Go, Fields
<1>3. ASSUME Finish(r) PROVE req'[r].at = "idle"
  BY <1>1, <1>3 DEF Finish
<1>4. ASSUME NEW u, NEW o, LetIn(r, u, o) PROVE req'[r].at = "clear"
  BY <1>1, <1>4 DEF LetIn, Fields
<1>5. ASSUME createSession(r) PROVE req'[r].at \in {"idle", "index"}
  <2>1. Finish(r) \/ \E s : req' = [req EXCEPT ![r] = [req[r] EXCEPT !.at = "index", !.ses = s]]
    BY <1>5 DEF createSession, Finish
  <2> QED
    BY <1>1, <1>3, <2>1 DEF Fields
<1>6. CASE examine(r)
  BY <1>2, <1>4, <1>6 DEF examine, Wrong, At
<1>7. CASE login(r) \/ countFailure(r) \/ expireCount(r) \/ lockOut(r) \/ clearFailedAttempts(r)
  BY <1>2, <1>7 DEF login, countFailure, expireCount, lockOut, clearFailedAttempts, At
<1>8. CASE clearCount(r) \/ indexSession(r)
  BY <1>3, <1>8 DEF clearCount, indexSession, At
<1>9. CASE createSession(r)
  BY <1>5, <1>9 DEF createSession, At
<1> QED
  BY <1>6, <1>7, <1>8, <1>9 DEF signIn

LEMMA GuardArrives ==
  ASSUME Types, NEW r \in Requests, guard(r)
  PROVE  req'[r].at \notin {"delete", "index"} /\ req[r].at \notin {"list", "revoke", "destroy"}
<1>1. req \in [Requests -> Fields] /\ Idle.at = "idle" /\ Idle \in Fields
  BY IdleReq DEF Types, Req, Idle
<1>2. ASSUME NEW s \in Sessions, resolveSession(r, s) PROVE req[r].at = "idle" /\ req'[r].at \in {"refresh", "account"}
  BY <1>1, <1>2 DEF resolveSession, At, Fields
<1>3. ASSUME refreshLastSeen(r) PROVE req[r].at = "refresh" /\ req'[r].at = "account"
  BY <1>1, <1>3 DEF refreshLastSeen, At, Go, Fields
<1>4. ASSUME resolveAccount(r) PROVE req[r].at = "account" /\ req'[r].at \in {"idle", "handle"}
  <2>1. Finish(r) \/ \E w, o : req' = [req EXCEPT ![r] = [req[r] EXCEPT !.at = "handle", !.who = w, !.owner = o]]
    BY <1>4 DEF resolveAccount, Finish
  <2> QED
    BY <1>1, <1>4, <2>1 DEF Finish, Fields, resolveAccount, At
<1>5. ASSUME bearer(r) PROVE req[r].at = "idle" /\ req'[r].at = "handle"
  BY <1>1, <1>5 DEF bearer, At, Fields
<1> QED
  BY <1>2, <1>3, <1>4, <1>5 DEF guard

LEMMA OwnSessionsArrive ==
  ASSUME Types, NEW r \in Requests, ownSessions(r)
  PROVE  /\ req'[r].at \notin {"delete", "index"}
         /\ req[r].at \in {"list", "revoke"} => listSessions(r) \/ revokeSessions(r)
         /\ req[r].at = "destroy" => destroySession(r)
<1>1. req \in [Requests -> Fields] /\ Idle.at = "idle"
  BY DEF Types, Req, Idle
<1>2. ASSUME logout(r) PROVE req[r].at = "handle" /\ req'[r].at = "destroy"
  BY <1>1, <1>2 DEF logout, At, Go, Fields
<1>7. ASSUME destroySession(r) PROVE req[r].at = "destroy" /\ req'[r].at = "idle"
  BY <1>1, <1>7 DEF destroySession, At, Finish
<1>3. ASSUME revokeOtherSessions(r) PROVE req[r].at = "handle" /\ req'[r].at = "list"
  BY <1>1, <1>3 DEF revokeOtherSessions, At, Fields
<1>4. ASSUME revokeSessionById(r) PROVE req[r].at = "handle" /\ req'[r].at = "revoke"
  BY <1>1, <1>4 DEF revokeSessionById, At, Fields
<1>5. ASSUME listSessions(r)
      PROVE  req[r].at \in {"list", "listToRemove"} /\ req'[r].at \in {"revoke", "revokeToRemove"}
  <2>1. \E at \in {"revoke", "revokeToRemove"} :
          \E seen : req' = [req EXCEPT ![r] = [req[r] EXCEPT !.at = at, !.seen = seen]]
    BY <1>5 DEF listSessions
  <2> QED
    BY <1>1, <1>5, <2>1 DEF Fields, listSessions, At
<1>6. ASSUME revokeSessions(r)
      PROVE  req[r].at \in {"revoke", "revokeToRemove"} /\ req'[r].at \in {"idle", "find"}
  BY <1>1, <1>6 DEF revokeSessions, Finish, Go, Fields, At
<1> QED
  BY <1>2, <1>3, <1>4, <1>5, <1>6, <1>7 DEF ownSessions

LEMMA PeopleArrive ==
  ASSUME Types, NEW r \in Requests, people(r) \/ claimGateway(r) \/ createOwner(r)
  PROVE  /\ req'[r].at # "index" /\ (req'[r].at = "delete" => findTokens(r))
         /\ req[r].at \notin {"list", "revoke", "destroy"}
<1>1. req \in [Requests -> Fields] /\ Idle.at = "idle"
  BY DEF Types, Req, Idle
<1>2. ASSUME NEW at, Go(r, at) PROVE req'[r].at = at
  BY <1>1, <1>2 DEF Go, Fields
<1>3. ASSUME Finish(r) PROVE req'[r].at = "idle"
  BY <1>1, <1>3 DEF Finish
<1>4. ASSUME NEW u \in People, updateUser(r, u) PROVE req[r].at = "handle" /\ req'[r].at \in ChangeAts
  BY <1>1, <1>4 DEF updateUser, Handles, At, Fields, ChangeAts
<1>5. ASSUME NEW u \in People, removeUser(r, u) PROVE req[r].at = "handle" /\ req'[r].at = "listToRemove"
  BY <1>1, <1>5 DEF removeUser, Handles, At, Fields
<1>6. ASSUME writeUser(r) PROVE req[r].at \in ChangeAts /\ req'[r].at \in {"idle", "list"}
  BY <1>2, <1>3, <1>6 DEF writeUser, ChangeAts
<1>7. ASSUME findUser(r) PROVE req[r].at = "find" /\ req'[r].at \in {"idle", "tokens"}
  BY <1>2, <1>3, <1>7 DEF findUser, At
<1>8. ASSUME findTokens(r) PROVE req[r].at = "tokens" /\ req'[r].at = "delete"
  BY <1>1, <1>8 DEF findTokens, At, Fields
<1>9. ASSUME deleteUser(r) PROVE req[r].at = "delete" /\ req'[r].at = "idle"
  BY <1>3, <1>9 DEF deleteUser, At
<1>10. ASSUME NEW t \in Tokens, createAdminApiToken(r, t) \/ revokeAdminApiToken(r, t)
       PROVE  req[r].at = "handle" /\ req'[r].at = "idle"
  BY <1>3, <1>10 DEF createAdminApiToken, revokeAdminApiToken, Handles, At
<1>11. ASSUME claimGateway(r) PROVE req[r].at = "idle" /\ req'[r].at = "claim"
  BY <1>2, <1>11 DEF claimGateway, At
<1>12. ASSUME createOwner(r) PROVE req[r].at = "claim" /\ req'[r].at = "open"
  <2>1. PICK u \in People : req' = [req EXCEPT ![r].at = "open", ![r].who = u]
    BY <1>12 DEF createOwner
  <2>2. req' = [req EXCEPT ![r] = [req[r] EXCEPT !.at = "open", !.who = u]]
    BY <2>1
  <2>3. req'[r].at = "open"
    BY <1>1, <2>2 DEF Fields
  <2> QED
    BY <1>12, <2>3 DEF createOwner, At
<1> QED
  BY <1>4, <1>5, <1>6, <1>7, <1>8, <1>9, <1>10, <1>11, <1>12 DEF people, ChangeAts

-----------------------------------------------------------------------------
(* The tokens of a person who is removed.                                  *)

\* A working token belongs to whoever minted it while that account is there,
\* so a removal that has read the account's tokens has read all those it
\* minted but for the ones minted since.
OwnedByMinter ==
  \A t \in Tokens :
    token[t].is = "live" /\ minter[t] # Nobody /\ status[minter[t]] # "gone" => token[t].by = minter[t]

RemovalHasRead ==
  \A r \in Requests, t \in Tokens :
    /\ At(r, "delete") /\ status[req[r].on] # "gone"
    /\ token[t].is = "live" /\ minter[t] = req[r].on
    => t \in req[r].seen \/ t \in between

TokInv == OwnedByMinter /\ RemovalHasRead /\ TokensGoWithPerson

\* An account that is gone does not come back, nor does one go but by its removal.
StillThere == \A u \in People : (status'[u] = "gone") <=> (status[u] = "gone")

LEMMA TokFrame ==
  ASSUME Types, TokInv, UNCHANGED <<token, minter, between>>, StillThere,
         \A q \in Requests : req'[q] = req[q] \/ req'[q].at # "delete"
  PROVE  TokInv'
<1>1. \A t \in Tokens : minter[t] \in Anyone
  BY DEF Types
<1>2. \A q \in Requests : req[q].at = "delete" => req[q].on \in People
  BY DEF Types, Req, Placed, OnAts
<1>3. OwnedByMinter' /\ TokensGoWithPerson'
  BY <1>1 DEF TokInv, OwnedByMinter, TokensGoWithPerson, StillThere, Anyone
<1>4. RemovalHasRead'
  BY <1>2 DEF TokInv, RemovalHasRead, StillThere, At
<1> QED
  BY <1>3, <1>4 DEF TokInv

LEMMA FindTokensStep ==
  ASSUME Types, TokInv, NEW r \in Requests, findTokens(r) PROVE TokInv'
<1>1. UNCHANGED <<token, minter, between, status>> /\ Moved(r)
  BY PeopleMoves DEF findTokens, people, accountVars, history, Elsewhere
<1>2. /\ req'[r].on = req[r].on
      /\ req'[r].seen = {t \in Tokens : token[t].is = "live" /\ token[t].by = req[r].on}
  BY DEF findTokens, Types, Req, Fields
<1>3. req[r].on \in People
  BY DEF findTokens, At, Types, Req, Placed, OnAts
<1>4. ASSUME NEW t \in Tokens, status[req[r].on] # "gone", token[t].is = "live", minter[t] = req[r].on
      PROVE  t \in req'[r].seen
  BY <1>2, <1>3, <1>4, AdminConstants DEF TokInv, OwnedByMinter
<1>5. RemovalHasRead'
  <2> SUFFICES ASSUME NEW q \in Requests, NEW t \in Tokens, req'[q].at = "delete", status[req'[q].on] # "gone",
                      token[t].is = "live", minter[t] = req'[q].on
               PROVE  t \in req'[q].seen \/ t \in between
    BY <1>1 DEF RemovalHasRead, At
  <2>1. CASE q = r
    BY <1>2, <1>4, <2>1
  <2>2. CASE q # r
    BY <1>1, <2>2 DEF Moved, TokInv, RemovalHasRead, At
  <2> QED
    BY <2>1, <2>2
<1> QED
  BY <1>1, <1>5 DEF TokInv, OwnedByMinter, TokensGoWithPerson

LEMMA DeleteUserStep ==
  ASSUME Types, TokInv, NEW r \in Requests, deleteUser(r) PROVE TokInv'
<1>0. UNCHANGED <<minter, between>> /\ Moved(r) /\ req[r].at = "delete" /\ req'[r].at # "delete"
  BY FinishMoves DEF deleteUser, history, At, Idle
<1>1. CASE UNCHANGED <<status, token>>
  BY <1>0, <1>1, TokFrame DEF StillThere, Moved
<1>2. CASE ~UNCHANGED <<status, token>>
  <2>1. PICK u : u = req[r].on
    OBVIOUS
  <2>2. u \in People /\ status[u] # "gone"
    BY <1>0, <1>2, <2>1 DEF deleteUser, Types, Req, Placed, OnAts, Exists, accountVars
  <2>3. /\ status' = [status EXCEPT ![u] = "gone"]
        /\ token' = [t \in Tokens |-> [is |-> IF t \in req[r].seen THEN "revoked" ELSE token[t].is,
                                       by |-> IF token[t].by = u THEN Nobody ELSE token[t].by]]
    BY <1>2, <2>1 DEF deleteUser, accountVars
  <2>4. ASSUME NEW t \in Tokens, token'[t].is = "live"
        PROVE  t \notin req[r].seen /\ token[t].is = "live" /\ (token[t].by # u => token'[t].by = token[t].by)
    BY <2>3, <2>4
  <2>5. status'[u] = "gone" /\ \A p \in People \ {u} : status'[p] = status[p]
    BY <2>2, <2>3 DEF Types
  <2>6. \A t \in Tokens : minter[t] = Nobody \/ minter[t] \in People
    BY DEF Types, Anyone
  <2>7. OwnedByMinter'
    <3> SUFFICES ASSUME NEW t \in Tokens, token'[t].is = "live", minter[t] # Nobody, status'[minter[t]] # "gone"
                 PROVE  token'[t].by = minter[t]
      BY <1>0 DEF OwnedByMinter
    <3>1. minter[t] \in People /\ minter[t] # u /\ status[minter[t]] # "gone"
      BY <2>5, <2>6
    <3> QED
      BY <2>4, <3>1 DEF TokInv, OwnedByMinter
  <2>8. RemovalHasRead'
    <3> SUFFICES ASSUME NEW q \in Requests, NEW t \in Tokens, req'[q].at = "delete", status'[req'[q].on] # "gone",
                        token'[t].is = "live", minter[t] = req'[q].on
                 PROVE  t \in req'[q].seen \/ t \in between
      BY <1>0 DEF RemovalHasRead, At
    <3>1. req'[q] = req[q] /\ req[q].on \in People
      BY <1>0 DEF Moved, Types, Req, Placed, OnAts
    <3>2. status[req[q].on] # "gone"
      BY <2>5, <3>1
    <3> QED
      BY <2>4, <3>1, <3>2 DEF TokInv, RemovalHasRead, At
  <2>9. TokensGoWithPerson'
    <3> SUFFICES ASSUME NEW t \in Tokens, token'[t].is = "live", minter[t] # Nobody, status'[minter[t]] = "gone"
                 PROVE  t \in between
      BY <1>0 DEF TokensGoWithPerson
    <3>1. CASE minter[t] = u
      BY <1>0, <2>1, <2>2, <2>4, <3>1 DEF TokInv, RemovalHasRead, At
    <3>2. CASE minter[t] # u
      BY <2>4, <2>5, <2>6, <3>2 DEF TokInv, TokensGoWithPerson
    <3> QED
      BY <3>1, <3>2
  <2> QED
    BY <2>7, <2>8, <2>9 DEF TokInv
<1> QED
  BY <1>1, <1>2

LEMMA MintStep ==
  ASSUME Types, TokInv, NEW r \in Requests, NEW t \in Tokens, createAdminApiToken(r, t) PROVE TokInv'
<1>0. UNCHANGED status /\ Moved(r) /\ req[r].at = "handle" /\ req'[r].at # "delete"
  BY FinishMoves DEF createAdminApiToken, Handles, At, Idle
<1>1. CASE UNCHANGED <<token, minter, between>>
  BY <1>0, <1>1, TokFrame DEF StillThere, Moved
<1>2. CASE ~UNCHANGED <<token, minter, between>>
  <2>1. PICK u : u = req[r].who
    OBVIOUS
  <2>2. u = Nobody \/ status[u] # "gone"
    BY <1>2, <2>1 DEF createAdminApiToken, Exists
  <2>3. /\ token' = [token EXCEPT ![t] = [is |-> "live", by |-> u]]
        /\ minter' = [minter EXCEPT ![t] = u]
        /\ between' = IF \E q \in Requests : At(q, "delete") /\ req[q].on = u THEN between \cup {t} ELSE between
    BY <1>2, <2>1 DEF createAdminApiToken
  <2>4. /\ token'[t].by = u /\ minter'[t] = u
        /\ \A x \in Tokens \ {t} : token'[x] = token[x] /\ minter'[x] = minter[x]
        /\ \A x \in between : x \in between'
    BY <2>3 DEF Types
  <2>5. \A q \in Requests : req'[q].at = "delete" => req'[q] = req[q]
    BY <1>0 DEF Moved
  <2>6. OwnedByMinter'
    BY <1>0, <2>4 DEF TokInv, OwnedByMinter
  <2>7. RemovalHasRead'
    <3> SUFFICES ASSUME NEW q \in Requests, NEW x \in Tokens, req'[q].at = "delete", status[req'[q].on] # "gone",
                        token'[x].is = "live", minter'[x] = req'[q].on
                 PROVE  x \in req'[q].seen \/ x \in between'
      BY <1>0 DEF RemovalHasRead, At
    <3>1. CASE x = t
      BY <2>3, <2>4, <2>5, <3>1 DEF At
    <3>2. CASE x # t
      BY <2>4, <2>5, <3>2 DEF TokInv, RemovalHasRead, At
    <3> QED
      BY <3>1, <3>2
  <2>8. TokensGoWithPerson'
    BY <1>0, <2>2, <2>4 DEF TokInv, TokensGoWithPerson
  <2> QED
    BY <2>6, <2>7, <2>8 DEF TokInv
<1> QED
  BY <1>1, <1>2

LEMMA TokStep == Types /\ TokInv /\ [Next]_vars => TokInv'
<1> SUFFICES ASSUME Types, TokInv, [Next]_vars PROVE TokInv'
  OBVIOUS
<1> USE DEF accountVars, history
<1>1. CASE UNCHANGED <<token, minter, between, status, req>>
  BY <1>1, TokFrame DEF StillThere
<1>2. ASSUME NEW r \in Requests, Moved(r), req'[r].at # "delete", UNCHANGED <<token, minter, between, status>>
      PROVE  TokInv'
  BY <1>2, TokFrame DEF StillThere, Moved
<1>3. ASSUME NEW r \in Requests, signIn(r) PROVE TokInv'
  <2>1. UNCHANGED <<token, minter, between, status>>
    BY <1>3 DEF signIn, login, examine, countFailure, expireCount, lockOut, clearCount, clearFailedAttempts,
                createSession, indexSession
  <2> QED
    BY <1>2, <1>3, <2>1, SignInMoves, SignInArrives
<1>4. ASSUME NEW r \in Requests, guard(r) PROVE TokInv'
  <2>1. UNCHANGED <<token, minter, between, status>>
    BY <1>4 DEF guard, resolveSession, refreshLastSeen, resolveAccount, bearer
  <2> QED
    BY <1>2, <1>4, <2>1, GuardMoves, GuardArrives DEF Elsewhere
<1>5. ASSUME NEW r \in Requests, ownSessions(r) PROVE TokInv'
  <2>1. UNCHANGED <<token, minter, between, status>>
    BY <1>5 DEF ownSessions, logout, destroySession, revokeOtherSessions, revokeSessionById, listSessions,
                revokeSessions
  <2> QED
    BY <1>2, <1>5, <2>1, OwnSessionsMoves, OwnSessionsArrive DEF Elsewhere
<1>6. ASSUME NEW r \in Requests, people(r) \/ claimGateway(r) \/ createOwner(r) PROVE TokInv'
  <2>0. Moved(r)
    BY <1>6, PeopleMoves DEF Elsewhere
  <2>1. CASE findTokens(r)
    BY <2>1, FindTokensStep
  <2>2. CASE deleteUser(r)
    BY <2>2, DeleteUserStep
  <2>3. ASSUME NEW t \in Tokens, createAdminApiToken(r, t) PROVE TokInv'
    BY <2>3, MintStep
  <2> DEFINE Quiet == Moved(r) /\ req'[r].at # "delete"
  <2>4. CASE ~findTokens(r)
    <3>0. Quiet
      BY <1>6, <2>0, <2>4, PeopleArrive
    <3>1. ASSUME NEW t \in Tokens, revokeAdminApiToken(r, t) PROVE TokInv'
      <4>1. UNCHANGED <<status, minter, between>> /\ token' = [token EXCEPT ![t].is = "revoked"]
        BY <3>1 DEF revokeAdminApiToken
      <4>2. \A x \in Tokens : token'[x].is = "live" => token'[x] = token[x]
        BY <4>1 DEF Types
      <4>3. OwnedByMinter' /\ TokensGoWithPerson'
        BY <4>1, <4>2 DEF TokInv, OwnedByMinter, TokensGoWithPerson
      <4>4. \A q \in Requests : req'[q].at = "delete" => req'[q] = req[q]
        BY <3>0 DEF Moved
      <4>5. RemovalHasRead'
        BY <4>1, <4>2, <4>4 DEF TokInv, RemovalHasRead, At
      <4> QED
        BY <4>3, <4>5 DEF TokInv
    <3>2. CASE writeUser(r)
      <4>1. UNCHANGED <<token, minter, between>> /\ req[r].on \in People
        BY <3>2 DEF writeUser, Types, Req, Placed, OnAts, ChangeAts
      <4>2. StillThere
        BY <3>2, <4>1 DEF writeUser, StillThere, Types, Exists
      <4> QED
        BY <3>0, <4>1, <4>2, TokFrame DEF Moved
    <3>3. CASE createOwner(r)
      <4>1. UNCHANGED <<token, minter, between>>
        BY <3>3 DEF createOwner
      <4>2. PICK u \in People : status[u] = "none" /\ status' = [status EXCEPT ![u] = "active"]
        BY <3>3 DEF createOwner
      <4>3. StillThere
        BY <4>2 DEF StillThere, Types
      <4> QED
        BY <3>0, <4>1, <4>3, TokFrame DEF Moved
    <3>4. CASE findUser(r) \/ claimGateway(r)
      BY <1>2, <3>0, <3>4 DEF findUser, claimGateway
    <3>5. ASSUME NEW u \in People, updateUser(r, u) \/ removeUser(r, u) PROVE TokInv'
      BY <1>2, <3>0, <3>5 DEF updateUser, removeUser
    <3> QED
      BY <1>6, <2>2, <2>3, <2>4, <3>1, <3>2, <3>3, <3>4, <3>5 DEF people
  <2> QED
    BY <2>1, <2>4
<1>7. ASSUME NEW r \in Requests, crash(r) PROVE TokInv'
  <2>1. Moved(r) /\ req'[r].at = "idle" /\ UNCHANGED <<token, minter, between, status>>
    BY <1>7, FinishMoves DEF crash, Idle
  <2> QED
    BY <1>2, <2>1
<1>8. ASSUME NEW s \in Sessions, expireSession(s) PROVE TokInv'
  BY <1>1, <1>8 DEF expireSession, Passing
<1>9. ASSUME NEW u \in People, expireIndex(u) PROVE TokInv'
  BY <1>1, <1>9 DEF expireIndex, Passing
<1>10. CASE expireLock \/ expireFails \/ UNCHANGED vars
  BY <1>1, <1>10 DEF expireLock, expireFails, Passing, vars
<1> QED
  BY <1>3, <1>4, <1>5, <1>6, <1>7, <1>8, <1>9, <1>10 DEF Next

-----------------------------------------------------------------------------
(* The sessions of a person who is suspended.                              *)

\* A request by somebody else is about to erase this session of the account:
\* it has still to list the account's sessions, or has listed this one.
Chased(u, s) ==
  \E r \in Requests :
    /\ req[r].on = u
    /\ (At(r, "list") /\ req[r].who # req[r].on) \/ (At(r, "revoke") /\ s \in req[r].seen)

\* An account's index lists its own sessions only.
IndexedOwn == \A u \in People : \A s \in index[u] : session[s].who = u

\* The session a sign-in is about to index is that of its account.
OpenedOwn == \A r \in Requests : At(r, "index") => session[req[r].ses].who = req[r].who

\* A session without a deadline was written back by a late refresh.
ForeverRaised == \A s \in Sessions : session[s].forever => s \in raised

\* Somebody is signing out of it: it is unlisted, and about to be deleted.
Leaving(s) == \E r \in Requests : At(r, "destroy") /\ req[r].ses = s

\* A session that was to be erased and still works is in its account's
\* index, where the request that is after it will find it, or is on its way
\* out by itself.
DoomedChased ==
  \A s \in doomed :
    /\ session[s].who \in People
    /\ session[s].live /\ s \notin raised /\ ~Leaving(s) =>
         s \in index[session[s].who] /\ Chased(session[s].who, s)

SessInv == IndexedOwn /\ OpenedOwn /\ ForeverRaised /\ DoomedChased

LEMMA ChasedKept ==
  ASSUME NEW r \in Requests, Moved(r), req[r].at \notin {"list", "revoke"}, NEW u, NEW s, Chased(u, s)
  PROVE  Chased(u, s)'
<1>1. PICK q \in Requests : /\ req[q].on = u
                            /\ (At(q, "list") /\ req[q].who # req[q].on) \/ (At(q, "revoke") /\ s \in req[q].seen)
  BY DEF Chased
<1>2. req'[q] = req[q]
  BY <1>1 DEF Moved, At
<1> QED
  BY <1>1, <1>2 DEF Chased, At

LEMMA LeavingKept ==
  ASSUME NEW r \in Requests, Moved(r), req[r].at # "destroy", NEW s, Leaving(s)
  PROVE  Leaving(s)'
<1>1. PICK q \in Requests : At(q, "destroy") /\ req[q].ses = s
  BY DEF Leaving
<1>2. req'[q] = req[q]
  BY <1>1 DEF Moved, At
<1> QED
  BY <1>1, <1>2 DEF Leaving, At

\* Sessions are deleted, or leave the index, only dead or on their way out.
Fewer ==
  /\ \A s \in Sessions : /\ session'[s].who = session[s].who
                         /\ session'[s].forever => session[s].forever
                         /\ session'[s].live => session[s].live
  /\ \A u \in People : /\ index'[u] \subseteq index[u]
                       /\ \A s \in index[u] : session'[s].live /\ ~session[s].forever /\ ~Leaving(s)' => s \in index'[u]

LEMMA SessFewer ==
  ASSUME Types, SessInv, Fewer, doomed' \subseteq doomed, UNCHANGED raised, req' \in [Requests -> Req],
         \A q \in Requests : req'[q].at = "index" => req'[q] = req[q],
         \A s \in doomed' :
           Chased(session[s].who, s) /\ session'[s].live /\ s \notin raised /\ ~Leaving(s) =>
             Chased(session[s].who, s)',
         \A s \in doomed' : Leaving(s) /\ session'[s].live => Leaving(s)'
  PROVE  SessInv'
<1>1. \A u \in People : index[u] \subseteq Sessions
  BY DEF Types
<1>2. IndexedOwn'
  BY <1>1 DEF SessInv, IndexedOwn, Fewer
<1>3. OpenedOwn'
  <2> SUFFICES ASSUME NEW q \in Requests, req'[q].at = "index" PROVE session'[req'[q].ses].who = req'[q].who
    BY DEF OpenedOwn, At
  <2>1. req'[q] = req[q] /\ req[q].at = "index" /\ req[q].ses \in Sessions
    BY DEF Types, Req, Placed, SesAts
  <2> QED
    BY <2>1 DEF SessInv, OpenedOwn, At, Fewer
<1>4. ForeverRaised'
  BY DEF SessInv, ForeverRaised, Fewer
<1>5. DoomedChased'
  <2> SUFFICES ASSUME NEW s \in doomed'
               PROVE  /\ session'[s].who \in People
                      /\ session'[s].live /\ s \notin raised /\ ~Leaving(s)' =>
                           s \in index'[session'[s].who] /\ Chased(session[s].who, s)'
    BY DEF DoomedChased
  <2>1. s \in doomed /\ s \in Sessions
    BY DEF Types
  <2>2. session'[s].who = session[s].who /\ session[s].who \in People
    BY <2>1 DEF Fewer, SessInv, DoomedChased
  <2>3. ASSUME session'[s].live, s \notin raised, ~Leaving(s)'
        PROVE  s \in index'[session[s].who] /\ Chased(session[s].who, s)'
    <3>1. session[s].live /\ ~session[s].forever /\ ~Leaving(s)
      BY <2>1, <2>3 DEF Fewer, SessInv, ForeverRaised
    <3>2. s \in index[session[s].who] /\ Chased(session[s].who, s)
      BY <2>1, <2>3, <3>1 DEF SessInv, DoomedChased
    <3> QED
      BY <2>2, <2>3, <3>1, <3>2 DEF Fewer
  <2> QED
    BY <2>2, <2>3
<1> QED
  BY <1>2, <1>3, <1>4, <1>5 DEF SessInv

LEMMA OpenStep ==
  ASSUME Types, SessInv, NEW r \in Requests, createSession(r) PROVE SessInv'
<1>0. Moved(r) /\ UNCHANGED <<index, doomed, raised>> /\ req[r].at = "open"
  BY SignInMoves DEF signIn, createSession, history, At
<1>1. PICK n : n = CHOOSE k \in Sessions \ Opened : \A m \in Sessions \ Opened : k <= m
  OBVIOUS
<1>2. n \in Sessions /\ session[n] = NoSession
  BY <1>1, LeastSession DEF createSession, Opened
<1>3. session[n].who = Nobody /\ Nobody \notin People
  BY <1>2, AdminConstants DEF NoSession
<1>4. session' = [session EXCEPT ![n] = [live |-> TRUE, forever |-> FALSE, who |-> req[r].who, owner |-> req[r].owner]]
  BY <1>1 DEF createSession
<1>5. /\ session'[n].who = req[r].who /\ session'[n].forever = FALSE
      /\ \A s \in Sessions \ {n} : session'[s] = session[s]
  BY <1>2, <1>4 DEF Types
<1>6. IndexedOwn'
  BY <1>0, <1>3, <1>5 DEF SessInv, IndexedOwn, Types
<1>7. OpenedOwn'
  <2> SUFFICES ASSUME NEW q \in Requests, req'[q].at = "index" PROVE session'[req'[q].ses].who = req'[q].who
    BY DEF OpenedOwn, At
  <2>1. CASE q # r
    <3>1. req'[q] = req[q] /\ req[q].ses \in Sessions /\ req[q].who \in People
      BY <1>0, <2>1 DEF Moved, Types, Req, Placed, SesAts
    <3>2. session[req[q].ses].who = req[q].who
      BY <3>1 DEF SessInv, OpenedOwn, At
    <3> QED
      BY <1>3, <1>5, <3>1, <3>2
  <2>2. CASE q = r
    <3>1. req' = [req EXCEPT ![r] = Idle] \/ req' = [req EXCEPT ![r] = [req[r] EXCEPT !.at = "index", !.ses = n]]
      BY <1>1 DEF createSession
    <3>2. req'[r] # Idle
      BY <2>2 DEF Idle
    <3>3. req' = [req EXCEPT ![r] = [req[r] EXCEPT !.at = "index", !.ses = n]]
      BY <3>1, <3>2 DEF Types
    <3>4. req'[r].ses = n /\ req'[r].who = req[r].who
      BY <3>3 DEF Types, Req, Fields
    <3> QED
      BY <1>5, <2>2, <3>4
  <2> QED
    BY <2>1, <2>2
<1>8. ForeverRaised'
  BY <1>0, <1>5 DEF SessInv, ForeverRaised
<1>9. DoomedChased'
  <2> SUFFICES ASSUME NEW s \in doomed
               PROVE  /\ session'[s].who \in People
                      /\ session'[s].live /\ s \notin raised /\ ~Leaving(s)' =>
                           s \in index[session'[s].who] /\ Chased(session[s].who, s)'
    BY <1>0 DEF DoomedChased
  <2>1. s \in Sessions /\ s # n
    BY <1>3 DEF Types, SessInv, DoomedChased
  <2>2. session'[s] = session[s]
    BY <1>5, <2>1
  <2> QED
    BY <1>0, <2>2, ChasedKept, LeavingKept DEF SessInv, DoomedChased
<1> QED
  BY <1>6, <1>7, <1>8, <1>9 DEF SessInv

LEMMA IndexStep ==
  ASSUME Types, SessInv, NEW r \in Requests, indexSession(r) PROVE SessInv'
<1>0. /\ Moved(r) /\ UNCHANGED <<session, doomed, raised>> /\ req[r].at = "index" /\ req'[r].at = "idle"
      /\ index' = [index EXCEPT ![req[r].who] = @ \cup {req[r].ses}]
  BY FinishMoves DEF indexSession, history, At, Idle
<1>1. req[r].who \in People /\ session[req[r].ses].who = req[r].who
  BY <1>0 DEF Types, Req, Placed, SessInv, OpenedOwn, At
<1>2. \A u \in People : index[u] \subseteq index'[u]
  BY <1>0 DEF Types
<1>3. IndexedOwn'
  BY <1>0, <1>1 DEF SessInv, IndexedOwn, Types
<1>4. OpenedOwn'
  BY <1>0 DEF Moved, SessInv, OpenedOwn, At
<1>5. ForeverRaised'
  BY <1>0 DEF SessInv, ForeverRaised
<1>6. DoomedChased'
  BY <1>0, <1>2, ChasedKept, LeavingKept DEF SessInv, DoomedChased
<1> QED
  BY <1>3, <1>4, <1>5, <1>6 DEF SessInv

LEMMA RefreshStep ==
  ASSUME Types, SessInv, NEW r \in Requests, refreshLastSeen(r) PROVE SessInv'
<1>0. Moved(r) /\ UNCHANGED <<index, doomed>> /\ req[r].at = "refresh" /\ req'[r].at # "index"
  BY GuardMoves, GuardArrives DEF refreshLastSeen, guard, At, Elsewhere
<1>1. PICK n : n = req[r].ses
  OBVIOUS
<1>2. n \in Sessions
  BY <1>0, <1>1 DEF Types, Req, Placed, SesAts
<1>3. /\ session' = [session EXCEPT ![n].live = TRUE, ![n].forever = @ \/ ~session[n].live]
      /\ raised' = IF session[n].live THEN raised ELSE raised \cup {n}
  BY <1>1 DEF refreshLastSeen
<1>4. /\ \A s \in Sessions : session'[s].who = session[s].who
      /\ \A s \in Sessions \ {n} : session'[s] = session[s]
      /\ raised \subseteq raised'
      /\ ~session[n].live => n \in raised'
  BY <1>2, <1>3 DEF Types, SessionRow
<1>5. ASSUME session[n].live, session'[n].forever PROVE session[n].forever
  BY <1>2, <1>3, <1>5 DEF Types, SessionRow
<1>6. IndexedOwn'
  BY <1>0, <1>4 DEF SessInv, IndexedOwn, Types
<1>7. OpenedOwn'
  <2> SUFFICES ASSUME NEW q \in Requests, req'[q].at = "index" PROVE session'[req'[q].ses].who = req'[q].who
    BY DEF OpenedOwn, At
  <2>1. req'[q] = req[q] /\ req[q].ses \in Sessions
    BY <1>0 DEF Moved, Types, Req, Placed, SesAts
  <2> QED
    BY <1>4, <2>1 DEF SessInv, OpenedOwn, At
<1>8. ForeverRaised'
  BY <1>4, <1>5 DEF SessInv, ForeverRaised
<1>9. DoomedChased'
  <2> SUFFICES ASSUME NEW s \in doomed
               PROVE  /\ session'[s].who \in People
                      /\ session'[s].live /\ s \notin raised' /\ ~Leaving(s)' =>
                           s \in index[session'[s].who] /\ Chased(session[s].who, s)'
    BY <1>0 DEF DoomedChased
  <2>1. s \in Sessions /\ session'[s].who = session[s].who
    BY <1>4 DEF Types
  <2>2. ASSUME session'[s].live, s \notin raised' PROVE session[s].live /\ s \notin raised
    BY <1>4, <2>1, <2>2
  <2> QED
    BY <1>0, <2>1, <2>2, ChasedKept, LeavingKept DEF SessInv, DoomedChased
<1> QED
  BY <1>6, <1>7, <1>8, <1>9 DEF SessInv

\* Nothing but the request itself has changed.
LEMMA SessQuiet ==
  ASSUME Types, SessInv, NEW r \in Requests, Moved(r), req[r].at \notin {"list", "revoke", "destroy"},
         req'[r].at # "index", Fewer, UNCHANGED <<doomed, raised>>
  PROVE  SessInv'
<1>1. req' \in [Requests -> Req] /\ \A q \in Requests : req'[q].at = "index" => req'[q] = req[q]
  BY DEF Moved
<1>2. \A u, s : Chased(u, s) => Chased(u, s)'
  BY ChasedKept
<1>3. ASSUME NEW s \in doomed, Chased(session[s].who, s) PROVE Chased(session[s].who, s)'
  <2>1. PICK u : u = session[s].who
    OBVIOUS
  <2>2. session'[s].who = u
    BY <2>1 DEF Fewer, Types
  <2> QED
    BY <1>2, <1>3, <2>1, <2>2
<1>4. \A s : Leaving(s) => Leaving(s)'
  BY LeavingKept
<1> QED
  BY <1>1, <1>3, <1>4, SessFewer

LEMMA ListStep ==
  ASSUME Types, SessInv, NEW r \in Requests, listSessions(r) PROVE SessInv'
<1>0. Moved(r) /\ req'[r].at # "index" /\ req[r].at \in {"list", "listToRemove"} /\ UNCHANGED <<session, doomed, raised>>
  BY OwnSessionsMoves, OwnSessionsArrive DEF listSessions, ownSessions, history, At, Elsewhere
<1>1. PICK u : u = req[r].on
  OBVIOUS
<1>2. u \in People
  BY <1>0, <1>1 DEF Types, Req, Placed, OnAts
<1>3. PICK live : live = {s \in index[u] : session[s].live}
  OBVIOUS
<1>4. index' = [index EXCEPT ![u] = live]
  BY <1>1, <1>3 DEF listSessions
<1>5. Fewer
  BY <1>0, <1>2, <1>3, <1>4 DEF Fewer, Types
<1>6. CASE req[r].at = "listToRemove"
  BY <1>0, <1>5, <1>6, SessQuiet
<1>7. CASE req[r].at = "list"
  <2>1. ASSUME NEW s \in doomed, Chased(session[s].who, s), session[s].live, s \notin raised, ~Leaving(s)
        PROVE  Chased(session[s].who, s)'
    <3>1. PICK q \in Requests : /\ req[q].on = session[s].who
                                /\ \/ At(q, "list") /\ req[q].who # req[q].on
                                   \/ At(q, "revoke") /\ s \in req[q].seen
      BY <2>1 DEF Chased
    <3>2. CASE q # r
      <4>1. req'[q] = req[q] /\ session' = session
        BY <1>0, <3>2 DEF Moved
      <4> QED
        BY <3>1, <4>1 DEF Chased, At
    <3>3. CASE q = r
      <4>1. s \in index[u]
        BY <1>1, <2>1, <3>1, <3>3 DEF SessInv, DoomedChased
      <4>2. s \in live /\ req[r].who # req[r].on
        BY <1>3, <1>7, <2>1, <3>1, <3>3, <4>1 DEF At
      <4>3. req' = [req EXCEPT ![r] = [req[r] EXCEPT !.at = "revoke", !.seen = live]]
        BY <1>1, <1>3, <1>7, <4>2 DEF listSessions, At
      <4>4. req'[r].at = "revoke" /\ req'[r].on = req[r].on /\ req'[r].seen = live
        BY <4>3 DEF Types, Req, Fields
      <4> QED
        BY <1>0, <3>1, <3>3, <4>2, <4>4 DEF Chased, At
    <3> QED
      BY <3>2, <3>3
  <2>2. req' \in [Requests -> Req] /\ \A q \in Requests : req'[q].at = "index" => req'[q] = req[q]
    BY <1>0 DEF Moved
  <2>3. \A s : Leaving(s) => Leaving(s)'
    BY <1>0, LeavingKept
  <2> QED
    BY <1>0, <1>5, <2>1, <2>2, <2>3, SessFewer
<1> QED
  BY <1>0, <1>6, <1>7

LEMMA RevokeStep ==
  ASSUME Types, SessInv, NEW r \in Requests, revokeSessions(r) PROVE SessInv'
<1>0. Moved(r) /\ req'[r].at # "index" /\ UNCHANGED <<doomed, raised>> /\ req[r].on \in People
  <2>1. req[r].at \in OnAts /\ Placed(req[r])
    BY DEF revokeSessions, At, OnAts, Types, Req
  <2> QED
    BY <2>1, OwnSessionsMoves, OwnSessionsArrive DEF revokeSessions, ownSessions, history, Elsewhere, Placed
<1>1. PICK u : u = req[r].on
  OBVIOUS
<1>2. PICK going : going = req[r].seen \cap index[u]
  OBVIOUS
<1>3. /\ session' = [s \in Sessions |-> IF s \in going THEN [session[s] EXCEPT !.live = FALSE] ELSE session[s]]
      /\ index' = [index EXCEPT ![u] = @ \ going]
  BY <1>1, <1>2 DEF revokeSessions
<1>4. /\ \A s \in Sessions \ going : session'[s] = session[s]
      /\ \A s \in Sessions : s \in going => session'[s] = [session[s] EXCEPT !.live = FALSE]
  BY <1>3
<1>5. ASSUME NEW s \in Sessions, s \in going
      PROVE  ~session'[s].live /\ session'[s].who = session[s].who /\ session'[s].forever = session[s].forever
  <2>1. \A row \in SessionRow : /\ ~[row EXCEPT !.live = FALSE].live
                                /\ [row EXCEPT !.live = FALSE].who = row.who
                                /\ [row EXCEPT !.live = FALSE].forever = row.forever
    BY DEF SessionRow
  <2>2. session[s] \in SessionRow /\ session'[s] = [session[s] EXCEPT !.live = FALSE]
    BY <1>4, <1>5 DEF Types
  <2> QED
    BY <2>1, <2>2
<1>6. Fewer
  <2>1. \A s \in Sessions : /\ session'[s].who = session[s].who
                            /\ session'[s].forever => session[s].forever
                            /\ session'[s].live => session[s].live
    BY <1>4, <1>5
  <2>2. \A p \in People : /\ index[p] \subseteq Sessions /\ index'[p] \subseteq index[p]
                          /\ \A s \in index[p] : s \notin going => s \in index'[p]
    BY <1>3 DEF Types
  <2> QED
    BY <1>5, <2>1, <2>2 DEF Fewer
<1>7. ASSUME NEW s \in doomed, Chased(session[s].who, s), session'[s].live, s \notin raised, ~Leaving(s)
      PROVE  Chased(session[s].who, s)'
  <2>0. s \in Sessions /\ session'[s].who = session[s].who /\ session[s].live
    BY <1>6, <1>7 DEF Types, Fewer
  <2>1. PICK q \in Requests : /\ req[q].on = session[s].who
                              /\ \/ At(q, "list") /\ req[q].who # req[q].on
                                 \/ At(q, "revoke") /\ s \in req[q].seen
    BY <1>7 DEF Chased
  <2>2. q # r
    <3> SUFFICES ASSUME q = r PROVE FALSE
      OBVIOUS
    <3>1. s \in req[r].seen /\ s \in index[u]
      BY <1>1, <1>7, <2>0, <2>1 DEF revokeSessions, At, SessInv, DoomedChased
    <3> QED
      BY <1>2, <1>5, <1>7, <2>0, <3>1
  <2>3. req'[q] = req[q]
    BY <1>0, <2>2 DEF Moved
  <2> QED
    BY <2>0, <2>1, <2>3 DEF Chased, At
<1>8. req' \in [Requests -> Req] /\ \A q \in Requests : req'[q].at = "index" => req'[q] = req[q]
  BY <1>0 DEF Moved
<1>9. req[r].at # "destroy"
  BY DEF revokeSessions, At
<1>10. \A s : Leaving(s) => Leaving(s)'
  BY <1>0, <1>9, LeavingKept
<1> QED
  BY <1>0, <1>6, <1>7, <1>8, <1>10, SessFewer

LEMMA LogoutStep ==
  ASSUME Types, SessInv, NEW r \in Requests, logout(r) PROVE SessInv'
<1>0. /\ Moved(r) /\ req[r].at = "handle" /\ req'[r].at # "index"
      /\ UNCHANGED <<session, doomed, raised>>
  BY OwnSessionsMoves, OwnSessionsArrive DEF logout, ownSessions, history, At, Elsewhere
<1>1. PICK n : n = req[r].ses
  OBVIOUS
<1>2. Leaving(n)'
  <2>1. req' = [req EXCEPT ![r].at = "destroy"]
    BY DEF logout, Go
  <2>2. req'[r].at = "destroy" /\ req'[r].ses = n
    BY <1>1, <2>1 DEF Types, Req, Fields
  <2> QED
    BY <2>2 DEF Leaving, At
<1>3. \A u \in People : index'[u] \subseteq index[u] /\ index[u] \ {n} \subseteq index'[u]
  BY <1>1 DEF logout, Types
<1>4. Fewer
  BY <1>0, <1>2, <1>3 DEF Fewer
<1> QED
  BY <1>0, <1>4, SessQuiet

LEMMA DestroyStep ==
  ASSUME Types, SessInv, NEW r \in Requests, destroySession(r) PROVE SessInv'
<1>0. /\ Moved(r) /\ req[r].at = "destroy" /\ req'[r].at # "index"
      /\ UNCHANGED <<index, doomed, raised>>
  BY OwnSessionsMoves, OwnSessionsArrive DEF destroySession, ownSessions, history, At, Elsewhere
<1>1. PICK n : n = req[r].ses
  OBVIOUS
<1>2. session' = [session EXCEPT ![n].live = FALSE]
  BY <1>1 DEF destroySession
<1>3. \A s \in Sessions : /\ session'[s].who = session[s].who
                          /\ session'[s].forever => session[s].forever
                          /\ session'[s].live => session[s].live /\ s # n
  BY <1>2 DEF Types, SessionRow
<1>4. Fewer
  BY <1>0, <1>3 DEF Fewer
<1>5. ASSUME NEW s \in doomed, Chased(session[s].who, s) PROVE Chased(session[s].who, s)'
  <2>1. PICK u : u = session[s].who
    OBVIOUS
  <2>2. session'[s].who = u
    BY <1>3, <2>1 DEF Types
  <2>3. Chased(u, s)'
    BY <1>0, <1>5, <2>1, ChasedKept
  <2> QED
    BY <2>2, <2>3
<1>6. ASSUME NEW s \in doomed, Leaving(s), session'[s].live PROVE Leaving(s)'
  <2>1. PICK q \in Requests : At(q, "destroy") /\ req[q].ses = s
    BY <1>6 DEF Leaving
  <2>2. q # r /\ req'[q] = req[q]
    BY <1>0, <1>1, <1>3, <1>6, <2>1 DEF Moved, Types
  <2> QED
    BY <2>1, <2>2 DEF Leaving, At
<1>7. req' \in [Requests -> Req] /\ \A q \in Requests : req'[q].at = "index" => req'[q] = req[q]
  BY <1>0 DEF Moved
<1> QED
  BY <1>0, <1>4, <1>5, <1>6, <1>7, SessFewer

LEMMA SuspendStep ==
  ASSUME Types, SessInv, NEW r \in Requests, writeUser(r) PROVE SessInv'
<1>0. Moved(r) /\ UNCHANGED <<session, index, raised>> /\ req[r].at \in ChangeAts /\ req'[r].at # "index"
  BY PeopleMoves, PeopleArrive DEF writeUser, people, Elsewhere, ChangeAts
<1>1. req[r].on \in People /\ req[r].who # req[r].on /\ req[r] \in Fields /\ req[r].at \notin {"list", "revoke", "destroy"}
  BY <1>0 DEF Types, Req, Placed, OnAts, ChangeAts
<1>2. Fewer
  BY <1>0 DEF Fewer
<1>3. CASE UNCHANGED doomed
  BY <1>0, <1>1, <1>2, <1>3, SessQuiet
<1>4. CASE ~UNCHANGED doomed
  <2>1. PICK u : u = req[r].on
    OBVIOUS
  <2>2. Go(r, "list") /\ doomed' = doomed \cup {s \in index[u] : session[s].live}
    BY <1>4, <2>1 DEF writeUser
  <2>3. req'[r].at = "list" /\ req'[r].on = u /\ req'[r].who # u
    BY <1>1, <2>1, <2>2 DEF Go, Types, Req, Fields
  <2>4. \A s : Chased(u, s)'
    BY <2>3 DEF Chased, At
  <2>5. \A p, s : Chased(p, s) => Chased(p, s)'
    BY <1>0, <1>1, ChasedKept
  <2>6. IndexedOwn' /\ ForeverRaised'
    BY <1>0 DEF SessInv, IndexedOwn, ForeverRaised
  <2>7. OpenedOwn'
    BY <1>0 DEF Moved, SessInv, OpenedOwn, At
  <2>8. DoomedChased'
    <3> SUFFICES ASSUME NEW s \in doomed'
                 PROVE  /\ session[s].who \in People
                        /\ session[s].live /\ s \notin raised /\ ~Leaving(s)' =>
                             s \in index[session[s].who] /\ Chased(session[s].who, s)'
      BY <1>0 DEF DoomedChased
    <3>1. PICK p : p = session[s].who /\ p = session'[s].who
      BY <1>0
    <3>2. CASE s \in doomed
      <4>1. p \in People /\ (session[s].live /\ s \notin raised /\ ~Leaving(s) => s \in index[p] /\ Chased(p, s))
        BY <3>1, <3>2 DEF SessInv, DoomedChased
      <4>2. Leaving(s) => Leaving(s)'
        BY <1>0, <1>1, LeavingKept
      <4> QED
        BY <2>5, <3>1, <4>1, <4>2
    <3>3. CASE s \notin doomed
      <4>1. s \in index[u] /\ p = u
        BY <1>1, <2>1, <2>2, <3>1, <3>3 DEF SessInv, IndexedOwn
      <4> QED
        BY <1>1, <2>1, <2>4, <3>1, <4>1
    <3> QED
      BY <3>2, <3>3
  <2> QED
    BY <2>6, <2>7, <2>8 DEF SessInv
<1> QED
  BY <1>3, <1>4

LEMMA CrashStep ==
  ASSUME Types, SessInv, NEW r \in Requests, crash(r) PROVE SessInv'
<1>0. Moved(r) /\ UNCHANGED <<index, raised>> /\ req'[r].at = "idle"
  BY FinishMoves DEF crash, Idle
<1>1. Fewer
  <2>1. session' = session \/ session' = [session EXCEPT ![req[r].ses].live = FALSE]
    BY DEF crash
  <2>2. \A s \in Sessions : /\ session'[s].who = session[s].who
                            /\ session'[s].forever => session[s].forever
                            /\ session'[s].live => session[s].live
    BY <2>1 DEF Types, SessionRow
  <2> QED
    BY <1>0, <2>2 DEF Fewer
<1>2. doomed' = {s \in doomed : session[s].who # req[r].on /\ ~(At(r, "destroy") /\ req[r].ses = s)}
  BY DEF crash
<1>3. ASSUME NEW s \in doomed', Chased(session[s].who, s) PROVE Chased(session[s].who, s)'
  <2>0. s \in Sessions /\ session'[s].who = session[s].who /\ session[s].who # req[r].on
    BY <1>1, <1>2 DEF Types, Fewer
  <2>1. PICK q \in Requests : /\ req[q].on = session[s].who
                              /\ \/ At(q, "list") /\ req[q].who # req[q].on
                                 \/ At(q, "revoke") /\ s \in req[q].seen
    BY <1>3 DEF Chased
  <2>2. req'[q] = req[q]
    BY <1>0, <2>0, <2>1 DEF Moved
  <2> QED
    BY <2>0, <2>1, <2>2 DEF Chased, At
<1>4. req' \in [Requests -> Req] /\ \A q \in Requests : req'[q].at = "index" => req'[q] = req[q]
  BY <1>0 DEF Moved
<1>5. ASSUME NEW s \in doomed', Leaving(s) PROVE Leaving(s)'
  <2>1. PICK q \in Requests : At(q, "destroy") /\ req[q].ses = s
    BY <1>5 DEF Leaving
  <2>2. q # r /\ req'[q] = req[q]
    BY <1>0, <1>2, <1>5, <2>1 DEF Moved
  <2> QED
    BY <2>1, <2>2 DEF Leaving, At
<1> QED
  BY <1>0, <1>1, <1>2, <1>3, <1>4, <1>5, SessFewer

LEMMA SessStep == Types /\ SessInv /\ [Next]_vars => SessInv'
<1> SUFFICES ASSUME Types, SessInv, [Next]_vars PROVE SessInv'
  OBVIOUS
<1> USE DEF history
<1>0. UNCHANGED <<session, index>> => Fewer
  BY DEF Fewer
<1>a. ASSUME UNCHANGED <<req, doomed, raised>>, Fewer PROVE SessInv'
  <2>1. req' \in [Requests -> Req]
    BY <1>a DEF Types
  <2>2. ASSUME NEW s \in doomed, Chased(session[s].who, s) PROVE Chased(session[s].who, s)'
    <3>1. session'[s].who = session[s].who
      BY <1>a DEF Types, Fewer
    <3> QED
      BY <1>a, <2>2, <3>1 DEF Chased, At
  <2>3. \A s : Leaving(s) => Leaving(s)'
    BY <1>a DEF Leaving, At
  <2> QED
    BY <1>a, <2>1, <2>2, <2>3, SessFewer
<1>q. ASSUME NEW r \in Requests, Moved(r), req[r].at \notin {"list", "revoke", "destroy"}, req'[r].at # "index",
             UNCHANGED <<session, index, doomed, raised>>
      PROVE  SessInv'
  BY <1>0, <1>q, SessQuiet
<1>1. ASSUME NEW r \in Requests, signIn(r) PROVE SessInv'
  <2>1. CASE createSession(r)
    BY <2>1, OpenStep
  <2>2. CASE indexSession(r)
    BY <2>2, IndexStep
  <2>3. CASE ~createSession(r) /\ ~indexSession(r)
    <3>1. UNCHANGED <<session, index, doomed, raised>>
      BY <1>1, <2>3 DEF signIn, login, examine, countFailure, expireCount, lockOut, clearCount, clearFailedAttempts
    <3> QED
      BY <1>1, <1>q, <2>3, <3>1, SignInMoves, SignInArrives
  <2> QED
    BY <2>1, <2>2, <2>3
<1>2. ASSUME NEW r \in Requests, guard(r) PROVE SessInv'
  <2>1. CASE refreshLastSeen(r)
    BY <2>1, RefreshStep
  <2>2. CASE ~refreshLastSeen(r)
    <3>1. UNCHANGED <<session, index, doomed, raised>>
      BY <1>2, <2>2 DEF guard, resolveSession, resolveAccount, bearer
    <3> QED
      BY <1>2, <1>q, <3>1, GuardMoves, GuardArrives DEF Elsewhere
  <2> QED
    BY <2>1, <2>2
<1>3. ASSUME NEW r \in Requests, ownSessions(r) PROVE SessInv'
  <2>1. CASE listSessions(r)
    BY <2>1, ListStep
  <2>2. CASE revokeSessions(r)
    BY <2>2, RevokeStep
  <2>3. CASE logout(r)
    BY <2>3, LogoutStep
  <2>4. CASE destroySession(r)
    BY <2>4, DestroyStep
  <2>5. CASE revokeOtherSessions(r) \/ revokeSessionById(r)
    <3>1. UNCHANGED <<session, index, doomed, raised>> /\ req[r].at = "handle"
      BY <2>5 DEF revokeOtherSessions, revokeSessionById, At
    <3> QED
      BY <1>3, <1>q, <3>1, OwnSessionsMoves, OwnSessionsArrive DEF Elsewhere
  <2> QED
    BY <1>3, <2>1, <2>2, <2>3, <2>4, <2>5 DEF ownSessions
<1>4. ASSUME NEW r \in Requests, people(r) \/ claimGateway(r) \/ createOwner(r) PROVE SessInv'
  <2>1. CASE writeUser(r)
    BY <2>1, SuspendStep
  <2>2. CASE ~writeUser(r)
    <3>1. UNCHANGED <<session, index, doomed, raised>>
      BY <1>4, <2>2 DEF people, updateUser, removeUser, findUser, findTokens, deleteUser, createAdminApiToken,
                        revokeAdminApiToken, claimGateway, createOwner
    <3> QED
      BY <1>4, <1>q, <3>1, PeopleMoves, PeopleArrive DEF Elsewhere
  <2> QED
    BY <2>1, <2>2
<1>5. ASSUME NEW r \in Requests, crash(r) PROVE SessInv'
  BY <1>5, CrashStep
<1>6. ASSUME NEW n \in Sessions, expireSession(n) PROVE SessInv'
  <2>1. UNCHANGED <<req, doomed, raised, index>> /\ session' = [session EXCEPT ![n].live = FALSE]
    BY <1>6 DEF expireSession, Passing
  <2>2. \A s \in Sessions : /\ session'[s].who = session[s].who
                            /\ session'[s].forever => session[s].forever
                            /\ session'[s].live => session[s].live
    BY <2>1 DEF Types, SessionRow
  <2> QED
    BY <1>a, <2>1, <2>2 DEF Fewer
<1>7. ASSUME NEW u \in People, expireIndex(u) PROVE SessInv'
  <2>1. /\ UNCHANGED <<req, doomed, raised, session>> /\ index' = [index EXCEPT ![u] = {}]
        /\ \A s \in index[u] : session[s].live => session[s].forever
    BY <1>7 DEF expireIndex, Passing
  <2>2. Fewer
    BY <2>1 DEF Fewer, Types
  <2> QED
    BY <1>a, <2>1, <2>2
<1>8. CASE expireLock \/ expireFails \/ UNCHANGED vars
  BY <1>0, <1>8, <1>a DEF expireLock, expireFails, Passing, vars
<1> QED
  BY <1>1, <1>2, <1>3, <1>4, <1>5, <1>6, <1>7, <1>8 DEF Next

-----------------------------------------------------------------------------
(* The theorem.                                                            *)

\* Everyone an owner and signed in, or nobody there yet.
LEMMA AdminInit == Init => Types /\ LockInv /\ TokInv /\ SessInv
<1> SUFFICES ASSUME Init PROVE Types /\ LockInv /\ TokInv /\ SessInv
  OBVIOUS
<1> DEFINE there == IF left.claimed THEN People ELSE {}
<1>1. there \in SUBSET People /\ status = [u \in People |-> IF u \in there THEN "active" ELSE "none"]
  BY DEF Init
<1>2. PICK ids \in [there -> Sessions] :
        /\ session = [s \in Sessions |-> IF s \in Range(ids)
                        THEN SessionOf(CHOOSE u \in there : ids[u] = s) ELSE NoSession]
        /\ index = [u \in People |-> IF u \in there THEN {ids[u]} ELSE {}]
        /\ IsInjective(ids)
  BY Zenon DEF Init
<1> HIDE DEF there
<1>3. \A s \in Range(ids) : (CHOOSE u \in there : ids[u] = s) \in there
  BY DEF Range
<1>4. \A u \in there : (CHOOSE p \in there : ids[p] = ids[u]) = u /\ ids[u] \in Range(ids) /\ ids[u] \in Sessions
  BY <1>2 DEF Range, IsInjective
<1>5. \A u \in there : SessionOf(u) \in SessionRow /\ SessionOf(u).who = u /\ SessionOf(u).forever = FALSE
  BY <1>1 DEF SessionOf, NoSession, SessionRow, Anyone
<1>6. NoSession \in SessionRow /\ NoSession.forever = FALSE
  BY DEF NoSession, SessionRow, Anyone
<1>7. session \in [Sessions -> SessionRow] /\ \A s \in Sessions : session[s].forever = FALSE
  BY <1>2, <1>3, <1>5, <1>6
<1>8. index \in [People -> SUBSET Sessions]
  BY <1>2, <1>4
<1>9. /\ token = [t \in Tokens |-> [is |-> "none", by |-> Nobody]]
      /\ fails = [n |-> 0, ttl |-> TRUE] /\ locked = FALSE
      /\ req = [r \in Requests |-> Idle]
      /\ guesses = 0 /\ doomed = {} /\ raised = {} /\ between = {}
      /\ minter = [t \in Tokens |-> Nobody]
  BY DEF Init
<1>10. Types
  <2>1. req \in [Requests -> Req]
    BY <1>9, IdleReq
  <2>2. status \in [People -> {"none", "active", "suspended", "gone"}]
    BY <1>1
  <2>3. token \in [Tokens -> [is : {"none", "live", "revoked"}, by : Anyone]] /\ minter \in [Tokens -> Anyone]
    BY <1>9 DEF Anyone
  <2>4. fails \in [n : Nat, ttl : BOOLEAN] /\ locked \in BOOLEAN /\ guesses \in Nat /\ doomed \subseteq Sessions
    BY <1>9
  <2> QED
    BY <1>7, <1>8, <2>1, <2>2, <2>3, <2>4 DEF Types
<1>11. \A r \in Requests : req[r].at = "idle"
  BY <1>9 DEF Idle
<1>12. LockInv
  <2>1. Num({"count"}) \in Nat /\ Num(Guilty) \in Nat /\ MAX_LOGIN_ATTEMPTS \in Nat \ {0} /\ fails.n = 0 /\ guesses = 0 /\ ~locked
    BY <1>9, NumNat, AdminConstants
  <2> QED
    BY <2>1 DEF LockInv
<1>13. TokInv
  BY <1>9, <1>11 DEF TokInv, OwnedByMinter, RemovalHasRead, TokensGoWithPerson, At
<1>14. SessInv
  <2>1. IndexedOwn
    <3>1. ASSUME NEW u \in there PROVE session[ids[u]].who = u
      <4>1. session[ids[u]] = SessionOf(u)
        BY <1>2, <1>4
      <4> QED
        BY <4>1, <1>5
    <3>2. \A u \in People : \A s \in index[u] : u \in there /\ s = ids[u]
      BY <1>2
    <3> QED
      BY <3>1, <3>2 DEF IndexedOwn
  <2>2. OpenedOwn
    BY <1>11 DEF OpenedOwn, At
  <2>3. ForeverRaised
    BY <1>7 DEF ForeverRaised
  <2>4. DoomedChased
    BY <1>9 DEF DoomedChased
  <2> QED
    BY <2>1, <2>2, <2>3, <2>4 DEF SessInv
<1> QED
  BY <1>10, <1>12, <1>13, <1>14

LEMMA LockoutFollows == Types /\ LockInv => LockoutHolds
<1> SUFFICES ASSUME Types, LockInv PROVE LockoutHolds
  OBVIOUS
<1>1. /\ Num({"check"}) \in Nat /\ Num(Guilty) \in Nat /\ Num({"check"}) + Num(Guilty) <= Cardinality(Requests)
      /\ MAX_LOGIN_ATTEMPTS \in Nat /\ Cardinality(Requests) \in Nat /\ guesses \in Nat /\ locked \in BOOLEAN
  BY NumNat, NumBounds, AdminConstants, FS_CardinalityType DEF Types
<1>2. CASE locked
  BY <1>1, <1>2 DEF LockInv, LockoutHolds
<1>3. CASE ~locked
  BY <1>1, <1>3 DEF LockInv, LockoutHolds
<1> QED
  BY <1>1, <1>2, <1>3

\* However many sign-ins, removals and suspensions overlap, for any number of
\* people, tokens and sessions and any threshold: a source has fewer than
\* MAX_LOGIN_ATTEMPTS wrong credentials examined beyond those already past
\* the lockout's check (recordFailedAttempt); a person who is removed leaves
\* no working token but one minted between the removal's two statements
\* (removeUser); and a session that a suspension was to erase works again
\* only if a request that had read it before wrote it back, or for as long as
\* a sign-out has it unlisted and not yet deleted (updateUser).
THEOREM AdminSafe == Spec => [](LockoutHolds /\ TokensGoWithPerson /\ SuspensionErases)
<1> DEFINE Inv == Types /\ LockInv /\ TokInv /\ SessInv
<1>1. Init => Inv
  BY AdminInit
<1>2. Inv /\ [Next]_vars => Inv'
  BY TypeStep, LockStep, TokStep, SessStep
<1>3. Inv => LockoutHolds /\ TokensGoWithPerson /\ SuspensionErases
  <2>1. Inv => LockoutHolds /\ TokensGoWithPerson
    BY LockoutFollows DEF TokInv
  <2>2. SessInv => SuspensionErases
    BY DEF SessInv, DoomedChased, SuspensionErases, Chased, Leaving, At
  <2> QED
    BY <2>1, <2>2
<1> QED
  BY <1>1, <1>2, <1>3, PTL DEF Spec

=============================================================================
