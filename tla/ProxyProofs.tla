---------------------------- MODULE ProxyProofs ----------------------------
(***************************************************************************)
(* The proxy pipeline, for any number of requests, keys, teams, pools and  *)
(* models.  What a request holds, whom its key belongs to and what it may  *)
(* be charged follow from that request's own record, so the invariant says *)
(* Good of each record; a step of a request changes its record, and leaves *)
(* marks on keys only as the change allows (Counted).  What the requests   *)
(* share, the tokens of a key, is then a sum that changes in one summand.  *)
(***************************************************************************)
EXTENDS Proxy, SumProofs

Fields == {"at", "ask", "scope", "tier", "pass", "next", "exact", "gone", "key", "model", "probe",
           "took", "reserve", "ledger", "verdict", "blame"}

Asks == [team : Teams \cup {NoTeam}, kind : {"chat", "image"}, stream : BOOLEAN,
         session : Sessions \cup {NoUser}, user : Callers, pin : Models \cup {NoModel}]

Scopes == [owner : Teams \cup {NoTeam}, fallback : BOOLEAN, namespace : Teams \cup {NoTeam}, byokOnly : BOOLEAN]

Early  == {"new", "guard", "cache", "route"}
Serves == {"vet", "fetch", "errbody", "error", "body", "read", "write"}
Causes == {"none", "provider", "timer"}

\* The record of a request.  A model has no type of its own here: it is what an offer names.
Shape(q) ==
  /\ DOMAIN q = Fields
  /\ q.at \in Early \cup Serves \cup {"report", "done"}
  /\ q.ask \in Asks /\ q.scope \in Scopes /\ q.tier \in {FastTier, NoTier}
  /\ q.pass \in {"sticky", "own", "shared", "none"} /\ q.next \in Nat \ {0}
  /\ q.exact \in BOOLEAN /\ q.probe \in BOOLEAN
  /\ q.key \in Keys \cup {NoKey} /\ q.took \in Nat /\ q.reserve \in Nat
  /\ q.blame \in Causes

\* What a request holds goes with where it is.
Place(q) ==
  /\ q.at = "new" => q.pass = "sticky"
  /\ q.at \in Early => q.ledger = "none" /\ q.verdict = "open" /\ q.key = NoKey /\ ~q.probe
  /\ q.at \in Serves => /\ q.ledger = "held" /\ q.verdict = "open" /\ q.key \in Keys
                        /\ q.reserve = q.took /\ q.ask.pin \in {NoModel, q.model}
  /\ q.at = "report" => q.ledger = "returned" /\ q.verdict = "open" /\ q.key \in Keys

\* Whose keys the sweep is at, and whose key was chosen.
InScope(q) ==
  /\ q.scope.owner \in {NoTeam, q.scope.namespace}
  /\ q.pass = "own" => q.scope.owner # NoTeam
  /\ q.pass = "shared" => q.scope.owner = NoTeam \/ q.scope.fallback
  /\ q.key # NoKey => Eligible(q.scope, q.key)

Good(q) == Shape(q) /\ Place(q) /\ InScope(q)

\* The accounting step that takes record p to record q: Settlement's, on one request.
Move(p, q) ==
  \/ q.ledger = p.ledger /\ q.verdict = p.verdict
  \/ /\ p.verdict = "open"
     /\ \/ p.ledger = "none" /\ q.ledger = "held" /\ q.verdict = "open"
        \/ p.ledger = "held" /\ q.ledger = "returned" /\ q.verdict = "open"
        \/ q.ledger = p.ledger /\ q.verdict = "lost"
        \/ p.ledger = "none" /\ q.ledger = "none" /\ q.verdict \in Account!Refusals
        \/ p.ledger \in {"held", "returned"} /\ q.ledger = "returned" /\ q.verdict \in Account!Unbilled
        \/ p.ledger = "held" /\ q.ledger = "billed" /\ q.verdict \in Account!Delivered

\* What a record has on its key's token counter.
Cost(q) == IF q.ledger = "held" THEN q.took ELSE IF q.ledger = "billed" THEN Kept(q.took) ELSE 0
CostOn(q, k) == IF q.key = k THEN Cost(q) ELSE 0

\* The same request, on the same key once it has one.
Follows(p, q) ==
  /\ q.ask.user = p.ask.user
  /\ p.probe => q.probe
  /\ p.key # NoKey => q.key = p.key

\* The marks that taking p to q leaves on the keys.
Counted(p, q) ==
  /\ tpm' \in [Keys -> Int]
  /\ \A k \in Keys : tpm'[k] = (tpm[k] - CostOn(p, k)) + CostOn(q, k)
  /\ \A k \in Keys : users'[k] \subseteq users[k] \cup (IF q.key = k THEN {q.ask.user} ELSE {})
  /\ \A k \in slot' : k \in slot \/ (q.key = k /\ q.probe)

CacheGood(e) == e.payer \in {NoTeam, e.key[1]} /\ e.whole /\ e.key[2] \in {NoModel, e.model}

\* What the requests share, but for the tokens.
Stores ==
  /\ registry \in {Models, {}}
  /\ gate \in [Keys -> {"closed", "open", "due", "banned"}] /\ slot \subseteq Keys
  /\ users \in [Keys -> SUBSET Callers]
  /\ sticky \in [Sessions -> Keys \cup {NoKey}]
  /\ \A e \in cache : CacheGood(e)

Inv ==
  /\ Stores
  /\ tpm \in [Keys -> Int]
  /\ DOMAIN run = Requests /\ \A r \in Requests : Good(run[r])

\* A step of request r.
Step(r) == \E q :
  Set(r, q) /\ Good(q) /\ Move(run[r], q) /\ Follows(run[r], q) /\ Counted(run[r], q) /\ Stores'

----------------------------------------------------------------------------
(* Records.                                                                *)

\* What Over makes of a record.
Concluded(q, p, outcome, ledger) ==
  /\ DOMAIN q = Fields
  /\ q.at = "done" /\ q.verdict = outcome /\ q.ledger = ledger
  /\ q.pass = "sticky" /\ q.next = 1 /\ q.tier = NoTier /\ q.exact \in BOOLEAN /\ q.reserve = 0
  /\ q.ask = p.ask /\ q.scope = p.scope /\ q.key = p.key /\ q.probe = p.probe /\ q.took = p.took

LEMMA OverFields ==
  ASSUME NEW r, DOMAIN run[r] = Fields, NEW outcome, NEW ledger
  PROVE  /\ Concluded(Over(r, outcome, ledger), run[r], outcome, ledger)
         /\ Over(r, outcome, ledger).blame = run[r].blame
  BY DEF Over, Fields, Concluded

Blamed(q, cause) == [q EXCEPT !.blame = cause]

LEMMA BlamedFields ==
  ASSUME NEW r, DOMAIN run[r] = Fields, NEW outcome, NEW ledger, NEW cause
  PROVE  /\ Concluded(Blamed(Over(r, outcome, ledger), cause), run[r], outcome, ledger)
         /\ Blamed(Over(r, outcome, ledger), cause).blame = cause
<1>1. PICK q : q = Over(r, outcome, ledger)
  OBVIOUS
<1>2. Concluded(q, run[r], outcome, ledger)
  BY <1>1, OverFields
<1>3. Concluded(Blamed(q, cause), run[r], outcome, ledger) /\ Blamed(q, cause).blame = cause
  BY <1>2 DEF Concluded, Fields, Blamed
<1> QED
  BY <1>1, <1>3

LEMMA ConcludedGood ==
  ASSUME NEW p, Good(p), NEW q, NEW outcome, NEW ledger, Concluded(q, p, outcome, ledger), q.blame \in Causes
  PROVE  Good(q) /\ Follows(p, q)
<1>1. Shape(q)
  BY DEF Good, Shape, Concluded
<1>2. Place(q)
  BY DEF Place, Early, Serves, Concluded
<1>3. InScope(q)
  BY DEF Good, InScope, Concluded
<1>4. Follows(p, q)
  BY DEF Follows, Concluded
<1> QED
  BY <1>1, <1>2, <1>3, <1>4 DEF Good

LEMMA CostType ==
  ASSUME NEW q, Good(q)
  PROVE  Cost(q) \in Nat /\ \A k : CostOn(q, k) \in Nat
  BY ProxyConstants DEF Good, Shape, Cost, CostOn, Kept

----------------------------------------------------------------------------
(* Marks.                                                                  *)

\* Nothing is counted, and the record costs what it did.
LEMMA NothingCounted ==
  ASSUME Inv, NEW p, Good(p), NEW q, q.key = p.key, Cost(q) = Cost(p), UNCHANGED <<tpm, users>>, slot' \subseteq slot
  PROVE  Counted(p, q)
<1>1. \A k \in Keys : CostOn(q, k) = CostOn(p, k) /\ CostOn(p, k) \in Nat
  BY CostType DEF CostOn
<1> QED
  BY <1>1 DEF Counted, Inv

\* A refund takes the record's cost off its key's counter, a bill replaces it by what was used.
LEMMA SettlementCounted ==
  ASSUME Inv, NEW r \in Requests, run[r].at \in Serves, NEW q, q.key = run[r].key,
         (Refund(r) /\ q.ledger = "returned") \/ (reconcileTpm(r) /\ q.ledger = "billed"),
         UNCHANGED users, slot' \subseteq slot, q.took = run[r].took
  PROVE  Counted(run[r], q)
<1>1. PICK p : p = run[r]
  OBVIOUS
<1>2. Good(p) /\ p.key \in Keys /\ p.ledger = "held" /\ p.reserve = p.took /\ p.took \in Nat
  BY <1>1 DEF Inv, Good, Place, Shape
<1>3. tpm \in [Keys -> Int] /\ Kept(p.took) \in Nat
  BY <1>2, ProxyConstants DEF Inv, Kept
<1>4. tpm' \in [Keys -> Int]
  BY <1>1, <1>2, <1>3 DEF Refund, reconcileTpm
<1>5. ASSUME NEW k \in Keys PROVE tpm'[k] = (tpm[k] - CostOn(p, k)) + CostOn(q, k)
  BY <1>1, <1>2, <1>3 DEF Refund, reconcileTpm, CostOn, Cost
<1> QED
  BY <1>1, <1>4, <1>5 DEF Counted

\* What an answer does to its key opens, closes or bans it and at most frees its probe slot.
LEMMA Reports ==
  ASSUME Stores, NEW k \in Keys, NEW isProbe \in BOOLEAN,
         \/ reportSuccess(k) \/ reportServerFailure(k, isProbe)
         \/ reportRateLimit(k) \/ reportAuthFailure(k)
  PROVE  gate' \in [Keys -> {"closed", "open", "due", "banned"}] /\ slot' \subseteq slot
<1> USE DEF Stores
<1>1. CASE reportSuccess(k)
  BY <1>1 DEF reportSuccess
<1>2. CASE reportServerFailure(k, isProbe)
  BY <1>2 DEF reportServerFailure
<1>3. CASE reportRateLimit(k)
  BY <1>3 DEF reportRateLimit
<1>4. CASE reportAuthFailure(k)
  BY <1>4 DEF reportAuthFailure
<1> QED
  BY <1>1, <1>2, <1>3, <1>4

LEMMA Healthy ==
  ASSUME Stores, NEW r \in Requests, Good(run[r]), run[r].key \in Keys, markHealthy(r)
  PROVE  /\ gate' \in [Keys -> {"closed", "open", "due", "banned"}] /\ slot' \subseteq slot
         /\ sticky' \in [Sessions -> Keys \cup {NoKey}]
<1>1. run[r].ask.session \in Sessions \cup {NoUser}
  BY DEF Good, Shape, Asks
<1>2. PICK k \in Keys : k = run[r].key
  OBVIOUS
<1>3. gate' \in [Keys -> {"closed", "open", "due", "banned"}] /\ slot' \subseteq slot
  BY <1>2, Reports DEF markHealthy
<1> QED
  BY <1>1, <1>3 DEF markHealthy, Stores

\* An answer is cached under the namespace of the team whose key paid for it, or paid for by the
\* shared pool, and under the model that was pinned.
LEMMA Caches ==
  ASSUME Stores, NEW r \in Requests, Good(run[r]), run[r].at \in Serves, setCached(r, TRUE)
  PROVE  \A e \in cache' : CacheGood(e)
<1> DEFINE new == [key |-> CacheKey(r), payer |-> KeyOwner[run[r].key], model |-> run[r].model, whole |-> TRUE]
<1>1. run[r].key \in Keys /\ run[r].key # NoKey /\ run[r].ask.pin \in {NoModel, run[r].model}
  BY ProxyConstants DEF Good, Place
<1>2. KeyOwner[run[r].key] \in {NoTeam, run[r].scope.namespace}
  BY <1>1 DEF Good, InScope, Eligible
<1>3. CacheGood(new)
  BY <1>1, <1>2 DEF CacheGood, CacheKey
<1>4. ASSUME NEW e \in cache' PROVE e \in cache \/ e = new
  BY <1>4 DEF setCached
<1> QED
  BY <1>3, <1>4 DEF Stores

----------------------------------------------------------------------------
(* What a step does to the whole.                                          *)

LEMMA StepKeepsInv ==
  ASSUME Inv, NEW r \in Requests, Step(r)
  PROVE  Inv'
<1>1. PICK q : Set(r, q) /\ Good(q) /\ Counted(run[r], q) /\ Stores'
  BY DEF Step
<1>2. run' = [run EXCEPT ![r] = q]
  BY <1>1 DEF Set
<1>3. DOMAIN run' = Requests /\ \A s \in Requests : run'[s] = IF s = r THEN q ELSE run[s]
  BY <1>2 DEF Inv
<1>4. ASSUME NEW s \in Requests PROVE Good(run'[s])
  BY <1>1, <1>3 DEF Inv
<1>5. tpm' \in [Keys -> Int]
  BY <1>1 DEF Counted
<1>6. \A s \in Requests : Good(run[s])'
  BY <1>4 DEF Good, Shape, Place, InScope
<1> QED
  BY <1>1, <1>3, <1>5, <1>6 DEF Inv

LEMMA StepSettles ==
  ASSUME Inv, NEW r \in Requests, Step(r)
  PROVE  [Account!Next]_Account!vars
<1> DEFINE led == [s \in Requests |-> run[s].ledger]
           ver == [s \in Requests |-> run[s].verdict]
<1>1. PICK q : Set(r, q) /\ Move(run[r], q)
  BY DEF Step
<1>2. DOMAIN run = Requests /\ run' = [run EXCEPT ![r] = q]
  BY <1>1 DEF Set, Inv
<1>3. \A s \in Requests : run'[s] = IF s = r THEN q ELSE run[s]
  BY <1>2
<1>4. led' = [led EXCEPT ![r] = q.ledger] /\ ver' = [ver EXCEPT ![r] = q.verdict]
  BY <1>3
<1>5. led[r] = run[r].ledger /\ ver[r] = run[r].verdict
  OBVIOUS
<1>6. CASE q.ledger = run[r].ledger /\ q.verdict = run[r].verdict
  <2>1. led' = led /\ ver' = ver
    BY <1>4, <1>6
  <2> QED
    BY <2>1 DEF Account!vars
<1>7. CASE run[r].verdict = "open" /\ run[r].ledger = "none" /\ q.ledger = "held" /\ q.verdict = "open"
  <2>1. ver' = ver
    BY <1>4, <1>7
  <2>2. Account!Hold(r)
    BY <1>4, <1>5, <1>7, <2>1 DEF Account!Hold
  <2> QED
    BY <2>2 DEF Account!Next
<1>8. CASE run[r].verdict = "open" /\ run[r].ledger = "held" /\ q.ledger = "returned" /\ q.verdict = "open"
  <2>1. ver' = ver
    BY <1>4, <1>8
  <2>2. Account!GiveBack(r)
    BY <1>4, <1>5, <1>8, <2>1 DEF Account!GiveBack
  <2> QED
    BY <2>2 DEF Account!Next
<1>9. CASE run[r].verdict = "open" /\ q.ledger = run[r].ledger /\ q.verdict = "lost"
  <2>1. led' = led
    BY <1>4, <1>9
  <2>2. Account!Lose(r)
    BY <1>4, <1>5, <1>9, <2>1 DEF Account!Lose
  <2> QED
    BY <2>2 DEF Account!Next
<1>10. CASE /\ run[r].verdict = "open"
            /\ \/ run[r].ledger = "none" /\ q.ledger = "none" /\ q.verdict \in Account!Refusals
               \/ run[r].ledger \in {"held", "returned"} /\ q.ledger = "returned" /\ q.verdict \in Account!Unbilled
               \/ run[r].ledger = "held" /\ q.ledger = "billed" /\ q.verdict \in Account!Delivered
  <2>1. Account!Conclude(r, q.ledger, q.verdict)
    BY <1>4, <1>5, <1>10 DEF Account!Conclude
  <2>2. q.ledger \in {"none", "returned", "billed"} /\ q.verdict \in Account!Refusals \cup Account!Unbilled
    BY <1>10 DEF Account!Refusals, Account!Unbilled, Account!Delivered
  <2> QED
    BY <2>1, <2>2 DEF Account!Next
<1> QED
  BY <1>1, <1>6, <1>7, <1>8, <1>9, <1>10 DEF Move

\* The tokens of a key are a sum over the requests it was chosen for: a step changes one summand,
\* or adds the request that has just chosen the key.
LEMMA StepKeepsMarks ==
  ASSUME Inv, MarksEarned, NEW r \in Requests, Step(r), UNCHANGED twoWay
  PROVE  MarksEarned'
<1>1. PICK q : Set(r, q) /\ Good(q) /\ Follows(run[r], q) /\ Counted(run[r], q)
  BY DEF Step
<1>2. PICK old : old = run
  OBVIOUS
<1>3. PICK new : new = run'
  OBVIOUS
<1>4. /\ \A s \in Requests : new[s] = IF s = r THEN q ELSE old[s]
      /\ \A s \in Requests : Good(old[s]) /\ Good(new[s])
  BY <1>1, <1>2, <1>3 DEF Set, Inv
<1> DEFINE charge(R) == [s \in Requests |-> Cost(R[s])]
           served(R, k) == {s \in Requests : R[s].key = k}
<1>5. \A s \in Requests : Charge(s) = charge(old)[s] /\ Charge(s)' = charge(new)[s]
  BY <1>2, <1>3 DEF Charge, Cost, Kept
<1>6. \A s \in Requests : charge(old)[s] \in Int /\ charge(new)[s] \in Int
  BY <1>4, CostType
<1>7. Charges = charge(old) /\ Charges' = charge(new)
  BY <1>5 DEF Charges
<1>8. \A k : Served(k) = served(old, k) /\ Served(k)' = served(new, k)
  BY <1>2, <1>3 DEF Served, Key
<1> SUFFICES ASSUME NEW k \in Keys
             PROVE  /\ tpm'[k] = SumFunctionOnSet(charge(new), served(new, k))
                    /\ users'[k] \subseteq {new[s].ask.user : s \in served(new, k)}
                    /\ k \in slot' => \E s \in served(new, k) : new[s].probe
  <2> HIDE DEF charge, served
  <2> QED
    BY <1>3, <1>7, <1>8 DEF MarksEarned
<1>9. /\ tpm[k] = SumFunctionOnSet(charge(old), served(old, k))
      /\ users[k] \subseteq {old[s].ask.user : s \in served(old, k)}
      /\ k \in slot => \E s \in served(old, k) : old[s].probe
  <2> HIDE DEF charge, served
  <2> QED
    BY <1>2, <1>7, <1>8 DEF MarksEarned
<1>10. IsFiniteSet(served(old, k)) /\ served(old, k) \subseteq Requests
  BY ProxyConstants, FS_Subset
<1>11. served(new, k) = served(old, k) \cup (IF q.key = k THEN {r} ELSE {})
  <2>1. k # NoKey /\ (old[r].key = k => q.key = k)
    BY <1>1, <1>2, ProxyConstants DEF Follows
  <2> QED
    BY <1>4, <2>1
<1>12. tpm'[k] = SumFunctionOnSet(charge(new), served(new, k))
  <2>1. tpm'[k] = (tpm[k] - CostOn(old[r], k)) + CostOn(q, k)
    BY <1>1, <1>2 DEF Counted
  <2>2. PICK f, g, S : f = charge(old) /\ g = charge(new) /\ S = served(old, k)
    OBVIOUS
  <2>3. IsFiniteSet(S)
    BY <1>10, <2>2
  <2>4. tpm[k] = SumFunctionOnSet(f, S)
    BY <1>9, <2>2
  <2>5. SumFunctionOnSet(f, S) \in Int
    <3>1. \A x \in S : f[x] \in Int
      BY <1>6, <1>10, <2>2
    <3> QED
      BY <2>3, <3>1, SumType
  <2>6. f[r] = Cost(old[r]) /\ g[r] = Cost(q)
    BY <1>4, <2>2
  <2>7. CASE old[r].key = k
    <3>1. r \in S /\ S = served(new, k) /\ q.key = k
      BY <1>1, <1>2, <1>11, <2>2, <2>7, ProxyConstants DEF Follows
    <3>2. \A x \in S : f[x] \in Int /\ g[x] \in Int
      BY <1>6, <1>10, <2>2
    <3>3. \A x \in S \ {r} : g[x] = f[x]
      BY <1>4, <1>10, <2>2
    <3>4. SumFunctionOnSet(g, S) = (SumFunctionOnSet(f, S) - f[r]) + g[r]
      BY <2>3, <3>1, <3>2, <3>3, SumChange
    <3>5. tpm'[k] = (SumFunctionOnSet(f, S) - f[r]) + g[r]
      BY <2>1, <2>4, <2>6, <2>7, <3>1 DEF CostOn
    <3> QED
      BY <2>2, <3>1, <3>4, <3>5, Zenon
  <2>8. CASE old[r].key # k /\ q.key = k
    <3>1. r \notin S /\ S \cup {r} = served(new, k)
      BY <1>11, <2>2, <2>8
    <3>2. \A x \in S \cup {r} : g[x] \in Int
      BY <1>6, <1>10, <2>2
    <3>3. \A x \in S : g[x] = f[x]
      BY <1>4, <1>10, <2>2, <3>1
    <3>4. SumFunctionOnSet(g, S \cup {r}) = g[r] + SumFunctionOnSet(g, S)
      BY <2>3, <3>1, <3>2, SumAdd
    <3>5. SumFunctionOnSet(g, S) = SumFunctionOnSet(f, S)
      BY <2>3, <3>3, SumEqual
    <3>6. g[r] \in Int
      BY <3>2
    <3>7. tpm'[k] = g[r] + SumFunctionOnSet(f, S)
      BY <2>1, <2>4, <2>5, <2>6, <2>8, <3>6 DEF CostOn
    <3> QED
      BY <2>2, <3>1, <3>4, <3>5, <3>7, Zenon
  <2>9. CASE old[r].key # k /\ q.key # k
    <3>1. r \notin S /\ S = served(new, k)
      BY <1>11, <2>2, <2>9
    <3>2. \A x \in S : g[x] = f[x]
      BY <1>4, <1>10, <2>2, <3>1
    <3>3. SumFunctionOnSet(g, S) = SumFunctionOnSet(f, S)
      BY <2>3, <3>2, SumEqual
    <3>4. tpm'[k] = SumFunctionOnSet(f, S)
      BY <2>1, <2>4, <2>5, <2>9 DEF CostOn
    <3> QED
      BY <2>2, <3>1, <3>3, <3>4, Zenon
  <2> QED
    BY <2>7, <2>8, <2>9
<1>13. users'[k] \subseteq {new[s].ask.user : s \in served(new, k)}
  BY <1>1, <1>2, <1>4, <1>9, <1>11 DEF Counted, Follows
<1>14. k \in slot' => \E s \in served(new, k) : new[s].probe
  BY <1>1, <1>2, <1>4, <1>9, <1>11 DEF Counted, Follows
<1> QED
  BY <1>12, <1>13, <1>14

----------------------------------------------------------------------------
(* The steps, one by one.  First the forms they share.                     *)

\* Nothing shared changes and nothing is settled.
LEMMA QuietStep ==
  ASSUME Inv, NEW r \in Requests, NEW q, Set(r, q), Good(q), Follows(run[r], q), Move(run[r], q),
         q.key = run[r].key, Cost(q) = Cost(run[r]), UNCHANGED <<storeVars, registry>>
  PROVE  Step(r)
<1>1. Good(run[r])
  BY DEF Inv
<1>2. UNCHANGED <<tpm, users>> /\ slot' \subseteq slot
  BY DEF storeVars, keyVars
<1>3. Counted(run[r], q)
  <2>1. PICK p : p = run[r]
    OBVIOUS
  <2>2. Counted(p, q)
    BY <1>1, <1>2, <2>1, NothingCounted
  <2> QED
    BY <2>1, <2>2
<1>4. Stores'
  BY DEF Inv, Stores, storeVars, keyVars
<1> QED
  BY <1>3, <1>4 DEF Step

\* The request ends without having settled anything: refused while it held nothing, or lost.
LEMMA QuietEnd ==
  ASSUME Inv, NEW r \in Requests, NEW outcome, Observe(r, outcome), UNCHANGED <<storeVars, registry>>,
         run[r].verdict = "open",
         outcome = "lost" \/ (run[r].ledger = "none" /\ outcome \in Account!Refusals)
  PROVE  Step(r)
<1>1. PICK q : q = Over(r, outcome, run[r].ledger)
  OBVIOUS
<1>2. Good(run[r]) /\ DOMAIN run[r] = Fields /\ run[r].blame \in Causes
  BY DEF Inv, Good, Shape
<1>3. Concluded(q, run[r], outcome, run[r].ledger) /\ q.blame = run[r].blame
  BY <1>1, <1>2, OverFields
<1>4. Good(q) /\ Follows(run[r], q)
  BY <1>2, <1>3, ConcludedGood
<1>5. Move(run[r], q) /\ q.key = run[r].key /\ Cost(q) = Cost(run[r])
  BY <1>3 DEF Concluded, Move, Cost
<1> QED
  BY <1>1, <1>4, <1>5, QuietStep DEF Observe

\* The reservation is given back or billed.
LEMMA SettlingStep ==
  ASSUME Inv, NEW r \in Requests, run[r].at \in Serves, NEW q, Set(r, q), Good(q), Follows(run[r], q), Move(run[r], q),
         q.took = run[r].took, (Refund(r) /\ q.ledger = "returned") \/ (reconcileTpm(r) /\ q.ledger = "billed"),
         UNCHANGED users, slot' \subseteq slot, Stores'
  PROVE  Step(r)
<1>1. run[r].key # NoKey
  BY ProxyConstants DEF Inv, Good, Place
<1>2. q.key = run[r].key
  BY <1>1 DEF Follows
<1>3. Counted(run[r], q)
  BY <1>2, SettlementCounted
<1> QED
  BY <1>3 DEF Step

\* ... and the request ends.
LEMMA SettlingEnd ==
  ASSUME Inv, NEW r \in Requests, run[r].at \in Serves, NEW outcome, NEW ledger, NEW cause \in Causes,
         \/ Set(r, Over(r, outcome, ledger))
         \/ Set(r, [Over(r, outcome, ledger) EXCEPT !.blame = cause]),
         \/ Refund(r) /\ ledger = "returned" /\ outcome \in Account!Unbilled
         \/ reconcileTpm(r) /\ ledger = "billed" /\ outcome \in Account!Delivered,
         UNCHANGED users, slot' \subseteq slot, Stores'
  PROVE  Step(r)
<1>1. /\ Good(run[r]) /\ DOMAIN run[r] = Fields /\ run[r].blame \in Causes
      /\ run[r].ledger = "held" /\ run[r].verdict = "open"
  BY DEF Inv, Good, Shape, Place
<1>2. PICK q : Set(r, q) /\ Concluded(q, run[r], outcome, ledger) /\ q.blame \in Causes
  <2>1. CASE Set(r, Over(r, outcome, ledger))
    <3>1. /\ Concluded(Over(r, outcome, ledger), run[r], outcome, ledger)
          /\ Over(r, outcome, ledger).blame \in Causes
      BY <1>1, OverFields
    <3> QED
      BY <2>1, <3>1
  <2>2. CASE Set(r, [Over(r, outcome, ledger) EXCEPT !.blame = cause])
    <3>1. /\ Concluded(Blamed(Over(r, outcome, ledger), cause), run[r], outcome, ledger)
          /\ Blamed(Over(r, outcome, ledger), cause).blame = cause
      BY <1>1, BlamedFields
    <3>2. Set(r, Blamed(Over(r, outcome, ledger), cause))
      BY <2>2 DEF Blamed
    <3> QED
      BY <3>1, <3>2
  <2> QED
    BY <2>1, <2>2
<1>3. Good(q) /\ Follows(run[r], q)
  BY <1>1, <1>2, ConcludedGood
<1>4. q.ledger = ledger /\ q.verdict = outcome /\ q.took = run[r].took
  BY <1>2 DEF Concluded
<1>5. Move(run[r], q)
  BY <1>1, <1>4 DEF Move
<1> QED
  BY <1>2, <1>3, <1>4, <1>5, SettlingStep

LEMMA StoresKept ==
  ASSUME Inv, UNCHANGED <<keyVars, sticky, cache, registry>>
  PROVE  Stores' /\ UNCHANGED users /\ slot' \subseteq slot
  BY DEF Inv, Stores, keyVars

----------------------------------------------------------------------------
(* Admission, guardrails and the cache.                                    *)

LEMMA ScopeResolved ==
  ASSUME NEW team \in Teams \cup {NoTeam}, NEW policy, NEW s, s = resolveScope(team, policy)
  PROVE  s \in Scopes /\ s.owner \in {NoTeam, s.namespace}
<1>1. (policy = "fallback") \in BOOLEAN
  OBVIOUS
<1> QED
  BY <1>1 DEF resolveScope, Scopes

LEMMA AdmitStep == ASSUME Inv, NEW r \in Requests, admitRequest(r) PROVE Step(r)
<1>1. PICK p : p = run[r]
  OBVIOUS
<1>2. /\ Good(p) /\ p.at = "new" /\ p.ledger = "none" /\ p.verdict = "open" /\ p.key = NoKey /\ p.pass = "sticky"
      /\ p.ask \in Asks
  BY <1>1 DEF Inv, Good, Place, Shape, Early, admitRequest, At
<1>3. UNCHANGED <<storeVars, registry>>
  BY DEF admitRequest
<1>4. PICK policy, s :
        /\ s = resolveScope(p.ask.team, policy)
        /\ \/ \E outcome \in {"client_error", "budget_blocked"} : Observe(r, outcome)
           \/ \E place \in {"guard", "route"} :
                LET in == [p EXCEPT !.scope = s, !.at = place]
                IN  Set(r, in) \/ Set(r, [in EXCEPT !.tier = FastTier])
  <2>1. PICK policy \in {"fallback", "isolated", "byok-only"} :
        LET ask == run[r].ask
            s   == resolveScope(ask.team, policy)
            in  == [run[r] EXCEPT !.scope = s, !.at = IF ask.kind = "chat" THEN "guard" ELSE "route"]
        IN  IF ~Resolvable(registry, ask.kind, s, ask.pin) THEN Observe(r, "client_error")
            ELSE \/ Set(r, in)
                 \/ ask.team # NoTeam /\ Set(r, [in EXCEPT !.tier = FastTier])
                 \/ ask.team # NoTeam /\ Observe(r, "budget_blocked")
    BY Zenon DEF admitRequest
  <2>2. PICK place \in {"guard", "route"} : place = IF run[r].ask.kind = "chat" THEN "guard" ELSE "route"
    OBVIOUS
  <2> QED
    BY <1>1, <2>1, <2>2
<1>5. s \in Scopes /\ s.owner \in {NoTeam, s.namespace}
  <2>1. p.ask.team \in Teams \cup {NoTeam}
    BY <1>2 DEF Asks
  <2> QED
    BY <1>4, <2>1, ScopeResolved
<1>6. CASE \E outcome \in {"client_error", "budget_blocked"} : Observe(r, outcome)
  <2>1. PICK outcome : outcome \in Account!Refusals /\ Observe(r, outcome)
    BY <1>6 DEF Account!Refusals
  <2> QED
    BY <1>1, <1>2, <1>3, <2>1, QuietEnd
<1>7. ASSUME NEW place \in {"guard", "route"}, NEW tier \in {FastTier, p.tier}, NEW q,
             q = [p EXCEPT !.scope = s, !.at = place, !.tier = tier]
      PROVE  /\ Good(q) /\ Follows(p, q) /\ Move(p, q)
             /\ q.key = p.key /\ Cost(q) = Cost(p)
  <2>1. /\ DOMAIN q = Fields /\ q.scope = s /\ q.at = place /\ q.tier = tier
        /\ q.ask = p.ask /\ q.pass = p.pass /\ q.next = p.next /\ q.exact = p.exact /\ q.key = p.key
        /\ q.probe = p.probe /\ q.took = p.took /\ q.reserve = p.reserve /\ q.ledger = p.ledger
        /\ q.verdict = p.verdict /\ q.blame = p.blame
    BY <1>2, <1>7 DEF Good, Shape, Fields
  <2>2. Shape(q)
    BY <1>2, <1>5, <1>7, <2>1 DEF Good, Shape, Early
  <2>3. Place(q)
    BY <1>2, <1>7, <2>1 DEF Good, Place, Early, Serves
  <2>4. InScope(q)
    BY <1>2, <1>5, <2>1 DEF Good, InScope
  <2> QED
    BY <2>1, <2>2, <2>3, <2>4 DEF Good, Follows, Move, Cost
<1>8. ASSUME NEW place \in {"guard", "route"},
             \/ Set(r, [p EXCEPT !.scope = s, !.at = place])
             \/ Set(r, [[p EXCEPT !.scope = s, !.at = place] EXCEPT !.tier = FastTier])
      PROVE  Step(r)
  <2>1. /\ [p EXCEPT !.scope = s, !.at = place] = [p EXCEPT !.scope = s, !.at = place, !.tier = p.tier]
        /\ [[p EXCEPT !.scope = s, !.at = place] EXCEPT !.tier = FastTier] = [p EXCEPT !.scope = s, !.at = place, !.tier = FastTier]
    BY <1>2 DEF Good, Shape, Fields
  <2>2. PICK tier \in {FastTier, p.tier} : Set(r, [p EXCEPT !.scope = s, !.at = place, !.tier = tier])
    BY <1>8, <2>1
  <2>3. PICK q : q = [p EXCEPT !.scope = s, !.at = place, !.tier = tier]
    OBVIOUS
  <2> QED
    BY <1>1, <1>3, <1>7, <2>2, <2>3, QuietStep
<1> QED
  BY <1>4, <1>6, <1>8

LEMMA GuardStep == ASSUME Inv, NEW r \in Requests, guardInput(r) PROVE Step(r)
<1>1. PICK p : p = run[r]
  OBVIOUS
<1>2. Good(p) /\ p.at = "guard" /\ p.ledger = "none" /\ p.verdict = "open" /\ p.ask.stream \in BOOLEAN
  BY <1>1 DEF Inv, Good, Place, Shape, Early, Asks, guardInput, At
<1>3. UNCHANGED <<storeVars, registry>>
  BY DEF guardInput
<1>4. CASE Observe(r, "blocked")
  <2>1. "blocked" \in Account!Refusals
    BY DEF Account!Refusals
  <2> QED
    BY <1>1, <1>2, <1>3, <1>4, <2>1, QuietEnd
<1>5. ASSUME NEW buffer \in {FALSE, p.ask.stream}, Set(r, [p EXCEPT !.at = "cache", !.ask.stream = @ /\ ~buffer])
      PROVE  Step(r)
  <2>1. PICK q : q = [p EXCEPT !.at = "cache", !.ask.stream = @ /\ ~buffer]
    OBVIOUS
  <2>2. Good(q) /\ Follows(p, q) /\ Move(p, q) /\ q.key = p.key /\ Cost(q) = Cost(p)
    BY <1>2, <2>1 DEF Good, Shape, Place, InScope, Early, Serves, Fields, Asks, Follows, Move, Cost
  <2> QED
    BY <1>1, <1>3, <1>5, <2>1, <2>2, QuietStep
<1> QED
  BY <1>1, <1>4, <1>5 DEF guardInput

LEMMA CacheStep == ASSUME Inv, NEW r \in Requests, lookUpResponseCache(r) PROVE Step(r)
<1>1. PICK p : p = run[r]
  OBVIOUS
<1>2. Good(p) /\ p.at = "cache" /\ p.ledger = "none" /\ p.verdict = "open"
  BY <1>1 DEF Inv, Good, Place, Early, lookUpResponseCache, At
<1>3. UNCHANGED <<storeVars, registry>>
  BY DEF lookUpResponseCache
<1>4. CASE Observe(r, "success")
  <2>1. "success" \in Account!Refusals
    BY DEF Account!Refusals
  <2> QED
    BY <1>1, <1>2, <1>3, <1>4, <2>1, QuietEnd
<1>5. CASE Set(r, [p EXCEPT !.at = "route"])
  <2>1. PICK q : q = [p EXCEPT !.at = "route"]
    OBVIOUS
  <2>2. Good(q) /\ Follows(p, q) /\ Move(p, q) /\ q.key = p.key /\ Cost(q) = Cost(p)
    BY <1>2, <2>1 DEF Good, Shape, Place, InScope, Early, Serves, Fields, Follows, Move, Cost
  <2> QED
    BY <1>1, <1>3, <1>5, <2>1, <2>2, QuietStep
<1> QED
  BY <1>1, <1>4, <1>5 DEF lookUpResponseCache

----------------------------------------------------------------------------
(* Routing.                                                                *)

\* A pinned request is offered the model it named or nothing; so whatever an offer names, it is a
\* model the request may be answered by.
LEMMA OffersPinned ==
  ASSUME Inv, NEW r \in Requests, NEW i \in DOMAIN OffersOf(r)
  PROVE  run[r].ask.pin \in {NoModel, OffersOf(r)[i].model}
<1>1. PICK g, kind, tier, pin : g = registry /\ kind = run[r].ask.kind /\ tier = run[r].tier /\ pin = run[r].ask.pin
  OBVIOUS
<1>2. g \in {Models, {}} /\ kind \in {"chat", "image"} /\ tier \in {FastTier, NoTier} /\ pin \in Models \cup {NoModel}
  BY <1>1 DEF Inv, Stores, Good, Shape, Asks
<1>3. OffersOf(r) = Offers(g, kind, tier, pin)
  BY <1>1, <1>2 DEF OffersOf, OfferTable
<1> SUFFICES ASSUME pin # NoModel PROVE OffersOf(r)[i].model = pin
  BY <1>1
<1>4. Candidates(g, kind, tier, pin) \in {<<pin>>, <<>>}
  BY DEF Candidates
<1>5. CASE Candidates(g, kind, tier, pin) = <<pin>>
  <2>1. OffersOf(r) = [j \in DOMAIN <<pin>> |-> [model |-> <<pin>>[j], pool |-> ModelPool[<<pin>>[j]]]]
    BY <1>3, <1>5 DEF Offers
  <2>2. DOMAIN <<pin>> = {1} /\ <<pin>>[1] = pin
    OBVIOUS
  <2> QED
    BY <2>1, <2>2
<1>6. CASE Candidates(g, kind, tier, pin) = <<>>
  <2>1. OffersOf(r) = <<>>
    BY <1>3, <1>6 DEF Offers
  <2> QED
    BY <2>1
<1> QED
  BY <1>4, <1>5, <1>6

\* The sweep's next offer is one of the offers, also when nothing is known of their number.
LEMMA SweptPinned ==
  ASSUME Inv, NEW r \in Requests, run[r].next <= Len(OffersOf(r))
  PROVE  run[r].ask.pin \in {NoModel, OffersOf(r)[run[r].next].model}
<1>1. PICK g, kind, tier, pin : g = registry /\ kind = run[r].ask.kind /\ tier = run[r].tier /\ pin = run[r].ask.pin
  OBVIOUS
<1>2. g \in {Models, {}} /\ kind \in {"chat", "image"} /\ tier \in {FastTier, NoTier} /\ pin \in Models \cup {NoModel}
  BY <1>1 DEF Inv, Stores, Good, Shape, Asks
<1>3. OffersOf(r) = Offers(g, kind, tier, pin)
  BY <1>1, <1>2 DEF OffersOf, OfferTable
<1>4. run[r].next \in Nat \ {0}
  BY DEF Inv, Good, Shape
<1> SUFFICES ASSUME pin # NoModel PROVE run[r].next \in DOMAIN OffersOf(r)
  BY <1>1, OffersPinned
<1>5. Candidates(g, kind, tier, pin) \in {<<pin>>, <<>>}
  BY DEF Candidates
<1>6. CASE Candidates(g, kind, tier, pin) = <<pin>>
  <2>1. OffersOf(r) = [j \in DOMAIN <<pin>> |-> [model |-> <<pin>>[j], pool |-> ModelPool[<<pin>>[j]]]]
    BY <1>3, <1>6 DEF Offers
  <2>2. DOMAIN <<pin>> = 1..1
    OBVIOUS
  <2>3. PICK n \in Nat : n = 1
    OBVIOUS
  <2>4. OffersOf(r) = [j \in 1..n |-> OffersOf(r)[j]]
    BY <2>1, <2>2, <2>3
  <2>5. Len(OffersOf(r)) = n
    BY <2>4
  <2> QED
    BY <1>4, <2>1, <2>2, <2>3, <2>5
<1>7. CASE Candidates(g, kind, tier, pin) = <<>>
  <2>1. OffersOf(r) = <<>>
    BY <1>3, <1>7 DEF Offers
  <2> QED
    BY <1>4, <2>1
<1> QED
  BY <1>5, <1>6, <1>7

LEMMA GrantsWhere ==
  ASSUME NEW r, NEW ks, NEW g \in Grants(r, ks), run[r].exact \in BOOLEAN
  PROVE  g[1] \in ks /\ g[2] \in BOOLEAN
<1>1. PICK first \in BOOLEAN : first = FirstTry(r, ks)
  BY DEF FirstTry
<1>2. g \in {<<k, first>> : k \in Fits(r, ks, first)} \cup {<<k, TRUE>> : k \in Fits(r, ks, TRUE)}
  BY <1>1 DEF Grants
<1>3. PICK k \in ks, b \in BOOLEAN : g = <<k, b>>
  BY <1>2 DEF Fits
<1> QED
  BY <1>3

\* The script's writes: the tokens, the user and the slot, on the key it chose and for this request.
LEMMA ChosenStep ==
  ASSUME Inv, NEW r \in Requests, At(r, "route"), NEW k \in Keys, Eligible(run[r].scope, k),
         NEW offer, run[r].ask.pin \in {NoModel, offer.model}, NEW exact \in BOOLEAN,
         Chosen(r, k, offer, exact), UNCHANGED <<gate, sticky, cache, registry>>
  PROVE  Step(r)
<1>1. PICK p : p = run[r]
  OBVIOUS
<1>2. /\ Good(p) /\ p.at = "route" /\ p.ledger = "none" /\ p.verdict = "open" /\ p.key = NoKey
      /\ DOMAIN p = Fields
  BY <1>1 DEF Inv, Good, Shape, Place, Early, At
<1>3. PICK n \in Nat : n = Tokens(exact)
  BY ProxyConstants DEF Tokens
<1>4. PICK due \in BOOLEAN : due = (gate[k] = "due")
  OBVIOUS
<1>5. PICK q : q = [p EXCEPT !.at = "vet", !.key = k, !.model = offer.model, !.probe = due,
                             !.exact = exact, !.took = n, !.reserve = n, !.ledger = "held"]
  OBVIOUS
<1>6. Set(r, q)
  BY <1>1, <1>3, <1>4, <1>5 DEF Chosen, ReserveRead
<1>7. /\ DOMAIN q = Fields /\ q.at = "vet" /\ q.key = k /\ q.model = offer.model /\ q.probe = due
      /\ q.exact = exact /\ q.took = n /\ q.reserve = n /\ q.ledger = "held"
      /\ q.ask = p.ask /\ q.scope = p.scope /\ q.tier = p.tier /\ q.pass = p.pass /\ q.next = p.next
      /\ q.verdict = p.verdict /\ q.blame = p.blame
  BY <1>2, <1>5 DEF Fields
<1>8. Good(q)
  <2>1. Shape(q)
    BY <1>2, <1>7 DEF Good, Shape, Serves
  <2>2. Place(q)
    BY <1>1, <1>2, <1>7 DEF Good, Place, Early, Serves
  <2>3. InScope(q)
    BY <1>1, <1>2, <1>7 DEF Good, InScope
  <2> QED
    BY <2>1, <2>2, <2>3 DEF Good
<1>9. Move(p, q) /\ Follows(p, q)
  <2>1. Move(p, q)
    BY <1>2, <1>7 DEF Move
  <2>2. p.probe => q.probe
    BY <1>2 DEF Good, Place, Early
  <2> QED
    BY <1>2, <1>7, <2>1, <2>2 DEF Follows
<1>10. Counted(p, q)
  <2>1. tpm \in [Keys -> Int] /\ users \in [Keys -> SUBSET Callers]
    BY DEF Inv, Stores
  <2>2. tpm' = [tpm EXCEPT ![k] = @ + n]
    BY <1>3 DEF Chosen
  <2>3. tpm' \in [Keys -> Int]
    BY <2>1, <2>2
  <2>4. ASSUME NEW j \in Keys PROVE tpm'[j] = (tpm[j] - CostOn(p, j)) + CostOn(q, j)
    <3>1. CostOn(p, j) = 0 /\ CostOn(q, j) = IF j = k THEN n ELSE 0
      BY <1>2, <1>7 DEF CostOn, Cost
    <3> QED
      BY <2>1, <2>2, <3>1
  <2>5. \A j \in Keys : users'[j] \subseteq users[j] \cup (IF q.key = j THEN {q.ask.user} ELSE {})
    BY <1>1, <1>7, <2>1 DEF Chosen
  <2>6. \A j \in slot' : j \in slot \/ (q.key = j /\ q.probe)
    BY <1>4, <1>7 DEF Chosen
  <2> QED
    BY <2>3, <2>4, <2>5, <2>6 DEF Counted
<1>11. Stores'
  <2>1. run[r].ask.user \in Callers
    BY <1>1, <1>2 DEF Good, Shape, Asks
  <2>2. users' \in [Keys -> SUBSET Callers] /\ slot' \subseteq Keys
    BY <2>1 DEF Inv, Stores, Chosen
  <2> QED
    BY <2>2 DEF Inv, Stores
<1> QED
  BY <1>1, <1>6, <1>8, <1>9, <1>10, <1>11 DEF Step

\* Nothing was granted here: only the place of the sweep changes.
LEMMA PassedStep ==
  ASSUME Inv, NEW r \in Requests, At(r, "route"), NEW ks, NEW pass \in {"sticky", "own", "shared", "none"},
         NEW next \in Nat \ {0}, PassedOver(r, ks, pass, next),
         pass = "own" => run[r].scope.owner # NoTeam,
         pass = "shared" => run[r].scope.owner = NoTeam \/ run[r].scope.fallback,
         UNCHANGED <<storeVars, registry>>
  PROVE  Step(r)
<1>1. PICK p : p = run[r]
  OBVIOUS
<1>2. Good(p) /\ p.at = "route" /\ DOMAIN p = Fields /\ p.exact \in BOOLEAN
  BY <1>1 DEF Inv, Good, Shape, At
<1>3. PICK b \in BOOLEAN : b = (p.exact \/ ks # {})
  OBVIOUS
<1>4. PICK q : q = [p EXCEPT !.pass = pass, !.next = next, !.exact = b]
  OBVIOUS
<1>5. Set(r, q)
  <2>1. q = [p EXCEPT !.pass = pass, !.next = next, !.exact = @ \/ ks # {}]
    BY <1>2, <1>3, <1>4 DEF Fields
  <2> QED
    BY <1>1, <2>1 DEF PassedOver
<1>6. Good(q) /\ Follows(p, q) /\ Move(p, q) /\ q.key = p.key /\ Cost(q) = Cost(p)
  <2>1. /\ DOMAIN q = Fields /\ q.pass = pass /\ q.next = next /\ q.exact = b
        /\ q.at = p.at /\ q.ask = p.ask /\ q.scope = p.scope /\ q.tier = p.tier /\ q.key = p.key
        /\ q.probe = p.probe /\ q.took = p.took /\ q.reserve = p.reserve /\ q.ledger = p.ledger
        /\ q.verdict = p.verdict /\ q.blame = p.blame
    BY <1>2, <1>4 DEF Fields
  <2>2. Shape(q)
    BY <1>2, <2>1 DEF Good, Shape
  <2>3. Place(q)
    BY <1>2, <2>1 DEF Good, Place, Early, Serves
  <2>4. InScope(q)
    BY <1>1, <1>2, <2>1 DEF Good, InScope
  <2> QED
    BY <2>1, <2>2, <2>3, <2>4 DEF Good, Follows, Move, Cost
<1> QED
  BY <1>1, <1>5, <1>6, QuietStep

LEMMA StickyStep == ASSUME Inv, NEW r \in Requests, tryStickyKey(r) PROVE Step(r)
<1> DEFINE s      == run[r].ask.session
           pinned == IF run[r].ask.kind # "chat" \/ s = NoUser THEN {} ELSE {sticky[s]} \ {NoKey}
           usable == {k \in pinned : gate[k] # "banned" /\ Eligible(run[r].scope, k)
                                     /\ PickModel(OffersOf(r), KeyPool[k]) # {}}
           grants == Grants(r, usable)
<1>1. At(r, "route") /\ UNCHANGED <<gate, sticky, cache, registry>>
  BY DEF tryStickyKey
<1>2. run[r].exact \in BOOLEAN /\ run[r].ask.session \in Sessions \cup {NoUser}
  BY DEF Inv, Good, Shape, Asks
<1>3. CASE grants = {}
  <2>1. PICK pass \in {"own", "shared"} : pass = IF run[r].scope.owner # NoTeam THEN "own" ELSE "shared"
    OBVIOUS
  <2>2. PassedOver(r, usable, pass, 1) /\ UNCHANGED <<slot, users, tpm>>
    BY <1>3, <2>1 DEF tryStickyKey
  <2> HIDE DEF usable, grants
  <2>3. PICK ks : ks = usable
    OBVIOUS
  <2>4. 1 \in Nat \ {0} /\ PassedOver(r, ks, pass, 1) /\ UNCHANGED <<storeVars, registry>>
    BY <1>1, <2>2, <2>3 DEF storeVars, keyVars
  <2>5. pass = "own" => run[r].scope.owner # NoTeam
    BY <2>1
  <2>6. pass = "shared" => run[r].scope.owner = NoTeam
    BY <2>1
  <2> QED
    BY <1>1, <2>1, <2>4, <2>5, <2>6, PassedStep
<1>4. CASE grants # {}
  <2>1. PICK g \in grants : \E i \in PickModel(OffersOf(r), KeyPool[g[1]]) : Chosen(r, g[1], OffersOf(r)[i], g[2])
    BY <1>4 DEF tryStickyKey
  <2>2. PICK i \in PickModel(OffersOf(r), KeyPool[g[1]]) : Chosen(r, g[1], OffersOf(r)[i], g[2])
    BY <2>1
  <2>3. g[1] \in usable /\ g[2] \in BOOLEAN
    <3> HIDE DEF usable
    <3> QED
      BY <1>2, <2>1, GrantsWhere
  <2>4. g[1] \in Keys /\ Eligible(run[r].scope, g[1])
    BY <1>2, <2>3 DEF Inv, Stores
  <2>5. i \in DOMAIN OffersOf(r)
    BY <2>2 DEF PickModel
  <2>6. run[r].ask.pin \in {NoModel, OffersOf(r)[i].model}
    BY <2>5, OffersPinned
  <2> QED
    BY <1>1, <2>2, <2>3, <2>4, <2>6, ChosenStep
<1> QED
  BY <1>3, <1>4

LEMMA SweepStep == ASSUME Inv, NEW r \in Requests, sweepModels(r) PROVE Step(r)
<1> DEFINE offer  == OffersOf(r)[run[r].next]
           owner  == IF run[r].pass = "own" THEN run[r].scope.owner ELSE NoTeam
           ks     == {k \in Keys : KeyPool[k] = offer.pool /\ KeyOwner[k] = owner /\ gate[k] # "banned"}
           grants == Grants(r, ks)
<1>1. At(r, "route") /\ UNCHANGED <<gate, sticky, cache, registry>> /\ run[r].pass \in {"own", "shared"}
  BY DEF sweepModels
<1>2. /\ run[r].exact \in BOOLEAN /\ run[r].next \in Nat \ {0}
      /\ run[r].pass = "own" => run[r].scope.owner # NoTeam
      /\ run[r].pass = "shared" => run[r].scope.owner = NoTeam \/ run[r].scope.fallback
  BY DEF Inv, Good, Shape, InScope
<1>3. CASE grants = {}
  <2>1. PassedOver(r, ks, run[r].pass, run[r].next + 1) /\ UNCHANGED <<slot, users, tpm>>
    BY <1>3 DEF sweepModels
  <2> HIDE DEF ks, grants
  <2>2. PICK c : c = ks
    OBVIOUS
  <2>3. PICK pass \in {"own", "shared"} : pass = run[r].pass
    BY <1>1
  <2>4. PICK n \in Nat \ {0} : n = run[r].next + 1
    BY <1>2
  <2>5. PassedOver(r, c, pass, n) /\ UNCHANGED <<storeVars, registry>>
    BY <1>1, <2>1, <2>2, <2>3, <2>4 DEF storeVars, keyVars
  <2> QED
    BY <1>1, <1>2, <2>3, <2>5, PassedStep
<1>4. CASE grants # {}
  <2>1. PICK g \in grants : Chosen(r, g[1], offer, g[2])
    BY <1>4 DEF sweepModels
  <2>2. g[1] \in ks /\ g[2] \in BOOLEAN
    <3> HIDE DEF ks
    <3> QED
      BY <1>2, <2>1, GrantsWhere
  <2>3. g[1] \in Keys /\ Eligible(run[r].scope, g[1])
    BY <1>1, <1>2, <2>2 DEF Eligible
  <2>4. run[r].ask.pin \in {NoModel, offer.model}
    BY SweptPinned DEF sweepModels
  <2> QED
    BY <1>1, <2>1, <2>2, <2>3, <2>4, ChosenStep
<1> QED
  BY <1>3, <1>4

LEMMA OwnExhaustedStep == ASSUME Inv, NEW r \in Requests, OwnExhausted(r) PROVE Step(r)
<1>1. At(r, "route") /\ UNCHANGED <<storeVars, registry>>
  BY DEF OwnExhausted
<1>2. PICK pass \in {"shared", "none"} : pass = IF run[r].scope.fallback THEN "shared" ELSE "none"
  OBVIOUS
<1>3. PassedOver(r, {}, pass, 1) /\ 1 \in Nat \ {0}
  BY <1>2 DEF OwnExhausted
<1> QED
  BY <1>1, <1>2, <1>3, PassedStep

LEMMA NoRouteStep == ASSUME Inv, NEW r \in Requests, NoRoute(r) PROVE Step(r)
<1>1. UNCHANGED <<storeVars, registry>> /\ run[r].verdict = "open" /\ run[r].ledger = "none"
  BY DEF NoRoute, Inv, Good, Place, Early, At
<1>2. PICK outcome \in {"client_error", "no_capacity"} : Observe(r, outcome)
  BY DEF NoRoute
<1>3. outcome \in Account!Refusals
  BY <1>2 DEF Account!Refusals
<1> QED
  BY <1>1, <1>2, <1>3, QuietEnd

----------------------------------------------------------------------------
(* The provider call, delivery and the caller.                             *)

\* A request moves on while it holds its reservation, or notes that its caller left.
LEMMA MovesOn ==
  ASSUME Inv, NEW r \in Requests, NEW place \in Serves, NEW gone,
         \/ run[r].at \in Serves /\ Set(r, [run[r] EXCEPT !.at = place])
         \/ run[r].at \in Serves /\ Set(r, [run[r] EXCEPT !.at = place, !.gone = gone])
         \/ Set(r, [run[r] EXCEPT !.gone = gone]),
         UNCHANGED <<storeVars, registry>>
  PROVE  Step(r)
<1>1. PICK p : p = run[r]
  OBVIOUS
<1>2. Good(p) /\ DOMAIN p = Fields
  BY <1>1 DEF Inv, Good, Shape
<1>3. ASSUME NEW at, NEW left, at = p.at \/ (at = place /\ p.at \in Serves), Set(r, [p EXCEPT !.at = at, !.gone = left])
      PROVE  Step(r)
  <2>1. PICK q : q = [p EXCEPT !.at = at, !.gone = left]
    OBVIOUS
  <2>2. /\ DOMAIN q = Fields /\ q.at = at
        /\ q.ask = p.ask /\ q.scope = p.scope /\ q.tier = p.tier /\ q.pass = p.pass /\ q.next = p.next
        /\ q.exact = p.exact /\ q.key = p.key /\ q.model = p.model /\ q.probe = p.probe /\ q.took = p.took
        /\ q.reserve = p.reserve /\ q.ledger = p.ledger /\ q.verdict = p.verdict /\ q.blame = p.blame
    BY <1>2, <2>1 DEF Fields
  <2>3. Shape(q)
    BY <1>2, <1>3, <2>2 DEF Good, Shape
  <2>4. Place(q)
    BY <1>2, <1>3, <2>2 DEF Good, Place, Early, Serves
  <2>5. InScope(q)
    BY <1>2, <2>2 DEF Good, InScope
  <2>6. Good(q) /\ Follows(p, q) /\ Move(p, q) /\ q.key = p.key /\ Cost(q) = Cost(p)
    BY <2>2, <2>3, <2>4, <2>5 DEF Good, Follows, Move, Cost
  <2> QED
    BY <1>1, <1>3, <2>1, <2>6, QuietStep
<1>4. /\ [p EXCEPT !.at = place] = [p EXCEPT !.at = place, !.gone = p.gone]
      /\ [p EXCEPT !.gone = gone] = [p EXCEPT !.at = p.at, !.gone = gone]
  BY <1>2 DEF Fields
<1> QED
  BY <1>1, <1>3, <1>4

\* The reservation goes back before the report is made.
LEMMA FailedStep ==
  ASSUME Inv, NEW r \in Requests, NEW cause \in Causes, FetchThrows(r, cause)
  PROVE  Step(r)
<1>1. PICK p : p = run[r]
  OBVIOUS
<1>2. Good(p) /\ DOMAIN p = Fields /\ p.at = "fetch" /\ p.ledger = "held" /\ p.verdict = "open" /\ p.key \in Keys
  BY <1>1 DEF Inv, Good, Shape, Place, Serves, FetchThrows, At
<1>3. Refund(r) /\ Stores' /\ UNCHANGED users /\ slot' \subseteq slot
  BY StoresKept DEF FetchThrows
<1>4. PICK q : q = [p EXCEPT !.at = "report", !.ledger = "returned", !.blame = cause]
  OBVIOUS
<1>5. /\ DOMAIN q = Fields /\ q.at = "report" /\ q.ledger = "returned" /\ q.blame = cause
      /\ q.ask = p.ask /\ q.scope = p.scope /\ q.tier = p.tier /\ q.pass = p.pass /\ q.next = p.next
      /\ q.exact = p.exact /\ q.key = p.key /\ q.probe = p.probe /\ q.took = p.took
      /\ q.reserve = p.reserve /\ q.verdict = p.verdict
  BY <1>2, <1>4 DEF Fields
<1>6. Shape(q)
  BY <1>2, <1>5 DEF Good, Shape
<1>7. Place(q)
  BY <1>2, <1>5 DEF Good, Place, Early, Serves
<1>8. InScope(q)
  BY <1>2, <1>5 DEF Good, InScope
<1>9. Good(q) /\ Follows(p, q) /\ Move(p, q)
  BY <1>2, <1>5, <1>6, <1>7, <1>8 DEF Good, Follows, Move
<1>10. Set(r, q) /\ run[r].at \in Serves
  BY <1>1, <1>2, <1>4 DEF FetchThrows, Failed, Serves
<1> QED
  BY <1>1, <1>3, <1>5, <1>9, <1>10, SettlingStep

LEMMA VetStep == ASSUME Inv, NEW r \in Requests, Vet(r) PROVE Step(r)
<1>1. run[r].at \in Serves /\ "none" \in Causes /\ "fetch" \in Serves
  BY DEF Vet, At, Serves, Causes
<1>2. Stores' /\ UNCHANGED users /\ slot' \subseteq slot
  BY StoresKept DEF Vet
<1>3. ASSUME NEW outcome \in {"ssrf_blocked", "client_cancelled"}, Refund(r), Set(r, Over(r, outcome, "returned"))
      PROVE  Step(r)
  <2>1. outcome \in Account!Unbilled
    BY DEF Account!Unbilled
  <2> QED
    BY <1>1, <1>2, <1>3, <2>1, SettlingEnd
<1>4. ASSUME Set(r, [run[r] EXCEPT !.at = "fetch", !.gone = FALSE]), UNCHANGED tpm PROVE Step(r)
  <2>1. UNCHANGED <<storeVars, registry>>
    BY <1>4 DEF Vet, storeVars, keyVars
  <2> QED
    BY <1>1, <1>4, <2>1, MovesOn
<1> QED
  BY <1>3, <1>4 DEF Vet

LEMMA ReportStep == ASSUME Inv, NEW r \in Requests, ReportTimeout(r) PROVE Step(r)
<1>1. PICK p : p = run[r]
  OBVIOUS
<1>2. /\ Good(p) /\ DOMAIN p = Fields /\ p.blame \in Causes /\ p.ledger = "returned" /\ p.verdict = "open"
      /\ p.key \in Keys /\ p.probe \in BOOLEAN
  BY <1>1 DEF Inv, Good, Shape, Place, ReportTimeout, At
<1>3. PICK q : q = Over(r, "upstream_error", p.ledger)
  OBVIOUS
<1>4. Concluded(q, p, "upstream_error", p.ledger) /\ q.blame = p.blame
  BY <1>1, <1>2, <1>3, OverFields
<1>5. Good(q) /\ Follows(p, q)
  BY <1>2, <1>4, ConcludedGood
<1>6. Move(p, q) /\ q.key = p.key /\ Cost(q) = Cost(p)
  BY <1>2, <1>4 DEF Concluded, Move, Cost, Account!Unbilled
<1>7. Set(r, q)
  BY <1>1, <1>3 DEF ReportTimeout, Observe
<1>8. gate' \in [Keys -> {"closed", "open", "due", "banned"}] /\ slot' \subseteq slot
  <2>1. PICK k \in Keys, b \in BOOLEAN : k = p.key /\ b = p.probe
    BY <1>2
  <2>2. reportServerFailure(k, b)
    BY <1>1, <2>1 DEF ReportTimeout, Key
  <2> QED
    BY <2>2, Reports DEF Inv
<1>9. Counted(p, q) /\ Stores'
  <2>1. UNCHANGED <<tpm, users, sticky, cache, registry>>
    BY DEF ReportTimeout
  <2>2. Counted(p, q)
    BY <1>2, <1>6, <1>8, <2>1, NothingCounted
  <2>3. Stores'
    BY <1>8, <2>1 DEF Inv, Stores
  <2> QED
    BY <2>2, <2>3
<1> QED
  BY <1>1, <1>5, <1>6, <1>7, <1>9 DEF Step

LEMMA UpstreamFailureStep == ASSUME Inv, NEW r \in Requests, answerUpstreamFailure(r) PROVE Step(r)
<1>1. /\ run[r].at \in Serves /\ Refund(r) /\ UNCHANGED <<users, sticky, cache, registry>>
      /\ run[r].key \in Keys /\ run[r].probe \in BOOLEAN
  BY DEF answerUpstreamFailure, At, Serves, Inv, Good, Shape, Place
<1>2. ASSUME gate' \in [Keys -> {"closed", "open", "due", "banned"}], slot' \subseteq slot PROVE Stores'
  BY <1>1, <1>2 DEF Inv, Stores
<1>3. CASE /\ Set(r, [Over(r, "upstream_error", "returned") EXCEPT !.blame = "provider"])
           /\ reportRateLimit(Key(r)) \/ reportAuthFailure(Key(r)) \/ reportServerFailure(Key(r), run[r].probe)
  <2>1. gate' \in [Keys -> {"closed", "open", "due", "banned"}] /\ slot' \subseteq slot
    <3>1. PICK k \in Keys, b \in BOOLEAN : k = run[r].key /\ b = run[r].probe
      BY <1>1
    <3>2. reportRateLimit(k) \/ reportAuthFailure(k) \/ reportServerFailure(k, b)
      BY <1>3, <3>1 DEF Key
    <3> QED
      BY <3>2, Reports DEF Inv
  <2>2. "upstream_error" \in Account!Unbilled /\ "provider" \in Causes
    BY DEF Account!Unbilled, Causes
  <2> QED
    BY <1>1, <1>2, <1>3, <2>1, <2>2, SettlingEnd
<1>4. CASE Set(r, Over(r, "client_error", "returned")) /\ UNCHANGED <<gate, slot>>
  <2>1. Stores' /\ slot' \subseteq slot
    BY <1>1, <1>4 DEF Inv, Stores
  <2>2. "client_error" \in Account!Unbilled /\ "none" \in Causes
    BY DEF Account!Unbilled, Causes
  <2> QED
    BY <1>1, <1>4, <2>1, <2>2, SettlingEnd
<1> QED
  BY <1>3, <1>4 DEF answerUpstreamFailure

LEMMA BodyFailsStep == ASSUME Inv, NEW r \in Requests, BodyFails(r) PROVE Step(r)
<1>1. run[r].at \in Serves /\ "upstream_error" \in Account!Unbilled /\ "none" \in Causes
  BY DEF BodyFails, At, Serves, Account!Unbilled, Causes
<1>2. Stores' /\ UNCHANGED users /\ slot' \subseteq slot
  BY StoresKept DEF BodyFails
<1>3. Refund(r) /\ Set(r, Over(r, "upstream_error", "returned"))
  BY DEF BodyFails
<1> QED
  BY <1>1, <1>2, <1>3, SettlingEnd

LEMMA LeavesWaitingStep == ASSUME Inv, NEW r \in Requests, LeavesWaiting(r) PROVE Step(r)
<1>1. run[r].at \in Serves /\ "client_cancelled" \in Account!Unbilled /\ "none" \in Causes
  BY DEF LeavesWaiting, Serves, Account!Unbilled, Causes
<1>2. Stores' /\ UNCHANGED users /\ slot' \subseteq slot
  BY StoresKept DEF LeavesWaiting
<1>3. Refund(r) /\ Set(r, Over(r, "client_cancelled", "returned"))
  BY DEF LeavesWaiting
<1> QED
  BY <1>1, <1>2, <1>3, SettlingEnd

LEMMA SettleJsonStep == ASSUME Inv, NEW r \in Requests, settleJson(r) PROVE Step(r)
<1>1. run[r].at \in Serves /\ run[r].key \in Keys /\ Good(run[r]) /\ UNCHANGED <<users, registry>>
  BY DEF settleJson, At, Serves, Inv, Good, Place
<1>2. /\ gate' \in [Keys -> {"closed", "open", "due", "banned"}] /\ slot' \subseteq slot
      /\ sticky' \in [Sessions -> Keys \cup {NoKey}]
  BY <1>1, Healthy DEF settleJson, Inv
<1>3. \A e \in cache' : CacheGood(e)
  <2>1. CASE setCached(r, TRUE)
    BY <1>1, <2>1, Caches DEF Inv
  <2>2. CASE UNCHANGED cache
    BY <2>2 DEF Inv, Stores
  <2> QED
    BY <2>1, <2>2 DEF settleJson
<1>4. Stores'
  BY <1>1, <1>2, <1>3 DEF Inv, Stores
<1>5. "success" \in Account!Unbilled /\ "success" \in Account!Delivered /\ "none" \in Causes
  BY DEF Account!Unbilled, Account!Delivered, Causes
<1>6. CASE reconcileTpm(r) /\ Set(r, Over(r, "success", "billed"))
  BY <1>1, <1>2, <1>4, <1>5, <1>6, SettlingEnd
<1>7. CASE Refund(r) /\ Set(r, Over(r, "success", "returned"))
  BY <1>1, <1>2, <1>4, <1>5, <1>7, SettlingEnd
<1> QED
  BY <1>6, <1>7 DEF settleJson

\* However a stream ends, the key is blamed for the provider or for a timer, and only an answer
\* read to the end with no frame dropped is cached: a read that did not reach the end failed.
LEMMA StreamOverStep ==
  ASSUME Inv, NEW r \in Requests, run[r].at \in Serves, NEW cutShort, NEW failed \in BOOLEAN,
         NEW cause, NEW done \in BOOLEAN, NEW degraded \in BOOLEAN,
         cutShort # "client" => cause \in Causes, failed \/ done,
         StreamOver(r, cutShort, failed, cause, done, degraded)
  PROVE  Step(r)
<1>1. PICK outcome : outcome = IF cutShort = "client" THEN "client_cancelled" ELSE IF failed THEN "upstream_error" ELSE "success"
  OBVIOUS
<1>2. PICK blame : blame = IF outcome = "upstream_error" THEN cause ELSE "none"
  OBVIOUS
<1>3. outcome \in Account!Delivered /\ blame \in Causes
  BY <1>1, <1>2 DEF Account!Delivered, Causes
<1>4. /\ reconcileTpm(r) /\ Set(r, [Over(r, outcome, "billed") EXCEPT !.blame = blame])
      /\ UNCHANGED <<users, registry>>
  BY <1>1, <1>2 DEF StreamOver
<1>5. run[r].key \in Keys /\ run[r].probe \in BOOLEAN /\ Good(run[r])
  BY DEF Inv, Good, Shape, Place
<1>6. /\ gate' \in [Keys -> {"closed", "open", "due", "banned"}] /\ slot' \subseteq slot
      /\ sticky' \in [Sessions -> Keys \cup {NoKey}]
  <2>1. CASE markHealthy(r)
    BY <1>5, <2>1, Healthy DEF Inv
  <2>2. CASE reportServerFailure(Key(r), run[r].probe) /\ UNCHANGED sticky
    <3>1. PICK k \in Keys, b \in BOOLEAN : k = run[r].key /\ b = run[r].probe
      BY <1>5
    <3>2. reportServerFailure(k, b)
      BY <2>2, <3>1 DEF Key
    <3>3. gate' \in [Keys -> {"closed", "open", "due", "banned"}] /\ slot' \subseteq slot
      BY <3>2, Reports DEF Inv
    <3> QED
      BY <2>2, <3>3 DEF Inv, Stores
  <2> QED
    BY <2>1, <2>2 DEF StreamOver
<1>7. \A e \in cache' : CacheGood(e)
  <2>1. CASE outcome = "success" /\ ~degraded /\ setCached(r, done /\ ~degraded)
    <3>1. (done /\ ~degraded) = TRUE
      BY <1>1, <2>1
    <3>2. setCached(r, TRUE)
      BY <2>1, <3>1
    <3> QED
      BY <1>5, <3>2, Caches DEF Inv
  <2>2. CASE UNCHANGED cache
    BY <2>2 DEF Inv, Stores
  <2> QED
    BY <1>1, <2>1, <2>2 DEF StreamOver
<1>8. Stores'
  BY <1>4, <1>6, <1>7 DEF Inv, Stores
<1> QED
  BY <1>3, <1>4, <1>6, <1>8, SettlingEnd

LEMMA StreamStep ==
  ASSUME Inv, NEW r \in Requests,
         \/ StreamEnds(r) \/ StreamBreaks(r) \/ IdleTimer(r) \/ WholeTimer(r) \/ LeavesStream(r)
  PROVE  Step(r)
<1>1. run[r].at \in Serves /\ "provider" \in Causes /\ "timer" \in Causes
  BY DEF StreamEnds, StreamBreaks, IdleTimer, WholeTimer, LeavesStream, At, Serves, Causes
<1>c. ASSUME NEW cutShort, NEW cause, cutShort # "client" => cause \in Causes, CutOff(r, cutShort, cause)
      PROVE  Step(r)
  BY <1>1, <1>c, StreamOverStep DEF CutOff
<1>2. CASE StreamEnds(r)
  BY <1>1, <1>2, StreamOverStep DEF StreamEnds
<1>3. CASE StreamBreaks(r)
  BY <1>1, <1>3, <1>c DEF StreamBreaks
<1>4. CASE IdleTimer(r)
  BY <1>1, <1>4, <1>c DEF IdleTimer
<1>5. CASE WholeTimer(r)
  BY <1>1, <1>5, <1>c, StreamOverStep DEF WholeTimer
<1>6. CASE LeavesStream(r)
  BY <1>1, <1>6, <1>c DEF LeavesStream
<1> QED
  BY <1>2, <1>3, <1>4, <1>5, <1>6

LEMMA QuietMoves ==
  ASSUME Inv, NEW r \in Requests,
         \/ Headers(r) \/ ErrorBody(r) \/ ChunkArrives(r) \/ Drained(r) \/ LeavesEarly(r)
  PROVE  Step(r)
<1>1. UNCHANGED <<storeVars, registry>>
  BY DEF Headers, ErrorBody, ChunkArrives, Drained, LeavesEarly
<1>2. CASE LeavesEarly(r)
  <2>1. "read" \in Serves
    BY DEF Serves
  <2> QED
    BY <1>1, <1>2, <2>1, MovesOn DEF LeavesEarly
<1>3. CASE Headers(r) \/ ErrorBody(r) \/ ChunkArrives(r) \/ Drained(r)
  <2>1. PICK place \in Serves : run[r].at \in Serves /\ Set(r, [run[r] EXCEPT !.at = place])
    BY <1>3 DEF Headers, ErrorBody, ChunkArrives, Drained, At, Serves
  <2> QED
    BY <1>1, <2>1, MovesOn
<1> QED
  BY <1>2, <1>3

LEMMA ThrowStep == ASSUME Inv, NEW r \in Requests, KvThrows(r) PROVE Step(r)
<1>1. run[r].verdict = "open"
  BY DEF Inv, Good, Place, Early, Serves, KvThrows
<1> QED
  BY <1>1, QuietEnd DEF KvThrows

----------------------------------------------------------------------------
(* The pipeline.                                                           *)

\* Every action of a request is a Step of it.
LEMMA RequestSteps ==
  ASSUME Inv, NEW r \in Requests, Timer(r) \/ Gateway(r) \/ World(r)
  PROVE  Step(r)
<1>1. "provider" \in Causes /\ "timer" \in Causes
  BY DEF Causes
<1>2. CASE Timer(r)
  <2>1. CASE TtftTimer(r)
    BY <1>1, <2>1, FailedStep DEF TtftTimer
  <2>2. CASE BodyTimer(r)
    BY <2>2, BodyFailsStep DEF BodyTimer
  <2>3. CASE WholeTimer(r)
    BY <2>3, StreamStep
  <2> QED
    BY <1>2, <2>1, <2>2, <2>3 DEF Timer
<1>3. CASE Gateway(r)
  BY <1>3, GuardStep, CacheStep, StickyStep, SweepStep, OwnExhaustedStep, NoRouteStep, VetStep, ReportStep,
     UpstreamFailureStep DEF Gateway
<1>4. CASE World(r)
  <2>1. CASE ConnectionFails(r)
    BY <1>1, <2>1, FailedStep DEF ConnectionFails
  <2> QED
    BY <1>4, <2>1, AdmitStep, ThrowStep, QuietMoves, BodyFailsStep, SettleJsonStep, StreamStep, LeavesWaitingStep
    DEF World
<1> QED
  BY <1>2, <1>3, <1>4

\* The breaker's clock moves keys, never requests.
LEMMA KeySteps ==
  ASSUME Inv, NEW k \in Keys, CooldownEnds(k) \/ ProbeExpires(k)
  PROVE  /\ Inv' /\ UNCHANGED <<run, tpm, users>> /\ slot' \subseteq slot
<1>1. UNCHANGED <<run, tpm, users, sticky, cache, registry>> /\ slot' \subseteq slot
  BY DEF CooldownEnds, ProbeExpires
<1>2. gate' \in [Keys -> {"closed", "open", "due", "banned"}]
  BY DEF CooldownEnds, ProbeExpires, Inv, Stores
<1>3. Stores'
  BY <1>1, <1>2 DEF Inv, Stores
<1>4. \A r \in Requests : Good(run[r])'
  BY <1>1 DEF Inv, Good, Shape, Place, InScope
<1> QED
  BY <1>1, <1>3, <1>4 DEF Inv

LEMMA MarksKept ==
  ASSUME MarksEarned, UNCHANGED <<run, tpm, users, twoWay>>, slot' \subseteq slot
  PROVE  MarksEarned'
  BY DEF MarksEarned, Charges, Charge, Served, Key, Kept

\* Init.
LEMMA Starts == Init => Inv /\ MarksEarned
<1> SUFFICES ASSUME Init PROVE Inv /\ MarksEarned
  OBVIOUS
<1>1. PICK exact \in BOOLEAN, mix \in Mixes : run = [r \in Requests |-> NewRun(mix[r], exact)]
  BY DEF Init
<1>2. ASSUME NEW r \in Requests PROVE Good(run[r]) /\ run[r].key = NoKey
  <2>1. PICK a : a = mix[r]
    OBVIOUS
  <2>2. a \in Asks
    <3>1. /\ a \in [team : Teams \cup {NoTeam}, kind : {"chat", "image"}, stream : BOOLEAN,
                    session : Callers, user : Callers, pin : Models \cup {NoModel}]
          /\ a.session \in {m[s].session : m \in Mixes, s \in Requests}
      BY <2>1, ProxyConstants
    <3>2. a.session \in Sessions \cup {NoUser}
      BY <3>1 DEF Sessions
    <3> QED
      BY <3>1, <3>2 DEF Asks
  <2>3. PICK s : s = resolveScope(NoTeam, "fallback")
    OBVIOUS
  <2>4. s \in Scopes /\ s.owner \in {NoTeam, s.namespace}
    BY <2>3, ScopeResolved
  <2>5. PICK q : q = NewRun(a, exact)
    OBVIOUS
  <2>6. /\ DOMAIN q = Fields /\ q.at = "new" /\ q.ask = a /\ q.scope = s /\ q.tier = NoTier /\ q.pass = "sticky"
        /\ q.next = 1 /\ q.exact \in BOOLEAN /\ q.key = NoKey /\ q.probe \in BOOLEAN /\ ~q.probe
        /\ q.took = 0 /\ q.reserve = 0
        /\ q.ledger = "none" /\ q.verdict = "open" /\ q.blame = "none"
    BY <2>3, <2>5 DEF NewRun, Fields
  <2>7. Shape(q)
    BY <2>2, <2>4, <2>6 DEF Shape, Early, Causes, NoTier, FastTier
  <2>8. Place(q)
    BY <2>6 DEF Place, Early, Serves
  <2>9. InScope(q)
    BY <2>4, <2>6 DEF InScope
  <2>10. run[r] = q
    BY <1>1, <2>1, <2>5
  <2> QED
    BY <2>6, <2>7, <2>8, <2>9, <2>10 DEF Good
<1>3. Stores /\ tpm \in [Keys -> Int]
  BY DEF Init, Stores
<1>4. DOMAIN run = Requests
  BY <1>1
<1>5. MarksEarned
  <2> SUFFICES ASSUME NEW k \in Keys
               PROVE  /\ tpm[k] = SumFunctionOnSet(Charges, Served(k))
                      /\ users[k] = {} /\ slot = {}
    BY DEF MarksEarned
  <2>1. Served(k) = {}
    BY <1>2, ProxyConstants DEF Served, Key
  <2>2. PICK f : f = Charges
    OBVIOUS
  <2>3. SumFunctionOnSet(f, {}) = 0
    BY FS_EmptySet, SumUnfold
  <2>4. tpm[k] = 0 /\ users[k] = {} /\ slot = {}
    BY DEF Init
  <2> QED
    BY <2>1, <2>2, <2>3, <2>4
<1> QED
  BY <1>2, <1>3, <1>4, <1>5 DEF Inv

LEMMA NextKeeps == Inv /\ MarksEarned /\ [Next]_vars => Inv' /\ MarksEarned'
<1> SUFFICES ASSUME Inv, MarksEarned, [Next]_vars PROVE Inv' /\ MarksEarned'
  OBVIOUS
<1>1. ASSUME NEW r \in Requests, Timer(r) \/ Gateway(r) \/ World(r), UNCHANGED twoWay PROVE Inv' /\ MarksEarned'
  BY <1>1, RequestSteps, StepKeepsInv, StepKeepsMarks
<1>2. ASSUME NEW k \in Keys, CooldownEnds(k) \/ ProbeExpires(k), UNCHANGED twoWay PROVE Inv' /\ MarksEarned'
  BY <1>2, KeySteps, MarksKept
<1>3. ASSUME UNCHANGED vars PROVE Inv' /\ MarksEarned'
  <2>1. UNCHANGED <<run, tpm, users, twoWay>> /\ slot' \subseteq slot
    BY <1>3 DEF vars, storeVars, keyVars
  <2>2. \A r \in Requests : Good(run[r])'
    BY <2>1 DEF Inv, Good, Shape, Place, InScope
  <2>3. Stores'
    BY <1>3 DEF Inv, Stores, vars, storeVars, keyVars
  <2>4. MarksEarned'
    BY <2>1, MarksKept
  <2> QED
    BY <2>1, <2>2, <2>3, <2>4 DEF Inv
<1> QED
  BY <1>1, <1>2, <1>3 DEF Next, AllDone

\* For every number of requests, keys, teams and models: no hang-up of a caller is held against a
\* key; no request is served by a key outside the scope it was admitted with and no namespace of the
\* cache replays what another team's key paid for; a key carries the tokens, users and probe slot of
\* the requests it was chosen for and nothing else; and the cache holds
\* only answers of the named model, read to the provider's end with no frame dropped.
THEOREM ProxySafe == Spec => [](BlameFollowsProvider /\ ScopeKept /\ MarksEarned /\ CacheHasNoHole)
<1>1. Inv => BlameFollowsProvider
  BY DEF Inv, Good, Shape, Causes, BlameFollowsProvider
<1>2. Inv => ScopeKept
  BY DEF Inv, Good, InScope, Eligible, Stores, CacheGood, ScopeKept, Key
<1>3. Inv => CacheHasNoHole
  BY DEF Inv, Stores, CacheGood, CacheHasNoHole
<1>4. Spec => [](Inv /\ MarksEarned)
  BY Starts, NextKeeps, PTL DEF Spec
<1> QED
  BY <1>1, <1>2, <1>3, <1>4, PTL

\* The pipeline implements Settlement: whatever the timers, the callers, the provider and the stores
\* do, a reservation is taken once, given back or billed once, and the one outcome agrees with it.
THEOREM ProxySettles == Spec => Settles
<1>1. Init => Account!Init
  <2> SUFFICES ASSUME Init PROVE Account!Init
    OBVIOUS
  <2>1. PICK exact \in BOOLEAN, mix \in Mixes : run = [r \in Requests |-> NewRun(mix[r], exact)]
    BY DEF Init
  <2>2. ASSUME NEW r \in Requests PROVE run[r].ledger = "none" /\ run[r].verdict = "open"
    BY <2>1 DEF NewRun
  <2> QED
    BY <2>2 DEF Account!Init
<1>2. Inv /\ [Next]_vars => [Account!Next]_Account!vars
  <2> SUFFICES ASSUME Inv, [Next]_vars PROVE [Account!Next]_Account!vars
    OBVIOUS
  <2>1. ASSUME NEW r \in Requests, Timer(r) \/ Gateway(r) \/ World(r) PROVE [Account!Next]_Account!vars
    BY <2>1, RequestSteps, StepSettles
  <2>2. ASSUME UNCHANGED run PROVE [Account!Next]_Account!vars
    BY <2>2 DEF Account!vars
  <2>3. ASSUME NEW k \in Keys, CooldownEnds(k) \/ ProbeExpires(k) PROVE UNCHANGED run
    BY <2>3 DEF CooldownEnds, ProbeExpires
  <2>4. ASSUME UNCHANGED vars PROVE UNCHANGED run
    BY <2>4 DEF vars
  <2> QED
    BY <2>1, <2>2, <2>3, <2>4 DEF Next, AllDone
<1>3. Spec => [](Inv /\ MarksEarned)
  BY Starts, NextKeeps, PTL DEF Spec
<1> QED
  BY <1>1, <1>2, <1>3, PTL DEF Spec, Settles, Account!Spec

============================================================================
