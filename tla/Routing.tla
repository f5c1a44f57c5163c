------------------------------ MODULE Routing -------------------------------
(***************************************************************************)
(* Which model and which key may serve a request: the pure rules of        *)
(* lib/scope.ts, lib/modelSelect.ts, services/modelCatalog.service.ts,     *)
(* services/byokOnly.service.ts and services/routing/discovery.ts.         *)
(*                                                                         *)
(* A pool is one provider's credentials; it serves the registry models of  *)
(* its provider.  Cost-aware reordering inside a tier (costOrder) is data  *)
(* and left out: within a tier the priority decides, as with weight 0.     *)
(***************************************************************************)
EXTENDS Naturals, Sequences, FiniteSets, SequencesExt

CONSTANTS
  Keys, Pools, Teams, Models,
  NoTeam,         \* no team: the main API key, or a key of the shared pool
  NoModel,        \* nothing pinned, or a pool without a preferred model
  KeyPool,        \* [Keys -> Pools]
  KeyOwner,       \* [Keys -> Teams \cup {NoTeam}]
  ModelPool,      \* [Models -> Pools]: the provider that runs the model
  ModelTier,      \* [Models -> 0..2]: premium, standard, fast
  Capability,     \* [Models -> SUBSET {"chat", "image"}]
  PoolTier,       \* [Pools -> 0..2]
  Preferred       \* [Pools -> Models \cup {NoModel}]: the pool's preferredModel

ASSUME RoutingConstants ==
  /\ NoTeam \notin Teams /\ NoModel \notin Models
  /\ KeyPool \in [Keys -> Pools] /\ KeyOwner \in [Keys -> Teams \cup {NoTeam}]
  /\ ModelPool \in [Models -> Pools] /\ ModelTier \in [Models -> 0..2]
  /\ PoolTier \in [Pools -> 0..2] /\ Preferred \in [Pools -> Models \cup {NoModel}]

FastTier == 2
NoTier   == 3

OwnedKeys(t) == {k \in Keys : KeyOwner[k] = t}
OwnedPools(t) == {KeyPool[k] : k \in OwnedKeys(t)}

\* policy: the team's byokFallback and isolation settings.
resolveScope(team, policy) ==
  IF team # NoTeam /\ policy = "byok-only"
  THEN [owner |-> team, fallback |-> FALSE, namespace |-> team, byokOnly |-> TRUE]
  ELSE IF team = NoTeam \/ OwnedKeys(team) = {}
  THEN [owner |-> NoTeam, fallback |-> TRUE, namespace |-> NoTeam, byokOnly |-> FALSE]
  ELSE [owner |-> team, fallback |-> policy = "fallback", namespace |-> team, byokOnly |-> FALSE]

\* Forgets whose key a sticky pin is.
EligibleAnyKey(scope, k) == KeyOwner[k] \in Teams \cup {NoTeam}

\* May this scope use this key?  The owner passes of the sweep and the
\* re-authorisation of a sticky pin both come down to it.
Eligible(scope, k) ==
  \/ KeyOwner[k] = scope.owner
  \/ KeyOwner[k] = NoTeam /\ scope.fallback

TierRank(tier, preferredTier) == IF tier = preferredTier THEN 0 ELSE tier + 1

\* The models to attempt, best first.
selectModels(registry, capability, preferredTier) ==
  SetToSortSeq({m \in registry : capability \in Capability[m]},
    LAMBDA a, b : TierRank(ModelTier[a], preferredTier) < TierRank(ModelTier[b], preferredTier))

\* What each step of the sweep offers: a model on its provider's pool; when
\* no registry model serves chat and nothing is pinned, each pool's own
\* preferred model, pool tiers in order.
Candidates(registry, capability, preferredTier, pinned) ==
  IF pinned = NoModel THEN selectModels(registry, capability, preferredTier)
  ELSE IF pinned \in registry /\ capability \in Capability[pinned] THEN <<pinned>>
  ELSE <<>>

LegacyPools ==
  SetToSortSeq({p \in Pools : Preferred[p] # NoModel}, LAMBDA p, q : PoolTier[p] < PoolTier[q])

Offers(registry, capability, preferredTier, pinned) ==
  LET candidates == Candidates(registry, capability, preferredTier, pinned)
  IN  IF candidates # <<>>
      THEN [i \in DOMAIN candidates |-> [model |-> candidates[i], pool |-> ModelPool[candidates[i]]]]
      ELSE IF capability = "chat" /\ pinned = NoModel
      THEN [i \in DOMAIN LegacyPools |-> [model |-> Preferred[LegacyPools[i]], pool |-> LegacyPools[i]]]
      ELSE <<>>

\* The offer a sticky key's pool would serve (pickModel): the first on it, if any.
PickModel(offers, pool) ==
  {i \in DOMAIN offers : offers[i].pool = pool /\ \A j \in 1..(i - 1) : offers[j].pool # pool}

\* The registry models a scope can be routed to.
servableRegistry(registry, scope) ==
  IF scope.owner # NoTeam /\ ~scope.fallback
  THEN {m \in registry : ModelPool[m] \in OwnedPools(scope.owner)}
  ELSE registry

\* Pools whose preferred model is offered in place of an empty registry.
legacyPoolEntries == {Preferred[p] : p \in Pools} \ {NoModel}

\* Is a model id the caller names a valid pin?
Resolvable(registry, capability, scope, wanted) ==
  LET capable == {m \in servableRegistry(registry, scope) : capability \in Capability[m]}
  IN  \/ wanted \in {NoModel} \cup capable
      \/ capability = "chat" /\ capable = {} /\ wanted \in legacyPoolEntries

\* A byok-only team without a key that could serve is told to add one.
ByokKeyRequired(registry, capability, scope, pinned) ==
  LET servable == {m \in registry : capability \in Capability[m]}
      serving  == IF pinned # NoModel
                  THEN IF pinned \in servable THEN {ModelPool[pinned]}
                       ELSE {p \in Pools : Preferred[p] = pinned}
                  ELSE IF servable # {} THEN {ModelPool[m] : m \in servable}
                  ELSE IF capability = "chat" THEN {p \in Pools : Preferred[p] # NoModel}
                  ELSE {}
      owned    == OwnedPools(scope.owner)
  IN  /\ scope.byokOnly
      /\ \/ owned = {}
         \/ serving # {} /\ owned \cap serving = {}
         \/ serving = {} /\ pinned = NoModel /\ capability = "chat"

=============================================================================
