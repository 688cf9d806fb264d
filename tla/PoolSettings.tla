----------------------------- MODULE PoolSettings -----------------------------
(***************************************************************************)
(* The configured pools: the override that the API saves, its migration    *)
(* from the built-in pools of older releases when the manager starts, and  *)
(* edits through the API, which read all pools, change some and replace    *)
(* them all after waiting for Docker and for the reconcile lock.           *)
(***************************************************************************)
EXTENDS Integers, FiniteSets

CONSTANTS Overrides,  \* overrides an older release may have saved
          Configured, \* the pools of config.yaml
          Changes,    \* pools that the API may be asked to put
          Editor,     \* concurrent requests to the API
          NameRank,   \* the order of pool names
          None,
          MaxEdits    \* no edit is asked for after so many were put in place

\* A pool is a record of these fields, and pools are a map from names to them.
IsPool(p) ==
  p = [f \in {"labels", "aliases", "docker_mode", "priority", "spec"} |-> p[f]]
ArePools(P) == P = [n \in DOMAIN P |-> P[n]] /\ \A n \in DOMAIN P : IsPool(P[n])

ASSUME PoolSettingsAssumption ==
  /\ MaxEdits \in Nat
  /\ ArePools(Configured) /\ \A P \in Overrides : ArePools(P)
  /\ \A c \in Changes : IsPool(c.pool)

\* Labels are lists, a priority is an integer, and names are ordered.
IsRanked(p) == p.priority \in Int /\ IsFiniteSet(p.labels) /\ IsFiniteSet(p.aliases)
AreRanked(P) ==
  /\ IsFiniteSet(DOMAIN P) /\ DOMAIN P \subseteq DOMAIN NameRank
  /\ \A n \in DOMAIN P : IsRanked(P[n])

ASSUME RankAssumption ==
  /\ NameRank \in [DOMAIN NameRank -> Int]
  /\ \A m, n \in DOMAIN NameRank : NameRank[m] = NameRank[n] => m = n
  /\ {"standard", "docker"} \subseteq DOMAIN NameRank /\ None \notin DOMAIN NameRank
  /\ AreRanked(Configured) /\ \A P \in Overrides : AreRanked(P)
  /\ \A c \in Changes : c.name \in DOMAIN NameRank /\ IsRanked(c.pool)

VARIABLES
  saved,     \* setting runner_pools_override
  backup,    \* setting runner_pools_override_pre_standard
  pools,     \* settings.runner_pools, also those of the demand tracker
  up,
  edit,      \* per request: the pools it will put in place
  edits,     \* edits that were put in place
  original   \* history: the override the older release left

vars == <<saved, backup, pools, up, edit, edits, original>>

---------------------------------------------------------------------------
(* Pools.  A pool has labels and aliases beyond the built-in labels, a Docker mode, *)
(* a priority, and everything else: image, resources, limits.                       *)

Names(P) == DOMAIN P
matching_labels(p) == p.labels \cup p.aliases
Signature(p) == <<p.docker_mode, p.spec>>

\* replace_pools and Settings refuse two pools with the same labels.
DistinctLabels(P) == \A m, n \in Names(P) : P[m].labels = P[n].labels => m = n
Distinct(P) ==
  \A m, n \in Names(P) : matching_labels(P[m]) = matching_labels(P[n]) => m = n

Fits(L, P) == {n \in Names(P) : L \subseteq matching_labels(P[n])}
Surplus(L, p) ==
  Cardinality((IF L \subseteq p.labels THEN p.labels ELSE matching_labels(p)) \ L)

\* The fewest labels too many, then the highest priority, then the name.
Precedes(L, p, m, q, n) ==
  \/ Surplus(L, p) < Surplus(L, q)
  \/ Surplus(L, p) = Surplus(L, q) /\ p.priority > q.priority
  \/ Surplus(L, p) = Surplus(L, q) /\ p.priority = q.priority /\ NameRank[m] < NameRank[n]
match_pool(L, P) ==
  IF Fits(L, P) = {} THEN None
  ELSE CHOOSE m \in Fits(L, P) :
         \A n \in Fits(L, P) \ {m} : Precedes(L, P[m], m, P[n], n)

---------------------------------------------------------------------------
(* migrate_legacy_pools *)

BuiltIn == {"ci", "rust"}
IsLegacy(P, n) == n \in Names(P) /\ P[n].docker_mode = "none" /\ P[n].labels = {n}
Source(P) == IF IsLegacy(P, "ci") THEN "ci" ELSE "rust"

\* The other built-in pool is redundant when it differs in nothing but its priority.
RedundantAny(P) == {n \in BuiltIn \ {Source(P)} : IsLegacy(P, n)}
Redundant(P) ==
  {n \in BuiltIn \ {Source(P)} : IsLegacy(P, n) /\ Signature(P[n]) = Signature(P[Source(P)])}

\* The alias of the built-in pool that is left, too.
AliasSource(P) == {Source(P)}
AliasBoth(P) == BuiltIn
ToStandard(P) ==
  IF "standard" \in Names(P) \/ \A n \in BuiltIn : ~IsLegacy(P, n) THEN P
  ELSE [n \in (Names(P) \ (Redundant(P) \cup {Source(P)})) \cup {"standard"} |->
          IF n = "standard"
          THEN [P[Source(P)] EXCEPT !.labels = (@ \ BuiltIn) \cup {"standard"},
                                    !.aliases = @ \cup AliasBoth(P)]
          ELSE P[n]]

ToDocker(P) ==
  IF /\ "docker" \notin Names(P) /\ "default" \in Names(P)
     /\ P["default"].docker_mode = "socket" /\ P["default"].labels = {"docker"}
  THEN [n \in (Names(P) \ {"default"}) \cup {"docker"} |->
          IF n = "docker" THEN P["default"] ELSE P[n]]
  ELSE P

migrate_legacy_pools(P) == ToDocker(ToStandard(P))

---------------------------------------------------------------------------

Init ==
  /\ saved \in Overrides \cup {None} /\ original = saved
  /\ backup = None
  /\ pools = Configured
  /\ up = FALSE
  /\ edit = [d \in Editor |-> None]
  /\ edits = 0

\* lifespan: the override takes precedence over config.yaml; when it is migrated, a
\* copy of the first one is kept, in a write of its own before the override's.
OverrideFirst(k, P) ==
  /\ saved' = IF k >= 1 THEN migrate_legacy_pools(P) ELSE P
  /\ backup' = IF k >= 2 /\ backup = None THEN P ELSE backup
BackupFirst(k, P) ==
  /\ backup' = IF k >= 1 /\ backup = None THEN P ELSE backup
  /\ saved' = IF k >= 2 THEN migrate_legacy_pools(P) ELSE P
Rewritten(k, P) == BackupFirst(k, P)

Start ==
  /\ ~up
  /\ IF saved = None
     THEN pools' = migrate_legacy_pools(Configured) /\ up' = TRUE /\ UNCHANGED <<saved, backup>>
     ELSE IF migrate_legacy_pools(saved) = saved
     THEN pools' = saved /\ up' = TRUE /\ UNCHANGED <<saved, backup>>
     ELSE \/ Rewritten(2, saved) /\ pools' = migrate_legacy_pools(saved) /\ up' = TRUE
          \/ Rewritten(1, saved) /\ UNCHANGED <<pools, up>>
  /\ UNCHANGED <<edit, edits, original>>

\* Requests that were under way are lost with the process.
Stop ==
  /\ up
  /\ up' = FALSE
  /\ edit' = [d \in Editor |-> None]
  /\ UNCHANGED <<saved, backup, pools, edits, original>>

---------------------------------------------------------------------------
(* PUT and DELETE /api/pools/{pool}, PUT /api/pools/config *)

Put(P, n, p) == [m \in Names(P) \cup {n} |-> IF m = n THEN p ELSE P[m]]
Removed(P, n) == [m \in Names(P) \ {n} |-> P[m]]

\* The pools as they are now, changed, are checked; then the request waits.
Request(d, P) ==
  /\ up /\ edit[d] = None /\ edits < MaxEdits
  /\ P # pools /\ Names(P) # {} /\ Distinct(P)
  /\ edit' = [edit EXCEPT ![d] = P]
  /\ UNCHANGED <<saved, backup, pools, up, edits, original>>
PutPool(d) == \E c \in Changes : Request(d, Put(pools, c.name, c.pool))
DeletePool(d) == \E n \in Names(pools) : Request(d, Removed(pools, n))
ImportPools(d) == Request(d, Configured)

\* What is put in place, and saved without another wait, is what was read then.
Merged(d) == [n \in Names(pools) \cup Names(edit[d]) |->
                IF n \in Names(edit[d]) THEN edit[d][n] ELSE pools[n]]
Whole(d) == edit[d]
ToPutInPlace(d) == Whole(d)
Apply(d) ==
  /\ up /\ edit[d] # None
  /\ pools' = ToPutInPlace(d) /\ saved' = edit[d]
  /\ edit' = [edit EXCEPT ![d] = None]
  /\ edits' = edits + 1
  /\ UNCHANGED <<backup, up, original>>

\* A pool that the edit removes still has runners, or Docker cannot list them.
Refuse(d) ==
  /\ up /\ edit[d] # None
  /\ edit' = [edit EXCEPT ![d] = None]
  /\ UNCHANGED <<saved, backup, pools, up, edits, original>>

---------------------------------------------------------------------------

Next ==
  \/ Start \/ Stop
  \/ \E d \in Editor : PutPool(d) \/ DeletePool(d) \/ ImportPools(d) \/ Apply(d) \/ Refuse(d)

Spec == Init /\ [][Next]_vars
==============================================================================
