---------------------------- MODULE ControlPlane ----------------------------
(***************************************************************************)
(* The control plane with a database (src/control_plane/postgres/mod.rs)    *)
(* over the in-memory one (src/control_plane/db.rs), which is its cache and *)
(* the only thing that is read.                                             *)
(*                                                                         *)
(* A refresh fetches one table after another and then stores one after      *)
(* another; an update or a creation writes the database and then the cache. *)
(* Every fetch, store and write is an action.  Upstreams and rate-limit     *)
(* rules are fetched and stored like policies and never written: left out.  *)
(***************************************************************************)
EXTENDS Naturals, FiniteSets

CONSTANTS
  Policies, Tenants,
  Default,      \* the tenant the cache starts with
  Writers,      \* calls of update_policy, each by one who has an entry of it
  Creators,     \* calls of create_tenant
  Background,   \* the refresh that a timer starts
  Refreshers,   \* it, and calls of refresh
  NoRow, First  \* no row; the text a policy has at first

ASSUME ControlAssumption ==
  /\ Default \in Tenants /\ Background \in Refreshers
  /\ First \notin Writers /\ IsFiniteSet(Writers)
  /\ NoRow \notin [text : Writers \union {First}, enabled : BOOLEAN, version : Nat]

VARIABLES
  dbPolicies, dbTenants,        \* the database
  policies, tenants,            \* the cache
  step,                         \* where a refresh is
  fetchedTenants, fetchedPolicies,
  writer,                       \* where an update is
  target, loaded,               \* its policy, and the entry it was made from
  creator,                      \* where a creation is, or how it ended
  wanted                        \* its tenant

dbVars == <<dbPolicies, dbTenants>>
cacheVars == <<policies, tenants>>
refreshVars == <<step, fetchedTenants, fetchedPolicies>>
writeVars == <<writer, target, loaded>>
createVars == <<creator, wanted>>
controlVars == <<dbVars, cacheVars, refreshVars, writeVars, createVars>>

Row == [text : Writers \union {First}, enabled : BOOLEAN, version : 1..(Cardinality(Writers) + 1)]
NoPolicies == [p \in Policies |-> NoRow]

ControlInit ==
  /\ dbPolicies \in [Policies -> {NoRow, [text |-> First, enabled |-> TRUE, version |-> 1]}]
  /\ dbTenants = {}
  /\ policies = NoPolicies /\ tenants = {Default}
  /\ step = [r \in Refreshers |-> "idle"]
  /\ fetchedTenants = [r \in Refreshers |-> {}]
  /\ fetchedPolicies = [r \in Refreshers |-> NoPolicies]
  /\ writer = [w \in Writers |-> "idle"]
  /\ target \in [Writers -> Policies]
  /\ loaded = [w \in Writers |-> NoRow]
  /\ creator = [c \in Creators |-> "idle"]
  /\ wanted \in [Creators -> Tenants]

(* What load_policies serves of a table: the enabled policies.              *)
Served(table) == [p \in Policies |-> IF table[p] # NoRow /\ table[p].enabled THEN table[p] ELSE NoRow]

-----------------------------------------------------------------------------
(* refresh_cache.  The queries ask for active tenants and enabled policies. *)
FetchTenants(r) ==
  /\ step[r] = "idle" /\ step' = [step EXCEPT ![r] = "tenants"]
  /\ fetchedTenants' = [fetchedTenants EXCEPT ![r] = dbTenants]
  /\ UNCHANGED <<fetchedPolicies, dbVars, cacheVars, writeVars, createVars>>

FetchPolicies(r) ==
  /\ step[r] = "tenants" /\ step' = [step EXCEPT ![r] = "fetched"]
  /\ fetchedPolicies' = [fetchedPolicies EXCEPT ![r] = Served(dbPolicies)]
  /\ UNCHANGED <<fetchedTenants, dbVars, cacheVars, writeVars, createVars>>

(* A refresh is over, and what it fetched is forgotten.                     *)
EndRefresh(r) ==
  /\ step' = [step EXCEPT ![r] = "idle"]
  /\ fetchedTenants' = [fetchedTenants EXCEPT ![r] = {}]
  /\ fetchedPolicies' = [fetchedPolicies EXCEPT ![r] = NoPolicies]

FetchFails(r) ==
  /\ step[r] \in {"idle", "tenants"} /\ EndRefresh(r)
  /\ UNCHANGED <<dbVars, cacheVars, writeVars, createVars>>

StoreTenants(r) ==
  /\ step[r] = "fetched" /\ step' = [step EXCEPT ![r] = "stored"]
  /\ tenants' = fetchedTenants[r]
  /\ UNCHANGED <<fetchedTenants, fetchedPolicies, policies, dbVars, writeVars, createVars>>

(* Slip: what was fetched is entered into the table, which is not cleared.  *)
StorePoliciesInto(r) ==
  /\ step[r] = "stored" /\ EndRefresh(r)
  /\ policies' = [p \in Policies |->
       IF fetchedPolicies[r][p] = NoRow THEN policies[p] ELSE fetchedPolicies[r][p]]
  /\ UNCHANGED <<tenants, dbVars, writeVars, createVars>>

StorePolicies(r) ==
  /\ step[r] = "stored" /\ EndRefresh(r)
  /\ policies' = fetchedPolicies[r]
  /\ UNCHANGED <<tenants, dbVars, writeVars, createVars>>

-----------------------------------------------------------------------------
(* Who updates a policy has loaded it first, through the cache, or makes an *)
(* entry for one that is not served.                                        *)
LoadPolicy(w) ==
  /\ writer[w] = "idle"
  /\ writer' = [writer EXCEPT ![w] = "loaded"]
  /\ loaded' = [loaded EXCEPT ![w] =
       IF Served(policies)[target[w]] # NoRow THEN policies[target[w]]
       ELSE [text |-> w, enabled |-> TRUE, version |-> 1]]
  /\ UNCHANGED <<target, dbVars, cacheVars, refreshVars, createVars>>

(* Slip: the version is counted up from the one that was loaded.            *)
UpdateDatabaseFromLoaded(w) ==
  /\ writer[w] = "loaded"
  /\ writer' = [writer EXCEPT ![w] = "written"]
  /\ \E on \in BOOLEAN :
       /\ dbPolicies' = [dbPolicies EXCEPT ![target[w]] =
            IF @ = NoRow THEN NoRow ELSE [text |-> w, enabled |-> on, version |-> loaded[w].version + 1]]
       /\ loaded' = [loaded EXCEPT ![w].text = w, ![w].enabled = on]
  /\ UNCHANGED <<target, dbTenants, cacheVars, refreshVars, createVars>>

(* update_policy: the UPDATE, which counts the row's own version up and     *)
(* does nothing if there is no row, ...                                     *)
UpdateDatabase(w) ==
  /\ writer[w] = "loaded"
  /\ writer' = [writer EXCEPT ![w] = "written"]
  /\ \E on \in BOOLEAN :
       /\ dbPolicies' = [dbPolicies EXCEPT ![target[w]] =
            IF @ = NoRow THEN NoRow ELSE [text |-> w, enabled |-> on, version |-> @.version + 1]]
       /\ loaded' = [loaded EXCEPT ![w].text = w, ![w].enabled = on]
  /\ UNCHANGED <<target, dbTenants, cacheVars, refreshVars, createVars>>

UpdateFails(w) ==
  /\ writer[w] = "loaded" /\ writer' = [writer EXCEPT ![w] = "failed"]
  /\ UNCHANGED <<target, loaded, dbVars, cacheVars, refreshVars, createVars>>

(* ... and then the entry, with the version it was loaded with, is put into *)
(* the cache.                                                               *)
UpdateCache(w) ==
  /\ writer[w] = "written" /\ writer' = [writer EXCEPT ![w] = "ok"]
  /\ policies' = [policies EXCEPT ![target[w]] = loaded[w]]
  /\ UNCHANGED <<target, loaded, tenants, dbVars, refreshVars, createVars>>

(* create_tenant: the INSERT, an error if there is such a row, ...          *)
CreateInDatabase(c) ==
  /\ creator[c] = "idle"
  /\ creator' = [creator EXCEPT ![c] = IF wanted[c] \in dbTenants THEN "failed" ELSE "written"]
  /\ dbTenants' = dbTenants \union {wanted[c]}
  /\ UNCHANGED <<wanted, dbPolicies, cacheVars, refreshVars, writeVars>>

(* ... and then the cache's own create_tenant.                              *)
CreateInCache(c) ==
  /\ creator[c] = "written"
  /\ creator' = [creator EXCEPT ![c] = IF wanted[c] \in tenants THEN "conflict" ELSE "ok"]
  /\ tenants' = tenants \union {wanted[c]}
  /\ UNCHANGED <<wanted, policies, dbVars, refreshVars, writeVars>>

(* A call whose caller is dropped ends between its two writes.              *)
Drop ==
  \/ \E w \in Writers : writer[w] = "written" /\ writer' = [writer EXCEPT ![w] = "dropped"]
                        /\ UNCHANGED <<target, loaded, dbVars, cacheVars, refreshVars, createVars>>
  \/ \E c \in Creators : creator[c] = "written" /\ creator' = [creator EXCEPT ![c] = "dropped"]
                         /\ UNCHANGED <<wanted, dbVars, cacheVars, refreshVars, writeVars>>

Store(r) == StoreTenants(r) \/ StorePolicies(r)

ControlNext ==
  \/ \E r \in Refreshers : FetchTenants(r) \/ FetchPolicies(r) \/ FetchFails(r) \/ Store(r)
  \/ \E w \in Writers : LoadPolicy(w) \/ UpdateDatabase(w) \/ UpdateFails(w) \/ UpdateCache(w)
  \/ \E c \in Creators : CreateInDatabase(c) \/ CreateInCache(c)
  \/ Drop

(* The timer ticks for ever, and its task and the calls are polled.  The    *)
(* database may fail any number of times, but not every time.               *)
ControlFairness ==
  /\ SF_controlVars(FetchTenants(Background)) /\ SF_controlVars(FetchPolicies(Background))
  /\ WF_controlVars(Store(Background))

ControlSpec == ControlInit /\ [][ControlNext]_controlVars /\ ControlFairness

-----------------------------------------------------------------------------
(* Types; only enabled policies are fetched. *)
ControlTypeOK ==
  /\ dbPolicies \in [Policies -> Row \union {NoRow}] /\ dbTenants \subseteq Tenants
  /\ policies \in [Policies -> Row \union {NoRow}] /\ tenants \subseteq Tenants
  /\ step \in [Refreshers -> {"idle", "tenants", "fetched", "stored"}]
  /\ fetchedTenants \in [Refreshers -> SUBSET Tenants]
  /\ fetchedPolicies \in [Refreshers -> [Policies -> Row \union {NoRow}]]
  /\ \A r \in Refreshers : fetchedPolicies[r] = Served(fetchedPolicies[r])
  /\ writer \in [Writers -> {"idle", "loaded", "written", "ok", "failed", "dropped"}]
  /\ target \in [Writers -> Policies] /\ loaded \in [Writers -> Row \union {NoRow}]
  /\ creator \in [Creators -> {"idle", "written", "ok", "failed", "conflict", "dropped"}]
  /\ wanted \in [Creators -> Tenants]

Updates(p) == {w \in Writers : target[w] = p /\ writer[w] \in {"written", "ok", "dropped"}}

(* A policy's version counts its updates, however they overlap: no two      *)
(* texts it ever had have the same version.  (version = version + 1)        *)
VersionsCountUpdates ==
  \A p \in Policies : dbPolicies[p] # NoRow => dbPolicies[p].version = 1 + Cardinality(Updates(p))

(* In the end the cache serves what the database has, whatever stale        *)
(* fetches, half-done updates and failures came before.  (refresh_cache)    *)
CacheConverges == <>[](tenants = dbTenants /\ Served(policies) = Served(dbPolicies))
=============================================================================
