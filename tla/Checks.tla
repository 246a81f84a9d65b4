------------------------------- MODULE Checks -------------------------------
(***************************************************************************)
(* The checks that a tool call meets, and the registry it is looked up in.  *)
(* They share no state, so they run one at a time: a behaviour moves the    *)
(* `part` it starts with, and the others stay as they are.                  *)
(***************************************************************************)
EXTENDS ToolRegistry, SchemaCache, EcpaGuardrail, EgressInspector, CedarPolicy, RateLimiter

VARIABLE part         \* the part that moves

Parts == {"registry", "schemas", "guardrail", "egress", "policy", "limiter"}

ChecksInit ==
  /\ part \in Parts
  /\ RegistryInit /\ SchemaInit
  /\ EcpaInit /\ (part # "guardrail" => phase = "loading" /\ directory = {})
  /\ EgressInit /\ (part # "egress" => result = CHOOSE r \in Results : TRUE)
  /\ CedarInit /\ (part # "policy" => file = CHOOSE f \in PolicyFiles : TRUE)
  /\ LimiterInit

ChecksNext ==
  /\ UNCHANGED part
  /\ \/ part = "registry" /\ RegistryNext
        /\ UNCHANGED <<schemaVars, ecpaVars, egressVars, cedarVars, limiterVars>>
     \/ part = "schemas" /\ SchemaNext
        /\ UNCHANGED <<registryVars, ecpaVars, egressVars, cedarVars, limiterVars>>
     \/ part = "guardrail" /\ EcpaNext
        /\ UNCHANGED <<registryVars, schemaVars, egressVars, cedarVars, limiterVars>>
     \/ part = "egress" /\ EgressNext
        /\ UNCHANGED <<registryVars, schemaVars, ecpaVars, cedarVars, limiterVars>>
     \/ part = "policy" /\ CedarNext
        /\ UNCHANGED <<registryVars, schemaVars, ecpaVars, egressVars, limiterVars>>
     \/ part = "limiter" /\ LimiterNext
        /\ UNCHANGED <<registryVars, schemaVars, ecpaVars, egressVars, cedarVars>>

ChecksSpec ==
  ChecksInit /\ [][ChecksNext]_<<part, registryVars, schemaVars, ecpaVars, egressVars, cedarVars,
                               limiterVars>>

(* Each part's state is of its types: the registry's maps that agree, the    *)
(* cache with every compiled schema under its own key, the sets, blocks and  *)
(* decisions, and buckets that are never over-full.                          *)
ChecksTypeOK ==
  CASE part = "registry" -> RegistryInv
    [] part = "schemas" -> CacheTypeOK
    [] part = "guardrail" -> EcpaTypeOK
    [] part = "egress" -> EgressTypeOK
    [] part = "policy" -> CedarTypeOK
    [] part = "limiter" -> LimiterTypeOK
=============================================================================
