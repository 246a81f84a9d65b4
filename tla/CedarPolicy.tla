---------------------------- MODULE CedarPolicy ----------------------------
(***************************************************************************)
(* The Cedar authorizer (src/policy/cedar.rs) and the router's use of it    *)
(* (src/gateway/router.rs): evaluations that run at the same time, a reload *)
(* between them, and an operator who edits the policy file.                 *)
(*                                                                         *)
(* A policy is a permit or a forbid with a scope each of principal, action  *)
(* and resource, and one condition on the principal's scopes: `when` it has *)
(* the scope for a permit and `unless` it has it for a forbid, the forms of *)
(* policies/default.cedar.                                                  *)
(***************************************************************************)
EXTENDS FiniteSets

CONSTANTS
  Evaluations,   \* one element per evaluation
  Scopes,        \* granted scopes
  Methods,       \* MCP methods
  ResourceNames, \* values of the parameter `name`
  Anonymous,     \* "anonymous"
  AnyName,       \* "any", the name of a request without one
  Quoted,        \* those of them with a quote inside
  PolicyFiles,   \* what the policy file may hold, sets of policies
  Anything,      \* a policy that leaves something open
  None           \* no query, no parsed set

Ids == Scopes \union {Anonymous}

Policy ==
  [effect : {"permit", "forbid"}, principal : Ids \union {Anything},
   action : Methods \union {Anything}, type : {"Tool", "Resource", Anything},
   resource : ResourceNames \union {AnyName, Anything}, scope : Scopes \union {Anything}]

ASSUME CedarAssumption ==
  /\ PolicyFiles \subseteq SUBSET Policy
  /\ Anything \notin Ids \union Methods \union ResourceNames \union {AnyName, "Tool", "Resource"}
  /\ "tools/call" \in Methods
  /\ Quoted \subseteq ResourceNames
  /\ None \notin PolicyFiles

(* AuthorizationRequest; `granted` are the scopes of its context. *)
Query ==
  [principal : Ids, action : Methods, resource : ResourceNames \union {AnyName},
   granted : SUBSET Scopes]

VARIABLES
  file,      \* the operator's policies, where the authorizer got its own from
  source,    \* policy_source
  policies,  \* policy_set
  reload,    \* the set a reload has parsed and not yet stored
  granted,   \* the scopes of the caller's enforcer
  query,     \* what the authorizer was asked
  answer     \* its decision

cedarVars == <<file, source, policies, reload, granted, query, answer>>

(* new, from_file: the text is parsed at once and kept. *)
CedarInit ==
  /\ file \in PolicyFiles
  /\ source = file /\ policies = file /\ reload = None
  /\ granted = [c \in Evaluations |-> {}]
  /\ query = [c \in Evaluations |-> None]
  /\ answer = [c \in Evaluations |-> "none"]

-----------------------------------------------------------------------------
(* handle_request: the principal is the first of the granted scopes, in the *)
(* order of a HashSet, and the scopes go into the context.                  *)
RoutersPrincipals(scopes) == IF scopes = {} THEN {Anonymous} ELSE scopes

Ask(c) ==
  \E scopes \in SUBSET Scopes, method \in Methods, name \in ResourceNames \union {AnyName} :
    \E principal \in RoutersPrincipals(scopes) :
      /\ query[c] = None
      /\ granted' = [granted EXCEPT ![c] = scopes]
      /\ query' = [query EXCEPT ![c] = [principal |-> principal, action |-> method,
                                       resource |-> name, granted |-> scopes]]
      /\ UNCHANGED <<file, source, policies, reload, answer>>

(* build_resource_entity and parse_euid: the name is put between quotes, so *)
(* one that has a quote itself does not parse.                              *)
Builds(q) == q.resource \notin Quoted

(* build_resource_entity *)
ResourceType(q) == IF q.action = "tools/call" THEN "Tool" ELSE "Resource"

(* Slip: the principal's entity gets the principal's own scope only. *)
ScopesOfFirst(q) == q.granted \intersect {q.principal}

ScopesOf(q) == q.granted

(* What Cedar makes of a policy and a request. *)
Applies(p, q) ==
  /\ p.principal \in {Anything, q.principal}
  /\ p.action \in {Anything, q.action}
  /\ p.type \in {Anything, ResourceType(q)}
  /\ p.resource \in {Anything, q.resource}
  /\ p.scope # Anything => (p.effect = "permit" <=> p.scope \in ScopesOf(q))

(* is_authorized: some permit applies and no forbid does. *)
Decision(set, q) ==
  IF /\ \E p \in set : p.effect = "permit" /\ Applies(p, q)
     /\ \A p \in set : p.effect = "forbid" => ~Applies(p, q)
  THEN "Allow" ELSE "Deny"

Authorize(c) ==
  /\ query[c] # None /\ answer[c] = "none"
  /\ answer' = [answer EXCEPT ![c] =
                  IF Builds(query[c]) THEN Decision(policies, query[c]) ELSE "EvaluationError"]
  /\ UNCHANGED <<file, source, policies, reload, granted, query>>

(* reload_policies: the kept text is parsed again; the file is not read.    *)
BeginReload ==
  /\ reload = None
  /\ reload' = source
  /\ UNCHANGED <<file, source, policies, granted, query, answer>>

EndReload ==
  /\ reload # None
  /\ policies' = reload /\ reload' = None
  /\ UNCHANGED <<file, source, granted, query, answer>>

(* The operator edits the file. *)
EditFile(text) ==
  /\ file # text
  /\ file' = text
  /\ UNCHANGED <<source, policies, reload, granted, query, answer>>

CedarNext ==
  \/ \E c \in Evaluations : Ask(c) \/ Authorize(c)
  \/ BeginReload \/ EndReload
  \/ \E text \in PolicyFiles : EditFile(text)

CedarSpec == CedarInit /\ [][CedarNext]_cedarVars

-----------------------------------------------------------------------------
(* Every variable has its type; the router asks about a scope that its      *)
(* client was granted, or about nobody.                                     *)
CedarTypeOK ==
  /\ {file, source, policies} \subseteq PolicyFiles
  /\ reload \in PolicyFiles \union {None}
  /\ granted \in [Evaluations -> SUBSET Scopes]
  /\ query \in [Evaluations -> Query \union {None}]
  /\ answer \in [Evaluations -> {"none", "Allow", "Deny", "EvaluationError"}]
  /\ \A c \in Evaluations :
       query[c] # None => query[c].principal \in granted[c] \union {Anonymous}

Answered(c) == answer[c] \in {"Allow", "Deny"}
NamesNoPrincipal(set) == \A p \in set : p.principal = Anything

Alike(c, d) ==
  /\ Answered(c) /\ Answered(d)
  /\ query[c].action = query[d].action /\ query[c].resource = query[d].resource

(* Under policies that name no principal the order of a HashSet does not    *)
(* matter: two clients with the same scopes that ask for the same thing get *)
(* the same decision, with a reload or an edit of the file between them or  *)
(* not.  (handle_request's principal against build_principal_entity's scopes)*)
ScopesAloneDecide ==
  NamesNoPrincipal(policies) =>
    \A c, d \in Evaluations :
      (Alike(c, d) /\ granted[c] = granted[d]) => answer[c] = answer[d]

-----------------------------------------------------------------------------
(* What a comment says and the code does not do.                            *)

(* "deterministic allow/deny decisions" (cedar.rs): the same client asking  *)
(* for the same thing gets the same decision from the same policies.        *)
DecisionsAreDeterministic ==
  \A c, d \in Evaluations :
    (Alike(c, d) /\ granted[c] = granted[d]) => answer[c] = answer[d]
=============================================================================
