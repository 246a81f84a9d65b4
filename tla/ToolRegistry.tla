---------------------------- MODULE ToolRegistry ----------------------------
(***************************************************************************)
(* The namespace-isolated tool registry (src/gateway/registry.rs).         *)
(*                                                                         *)
(* ToolRegistryInner holds two maps: `tools`, from a qualified name to the *)
(* entry registered under it, and `by_server`, from an upstream server to  *)
(* the names it registered.  Every method takes the RwLock once, does all  *)
(* of its work without awaiting, and drops it: each is one action here.    *)
(***************************************************************************)
EXTENDS Naturals, Sequences, ToolNames

CONSTANTS
  Servers,              \* upstream server identifiers
  Schemas,              \* input schemas a server may declare for a tool
  AllowedPrefixes,      \* config: registry.allowed_prefixes, {} allows all
  NoTool                \* "no entry" in the map of tools

ASSUME RegistryAssumption ==
  /\ AllowedPrefixes \subseteq NamePrefixes
  /\ NoTool \notin [server : Servers, schema : Schemas, padded : BOOLEAN]

VARIABLES
  tools,      \* ToolRegistryInner.tools
  byServer    \* ToolRegistryInner.by_server

registryVars == <<tools, byServer>>

(* What of a RegisteredTool the callers use: the owner, the declared schema, *)
(* and whether the name inside the Tool definition kept its blanks.          *)
RegisteredTool == [server : Servers, schema : Schemas, padded : BOOLEAN]

PrefixAllowed(prefix) == AllowedPrefixes = {} \/ prefix \in AllowedPrefixes

RegistryInit ==
  /\ tools = [q \in QualifiedName |-> NoTool]
  /\ byServer = [s \in Servers |-> <<>>]

(* Slip: no collision check. *)
CanRegisterOverwriting(raw) == ParsesAsToolName(raw) /\ PrefixAllowed(raw.prefix)

(***************************************************************************)
(* register_tool: parse, check the allowed prefixes, refuse a name that is *)
(* taken, else enter the tool in both maps.  A refused registration        *)
(* returns an error and changes nothing, so it is no step of this machine. *)
(***************************************************************************)
CanRegister(raw) ==
  /\ ParsesAsToolName(raw)
  /\ PrefixAllowed(raw.prefix)
  /\ tools[Qualified(raw)] = NoTool

RegisterTool(raw, schema, s) ==
  /\ CanRegister(raw)
  /\ byServer' = [byServer EXCEPT ![s] = Append(@, Qualified(raw))]
  /\ tools' = [tools EXCEPT ![Qualified(raw)] =
                 [server |-> s, schema |-> schema, padded |-> raw.padded]]

(***************************************************************************)
(* unregister_server: the names listed for the server leave both maps.     *)
(* by_server loses its key; a missing key and an empty list are read the   *)
(* same way everywhere.                                                    *)
(***************************************************************************)
ListedFor(s) == {byServer[s][i] : i \in DOMAIN byServer[s]}

(* Slip: the server keeps its key in by_server. *)
UnregisterServerKeepingList(s) ==
  /\ tools' = [q \in QualifiedName |-> IF q \in ListedFor(s) THEN NoTool ELSE tools[q]]
  /\ UNCHANGED byServer

UnregisterServer(s) ==
  /\ tools' = [q \in QualifiedName |-> IF q \in ListedFor(s) THEN NoTool ELSE tools[q]]
  /\ byServer' = [byServer EXCEPT ![s] = <<>>]

(* clear: both maps are emptied. *)
Clear ==
  /\ tools' = [q \in QualifiedName |-> NoTool]
  /\ byServer' = [s \in Servers |-> <<>>]

(***************************************************************************)
(* lookup_any compares the raw text with the qualified names; a name with  *)
(* blanks equals none of them.  A name that is not found is an error when  *)
(* it has an underscore and no colon, and otherwise Ok(None).              *)
(***************************************************************************)
LookupHits(raw) == raw.colon /\ ~raw.padded /\ tools[Qualified(raw)] # NoTool

LookupAny(raw) ==
  IF LookupHits(raw) THEN "found"
  ELSE IF raw.underscore /\ ~raw.colon THEN "ambiguous" ELSE "none"

(* list_tools, as the set of names that have an entry. *)
ListTools == {q \in QualifiedName : tools[q] # NoTool}

RegistryNext ==
  \/ \E raw \in RawName, schema \in Schemas, s \in Servers : RegisterTool(raw, schema, s)
  \/ \E s \in Servers : UnregisterServer(s)
  \/ Clear

RegistrySpec == RegistryInit /\ [][RegistryNext]_registryVars

-----------------------------------------------------------------------------
(* The two maps hold what their types allow.  (types of ToolRegistryInner) *)
RegistryTypeOK ==
  /\ tools \in [QualifiedName -> RegisteredTool \union {NoTool}]
  /\ byServer \in [Servers -> Seq(QualifiedName)]

(* by_server lists a name exactly when the entry of that name is owned by   *)
(* that server: nothing stale is listed and nothing owned is missing, after *)
(* any sequence of register_tool, unregister_server and clear.              *)
IndexAgrees ==
  \A s \in Servers, q \in QualifiedName :
    q \in ListedFor(s) <=> (tools[q] # NoTool /\ tools[q].server = s)

(* No name is listed twice for a server, so the count that                  *)
(* unregister_server returns is the number of tools it removed.             *)
NoDuplicateListing ==
  \A s \in Servers : \A i, j \in DOMAIN byServer[s] :
    byServer[s][i] = byServer[s][j] => i = j

(* Tool hijacking: a name never passes from one server to another, and the  *)
(* schema under a name never changes, without the name being free between.  *)
NoTakeover ==
  [][\A q \in QualifiedName :
       tools[q] # NoTool => tools'[q] \in {tools[q], NoTool}]_registryVars

(* Only names in the qualified format, under an allowed prefix, are ever    *)
(* registered, whatever upstream servers submit.                            *)
OnlyQualifiedNames ==
  \A q \in ListTools :
    /\ EnforcePrefixFormat => q[1] \in DottedPrefixes
    /\ q[1] # EmptyPart /\ q[2] \in WellFormedNames
    /\ AllowedPrefixes # {} => q[1] \in AllowedPrefixes

(* All of it together, which is inductive: unregister_server removes the    *)
(* names its list holds, so a name leaves `tools` only with its owner if    *)
(* the index agrees, and the index agrees after an append only if the name  *)
(* was listed for nobody.                                                   *)
RegistryInv == RegistryTypeOK /\ IndexAgrees /\ NoDuplicateListing /\ OnlyQualifiedNames
=============================================================================
