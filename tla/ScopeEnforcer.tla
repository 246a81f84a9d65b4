--------------------------- MODULE ScopeEnforcer ---------------------------
(***************************************************************************)
(* OAuth scope checks (src/auth/scope.rs) over the method names of         *)
(* src/protocol/message.rs.  The checks are pure, so they are operators.   *)
(*                                                                         *)
(* A scope string is a record: the fixed part, and for scopes that extend  *)
(* mcp:tools:call the prefix, or the prefix and the name, of a tool.       *)
(***************************************************************************)
EXTENDS ToolNames

CONSTANT ValidMethods     \* VALID_METHODS: the methods MCP knows

ASSUME MethodsAssumption == "tools/call" \in ValidMethods

Bases == {"mcp:tools:read", "mcp:tools:call", "mcp:resources:read",
          "mcp:prompts:read", "mcp:sampling", "mcp:admin"}

Scope == [base : Bases, prefix : NamePrefixes \union {EmptyPart}, name : Names \union {EmptyPart}]

Plain(base) == [base |-> base, prefix |-> EmptyPart, name |-> EmptyPart]

(* A ScopeEnforcer: permissive() skips every check, new(scopes) does not. *)
Enforcer == [permissive : BOOLEAN, granted : SUBSET Scope]

HasScope(e, scope) == e.permissive \/ scope \in e.granted

HasAnyOf(e, bases) == \E b \in bases : HasScope(e, Plain(b))

ReadScopes == {"mcp:tools:read", "mcp:resources:read", "mcp:prompts:read"}

(* The plain scopes of which one lets a client use the method; {} for the  *)
(* methods that need none (initialize, ping and every other method).       *)
ScopesFor(method) ==
  CASE method \in {"tools/list", "resources/list", "prompts/list"}
                                          -> ReadScopes \union {"mcp:admin"}
    [] method = "tools/call"              -> {"mcp:tools:call", "mcp:admin"}
    [] method = "resources/read"          -> {"mcp:resources:read", "mcp:admin"}
    [] method = "prompts/get"             -> {"mcp:prompts:read", "mcp:admin"}
    [] method = "sampling/createMessage"  -> {"mcp:sampling", "mcp:admin"}
    [] method = "shutdown"                -> {"mcp:admin"}
    [] OTHER                              -> {}

CheckMethod(e, method) ==
  e.permissive \/ ScopesFor(method) = {} \/ HasAnyOf(e, ScopesFor(method))

(* check_tool_access: the admin and tools:call scopes cover every tool; a  *)
(* scope that names a prefix or one tool is compared with the raw text, so *)
(* it cannot match a name with blanks, and needs the colon to split at.    *)
CheckToolAccess(e, raw) ==
  \/ HasAnyOf(e, {"mcp:admin", "mcp:tools:call"})
  \/ /\ raw.colon /\ ~raw.padded
     /\ \/ HasScope(e, [base |-> "mcp:tools:call", prefix |-> raw.prefix, name |-> EmptyPart])
        \/ HasScope(e, [base |-> "mcp:tools:call", prefix |-> raw.prefix, name |-> raw.name])
=============================================================================
