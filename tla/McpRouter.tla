----------------------------- MODULE McpRouter -----------------------------
(***************************************************************************)
(* The gateway pipeline (src/gateway/router.rs): McpRouter::handle_message *)
(* for any number of messages at once, over the tool registry and the      *)
(* session manager, whose other callers (servers that come and go,         *)
(* contexts that get locked) act between any two steps of a message.       *)
(*                                                                         *)
(* One action stands for the code from one await to the next.  `pc` says   *)
(* where a message waits.  The proxy is a module of its own (UpstreamProxy)*)
(* and is seen here as its callers see it: a call that is under way and    *)
(* then comes back with a reply or an error.  A transport that goes away   *)
(* drops the future of its message at any await (Disconnect).              *)
(***************************************************************************)
EXTENDS ToolRegistry, ScopeEnforcer, SessionManager

CONSTANTS
  Requests,           \* one element per message the gateway is given
  Inbox,              \* the messages clients may send
  NotificationNames,  \* method names that start with "notifications/"
  OfferedTools,       \* names upstream servers register
  ConsultedTools,     \* names a client may put in tools/call
  Args,               \* argument values of a tools/call
  NullArgs,           \* the argument value `null`, which is not validated
  NoName,             \* a tools/call without a `name`
  Conforms,           \* pairs <<args, schema>> that validate
  EcpaSatisfied,      \* pairs <<raw name, args>> the guardrail accepts
  Anonymous,          \* Cedar principal of an enforcer without scopes
  PolicyAllows,       \* triples <<principal, method, resource>> Cedar allows
  PolicyFails,        \* triples for which Cedar evaluation is an error
  Features,           \* the optional parts this router was built with
  ProxyServers,       \* servers the proxy calls, or plays itself
  DefaultServer,      \* the proxy's first server, or NoServer
  NoServer,
  StraySession,       \* a transport session id the session manager never drew
  NoSessionId         \* session_id = None

(* A message as the pipeline sees it.  `tool` and `args` are those of      *)
(* tools/call; `wellFormed` says whether initialize params deserialize.    *)
Message ==
  [kind : {"request", "notification", "response"}, method : STRING,
   tool : ConsultedTools \union {NoName}, args : Args, wellFormed : BOOLEAN,
   enforcer : Enforcer]

(* What a transport hands over: one message, or a batch of them. *)
ASSUME RouterAssumption ==
  /\ Inbox \subseteq [batch : BOOLEAN, items : Seq(Message)]
  /\ \A m \in Inbox : ~m.batch => Len(m.items) = 1
  /\ ConsultedTools \subseteq RawName
  /\ OfferedTools \subseteq RawName
  /\ NoName \notin RawName
  /\ Requests \subseteq CallRecords
  /\ Features \subseteq {"authorizer", "sessions", "audit", "ecpa", "egress"}
  /\ ProxyServers \subseteq Servers
  /\ NoServer \notin Servers
  /\ DefaultServer \in Servers \union {NoServer}
  /\ {StraySession, NoSessionId} \cap SessionIds = {}

VARIABLES
  pc,         \* where the message waits
  inbound,    \* the message, with the session id the transport passed
  entry,      \* the RegisteredTool that lookup_any returned
  outcome,    \* the result of handle_message, "" while there is none
  reply,      \* the upstream reply
  sent,       \* history: the call went upstream, to this server
  audits,     \* history: what the audit pipeline got of the message
  current,    \* history: entries the called name had since arrival
  shut        \* history: the lock refused the call from arrival on

callVars == <<pc, inbound, entry, outcome, reply, sent, audits>>
vars == <<registryVars, sessionVars, callVars, current, shut>>

(* Every tool call is checked against a private context named by its       *)
(* prefix.  A lock on that same context does not refuse it.                *)
PrivateContext(raw) == [identifier |-> raw.prefix, visibility |-> "private"]

NoInbound == [batch |-> FALSE, items |-> <<>>, session |-> NoSessionId]

(* The message a request stands for.  For a batch it is the first one: the *)
(* others are never looked at.                                             *)
Msg(r) == inbound[r].items[1]
Sid(r) == inbound[r].session
IsRequest(r) == inbound[r].items # <<>> /\ Msg(r).kind = "request"
IsToolCall(r) == IsRequest(r) /\ Msg(r).method = "tools/call"

NoReply == [shape |-> "none", flagged |-> FALSE]

(* Upstream replies: a result with a content array, one without, or a      *)
(* JSON-RPC error; `flagged` when the inspector finds a pattern in it.     *)
UpstreamReplies ==
  [shape : {"content", "bare"}, flagged : BOOLEAN]
    \union {[shape |-> "error", flagged |-> FALSE]}

(* A failed call; the reply is no JSON; the echo server knows no such thing.*)
UpstreamFailures == {"UpstreamError", "ParseError", "MethodNotFound"}

OkOutcomes == {"Ok", "MethodNotFoundReply"}
Errors == {"InvalidRequest", "MethodNotFound", "InvalidParams", "InternalError",
           "ScopeDenied", "SchemaInvalid", "RegistryCollision", "SessionLocked",
           "EcpaViolation", "UpstreamError", "ParseError"}

Stages == {"routing", "policy", "list", "default", "lookup", "validate", "constrain",
           "session", "log", "send", "upstream", "inspect", "settled"}

RouterInit ==
  /\ RegistryInit
  /\ SessionInit
  /\ pc = [r \in Requests |-> "idle"]
  /\ inbound = [r \in Requests |-> NoInbound]
  /\ entry = [r \in Requests |-> NoTool]
  /\ outcome = [r \in Requests |-> "none"]
  /\ reply = [r \in Requests |-> NoReply]
  /\ sent = [r \in Requests |-> NoServer]
  /\ audits = [r \in Requests |-> "none"]
  /\ current = [r \in Requests |-> {}]
  /\ shut = [r \in Requests |-> FALSE]

-----------------------------------------------------------------------------
(* History: the entry the called name has now, and whether the session's   *)
(* lock refuses the call now.                                              *)
EntriesNow(m) ==
  IF m.tool # NoName /\ LookupHits(m.tool) THEN {tools[Qualified(m.tool)]} ELSE {}

RefusedNow(m, sid) ==
  Live(sid) /\ m.tool # NoName /\ LockRefuses(sessions[sid].locked, PrivateContext(m.tool))

(* A transport calls handle_message.  The session id is one it was given,  *)
(* one of its own that the session manager has never seen, or none.        *)
Arrive(r, m, sid) ==
  /\ pc[r] = "idle"
  /\ pc' = [pc EXCEPT ![r] = "routing"]
  /\ inbound' = [inbound EXCEPT ![r] =
                   [batch |-> m.batch, items |-> m.items, session |-> sid]]
  /\ current' = [current EXCEPT ![r] = IF m.items = <<>> THEN {} ELSE EntriesNow(m.items[1])]
  /\ shut' = [shut EXCEPT ![r] = m.items # <<>> /\ RefusedNow(m.items[1], sid)]
  /\ UNCHANGED <<registryVars, sessionVars, entry, outcome, reply, sent, audits>>

-----------------------------------------------------------------------------
(* The steps of one message.                                               *)
Has(feature) == feature \in Features

Goto(r, stage) == pc' = [pc EXCEPT ![r] = stage] /\ UNCHANGED outcome

(* The handler returns: what is left is the audit event. *)
Finish(r, result) ==
  /\ pc' = [pc EXCEPT ![r] = "settled"]
  /\ outcome' = [outcome EXCEPT ![r] = result]

Untouched == UNCHANGED <<registryVars, inbound, current, shut>>

(* handle_request, the match on the method. *)
Dispatch(r) ==
  LET m == Msg(r) IN
  CASE m.method \in {"ping", "shutdown"} -> Finish(r, "Ok")
    [] m.method = "initialize" -> Finish(r, IF m.wellFormed THEN "Ok" ELSE "InvalidParams")
    [] m.method = "notifications/initialized" -> Finish(r, "InvalidRequest")
    [] m.method = "tools/list" -> Goto(r, "list")
    [] m.method = "tools/call" -> Goto(r, "lookup")
    [] OTHER -> Goto(r, "default")

KnownMethod(method) == method \in ValidMethods \union NotificationNames

(* handle_message and handle_request up to the first await: a notification *)
(* and a response are errors, an unknown method is answered, and the       *)
(* method needs its scope.                                                 *)
Route(r) ==
  /\ pc[r] = "routing"
  /\ \/ ~IsRequest(r) /\ Finish(r, "InvalidRequest")
     \/ /\ IsRequest(r) /\ ~KnownMethod(Msg(r).method)
        /\ Finish(r, "MethodNotFoundReply")
     \/ /\ IsRequest(r) /\ KnownMethod(Msg(r).method)
        /\ ~CheckMethod(Msg(r).enforcer, Msg(r).method)
        /\ Finish(r, "ScopeDenied")
     \/ /\ IsRequest(r) /\ KnownMethod(Msg(r).method)
        /\ CheckMethod(Msg(r).enforcer, Msg(r).method)
        /\ IF Has("authorizer") THEN Goto(r, "policy") ELSE Dispatch(r)
  /\ Untouched /\ UNCHANGED <<sessionVars, entry, reply, sent, audits>>

(* Cedar's principal is whichever granted scope a HashSet yields first. *)
Principals(e) == IF e.granted = {} THEN {Anonymous} ELSE e.granted

PolicyVerdict(principal, m) ==
  LET query == <<principal, m.method, m.tool>> IN
  IF query \in PolicyFails THEN "error" ELSE IF query \in PolicyAllows THEN "allow" ELSE "deny"

EvaluatePolicy(r) ==
  /\ pc[r] = "policy"
  /\ \E principal \in Principals(Msg(r).enforcer) :
       LET verdict == PolicyVerdict(principal, Msg(r)) IN
       \/ verdict = "deny" /\ Finish(r, "ScopeDenied")
       \/ verdict = "error" /\ Finish(r, "InternalError")
       \/ verdict = "allow" /\ Dispatch(r)
  /\ Untouched /\ UNCHANGED <<sessionVars, entry, reply, sent, audits>>

(* handle_tools_list *)
HandleToolsList(r) ==
  /\ pc[r] = "list"
  /\ Finish(r, "Ok")
  /\ Untouched /\ UNCHANGED <<sessionVars, entry, reply, sent, audits>>

(* proxy_to_upstream, up to the forwarding: the proxy's first server. *)
ProxyToUpstream(r) ==
  /\ pc[r] = "default"
  /\ IF DefaultServer = NoServer THEN Finish(r, "UpstreamError") ELSE Goto(r, "send")
  /\ Untouched /\ UNCHANGED <<sessionVars, entry, reply, sent, audits>>

AfterConstraints(r) == IF Has("sessions") /\ Sid(r) # NoSessionId THEN "session" ELSE "send"
AfterValidation(r) == IF Has("ecpa") THEN "constrain" ELSE AfterConstraints(r)

(* Slip: a call goes on without the schema check. *)
AfterLookupUnvalidated(r) == AfterValidation(r)

AfterLookup(r) == IF Msg(r).args # NullArgs THEN "validate" ELSE AfterValidation(r)

(* handle_tools_call up to the lookup.  The entry is cloned here: what the *)
(* registry does later no longer matters to this call.                     *)
LookupTool(r) ==
  /\ pc[r] = "lookup"
  /\ LET m == Msg(r) IN
     \/ m.tool = NoName /\ Finish(r, "InvalidParams") /\ UNCHANGED entry
     \/ /\ m.tool # NoName /\ ~CheckToolAccess(m.enforcer, m.tool)
        /\ Finish(r, "ScopeDenied") /\ UNCHANGED entry
     \/ /\ m.tool # NoName /\ CheckToolAccess(m.enforcer, m.tool)
        /\ \/ LookupAny(m.tool) = "ambiguous" /\ Finish(r, "RegistryCollision") /\ UNCHANGED entry
           \/ LookupAny(m.tool) = "none" /\ Finish(r, "MethodNotFound") /\ UNCHANGED entry
           \/ /\ LookupAny(m.tool) = "found"
              /\ entry' = [entry EXCEPT ![r] = tools[Qualified(m.tool)]]
              /\ Goto(r, AfterLookup(r))
  /\ Untouched /\ UNCHANGED <<sessionVars, reply, sent, audits>>

(* The schema check, against the schema of the cloned entry: arguments that *)
(* do not match are invalid parameters, a schema that is no use is invalid. *)
ValidateArguments(r) ==
  /\ pc[r] = "validate"
  /\ \/ <<Msg(r).args, entry[r].schema>> \in Conforms /\ Goto(r, AfterValidation(r))
     \/ /\ <<Msg(r).args, entry[r].schema>> \notin Conforms
        /\ \E refusal \in {"InvalidParams", "SchemaInvalid"} : Finish(r, refusal)
  /\ Untouched /\ UNCHANGED <<sessionVars, entry, reply, sent, audits>>

(* The ePCA check; an evaluation error is a violation too. *)
EvaluateConstraints(r) ==
  /\ pc[r] = "constrain"
  /\ IF <<Msg(r).tool, Msg(r).args>> \in EcpaSatisfied
     THEN Goto(r, AfterConstraints(r)) ELSE Finish(r, "EcpaViolation")
  /\ Untouched /\ UNCHANGED <<sessionVars, entry, reply, sent, audits>>

(* Slip: a denial is warned about like an error. *)
CheckSessionLenient(r) ==
  /\ pc[r] = "session"
  /\ Goto(r, "log")
  /\ Untouched /\ UNCHANGED <<sessionVars, entry, reply, sent, audits>>

(* The session check.  A session that is not found is only warned about.   *)
CheckSession(r) ==
  /\ pc[r] = "session"
  /\ IF CheckContextAccess(Sid(r), PrivateContext(Msg(r).tool)) = "Deny"
     THEN Finish(r, "SessionLocked") ELSE Goto(r, "log")
  /\ Untouched /\ UNCHANGED <<sessionVars, entry, reply, sent, audits>>

(* Slip: only calls of a locked session are logged. *)
LogCallWhenLocked(r) ==
  /\ pc[r] = "log"
  /\ IF Live(Sid(r)) /\ sessions[Sid(r)].locked # NoContext
     THEN LogToolCall(Sid(r), r) ELSE UNCHANGED sessionVars
  /\ Goto(r, "send")
  /\ Untouched /\ UNCHANGED <<entry, reply, sent, audits>>

(* log_tool_call, whose error is ignored. *)
LogCall(r) ==
  /\ pc[r] = "log"
  /\ IF Live(Sid(r)) THEN LogToolCall(Sid(r), r) ELSE UNCHANGED sessionVars
  /\ Goto(r, "send")
  /\ Untouched /\ UNCHANGED <<entry, reply, sent, audits>>

(* Slip: the owner is looked up again when the call is about to leave. *)
TargetServerLate(r) ==
  IF ~IsToolCall(r) THEN DefaultServer
  ELSE IF LookupHits(Msg(r).tool) THEN tools[Qualified(Msg(r).tool)].server
  ELSE entry[r].server

TargetServer(r) == IF IsToolCall(r) THEN entry[r].server ELSE DefaultServer

(* Slip: the call leaves before its server is looked up. *)
ForwardUnknown(r) ==
  /\ pc[r] = "send"
  /\ Goto(r, "upstream")
  /\ sent' = [sent EXCEPT ![r] = TargetServer(r)]
  /\ Untouched /\ UNCHANGED <<sessionVars, entry, reply, audits>>

(* forward_request: the server's own table decides whether the call leaves.*)
ForwardRequest(r) ==
  /\ pc[r] = "send"
  /\ IF TargetServer(r) \in ProxyServers
     THEN Goto(r, "upstream") /\ sent' = [sent EXCEPT ![r] = TargetServer(r)]
     ELSE Finish(r, "UpstreamError") /\ UNCHANGED sent
  /\ Untouched /\ UNCHANGED <<sessionVars, entry, reply, audits>>

(* The call comes back: an error (a timeout is one) or a reply, which is   *)
(* inspected if it is the result of a tool call.                           *)
UpstreamAnswers(r) ==
  /\ pc[r] = "upstream"
  /\ \/ (\E failure \in UpstreamFailures : Finish(r, failure)) /\ UNCHANGED reply
     \/ \E answer \in UpstreamReplies :
          /\ reply' = [reply EXCEPT ![r] = answer]
          /\ IF IsToolCall(r) /\ Has("egress") /\ answer.shape # "error"
             THEN Goto(r, "inspect") ELSE Finish(r, "Ok")
  /\ Untouched /\ UNCHANGED <<sessionVars, entry, sent, audits>>

(* Egress inspection.  A modified result is rebuilt by replacing its       *)
(* `content` field; a result that has none goes out as it came.            *)
InspectEgress(r) ==
  /\ pc[r] = "inspect"
  /\ reply' = IF reply[r].shape = "content"
              THEN [reply EXCEPT ![r].flagged = FALSE] ELSE reply
  /\ Finish(r, "Ok")
  /\ Untouched /\ UNCHANGED <<sessionVars, entry, sent, audits>>

(* Slip: whatever no gate refused is recorded as allowed. *)
AuthDecisionByGate(result) ==
  CASE result \in {"SessionLocked", "EcpaViolation"} -> "Block"
    [] result = "ScopeDenied" -> "DenyPolicy"
    [] OTHER -> "Allow"

(* The decision recorded for a result, told from its error code. *)
AuthDecision(result) ==
  CASE result \in OkOutcomes -> "Allow"
    [] result \in {"SessionLocked", "EcpaViolation"} -> "Block"
    [] result = "ScopeDenied" -> "DenyPolicy"
    [] OTHER -> "Deny"

(* Slip: a publishing error ends the message without an answer. *)
ConcludeOnlyPublished(r) ==
  /\ pc[r] = "settled" /\ audits[r] = "none"
  /\ \/ /\ audits' = [audits EXCEPT ![r] = AuthDecision(outcome[r])]
        /\ pc' = [pc EXCEPT ![r] = "answered"]
     \/ audits' = [audits EXCEPT ![r] = "lost"] /\ UNCHANGED pc
  /\ Untouched /\ UNCHANGED <<sessionVars, entry, outcome, reply, sent>>

(* The end of handle_message: publish the audit event, ignore a publishing *)
(* error, return the result.                                               *)
Conclude(r) ==
  /\ pc[r] = "settled"
  /\ pc' = [pc EXCEPT ![r] = "answered"]
  /\ IF Has("audit")
     THEN \E event \in {AuthDecision(outcome[r]), "lost"} : audits' = [audits EXCEPT ![r] = event]
     ELSE UNCHANGED audits
  /\ Untouched /\ UNCHANGED <<sessionVars, entry, outcome, reply, sent>>

(* The transport drops the future: nothing of the message happens any more.*)
Disconnect(r) ==
  /\ pc[r] \in Stages
  /\ pc' = [pc EXCEPT ![r] = "gone"]
  /\ Untouched /\ UNCHANGED <<sessionVars, entry, outcome, reply, sent, audits>>

Advance(r) ==
  \/ Route(r) \/ EvaluatePolicy(r) \/ HandleToolsList(r) \/ ProxyToUpstream(r)
  \/ LookupTool(r) \/ ValidateArguments(r) \/ EvaluateConstraints(r)
  \/ CheckSession(r) \/ LogCall(r) \/ ForwardRequest(r) \/ UpstreamAnswers(r)
  \/ InspectEgress(r) \/ Conclude(r)

-----------------------------------------------------------------------------
(* The other callers of the registry and of the session manager.           *)
InProgress(r) == pc[r] \in Stages

RegistryChanges ==
  /\ \/ \E raw \in OfferedTools, schema \in Schemas, s \in Servers : RegisterTool(raw, schema, s)
     \/ \E s \in Servers : UnregisterServer(s)
     \/ Clear
  /\ UNCHANGED <<sessionVars, callVars, shut>>
  /\ current' = [r \in Requests |->
       IF InProgress(r) /\ inbound[r].items # <<>>
       THEN current[r] \union EntriesNow(Msg(r))' ELSE current[r]]

SessionsChange ==
  /\ SessionAdmin
  /\ UNCHANGED <<registryVars, callVars, current>>
  /\ shut' = [r \in Requests |->
       shut[r] /\ (InProgress(r) => RefusedNow(Msg(r), Sid(r))')]

RouterNext ==
  \/ \E r \in Requests, m \in Inbox, sid \in issued \union {StraySession, NoSessionId} :
       Arrive(r, m, sid)
  \/ \E r \in Requests : Advance(r)
  \/ \E r \in Requests : Disconnect(r)
  \/ RegistryChanges
  \/ SessionsChange

(* Tokio polls every ready task, its locks are granted in order, an        *)
(* upstream call ends by its timeout and a publish by its own: a message   *)
(* that can take its next step does so in the end.  Nothing makes clients, *)
(* servers or administrators act.                                          *)
RouterSpec ==
  RouterInit /\ [][RouterNext]_vars /\ \A r \in Requests : WF_vars(Advance(r))

-----------------------------------------------------------------------------
(* Types of the router's own state; a call only ever leaves for a server    *)
(* the proxy knows.  (the locals of handle_message and what it calls)       *)
RouterTypeOK ==
  /\ RegistryTypeOK /\ SessionTypeOK
  /\ pc \in [Requests -> Stages \union {"idle", "answered", "gone"}]
  /\ inbound \in [Requests -> [batch : BOOLEAN, items : Seq(Message),
                              session : SessionIds \union {StraySession, NoSessionId}]]
  /\ entry \in [Requests -> RegisteredTool \union {NoTool}]
  /\ outcome \in [Requests -> OkOutcomes \union Errors \union {"none"}]
  /\ reply \in [Requests -> UpstreamReplies \union {NoReply}]
  /\ sent \in [Requests -> ProxyServers \union {NoServer}]
  /\ audits \in [Requests -> {"none", "lost", "Allow", "Deny", "DenyPolicy", "Block"}]
  /\ current \in [Requests -> SUBSET RegisteredTool]
  /\ shut \in [Requests -> BOOLEAN]

Sent(r) == sent[r] # NoServer

(* Every call that reaches an upstream server passed every gate that this   *)
(* router was built with, whatever the registry and the sessions did while  *)
(* it was under way.  (handle_request and handle_tools_call)                *)
PassedGates(m, schema) ==
  /\ KnownMethod(m.method) /\ CheckMethod(m.enforcer, m.method)
  /\ Has("authorizer") => \E p \in Principals(m.enforcer) : PolicyVerdict(p, m) = "allow"
  /\ m.method = "tools/call" =>
       /\ CheckToolAccess(m.enforcer, m.tool)
       /\ m.args # NullArgs => <<m.args, schema>> \in Conforms
       /\ Has("ecpa") => <<m.tool, m.args>> \in EcpaSatisfied

OnlyVettedCallsGoUpstream ==
  \A r \in Requests :
    Sent(r) => /\ IsRequest(r)
               /\ PassedGates(Msg(r), IF IsToolCall(r) THEN entry[r].schema ELSE "none")

(* A tool call is served by one registration that its name had at some      *)
(* moment between its arrival and now: that registration's server gets the  *)
(* call, and that registration's schema accepted the arguments.  The owner  *)
(* of a name and the schema under it may change meanwhile, but the two are  *)
(* never taken from different registrations.  (handle_tools_call, which     *)
(* clones the entry)                                                        *)
ServedByOneRegistration ==
  \A r \in Requests :
    (Sent(r) /\ IsToolCall(r)) =>
      \E e \in current[r] :
        e.server = sent[r] /\ (Msg(r).args # NullArgs => <<Msg(r).args, e.schema>> \in Conforms)

(* A call whose session was locked against it when it arrived, and has been *)
(* ever since, never goes upstream; a lock that comes while the call is     *)
(* past its check does not stop it.  (the session gate)                     *)
ShutSessionSendsNothing ==
  \A r \in Requests :
    (Has("sessions") /\ shut[r] /\ IsToolCall(r)) => ~Sent(r)

(* Every call that went upstream on behalf of a session that still exists   *)
(* is in the session's log, once.  (log_tool_call before forward_request)   *)
LoggedBeforeUpstream ==
  \A r \in Requests :
    (Has("sessions") /\ Sent(r) /\ IsToolCall(r) /\ Live(Sid(r))) =>
      \E i \in DOMAIN sessions[Sid(r)].calls :
        /\ sessions[Sid(r)].calls[i] = r
        /\ \A j \in DOMAIN sessions[Sid(r)].calls \ {i} : sessions[Sid(r)].calls[j] # r

(* What the audit trail says of a message agrees with what happened         *)
(* upstream: one recorded as blocked or denied by policy never left; one    *)
(* recorded as allowed that left, and any tool call recorded so, came back  *)
(* with a reply; one recorded as denied has no reply, and if it left all    *)
(* the same, it failed upstream.  Deny is thus no gate's word: a refusal    *)
(* before the call left and a failure after it are recorded alike.          *)
(* (handle_message)                                                         *)
AuditAgreesWithUpstream ==
  \A r \in Requests :
    /\ audits[r] \in {"Block", "DenyPolicy"} => ~Sent(r)
    /\ (audits[r] = "Allow" /\ (IsToolCall(r) \/ Sent(r))) => reply[r].shape # "none"
    /\ audits[r] = "Deny" => /\ reply[r].shape = "none"
                             /\ Sent(r) => outcome[r] \in UpstreamFailures

(* Every message the gateway takes up is answered unless its transport goes *)
(* away: no upstream, audit pipeline or session keeps it for ever.          *)
EveryMessageSettles ==
  \A r \in Requests : InProgress(r) ~> pc[r] \in {"answered", "gone"}
=============================================================================
