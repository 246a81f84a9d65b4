------------------------------ MODULE Process ------------------------------
(***************************************************************************)
(* The gateway as a process (src/main.rs, src/config.rs): it reads its      *)
(* configuration, builds the parts one after the other, serves over HTTP    *)
(* or over stdio (StdioTransport), and stops: by itself, by an error, or by *)
(* a signal, which kills it unless the HTTP server is waiting for one.      *)
(*                                                                         *)
(* What a request does inside is in McpRouter and the transports; here an   *)
(* HTTP connection has an exchange that is open or not.  The settings that  *)
(* nothing in main.rs decides by (limits, names, addresses, telemetry) are  *)
(* left out.                                                                *)
(***************************************************************************)
EXTENDS StdioTransport

CONSTANTS
  Names,          \* ids of upstreams, "echo" among them
  Settings,       \* what a configuration file may say
  Missing,        \* no file
  Broken,         \* a file that does not parse
  EchoTools,      \* the tools of EchoServer::list_tools
  Connections     \* HTTP connections

ServerConfig == [enable_http : BOOLEAN, enable_stdio : BOOLEAN, enable_sse : BOOLEAN]

UpstreamConfig ==
  [transport : {"streamable_http", "sse", "stdio", "other"}, url : BOOLEAN, echo_server : BOOLEAN]

NoUpstream == [transport |-> "none", url |-> FALSE, echo_server |-> FALSE]

GuardrailsConfig == [ecpa_enabled : BOOLEAN, egress_enabled : BOOLEAN, session_locking : BOOLEAN]

(* `prefixed`: allowed_prefixes has the prefix of the echo server's tools.  *)
Config ==
  [server : ServerConfig, auth : BOOLEAN, policy : BOOLEAN, guardrails : GuardrailsConfig,
   upstreams : [Names -> UpstreamConfig \union {NoUpstream}], prefixed : BOOLEAN]

DefaultConfig ==
  [server |-> [enable_http |-> TRUE, enable_stdio |-> FALSE, enable_sse |-> TRUE],
   auth |-> FALSE, policy |-> FALSE,
   guardrails |-> [ecpa_enabled |-> FALSE, egress_enabled |-> FALSE, session_locking |-> FALSE],
   upstreams |-> [n \in Names |-> NoUpstream], prefixed |-> TRUE]

ASSUME ProcessAssumption ==
  /\ Settings \subseteq Config /\ {Missing, Broken} \cap Settings = {} /\ Missing # Broken
  /\ "echo" \in Names

VARIABLES
  phase,          \* where main is
  file,           \* the configuration file
  override,       \* MCP_SHIELD_AUTH_ENABLED: "unset", "true" or another text
  policyFile,     \* the policy file, "good" if it parses
  config,         \* the effective configuration
  registered,     \* tools registered for the server "echo"
  waiting,        \* upstreams that the loop has yet to register
  table,          \* the proxy's servers
  features,       \* the optional parts the router is built with
  enforcer,       \* the scope enforcer the transports are given
  routes,         \* the HTTP routes
  exchanges       \* per connection: "none", a "call", a "stream" of events

world == <<file, override, policyFile>>
parts == <<config, registered, waiting, table, features, enforcer, routes>>
processVars == <<phase, world, parts, exchanges, stdioVars>>

NoEntry == [transport |-> "none", url |-> FALSE, echo |-> FALSE]

StartUp == {"configure", "registry", "proxy", "upstreams", "policy", "router", "transport"}
Over == {"done", "failed", "killed"}

ProcessInit ==
  /\ phase = "configure"
  /\ file \in Settings \union {Missing, Broken}
  /\ override \in {"unset", "true", "other"}
  /\ policyFile \in {"good", Missing, Broken}
  /\ config = DefaultConfig
  /\ registered = {} /\ waiting = {}
  /\ table = [n \in Names |-> NoEntry]
  /\ features = {} /\ enforcer = "none" /\ routes = {}
  /\ exchanges = [c \in Connections |-> "none"]
  /\ StdioInit

-----------------------------------------------------------------------------
(* Starting, one section of main at a time.                                 *)
Quiet == UNCHANGED <<world, exchanges, stdioVars>>

(* load_with_env: the variable decides over the file when it is set.        *)
Overridden(settings) ==
  IF override = "unset" THEN settings ELSE [settings EXCEPT !.auth = (override = "true")]

LoadConfig ==
  /\ phase = "configure"
  /\ \/ file = Broken /\ phase' = "failed" /\ UNCHANGED config
     \/ /\ file # Broken /\ phase' = "registry"
        /\ config' = Overridden(IF file = Missing THEN DefaultConfig ELSE file)
  /\ UNCHANGED <<registered, waiting, table, features, enforcer, routes>> /\ Quiet

Configured == {n \in Names : config.upstreams[n] # NoUpstream}
HasEchoUpstream == \E n \in Configured : config.upstreams[n].echo_server

(* The echo server's tools, if an upstream is one or there are none.        *)
RegisterEchoTools ==
  /\ phase = "registry" /\ phase' = "proxy"
  /\ registered' = IF (Configured = {} \/ HasEchoUpstream) /\ config.prefixed THEN EchoTools ELSE {}
  /\ UNCHANGED <<config, waiting, table, features, enforcer, routes>> /\ Quiet

(* The table starts with the built-in echo server ...                       *)
RegisterEcho ==
  /\ phase = "proxy"
  /\ table' = [table EXCEPT !["echo"] = [transport |-> "http", url |-> FALSE, echo |-> TRUE]]
  /\ waiting' = Configured
  /\ phase' = IF Configured = {} THEN "policy" ELSE "upstreams"
  /\ UNCHANGED <<config, registered, features, enforcer, routes>> /\ Quiet

EntryOf(upstream) ==
  [transport |-> IF upstream.transport \in {"sse", "stdio"} THEN upstream.transport ELSE "http",
   url |-> upstream.url, echo |-> upstream.echo_server]

(* Slip: an id that is taken is left as it is. *)
RegisterUpstreamOnce(n) ==
  /\ phase = "upstreams" /\ n \in waiting
  /\ table' = [table EXCEPT ![n] = IF @ = NoEntry THEN EntryOf(config.upstreams[n]) ELSE @]
  /\ waiting' = waiting \ {n}
  /\ phase' = IF waiting = {n} THEN "policy" ELSE phase
  /\ UNCHANGED <<config, registered, features, enforcer, routes>> /\ Quiet

(* ... and gets the configured ones in whichever order their map yields.    *)
RegisterUpstream(n) ==
  /\ phase = "upstreams" /\ n \in waiting
  /\ table' = [table EXCEPT ![n] = EntryOf(config.upstreams[n])]
  /\ waiting' = waiting \ {n}
  /\ phase' = IF waiting = {n} THEN "policy" ELSE phase
  /\ UNCHANGED <<config, registered, features, enforcer, routes>> /\ Quiet

(* An enabled policy whose file does not parse ends the process, one whose  *)
(* file is not there is warned about.                                       *)
LoadPolicies ==
  /\ phase = "policy"
  /\ LET broken == config.policy /\ policyFile = Broken IN
     /\ phase' = IF broken THEN "failed" ELSE "router"
     /\ features' = IF config.policy /\ policyFile = "good" THEN {"authorizer"} ELSE {}
  /\ UNCHANGED <<config, registered, waiting, table, enforcer, routes>> /\ Quiet

(* The session manager if it is configured, the audit log, the router over  *)
(* them, and an enforcer that is permissive with and without auth.          *)
BuildRouter ==
  /\ phase = "router" /\ phase' = "transport"
  /\ features' = features \union {"audit"}
                   \union (IF config.guardrails.session_locking THEN {"sessions"} ELSE {})
  /\ enforcer' = "permissive"
  /\ UNCHANGED <<config, registered, waiting, table, routes>> /\ Quiet

Routes ==
  {"/mcp", "/healthz", "/readyz"}
    \union (IF config.server.enable_sse THEN {"/sse", "/messages"} ELSE {})
    \union (IF config.auth THEN {"/.well-known/oauth-protected-resource"} ELSE {})

(* HTTP before stdio; the address may be taken.                             *)
StartTransport ==
  /\ phase = "transport"
  /\ \/ /\ config.server.enable_http
        /\ phase' \in {"serving", "failed"} /\ routes' = Routes
     \/ /\ ~config.server.enable_http
        /\ phase' = IF config.server.enable_stdio THEN "stdio" ELSE "done"
        /\ UNCHANGED routes
  /\ UNCHANGED <<config, registered, waiting, table, features, enforcer>> /\ Quiet

Start ==
  \/ LoadConfig \/ RegisterEchoTools \/ RegisterEcho \/ (\E n \in Names : RegisterUpstream(n))
  \/ LoadPolicies \/ BuildRouter \/ StartTransport

-----------------------------------------------------------------------------
(* Serving over HTTP.  Once the signal has come no connection gets another  *)
(* exchange; the server is over when the last open one is.                  *)
Fixed == UNCHANGED <<world, parts, stdioVars>>

Accept(c) ==
  /\ phase = "serving" /\ exchanges[c] = "none"
  /\ \E kind \in {"call"} \union (IF "/sse" \in routes THEN {"stream"} ELSE {}) :
       exchanges' = [exchanges EXCEPT ![c] = kind]
  /\ UNCHANGED phase /\ Fixed

(* A call comes to its end.  A stream has none of its own.                  *)
Answered(c) ==
  /\ phase \in {"serving", "draining"} /\ exchanges[c] = "call"
  /\ exchanges' = [exchanges EXCEPT ![c] = "none"]
  /\ UNCHANGED phase /\ Fixed

Leave(c) ==
  /\ phase \in {"serving", "draining"} /\ exchanges[c] # "none"
  /\ exchanges' = [exchanges EXCEPT ![c] = "none"]
  /\ UNCHANGED phase /\ Fixed

(* A signal: the server starts to drain, and a signal after that one is     *)
(* taken and ignored.  Nothing else listens to signals.                     *)
Signal ==
  /\ phase \notin Over \union {"draining"}
  /\ phase' = IF phase = "serving" THEN "draining" ELSE "killed"
  /\ exchanges' = exchanges /\ Fixed

Drained ==
  /\ phase = "draining" /\ \A c \in Connections : exchanges[c] = "none"
  /\ phase' = "done"
  /\ UNCHANGED exchanges /\ Fixed

-----------------------------------------------------------------------------
(* Serving over stdio: the loop runs while main awaits it.                  *)
ServeStdio == phase = "stdio" /\ Loop /\ UNCHANGED <<phase, world, parts, exchanges>>

StdioOver ==
  /\ phase = "stdio" /\ stage = "ended"
  /\ phase' \in {"done", "failed"}
  /\ UNCHANGED exchanges /\ Fixed

(* The client's end of stdin.  What it writes before the loop runs is there *)
(* when the loop first reads; under HTTP nobody reads it.                   *)
StdinChanges ==
  /\ phase = "stdio"
  /\ (\E b \in Lines \union {Blank} : Type(b)) \/ CloseStdin
  /\ UNCHANGED <<phase, world, parts, exchanges>>

ProcessNext ==
  \/ Start \/ Signal \/ Drained \/ ServeStdio \/ StdioOver \/ StdinChanges
  \/ \E c \in Connections : Accept(c) \/ Answered(c) \/ Leave(c)

(* main runs on, tokio polls the loop and the handlers, which end as the    *)
(* transports' modules say; no client has to leave or to write.             *)
ProcessSpec ==
  /\ ProcessInit /\ [][ProcessNext]_processVars
  /\ WF_processVars(Start) /\ WF_processVars(Drained)
  /\ WF_processVars(ServeStdio) /\ WF_processVars(StdioOver)
  /\ \A c \in Connections : WF_processVars(Answered(c))

-----------------------------------------------------------------------------
Serving == phase \in {"serving", "draining", "stdio"}

(* A process that serves is the one that was configured, whatever order a   *)
(* map yields the upstreams in and whichever id one of them has: every      *)
(* upstream is in the proxy's table as it was written, the name echo is the *)
(* built-in server's unless one of them has it, and the tools that clients  *)
(* are shown have a server in the table; a policy file that was there is in *)
(* force, or has ended the process; and whether clients are told of an      *)
(* authorization server is what the environment says, or else the file.     *)
(* (main, sections 1 to 8, and load_with_env)                               *)
ServesAsConfigured ==
  Serving =>
    /\ \A n \in Configured : table[n] = EntryOf(config.upstreams[n])
    /\ \A n \in Names \ Configured : table[n].echo <=> n = "echo"
    /\ registered # {} => table["echo"] # NoEntry
    /\ config.policy => policyFile # Broken /\ (policyFile = "good" <=> "authorizer" \in features)
    /\ phase # "stdio" =>
         ("/.well-known/oauth-protected-resource" \in routes) <=>
           IF override = "unset" THEN file # Missing /\ file.auth ELSE override = "true"

(* The process does not get stuck on its own account: starting ends, every  *)
(* line of stdin is taken while it is read, and a server that was told to   *)
(* stop stops, unless it has an open stream.  (main, run, shutdown_signal)  *)
ProcessSettles ==
  /\ phase \in StartUp ~> phase \notin StartUp
  /\ \A n \in 1..MaxLines :
       (phase = "stdio" /\ Len(input) >= n) ~> (next > n \/ stage = "ended" \/ phase \in Over)
  /\ phase = "draining" ~> (phase = "done" \/ \E c \in Connections : exchanges[c] = "stream")

(* What the deployment documents say: a server that was told to stop stops. *)
(* (main, axum::serve with graceful shutdown)                               *)
ShutdownEnds == phase = "draining" ~> phase = "done"
=============================================================================
