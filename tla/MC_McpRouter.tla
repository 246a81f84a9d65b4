---------------------------- MODULE MC_McpRouter ----------------------------
(* Two messages at a time over one tool name that two servers, of which the *)
(* proxy knows one, may register with either of two schemas.                *)
EXTENDS McpRouter

CONSTANTS s1, s2, sc1, sc2, good, other, null

MCValidMethods ==
  {"initialize", "ping", "tools/list", "tools/call", "prompts/get", "shutdown",
   "notifications/initialized"}
MCNotificationNames == {"notifications/initialized", "notifications/custom"}

Tool(prefix) ==
  [colon |-> TRUE, padded |-> FALSE, underscore |-> FALSE, prefix |-> prefix, name |-> "x"]
Padded == [Tool("com.a") EXCEPT !.padded = TRUE]
Legacy == [Tool("com.a") EXCEPT !.colon = FALSE, !.underscore = TRUE]

MCOffered == {Tool("com.a")}
MCConsulted == {Tool("com.a"), Padded, Legacy}

Public == [identifier |-> "com.a", visibility |-> "public"]
Private == [identifier |-> "com.a", visibility |-> "private"]
MCContexts == {Public, Private}
OneContext == {Public}

NoScopes == [permissive |-> FALSE, granted |-> {}]
CallScope == [permissive |-> FALSE, granted |-> {Plain("mcp:tools:call")}]
PrefixScope ==
  [permissive |-> FALSE,
   granted |-> {[base |-> "mcp:tools:call", prefix |-> "com.a", name |-> EmptyPart]}]
Open == [permissive |-> TRUE, granted |-> {}]

Request(method, enforcer) ==
  [kind |-> "request", method |-> method, tool |-> NoName, args |-> null,
   wellFormed |-> TRUE, enforcer |-> enforcer]
Call(tool, args, enforcer) ==
  [Request("tools/call", enforcer) EXCEPT !.tool = tool, !.args = args]
Single(m) == [batch |-> FALSE, items |-> <<m>>]
BatchOf(ms) == [batch |-> TRUE, items |-> ms]

MCConforms == {<<good, sc1>>, <<other, sc2>>}
MCEcpa == {Tool("com.a")} \X {good, null}
MCAllows ==
  {<<p, "tools/call", t>> : p \in {Anonymous, Plain("mcp:tools:call")},
                            t \in MCConsulted \union {NoName}}
    \union {<<Anonymous, method, NoName>> :
              method \in {"ping", "initialize", "tools/list", "prompts/get", "notifications/custom"}}
MCFails == {<<Anonymous, "tools/call", Padded>>}

(* Tool calls that differ in what decides about them. *)
Calls ==
  {Single(Call(Tool("com.a"), good, Open)), Single(Call(Tool("com.a"), null, CallScope)),
   BatchOf(<<Call(Tool("com.a"), other, Open), Request("ping", Open)>>)}

(* Two clients of one session: a call and a request for the first server.  *)
TwoCalls == {Single(Call(Tool("com.a"), null, Open)), Single(Request("prompts/get", Open))}

(* One message of every kind the pipeline tells apart. *)
Others ==
  {Single(Call(Legacy, good, CallScope)), Single(Call(Padded, good, Open)),
   Single(Call(NoName, null, Open)), Single(Call(Tool("com.a"), good, PrefixScope)),
   Single([Request("initialize", NoScopes) EXCEPT !.wellFormed = FALSE]),
   Single(Request("initialize", NoScopes)), Single(Request("ping", Open)),
   Single(Request("tools/list", NoScopes)), Single(Request("tools/list", Open)),
   Single(Request("prompts/get", Open)), Single(Request("notifications/custom", NoScopes)),
   Single(Request("notifications/initialized", NoScopes)),
   Single(Request("no/such", Open)), Single(Request("shutdown", Open)),
   Single([Request("notifications/initialized", Open) EXCEPT !.kind = "notification"]),
   Single([Request("ping", Open) EXCEPT !.kind = "response"]), BatchOf(<<>>)}

MCAll == Calls \union Others
=============================================================================
