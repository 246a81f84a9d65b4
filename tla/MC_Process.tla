----------------------------- MODULE MC_Process -----------------------------
(* Seven configuration files, which differ in transports, upstreams and      *)
(* checks, with every policy file and every value of the auth variable; for  *)
(* stdio the kinds of lines the loop tells apart; two HTTP connections.      *)
EXTENDS Process

Item(method, id, names) ==
  [object |-> TRUE, version |-> TRUE, id |-> id, method |-> method, result |-> FALSE,
   error |-> "none", names |-> names]
One(item) == [form |-> "value", items |-> <<item>>]

MCMethods == {"ping", "tools/call", "notifications/initialized", "notifications/progress"}

MCLines ==
  {One(Item("ping", "a", FALSE)), One(Item("tools/call", "b", TRUE)),
   One(Item("notifications/initialized", NoId, TRUE)), One(Item("notifications/progress", NoId, TRUE)),
   [form |-> "text", items |-> <<>>], [form |-> "bytes", items |-> <<>>]}

Upstream(transport, url, echo) == [transport |-> transport, url |-> url, echo_server |-> echo]

Remote == [DefaultConfig EXCEPT
  !.upstreams["echo"] = Upstream("streamable_http", TRUE, FALSE),
  !.upstreams["b"] = Upstream("stdio", FALSE, FALSE), !.auth = TRUE, !.server.enable_sse = FALSE]
TestServer == [DefaultConfig EXCEPT
  !.upstreams["b"] = Upstream("other", FALSE, TRUE), !.upstreams["echo"] = Upstream("sse", TRUE, FALSE),
  !.prefixed = FALSE]
Restricted == [DefaultConfig EXCEPT !.policy = TRUE, !.guardrails.session_locking = TRUE]
Local == [DefaultConfig EXCEPT !.server.enable_http = FALSE, !.server.enable_stdio = TRUE]
Both == [DefaultConfig EXCEPT !.server.enable_stdio = TRUE]
Neither == [DefaultConfig EXCEPT !.server.enable_http = FALSE]
Guarded == [DefaultConfig EXCEPT !.guardrails.ecpa_enabled = TRUE, !.guardrails.egress_enabled = TRUE]

MCSettings == {Remote, TestServer, Restricted, Local, Both, Neither, Guarded}
=============================================================================
