------------------------- MODULE MC_StreamableHttp -------------------------
(* Bodies for the HTTP transport: a handshake, plain and in a batch, an      *)
(* ordinary request, a notification, a call of a tool whose name has the     *)
(* word "notification" in it, a request with a null id, a response, and      *)
(* bodies that do not parse.                                                 *)
EXTENDS StreamableHttp

Item(method, id, names) ==
  [object |-> TRUE, version |-> TRUE, id |-> id, method |-> method, result |-> FALSE,
   error |-> "none", names |-> names]
One(item) == [form |-> "value", items |-> <<item>>]

Initialize == Item("initialize", "a", FALSE)
Ping == Item("ping", "b", FALSE)
Ready == Item("notifications/initialized", NoId, TRUE)
Notify == Item("tools/call", "b", TRUE)
NullRequest == Item("ping", NullId, FALSE)
Result == [Ping EXCEPT !.method = NoMethod, !.result = TRUE]

MCMethods == {"initialize", "ping", "notifications/initialized", "tools/call"}

MCBodies ==
  {One(item) : item \in {Initialize, Ping, Ready, Notify, NullRequest, Result}}
    \union {[form |-> "array", items |-> <<Initialize, Ping>>], [form |-> "array", items |-> <<>>],
            [form |-> "text", items |-> <<>>], [form |-> "bytes", items |-> <<>>]}
=============================================================================
