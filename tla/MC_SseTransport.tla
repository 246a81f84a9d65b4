-------------------------- MODULE MC_SseTransport --------------------------
(* Bodies for the SSE transport: a request, a notification whose error text  *)
(* has the word in lower case and one whose text has not, and a body that is *)
(* no JSON.                                                                  *)
EXTENDS SseTransport

Item(method, id) ==
  [object |-> TRUE, version |-> TRUE, id |-> id, method |-> method, result |-> FALSE,
   error |-> "none", names |-> FALSE]
One(item) == [form |-> "value", items |-> <<item>>]

MCMethods == {"ping", "notifications/initialized", "notifications/progress"}

Text == [form |-> "text", items |-> <<>>]
FewBodies == {One(Item("ping", "a")), Text}
MCBodies == FewBodies \union
  {One(Item("notifications/initialized", NoId)), One(Item("notifications/progress", NoId)),
   [form |-> "bytes", items |-> <<>>]}
=============================================================================
