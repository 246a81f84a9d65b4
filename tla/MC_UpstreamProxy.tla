-------------------------- MODULE MC_UpstreamProxy --------------------------
(* Callers share the permits and a table of two servers, while a registrar  *)
(* adds servers and replaces their entries.  The entries stand for the ways *)
(* forward_request may go: HTTP and SSE call out, the others do not.        *)
EXTENDS UpstreamProxy

Http == [transport |-> "http", url |-> TRUE, echo |-> FALSE]

Bare == [Http EXCEPT !.url = FALSE]

CONSTANTS a, b
MCOffered == {<<a, Http>>, <<a, Bare>>, <<b, Http>>}
=============================================================================
