----------------------------- MODULE MC_Gateway -----------------------------
(* Two messages compete for one permit.  The tool's server is s1, whose     *)
(* host may never answer, or the echo server s2, or a stdio server s3 that  *)
(* the proxy refuses; requests for the first server go to s2.               *)
EXTENDS Gateway, MC_McpRouter, TLC

CONSTANTS s3

MCTable ==
  (s1 :> [transport |-> "http", url |-> TRUE, echo |-> FALSE])
    @@ (s2 :> [transport |-> "http", url |-> FALSE, echo |-> TRUE])
    @@ (s3 :> [transport |-> "stdio", url |-> FALSE, echo |-> FALSE])

=============================================================================
