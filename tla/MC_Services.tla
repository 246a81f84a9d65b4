----------------------------- MODULE MC_Services -----------------------------
(* The audit producers with three callers, a broker, a buffer and a log, and *)
(* the control plane with two updates of one policy, a creation, the timer's *)
(* refresh and a forced one, over a database that is empty or has the policy.*)
EXTENDS Services

MCProducers == <<"kafka", "buffer", "log">>
=============================================================================
