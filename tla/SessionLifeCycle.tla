-------------------------- MODULE SessionLifeCycle --------------------------
(***************************************************************************)
(* What StreamableHttp (src/transport/streamable_http.rs) promises about a  *)
(* session id: it is drawn once, may be marked as initialized while it is   *)
(* open, and is not heard of again once it was terminated.                  *)
(***************************************************************************)
CONSTANT Keys

VARIABLE life

Init == life = [k \in Keys |-> "unopened"]

Open(k) == life[k] = "unopened" /\ life' = [life EXCEPT ![k] = "open"]

Mark(k) == life[k] = "open" /\ life' = [life EXCEPT ![k] = "initialized"]

Terminate(k) ==
  life[k] \in {"open", "initialized"} /\ life' = [life EXCEPT ![k] = "terminated"]

Next == \E k \in Keys : Open(k) \/ Mark(k) \/ Terminate(k)

Spec == Init /\ [][Next]_life
=============================================================================
