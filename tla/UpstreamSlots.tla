--------------------------- MODULE UpstreamSlots ---------------------------
(***************************************************************************)
(* What UpstreamProxy (src/gateway/proxy.rs) promises: at most Limit calls *)
(* are under way upstream at a time, each to the entry that the table of   *)
(* servers has under its id, and that table changes only between calls.    *)
(***************************************************************************)
EXTENDS Naturals, FiniteSets

CONSTANTS Calls, ServerIds, Entries, NoEntry, Limit

VARIABLES table, active

Init == table = [s \in ServerIds |-> NoEntry] /\ active = {}

InUse == {a[1] : a \in active}

(* A call leaves for a server of the table. *)
Begin(c, s) ==
  /\ c \notin InUse /\ Cardinality(active) < Limit
  /\ table[s] \in Entries
  /\ active' = active \union {<<c, s, table[s]>>}
  /\ UNCHANGED table

(* A call is over, answered or not. *)
End(a) == a \in active /\ active' = active \ {a} /\ UNCHANGED table

(* A server is added, or its entry replaced, while no call is under way. *)
Put(s, entry) ==
  /\ active = {}
  /\ table' = [table EXCEPT ![s] = entry]
  /\ UNCHANGED active

Next ==
  \/ \E c \in Calls, s \in ServerIds : Begin(c, s)
  \/ \E a \in active : End(a)
  \/ \E s \in ServerIds, entry \in Entries : Put(s, entry)

Spec == Init /\ [][Next]_<<table, active>>
=============================================================================
