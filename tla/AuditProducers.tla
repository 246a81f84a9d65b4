--------------------------- MODULE AuditProducers ---------------------------
(***************************************************************************)
(* The audit event producers (src/telemetry/producer.rs) behind one         *)
(* FanoutProducer: publish_audit_event awaits the wrapped producers one     *)
(* after the other.  A LoggingProducer and a BufferingProducer are done at  *)
(* once; a KafkaProducer waits until the broker has the record, or for its  *)
(* timeouts, and that is where a caller may be dropped.                     *)
(*                                                                         *)
(* Every caller, one handle_message of the router each, publishes one       *)
(* event, which goes by the caller's name.  flush changes nothing here.     *)
(***************************************************************************)
EXTENDS Naturals, Sequences

CONSTANTS
  Callers,
  Producers     \* the fanout's producers, a sequence of kinds

ASSUME AuditAssumption == Producers \in Seq({"log", "buffer", "kafka"})

VARIABLES
  at,           \* the producer a caller is at; 0 before, one past the last after
  sending,      \* callers whose record waits for the broker
  failed,       \* last_err is set
  gone,         \* callers that were dropped
  log,          \* what was logged
  buffer,       \* what a BufferingProducer holds
  drained,      \* history: what drain took out of it, in order
  topic         \* what reached the broker through a KafkaProducer

auditVars == <<at, sending, failed, gone, log, buffer, drained, topic>>

Places == DOMAIN Producers
Done == Len(Producers) + 1

AuditInit ==
  /\ at = [c \in Callers |-> 0]
  /\ sending = {} /\ failed = {} /\ gone = {}
  /\ log = [i \in Places |-> <<>>]
  /\ buffer = [i \in Places |-> <<>>]
  /\ drained = [i \in Places |-> <<>>]
  /\ topic = [i \in Places |-> {}]

IsAt(c, kind) == c \notin gone /\ at[c] \in Places /\ Producers[at[c]] = kind
GoOn(c) == at' = [at EXCEPT ![c] = @ + 1]

Publish(c) ==
  /\ at[c] = 0
  /\ GoOn(c)
  /\ UNCHANGED <<sending, failed, gone, log, buffer, drained, topic>>

Log(c) ==
  /\ IsAt(c, "log")
  /\ log' = [log EXCEPT ![at[c]] = Append(@, c)]
  /\ GoOn(c)
  /\ UNCHANGED <<sending, failed, gone, buffer, drained, topic>>

Push(c) ==
  /\ IsAt(c, "buffer")
  /\ buffer' = [buffer EXCEPT ![at[c]] = Append(@, c)]
  /\ GoOn(c)
  /\ UNCHANGED <<sending, failed, gone, log, drained, topic>>

(* KafkaProducer: the record is handed to the client library ...            *)
Send(c) ==
  /\ IsAt(c, "kafka") /\ c \notin sending
  /\ sending' = sending \union {c}
  /\ UNCHANGED <<at, failed, gone, log, buffer, drained, topic>>

(* ... and the broker has it, ...                                           *)
Delivered(c) ==
  /\ c \in sending
  /\ topic' = [topic EXCEPT ![at[c]] = @ \union {c}]
  /\ sending' = sending \ {c}
  /\ GoOn(c)
  /\ UNCHANGED <<failed, gone, log, buffer, drained>>

(* Slip: the first error is returned at once. *)
SendFailsForAll(c) ==
  /\ c \in sending
  /\ topic' \in {topic, [topic EXCEPT ![at[c]] = @ \union {c}]}
  /\ sending' = sending \ {c}
  /\ failed' = failed \union {c}
  /\ at' = [at EXCEPT ![c] = Done]
  /\ UNCHANGED <<gone, log, buffer, drained>>

(* Slip: the send has no timeout. *)
SendFailsNever(c) == FALSE

(* ... or it times out, in which case the broker may have it all the same.  *)
(* The fanout remembers the error and goes on.                              *)
SendFails(c) ==
  /\ c \in sending
  /\ topic' \in {topic, [topic EXCEPT ![at[c]] = @ \union {c}]}
  /\ sending' = sending \ {c}
  /\ failed' = failed \union {c}
  /\ GoOn(c)
  /\ UNCHANGED <<gone, log, buffer, drained>>

(* BufferingProducer::drain *)
Drain(i) ==
  /\ buffer[i] # <<>>
  /\ drained' = [drained EXCEPT ![i] = @ \o buffer[i]]
  /\ buffer' = [buffer EXCEPT ![i] = <<>>]
  /\ UNCHANGED <<at, sending, failed, gone, log, topic>>

(* Slip: the record of a dropped caller still counts as waiting. *)
AbandonWaiting(c) ==
  /\ c \in sending
  /\ gone' = gone \union {c}
  /\ UNCHANGED <<at, sending, failed, log, buffer, drained, topic>>

(* The caller is dropped while it waits; its record may still arrive.       *)
Abandon(c) ==
  /\ c \in sending
  /\ gone' = gone \union {c}
  /\ sending' = sending \ {c}
  /\ topic' \in {topic, [topic EXCEPT ![at[c]] = @ \union {c}]}
  /\ UNCHANGED <<at, failed, log, buffer, drained>>

Step(c) == Log(c) \/ Push(c) \/ Send(c)
Settle(c) == Delivered(c) \/ SendFails(c)

AuditNext ==
  \/ \E c \in Callers : Publish(c) \/ Step(c) \/ Settle(c) \/ Abandon(c)
  \/ \E i \in Places : Drain(i)

(* Tokio polls every ready caller, and a send ends after its timeouts.      *)
(* Nothing says that the broker ever takes a record.                        *)
AuditFairness ==
  \A c \in Callers : WF_auditVars(Step(c)) /\ WF_auditVars(SendFails(c))

AuditSpec == AuditInit /\ [][AuditNext]_auditVars /\ AuditFairness

-----------------------------------------------------------------------------
(* Types of the producers' state. *)
AuditTypeOK ==
  /\ at \in [Callers -> 0..Done]
  /\ sending \subseteq Callers /\ failed \subseteq Callers /\ gone \subseteq Callers
  /\ log \in [Places -> Seq(Callers)] /\ buffer \in [Places -> Seq(Callers)]
  /\ drained \in [Places -> Seq(Callers)]
  /\ topic \in [Places -> SUBSET Callers]
  /\ \A c \in sending : c \notin gone /\ at[c] \in Places /\ Producers[at[c]] = "kafka"

Times(c, seq) == {n \in DOMAIN seq : seq[n] = c}

(* An event that has passed a producer is with it, unless that producer     *)
(* failed, and in a buffer or among what was drained it is once: a failing  *)
(* producer does not keep the event from those behind it, and no push is    *)
(* lost to a drain or drained twice.  (the fanout's loop, push and drain)   *)
EveryProducerTried ==
  \A c \in Callers, i \in Places :
    at[c] > i =>
      CASE Producers[i] = "log"    -> Times(c, log[i]) # {}
        [] Producers[i] = "buffer" -> \E n \in DOMAIN (drained[i] \o buffer[i]) :
                                        Times(c, drained[i] \o buffer[i]) = {n}
        [] OTHER                   -> c \in topic[i] \/ c \in failed

(* Publishing ends, with or without a broker, so the router's answer, which *)
(* waits for it, is not held back for ever.                                 *)
PublishingEnds == \A c \in Callers : at[c] # 0 ~> at[c] = Done \/ c \in gone
=============================================================================
