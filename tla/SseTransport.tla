---------------------------- MODULE SseTransport ----------------------------
(***************************************************************************)
(* The legacy SSE transport (src/transport/sse.rs): GET /sse opens a stream *)
(* with a bounded channel behind it and enters the channel's sender under   *)
(* the client's id; POST /messages takes a clone of that sender, awaits the *)
(* router, and sends the answer through the clone.                          *)
(*                                                                         *)
(* A client that connects again gets a new channel, but the answers to the *)
(* messages it posted before go to the old one.  The map is never cleaned:  *)
(* remove_client has no caller.                                            *)
(***************************************************************************)
EXTENDS JsonRpc

CONSTANTS
  Clients,      \* client ids
  Streams,      \* one element per GET /sse; none is used twice
  NoStream,     \* no entry in the map
  Posts,        \* one element per POST /messages
  Bodies,       \* what clients POST
  NoClient,     \* no client_id in the query
  Capacity      \* of a channel; 100 in the code

ASSUME SseAssumption ==
  /\ Bodies \subseteq Body
  /\ Capacity \in Nat \ {0}
  /\ NoStream \notin Streams /\ NoClient \notin Clients

VARIABLES
  clients,      \* the map from client id to the sender of a stream's channel
  alive,        \* streams whose receiver exists: the connection is open
  opened,       \* history: streams that were opened
  queue,        \* what is in a stream's channel
  delivered,    \* history: what a stream's client was sent
  pc,           \* where a POST waits
  asker, body,  \* what the POST brought
  tx,           \* the sender it cloned
  reply,        \* the id of the answer it is about to send
  status        \* the HTTP status of its response, 0 while there is none

streamVars == <<clients, alive, opened, queue, delivered>>
postVars == <<pc, asker, body, tx, reply, status>>
sseVars == <<streamVars, postVars>>

NoBody == [form |-> "bytes", items |-> <<>>]
Event == [post : Posts, id : Ids \union {NullId}]

SseInit ==
  /\ clients = [c \in Clients |-> NoStream]
  /\ alive = {} /\ opened = {}
  /\ queue = [s \in Streams |-> <<>>]
  /\ delivered = [s \in Streams |-> <<>>]
  /\ pc = [p \in Posts |-> "idle"]
  /\ asker = [p \in Posts |-> NoClient]
  /\ body = [p \in Posts |-> NoBody]
  /\ tx = [p \in Posts |-> NoStream]
  /\ reply = [p \in Posts |-> NoId]
  /\ status = [p \in Posts |-> 0]

-----------------------------------------------------------------------------
(* handle_sse_get: a new channel, entered over whatever the client had.     *)
Connect(s, c) ==
  /\ s \notin opened
  /\ opened' = opened \union {s}
  /\ alive' = alive \union {s}
  /\ clients' = [clients EXCEPT ![c] = s]
  /\ UNCHANGED <<queue, delivered, postVars>>

Waiting(p) == pc[p] \in {"routing", "sending"}

(* The stream sends the next message of its channel to the client.          *)
Deliver(s) ==
  /\ s \in alive /\ queue[s] # <<>>
  /\ delivered' = [delivered EXCEPT ![s] = Append(@, Head(queue[s]))]
  /\ queue' = [queue EXCEPT ![s] = Tail(@)]
  /\ UNCHANGED <<clients, alive, opened, postVars>>

(* Slip: a POST that was answered keeps its clone of the sender.            *)
StreamEndsUnheld(s) ==
  /\ s \in alive /\ queue[s] = <<>>
  /\ \A c \in Clients : clients[c] # s
  /\ \A p \in Posts : tx[p] # s
  /\ alive' = alive \ {s}
  /\ UNCHANGED <<clients, opened, queue, delivered, postVars>>

(* No sender is left, in the map or with a POST: the stream ends once its   *)
(* channel is empty.                                                       *)
StreamEnds(s) ==
  /\ s \in alive /\ queue[s] = <<>>
  /\ \A c \in Clients : clients[c] # s
  /\ \A p \in Posts : Waiting(p) => tx[p] # s
  /\ alive' = alive \ {s}
  /\ UNCHANGED <<clients, opened, queue, delivered, postVars>>

(* The connection closes: the receiver is dropped, its channel with it.     *)
StreamDrops(s) ==
  /\ s \in alive
  /\ alive' = alive \ {s}
  /\ queue' = [queue EXCEPT ![s] = <<>>]
  /\ UNCHANGED <<clients, opened, delivered, postVars>>

-----------------------------------------------------------------------------
Respond(p, code) ==
  /\ pc' = [pc EXCEPT ![p] = "answered"]
  /\ status' = [status EXCEPT ![p] = code]

(* handle_sse_post up to its first await after the lookup: the router's, or *)
(* the sending of an error for what does not parse.                         *)
Post(p, c, b) ==
  LET s == IF c = NoClient THEN NoStream ELSE clients[c] IN
  /\ pc[p] = "idle"
  /\ asker' = [asker EXCEPT ![p] = c]
  /\ body' = [body EXCEPT ![p] = b]
  /\ tx' = [tx EXCEPT ![p] = s]
  /\ \/ c = NoClient /\ Respond(p, 400) /\ UNCHANGED reply
     \/ c # NoClient /\ s = NoStream /\ Respond(p, 404) /\ UNCHANGED reply
     \/ s # NoStream /\ b.form = "bytes" /\ Respond(p, 400) /\ UNCHANGED reply
     \/ /\ s # NoStream /\ b.form # "bytes" /\ ~Parses(b)
        /\ pc' = [pc EXCEPT ![p] = "sending"]
        /\ reply' = [reply EXCEPT ![p] = NullId]
        /\ UNCHANGED status
     \/ /\ s # NoStream /\ Parses(b)
        /\ pc' = [pc EXCEPT ![p] = "routing"]
        /\ UNCHANGED <<reply, status>>
  /\ UNCHANGED streamVars

(* Slip: a notification is told by the text of its error alone.             *)
RouterReturnsByText(p) ==
  /\ pc[p] = "routing"
  /\ \E result \in Results(body[p]) :
       \/ ~result.ok /\ result.says /\ Respond(p, 202) /\ UNCHANGED reply
       \/ /\ result.ok \/ ~result.says
          /\ pc' = [pc EXCEPT ![p] = "sending"]
          /\ reply' = [reply EXCEPT ![p] = result.id]
          /\ UNCHANGED status
  /\ UNCHANGED <<streamVars, asker, body, tx>>

(* handle_message returns: what is to be sent, if anything.                 *)
RouterReturns(p) ==
  /\ pc[p] = "routing"
  /\ \E result \in Results(body[p]) :
       \/ /\ ~result.ok /\ (IsNotification(body[p]) \/ result.says)
          /\ Respond(p, 202) /\ UNCHANGED reply
       \/ /\ result.ok \/ ~(IsNotification(body[p]) \/ result.says)
          /\ pc' = [pc EXCEPT ![p] = "sending"]
          /\ reply' = [reply EXCEPT ![p] = result.id]
          /\ UNCHANGED status
  /\ UNCHANGED <<streamVars, asker, body, tx>>

(* Slip: the client's channel is looked up again to send the answer.        *)
SendReplyLate(p) ==
  /\ pc[p] = "sending"
  /\ LET s == clients[asker[p]] IN
     \/ s \notin alive /\ UNCHANGED queue
     \/ /\ s \in alive /\ Len(queue[s]) < Capacity
        /\ queue' = [queue EXCEPT ![s] = Append(@, [post |-> p, id |-> reply[p]])]
  /\ Respond(p, 202)
  /\ UNCHANGED <<clients, alive, opened, delivered, asker, body, tx, reply>>

(* Slip: an unbounded channel. *)
SendReplyUnbounded(p) ==
  /\ pc[p] = "sending"
  /\ queue' = IF tx[p] \in alive
              THEN [queue EXCEPT ![tx[p]] = Append(@, [post |-> p, id |-> reply[p]])] ELSE queue
  /\ Respond(p, 202)
  /\ UNCHANGED <<clients, alive, opened, delivered, asker, body, tx, reply>>

(* Slip: the send waits for a receiver that is gone. *)
SendReplyToLiving(p) ==
  /\ pc[p] = "sending"
  /\ tx[p] \in alive /\ Len(queue[tx[p]]) < Capacity
  /\ queue' = [queue EXCEPT ![tx[p]] = Append(@, [post |-> p, id |-> reply[p]])]
  /\ Respond(p, 202)
  /\ UNCHANGED <<clients, alive, opened, delivered, asker, body, tx, reply>>

(* tx.send(..).await: waits while the channel is full, and is an error,     *)
(* which is ignored, when the receiver is gone.  Either way 202.            *)
SendReply(p) ==
  /\ pc[p] = "sending"
  /\ \/ tx[p] \notin alive /\ UNCHANGED queue
     \/ /\ tx[p] \in alive /\ Len(queue[tx[p]]) < Capacity
        /\ queue' = [queue EXCEPT ![tx[p]] = Append(@, [post |-> p, id |-> reply[p]])]
  /\ Respond(p, 202)
  /\ UNCHANGED <<clients, alive, opened, delivered, asker, body, tx, reply>>

(* The connection of the POST closes and its handler is dropped.            *)
Hangup(p) ==
  /\ Waiting(p)
  /\ pc' = [pc EXCEPT ![p] = "gone"]
  /\ UNCHANGED <<streamVars, asker, body, tx, reply, status>>

Proceed(p) == RouterReturns(p) \/ SendReply(p)

SseNext ==
  \/ \E s \in Streams, c \in Clients : Connect(s, c)
  \/ \E s \in Streams : Deliver(s) \/ StreamEnds(s) \/ StreamDrops(s)
  \/ \E p \in Posts, c \in Clients \union {NoClient}, b \in Bodies : Post(p, c, b)
  \/ \E p \in Posts : Proceed(p) \/ Hangup(p)

(* Tokio polls every ready handler and stream, a channel gives its room to  *)
(* senders in the order they wait, and the router settles every message.    *)
(* Of the clients only this is assumed: a connection that stays open is     *)
(* read in the end.                                                         *)
SseSpec ==
  /\ SseInit /\ [][SseNext]_sseVars
  /\ \A p \in Posts : WF_sseVars(RouterReturns(p)) /\ SF_sseVars(SendReply(p))
  /\ \A s \in Streams : WF_sseVars(Deliver(s)) /\ WF_sseVars(StreamEnds(s))

-----------------------------------------------------------------------------
(* Types; no channel holds more than it was made for. (mpsc::channel(100))  *)
SseTypeOK ==
  /\ clients \in [Clients -> Streams \union {NoStream}]
  /\ alive \subseteq opened /\ opened \subseteq Streams
  /\ queue \in [Streams -> Seq(Event)] /\ delivered \in [Streams -> Seq(Event)]
  /\ \A s \in Streams : Len(queue[s]) <= Capacity
  /\ pc \in [Posts -> {"idle", "routing", "sending", "answered", "gone"}]
  /\ asker \in [Posts -> Clients \union {NoClient}]
  /\ body \in [Posts -> Bodies \union {NoBody}]
  /\ tx \in [Posts -> Streams \union {NoStream}]
  /\ reply \in [Posts -> Ids \union {NullId, NoId}]
  /\ status \in [Posts -> {0, 202, 400, 404}]

Traffic(s) == delivered[s] \o queue[s]

(* What a stream carries are answers to what its own client posted while    *)
(* the stream was that client's, each of them once, however streams come    *)
(* and go and posts wait for room.  (the clone of the sender)               *)
AnswersOnTheirStream ==
  \A s \in Streams : \A i \in DOMAIN Traffic(s) :
    LET p == Traffic(s)[i].post IN
    /\ tx[p] = s /\ pc[p] = "answered"
    /\ \A j \in DOMAIN Traffic(s) : Traffic(s)[j].post = p => i = j

(* Nothing is said on a stream for a notification, whichever text its error *)
(* has.  (is_notification, taken before the router consumes the message)    *)
NothingForNotifications ==
  \A s \in Streams : \A i \in DOMAIN Traffic(s) :
    LET b == body[Traffic(s)[i].post] IN Parses(b) => ~IsNotification(b)

(* Every POST is answered unless its client hangs up, also when its channel *)
(* was full or its stream is gone.                                          *)
EveryMessageTaken ==
  \A p \in Posts : Waiting(p) ~> pc[p] \in {"answered", "gone"}

(* A stream that a reconnect has replaced ends.                             *)
ReplacedStreamEnds ==
  \A s \in Streams :
    (s \in alive /\ \A c \in Clients : clients[c] # s) ~> s \notin alive
=============================================================================
