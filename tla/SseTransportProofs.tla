------------------------- MODULE SseTransportProofs -------------------------
(***************************************************************************)
(* What an SSE stream carries, proved for any number of clients, streams   *)
(* and posts and every capacity of the channels: only answers to what was  *)
(* posted while the stream was the client's, each once, and none to a      *)
(* notification.                                                           *)
(*                                                                         *)
(* The invariant adds what a POST has with it while it waits: the sender   *)
(* of a stream, a body that parses while the router has it, and an answer  *)
(* that is none to a notification once it is about to be sent.             *)
(***************************************************************************)
EXTENDS SseTransport, TLAPS

AtWait(p) ==
  /\ Waiting(p) => tx[p] \in Streams
  /\ pc[p] = "routing" => Parses(body[p]) /\ body[p] \in Bodies
  /\ pc[p] = "sending" => reply[p] \in Ids \union {NullId} /\ (Parses(body[p]) => ~IsNotification(body[p]))

(* What stream s carries it may carry. *)
Carried(s) ==
  \A i \in DOMAIN Traffic(s) :
    LET p == Traffic(s)[i].post IN
    /\ p \in Posts /\ tx[p] = s /\ pc[p] = "answered"
    /\ \A j \in DOMAIN Traffic(s) : Traffic(s)[j].post = p => i = j
    /\ Parses(body[p]) => ~IsNotification(body[p])

SseInv ==
  /\ SseTypeOK
  /\ \A p \in Posts : AtWait(p)
  /\ \A s \in Streams : Carried(s)

-----------------------------------------------------------------------------
(* Sequences. *)
LEMMA TrafficAppend ==
  ASSUME NEW S, NEW d \in Seq(S), NEW q \in Seq(S), NEW e \in S
  PROVE  d \o Append(q, e) = Append(d \o q, e)
OBVIOUS

LEMMA TrafficShift ==
  ASSUME NEW S, NEW d \in Seq(S), NEW q \in Seq(S), q # <<>>
  PROVE  Append(d, Head(q)) \o Tail(q) = d \o q
OBVIOUS

LEMMA TrafficCut ==
  ASSUME NEW S, NEW d \in Seq(S), NEW q \in Seq(S)
  PROVE  /\ DOMAIN (d \o <<>>) \subseteq DOMAIN (d \o q)
         /\ \A i \in DOMAIN (d \o <<>>) : (d \o <<>>)[i] = (d \o q)[i]
OBVIOUS

(* What the router returns for a body: the id of an answer that is sent is  *)
(* an id or null, and a notification gets only failures.                   *)
LEMMA RouterResults ==
  ASSUME NEW b \in Bodies, Parses(b), NEW result \in Results(b)
  PROVE  /\ result.id \in Ids \union {NullId}
         /\ IsNotification(b) => ~result.ok
<1> DEFINE m == Messages(b)[1]
<1>1. /\ b.items # <<>> /\ b.items \in Seq(RawItem)
      /\ \A i \in DOMAIN b.items : ParsesSingle(b.items[i])
  BY SseAssumption DEF Parses, Body
<1>2. 1 \in DOMAIN b.items
  BY <1>1
<1>3. m = Parsed(b.items[1]) /\ ParsesSingle(b.items[1])
  BY <1>1, <1>2 DEF Messages
<1>4. m.kind = "Request" => m.id \in Ids
  BY <1>3, JsonRpcAssumption DEF Parsed, KindOf, ParsesSingle, IsAnswer
<1>5. m.kind = "Request" => result.id \in Ids \union {NullId}
  BY <1>4 DEF Results, ResultsOfRequest, Failure, Answer
<1>6. m.kind # "Request" => result.id = NullId /\ ~result.ok
  BY DEF Results, Failure
<1>7. IsNotification(b) => m.kind = "Notification"
  BY DEF IsNotification
<1> QED  BY <1>5, <1>6, <1>7

-----------------------------------------------------------------------------
(* An answered POST stays what it is. *)
AnsweredStay ==
  \A p \in Posts : pc[p] = "answered" => pc'[p] = "answered" /\ tx'[p] = tx[p] /\ body'[p] = body[p]

LEMMA PartCarried ==
  ASSUME NEW s \in Streams, Carried(s), AnsweredStay,
         DOMAIN Traffic(s)' \subseteq DOMAIN Traffic(s),
         \A i \in DOMAIN Traffic(s)' : Traffic(s)'[i] = Traffic(s)[i]
  PROVE  Carried(s)'
<1> DEFINE log == Traffic(s)
           now == Traffic(s)'
<1>1. /\ DOMAIN now \subseteq DOMAIN log /\ \A i \in DOMAIN now : now[i] = log[i]
      /\ \A i \in DOMAIN log : /\ log[i].post \in Posts /\ tx[log[i].post] = s /\ pc[log[i].post] = "answered"
                               /\ \A j \in DOMAIN log : log[j].post = log[i].post => i = j
                               /\ Parses(body[log[i].post]) => ~IsNotification(body[log[i].post])
  BY DEF Carried
<1> HIDE DEF log, now
<1>2. \A i \in DOMAIN now :
        /\ now[i].post \in Posts /\ tx'[now[i].post] = s /\ pc'[now[i].post] = "answered"
        /\ \A j \in DOMAIN now : now[j].post = now[i].post => i = j
        /\ Parses(body'[now[i].post]) => ~IsNotification(body'[now[i].post])
  BY <1>1 DEF AnsweredStay
<1> QED  BY <1>2 DEF Carried, now

LEMMA SentCarried ==
  ASSUME NEW s \in Streams, Carried(s), AnsweredStay, NEW p \in Posts, NEW e \in Event, e.post = p,
         Traffic(s) \in Seq(Event), Traffic(s)' = Append(Traffic(s), e),
         pc[p] # "answered", pc'[p] = "answered", tx'[p] = s, body'[p] = body[p],
         Parses(body[p]) => ~IsNotification(body[p])
  PROVE  Carried(s)'
<1> DEFINE log == Traffic(s)
           now == Traffic(s)'
<1>1. \A i \in DOMAIN log : /\ log[i].post \in Posts /\ tx[log[i].post] = s /\ pc[log[i].post] = "answered"
                            /\ \A j \in DOMAIN log : log[j].post = log[i].post => i = j
                            /\ Parses(body[log[i].post]) => ~IsNotification(body[log[i].post])
  BY DEF Carried
<1>2. now = Append(log, e) /\ log \in Seq(Event)
  OBVIOUS
<1> HIDE DEF log, now
<1>3. /\ DOMAIN log = 1 .. Len(log) /\ DOMAIN now = 1 .. Len(log) + 1 /\ Len(log) \in Nat
      /\ now[Len(log) + 1] = e /\ \A i \in 1 .. Len(log) : now[i] = log[i]
  BY <1>2
<1>4. \A i \in DOMAIN now :
        /\ now[i].post \in Posts /\ tx'[now[i].post] = s /\ pc'[now[i].post] = "answered"
        /\ Parses(body'[now[i].post]) => ~IsNotification(body'[now[i].post])
  BY <1>1, <1>3 DEF AnsweredStay
<1>5. \A i \in DOMAIN now : \A j \in DOMAIN now : now[j].post = now[i].post => i = j
  <2>1. \A i \in DOMAIN log : log[i].post # p
    BY <1>1
  <2> QED  BY <1>1, <1>3, <2>1
<1> QED  BY <1>4, <1>5 DEF Carried, now

(* The channels are left alone. *)
LEMMA QuietTraffic ==
  ASSUME SseInv, UNCHANGED <<queue, delivered>>, AnsweredStay
  PROVE  \A s \in Streams : Carried(s)'
<1>1. \A s \in Streams : Traffic(s)' = Traffic(s)
  BY DEF Traffic
<1> QED  BY <1>1, PartCarried DEF SseInv

(* Streams and their clients. *)
LEMMA StreamStep ==
  ASSUME SseInv, NEW s \in Streams,
         (\E c \in Clients : Connect(s, c)) \/ Deliver(s) \/ StreamEnds(s) \/ StreamDrops(s)
  PROVE  SseInv'
<1>1. UNCHANGED postVars /\ AnsweredStay /\ \A p \in Posts : AtWait(p)'
  BY DEF Connect, Deliver, StreamEnds, StreamDrops, postVars, AnsweredStay, SseInv, AtWait, Waiting
<1>2. SseTypeOK'
  <2>0. SseTypeOK
    BY DEF SseInv
  <2>1. CASE \E c \in Clients : Connect(s, c)
    BY <2>0, <2>1 DEF Connect, SseTypeOK, postVars
  <2>2. CASE Deliver(s)
    <3>1. queue[s] \in Seq(Event) /\ delivered[s] \in Seq(Event) /\ queue[s] # <<>> /\ Len(queue[s]) <= Capacity
      BY <2>0, <2>2 DEF Deliver, SseTypeOK
    <3>2. Tail(queue[s]) \in Seq(Event) /\ Append(delivered[s], Head(queue[s])) \in Seq(Event)
          /\ Len(Tail(queue[s])) <= Capacity
      BY <3>1, SseAssumption
    <3> QED  BY <2>0, <2>2, <3>2 DEF Deliver, SseTypeOK, postVars
  <2>3. CASE StreamEnds(s)
    BY <2>0, <2>3 DEF StreamEnds, SseTypeOK, postVars
  <2>4. CASE StreamDrops(s)
    BY <2>0, <2>4, SseAssumption DEF StreamDrops, SseTypeOK, postVars
  <2> QED  BY <2>1, <2>2, <2>3, <2>4
<1>3. \A t \in Streams : Carried(t)'
  <2>1. CASE UNCHANGED <<queue, delivered>>
    BY <1>1, <2>1, QuietTraffic
  <2>2. CASE Deliver(s)
    <3>1. queue[s] \in Seq(Event) /\ delivered[s] \in Seq(Event) /\ queue[s] # <<>>
      BY <2>2 DEF Deliver, SseInv, SseTypeOK
    <3>2. delivered'[s] = Append(delivered[s], Head(queue[s])) /\ queue'[s] = Tail(queue[s])
          /\ \A t \in Streams \ {s} : delivered'[t] = delivered[t] /\ queue'[t] = queue[t]
      BY <2>2 DEF Deliver, SseInv, SseTypeOK
    <3>3. \A t \in Streams : Traffic(t)' = Traffic(t)
      <4>1. \A t \in Streams \ {s} : Traffic(t)' = Traffic(t)
        BY <3>2 DEF Traffic
      <4>2. Append(delivered[s], Head(queue[s])) \o Tail(queue[s]) = delivered[s] \o queue[s]
        BY <3>1, TrafficShift
      <4>3. Traffic(s)' = Append(delivered[s], Head(queue[s])) \o Tail(queue[s])
        BY <3>2 DEF Traffic
      <4> QED  BY <4>1, <4>2, <4>3 DEF Traffic
    <3> QED  BY <1>1, <3>3, PartCarried DEF SseInv
  <2>3. CASE StreamDrops(s)
    <3>1. queue[s] \in Seq(Event) /\ delivered[s] \in Seq(Event)
      BY DEF SseInv, SseTypeOK
    <3>2. delivered' = delivered /\ queue'[s] = <<>> /\ \A t \in Streams \ {s} : queue'[t] = queue[t]
      BY <2>3 DEF StreamDrops, SseInv, SseTypeOK
    <3>3. \A t \in Streams : /\ DOMAIN Traffic(t)' \subseteq DOMAIN Traffic(t)
                             /\ \A i \in DOMAIN Traffic(t)' : Traffic(t)'[i] = Traffic(t)[i]
      <4>1. \A t \in Streams \ {s} : Traffic(t)' = Traffic(t)
        BY <3>2 DEF Traffic
      <4>2. Traffic(s)' = delivered[s] \o <<>> /\ Traffic(s) = delivered[s] \o queue[s]
        BY <3>2 DEF Traffic
      <4>3. /\ DOMAIN (delivered[s] \o <<>>) \subseteq DOMAIN (delivered[s] \o queue[s])
            /\ \A i \in DOMAIN (delivered[s] \o <<>>) : (delivered[s] \o <<>>)[i] = (delivered[s] \o queue[s])[i]
        BY <3>1, TrafficCut
      <4>4. /\ DOMAIN Traffic(s)' \subseteq DOMAIN Traffic(s)
            /\ \A i \in DOMAIN Traffic(s)' : Traffic(s)'[i] = Traffic(s)[i]
        BY <4>2, <4>3
      <4> QED  BY <4>1, <4>4
    <3> QED  BY <1>1, <3>3, PartCarried DEF SseInv
  <2> QED  BY <2>1, <2>2, <2>3 DEF Connect, StreamEnds
<1> QED  BY <1>1, <1>2, <1>3 DEF SseInv

-----------------------------------------------------------------------------
(* A POST that comes in, is answered by the router, or is dropped.         *)
LEMMA PostArrives ==
  ASSUME SseInv, NEW p \in Posts, NEW c \in Clients \union {NoClient}, NEW b \in Bodies, Post(p, c, b)
  PROVE  SseInv'
<1> DEFINE s == IF c = NoClient THEN NoStream ELSE clients[c]
<1>0. SseTypeOK /\ \A q \in Posts : AtWait(q)
  BY DEF SseInv
<1>1. /\ UNCHANGED streamVars /\ pc[p] = "idle" /\ s \in Streams \union {NoStream}
      /\ tx' = [tx EXCEPT ![p] = s] /\ body' = [body EXCEPT ![p] = b] /\ asker' = [asker EXCEPT ![p] = c]
  BY <1>0 DEF Post, SseTypeOK
<1>2. /\ tx'[p] = s /\ body'[p] = b
      /\ \A q \in Posts \ {p} : tx'[q] = tx[q] /\ body'[q] = body[q]
  BY <1>0, <1>1 DEF SseTypeOK
<1>3. \/ pc' = [pc EXCEPT ![p] = "answered"] /\ reply' = reply
      \/ pc' = [pc EXCEPT ![p] = "sending"] /\ s # NoStream /\ ~Parses(b) /\ reply' = [reply EXCEPT ![p] = NullId]
      \/ pc' = [pc EXCEPT ![p] = "routing"] /\ s # NoStream /\ Parses(b) /\ reply' = reply
  BY DEF Post, Respond
<1>4. status' \in [Posts -> {0, 202, 400, 404}]
  <2>1. status' = status \/ \E code \in {400, 404} : status' = [status EXCEPT ![p] = code]
    BY DEF Post, Respond
  <2>2. status \in [Posts -> {0, 202, 400, 404}]
    BY <1>0 DEF SseTypeOK
  <2> QED  BY <2>1, <2>2
<1>5. SseTypeOK'
  <2>1. /\ pc' \in [Posts -> {"idle", "routing", "sending", "answered", "gone"}]
        /\ reply' \in [Posts -> Ids \union {NullId, NoId}]
    <3>1. /\ pc \in [Posts -> {"idle", "routing", "sending", "answered", "gone"}]
          /\ reply \in [Posts -> Ids \union {NullId, NoId}]
      BY <1>0 DEF SseTypeOK
    <3>2. /\ \E stage \in {"answered", "sending", "routing"} : pc' = [pc EXCEPT ![p] = stage]
          /\ reply' = reply \/ reply' = [reply EXCEPT ![p] = NullId]
      BY <1>3
    <3> QED  BY <3>1, <3>2
  <2>2. /\ tx' \in [Posts -> Streams \union {NoStream}] /\ body' \in [Posts -> Bodies \union {NoBody}]
        /\ asker' \in [Posts -> Clients \union {NoClient}]
    BY <1>0, <1>1 DEF SseTypeOK
  <2> QED  BY <1>0, <1>1, <1>4, <2>1, <2>2 DEF SseTypeOK, streamVars
<1>6. \A q \in Posts \ {p} : pc'[q] = pc[q] /\ reply'[q] = reply[q]
  BY <1>0, <1>3 DEF SseTypeOK
<1>7. AtWait(p)'
  <2>1. CASE pc' = [pc EXCEPT ![p] = "answered"]
    <3>1. pc'[p] = "answered"
      BY <1>0, <2>1 DEF SseTypeOK
    <3> QED  BY <3>1 DEF AtWait, Waiting
  <2>2. CASE pc' = [pc EXCEPT ![p] = "sending"] /\ s # NoStream /\ ~Parses(b) /\ reply' = [reply EXCEPT ![p] = NullId]
    <3>1. pc'[p] = "sending" /\ reply'[p] = NullId
      BY <1>0, <2>2 DEF SseTypeOK
    <3> QED  BY <1>1, <1>2, <2>2, <3>1 DEF AtWait, Waiting
  <2>3. CASE pc' = [pc EXCEPT ![p] = "routing"] /\ s # NoStream /\ Parses(b) /\ reply' = reply
    <3>1. pc'[p] = "routing"
      BY <1>0, <2>3 DEF SseTypeOK
    <3> QED  BY <1>1, <1>2, <2>3, <3>1 DEF AtWait, Waiting
  <2> QED  BY <1>3, <2>1, <2>2, <2>3
<1>8. \A q \in Posts \ {p} : AtWait(q)'
  BY <1>0, <1>2, <1>6 DEF AtWait, Waiting
<1>9. \A t \in Streams : Carried(t)'
  <2>1. AnsweredStay /\ UNCHANGED <<queue, delivered>>
    BY <1>1, <1>2, <1>6 DEF AnsweredStay, streamVars
  <2> QED  BY <2>1, QuietTraffic
<1> QED  BY <1>5, <1>7, <1>8, <1>9 DEF SseInv

LEMMA RouterAnswers ==
  ASSUME SseInv, NEW p \in Posts, RouterReturns(p)
  PROVE  SseInv'
<1>0. SseTypeOK /\ (\A q \in Posts : AtWait(q)) /\ UNCHANGED <<streamVars, asker, body, tx>>
  BY DEF SseInv, RouterReturns
<1>1. pc[p] = "routing" /\ Parses(body[p]) /\ body[p] \in Bodies /\ tx[p] \in Streams
  BY <1>0 DEF RouterReturns, AtWait, Waiting
<1>2. PICK result \in Results(body[p]) :
        \/ Respond(p, 202) /\ reply' = reply
        \/ /\ result.ok \/ ~IsNotification(body[p])
           /\ pc' = [pc EXCEPT ![p] = "sending"] /\ reply' = [reply EXCEPT ![p] = result.id] /\ status' = status
  BY DEF RouterReturns
<1>3. result.id \in Ids \union {NullId} /\ (IsNotification(body[p]) => ~result.ok)
  BY <1>1, RouterResults
<1>4. SseTypeOK'
  <2>1. /\ pc' \in [Posts -> {"idle", "routing", "sending", "answered", "gone"}]
        /\ status' \in [Posts -> {0, 202, 400, 404}]
        /\ reply' \in [Posts -> Ids \union {NullId, NoId}]
    <3>1. /\ pc \in [Posts -> {"idle", "routing", "sending", "answered", "gone"}]
          /\ status \in [Posts -> {0, 202, 400, 404}]
          /\ reply \in [Posts -> Ids \union {NullId, NoId}]
      BY <1>0 DEF SseTypeOK
    <3>2. /\ pc' = [pc EXCEPT ![p] = "answered"] \/ pc' = [pc EXCEPT ![p] = "sending"]
          /\ status' = status \/ status' = [status EXCEPT ![p] = 202]
          /\ reply' = reply \/ reply' = [reply EXCEPT ![p] = result.id]
      BY <1>2 DEF Respond
    <3> QED  BY <1>3, <3>1, <3>2
  <2> QED  BY <1>0, <2>1 DEF SseTypeOK, streamVars
<1>5. \A q \in Posts \ {p} : pc'[q] = pc[q] /\ reply'[q] = reply[q]
  BY <1>0, <1>2 DEF SseTypeOK, Respond
<1>6. AtWait(p)'
  <2>1. CASE Respond(p, 202)
    <3>1. pc'[p] = "answered"
      BY <1>0, <2>1 DEF SseTypeOK, Respond
    <3> QED  BY <3>1 DEF AtWait, Waiting
  <2>2. CASE /\ result.ok \/ ~IsNotification(body[p])
             /\ pc' = [pc EXCEPT ![p] = "sending"] /\ reply' = [reply EXCEPT ![p] = result.id]
    <3>1. pc'[p] = "sending" /\ reply'[p] = result.id /\ ~IsNotification(body[p])
      BY <1>0, <1>3, <2>2 DEF SseTypeOK
    <3> QED  BY <1>0, <1>1, <1>3, <3>1 DEF AtWait, Waiting
  <2> QED  BY <1>2, <2>1, <2>2
<1>7. \A q \in Posts \ {p} : AtWait(q)'
  BY <1>0, <1>5 DEF AtWait, Waiting
<1>8. \A t \in Streams : Carried(t)'
  <2>1. AnsweredStay /\ UNCHANGED <<queue, delivered>>
    BY <1>0, <1>1, <1>5 DEF AnsweredStay, streamVars
  <2> QED  BY <2>1, QuietTraffic
<1> QED  BY <1>4, <1>6, <1>7, <1>8 DEF SseInv

(* The answer goes on the stream whose sender the POST has with it.        *)
LEMMA AnswerSent ==
  ASSUME SseInv, NEW p \in Posts, SendReply(p)
  PROVE  SseInv'
<1>0. /\ SseTypeOK /\ (\A q \in Posts : AtWait(q)) /\ (\A t \in Streams : Carried(t))
      /\ UNCHANGED <<clients, alive, opened, delivered, asker, body, tx, reply>>
  BY DEF SseInv, SendReply
<1>1. /\ pc[p] = "sending" /\ tx[p] \in Streams /\ reply[p] \in Ids \union {NullId}
      /\ Parses(body[p]) => ~IsNotification(body[p])
  BY <1>0 DEF SendReply, AtWait, Waiting
<1>2. /\ pc'[p] = "answered" /\ \A q \in Posts \ {p} : pc'[q] = pc[q]
      /\ AnsweredStay
  BY <1>0, <1>1 DEF SendReply, Respond, SseTypeOK, AnsweredStay
<1>3. \A q \in Posts : AtWait(q)'
  BY <1>0, <1>2 DEF AtWait, Waiting
<1>4. CASE queue' = queue
  <2>1. SseTypeOK'
    BY <1>0, <1>4 DEF SendReply, Respond, SseTypeOK
  <2> QED  BY <1>0, <1>2, <1>3, <1>4, <2>1, QuietTraffic DEF SseInv
<1>5. CASE tx[p] \in alive /\ Len(queue[tx[p]]) < Capacity
           /\ queue' = [queue EXCEPT ![tx[p]] = Append(@, [post |-> p, id |-> reply[p]])]
  <2> DEFINE e == [post |-> p, id |-> reply[p]]
  <2>1. PICK s \in Streams : s = tx[p]
    BY <1>1
  <2>2. e \in Event /\ e.post = p
    BY <1>1 DEF Event
  <2> HIDE DEF e
  <2>3. queue[s] \in Seq(Event) /\ delivered[s] \in Seq(Event) /\ Len(queue[s]) < Capacity /\ Capacity \in Nat
    BY <1>0, <1>5, <2>1, SseAssumption DEF SseTypeOK
  <2>4. Append(queue[s], e) \in Seq(Event) /\ Len(Append(queue[s], e)) <= Capacity
    BY <2>2, <2>3
  <2>5. queue' = [queue EXCEPT ![s] = Append(queue[s], e)]
    BY <1>5, <2>1 DEF e
  <2>6. SseTypeOK'
    <3>1. queue' \in [Streams -> Seq(Event)] /\ \A t \in Streams : Len(queue'[t]) <= Capacity
      BY <1>0, <2>4, <2>5 DEF SseTypeOK
    <3>2. pc' \in [Posts -> {"idle", "routing", "sending", "answered", "gone"}] /\ status' \in [Posts -> {0, 202, 400, 404}]
      BY <1>0 DEF SendReply, Respond, SseTypeOK
    <3> QED  BY <1>0, <3>1, <3>2 DEF SseTypeOK
  <2>7. queue'[s] = Append(queue[s], e) /\ \A t \in Streams \ {s} : queue'[t] = queue[t]
    BY <1>0, <2>5 DEF SseTypeOK
  <2>8. Traffic(s) \in Seq(Event) /\ Traffic(s)' = Append(Traffic(s), e)
    <3>0. delivered[s] \in Seq(Event) /\ queue[s] \in Seq(Event) /\ e \in Event
      BY <2>2, <2>3
    <3>1. delivered[s] \o Append(queue[s], e) = Append(delivered[s] \o queue[s], e)
      <4>1. \A d \in Seq(Event), q \in Seq(Event), x \in Event : d \o Append(q, x) = Append(d \o q, x)
        BY TrafficAppend
      <4>2. PICK d \in Seq(Event), q \in Seq(Event) : d = delivered[s] /\ q = queue[s]
        BY <3>0
      <4>3. d \o Append(q, e) = Append(d \o q, e)
        BY <3>0, <4>1, Zenon
      <4> QED  BY <4>2, <4>3, Zenon
    <3>2. delivered[s] \o queue[s] \in Seq(Event)
      BY <2>3
    <3> QED  BY <1>0, <2>7, <3>1, <3>2 DEF Traffic
  <2>9. Carried(s)'
    <3>1. tx'[p] = s /\ body'[p] = body[p] /\ pc[p] # "answered"
      BY <1>0, <1>1, <2>1
    <3> QED  BY <1>0, <1>1, <1>2, <2>2, <2>8, <3>1, SentCarried
  <2>10. \A t \in Streams \ {s} : Carried(t)'
    <3>1. \A t \in Streams \ {s} : Traffic(t)' = Traffic(t)
      BY <1>0, <2>7 DEF Traffic
    <3> QED  BY <1>0, <1>2, <3>1, PartCarried
  <2> QED  BY <1>3, <2>6, <2>9, <2>10 DEF SseInv
<1> QED  BY <1>4, <1>5 DEF SendReply

LEMMA PostDropped ==
  ASSUME SseInv, NEW p \in Posts, Hangup(p)
  PROVE  SseInv'
<1>1. SseTypeOK'
  BY DEF SseInv, SseTypeOK, Hangup, streamVars
<1>2. \A q \in Posts : AtWait(q)'
  BY DEF SseInv, SseTypeOK, Hangup, AtWait, Waiting
<1>3. AnsweredStay /\ UNCHANGED <<queue, delivered>>
  BY DEF SseInv, SseTypeOK, Hangup, AnsweredStay, Waiting, streamVars
<1> QED  BY <1>1, <1>2, <1>3, QuietTraffic DEF SseInv

LEMMA SseStep == SseInv /\ [SseNext]_sseVars => SseInv'
<1> SUFFICES ASSUME SseInv, [SseNext]_sseVars PROVE SseInv'
  OBVIOUS
<1>1. CASE \E s \in Streams : (\E c \in Clients : Connect(s, c)) \/ Deliver(s) \/ StreamEnds(s) \/ StreamDrops(s)
  BY <1>1, StreamStep
<1>2. CASE \E p \in Posts, c \in Clients \union {NoClient}, b \in Bodies : Post(p, c, b)
  BY <1>2, PostArrives
<1>3. CASE \E p \in Posts : RouterReturns(p) \/ SendReply(p) \/ Hangup(p)
  BY <1>3, RouterAnswers, AnswerSent, PostDropped
<1>4. CASE UNCHANGED sseVars
  <2>1. SseTypeOK' /\ \A p \in Posts : AtWait(p)'
    BY <1>4 DEF SseInv, SseTypeOK, AtWait, Waiting, sseVars, streamVars, postVars
  <2>2. AnsweredStay /\ UNCHANGED <<queue, delivered>>
    BY <1>4 DEF AnsweredStay, sseVars, streamVars, postVars
  <2> QED  BY <2>1, <2>2, QuietTraffic DEF SseInv
<1> QED  BY <1>1, <1>2, <1>3, <1>4 DEF SseNext, Proceed

LEMMA SseInitInv == SseInit => SseInv
<1> SUFFICES ASSUME SseInit PROVE SseInv
  OBVIOUS
<1>1. SseTypeOK
  BY SseAssumption DEF SseInit, SseTypeOK
<1>2. \A p \in Posts : AtWait(p)
  BY DEF SseInit, AtWait, Waiting
<1>3. \A s \in Streams : Traffic(s) = <<>>
  BY DEF SseInit, Traffic
<1> QED  BY <1>1, <1>2, <1>3 DEF SseInv, Carried

(* The types, and the bound of every channel, hold throughout.             *)
(* (handle_sse_get, handle_sse_post, mpsc::channel)                        *)
THEOREM SseInvariant == SseSpec => []SseInv
BY SseInitInv, SseStep, PTL DEF SseSpec

(* Whatever clients connect again and however posts overlap, a stream      *)
(* carries each answer once and only what its own client asked for.        *)
(* (the clone of the sender in handle_sse_post)                            *)
THEOREM AnswersStayOnTheirStream == SseSpec => []AnswersOnTheirStream
<1>1. SseInv => AnswersOnTheirStream
  BY DEF SseInv, Carried, AnswersOnTheirStream
<1> QED  BY <1>1, SseInvariant, PTL

(* No event goes out for a notification, whatever text the router gives    *)
(* its error.  (is_notification in handle_sse_post)                        *)
THEOREM NotificationsAreSilent == SseSpec => []NothingForNotifications
<1>1. SseInv => NothingForNotifications
  BY DEF SseInv, Carried, NothingForNotifications
<1> QED  BY <1>1, SseInvariant, PTL

(* The state of the transport keeps its types, and no channel ever holds   *)
(* more than it was made for.  (mpsc::channel)                             *)
THEOREM SseTypes == SseSpec => []SseTypeOK
<1>1. SseInv => SseTypeOK
  BY DEF SseInv
<1> QED  BY <1>1, SseInvariant, PTL

-----------------------------------------------------------------------------
(* The other half of AnswersOnTheirStream: as long as a stream is open, the *)
(* answer to every POST that holds its sender is on it, under the id that   *)
(* the router gave it, from the moment the client of the POST is told 202.  *)
OnItsStream(p) ==
  \E i \in DOMAIN Traffic(tx[p]) : Traffic(tx[p])[i] = [post |-> p, id |-> reply[p]]

NoAnswerIsLost ==
  \A p \in Posts : (pc[p] = "answered" /\ reply[p] # NoId /\ tx[p] \in alive) => OnItsStream(p)

(* Only streams that were opened are known, and a POST has no answer before *)
(* the router gave one.                                                     *)
KeptInv ==
  /\ \A c \in Clients : clients[c] \in opened \union {NoStream}
  /\ \A p \in Posts : /\ tx[p] \in opened \union {NoStream}
                      /\ pc[p] \in {"idle", "routing"} => reply[p] = NoId
  /\ NoAnswerIsLost

LEMMA StillOnItsStream ==
  ASSUME NEW p \in Posts, OnItsStream(p), tx'[p] = tx[p], reply'[p] = reply[p],
         NEW s \in Streams, tx[p] = s,
         DOMAIN Traffic(s) \subseteq DOMAIN Traffic(s)',
         \A i \in DOMAIN Traffic(s) : Traffic(s)'[i] = Traffic(s)[i]
  PROVE  OnItsStream(p)'
<1>1. PICK i \in DOMAIN Traffic(s) : Traffic(s)[i] = [post |-> p, id |-> reply[p]]
  BY DEF OnItsStream
<1>2. i \in DOMAIN Traffic(s)' /\ Traffic(s)'[i] = [post |-> p, id |-> reply'[p]]
  BY <1>1
<1> QED  BY <1>2 DEF OnItsStream, Traffic

(* A step that leaves what the streams carry alone. *)
LEMMA KeptQuietly ==
  ASSUME SseInv, KeptInv, \A s \in Streams : Traffic(s)' = Traffic(s), alive' \subseteq alive \/ alive' \subseteq Streams,
         \A p \in Posts : (pc'[p] = "answered" /\ reply'[p] # NoId /\ tx'[p] \in alive') =>
           /\ pc[p] = "answered" /\ reply'[p] = reply[p] /\ tx'[p] = tx[p] /\ tx[p] \in alive
  PROVE  NoAnswerIsLost'
<1> SUFFICES ASSUME NEW p \in Posts, pc'[p] = "answered" /\ reply'[p] # NoId /\ tx'[p] \in alive'
             PROVE  OnItsStream(p)'
  BY DEF NoAnswerIsLost
<1>1. pc[p] = "answered" /\ reply'[p] = reply[p] /\ tx'[p] = tx[p] /\ tx[p] \in alive
  OBVIOUS
<1>2. OnItsStream(p) /\ tx[p] \in Streams
  BY <1>1 DEF KeptInv, NoAnswerIsLost, SseInv, SseTypeOK
<1>3. PICK s \in Streams : tx[p] = s
  BY <1>2
<1>4. Traffic(s)' = Traffic(s)
  BY <1>3
<1> QED  BY <1>1, <1>2, <1>3, <1>4, StillOnItsStream

LEMMA StreamsKeep ==
  ASSUME SseInv, KeptInv, NEW s \in Streams,
         (\E c \in Clients : Connect(s, c)) \/ Deliver(s) \/ StreamEnds(s) \/ StreamDrops(s)
  PROVE  KeptInv'
<1>0. SseTypeOK /\ UNCHANGED <<pc, tx, reply>>
  BY DEF SseInv, Connect, Deliver, StreamEnds, StreamDrops, postVars
<1>1. /\ \A c \in Clients : clients'[c] \in opened' \union {NoStream}
      /\ \A p \in Posts : /\ tx'[p] \in opened' \union {NoStream}
                          /\ pc'[p] \in {"idle", "routing"} => reply'[p] = NoId
  BY <1>0 DEF KeptInv, Connect, Deliver, StreamEnds, StreamDrops, SseTypeOK
<1>2. CASE \E c \in Clients : Connect(s, c)
  <2>1. \A t \in Streams : Traffic(t)' = Traffic(t)
    BY <1>2 DEF Connect, Traffic
  <2>2. alive' = alive \union {s} /\ \A p \in Posts : tx[p] # s
    BY <1>2, SseAssumption DEF Connect, KeptInv
  <2> QED  BY <1>0, <1>1, <2>1, <2>2, KeptQuietly DEF KeptInv, SseTypeOK
<1>3. CASE StreamEnds(s)
  <2>1. (\A t \in Streams : Traffic(t)' = Traffic(t)) /\ alive' \subseteq alive
    BY <1>3 DEF StreamEnds, Traffic
  <2> QED  BY <1>0, <1>1, <2>1, KeptQuietly DEF KeptInv
<1>4. CASE Deliver(s)
  <2>1. queue[s] \in Seq(Event) /\ delivered[s] \in Seq(Event) /\ queue[s] # <<>> /\ alive' = alive
    BY <1>0, <1>4 DEF Deliver, SseTypeOK
  <2>2. delivered'[s] = Append(delivered[s], Head(queue[s])) /\ queue'[s] = Tail(queue[s])
        /\ \A t \in Streams \ {s} : delivered'[t] = delivered[t] /\ queue'[t] = queue[t]
    BY <1>0, <1>4 DEF Deliver, SseTypeOK
  <2>3. Append(delivered[s], Head(queue[s])) \o Tail(queue[s]) = delivered[s] \o queue[s]
    BY <2>1, TrafficShift
  <2>4. \A t \in Streams : Traffic(t)' = Traffic(t)
    BY <2>2, <2>3 DEF Traffic
  <2> QED  BY <1>0, <1>1, <2>1, <2>4, KeptQuietly DEF KeptInv
<1>5. CASE StreamDrops(s)
  <2>1. alive' = alive \ {s} /\ \A t \in Streams \ {s} : Traffic(t)' = Traffic(t)
    BY <1>0, <1>5 DEF StreamDrops, SseTypeOK, Traffic
  <2>2. ASSUME NEW p \in Posts, pc'[p] = "answered" /\ reply'[p] # NoId /\ tx'[p] \in alive'
        PROVE  OnItsStream(p)'
    <3>1. tx'[p] = tx[p] /\ reply'[p] = reply[p] /\ tx[p] \in Streams \ {s} /\ OnItsStream(p)
      BY <1>0, <2>1, <2>2 DEF KeptInv, NoAnswerIsLost, SseTypeOK
    <3>2. PICK t \in Streams \ {s} : tx[p] = t
      BY <3>1
    <3>3. Traffic(t)' = Traffic(t)
      BY <2>1
    <3> QED  BY <3>1, <3>2, <3>3, StillOnItsStream
  <2> QED  BY <1>1, <2>2 DEF KeptInv, NoAnswerIsLost
<1> QED  BY <1>2, <1>3, <1>4, <1>5

LEMMA PostsKeep ==
  ASSUME SseInv, KeptInv, NEW p \in Posts,
         \/ \E c \in Clients \union {NoClient}, b \in Bodies : Post(p, c, b)
         \/ RouterReturns(p) \/ Hangup(p)
  PROVE  KeptInv'
<1>0. SseTypeOK /\ UNCHANGED streamVars
  BY DEF SseInv, Post, RouterReturns, Hangup
<1>1. \A q \in Posts \ {p} : pc'[q] = pc[q] /\ tx'[q] = tx[q] /\ reply'[q] = reply[q]
  BY <1>0 DEF Post, RouterReturns, Hangup, Respond, SseTypeOK
<1>2. /\ tx'[p] \in opened \union {NoStream}
      /\ pc'[p] \in {"idle", "routing"} => reply'[p] = NoId
      /\ pc'[p] = "answered" => reply'[p] = NoId
  <2>1. CASE \E c \in Clients \union {NoClient}, b \in Bodies : Post(p, c, b)
    BY <1>0, <2>1, SseAssumption DEF Post, Respond, SseTypeOK, KeptInv
  <2>2. CASE RouterReturns(p)
    BY <1>0, <2>2 DEF RouterReturns, Respond, SseTypeOK, KeptInv
  <2>3. CASE Hangup(p)
    BY <1>0, <2>3 DEF Hangup, SseTypeOK, KeptInv
  <2> QED  BY <2>1, <2>2, <2>3
<1>3. (\A t \in Streams : Traffic(t)' = Traffic(t)) /\ alive' = alive
  BY <1>0 DEF Traffic, streamVars
<1>4. NoAnswerIsLost'
  BY <1>1, <1>2, <1>3, KeptQuietly
<1> QED  BY <1>0, <1>1, <1>2, <1>4 DEF KeptInv, streamVars

LEMMA SendKeeps ==
  ASSUME SseInv, KeptInv, NEW p \in Posts, SendReply(p)
  PROVE  KeptInv'
<1>0. SseTypeOK /\ UNCHANGED <<clients, alive, opened, delivered, tx, reply>> /\ pc[p] = "sending"
  BY DEF SseInv, SendReply
<1>1. pc'[p] = "answered" /\ \A q \in Posts \ {p} : pc'[q] = pc[q]
  BY <1>0 DEF SendReply, Respond, SseTypeOK
<1>2. CASE tx[p] \notin alive /\ queue' = queue
  <2>1. \A t \in Streams : Traffic(t)' = Traffic(t)
    BY <1>0, <1>2 DEF Traffic
  <2>2. NoAnswerIsLost'
    BY <1>0, <1>1, <1>2, <2>1, KeptQuietly
  <2> QED  BY <1>0, <1>1, <2>2 DEF KeptInv
<1>3. CASE tx[p] \in alive /\ queue' = [queue EXCEPT ![tx[p]] = Append(@, [post |-> p, id |-> reply[p]])]
  <2>0. tx[p] \in Streams /\ reply[p] \in Ids \union {NullId}
    BY <1>0 DEF SseInv, AtWait, Waiting
  <2>1. PICK s \in Streams, e \in Event : s = tx[p] /\ e = [post |-> p, id |-> reply[p]]
    BY <2>0 DEF Event
  <2>2. /\ Traffic(s)' = Append(Traffic(s), e) /\ Traffic(s) \in Seq(Event)
        /\ \A t \in Streams \ {s} : Traffic(t)' = Traffic(t)
    <3>1. queue'[s] = Append(queue[s], e) /\ \A t \in Streams \ {s} : queue'[t] = queue[t]
      BY <1>0, <1>3, <2>1 DEF SseTypeOK
    <3>2. queue[s] \in Seq(Event) /\ delivered[s] \in Seq(Event)
      BY <1>0 DEF SseTypeOK
    <3>3. delivered[s] \o Append(queue[s], e) = Append(delivered[s] \o queue[s], e)
      <4>1. \A d \in Seq(Event), q \in Seq(Event), x \in Event : d \o Append(q, x) = Append(d \o q, x)
        BY TrafficAppend
      <4>2. PICK d \in Seq(Event), q \in Seq(Event) : d = delivered[s] /\ q = queue[s]
        BY <3>2
      <4>3. d \o Append(q, e) = Append(d \o q, e)
        BY <2>1, <4>1, Zenon
      <4> QED  BY <4>2, <4>3, Zenon
    <3>4. Traffic(s)' = delivered[s] \o queue'[s] /\ Traffic(s) = delivered[s] \o queue[s]
      BY <1>0 DEF Traffic
    <3>5. \A t \in Streams \ {s} : Traffic(t)' = Traffic(t)
      BY <1>0, <3>1 DEF Traffic
    <3>6. Traffic(s) \in Seq(Event)
      BY <3>2, <3>4
    <3> QED  BY <3>1, <3>3, <3>4, <3>5, <3>6
  <2>3. /\ Len(Traffic(s)) + 1 \in DOMAIN Traffic(s)' /\ Traffic(s)'[Len(Traffic(s)) + 1] = e
        /\ DOMAIN Traffic(s) \subseteq DOMAIN Traffic(s)'
        /\ \A i \in DOMAIN Traffic(s) : Traffic(s)'[i] = Traffic(s)[i]
    <3> DEFINE log == Traffic(s)
    <3>1. log \in Seq(Event)
      BY <2>2
    <3> HIDE DEF log
    <3>2. Len(log) + 1 \in DOMAIN Append(log, e) /\ Append(log, e)[Len(log) + 1] = e
          /\ DOMAIN log \subseteq DOMAIN Append(log, e) /\ \A i \in DOMAIN log : Append(log, e)[i] = log[i]
      BY <3>1
    <3> QED  BY <2>2, <3>2 DEF log
  <2>4. OnItsStream(p)'
    <3>1. PICK i \in DOMAIN Traffic(s)' : Traffic(s)'[i] = [post |-> p, id |-> reply'[p]]
      BY <1>0, <2>1, <2>3
    <3> QED  BY <1>0, <2>1, <3>1 DEF OnItsStream, Traffic
  <2>5. ASSUME NEW q \in Posts \ {p}, pc'[q] = "answered" /\ reply'[q] # NoId /\ tx'[q] \in alive'
        PROVE  OnItsStream(q)'
    <3>1. OnItsStream(q) /\ tx[q] \in Streams /\ tx'[q] = tx[q] /\ reply'[q] = reply[q]
      BY <1>0, <1>1, <2>5 DEF KeptInv, NoAnswerIsLost, SseTypeOK
    <3>2. CASE tx[q] = s
      BY <2>3, <3>1, <3>2, StillOnItsStream
    <3>3. CASE tx[q] # s
      <4>1. PICK t \in Streams \ {s} : tx[q] = t
        BY <3>1, <3>3
      <4>2. Traffic(t)' = Traffic(t)
        BY <2>2
      <4> QED  BY <3>1, <4>1, <4>2, StillOnItsStream
    <3> QED  BY <3>2, <3>3
  <2>6. NoAnswerIsLost'
    BY <2>4, <2>5 DEF NoAnswerIsLost
  <2> QED  BY <1>0, <1>1, <2>6 DEF KeptInv
<1> QED  BY <1>2, <1>3 DEF SendReply

(* Whatever streams come and go and however long a channel is full: what    *)
(* the router answered is on the stream of the client that asked, as long   *)
(* as that stream is open.  (tx.send(..).await before the 202)              *)
THEOREM AnswersArrive == SseSpec => []NoAnswerIsLost
<1>1. SseInit => KeptInv
  BY DEF SseInit, KeptInv, NoAnswerIsLost
<1>2. SseInv /\ KeptInv /\ [SseNext]_sseVars => KeptInv'
  <2> SUFFICES ASSUME SseInv, KeptInv, [SseNext]_sseVars PROVE KeptInv'
    OBVIOUS
  <2>1. CASE UNCHANGED sseVars
    BY <2>1 DEF sseVars, streamVars, postVars, KeptInv, NoAnswerIsLost, OnItsStream, Traffic
  <2> QED  BY <2>1, StreamsKeep, PostsKeep, SendKeeps DEF SseNext, Proceed
<1>3. KeptInv => NoAnswerIsLost
  BY DEF KeptInv
<1> QED  BY <1>1, <1>2, <1>3, SseInvariant, PTL DEF SseSpec
=============================================================================
