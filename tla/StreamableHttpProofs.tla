------------------------ MODULE StreamableHttpProofs ------------------------
(***************************************************************************)
(* The sessions of the HTTP transport, proved for any number of requests    *)
(* and sessions: each goes through its life once, and each was handed to    *)
(* the one client whose initialize opened it.                               *)
(*                                                                         *)
(* Neither is inductive.  A POST that waits carries what it looked up: that *)
(* its body parses, that the session it will mark was drawn, and that the   *)
(* id it will answer with is its own.                                       *)
(***************************************************************************)
EXTENDS StreamableHttp, TLAPS

WaitingHttp == {"routing", "opening", "marking"}

(* What a POST that waits has behind it. *)
AtAwait(c) ==
  /\ pc[c] \in WaitingHttp => Parses(body[c]) /\ header[c] \in drawn \union {NoKey}
  /\ pc[c] = "marking" => header[c] \in drawn
  /\ pc[c] = "opening" => IsInitialize(c) /\ Messages(body[c])[1].id = reply[c]
  /\ key[c] # NoKey => pc[c] = "answered" /\ key[c] \in drawn

HttpInv == HttpTypeOK /\ SessionsComeFromInitialize /\ \A c \in Calls : AtAwait(c)

-----------------------------------------------------------------------------
(* The id of a message that parses is an id. *)
LEMMA FirstMessage ==
  ASSUME NEW b \in Bodies, Parses(b)
  PROVE  Messages(b)[1].id \in Ids \union {NullId, NoId}
<1>1. /\ b.form \in {"value", "array"} /\ b.items # <<>>
      /\ b.items \in Seq(RawItem) /\ \A i \in DOMAIN b.items : ParsesSingle(b.items[i])
  BY HttpAssumption DEF Parses, Body
<1>2. 1 \in DOMAIN b.items
  BY <1>1
<1>3. b.items[1].id \in Ids \union {NullId, NoId}
  BY <1>1, <1>2 DEF ParsesSingle
<1> QED  BY <1>2, <1>3 DEF Messages, Parsed

(* What the router returns has an id of the message or of an upstream. *)
LEMMA ResultIds ==
  ASSUME NEW b \in Bodies, Parses(b), NEW result \in Results(b)
  PROVE  result.id \in Ids \union {NullId, NoId}
<1>1. Messages(b)[1].id \in Ids \union {NullId, NoId}
  BY FirstMessage
<1> QED  BY <1>1 DEF Results, ResultsOfRequest, Failure, Answer

(* A successful initialize is answered with its own id. *)
LEMMA InitializeEchoesId ==
  ASSUME NEW b \in Bodies, Parses(b), MethodOf(b) = "initialize",
         NEW result \in Results(b), result.ok
  PROVE  result.id = Messages(b)[1].id
<1> DEFINE m == Messages(b)[1]
<1>1. b.form = "value" /\ m.method = "initialize"
  BY HttpAssumption DEF MethodOf
<1>2. 1 \in DOMAIN b.items
  BY HttpAssumption DEF Parses, Body
<1>3. m.kind = "Request" \/ ~result.ok
  BY DEF Results, Failure
<1>4. result \in ResultsOfRequest(m)
  BY <1>3 DEF Results
<1> QED  BY <1>1, <1>4 DEF ResultsOfRequest, AnsweredHere, Failure, Answer

-----------------------------------------------------------------------------
LEMMA HttpInitInv == HttpInit => HttpInv
  BY HttpAssumption DEF HttpInit, HttpInv, HttpTypeOK, SessionsComeFromInitialize, AtAwait, WaitingHttp

(* A step that leaves bodies, keys and drawn ids alone leaves the sessions  *)
(* with the calls that opened them.                                         *)
LEMMA OriginKept ==
  ASSUME HttpInv, NEW c \in Calls, pc[c] # "answered",
         UNCHANGED <<drawn, key>>,
         \A d \in Calls \ {c} : body'[d] = body[d] /\ reply'[d] = reply[d]
  PROVE  SessionsComeFromInitialize'
<1>1. key[c] = NoKey
  BY DEF HttpInv, AtAwait
<1>2. \A k \in drawn : k # NoKey
  BY HttpAssumption DEF HttpInv, HttpTypeOK
<1>3. \A d \in Calls \ {c} : IsInitialize(d)' = IsInitialize(d)
  BY DEF IsInitialize
<1> QED  BY <1>1, <1>2, <1>3 DEF HttpInv, SessionsComeFromInitialize

LEMMA PostKeeps ==
  ASSUME HttpInv, NEW c \in Calls, NEW b \in Bodies, NEW k \in drawn \union {StrangeKey, NoKey},
         Post(c, b, k)
  PROVE  HttpInv'
<1>1. SessionsComeFromInitialize'
  BY OriginKept DEF Post, Respond, HttpInv, HttpTypeOK
<1>2. HttpTypeOK'
  BY DEF Post, Respond, HttpInv, HttpTypeOK
<1>3. ASSUME NEW d \in Calls PROVE AtAwait(d)'
  <2>1. CASE d = c
    BY <2>1, HttpAssumption DEF Post, Respond, HttpInv, HttpTypeOK, AtAwait, WaitingHttp
  <2>2. CASE d # c
    BY <2>2 DEF Post, Respond, HttpInv, HttpTypeOK, AtAwait, IsInitialize
  <2> QED  BY <2>1, <2>2
<1> QED  BY <1>1, <1>2, <1>3 DEF HttpInv

LEMMA RouterReturnsKeeps ==
  ASSUME HttpInv, NEW c \in Calls, RouterReturns(c)
  PROVE  HttpInv'
<1>1. pc[c] = "routing" /\ body[c] \in Bodies /\ Parses(body[c])
  BY DEF RouterReturns, HttpInv, HttpTypeOK, AtAwait, WaitingHttp, NoBody, Parses
<1>2. PICK result \in Results(body[c]) :
       \/ ~result.ok /\ result.says /\ Respond(c, 202, NoId)
       \/ ~result.ok /\ ~result.says /\ Respond(c, 200, NullId)
       \/ /\ result.ok /\ ~IsInitialize(c) /\ header[c] = NoKey
          /\ Respond(c, 200, result.id)
       \/ /\ result.ok /\ (IsInitialize(c) \/ header[c] # NoKey)
          /\ pc' = [pc EXCEPT ![c] = IF IsInitialize(c) THEN "opening" ELSE "marking"]
          /\ reply' = [reply EXCEPT ![c] = result.id]
          /\ UNCHANGED status
  BY DEF RouterReturns
<1>3. result.id \in Ids \union {NullId, NoId}
  BY <1>1, ResultIds
<1>4. UNCHANGED <<open, initialized, drawn, body, header, key>>
  BY DEF RouterReturns
<1>5. SessionsComeFromInitialize'
  BY <1>1, <1>2, <1>4, OriginKept DEF Respond, HttpInv, HttpTypeOK
<1>6. HttpTypeOK'
  BY <1>1, <1>2, <1>3, <1>4 DEF Respond, HttpInv, HttpTypeOK
<1>7. ASSUME NEW d \in Calls PROVE AtAwait(d)'
  <2>1. CASE d # c
    BY <1>2, <1>4, <2>1 DEF Respond, HttpInv, HttpTypeOK, AtAwait, IsInitialize
  <2>2. CASE d = c /\ pc'[c] = "answered"
    BY <1>1, <1>4, <2>2 DEF HttpInv, HttpTypeOK, AtAwait, WaitingHttp
  <2>3. CASE d = c /\ pc'[c] = "marking"
    <3>1. ~IsInitialize(c) /\ header[c] # NoKey
      BY <1>1, <1>2, <2>3 DEF Respond, HttpInv, HttpTypeOK
    <3>2. header[c] \in drawn
      BY <1>1, <3>1 DEF HttpInv, AtAwait, WaitingHttp
    <3> QED  BY <1>1, <1>4, <2>3, <3>2 DEF HttpInv, HttpTypeOK, AtAwait, WaitingHttp
  <2>4. CASE d = c /\ pc'[c] = "opening"
    <3>1. IsInitialize(c) /\ result.ok /\ reply'[c] = result.id
      BY <1>1, <1>2, <2>4 DEF Respond, HttpInv, HttpTypeOK
    <3>2. result.id = Messages(body[c])[1].id
      BY <1>1, <3>1, InitializeEchoesId DEF IsInitialize
    <3>3. IsInitialize(c)' /\ Messages(body'[c])[1].id = reply'[c]
      BY <1>4, <3>1, <3>2 DEF IsInitialize
    <3> QED  BY <1>1, <1>4, <2>4, <3>3 DEF HttpInv, HttpTypeOK, AtAwait, WaitingHttp
  <2>5. pc'[c] \in {"answered", "marking", "opening"}
    BY <1>2 DEF Respond, HttpInv, HttpTypeOK
  <2> QED  BY <2>1, <2>2, <2>3, <2>4, <2>5
<1> QED  BY <1>5, <1>6, <1>7 DEF HttpInv

LEMMA OpenSessionKeeps ==
  ASSUME HttpInv, NEW c \in Calls, OpenSession(c)
  PROVE  HttpInv'
<1>1. PICK k \in Keys \ drawn :
       /\ drawn' = drawn \union {k} /\ open' = open \union {k}
       /\ key' = [key EXCEPT ![c] = k]
  BY DEF OpenSession
<1>2. /\ pc[c] = "opening" /\ pc' = [pc EXCEPT ![c] = "answered"]
      /\ status' = [status EXCEPT ![c] = 200] /\ reply' = [reply EXCEPT ![c] = reply[c]]
      /\ UNCHANGED <<initialized, body, header>>
  BY DEF OpenSession, Respond
<1>3. reply' = reply
  BY <1>2 DEF HttpInv, HttpTypeOK
<1>4. HttpTypeOK'
  BY <1>1, <1>2, <1>3 DEF HttpInv, HttpTypeOK
<1>5. k # NoKey /\ key[c] = NoKey /\ \A d \in Calls : key[d] # k
  BY <1>1, <1>2, HttpAssumption DEF HttpInv, AtAwait
<1>6. /\ \A d \in Calls : IsInitialize(d)' = IsInitialize(d)
      /\ \A d \in Calls \ {c} : key'[d] = key[d]
      /\ key'[c] = k
  BY <1>1, <1>2 DEF IsInitialize, HttpInv, HttpTypeOK
<1>7. SessionsComeFromInitialize'
  <2>1. SUFFICES ASSUME NEW j \in drawn'
                 PROVE  \E e \in Calls :
                          /\ key'[e] = j /\ IsInitialize(e)' /\ Messages(body'[e])[1].id = reply'[e]
                          /\ \A d \in Calls \ {e} : key'[d] # j
    BY DEF SessionsComeFromInitialize
  <2>2. CASE j = k
    BY <1>2, <1>3, <1>5, <1>6, <2>2 DEF HttpInv, AtAwait
  <2>3. CASE j # k
    <3>1. PICK e \in Calls :
            /\ key[e] = j /\ IsInitialize(e) /\ Messages(body[e])[1].id = reply[e]
            /\ \A d \in Calls \ {e} : key[d] # j
      BY <1>1, <2>3 DEF HttpInv, SessionsComeFromInitialize
    <3>2. j # NoKey
      BY <1>1, <2>1, <2>3, HttpAssumption DEF HttpInv, HttpTypeOK
    <3>3. e # c
      BY <1>5, <3>1, <3>2
    <3> QED  BY <1>2, <1>3, <1>6, <2>3, <3>1, <3>3
  <2> QED  BY <2>2, <2>3
<1>8. ASSUME NEW d \in Calls PROVE AtAwait(d)'
  <2>1. CASE d = c
    BY <1>1, <1>2, <1>6, <2>1 DEF HttpInv, HttpTypeOK, AtAwait, WaitingHttp
  <2>2. CASE d # c
    BY <1>1, <1>2, <1>3, <1>6, <2>2 DEF HttpInv, HttpTypeOK, AtAwait
  <2> QED  BY <2>1, <2>2
<1> QED  BY <1>4, <1>7, <1>8 DEF HttpInv

LEMMA MarkSessionKeeps ==
  ASSUME HttpInv, NEW c \in Calls, MarkSession(c)
  PROVE  HttpInv'
<1>1. reply' = reply
  BY DEF MarkSession, Respond, HttpInv, HttpTypeOK
<1>2. SessionsComeFromInitialize'
  BY <1>1, OriginKept DEF MarkSession
<1>3. HttpTypeOK'
  BY <1>1 DEF MarkSession, Respond, HttpInv, HttpTypeOK
<1>4. ASSUME NEW d \in Calls PROVE AtAwait(d)'
  BY <1>1 DEF MarkSession, Respond, HttpInv, HttpTypeOK, AtAwait, WaitingHttp, IsInitialize
<1> QED  BY <1>2, <1>3, <1>4 DEF HttpInv

LEMMA DeleteKeeps ==
  ASSUME HttpInv, NEW c \in Calls, NEW k \in drawn \union {StrangeKey, NoKey}, Delete(c, k)
  PROVE  HttpInv'
<1>1. SessionsComeFromInitialize'
  BY OriginKept DEF Delete, Respond, HttpInv, HttpTypeOK
<1>2. HttpTypeOK'
  BY DEF Delete, Respond, HttpInv, HttpTypeOK
<1>3. ASSUME NEW d \in Calls PROVE AtAwait(d)'
  BY DEF Delete, Respond, HttpInv, HttpTypeOK, AtAwait, WaitingHttp, IsInitialize
<1> QED  BY <1>1, <1>2, <1>3 DEF HttpInv

LEMMA HangupKeeps ==
  ASSUME HttpInv, NEW c \in Calls, Hangup(c)
  PROVE  HttpInv'
<1>1. SessionsComeFromInitialize'
  BY OriginKept DEF Hangup
<1>2. HttpTypeOK'
  BY DEF Hangup, HttpInv, HttpTypeOK
<1>3. ASSUME NEW d \in Calls PROVE AtAwait(d)'
  BY DEF Hangup, HttpInv, HttpTypeOK, AtAwait, WaitingHttp, IsInitialize
<1> QED  BY <1>1, <1>2, <1>3 DEF HttpInv

LEMMA HttpStep ==
  ASSUME HttpInv, [HttpNext]_httpVars
  PROVE  HttpInv'
<1>1. CASE UNCHANGED httpVars
  BY <1>1 DEF httpVars, HttpInv, HttpTypeOK, SessionsComeFromInitialize, AtAwait, IsInitialize
<1>2. ASSUME NEW c \in Calls, Proceed(c) PROVE HttpInv'
  BY <1>2, RouterReturnsKeeps, OpenSessionKeeps, MarkSessionKeeps DEF Proceed
<1> QED  BY <1>1, <1>2, PostKeeps, DeleteKeeps, HangupKeeps DEF HttpNext

(* What the transport keeps about its sessions and its calls, in every      *)
(* reachable state.                                                         *)
THEOREM HttpInvariant == HttpSpec => []HttpInv
  BY HttpInitInv, HttpStep, PTL DEF HttpSpec

(* The transport's state has its types: what is marked is open and what is  *)
(* open was drawn.  (handle_mcp_post, handle_mcp_delete)                    *)
THEOREM HttpTypes == HttpSpec => []HttpTypeOK
<1>1. HttpInv => HttpTypeOK
  BY DEF HttpInv
<1> QED  BY <1>1, HttpInvariant, PTL

(* Every session was handed out once, in the answer to the initialize that  *)
(* opened it.  (the `is_initialize` branch of handle_mcp_post)              *)
THEOREM SessionsAreHandedOutOnce == HttpSpec => []SessionsComeFromInitialize
<1>1. HttpInv => SessionsComeFromInitialize
  BY DEF HttpInv
<1> QED  BY <1>1, HttpInvariant, PTL

-----------------------------------------------------------------------------
Life == [k \in Keys |-> LifeOf(k)]

(* A step that leaves the three sets alone leaves every life as it was.     *)
LEMMA LivesKept ==
  ASSUME UNCHANGED <<open, initialized, drawn>>
  PROVE  UNCHANGED Life
  BY DEF Life, LifeOf

(* Opening, marking and terminating are steps of a life. *)
LEMMA OpenSessionOpens ==
  ASSUME HttpInv, NEW c \in Calls, OpenSession(c)
  PROVE  LifeCycle!Next
<1>1. PICK k \in Keys \ drawn : drawn' = drawn \union {k} /\ open' = open \union {k}
  BY DEF OpenSession
<1>2. initialized' = initialized
  BY DEF OpenSession
<1>3. open \subseteq drawn /\ initialized \subseteq open
  BY DEF HttpInv, HttpTypeOK
<1>4. LifeOf(k) = "unopened" /\ LifeOf(k)' = "open" /\ \A j \in Keys \ {k} : LifeOf(j)' = LifeOf(j)
  BY <1>1, <1>2, <1>3 DEF LifeOf
<1> QED  BY <1>4 DEF LifeCycle!Next, LifeCycle!Open

LEMMA MarkSessionMarks ==
  ASSUME HttpInv, NEW c \in Calls, MarkSession(c)
  PROVE  LifeCycle!Next \/ UNCHANGED Life
<1>0. PICK k : k = header[c]
  OBVIOUS
<1>1. /\ initialized' = initialized \union ({k} \cap open) /\ UNCHANGED <<open, drawn>>
  BY <1>0 DEF MarkSession
<1>2. CASE k \notin open \ initialized
  BY <1>1, <1>2, LivesKept
<1>3. CASE k \in open \ initialized
  <2>1. k \in Keys
    BY <1>3 DEF HttpInv, HttpTypeOK
  <2>2. /\ LifeOf(k) = "open" /\ LifeOf(k)' = "initialized"
        /\ \A j \in Keys \ {k} : LifeOf(j)' = LifeOf(j)
    BY <1>1, <1>3 DEF LifeOf
  <2> QED  BY <2>1, <2>2 DEF LifeCycle!Next, LifeCycle!Mark
<1> QED  BY <1>2, <1>3

LEMMA DeleteTerminates ==
  ASSUME HttpInv, NEW c \in Calls, NEW k \in drawn \union {StrangeKey, NoKey}, Delete(c, k)
  PROVE  LifeCycle!Next \/ UNCHANGED Life
<1>1. open' = open \ {k} /\ initialized' = initialized \ {k} /\ drawn' = drawn
  BY DEF Delete
<1>2. open \subseteq drawn /\ initialized \subseteq open /\ drawn \subseteq Keys
  BY DEF HttpInv, HttpTypeOK
<1>3. CASE k \notin open
  BY <1>1, <1>2, <1>3, LivesKept
<1>4. CASE k \in open
  <2>1. /\ LifeOf(k) \in {"open", "initialized"} /\ LifeOf(k)' = "terminated"
        /\ \A j \in Keys \ {k} : LifeOf(j)' = LifeOf(j)
    BY <1>1, <1>2, <1>4 DEF LifeOf
  <2> QED  BY <1>2, <1>4, <2>1 DEF LifeCycle!Next, LifeCycle!Terminate
<1> QED  BY <1>3, <1>4

LEMMA LifeStep ==
  ASSUME HttpInv, [HttpNext]_httpVars
  PROVE  LifeCycle!Next \/ UNCHANGED Life
<1>1. CASE UNCHANGED httpVars
  BY <1>1, LivesKept DEF httpVars
<1>2. ASSUME NEW c \in Calls, Proceed(c) PROVE LifeCycle!Next \/ UNCHANGED Life
  <2>1. CASE RouterReturns(c)
    BY <2>1, LivesKept DEF RouterReturns
  <2> QED  BY <1>2, <2>1, OpenSessionOpens, MarkSessionMarks DEF Proceed
<1>3. ASSUME NEW c \in Calls, NEW b \in Bodies, NEW k \in drawn \union {StrangeKey, NoKey}, Post(c, b, k)
      PROVE  UNCHANGED Life
  BY <1>3, LivesKept DEF Post
<1>4. ASSUME NEW c \in Calls, Hangup(c) PROVE UNCHANGED Life
  BY <1>4, LivesKept DEF Hangup
<1> QED  BY <1>1, <1>2, <1>3, <1>4, DeleteTerminates DEF HttpNext

(* Every session goes through its life once: no interleaving of POSTs and   *)
(* DELETEs, and no hang-up, brings a terminated session back, marks one     *)
(* that is not open, or changes two at once.  (handle_mcp_post,             *)
(* handle_mcp_delete)                                                       *)
THEOREM HttpImplementsLifeCycle == HttpSpec => ImplementsLifeCycle
<1>1. HttpInit => LifeCycle!Init
  BY DEF HttpInit, LifeCycle!Init, LifeOf
<1>2. HttpInv /\ [HttpNext]_httpVars => [LifeCycle!Next]_([k \in Keys |-> LifeOf(k)])
  BY LifeStep DEF Life
<1> QED  BY <1>1, <1>2, HttpInvariant, PTL DEF HttpSpec, ImplementsLifeCycle, LifeCycle!Spec

-----------------------------------------------------------------------------
(* How far RequestsGetResponses is from holding, and whose id a response    *)
(* carries.  Both follow from what an answered POST was told, which has to  *)
(* do with the message it brought, and with nothing else.                   *)
Quotes(c) == Messages(body[c])[1].names \/ MethodOf(body[c]) = "notifications/initialized"

OwnId(c) == reply[c] \in {Messages(body[c])[1].id, NullId}

Here(c) == Requesting(c) /\ MethodOf(body[c]) \in AnsweredHere

Told(c) ==
  /\ pc[c] # "answered" => status[c] = 0
  /\ pc[c] = "idle" => body[c] = NoBody
  /\ (status[c] = 202 /\ Requesting(c)) => Quotes(c)
  /\ (pc[c] \in {"opening", "marking"} /\ Here(c)) => OwnId(c)
  /\ (status[c] = 200 /\ Here(c)) => OwnId(c)

ToldInv == \A c \in Calls : Told(c)

(* A request is left without a response body only if its text has the word  *)
(* that the transport looks for, or if it is the notification that the      *)
(* router refuses with that word; and a request that the gateway answers    *)
(* itself is answered under its own id or, as an error, under none.         *)
(* (handle_mcp_post: `contains("notification")`)                            *)
SilentOnlyOverWords ==
  \A c \in Calls : (pc[c] = "answered" /\ Requesting(c)) =>
    /\ status[c] = 202 => Quotes(c)
    /\ (status[c] = 200 /\ MethodOf(body[c]) \in AnsweredHere) => OwnId(c)

(* What the router gives back for a request. *)
LEMMA ResultOfRequest ==
  ASSUME NEW c \in Calls, Requesting(c), NEW result \in Results(body[c])
  PROVE  /\ ~result.ok /\ result.says => Quotes(c)
         /\ result.ok /\ MethodOf(body[c]) \in AnsweredHere => result.id = Messages(body[c])[1].id
<1> DEFINE m == Messages(body[c])[1]
<1>1. m.kind = "Request" /\ MethodOf(body[c]) = m.method
  BY DEF Requesting, MethodOf
<1>2. result \in ResultsOfRequest(m)
  BY <1>1 DEF Results
<1>3. m.method = "notifications/initialized" => Quotes(c)
  BY <1>1 DEF Quotes
<1>4. CASE m.method = "notifications/initialized"
  BY <1>1, <1>2, <1>3, <1>4 DEF ResultsOfRequest, Failure, AnsweredHere
<1>5. CASE m.method # "notifications/initialized"
  <2>1. \/ result = Answer(m.id) \/ result = Failure(FALSE)
        \/ m.method \notin AnsweredHere /\ \E id \in Ids \union {NullId} : result = Answer(id)
        \/ m.names /\ result = Failure(TRUE)
    BY <1>2, <1>5 DEF ResultsOfRequest
  <2> QED  BY <1>1, <2>1 DEF Failure, Answer, Quotes
<1> QED  BY <1>4, <1>5

(* Told speaks of one call's own columns. *)
LEMMA ToldKept ==
  ASSUME NEW d \in Calls, Told(d), pc'[d] = pc[d], status'[d] = status[d], body'[d] = body[d],
         reply'[d] = reply[d]
  PROVE  Told(d)'
<1>1. /\ Requesting(d)' = Requesting(d) /\ MethodOf(body[d])' = MethodOf(body[d])
      /\ Messages(body[d])' = Messages(body[d])
  BY DEF Requesting, Parses, MethodOf, Messages
<1> QED  BY <1>1 DEF Told, Here, OwnId, Quotes

LEMMA RouterReturnsTells ==
  ASSUME HttpTypeOK, NEW c \in Calls, Told(c), RouterReturns(c)
  PROVE  Told(c)'
<1>1. body' = body /\ pc[c] = "routing" /\ status[c] = 0
  BY DEF RouterReturns, Told
<1>2. Requesting(c)' = Requesting(c) /\ Here(c)' = Here(c) /\ Quotes(c)' = Quotes(c)
  BY <1>1 DEF Requesting, Here, Quotes
<1>3. PICK result \in Results(body[c]) :
        \/ ~result.ok /\ result.says /\ Respond(c, 202, NoId)
        \/ ~result.ok /\ ~result.says /\ Respond(c, 200, NullId)
        \/ result.ok /\ Respond(c, 200, result.id)
        \/ /\ result.ok /\ status' = status
           /\ pc' = [pc EXCEPT ![c] = IF IsInitialize(c) THEN "opening" ELSE "marking"]
           /\ reply' = [reply EXCEPT ![c] = result.id]
  BY DEF RouterReturns
<1>4. Requesting(c) => /\ ~result.ok /\ result.says => Quotes(c)
                       /\ result.ok /\ MethodOf(body[c]) \in AnsweredHere
                            => result.id = Messages(body[c])[1].id
  BY ResultOfRequest
<1>5. OwnId(c)' <=> reply'[c] \in {Messages(body[c])[1].id, NullId}
  BY <1>1 DEF OwnId
<1>6. CASE ~result.ok /\ result.says /\ Respond(c, 202, NoId)
  BY <1>2, <1>4, <1>6 DEF Respond, Told, HttpTypeOK
<1>7. CASE ~result.ok /\ ~result.says /\ Respond(c, 200, NullId)
  BY <1>2, <1>5, <1>7 DEF Respond, Told, HttpTypeOK
<1>8. CASE result.ok /\ Respond(c, 200, result.id)
  BY <1>2, <1>4, <1>5, <1>8 DEF Respond, Told, HttpTypeOK, Here
<1>9. CASE /\ result.ok /\ status' = status
           /\ pc' = [pc EXCEPT ![c] = IF IsInitialize(c) THEN "opening" ELSE "marking"]
           /\ reply' = [reply EXCEPT ![c] = result.id]
  BY <1>1, <1>2, <1>4, <1>5, <1>9 DEF Told, HttpTypeOK, Here
<1> QED  BY <1>3, <1>6, <1>7, <1>8, <1>9

(* The second half of a POST answers with the id the first half kept. *)
LEMMA SecondHalfTells ==
  ASSUME HttpTypeOK, NEW c \in Calls, Told(c), OpenSession(c) \/ MarkSession(c)
  PROVE  Told(c)'
<1>1. /\ body' = body /\ pc[c] \in {"opening", "marking"} /\ Respond(c, 200, reply[c])
  BY DEF OpenSession, MarkSession
<1>2. reply'[c] = reply[c] /\ status'[c] = 200 /\ pc'[c] = "answered"
  BY <1>1 DEF Respond, HttpTypeOK
<1>3. Here(c)' = Here(c) /\ OwnId(c)' = OwnId(c)
  BY <1>1, <1>2 DEF Here, Requesting, OwnId
<1> QED  BY <1>1, <1>2, <1>3 DEF Told

LEMMA PostTells ==
  ASSUME HttpTypeOK, NEW c \in Calls, Told(c), NEW b \in Bodies, NEW k, Post(c, b, k)
  PROVE  Told(c)'
<1>1. body'[c] = b /\ status[c] = 0 /\ pc[c] = "idle"
  BY DEF Post, HttpTypeOK, Told
<1>2. CASE ~Parses(b)
  <2>1. ~Requesting(c)' /\ ~Here(c)'
    BY <1>1, <1>2 DEF Requesting, Here
  <2> QED  BY <1>1, <1>2, <2>1 DEF Post, Respond, Told, HttpTypeOK, Parses
<1>3. CASE Parses(b)
  BY <1>1, <1>3 DEF Post, Respond, Told, HttpTypeOK, Parses
<1> QED  BY <1>2, <1>3

LEMMA DeleteTells ==
  ASSUME HttpTypeOK, NEW c \in Calls, Told(c), NEW k, Delete(c, k)
  PROVE  Told(c)'
<1>1. body'[c] = NoBody /\ pc'[c] = "answered"
  BY DEF Delete, Respond, HttpTypeOK, Told
<1>2. ~Requesting(c)' /\ ~Here(c)'
  BY <1>1 DEF Requesting, Parses, NoBody, Here
<1> QED  BY <1>1, <1>2 DEF Told

LEMMA ToldStep ==
  ASSUME HttpTypeOK, ToldInv, [HttpNext]_httpVars
  PROVE  ToldInv'
<1>1. CASE UNCHANGED httpVars
  BY <1>1, ToldKept DEF httpVars, ToldInv
<1>2. ASSUME NEW c \in Calls,
             \/ \E b \in Bodies, k \in drawn \union {StrangeKey, NoKey} : Post(c, b, k)
             \/ \E k \in drawn \union {StrangeKey, NoKey} : Delete(c, k)
             \/ Proceed(c) \/ Hangup(c)
      PROVE  ToldInv'
  <2>1. ASSUME NEW d \in Calls \ {c} PROVE Told(d)'
    <3>1. /\ pc'[d] = pc[d] /\ status'[d] = status[d]
          /\ body'[d] = body[d] /\ reply'[d] = reply[d]
      BY <1>2 DEF Post, Delete, Proceed, RouterReturns, OpenSession, MarkSession, Hangup, Respond, HttpTypeOK
    <3> QED  BY <3>1, ToldKept DEF ToldInv
  <2>2. Hangup(c) => Told(c)'
    BY DEF ToldInv, Told, Hangup, HttpTypeOK, Requesting, Here, Quotes, OwnId
  <2>3. Told(c)'
    BY <1>2, <2>2, PostTells, DeleteTells, RouterReturnsTells, SecondHalfTells DEF ToldInv, Proceed
  <2> QED  BY <2>1, <2>3 DEF ToldInv
<1> QED  BY <1>1, <1>2 DEF HttpNext

(* For any bodies and interleavings: the comment that a request expects a   *)
(* response fails only for requests whose text has the word "notification"  *)
(* or that name the one notification the router knows, and what the gateway *)
(* answers itself comes back under the id it was asked with.                *)
(* (handle_mcp_post)                                                        *)
THEOREM SilenceHasItsReason == HttpSpec => []SilentOnlyOverWords
<1>1. HttpInit => ToldInv
  BY DEF HttpInit, ToldInv, Told, Requesting, Parses, NoBody, Here
<1>2. HttpInv => HttpTypeOK
  BY DEF HttpInv
<1>3. ToldInv => SilentOnlyOverWords
  BY DEF ToldInv, Told, SilentOnlyOverWords, Here
<1> QED  BY <1>1, <1>2, <1>3, ToldStep, HttpInvariant, PTL DEF HttpSpec
=============================================================================
