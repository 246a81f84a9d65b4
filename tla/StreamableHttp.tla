--------------------------- MODULE StreamableHttp ---------------------------
(***************************************************************************)
(* The streamable HTTP transport (src/transport/streamable_http.rs): POST   *)
(* and DELETE on /mcp, any number at once, over one map of sessions.        *)
(*                                                                         *)
(* A POST looks its session up, gives the map's lock back, awaits the       *)
(* router, and takes the lock again to open a session or to mark one: each  *)
(* of the three is an action.  created_at and last_activity are written and *)
(* never read, and left out.                                                *)
(***************************************************************************)
EXTENDS JsonRpc

CONSTANTS
  Calls,        \* HTTP requests
  Bodies,       \* what clients POST
  Keys,         \* session ids Uuid::new_v4 may draw; none is drawn twice
  StrangeKey,   \* a session id that was never drawn
  NoKey         \* no Mcp-Session-Id header

ASSUME HttpAssumption ==
  /\ Bodies \subseteq Body
  /\ NoKey # StrangeKey /\ {NoKey, StrangeKey} \cap Keys = {}
  /\ "initialize" # NoMethod

VARIABLES
  open,         \* the keys of `sessions`
  initialized,  \* those of them whose `initialized` is set
  drawn,        \* history: every id that was generated
  pc,           \* where a call waits
  body, header, \* what the call brought
  status,       \* the HTTP status of its response, 0 while there is none
  reply,        \* the JSON-RPC id in the response's body
  key           \* the session id in the response's header

httpVars == <<open, initialized, drawn, pc, body, header, status, reply, key>>

NoBody == [form |-> "bytes", items |-> <<>>]

HttpInit ==
  /\ open = {} /\ initialized = {} /\ drawn = {}
  /\ pc = [c \in Calls |-> "idle"]
  /\ body = [c \in Calls |-> NoBody]
  /\ header = [c \in Calls |-> NoKey]
  /\ status = [c \in Calls |-> 0]
  /\ reply = [c \in Calls |-> NoId]
  /\ key = [c \in Calls |-> NoKey]

(* The response of a handler that returns; `id` is NoId for a response     *)
(* whose body is no JSON-RPC message with an id.                           *)
Respond(c, code, id) ==
  /\ pc' = [pc EXCEPT ![c] = "answered"]
  /\ status' = [status EXCEPT ![c] = code]
  /\ reply' = [reply EXCEPT ![c] = id]

(* handle_mcp_post up to the router.  A body that cannot be parsed is       *)
(* answered before the session is looked at.                                *)
Post(c, b, k) ==
  /\ pc[c] = "idle"
  /\ body' = [body EXCEPT ![c] = b]
  /\ header' = [header EXCEPT ![c] = k]
  /\ \/ b.form = "bytes" /\ Respond(c, 400, NoId)
     \/ b.form # "bytes" /\ ~Parses(b) /\ Respond(c, 200, NullId)
     \/ Parses(b) /\ k \notin open \union {NoKey} /\ Respond(c, 404, NoId)
     \/ Parses(b) /\ k \in open \union {NoKey}
        /\ pc' = [pc EXCEPT ![c] = "routing"] /\ UNCHANGED <<status, reply>>
  /\ UNCHANGED <<open, initialized, drawn, key>>

IsInitialize(c) == MethodOf(body[c]) = "initialize"

(* Slip: the session is opened whatever the router said. *)
RouterReturnsAlwaysOpening(c) ==
  /\ pc[c] = "routing"
  /\ \E result \in Results(body[c]) :
       \/ ~IsInitialize(c) /\ Respond(c, 200, result.id)
       \/ /\ IsInitialize(c)
          /\ pc' = [pc EXCEPT ![c] = "opening"]
          /\ reply' = [reply EXCEPT ![c] = IF result.ok THEN result.id ELSE NullId]
          /\ UNCHANGED status
  /\ UNCHANGED <<open, initialized, drawn, body, header, key>>

(* handle_message returns.  A failure that says "notification" is taken    *)
(* for the answer to one and gets no body; any other failure gets an error *)
(* without the request's id.                                               *)
RouterReturns(c) ==
  /\ pc[c] = "routing"
  /\ \E result \in Results(body[c]) :
       \/ ~result.ok /\ result.says /\ Respond(c, 202, NoId)
       \/ ~result.ok /\ ~result.says /\ Respond(c, 200, NullId)
       \/ /\ result.ok /\ ~IsInitialize(c) /\ header[c] = NoKey
          /\ Respond(c, 200, result.id)
       \/ /\ result.ok /\ (IsInitialize(c) \/ header[c] # NoKey)
          /\ pc' = [pc EXCEPT ![c] = IF IsInitialize(c) THEN "opening" ELSE "marking"]
          /\ reply' = [reply EXCEPT ![c] = result.id]
          /\ UNCHANGED status
  /\ UNCHANGED <<open, initialized, drawn, body, header, key>>

(* An initialize that succeeded: a new session, its id in the header.       *)
OpenSession(c) ==
  /\ pc[c] = "opening"
  /\ \E k \in Keys \ drawn :
       /\ drawn' = drawn \union {k}
       /\ open' = open \union {k}
       /\ key' = [key EXCEPT ![c] = k]
  /\ Respond(c, 200, reply[c])
  /\ UNCHANGED <<initialized, body, header>>

(* Slip: the mark is entered into the map instead of looked up there.       *)
MarkSessionInserting(c) ==
  /\ pc[c] = "marking"
  /\ open' = open \union {header[c]}
  /\ initialized' = initialized \union {header[c]}
  /\ Respond(c, 200, reply[c])
  /\ UNCHANGED <<drawn, body, header, key>>

(* Slip: the mark is set without looking whether the session is there.      *)
MarkSessionUnchecked(c) ==
  /\ pc[c] = "marking"
  /\ initialized' = initialized \union {header[c]}
  /\ Respond(c, 200, reply[c])
  /\ UNCHANGED <<open, drawn, body, header, key>>

(* Slip: a call whose session is gone gets no response.                     *)
MarkSessionOpenOnly(c) ==
  /\ pc[c] = "marking" /\ header[c] \in open
  /\ initialized' = initialized \union {header[c]}
  /\ Respond(c, 200, reply[c])
  /\ UNCHANGED <<open, drawn, body, header, key>>

(* Any other success marks the session, if it is still there.               *)
MarkSession(c) ==
  /\ pc[c] = "marking"
  /\ initialized' = initialized \union ({header[c]} \cap open)
  /\ Respond(c, 200, reply[c])
  /\ UNCHANGED <<open, drawn, body, header, key>>

(* handle_mcp_delete *)
Delete(c, k) ==
  /\ pc[c] = "idle"
  /\ header' = [header EXCEPT ![c] = k]
  /\ open' = open \ {k}
  /\ initialized' = initialized \ {k}
  /\ Respond(c, IF k \in open THEN 200 ELSE 404, NoId)
  /\ UNCHANGED <<drawn, body, key>>

(* The connection closes and the handler is dropped at its await.           *)
Hangup(c) ==
  /\ pc[c] \in {"routing", "opening", "marking"}
  /\ pc' = [pc EXCEPT ![c] = "gone"]
  /\ UNCHANGED <<open, initialized, drawn, body, header, status, reply, key>>

Proceed(c) == RouterReturns(c) \/ OpenSession(c) \/ MarkSession(c)

HttpNext ==
  \E c \in Calls :
    \/ \E b \in Bodies, k \in drawn \union {StrangeKey, NoKey} : Post(c, b, k)
    \/ \E k \in drawn \union {StrangeKey, NoKey} : Delete(c, k)
    \/ Proceed(c)
    \/ Hangup(c)

(* Tokio polls every ready handler, the map's lock is fair and never held   *)
(* across another await, and the router settles every message (McpRouter,   *)
(* EveryMessageSettles).  Nothing makes clients act.                        *)
HttpSpec == HttpInit /\ [][HttpNext]_httpVars /\ \A c \in Calls : WF_httpVars(Proceed(c))

-----------------------------------------------------------------------------
(* Types of the transport's state. *)
HttpTypeOK ==
  /\ open \subseteq drawn /\ initialized \subseteq open /\ drawn \subseteq Keys
  /\ pc \in [Calls -> {"idle", "routing", "opening", "marking", "answered", "gone"}]
  /\ body \in [Calls -> Bodies \union {NoBody}]
  /\ header \in [Calls -> Keys \union {StrangeKey, NoKey}]
  /\ status \in [Calls -> {0, 200, 202, 400, 404}]
  /\ reply \in [Calls -> Ids \union {NullId, NoId}]
  /\ key \in [Calls -> Keys \union {NoKey}]

(* A session goes through its life once: it is opened with an id that was   *)
(* never in use, marked only while it is open, and stays terminated, so     *)
(* that no call that looked it up before it was deleted brings it back when *)
(* it marks it, and a client that was told 404 may forget it; and no call   *)
(* touches two sessions at once.  (handle_mcp_delete against the second     *)
(* half of handle_mcp_post)                                                 *)
LifeOf(k) ==
  CASE k \in initialized                -> "initialized"
    [] k \in open \ initialized         -> "open"
    [] k \in drawn \ (open \union initialized) -> "terminated"
    [] OTHER                            -> "unopened"

LifeCycle == INSTANCE SessionLifeCycle WITH life <- [k \in Keys |-> LifeOf(k)]

ImplementsLifeCycle == LifeCycle!Spec

(* Every session is one client's: its id was handed out in exactly one      *)
(* response, a success of an initialize.  (the `is_initialize` branch)      *)
SessionsComeFromInitialize ==
  \A k \in drawn : \E c \in Calls :
    /\ key[c] = k /\ IsInitialize(c) /\ Messages(body[c])[1].id = reply[c]
    /\ \A d \in Calls \ {c} : key[d] # k

(* Every POST is answered unless its client hangs up. *)
EveryPostAnswered ==
  \A c \in Calls : pc[c] = "routing" ~> pc[c] \in {"answered", "gone"}

-----------------------------------------------------------------------------
(* What a comment says and the code does not do.                            *)

(* "A request expects a response." (jsonrpc.rs)  An answered POST of one    *)
(* request has a response body.                                             *)
Requesting(c) == Parses(body[c]) /\ body[c].form = "value" /\ Messages(body[c])[1].kind = "Request"

RequestsGetResponses ==
  \A c \in Calls : (pc[c] = "answered" /\ Requesting(c)) => status[c] # 202
=============================================================================
