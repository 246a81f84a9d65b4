------------------------------ MODULE JsonRpc ------------------------------
(***************************************************************************)
(* JSON-RPC messages (src/protocol/jsonrpc.rs) and what handle_message of   *)
(* the router gives back to a transport for each of them.                   *)
(*                                                                         *)
(* A JSON value is kept as the fields parse_single looks at.  `names` says *)
(* whether a text that an error about it would quote (its method, its tool, *)
(* its parameters, an upstream's reply to it) has the word "notification":  *)
(* the transports look for that word in error texts.                       *)
(***************************************************************************)
EXTENDS Naturals, Sequences

CONSTANTS
  Ids,          \* strings and integers used as request ids
  NullId,       \* the id `null`, RequestId::Null
  BadId,        \* any other JSON value as id
  NoId,         \* no id
  Methods,      \* method names
  NoMethod,     \* no method
  BadMethod     \* a method that is not a string

ASSUME JsonRpcAssumption ==
  /\ {NullId, BadId, NoId} \cap Ids = {}
  /\ NullId # BadId /\ NullId # NoId /\ BadId # NoId
  /\ {NoMethod, BadMethod} \cap Methods = {} /\ NoMethod # BadMethod

RawItem ==
  [object : BOOLEAN, version : BOOLEAN, id : Ids \union {NullId, BadId, NoId},
   method : Methods \union {NoMethod, BadMethod}, result : BOOLEAN,
   error : {"none", "object", "malformed"}, names : BOOLEAN]

(* What arrives: bytes that are no UTF-8, text that is no JSON, one JSON    *)
(* value, or an array of them.                                              *)
Body == [form : {"bytes", "text", "value", "array"}, items : Seq(RawItem)]

Message ==
  [kind : {"Request", "Notification", "Success", "Error"}, id : Ids \union {NullId, NoId},
   method : Methods \union {NoMethod}, names : BOOLEAN]

-----------------------------------------------------------------------------
(* parse_single *)
IsCall(raw) == raw.method # NoMethod /\ ~raw.result /\ raw.error = "none"
IsAnswer(raw) == ~IsCall(raw) /\ (raw.result \/ raw.error # "none") /\ raw.id # NoId

ParsesSingle(raw) ==
  /\ raw.object /\ raw.version
  /\ \/ IsCall(raw) /\ raw.method # BadMethod /\ raw.id \in Ids \union {NoId}
     \/ IsAnswer(raw) /\ raw.id \in Ids \union {NullId} /\ raw.error # "malformed"

KindOf(raw) ==
  CASE IsCall(raw) /\ raw.id = NoId  -> "Notification"
    [] IsCall(raw) /\ raw.id # NoId  -> "Request"
    [] raw.error # "none"            -> "Error"
    [] OTHER                         -> "Success"

Parsed(raw) ==
  [kind |-> KindOf(raw), id |-> raw.id, names |-> raw.names,
   method |-> IF IsCall(raw) THEN raw.method ELSE NoMethod]

(* parse: an empty array is an error, and so is one item that does not     *)
(* parse.                                                                  *)
Parses(body) ==
  /\ body.form \in {"value", "array"}
  /\ body.items # <<>>
  /\ \A i \in DOMAIN body.items : ParsesSingle(body.items[i])

Messages(body) == [i \in DOMAIN body.items |-> Parsed(body.items[i])]

(* is_notification and method: a batch is no notification and has no       *)
(* method.                                                                 *)
IsNotification(body) == body.form = "value" /\ Messages(body)[1].kind = "Notification"
MethodOf(body) == IF body.form = "value" THEN Messages(body)[1].method ELSE NoMethod

-----------------------------------------------------------------------------
(* What handle_message returns.  It looks at the first message of a batch   *)
(* only.  A failure says "notification" if the router wrote the word into   *)
(* its text itself or the text quotes a name that has it.                   *)
Failure(says) == [ok |-> FALSE, id |-> NullId, says |-> says]
Answer(id) == [ok |-> TRUE, id |-> id, says |-> FALSE]

(* Requests the gateway answers itself: the reply has the request's id.     *)
AnsweredHere == {"initialize", "ping", "tools/list", "shutdown"}

(* The notifications whose error text has the word in lower case.           *)
SpelledOut == {"notifications/initialized", "notifications/exited"}

ResultsOfRequest(m) ==
  IF m.method = "notifications/initialized" THEN {Failure(TRUE), Failure(FALSE)}
  ELSE {Answer(m.id), Failure(FALSE)}
         \union (IF m.method \in AnsweredHere THEN {} ELSE {Answer(id) : id \in Ids \union {NullId}})
         \union (IF m.names THEN {Failure(TRUE)} ELSE {})

Results(body) ==
  LET m == Messages(body)[1] IN
  CASE m.kind = "Request"      -> ResultsOfRequest(m)
    [] m.kind = "Notification" -> {Failure(m.method \in SpelledOut)}
    [] OTHER                   -> {Failure(TRUE)}
=============================================================================
