--------------------------- MODULE McpRouterProofs ---------------------------
(***************************************************************************)
(* What a call that leaves the gateway has behind it, proved for any       *)
(* number of messages, servers, tools, schemas and sessions.               *)
(*                                                                         *)
(* That a call passed its gates is not inductive: nothing in the state of  *)
(* a call that was sent says how it got there.  The invariant says of      *)
(* every stage what the message has passed when it waits there, and that   *)
(* the cloned entry is one the name had since the message arrived.         *)
(***************************************************************************)
EXTENDS McpRouter, ToolRegistryProofs, TLAPS

-----------------------------------------------------------------------------
(* The router. *)
PastRouting == Stages \ {"routing", "settled"}
PastPolicy == PastRouting \ {"policy"}
InToolCall == {"lookup", "validate", "constrain", "session", "log"}
BeforeUpstream == {"idle", "routing", "policy", "list", "default", "send"} \union InToolCall

(* A tool call that is about to leave, or has left. *)
Leaving(r) == (pc[r] = "send" \/ Sent(r)) /\ IsToolCall(r)

AtScope(r) ==
  (pc[r] \in PastRouting \/ Sent(r)) =>
    IsRequest(r) /\ KnownMethod(Msg(r).method) /\ CheckMethod(Msg(r).enforcer, Msg(r).method)

AtPolicy(r) ==
  (Has("authorizer") /\ (pc[r] \in PastPolicy \/ Sent(r))) =>
    \E p \in Principals(Msg(r).enforcer) : PolicyVerdict(p, Msg(r)) = "allow"

AtMethod(r) ==
  /\ pc[r] \in InToolCall => IsToolCall(r)
  /\ pc[r] \in {"list", "default"} => ~IsToolCall(r)

AtLookup(r) ==
  (pc[r] \in InToolCall \ {"lookup"} \/ Leaving(r)) =>
    CheckToolAccess(Msg(r).enforcer, Msg(r).tool) /\ entry[r] \in current[r]

AtValidation(r) ==
  (pc[r] \in {"constrain", "session", "log"} \/ Leaving(r)) =>
    (Msg(r).args # NullArgs => <<Msg(r).args, entry[r].schema>> \in Conforms)

AtConstraints(r) ==
  (pc[r] \in {"session", "log"} \/ Leaving(r)) =>
    (Has("ecpa") => <<Msg(r).tool, Msg(r).args>> \in EcpaSatisfied)

AtSession(r) == (Has("sessions") /\ (pc[r] = "log" \/ Leaving(r))) => ~shut[r]

AtForward(r) ==
  /\ pc[r] \in BeforeUpstream => ~Sent(r)
  /\ Leaving(r) /\ Sent(r) => sent[r] = entry[r].server

(* The histories: the entry the name has now is one it had since arrival,   *)
(* and a call that was shut out all the time is shut out now.               *)
History(r) ==
  InProgress(r) =>
    /\ inbound[r].items # <<>> => EntriesNow(Msg(r)) \subseteq current[r]
    /\ shut[r] => inbound[r].items # <<>> /\ RefusedNow(Msg(r), Sid(r))

RequestInv(r) ==
  /\ AtScope(r) /\ AtPolicy(r) /\ AtMethod(r) /\ AtLookup(r) /\ AtValidation(r)
  /\ AtConstraints(r) /\ AtSession(r) /\ AtForward(r) /\ History(r)

RouterInv == RouterTypeOK /\ RegistryInv /\ \A r \in Requests : RequestInv(r)

-----------------------------------------------------------------------------
(* What is read off a message and the state around it stays the same when  *)
(* the message and that state do.                                          *)
LEMMA SameMessage ==
  ASSUME NEW r \in Requests, inbound'[r] = inbound[r]
  PROVE  /\ Msg(r)' = Msg(r) /\ Sid(r)' = Sid(r)
         /\ IsRequest(r)' = IsRequest(r) /\ IsToolCall(r)' = IsToolCall(r)
         /\ tools' = tools => EntriesNow(Msg(r))' = EntriesNow(Msg(r))
         /\ sessions' = sessions => RefusedNow(Msg(r), Sid(r))' = RefusedNow(Msg(r), Sid(r))
<1>1. Msg(r)' = Msg(r) /\ Sid(r)' = Sid(r)
  BY DEF Msg, Sid
<1>2. IsRequest(r)' = IsRequest(r) /\ IsToolCall(r)' = IsToolCall(r)
  BY <1>1 DEF IsRequest, IsToolCall
<1>3. tools' = tools => EntriesNow(Msg(r))' = EntriesNow(Msg(r))
  BY <1>1 DEF EntriesNow, LookupHits
<1>4. sessions' = sessions => RefusedNow(Msg(r), Sid(r))' = RefusedNow(Msg(r), Sid(r))
  BY <1>1 DEF RefusedNow, Live
<1> QED  BY <1>1, <1>2, <1>3, <1>4

(* The history of a message that is still in progress holds on.            *)
LEMMA SameHistory ==
  ASSUME NEW r \in Requests, History(r), InProgress(r)' => InProgress(r), inbound'[r] = inbound[r],
         current'[r] = current[r], shut'[r] = shut[r], tools' = tools,
         RefusedNow(Msg(r), Sid(r)) => RefusedNow(Msg(r), Sid(r))'
  PROVE  History(r)'
<1>1. Msg(r)' = Msg(r) /\ EntriesNow(Msg(r))' = EntriesNow(Msg(r))
  BY SameMessage
<1> QED  BY <1>1 DEF History

(* What an untouched message has passed stays passed, whoever logs a call  *)
(* meanwhile.                                                              *)
LEMMA Untouching ==
  ASSUME NEW r \in Requests, RequestInv(r), tools' = tools,
         RefusedNow(Msg(r), Sid(r)) => RefusedNow(Msg(r), Sid(r))',
         pc'[r] = pc[r], inbound'[r] = inbound[r], entry'[r] = entry[r], sent'[r] = sent[r],
         current'[r] = current[r], shut'[r] = shut[r]
  PROVE  RequestInv(r)'
<1>1. /\ Msg(r)' = Msg(r) /\ IsRequest(r)' = IsRequest(r) /\ IsToolCall(r)' = IsToolCall(r)
  BY SameMessage
<1>2. Sent(r)' = Sent(r) /\ InProgress(r)' = InProgress(r)
  BY DEF Sent, InProgress
<1>3. Leaving(r)' = Leaving(r)
  BY <1>1, <1>2 DEF Leaving
<1>4. AtScope(r)' /\ AtPolicy(r)'
  BY <1>1, <1>2 DEF RequestInv, AtScope, AtPolicy
<1>5. AtMethod(r)' /\ AtLookup(r)' /\ AtValidation(r)' /\ AtConstraints(r)'
  BY <1>1, <1>3 DEF RequestInv, AtMethod, AtLookup, AtValidation, AtConstraints
<1>6. AtSession(r)' /\ AtForward(r)'
  BY <1>2, <1>3 DEF RequestInv, AtSession, AtForward
<1>7. History(r)'
  BY <1>2, SameHistory DEF RequestInv
<1> QED  BY <1>4, <1>5, <1>6, <1>7 DEF RequestInv

(* A message that is over, or dropped, has passed what it had passed.      *)
LEMMA Ending ==
  ASSUME NEW r \in Requests, RequestInv(r), InProgress(r), pc'[r] \in {"settled", "answered", "gone"},
         tools' = tools, sessions' = sessions, inbound'[r] = inbound[r], entry'[r] = entry[r],
         sent'[r] = sent[r], current'[r] = current[r], shut'[r] = shut[r]
  PROVE  RequestInv(r)'
<1>1. /\ Msg(r)' = Msg(r) /\ IsRequest(r)' = IsRequest(r) /\ IsToolCall(r)' = IsToolCall(r)
  BY SameMessage
<1>2. Sent(r)' = Sent(r)
  BY DEF Sent
<1>3. /\ Leaving(r)' => Leaving(r) /\ Sent(r)
      /\ pc'[r] \notin PastRouting \union PastPolicy \union InToolCall \union BeforeUpstream \union {"send", "list", "default"}
  BY <1>1, <1>2 DEF Leaving, PastRouting, PastPolicy, InToolCall, BeforeUpstream, Stages
<1>4. AtScope(r)' /\ AtPolicy(r)'
  BY <1>1, <1>2, <1>3 DEF RequestInv, AtScope, AtPolicy
<1>5. AtMethod(r)' /\ AtLookup(r)' /\ AtValidation(r)' /\ AtConstraints(r)'
  BY <1>1, <1>3 DEF RequestInv, AtMethod, AtLookup, AtValidation, AtConstraints, InToolCall
<1>6. AtSession(r)' /\ AtForward(r)'
  BY <1>2, <1>3 DEF RequestInv, AtSession, AtForward, InToolCall
<1>7. History(r)'
  <2>1. RefusedNow(Msg(r), Sid(r))' = RefusedNow(Msg(r), Sid(r))
    BY SameMessage
  <2> QED  BY <2>1, SameHistory DEF RequestInv
<1> QED  BY <1>4, <1>5, <1>6, <1>7 DEF RequestInv

(* What a message that goes on to a stage before the upstream call must    *)
(* have behind it.                                                         *)
LEMMA Passing ==
  ASSUME NEW r \in Requests, RequestInv(r), InProgress(r), ~Sent(r),
         NEW stage \in PastRouting \ {"upstream", "inspect"}, pc'[r] = stage,
         tools' = tools, RefusedNow(Msg(r), Sid(r)) => RefusedNow(Msg(r), Sid(r))',
         inbound'[r] = inbound[r], sent'[r] = sent[r], current'[r] = current[r], shut'[r] = shut[r],
         IsRequest(r), KnownMethod(Msg(r).method), CheckMethod(Msg(r).enforcer, Msg(r).method),
         (Has("authorizer") /\ stage # "policy") =>
           \E p \in Principals(Msg(r).enforcer) : PolicyVerdict(p, Msg(r)) = "allow",
         stage \in InToolCall => IsToolCall(r),
         stage \in {"list", "default"} => ~IsToolCall(r),
         (stage \in {"validate", "constrain", "session", "log", "send"} /\ IsToolCall(r)) =>
           CheckToolAccess(Msg(r).enforcer, Msg(r).tool) /\ entry'[r] \in current[r],
         (stage \in {"constrain", "session", "log", "send"} /\ IsToolCall(r)) =>
           (Msg(r).args # NullArgs => <<Msg(r).args, entry'[r].schema>> \in Conforms),
         (stage \in {"session", "log", "send"} /\ IsToolCall(r)) =>
           (Has("ecpa") => <<Msg(r).tool, Msg(r).args>> \in EcpaSatisfied),
         (stage \in {"log", "send"} /\ IsToolCall(r) /\ Has("sessions")) => ~shut[r]
  PROVE  RequestInv(r)'
<1>1. /\ Msg(r)' = Msg(r) /\ IsRequest(r)' = IsRequest(r) /\ IsToolCall(r)' = IsToolCall(r)
  BY SameMessage
<1>2. Sent(r)' = Sent(r) /\ ~Sent(r)'
  BY DEF Sent
<1>3. Leaving(r)' <=> (stage = "send" /\ IsToolCall(r))
  BY <1>1, <1>2 DEF Leaving
<1>4. AtScope(r)'
  BY <1>1 DEF AtScope
<1>5. AtPolicy(r)'
  BY <1>1, <1>2 DEF AtPolicy, PastPolicy
<1>6. AtMethod(r)'
  BY <1>1 DEF AtMethod
<1>7. AtLookup(r)'
  BY <1>1, <1>3 DEF AtLookup, InToolCall
<1>8. AtValidation(r)'
  BY <1>1, <1>3 DEF AtValidation, InToolCall
<1>9. AtConstraints(r)'
  BY <1>1, <1>3 DEF AtConstraints, InToolCall
<1>10. AtSession(r)'
  BY <1>1, <1>3 DEF AtSession, InToolCall
<1>11. AtForward(r)'
  BY <1>2 DEF AtForward
<1>12. History(r)'
  <2>1. InProgress(r)
    OBVIOUS
  <2> QED  BY <2>1, SameHistory DEF RequestInv
<1> QED  BY <1>4, <1>5, <1>6, <1>7, <1>8, <1>9, <1>10, <1>11, <1>12 DEF RequestInv

LEMMA Moved ==
  ASSUME RouterTypeOK, NEW r \in Requests
  PROVE  /\ \A stage : Goto(r, stage) => pc'[r] = stage
         /\ \A result : Finish(r, result) => pc'[r] = "settled"
BY DEF RouterTypeOK, Goto, Finish

(* handle_request's match on the method sends a message on with its gates  *)
(* behind it.                                                              *)
LEMMA Dispatching ==
  ASSUME RouterTypeOK, NEW r \in Requests, RequestInv(r), pc[r] \in {"routing", "policy"},
         IsRequest(r), KnownMethod(Msg(r).method), CheckMethod(Msg(r).enforcer, Msg(r).method),
         Has("authorizer") => \E p \in Principals(Msg(r).enforcer) : PolicyVerdict(p, Msg(r)) = "allow",
         Dispatch(r), Untouched, UNCHANGED <<sessionVars, entry, reply, sent, audits>>
  PROVE  RequestInv(r)'
<1>1. /\ tools' = tools /\ sessions' = sessions /\ inbound' = inbound /\ entry' = entry /\ sent' = sent
      /\ current' = current /\ shut' = shut
  BY DEF Untouched, registryVars, sessionVars
<1>2. InProgress(r) /\ ~Sent(r)
  BY DEF InProgress, Stages, RequestInv, AtForward, BeforeUpstream
<1>3. RefusedNow(Msg(r), Sid(r))' = RefusedNow(Msg(r), Sid(r))
  BY <1>1, SameMessage
<1>4. \/ \E result : Finish(r, result)
      \/ Goto(r, "list") /\ Msg(r).method = "tools/list"
      \/ Goto(r, "lookup") /\ Msg(r).method = "tools/call"
      \/ Goto(r, "default") /\ Msg(r).method # "tools/call"
  BY DEF Dispatch
<1>5. CASE \E result : Finish(r, result)
  <2>1. pc'[r] = "settled"
    BY <1>5, Moved
  <2> QED  BY <1>1, <1>2, <2>1, Ending
<1>6. CASE Goto(r, "list") /\ Msg(r).method = "tools/list"
  <2>1. pc'[r] = "list" /\ ~IsToolCall(r)
    BY <1>6, Moved DEF IsToolCall
  <2> QED  BY <1>1, <1>2, <1>3, <2>1, Passing DEF PastRouting, Stages, InToolCall
<1>7. CASE Goto(r, "lookup") /\ Msg(r).method = "tools/call"
  <2>1. pc'[r] = "lookup" /\ IsToolCall(r)
    BY <1>7, Moved DEF IsToolCall
  <2> QED  BY <1>1, <1>2, <1>3, <2>1, Passing DEF PastRouting, Stages, InToolCall
<1>8. CASE Goto(r, "default") /\ Msg(r).method # "tools/call"
  <2>1. pc'[r] = "default" /\ ~IsToolCall(r)
    BY <1>8, Moved DEF IsToolCall
  <2> QED  BY <1>1, <1>2, <1>3, <2>1, Passing DEF PastRouting, Stages, InToolCall
<1> QED  BY <1>4, <1>5, <1>6, <1>7, <1>8

LEMMA RouteInv ==
  ASSUME RouterTypeOK, NEW r \in Requests, RequestInv(r), Route(r)
  PROVE  RequestInv(r)'
<1>1. /\ tools' = tools /\ sessions' = sessions /\ inbound' = inbound /\ entry' = entry /\ sent' = sent
      /\ current' = current /\ shut' = shut
  BY DEF Route, Untouched, registryVars, sessionVars
<1>2. pc[r] = "routing" /\ InProgress(r) /\ ~Sent(r)
  BY DEF Route, InProgress, Stages, RequestInv, AtForward, BeforeUpstream
<1>3. \/ \E result : Finish(r, result)
      \/ /\ IsRequest(r) /\ KnownMethod(Msg(r).method) /\ CheckMethod(Msg(r).enforcer, Msg(r).method)
         /\ \/ Has("authorizer") /\ Goto(r, "policy")
            \/ ~Has("authorizer") /\ Dispatch(r)
  BY DEF Route
<1>4. CASE \E result : Finish(r, result)
  <2>1. pc'[r] = "settled"
    BY <1>4, Moved
  <2> QED  BY <1>1, <1>2, <2>1, Ending
<1>5. CASE /\ IsRequest(r) /\ KnownMethod(Msg(r).method) /\ CheckMethod(Msg(r).enforcer, Msg(r).method)
           /\ Has("authorizer") /\ Goto(r, "policy")
  <2>1. pc'[r] = "policy"
    BY <1>5, Moved
  <2>2. RefusedNow(Msg(r), Sid(r))' = RefusedNow(Msg(r), Sid(r))
    BY <1>1, SameMessage
  <2> QED  BY <1>1, <1>2, <1>5, <2>1, <2>2, Passing DEF PastRouting, Stages, InToolCall
<1>6. CASE /\ IsRequest(r) /\ KnownMethod(Msg(r).method) /\ CheckMethod(Msg(r).enforcer, Msg(r).method)
           /\ ~Has("authorizer") /\ Dispatch(r)
  BY <1>2, <1>6, Dispatching DEF Route
<1> QED  BY <1>3, <1>4, <1>5, <1>6

LEMMA EvaluatePolicyInv ==
  ASSUME RouterTypeOK, NEW r \in Requests, RequestInv(r), EvaluatePolicy(r)
  PROVE  RequestInv(r)'
<1>1. /\ tools' = tools /\ sessions' = sessions /\ inbound' = inbound /\ entry' = entry /\ sent' = sent
      /\ current' = current /\ shut' = shut
  BY DEF EvaluatePolicy, Untouched, registryVars, sessionVars
<1>2. pc[r] = "policy" /\ InProgress(r)
  BY DEF EvaluatePolicy, InProgress, Stages
<1>3. IsRequest(r) /\ KnownMethod(Msg(r).method) /\ CheckMethod(Msg(r).enforcer, Msg(r).method)
  BY <1>2 DEF RequestInv, AtScope, PastRouting, Stages
<1>4. \/ \E result : Finish(r, result)
      \/ Dispatch(r) /\ \E p \in Principals(Msg(r).enforcer) : PolicyVerdict(p, Msg(r)) = "allow"
  BY DEF EvaluatePolicy
<1>5. CASE \E result : Finish(r, result)
  <2>1. pc'[r] = "settled"
    BY <1>5, Moved
  <2> QED  BY <1>1, <1>2, <2>1, Ending
<1>6. CASE Dispatch(r) /\ \E p \in Principals(Msg(r).enforcer) : PolicyVerdict(p, Msg(r)) = "allow"
  BY <1>2, <1>3, <1>6, Dispatching DEF EvaluatePolicy
<1> QED  BY <1>4, <1>5, <1>6

(* What every message past the policy has behind it. *)
LEMMA Standing ==
  ASSUME NEW r \in Requests, RequestInv(r), pc[r] \in PastPolicy
  PROVE  /\ IsRequest(r) /\ KnownMethod(Msg(r).method) /\ CheckMethod(Msg(r).enforcer, Msg(r).method)
         /\ Has("authorizer") => \E p \in Principals(Msg(r).enforcer) : PolicyVerdict(p, Msg(r)) = "allow"
         /\ InProgress(r)
         /\ pc[r] \in BeforeUpstream => ~Sent(r)
         /\ pc[r] \in InToolCall => IsToolCall(r)
BY DEF RequestInv, AtScope, AtPolicy, AtMethod, AtForward, PastPolicy, PastRouting, InProgress

(* A call without a session is never shut out. *)
LEMMA NoSessionNotShut ==
  ASSUME NEW r \in Requests, RequestInv(r), InProgress(r), Sid(r) = NoSessionId
  PROVE  ~shut[r]
<1>1. shut[r] => RefusedNow(Msg(r), Sid(r))
  BY DEF RequestInv, History
<1>2. NoSessionId \notin SessionIds
  BY RouterAssumption
<1> QED  BY <1>1, <1>2 DEF RefusedNow, Live

(* handle_tools_list and proxy_to_upstream. *)
LEMMA GenericRequestInv ==
  ASSUME RouterTypeOK, NEW r \in Requests, RequestInv(r), HandleToolsList(r) \/ ProxyToUpstream(r)
  PROVE  RequestInv(r)'
<1>1. /\ tools' = tools /\ sessions' = sessions /\ inbound' = inbound /\ entry' = entry /\ sent' = sent
      /\ current' = current /\ shut' = shut
  BY DEF HandleToolsList, ProxyToUpstream, Untouched, registryVars, sessionVars
<1>2. pc[r] \in {"list", "default"}
  BY DEF HandleToolsList, ProxyToUpstream
<1>3. pc[r] \in PastPolicy /\ pc[r] \in BeforeUpstream
  BY <1>2 DEF PastPolicy, PastRouting, Stages, BeforeUpstream
<1>4. InProgress(r) /\ ~Sent(r) /\ ~IsToolCall(r)
  BY <1>2, <1>3, Standing DEF RequestInv, AtMethod
<1>5. (\E result : Finish(r, result)) \/ Goto(r, "send")
  BY DEF HandleToolsList, ProxyToUpstream
<1>6. CASE \E result : Finish(r, result)
  <2>1. pc'[r] = "settled"
    BY <1>6, Moved
  <2> QED  BY <1>1, <1>4, <2>1, Ending
<1>7. CASE Goto(r, "send")
  <2>1. pc'[r] = "send"
    BY <1>7, Moved
  <2>2. RefusedNow(Msg(r), Sid(r))' = RefusedNow(Msg(r), Sid(r))
    BY <1>1, SameMessage
  <2> QED  BY <1>1, <1>3, <1>4, <2>1, <2>2, Standing, Passing DEF PastRouting, Stages, InToolCall
<1> QED  BY <1>5, <1>6, <1>7

(* Where a tool call goes after a gate, its further gates still ahead. *)
LEMMA AfterGates ==
  ASSUME NEW r \in Requests
  PROVE  /\ AfterConstraints(r) = "session" \/
              (AfterConstraints(r) = "send" /\ (Has("sessions") => Sid(r) = NoSessionId))
         /\ AfterValidation(r) = "constrain" \/
              (AfterValidation(r) = AfterConstraints(r) /\ ~Has("ecpa"))
         /\ AfterLookup(r) = "validate" \/ (AfterLookup(r) = AfterValidation(r) /\ Msg(r).args = NullArgs)
BY DEF AfterConstraints, AfterValidation, AfterLookup

(* A tool call that passed the gate of its stage goes on. *)
LEMMA GatePassed ==
  ASSUME RouterTypeOK, NEW r \in Requests, RequestInv(r), pc[r] \in InToolCall,
         NEW stage \in {"validate", "constrain", "session", "log", "send"}, Goto(r, stage),
         tools' = tools, RefusedNow(Msg(r), Sid(r)) => RefusedNow(Msg(r), Sid(r))',
         inbound' = inbound, sent' = sent, current' = current, shut' = shut,
         CheckToolAccess(Msg(r).enforcer, Msg(r).tool) /\ entry'[r] \in current[r],
         stage # "validate" => (Msg(r).args # NullArgs => <<Msg(r).args, entry'[r].schema>> \in Conforms),
         stage \in {"session", "log", "send"} => (Has("ecpa") => <<Msg(r).tool, Msg(r).args>> \in EcpaSatisfied),
         (stage \in {"log", "send"} /\ Has("sessions")) => ~shut[r]
  PROVE  RequestInv(r)'
<1>1. pc[r] \in PastPolicy /\ pc[r] \in BeforeUpstream
  BY DEF PastPolicy, PastRouting, Stages, BeforeUpstream, InToolCall
<1>2. /\ IsRequest(r) /\ KnownMethod(Msg(r).method) /\ CheckMethod(Msg(r).enforcer, Msg(r).method)
      /\ Has("authorizer") => \E p \in Principals(Msg(r).enforcer) : PolicyVerdict(p, Msg(r)) = "allow"
      /\ InProgress(r) /\ ~Sent(r) /\ IsToolCall(r)
  BY <1>1, Standing
<1>3. pc'[r] = stage /\ stage \in PastRouting \ {"upstream", "inspect"} /\ stage \notin {"policy", "list", "default"}
  BY Moved DEF PastRouting, Stages
<1> QED  BY <1>2, <1>3, Passing

LEMMA LookupToolInv ==
  ASSUME RouterTypeOK, NEW r \in Requests, RequestInv(r), LookupTool(r)
  PROVE  RequestInv(r)'
<1>1. /\ tools' = tools /\ sessions' = sessions /\ inbound' = inbound /\ sent' = sent
      /\ current' = current /\ shut' = shut
  BY DEF LookupTool, Untouched, registryVars, sessionVars
<1>2. pc[r] = "lookup" /\ pc[r] \in InToolCall /\ pc[r] \in PastPolicy
  BY DEF LookupTool, InToolCall, PastPolicy, PastRouting, Stages
<1>3. InProgress(r) /\ IsToolCall(r) /\ inbound[r].items # <<>>
  BY <1>2, Standing DEF IsToolCall, IsRequest
<1>4. \/ (\E result : Finish(r, result)) /\ entry' = entry
      \/ /\ Msg(r).tool # NoName /\ CheckToolAccess(Msg(r).enforcer, Msg(r).tool)
         /\ LookupAny(Msg(r).tool) = "found" /\ Goto(r, AfterLookup(r))
         /\ entry' = [entry EXCEPT ![r] = tools[Qualified(Msg(r).tool)]]
  BY DEF LookupTool
<1>5. CASE (\E result : Finish(r, result)) /\ entry' = entry
  <2>1. pc'[r] = "settled"
    BY <1>5, Moved
  <2> QED  BY <1>1, <1>3, <1>5, <2>1, Ending
<1>6. CASE /\ Msg(r).tool # NoName /\ CheckToolAccess(Msg(r).enforcer, Msg(r).tool)
           /\ LookupAny(Msg(r).tool) = "found" /\ Goto(r, AfterLookup(r))
           /\ entry' = [entry EXCEPT ![r] = tools[Qualified(Msg(r).tool)]]
  <2>1. LookupHits(Msg(r).tool)
    BY <1>6 DEF LookupAny
  <2>2. tools[Qualified(Msg(r).tool)] \in current[r]
    BY <1>3, <1>6, <2>1 DEF RequestInv, History, EntriesNow
  <2>3. entry'[r] \in current[r]
    BY <1>6, <2>2 DEF RouterTypeOK
  <2>4. RefusedNow(Msg(r), Sid(r))' = RefusedNow(Msg(r), Sid(r))
    BY <1>1, SameMessage
  <2>5. Sid(r) = NoSessionId => ~shut[r]
    BY <1>3, NoSessionNotShut
  <2>6. CASE AfterLookup(r) = "validate"
    BY <1>1, <1>2, <1>6, <2>3, <2>4, <2>6, GatePassed
  <2>7. CASE AfterLookup(r) = "constrain" /\ Msg(r).args = NullArgs
    BY <1>1, <1>2, <1>6, <2>3, <2>4, <2>7, GatePassed
  <2>8. CASE AfterLookup(r) = "session" /\ Msg(r).args = NullArgs /\ ~Has("ecpa")
    BY <1>1, <1>2, <1>6, <2>3, <2>4, <2>8, GatePassed
  <2>9. CASE AfterLookup(r) = "send" /\ Msg(r).args = NullArgs /\ ~Has("ecpa") /\ (Has("sessions") => Sid(r) = NoSessionId)
    BY <1>1, <1>2, <1>6, <2>3, <2>4, <2>5, <2>9, GatePassed
  <2> QED  BY <2>6, <2>7, <2>8, <2>9, AfterGates
<1> QED  BY <1>4, <1>5, <1>6

LEMMA ValidateArgumentsInv ==
  ASSUME RouterTypeOK, NEW r \in Requests, RequestInv(r), ValidateArguments(r)
  PROVE  RequestInv(r)'
<1>1. /\ tools' = tools /\ sessions' = sessions /\ inbound' = inbound /\ sent' = sent
      /\ current' = current /\ shut' = shut /\ entry' = entry
  BY DEF ValidateArguments, Untouched, registryVars, sessionVars
<1>2. pc[r] = "validate" /\ pc[r] \in InToolCall /\ pc[r] \in PastPolicy
  BY DEF ValidateArguments, InToolCall, PastPolicy, PastRouting, Stages
<1>3. InProgress(r) /\ CheckToolAccess(Msg(r).enforcer, Msg(r).tool) /\ entry'[r] \in current[r]
  BY <1>1, <1>2, Standing DEF RequestInv, AtLookup, InToolCall
<1>4. \/ \E result : Finish(r, result)
      \/ <<Msg(r).args, entry[r].schema>> \in Conforms /\ Goto(r, AfterValidation(r))
  BY DEF ValidateArguments
<1>5. CASE \E result : Finish(r, result)
  <2>1. pc'[r] = "settled"
    BY <1>5, Moved
  <2> QED  BY <1>1, <1>3, <2>1, Ending
<1>6. CASE <<Msg(r).args, entry[r].schema>> \in Conforms /\ Goto(r, AfterValidation(r))
  <2>1. RefusedNow(Msg(r), Sid(r))' = RefusedNow(Msg(r), Sid(r))
    BY <1>1, SameMessage
  <2>2. Sid(r) = NoSessionId => ~shut[r]
    BY <1>3, NoSessionNotShut
  <2>3. CASE AfterValidation(r) = "constrain"
    BY <1>1, <1>2, <1>3, <1>6, <2>1, <2>3, GatePassed
  <2>4. CASE AfterValidation(r) = "session" /\ ~Has("ecpa")
    BY <1>1, <1>2, <1>3, <1>6, <2>1, <2>4, GatePassed
  <2>5. CASE AfterValidation(r) = "send" /\ ~Has("ecpa") /\ (Has("sessions") => Sid(r) = NoSessionId)
    BY <1>1, <1>2, <1>3, <1>6, <2>1, <2>2, <2>5, GatePassed
  <2> QED  BY <2>3, <2>4, <2>5, AfterGates
<1> QED  BY <1>4, <1>5, <1>6

LEMMA EvaluateConstraintsInv ==
  ASSUME RouterTypeOK, NEW r \in Requests, RequestInv(r), EvaluateConstraints(r)
  PROVE  RequestInv(r)'
<1>1. /\ tools' = tools /\ sessions' = sessions /\ inbound' = inbound /\ sent' = sent
      /\ current' = current /\ shut' = shut /\ entry' = entry
  BY DEF EvaluateConstraints, Untouched, registryVars, sessionVars
<1>2. pc[r] = "constrain" /\ pc[r] \in InToolCall /\ pc[r] \in PastPolicy
  BY DEF EvaluateConstraints, InToolCall, PastPolicy, PastRouting, Stages
<1>3. /\ InProgress(r) /\ CheckToolAccess(Msg(r).enforcer, Msg(r).tool) /\ entry'[r] \in current[r]
      /\ Msg(r).args # NullArgs => <<Msg(r).args, entry'[r].schema>> \in Conforms
  BY <1>1, <1>2, Standing DEF RequestInv, AtLookup, AtValidation, InToolCall
<1>4. \/ \E result : Finish(r, result)
      \/ <<Msg(r).tool, Msg(r).args>> \in EcpaSatisfied /\ Goto(r, AfterConstraints(r))
  BY DEF EvaluateConstraints
<1>5. CASE \E result : Finish(r, result)
  <2>1. pc'[r] = "settled"
    BY <1>5, Moved
  <2> QED  BY <1>1, <1>3, <2>1, Ending
<1>6. CASE <<Msg(r).tool, Msg(r).args>> \in EcpaSatisfied /\ Goto(r, AfterConstraints(r))
  <2>1. RefusedNow(Msg(r), Sid(r))' = RefusedNow(Msg(r), Sid(r))
    BY <1>1, SameMessage
  <2>2. Sid(r) = NoSessionId => ~shut[r]
    BY <1>3, NoSessionNotShut
  <2>3. CASE AfterConstraints(r) = "session"
    BY <1>1, <1>2, <1>3, <1>6, <2>1, <2>3, GatePassed
  <2>4. CASE AfterConstraints(r) = "send" /\ (Has("sessions") => Sid(r) = NoSessionId)
    BY <1>1, <1>2, <1>3, <1>6, <2>1, <2>2, <2>4, GatePassed
  <2> QED  BY <2>3, <2>4, AfterGates
<1> QED  BY <1>4, <1>5, <1>6

LEMMA CheckSessionInv ==
  ASSUME RouterTypeOK, NEW r \in Requests, RequestInv(r), CheckSession(r)
  PROVE  RequestInv(r)'
<1>1. /\ tools' = tools /\ sessions' = sessions /\ inbound' = inbound /\ sent' = sent
      /\ current' = current /\ shut' = shut /\ entry' = entry
  BY DEF CheckSession, Untouched, registryVars, sessionVars
<1>2. pc[r] = "session" /\ pc[r] \in InToolCall /\ pc[r] \in PastPolicy
  BY DEF CheckSession, InToolCall, PastPolicy, PastRouting, Stages
<1>3. /\ InProgress(r) /\ CheckToolAccess(Msg(r).enforcer, Msg(r).tool) /\ entry'[r] \in current[r]
      /\ Msg(r).args # NullArgs => <<Msg(r).args, entry'[r].schema>> \in Conforms
      /\ Has("ecpa") => <<Msg(r).tool, Msg(r).args>> \in EcpaSatisfied
  BY <1>1, <1>2, Standing DEF RequestInv, AtLookup, AtValidation, AtConstraints, InToolCall
<1>4. \/ \E result : Finish(r, result)
      \/ CheckContextAccess(Sid(r), PrivateContext(Msg(r).tool)) # "Deny" /\ Goto(r, "log")
  BY DEF CheckSession
<1>5. CASE \E result : Finish(r, result)
  <2>1. pc'[r] = "settled"
    BY <1>5, Moved
  <2> QED  BY <1>1, <1>3, <2>1, Ending
<1>6. CASE CheckContextAccess(Sid(r), PrivateContext(Msg(r).tool)) # "Deny" /\ Goto(r, "log")
  <2>1. RefusedNow(Msg(r), Sid(r))' = RefusedNow(Msg(r), Sid(r))
    BY <1>1, SameMessage
  <2>2. ~RefusedNow(Msg(r), Sid(r))
    BY <1>6 DEF RefusedNow, CheckContextAccess
  <2>3. ~shut[r]
    BY <1>3, <2>2 DEF RequestInv, History
  <2> QED  BY <1>1, <1>2, <1>3, <1>6, <2>1, <2>3, GatePassed
<1> QED  BY <1>4, <1>5, <1>6

(* Logging a call keeps every lock and every type. *)
LEMMA LoggingKeepsLocks ==
  ASSUME SessionTypeOK, NEW s, NEW record \in CallRecords, LogToolCall(s, record)
  PROVE  /\ SessionTypeOK'
         /\ \A t \in SessionIds : /\ Live(t) => Live(t)'
                                  /\ Live(t) => sessions'[t].locked = sessions[t].locked
<1>1. s \in SessionIds /\ sessions[s] \in Session
  BY DEF LogToolCall, Live, SessionTypeOK
<1> DEFINE u == [sessions[s] EXCEPT !.calls = Append(@, record)]
<1>2. u \in Session /\ u.locked = sessions[s].locked
  BY <1>1 DEF Session
<1>3. u # NoSession
  BY <1>2, SessionAssumption
<1>4. sessions' = [sessions EXCEPT ![s] = u] /\ issued' = issued
  BY DEF LogToolCall
<1> HIDE DEF u
<1>5. sessions'[s] = u /\ \A t \in SessionIds \ {s} : sessions'[t] = sessions[t]
  BY <1>1, <1>4 DEF SessionTypeOK
<1>6. SessionTypeOK'
  BY <1>1, <1>2, <1>4 DEF SessionTypeOK
<1>7. \A t \in SessionIds : /\ Live(t) => Live(t)'
                            /\ Live(t) => sessions'[t].locked = sessions[t].locked
  BY <1>2, <1>3, <1>5 DEF Live
<1> QED  BY <1>6, <1>7

(* Logging a call leaves the refusals of all messages as they are. *)
LEMMA LogCallKeepsRefusals ==
  ASSUME RouterTypeOK, NEW r \in Requests, LogCall(r), NEW q \in Requests
  PROVE  RefusedNow(Msg(q), Sid(q)) => RefusedNow(Msg(q), Sid(q))'
<1>1. Msg(q)' = Msg(q) /\ Sid(q)' = Sid(q)
  <2>1. inbound'[q] = inbound[q]
    BY DEF LogCall, Untouched
  <2> QED  BY <2>1, SameMessage
<1>2. CASE UNCHANGED sessionVars
  <2>1. sessions' = sessions /\ inbound'[q] = inbound[q]
    BY <1>2 DEF LogCall, Untouched, sessionVars
  <2> QED  BY <2>1, SameMessage
<1>3. CASE LogToolCall(Sid(r), r)
  <2>1. r \in CallRecords /\ SessionTypeOK
    BY RouterAssumption DEF RouterTypeOK
  <2>2. PICK s : s = Sid(r)
    OBVIOUS
  <2>3. LogToolCall(s, r)
    BY <1>3, <2>2 DEF LogToolCall, Live
  <2>4. \A t \in SessionIds : (Live(t) => Live(t)') /\ (Live(t) => sessions'[t].locked = sessions[t].locked)
    BY <2>1, <2>3, LoggingKeepsLocks
  <2>5. PICK t : t = Sid(q)
    OBVIOUS
  <2> QED  BY <1>1, <2>4, <2>5 DEF RefusedNow, Live
<1> QED  BY <1>2, <1>3 DEF LogCall

LEMMA LogCallInv ==
  ASSUME RouterTypeOK, NEW r \in Requests, RequestInv(r), LogCall(r)
  PROVE  RequestInv(r)'
<1>1. /\ tools' = tools /\ inbound' = inbound /\ sent' = sent
      /\ current' = current /\ shut' = shut /\ entry' = entry
  BY DEF LogCall, Untouched, registryVars
<1>2. pc[r] = "log" /\ pc[r] \in InToolCall /\ Goto(r, "send")
  BY DEF LogCall, InToolCall
<1>3. /\ CheckToolAccess(Msg(r).enforcer, Msg(r).tool) /\ entry'[r] \in current[r]
      /\ Msg(r).args # NullArgs => <<Msg(r).args, entry'[r].schema>> \in Conforms
      /\ Has("ecpa") => <<Msg(r).tool, Msg(r).args>> \in EcpaSatisfied
      /\ Has("sessions") => ~shut[r]
  BY <1>1, <1>2 DEF RequestInv, AtLookup, AtValidation, AtConstraints, AtSession, InToolCall
<1>4. RefusedNow(Msg(r), Sid(r)) => RefusedNow(Msg(r), Sid(r))'
  BY LogCallKeepsRefusals
<1> QED  BY <1>1, <1>2, <1>3, <1>4, GatePassed

(* A message at the upstream call or beyond keeps what it has behind it.   *)
LEMMA Upstream ==
  ASSUME NEW r \in Requests, RequestInv(r), pc[r] \in {"send", "upstream", "inspect"},
         pc'[r] \in {"upstream", "inspect"}, tools' = tools, sessions' = sessions,
         inbound'[r] = inbound[r], current'[r] = current[r], shut'[r] = shut[r], entry'[r] = entry[r],
         Sent(r)' => (pc[r] = "send" \/ Sent(r)),
         (Sent(r)' /\ IsToolCall(r)) => sent'[r] = entry[r].server
  PROVE  RequestInv(r)'
<1>1. /\ Msg(r)' = Msg(r) /\ IsRequest(r)' = IsRequest(r) /\ IsToolCall(r)' = IsToolCall(r)
      /\ RefusedNow(Msg(r), Sid(r))' = RefusedNow(Msg(r), Sid(r))
  BY SameMessage
<1>2. InProgress(r) /\ pc[r] \in PastRouting /\ pc[r] \in PastPolicy
  BY DEF InProgress, PastPolicy, PastRouting, Stages
<1>3. Leaving(r)' => Leaving(r)
  BY <1>1 DEF Leaving
<1>4. AtScope(r)' /\ AtPolicy(r)'
  BY <1>1, <1>2 DEF RequestInv, AtScope, AtPolicy
<1>5. AtMethod(r)' /\ AtLookup(r)' /\ AtValidation(r)' /\ AtConstraints(r)'
  BY <1>1, <1>3 DEF RequestInv, AtMethod, AtLookup, AtValidation, AtConstraints, InToolCall
<1>6. AtSession(r)'
  BY <1>3 DEF RequestInv, AtSession
<1>7. AtForward(r)'
  BY <1>1, <1>3 DEF AtForward, BeforeUpstream, InToolCall, Leaving
<1>8. History(r)'
  BY <1>1, <1>2, SameHistory DEF RequestInv
<1> QED  BY <1>4, <1>5, <1>6, <1>7, <1>8 DEF RequestInv

LEMMA ForwardRequestInv ==
  ASSUME RouterTypeOK, NEW r \in Requests, RequestInv(r), ForwardRequest(r)
  PROVE  RequestInv(r)'
<1>1. /\ tools' = tools /\ sessions' = sessions /\ inbound' = inbound /\ entry' = entry
      /\ current' = current /\ shut' = shut
  BY DEF ForwardRequest, Untouched, registryVars, sessionVars
<1>2. pc[r] = "send" /\ InProgress(r)
  BY DEF ForwardRequest, InProgress, Stages
<1>3. \/ Goto(r, "upstream") /\ sent' = [sent EXCEPT ![r] = TargetServer(r)]
      \/ (\E result : Finish(r, result)) /\ sent' = sent
  BY DEF ForwardRequest
<1>4. CASE Goto(r, "upstream") /\ sent' = [sent EXCEPT ![r] = TargetServer(r)]
  <2>1. pc'[r] = "upstream" /\ sent'[r] = TargetServer(r)
    BY <1>4, Moved DEF RouterTypeOK
  <2>2. IsToolCall(r) => sent'[r] = entry[r].server
    BY <2>1 DEF TargetServer
  <2> QED  BY <1>1, <1>2, <2>1, <2>2, Upstream
<1>5. CASE (\E result : Finish(r, result)) /\ sent' = sent
  <2>1. pc'[r] = "settled"
    BY <1>5, Moved
  <2> QED  BY <1>1, <1>2, <1>5, <2>1, Ending
<1> QED  BY <1>3, <1>4, <1>5

LEMMA AnswerInv ==
  ASSUME RouterTypeOK, NEW r \in Requests, RequestInv(r), UpstreamAnswers(r) \/ InspectEgress(r)
  PROVE  RequestInv(r)'
<1>1. /\ tools' = tools /\ sessions' = sessions /\ inbound' = inbound /\ entry' = entry /\ sent' = sent
      /\ current' = current /\ shut' = shut
  BY DEF UpstreamAnswers, InspectEgress, Untouched, registryVars, sessionVars
<1>2. pc[r] \in {"upstream", "inspect"} /\ InProgress(r)
  BY DEF UpstreamAnswers, InspectEgress, InProgress, Stages
<1>3. Goto(r, "inspect") \/ \E result : Finish(r, result)
  BY DEF UpstreamAnswers, InspectEgress
<1>4. CASE Goto(r, "inspect")
  <2>1. pc'[r] = "inspect" /\ Sent(r)' = Sent(r)
    BY <1>1, <1>4, Moved DEF Sent
  <2>2. (Sent(r)' /\ IsToolCall(r)) => sent'[r] = entry[r].server
    BY <1>1, <2>1 DEF RequestInv, AtForward, Leaving
  <2> QED  BY <1>1, <1>2, <2>1, <2>2, Upstream
<1>5. CASE \E result : Finish(r, result)
  <2>1. pc'[r] = "settled"
    BY <1>5, Moved
  <2> QED  BY <1>1, <1>2, <2>1, Ending
<1> QED  BY <1>3, <1>4, <1>5

LEMMA OverInv ==
  ASSUME RouterTypeOK, NEW r \in Requests, RequestInv(r), Conclude(r) \/ Disconnect(r)
  PROVE  RequestInv(r)'
<1>1. /\ tools' = tools /\ sessions' = sessions /\ inbound' = inbound /\ entry' = entry /\ sent' = sent
      /\ current' = current /\ shut' = shut
  BY DEF Conclude, Disconnect, Untouched, registryVars, sessionVars
<1>2. InProgress(r) /\ pc'[r] \in {"answered", "gone"}
  BY DEF Conclude, Disconnect, InProgress, Stages, RouterTypeOK
<1> QED  BY <1>1, <1>2, Ending

(* A message that arrives has passed nothing and knows its name's entry.   *)
LEMMA ArriveInv ==
  ASSUME RouterTypeOK, NEW r \in Requests, RequestInv(r), NEW m \in Inbox,
         NEW sid \in issued \union {StraySession, NoSessionId}, Arrive(r, m, sid)
  PROVE  RequestInv(r)'
<1>1. /\ tools' = tools /\ sessions' = sessions /\ sent' = sent /\ pc[r] = "idle"
      /\ pc'[r] = "routing" /\ inbound'[r] = [batch |-> m.batch, items |-> m.items, session |-> sid]
      /\ current'[r] = (IF m.items = <<>> THEN {} ELSE EntriesNow(m.items[1]))
      /\ shut'[r] = (m.items # <<>> /\ RefusedNow(m.items[1], sid))
  BY DEF Arrive, RouterTypeOK, registryVars, sessionVars
<1>2. ~Sent(r)'
  BY <1>1 DEF RequestInv, AtForward, BeforeUpstream, Sent
<1>3. pc'[r] \notin PastRouting \union PastPolicy \union InToolCall \union {"send", "list", "default"}
  BY <1>1 DEF PastPolicy, PastRouting, InToolCall, Stages
<1>4. Msg(r)' = m.items[1] /\ Sid(r)' = sid
  BY <1>1 DEF Msg, Sid
<1>5. m.items # <<>> => EntriesNow(Msg(r))' = EntriesNow(m.items[1])
  BY <1>1, <1>4 DEF EntriesNow, LookupHits
<1>6. RefusedNow(Msg(r), Sid(r))' = RefusedNow(m.items[1], sid)
  BY <1>1, <1>4 DEF RefusedNow, Live
<1>7. History(r)'
  <2>1. inbound'[r].items = m.items
    BY <1>1
  <2>2. m.items # <<>> => EntriesNow(Msg(r))' \subseteq current'[r]
    BY <1>1, <1>5
  <2>3. shut'[r] => m.items # <<>> /\ RefusedNow(Msg(r), Sid(r))'
    BY <1>1, <1>6
  <2> QED  BY <2>1, <2>2, <2>3 DEF History
<1> QED  BY <1>2, <1>3, <1>7 DEF RequestInv, AtScope, AtPolicy, AtMethod, AtLookup, AtValidation, AtConstraints,
                              AtSession, AtForward, Leaving, InToolCall

-----------------------------------------------------------------------------
(* The other callers: what a message has behind it, they cannot take back. *)
LEMMA Surroundings ==
  ASSUME NEW r \in Requests, RequestInv(r), pc' = pc, inbound' = inbound, entry' = entry, sent' = sent,
         current[r] \subseteq current'[r], shut'[r] => shut[r],
         (InProgress(r) /\ inbound[r].items # <<>>) => EntriesNow(Msg(r))' \subseteq current'[r],
         (InProgress(r) /\ shut'[r]) => inbound[r].items # <<>> /\ RefusedNow(Msg(r), Sid(r))'
  PROVE  RequestInv(r)'
<1>1. /\ Msg(r)' = Msg(r) /\ IsRequest(r)' = IsRequest(r) /\ IsToolCall(r)' = IsToolCall(r)
  BY SameMessage
<1>2. Sent(r)' = Sent(r) /\ InProgress(r)' = InProgress(r)
  BY DEF Sent, InProgress
<1>3. Leaving(r)' = Leaving(r)
  BY <1>1, <1>2 DEF Leaving
<1>4. AtScope(r)' /\ AtPolicy(r)'
  BY <1>1, <1>2 DEF RequestInv, AtScope, AtPolicy
<1>5. AtMethod(r)' /\ AtLookup(r)' /\ AtValidation(r)' /\ AtConstraints(r)'
  BY <1>1, <1>3 DEF RequestInv, AtMethod, AtLookup, AtValidation, AtConstraints
<1>6. AtSession(r)' /\ AtForward(r)'
  BY <1>2, <1>3 DEF RequestInv, AtSession, AtForward
<1>7. History(r)'
  BY <1>2 DEF History
<1> QED  BY <1>4, <1>5, <1>6, <1>7 DEF RequestInv

LEMMA RegistryChangesInv ==
  ASSUME NEW r \in Requests, RequestInv(r), RegistryChanges
  PROVE  RequestInv(r)'
<1>1. /\ pc' = pc /\ inbound' = inbound /\ entry' = entry /\ sent' = sent /\ shut' = shut /\ sessions' = sessions
      /\ current'[r] = IF InProgress(r) /\ inbound[r].items # <<>>
                       THEN current[r] \union EntriesNow(Msg(r))' ELSE current[r]
  BY DEF RegistryChanges, callVars, sessionVars
<1>2. RefusedNow(Msg(r), Sid(r))' = RefusedNow(Msg(r), Sid(r))
  BY <1>1, SameMessage
<1>3. (InProgress(r) /\ shut'[r]) => inbound[r].items # <<>> /\ RefusedNow(Msg(r), Sid(r))'
  BY <1>1, <1>2 DEF RequestInv, History
<1> QED  BY <1>1, <1>3, Surroundings

LEMMA SessionsChangeInv ==
  ASSUME NEW r \in Requests, RequestInv(r), SessionsChange
  PROVE  RequestInv(r)'
<1>1. /\ pc' = pc /\ inbound' = inbound /\ entry' = entry /\ sent' = sent /\ current' = current /\ tools' = tools
      /\ shut'[r] = (shut[r] /\ (InProgress(r) => RefusedNow(Msg(r), Sid(r))'))
  BY DEF SessionsChange, callVars, registryVars
<1>2. EntriesNow(Msg(r))' = EntriesNow(Msg(r))
  BY <1>1, SameMessage
<1>3. (InProgress(r) /\ inbound[r].items # <<>>) => EntriesNow(Msg(r))' \subseteq current'[r]
  BY <1>1, <1>2 DEF RequestInv, History
<1>4. (InProgress(r) /\ shut'[r]) => inbound[r].items # <<>> /\ RefusedNow(Msg(r), Sid(r))'
  BY <1>1 DEF RequestInv, History
<1>5. shut'[r] => shut[r]
  BY <1>1
<1> QED  BY <1>1, <1>3, <1>4, <1>5, Surroundings
-----------------------------------------------------------------------------
(* Types. *)
ControlTypeOK ==
  /\ pc \in [Requests -> Stages \union {"idle", "answered", "gone"}]
  /\ outcome \in [Requests -> OkOutcomes \union Errors \union {"none"}]

MessageTypeOK ==
  /\ inbound \in [Requests -> [batch : BOOLEAN, items : Seq(Message),
                              session : SessionIds \union {StraySession, NoSessionId}]]
  /\ current \in [Requests -> SUBSET RegisteredTool]
  /\ shut \in [Requests -> BOOLEAN]

CallTypeOK ==
  /\ entry \in [Requests -> RegisteredTool \union {NoTool}]
  /\ reply \in [Requests -> UpstreamReplies \union {NoReply}]
  /\ sent \in [Requests -> ProxyServers \union {NoServer}]
  /\ audits \in [Requests -> {"none", "lost", "Allow", "Deny", "DenyPolicy", "Block"}]

LEMMA TypeParts ==
  /\ RouterTypeOK <=> RegistryTypeOK /\ SessionTypeOK /\ ControlTypeOK /\ MessageTypeOK /\ CallTypeOK
  /\ RouterTypeOK' <=> RegistryTypeOK' /\ SessionTypeOK' /\ ControlTypeOK' /\ MessageTypeOK' /\ CallTypeOK'
BY DEF RouterTypeOK, ControlTypeOK, MessageTypeOK, CallTypeOK

LEMMA SameRegistry == ASSUME RegistryTypeOK, UNCHANGED registryVars PROVE RegistryTypeOK'
BY DEF RegistryTypeOK, registryVars

LEMMA SameSessions == ASSUME SessionTypeOK, UNCHANGED sessionVars PROVE SessionTypeOK'
BY DEF SessionTypeOK, sessionVars

(* The message at the head of what arrived is a message. *)
LEMMA MessageType ==
  ASSUME RouterTypeOK, NEW r \in Requests, inbound[r].items # <<>>
  PROVE  Msg(r) \in Message
<1>1. inbound[r].items \in Seq(Message)
  BY DEF RouterTypeOK
<1> QED  BY <1>1 DEF Msg

(* The name of a call is looked up in the map of tools under a name that is *)
(* one of its keys.                                                        *)
LEMMA NameType ==
  ASSUME NEW m \in Message, m.tool # NoName
  PROVE  Qualified(m.tool) \in QualifiedName
<1>1. m.tool \in RawName
  BY RouterAssumption DEF Message
<1> QED  BY <1>1 DEF RawName, Qualified, QualifiedName

LEMMA EntryType ==
  ASSUME RegistryTypeOK, NEW m \in Message
  PROVE  /\ EntriesNow(m) \in SUBSET RegisteredTool
         /\ (m.tool # NoName /\ LookupHits(m.tool)) => tools[Qualified(m.tool)] \in RegisteredTool
BY NameType DEF EntriesNow, LookupHits, RegistryTypeOK

LEMMA Moving ==
  ASSUME RouterTypeOK, NEW r \in Requests,
         \/ \E stage \in Stages : Goto(r, stage)
         \/ \E result \in OkOutcomes \union Errors : Finish(r, result)
  PROVE  ControlTypeOK'
<1>1. CASE \E stage \in Stages : Goto(r, stage)
  BY <1>1 DEF RouterTypeOK, ControlTypeOK, Goto
<1>2. CASE \E result \in OkOutcomes \union Errors : Finish(r, result)
  <2>1. "settled" \in Stages
    BY DEF Stages
  <2> QED  BY <1>2, <2>1 DEF RouterTypeOK, ControlTypeOK, Finish
<1> QED  BY <1>1, <1>2

LEMMA DispatchMoves ==
  ASSUME NEW r \in Requests, Dispatch(r)
  PROVE  \/ \E stage \in Stages : Goto(r, stage)
         \/ \E result \in OkOutcomes \union Errors : Finish(r, result)
BY DEF Dispatch, Stages, OkOutcomes, Errors

LEMMA QuietStepTypes ==
  ASSUME RouterTypeOK, NEW r \in Requests, ControlTypeOK', Untouched, CallTypeOK', SessionTypeOK'
  PROVE  RouterTypeOK'
<1>1. RegistryTypeOK'
  BY SameRegistry DEF RouterTypeOK, Untouched
<1>2. MessageTypeOK'
  BY DEF RouterTypeOK, MessageTypeOK, Untouched
<1> QED  BY <1>1, <1>2, TypeParts

LEMMA StepsBeforeLookupTypes ==
  ASSUME RouterTypeOK, NEW r \in Requests,
         Route(r) \/ EvaluatePolicy(r) \/ HandleToolsList(r) \/ ProxyToUpstream(r)
  PROVE  RouterTypeOK'
<1>1. \/ \E stage \in Stages : Goto(r, stage)
      \/ \E result \in OkOutcomes \union Errors : Finish(r, result)
  <2>1. CASE Route(r)
    BY <2>1, DispatchMoves DEF Route, Stages, OkOutcomes, Errors
  <2>2. CASE EvaluatePolicy(r)
    BY <2>2, DispatchMoves DEF EvaluatePolicy, Errors
  <2>3. CASE HandleToolsList(r) \/ ProxyToUpstream(r)
    BY <2>3 DEF HandleToolsList, ProxyToUpstream, Stages, OkOutcomes, Errors
  <2> QED  BY <2>1, <2>2, <2>3
<1>2. Untouched /\ UNCHANGED <<sessionVars, entry, reply, sent, audits>>
  BY DEF Route, EvaluatePolicy, HandleToolsList, ProxyToUpstream
<1>3. ControlTypeOK'
  BY <1>1, Moving
<1>4. SessionTypeOK'
  BY <1>2, SameSessions DEF RouterTypeOK
<1>5. CallTypeOK'
  BY <1>2 DEF RouterTypeOK, CallTypeOK
<1> QED  BY <1>2, <1>3, <1>4, <1>5, QuietStepTypes

LEMMA LookupToolTypes ==
  ASSUME RouterTypeOK, NEW r \in Requests, RequestInv(r), LookupTool(r)
  PROVE  RouterTypeOK'
<1>1. IsToolCall(r) /\ Msg(r) \in Message
  BY MessageType DEF LookupTool, RequestInv, AtMethod, InToolCall, IsToolCall, IsRequest
<1>2. Untouched /\ UNCHANGED <<sessionVars, reply, sent, audits>>
  BY DEF LookupTool
<1>3. \/ \E stage \in Stages : Goto(r, stage)
      \/ \E result \in OkOutcomes \union Errors : Finish(r, result)
  BY DEF LookupTool, AfterLookup, AfterValidation, AfterConstraints, Stages, Errors
<1>4. \/ entry' = entry
      \/ entry' = [entry EXCEPT ![r] = tools[Qualified(Msg(r).tool)]] /\ Msg(r).tool # NoName /\ LookupHits(Msg(r).tool)
  BY DEF LookupTool, LookupAny
<1>5. entry' \in [Requests -> RegisteredTool \union {NoTool}]
  BY <1>1, <1>4, EntryType DEF RouterTypeOK
<1>6. CallTypeOK'
  BY <1>2, <1>5 DEF RouterTypeOK, CallTypeOK
<1>7. SessionTypeOK'
  BY <1>2, SameSessions DEF RouterTypeOK
<1> QED  BY <1>2, <1>3, <1>6, <1>7, Moving, QuietStepTypes

LEMMA GateTypes ==
  ASSUME RouterTypeOK, NEW r \in Requests, ValidateArguments(r) \/ EvaluateConstraints(r) \/ CheckSession(r)
  PROVE  RouterTypeOK'
<1>1. \/ \E stage \in Stages : Goto(r, stage)
      \/ \E result \in OkOutcomes \union Errors : Finish(r, result)
  BY DEF ValidateArguments, EvaluateConstraints, CheckSession, AfterValidation, AfterConstraints, Stages, Errors
<1>2. Untouched /\ UNCHANGED <<sessionVars, entry, reply, sent, audits>>
  BY DEF ValidateArguments, EvaluateConstraints, CheckSession
<1>3. SessionTypeOK' /\ CallTypeOK'
  BY <1>2, SameSessions DEF RouterTypeOK, CallTypeOK
<1> QED  BY <1>1, <1>2, <1>3, Moving, QuietStepTypes

LEMMA LogCallTypes ==
  ASSUME RouterTypeOK, NEW r \in Requests, LogCall(r)
  PROVE  RouterTypeOK'
<1>1. Untouched /\ UNCHANGED <<entry, reply, sent, audits>> /\ Goto(r, "send")
  BY DEF LogCall
<1>2. SessionTypeOK'
  <2>1. CASE UNCHANGED sessionVars
    BY <2>1, SameSessions DEF RouterTypeOK
  <2>2. CASE LogToolCall(Sid(r), r)
    <3>1. r \in CallRecords /\ SessionTypeOK
      BY RouterAssumption DEF RouterTypeOK
    <3>2. PICK s : s = Sid(r)
      OBVIOUS
    <3>3. LogToolCall(s, r)
      BY <2>2, <3>2 DEF LogToolCall, Live
    <3> QED  BY <3>1, <3>3, LoggingKeepsLocks
  <2> QED  BY <2>1, <2>2 DEF LogCall
<1>3. CallTypeOK'
  BY <1>1 DEF RouterTypeOK, CallTypeOK
<1>4. \E stage \in Stages : Goto(r, stage)
  BY <1>1 DEF Stages
<1> QED  BY <1>1, <1>2, <1>3, <1>4, Moving, QuietStepTypes

LEMMA ForwardRequestTypes ==
  ASSUME RouterTypeOK, NEW r \in Requests, ForwardRequest(r)
  PROVE  RouterTypeOK'
<1>1. \/ \E stage \in Stages : Goto(r, stage)
      \/ \E result \in OkOutcomes \union Errors : Finish(r, result)
  BY DEF ForwardRequest, Stages, Errors
<1>2. Untouched /\ UNCHANGED <<sessionVars, entry, reply, audits>>
  BY DEF ForwardRequest
<1>3. sent' \in [Requests -> ProxyServers \union {NoServer}]
  BY DEF ForwardRequest, RouterTypeOK
<1>4. SessionTypeOK' /\ CallTypeOK'
  BY <1>2, <1>3, SameSessions DEF RouterTypeOK, CallTypeOK
<1> QED  BY <1>1, <1>2, <1>4, Moving, QuietStepTypes

LEMMA AnswerTypes ==
  ASSUME RouterTypeOK, NEW r \in Requests, UpstreamAnswers(r) \/ InspectEgress(r)
  PROVE  RouterTypeOK'
<1>1. \/ \E stage \in Stages : Goto(r, stage)
      \/ \E result \in OkOutcomes \union Errors : Finish(r, result)
  BY DEF UpstreamAnswers, InspectEgress, UpstreamFailures, Stages, OkOutcomes, Errors
<1>2. Untouched /\ UNCHANGED <<sessionVars, entry, sent, audits>>
  BY DEF UpstreamAnswers, InspectEgress
<1>3. reply' \in [Requests -> UpstreamReplies \union {NoReply}]
  <2>1. CASE UpstreamAnswers(r)
    BY <2>1 DEF UpstreamAnswers, RouterTypeOK
  <2>2. CASE InspectEgress(r) /\ reply[r].shape = "content"
    <3>1. reply[r] \in UpstreamReplies
      BY <2>2 DEF RouterTypeOK, NoReply
    <3>2. reply[r] \in [shape : {"content", "bare"}, flagged : BOOLEAN]
      BY <2>2, <3>1 DEF UpstreamReplies
    <3>3. [reply[r] EXCEPT !.flagged = FALSE] \in UpstreamReplies
      BY <3>2 DEF UpstreamReplies
    <3>4. reply' = [reply EXCEPT ![r] = [reply[r] EXCEPT !.flagged = FALSE]]
      BY <2>2 DEF InspectEgress
    <3> QED  BY <3>3, <3>4 DEF RouterTypeOK
  <2>3. CASE InspectEgress(r) /\ reply[r].shape # "content"
    BY <2>3 DEF InspectEgress, RouterTypeOK
  <2> QED  BY <2>1, <2>2, <2>3
<1>4. SessionTypeOK' /\ CallTypeOK'
  BY <1>2, <1>3, SameSessions DEF RouterTypeOK, CallTypeOK
<1> QED  BY <1>1, <1>2, <1>4, Moving, QuietStepTypes

LEMMA OverTypes ==
  ASSUME RouterTypeOK, NEW r \in Requests, Conclude(r) \/ Disconnect(r)
  PROVE  RouterTypeOK'
<1>1. Untouched /\ UNCHANGED <<sessionVars, entry, outcome, reply, sent>>
  BY DEF Conclude, Disconnect
<1>2. ControlTypeOK'
  BY <1>1 DEF Conclude, Disconnect, RouterTypeOK, ControlTypeOK
<1>3. audits' \in [Requests -> {"none", "lost", "Allow", "Deny", "DenyPolicy", "Block"}]
  BY DEF Conclude, Disconnect, RouterTypeOK, AuthDecision
<1>4. SessionTypeOK' /\ CallTypeOK'
  BY <1>1, <1>3, SameSessions DEF RouterTypeOK, CallTypeOK
<1> QED  BY <1>1, <1>2, <1>4, QuietStepTypes

LEMMA ArriveTypes ==
  ASSUME RouterTypeOK, NEW r \in Requests, NEW m \in Inbox,
         NEW sid \in issued \union {StraySession, NoSessionId}, Arrive(r, m, sid)
  PROVE  RouterTypeOK'
<1>1. /\ UNCHANGED registryVars /\ UNCHANGED sessionVars
      /\ UNCHANGED <<entry, outcome, reply, sent, audits>>
  BY DEF Arrive
<1>2. RegistryTypeOK' /\ SessionTypeOK' /\ CallTypeOK'
  BY <1>1, SameRegistry, SameSessions DEF RouterTypeOK, CallTypeOK
<1>3. ControlTypeOK'
  BY <1>1 DEF Arrive, RouterTypeOK, ControlTypeOK, Stages
<1>4. m.batch \in BOOLEAN /\ m.items \in Seq(Message) /\ sid \in SessionIds \union {StraySession, NoSessionId}
  BY RouterAssumption DEF RouterTypeOK, SessionTypeOK
<1>5. m.items # <<>> => EntriesNow(m.items[1]) \in SUBSET RegisteredTool
  <2>1. m.items # <<>> => m.items[1] \in Message
    BY <1>4
  <2> QED  BY <2>1, EntryType DEF RouterTypeOK
<1>6. RefusedNow(m.items[1], sid) \in BOOLEAN
  BY DEF RefusedNow
<1>7. inbound' \in [Requests -> [batch : BOOLEAN, items : Seq(Message),
                                session : SessionIds \union {StraySession, NoSessionId}]]
  BY <1>4 DEF Arrive, RouterTypeOK
<1>8. current' \in [Requests -> SUBSET RegisteredTool]
  BY <1>5 DEF Arrive, RouterTypeOK
<1>9. shut' \in [Requests -> BOOLEAN]
  BY <1>6 DEF Arrive, RouterTypeOK
<1> QED  BY <1>2, <1>3, <1>7, <1>8, <1>9, TypeParts DEF MessageTypeOK

(* register_tool, unregister_server and clear keep the registry's own      *)
(* invariant also when the pipeline is around them.                        *)
LEMMA RegistryChangesKeep ==
  ASSUME RegistryInv, RegistryChanges
  PROVE  RegistryInv'
<1>1. \/ \E raw \in RawName, schema \in Schemas, s \in Servers : RegisterTool(raw, schema, s)
      \/ \E s \in Servers : UnregisterServer(s)
      \/ Clear
  BY RouterAssumption DEF RegistryChanges
<1> QED  BY <1>1, RegisterToolInv, UnregisterServerInv, ClearInv

LEMMA RegistryChangesTypes ==
  ASSUME RouterTypeOK, RegistryInv, RegistryChanges
  PROVE  RouterTypeOK'
<1>1. UNCHANGED sessionVars /\ UNCHANGED callVars /\ UNCHANGED shut
  BY DEF RegistryChanges
<1>2. RegistryTypeOK'
  BY RegistryChangesKeep DEF RegistryInv
<1>3. SessionTypeOK' /\ CallTypeOK' /\ ControlTypeOK'
  BY <1>1, SameSessions DEF RouterTypeOK, CallTypeOK, ControlTypeOK, callVars
<1>4. \A r \in Requests : inbound[r].items # <<>> => EntriesNow(Msg(r))' \in SUBSET RegisteredTool
  <2> SUFFICES ASSUME NEW r \in Requests, inbound[r].items # <<>>
               PROVE  EntriesNow(Msg(r))' \in SUBSET RegisteredTool
    OBVIOUS
  <2>1. inbound'[r] = inbound[r]
    BY <1>1 DEF callVars
  <2>2. Msg(r)' = Msg(r) /\ Msg(r) \in Message
    BY <2>1, SameMessage, MessageType
  <2>3. Msg(r).tool # NoName => Qualified(Msg(r).tool) \in QualifiedName
    BY <2>2, NameType
  <2>4. tools' \in [QualifiedName -> RegisteredTool \union {NoTool}]
    BY <1>2 DEF RegistryTypeOK
  <2> QED  BY <2>2, <2>3, <2>4 DEF EntriesNow, LookupHits
<1>5. current' \in [Requests -> SUBSET RegisteredTool]
  <2> SUFFICES ASSUME NEW r \in Requests
               PROVE  (IF InProgress(r) /\ inbound[r].items # <<>>
                       THEN current[r] \union EntriesNow(Msg(r))' ELSE current[r]) \in SUBSET RegisteredTool
    BY DEF RegistryChanges
  <2>1. current[r] \in SUBSET RegisteredTool
    BY DEF RouterTypeOK
  <2> QED  BY <1>4, <2>1
<1>6. MessageTypeOK'
  BY <1>1, <1>5 DEF RouterTypeOK, MessageTypeOK, callVars
<1> QED  BY <1>2, <1>3, <1>6, TypeParts

(* Creating, locking and terminating sessions keeps their types. *)
LEMMA SessionAdminTypes ==
  ASSUME SessionTypeOK, SessionAdmin
  PROVE  SessionTypeOK'
<1>1. PICK s \in SessionIds : CreateSession(s) \/ TerminateSession(s) \/ \E c \in Contexts : LockContext(s, c)
  BY Zenon DEF SessionAdmin
<1>2. CASE CreateSession(s)
  <2>1. [locked |-> NoContext, calls |-> <<>>] \in Session
    BY DEF Session
  <2> QED  BY <1>2, <2>1 DEF CreateSession, SessionTypeOK
<1>3. CASE \E c \in Contexts : LockContext(s, c)
  <2>1. PICK c \in Contexts : LockContext(s, c)
    BY <1>3
  <2>2. [sessions[s] EXCEPT !.locked = c] \in Session
    BY <2>1 DEF LockContext, Live, SessionTypeOK, Session
  <2>3. sessions' = [sessions EXCEPT ![s] = [sessions[s] EXCEPT !.locked = c]] /\ issued' = issued
    BY <2>1 DEF LockContext
  <2> QED  BY <2>2, <2>3 DEF SessionTypeOK
<1>4. CASE TerminateSession(s)
  BY <1>4 DEF TerminateSession, SessionTypeOK
<1> QED  BY <1>1, <1>2, <1>3, <1>4

LEMMA SessionsChangeTypes ==
  ASSUME RouterTypeOK, SessionsChange
  PROVE  RouterTypeOK'
<1>1. UNCHANGED registryVars /\ UNCHANGED callVars /\ UNCHANGED current
  BY DEF SessionsChange
<1>2. RegistryTypeOK' /\ CallTypeOK' /\ ControlTypeOK'
  BY <1>1, SameRegistry DEF RouterTypeOK, CallTypeOK, ControlTypeOK, callVars
<1>3. SessionTypeOK'
  BY SessionAdminTypes DEF RouterTypeOK, SessionsChange
<1>4. shut' \in [Requests -> BOOLEAN]
  BY DEF SessionsChange, RouterTypeOK
<1>5. MessageTypeOK'
  BY <1>1, <1>4 DEF RouterTypeOK, MessageTypeOK, callVars
<1> QED  BY <1>2, <1>3, <1>5, TypeParts

-----------------------------------------------------------------------------
LEMMA InitInv == RouterInit => RouterInv
<1> SUFFICES ASSUME RouterInit PROVE RouterInv
  OBVIOUS
<1>1. RegistryInv
  BY RegistryInitInv DEF RouterInit
<1>2. RegistryTypeOK /\ SessionTypeOK
  BY <1>1 DEF RegistryInv, RouterInit, SessionInit, SessionTypeOK
<1>3. ControlTypeOK /\ CallTypeOK
  BY DEF RouterInit, ControlTypeOK, CallTypeOK
<1>4. MessageTypeOK
  BY DEF RouterInit, MessageTypeOK, NoInbound
<1>5. ASSUME NEW r \in Requests PROVE RequestInv(r)
  <2>1. pc[r] = "idle" /\ ~Sent(r)
    BY DEF RouterInit, Sent
  <2> QED  BY <2>1 DEF RequestInv, AtScope, AtPolicy, AtMethod, AtLookup, AtValidation, AtConstraints, AtSession,
                         AtForward, History, InProgress, Leaving, PastPolicy, PastRouting, InToolCall, Stages
<1> QED  BY <1>1, <1>2, <1>3, <1>4, <1>5, TypeParts DEF RouterInv

(* A step of one message is none of the others'. *)
LEMMA StepOfAnother ==
  ASSUME RouterTypeOK, NEW r \in Requests, NEW q \in Requests \ {r}, RequestInv(q),
         \/ Advance(r) \/ Disconnect(r)
         \/ \E m \in Inbox, sid \in issued \union {StraySession, NoSessionId} : Arrive(r, m, sid)
  PROVE  RequestInv(q)'
<1>1. /\ pc'[q] = pc[q] /\ inbound'[q] = inbound[q] /\ current'[q] = current[q] /\ shut'[q] = shut[q]
  <2>1. CASE Advance(r)
    BY <2>1 DEF Advance, Route, EvaluatePolicy, HandleToolsList, ProxyToUpstream, LookupTool,
                ValidateArguments, EvaluateConstraints, CheckSession, LogCall, ForwardRequest, UpstreamAnswers,
                InspectEgress, Conclude, Dispatch, Goto, Finish, Untouched, RouterTypeOK
  <2>2. CASE Disconnect(r)
    BY <2>2 DEF Disconnect, Untouched, RouterTypeOK
  <2>3. CASE \E m \in Inbox, sid \in issued \union {StraySession, NoSessionId} : Arrive(r, m, sid)
    BY <2>3 DEF Arrive, RouterTypeOK
  <2> QED  BY <2>1, <2>2, <2>3
<1>2. entry'[q] = entry[q] /\ sent'[q] = sent[q] /\ tools' = tools
  <2>1. CASE Advance(r)
    BY <2>1 DEF Advance, Route, EvaluatePolicy, HandleToolsList, ProxyToUpstream, LookupTool,
                ValidateArguments, EvaluateConstraints, CheckSession, LogCall, ForwardRequest, UpstreamAnswers,
                InspectEgress, Conclude, Untouched, registryVars, RouterTypeOK
  <2>2. CASE Disconnect(r)
    BY <2>2 DEF Disconnect, Untouched, registryVars
  <2>3. CASE \E m \in Inbox, sid \in issued \union {StraySession, NoSessionId} : Arrive(r, m, sid)
    BY <2>3 DEF Arrive, registryVars
  <2> QED  BY <2>1, <2>2, <2>3
<1>3. RefusedNow(Msg(q), Sid(q)) => RefusedNow(Msg(q), Sid(q))'
  <2>1. CASE LogCall(r)
    BY <2>1, LogCallKeepsRefusals
  <2>2. CASE sessions' = sessions
    BY <1>1, <2>2, SameMessage
  <2>3. LogCall(r) \/ sessions' = sessions
    BY DEF Advance, Route, EvaluatePolicy, HandleToolsList, ProxyToUpstream, LookupTool,
           ValidateArguments, EvaluateConstraints, CheckSession, ForwardRequest, UpstreamAnswers,
           InspectEgress, Conclude, Disconnect, Arrive, sessionVars
  <2> QED  BY <2>1, <2>2, <2>3
<1> QED  BY <1>1, <1>2, <1>3, Untouching

LEMMA MessageStepInv ==
  ASSUME RouterInv, NEW r \in Requests,
         \/ Advance(r) \/ Disconnect(r)
         \/ \E m \in Inbox, sid \in issued \union {StraySession, NoSessionId} : Arrive(r, m, sid)
  PROVE  RouterInv'
<1>1. RouterTypeOK /\ RegistryInv /\ RequestInv(r)
  BY DEF RouterInv
<1>2. RouterTypeOK'
  BY <1>1, StepsBeforeLookupTypes, LookupToolTypes, GateTypes, LogCallTypes, ForwardRequestTypes,
     AnswerTypes, OverTypes, ArriveTypes DEF Advance
<1>3. RegistryInv'
  <2>1. UNCHANGED registryVars
    BY DEF Advance, Route, EvaluatePolicy, HandleToolsList, ProxyToUpstream, LookupTool,
           ValidateArguments, EvaluateConstraints, CheckSession, LogCall, ForwardRequest, UpstreamAnswers,
           InspectEgress, Conclude, Disconnect, Arrive, Untouched
  <2> QED  BY <1>1, <2>1, RegistryStutterInv
<1>4. RequestInv(r)'
  BY <1>1, RouteInv, EvaluatePolicyInv, GenericRequestInv, LookupToolInv, ValidateArgumentsInv,
     EvaluateConstraintsInv, CheckSessionInv, LogCallInv, ForwardRequestInv, AnswerInv, OverInv, ArriveInv
     DEF Advance
<1>5. \A q \in Requests \ {r} : RequestInv(q)'
  BY <1>1, StepOfAnother DEF RouterInv
<1> QED  BY <1>2, <1>3, <1>4, <1>5 DEF RouterInv

LEMMA StepInv == RouterInv /\ [RouterNext]_vars => RouterInv'
<1> SUFFICES ASSUME RouterInv, [RouterNext]_vars PROVE RouterInv'
  OBVIOUS
<1>0. RouterTypeOK /\ RegistryInv /\ \A r \in Requests : RequestInv(r)
  BY DEF RouterInv
<1>1. CASE \E r \in Requests : \/ Advance(r) \/ Disconnect(r)
                               \/ \E m \in Inbox, sid \in issued \union {StraySession, NoSessionId} : Arrive(r, m, sid)
  BY <1>1, MessageStepInv
<1>2. CASE RegistryChanges
  BY <1>0, <1>2, RegistryChangesTypes, RegistryChangesKeep, RegistryChangesInv DEF RouterInv
<1>3. CASE SessionsChange
  <2>1. RegistryInv'
    BY <1>0, <1>3, RegistryStutterInv DEF SessionsChange
  <2> QED  BY <1>0, <1>3, <2>1, SessionsChangeTypes, SessionsChangeInv DEF RouterInv
<1>4. CASE UNCHANGED vars
  <2>1. /\ UNCHANGED registryVars /\ UNCHANGED sessionVars /\ UNCHANGED callVars
        /\ UNCHANGED current /\ UNCHANGED shut
    BY <1>4 DEF vars
  <2>2. RegistryInv' /\ SessionTypeOK'
    BY <1>0, <2>1, RegistryStutterInv, SameSessions DEF RouterTypeOK
  <2>3. ControlTypeOK' /\ MessageTypeOK' /\ CallTypeOK'
    BY <1>0, <2>1 DEF RouterTypeOK, ControlTypeOK, MessageTypeOK, CallTypeOK, callVars
  <2>4. RouterTypeOK'
    BY <2>2, <2>3, TypeParts DEF RegistryInv
  <2>5. ASSUME NEW r \in Requests PROVE RequestInv(r)'
    <3>1. /\ pc' = pc /\ inbound' = inbound /\ entry' = entry /\ sent' = sent /\ tools' = tools
          /\ sessions' = sessions /\ current' = current /\ shut' = shut
      BY <2>1 DEF callVars, registryVars, sessionVars
    <3>2. RefusedNow(Msg(r), Sid(r))' = RefusedNow(Msg(r), Sid(r))
      BY <3>1, SameMessage
    <3> QED  BY <1>0, <3>1, <3>2, Untouching
  <2> QED  BY <2>2, <2>4, <2>5 DEF RouterInv
<1> QED  BY <1>1, <1>2, <1>3, <1>4 DEF RouterNext

(* Whatever messages arrive, whatever servers and administrators do around *)
(* them, every message has behind it what its stage says, and the state    *)
(* keeps its types.  (McpRouter::handle_message)                           *)
THEOREM RouterInvariant == RouterSpec => []RouterInv
BY InitInv, StepInv, PTL DEF RouterSpec

(* The locals of handle_message keep their types, and a call only leaves   *)
(* for a server the proxy knows.                                           *)
THEOREM RouterTypes == RouterSpec => []RouterTypeOK
<1>1. RouterInv => RouterTypeOK
  BY DEF RouterInv
<1> QED  BY <1>1, RouterInvariant, PTL

LEMMA InvVetted == RouterInv => OnlyVettedCallsGoUpstream
<1> SUFFICES ASSUME RouterInv, NEW r \in Requests, Sent(r)
             PROVE  IsRequest(r) /\ PassedGates(Msg(r), IF IsToolCall(r) THEN entry[r].schema ELSE "none")
  BY DEF OnlyVettedCallsGoUpstream
<1>1. RequestInv(r)
  BY DEF RouterInv
<1>2. IsRequest(r) /\ KnownMethod(Msg(r).method) /\ CheckMethod(Msg(r).enforcer, Msg(r).method)
  BY <1>1 DEF RequestInv, AtScope
<1>3. Has("authorizer") => \E p \in Principals(Msg(r).enforcer) : PolicyVerdict(p, Msg(r)) = "allow"
  BY <1>1 DEF RequestInv, AtPolicy
<1>4. Msg(r).method = "tools/call" => IsToolCall(r)
  BY <1>2 DEF IsToolCall
<1>5. IsToolCall(r) => /\ CheckToolAccess(Msg(r).enforcer, Msg(r).tool)
                       /\ Msg(r).args # NullArgs => <<Msg(r).args, entry[r].schema>> \in Conforms
                       /\ Has("ecpa") => <<Msg(r).tool, Msg(r).args>> \in EcpaSatisfied
  BY <1>1 DEF RequestInv, AtLookup, AtValidation, AtConstraints, Leaving
<1> QED  BY <1>2, <1>3, <1>4, <1>5 DEF PassedGates

(* The pipeline's gates cannot be gone around: every call that reached an  *)
(* upstream server passed each gate the router was built with.             *)
(* (handle_request, handle_tools_call)                                     *)
THEOREM VettedCalls == RouterSpec => []OnlyVettedCallsGoUpstream
BY InvVetted, RouterInvariant, PTL

LEMMA InvOneRegistration == RouterInv => ServedByOneRegistration
<1> SUFFICES ASSUME RouterInv, NEW r \in Requests, Sent(r), IsToolCall(r)
             PROVE  \E e \in current[r] :
                      e.server = sent[r] /\ (Msg(r).args # NullArgs => <<Msg(r).args, e.schema>> \in Conforms)
  BY DEF ServedByOneRegistration
<1>1. RequestInv(r) /\ Leaving(r)
  BY DEF RouterInv, Leaving
<1>2. entry[r] \in current[r] /\ entry[r].server = sent[r]
  BY <1>1 DEF RequestInv, AtLookup, AtForward
<1>3. Msg(r).args # NullArgs => <<Msg(r).args, entry[r].schema>> \in Conforms
  BY <1>1 DEF RequestInv, AtValidation
<1> QED  BY <1>2, <1>3

(* The server that gets a call and the schema that accepted its arguments  *)
(* are those of one registration, one that the name had since the call     *)
(* arrived, however the registry changes.  (the clone in handle_tools_call)*)
THEOREM OneRegistration == RouterSpec => []ServedByOneRegistration
BY InvOneRegistration, RouterInvariant, PTL

(* A session that was locked against a call all the time sends nothing     *)
(* upstream for it.  (check_context_access in handle_tools_call)           *)
THEOREM LocksHold == RouterSpec => []ShutSessionSendsNothing
<1>1. RouterInv => ShutSessionSendsNothing
  <2> SUFFICES ASSUME RouterInv, NEW r \in Requests, Has("sessions"), shut[r], IsToolCall(r), Sent(r)
               PROVE  FALSE
    BY DEF ShutSessionSendsNothing
  <2>1. RequestInv(r) /\ Leaving(r)
    BY DEF RouterInv, Leaving
  <2> QED  BY <2>1 DEF RequestInv, AtSession
<1> QED  BY <1>1, RouterInvariant, PTL

-----------------------------------------------------------------------------
(* What the gateway writes down about a call: the audit event agrees with   *)
(* what happened upstream, and a call that leaves is in its session's log   *)
(* exactly once.  Both rest on where a message is: it has no result and no  *)
(* event before it settles, and is in no log before it is about to leave.   *)
Over == {"settled", "answered", "gone"}

Replied(r) == reply[r].shape # "none"

AuditInv(r) ==
  /\ pc[r] \notin Over => outcome[r] = "none"
  /\ pc[r] \in {"settled", "answered"} => outcome[r] # "none"
  /\ pc[r] \notin Over \union {"inspect"} => ~Replied(r)
  /\ outcome[r] \in OkOutcomes /\ (IsToolCall(r) \/ Sent(r)) => Replied(r)
  /\ outcome[r] \in Errors => ~Replied(r) /\ (Sent(r) => outcome[r] \in UpstreamFailures)
  /\ pc[r] = "inspect" => Replied(r)
  /\ audits[r] \in {"none", "lost", AuthDecision(outcome[r])}
  /\ audits[r] # "none" => pc[r] = "answered"

(* A message goes on, its result still open. *)
LEMMA GoingOn ==
  ASSUME RouterTypeOK, NEW r \in Requests, AuditInv(r), pc[r] \in Stages \ {"settled"},
         NEW stage \in Stages \ {"settled"}, Goto(r, stage), audits' = audits,
         IF stage = "inspect" THEN Replied(r)' ELSE pc[r] # "inspect" /\ reply' = reply
  PROVE  AuditInv(r)'
<1>1. pc'[r] = stage /\ outcome'[r] = outcome[r]
  BY Moved DEF Goto
<1>2. pc[r] \notin Over /\ stage \notin Over
  BY DEF Over, Stages
<1>3. outcome[r] = "none" /\ audits[r] = "none"
  BY <1>2 DEF AuditInv, Over
<1>4. stage # "inspect" => ~Replied(r)'
  BY <1>2 DEF AuditInv, Replied
<1> QED  BY <1>1, <1>2, <1>3, <1>4 DEF AuditInv, OkOutcomes, Errors, Over

(* A message gets its result. *)
LEMMA GettingAResult ==
  ASSUME RouterTypeOK, NEW r \in Requests, AuditInv(r), pc[r] \in Stages \ {"settled"},
         NEW result, result # "none", Finish(r, result), audits' = audits,
         result \in OkOutcomes /\ (IsToolCall(r)' \/ Sent(r)') => Replied(r)',
         result \in Errors => ~Replied(r)' /\ (Sent(r)' => result \in UpstreamFailures)
  PROVE  AuditInv(r)'
<1>1. pc'[r] = "settled" /\ outcome'[r] = result
  BY DEF Finish, RouterTypeOK
<1>2. audits'[r] = "none"
  BY DEF AuditInv, Over, Stages
<1> QED  BY <1>1, <1>2 DEF AuditInv, Over

LEMMA DispatchAudit ==
  ASSUME RouterTypeOK, NEW r \in Requests, AuditInv(r), pc[r] \in {"routing", "policy"},
         IsRequest(r), Dispatch(r), inbound' = inbound, audits' = audits, reply' = reply, ~Sent(r)'
  PROVE  AuditInv(r)'
<1>1. pc[r] \in Stages \ {"settled"}
  BY DEF Stages
<1>2. IsToolCall(r)' = IsToolCall(r) /\ ~Replied(r)'
  BY SameMessage DEF AuditInv, Over, Replied
<1>3. \/ \E stage \in {"list", "lookup", "default"} : Goto(r, stage)
      \/ ~IsToolCall(r) /\ \E result \in {"Ok", "InvalidParams", "InvalidRequest"} : Finish(r, result)
  BY DEF Dispatch, IsToolCall
<1>4. CASE \E stage \in {"list", "lookup", "default"} : Goto(r, stage)
  BY <1>1, <1>4, GoingOn DEF Stages
<1>5. CASE ~IsToolCall(r) /\ \E result \in {"Ok", "InvalidParams", "InvalidRequest"} : Finish(r, result)
  <2>1. PICK result \in {"Ok", "InvalidParams", "InvalidRequest"} : Finish(r, result)
    BY <1>5
  <2>2. ~IsToolCall(r)'
    BY <1>2, <1>5
  <2> QED  BY <1>1, <1>2, <2>1, <2>2, GettingAResult
<1> QED  BY <1>3, <1>4, <1>5

(* The steps that only route, before a tool is looked up. *)
LEMMA RoutingAudit ==
  ASSUME RouterTypeOK, NEW r \in Requests, RequestInv(r), AuditInv(r),
         Route(r) \/ EvaluatePolicy(r) \/ HandleToolsList(r) \/ ProxyToUpstream(r)
  PROVE  AuditInv(r)'
<1>1. /\ inbound' = inbound /\ audits' = audits /\ sent' = sent /\ reply' = reply
      /\ pc[r] \in {"routing", "policy", "list", "default"} /\ pc[r] \in Stages \ {"settled"}
  BY DEF Route, EvaluatePolicy, HandleToolsList, ProxyToUpstream, Untouched, Stages
<1>2. IsToolCall(r)' = IsToolCall(r) /\ ~Sent(r)' /\ ~Replied(r)'
  <2>1. ~Sent(r)
    BY <1>1 DEF RequestInv, AtForward, BeforeUpstream
  <2>2. ~Replied(r)
    BY <1>1 DEF AuditInv, Over
  <2> QED  BY <1>1, <2>1, <2>2, SameMessage DEF Sent, Replied
<1>3. ASSUME NEW result, result # "none", Finish(r, result), result \in OkOutcomes => ~IsToolCall(r)
      PROVE  AuditInv(r)'
  BY <1>1, <1>2, <1>3, GettingAResult
<1>4. ASSUME NEW stage \in {"policy", "send"}, Goto(r, stage)
      PROVE  AuditInv(r)'
  BY <1>1, <1>4, GoingOn DEF Stages
<1>5. CASE Route(r)
  <2>1. ~KnownMethod(Msg(r).method) => ~IsToolCall(r)
    BY MethodsAssumption DEF KnownMethod, IsToolCall
  <2>2. \/ Finish(r, "InvalidRequest") \/ Finish(r, "ScopeDenied")
        \/ ~IsToolCall(r) /\ Finish(r, "MethodNotFoundReply")
        \/ Goto(r, "policy")
        \/ IsRequest(r) /\ Dispatch(r)
    BY <1>5, <2>1 DEF Route
  <2>3. CASE IsRequest(r) /\ Dispatch(r)
    BY <1>1, <1>2, <1>5, <2>3, DispatchAudit DEF Route
  <2> QED  BY <1>3, <1>4, <2>2, <2>3 DEF OkOutcomes
<1>6. CASE EvaluatePolicy(r)
  <2>1. pc[r] = "policy" /\ IsRequest(r)
    BY <1>6 DEF EvaluatePolicy, RequestInv, AtScope, PastRouting, Stages
  <2>2. \/ Finish(r, "ScopeDenied") \/ Finish(r, "InternalError")
        \/ Dispatch(r)
    BY <1>6 DEF EvaluatePolicy
  <2>3. CASE Dispatch(r)
    BY <1>1, <1>2, <2>1, <2>3, DispatchAudit
  <2> QED  BY <1>3, <2>2, <2>3 DEF OkOutcomes
<1>7. CASE HandleToolsList(r)
  <2>1. ~IsToolCall(r) /\ Finish(r, "Ok")
    BY <1>7 DEF HandleToolsList, RequestInv, AtMethod
  <2> QED  BY <1>3, <2>1
<1>8. CASE ProxyToUpstream(r)
  <2>1. Finish(r, "UpstreamError") \/ Goto(r, "send")
    BY <1>8 DEF ProxyToUpstream
  <2> QED  BY <1>3, <1>4, <2>1 DEF OkOutcomes
<1> QED  BY <1>5, <1>6, <1>7, <1>8

(* A gate refuses a call before anything left, and never says it was fine. *)
LEMMA GateAudit ==
  ASSUME RouterTypeOK, NEW r \in Requests, RequestInv(r), AuditInv(r),
         \/ LookupTool(r) \/ ValidateArguments(r) \/ EvaluateConstraints(r) \/ CheckSession(r)
         \/ LogCall(r) \/ ForwardRequest(r)
  PROVE  AuditInv(r)'
<1>1. /\ audits' = audits /\ pc[r] \in InToolCall \union {"send"} /\ pc[r] \in Stages \ {"settled"}
      /\ ForwardRequest(r) \/ sent' = sent
      /\ reply' = reply
  BY DEF LookupTool, ValidateArguments, EvaluateConstraints, CheckSession, LogCall, ForwardRequest,
         InToolCall, Stages
<1>2. ~Sent(r) /\ pc[r] # "inspect" /\ ~Replied(r)'
  <2>1. ~Sent(r)
    BY <1>1 DEF RequestInv, AtForward, BeforeUpstream
  <2>2. pc[r] \notin Over \union {"inspect"}
    BY <1>1 DEF Over, InToolCall
  <2> QED  BY <1>1, <2>1, <2>2 DEF AuditInv, Replied
<1>3. \/ \E stage \in {"validate", "constrain", "session", "log", "send", "upstream"} : Goto(r, stage)
      \/ ~ForwardRequest(r) /\ \E result \in Errors : Finish(r, result)
      \/ Finish(r, "UpstreamError")
  BY DEF LookupTool, ValidateArguments, EvaluateConstraints, CheckSession, LogCall, ForwardRequest,
         AfterLookup, AfterValidation, AfterConstraints, Errors
<1>4. CASE \E stage \in {"validate", "constrain", "session", "log", "send", "upstream"} : Goto(r, stage)
  BY <1>1, <1>2, <1>4, GoingOn DEF Stages
<1>5. CASE ~ForwardRequest(r) /\ \E result \in Errors : Finish(r, result)
  <2>1. ~Sent(r)'
    BY <1>1, <1>2, <1>5 DEF Sent
  <2>2. \A result \in Errors : result \notin OkOutcomes \union {"none"}
    BY DEF Errors, OkOutcomes
  <2> QED  BY <1>1, <1>2, <1>5, <2>1, <2>2, GettingAResult
<1>6. CASE Finish(r, "UpstreamError")
  BY <1>1, <1>2, <1>6, GettingAResult DEF UpstreamFailures, OkOutcomes
<1> QED  BY <1>3, <1>4, <1>5, <1>6

(* A reply that came is kept, inspected or not. *)
LEMMA AnswerAudit ==
  ASSUME RouterTypeOK, NEW r \in Requests, AuditInv(r), UpstreamAnswers(r) \/ InspectEgress(r)
  PROVE  AuditInv(r)'
<1>1. audits' = audits /\ pc[r] \in Stages \ {"settled"}
  BY DEF UpstreamAnswers, InspectEgress, Stages
<1>2. \/ ~Replied(r)' /\ \E failure \in UpstreamFailures : Finish(r, failure)
      \/ Replied(r)' /\ (Goto(r, "inspect") \/ Finish(r, "Ok"))
  <2>1. CASE UpstreamAnswers(r)
    <3>1. \A answer \in UpstreamReplies : answer.shape # "none"
      BY DEF UpstreamReplies
    <3>2. ASSUME NEW answer \in UpstreamReplies, reply' = [reply EXCEPT ![r] = answer]
          PROVE  Replied(r)'
      <4>1. reply'[r] = answer
        BY <3>2 DEF RouterTypeOK
      <4> QED  BY <3>1, <4>1 DEF Replied
    <3>3. ~Replied(r)
      BY <2>1 DEF UpstreamAnswers, AuditInv, Over
    <3> QED  BY <2>1, <3>2, <3>3 DEF UpstreamAnswers, Replied
  <2>2. CASE InspectEgress(r)
    <3>1. Replied(r)
      BY <2>2 DEF InspectEgress, AuditInv
    <3>2. CASE reply[r].shape = "content"
      <4>1. reply[r] \in UpstreamReplies
        BY <3>2 DEF RouterTypeOK, NoReply
      <4>2. reply[r] \in [shape : {"content", "bare"}, flagged : BOOLEAN]
        BY <3>2, <4>1 DEF UpstreamReplies
      <4>3. reply'[r] = [reply[r] EXCEPT !.flagged = FALSE]
        BY <2>2, <3>2 DEF InspectEgress, RouterTypeOK
      <4>4. reply'[r].shape = "content"
        BY <3>2, <4>2, <4>3
      <4> QED  BY <2>2, <4>4 DEF InspectEgress, Replied
    <3>3. CASE reply[r].shape # "content"
      BY <2>2, <3>1, <3>3 DEF InspectEgress, Replied
    <3> QED  BY <3>2, <3>3
  <2> QED  BY <2>1, <2>2
<1>3. CASE ~Replied(r)' /\ \E failure \in UpstreamFailures : Finish(r, failure)
  <2>1. \A failure \in UpstreamFailures : failure \notin OkOutcomes \union {"none"}
    BY DEF UpstreamFailures, OkOutcomes
  <2> QED  BY <1>1, <1>3, <2>1, GettingAResult
<1>4. CASE Replied(r)' /\ Goto(r, "inspect")
  BY <1>1, <1>4, GoingOn DEF Stages
<1>5. CASE Replied(r)' /\ Finish(r, "Ok")
  BY <1>1, <1>5, GettingAResult DEF Errors
<1> QED  BY <1>2, <1>3, <1>4, <1>5

LEMMA OverAudit ==
  ASSUME RouterTypeOK, NEW r \in Requests, AuditInv(r), Conclude(r) \/ Disconnect(r)
  PROVE  AuditInv(r)'
<1>1. /\ inbound' = inbound /\ outcome' = outcome /\ reply' = reply /\ sent' = sent
      /\ pc[r] \in Stages /\ pc'[r] \in {"answered", "gone"}
  BY DEF Conclude, Disconnect, Untouched, Stages, RouterTypeOK
<1>2. IsToolCall(r)' = IsToolCall(r) /\ Sent(r)' = Sent(r) /\ Replied(r)' = Replied(r)
      /\ AuthDecision(outcome[r])' = AuthDecision(outcome[r])
  BY <1>1, SameMessage DEF Sent, Replied, AuthDecision
<1>3. audits[r] = "none"
  BY <1>1 DEF AuditInv, Stages
<1>4. \/ audits'[r] = "none"
      \/ audits'[r] \in {"lost", AuthDecision(outcome[r])} /\ pc'[r] = "answered"
  BY <1>3 DEF Conclude, Disconnect, RouterTypeOK
<1>5. pc'[r] = "answered" => outcome'[r] # "none"
  BY <1>1 DEF AuditInv, Conclude, Disconnect, RouterTypeOK
<1> QED  BY <1>1, <1>2, <1>4, <1>5 DEF AuditInv, Over

(* A message that arrives has neither result nor event. *)
LEMMA ArriveAudit ==
  ASSUME RouterTypeOK, NEW r \in Requests, AuditInv(r), NEW m \in Inbox,
         NEW sid \in issued \union {StraySession, NoSessionId}, Arrive(r, m, sid)
  PROVE  AuditInv(r)'
<1>1. /\ UNCHANGED <<outcome, reply, sent, audits>> /\ pc[r] = "idle" /\ pc'[r] = "routing"
  BY DEF Arrive, RouterTypeOK
<1>2. outcome'[r] = "none" /\ audits'[r] = "none" /\ ~Replied(r)'
  BY <1>1 DEF AuditInv, Over, Replied
<1> QED  BY <1>1, <1>2 DEF AuditInv, OkOutcomes, Errors

(* What nothing of the message's own changes keeps. *)
LEMMA AuditUntouched ==
  ASSUME NEW r \in Requests, AuditInv(r), pc'[r] = pc[r], inbound'[r] = inbound[r],
         outcome'[r] = outcome[r], reply'[r] = reply[r], sent'[r] = sent[r], audits'[r] = audits[r]
  PROVE  AuditInv(r)'
<1>1. IsToolCall(r)' = IsToolCall(r)
  BY SameMessage
<1> QED  BY <1>1 DEF AuditInv, Sent, Replied, AuthDecision

(* The step of a message, as the others see it. *)
MessageStep(r) ==
  \/ Advance(r) \/ Disconnect(r)
  \/ \E m \in Inbox, sid \in issued \union {StraySession, NoSessionId} : Arrive(r, m, sid)

LEMMA OthersUntouched ==
  ASSUME RouterTypeOK, NEW r \in Requests, NEW q \in Requests \ {r}, MessageStep(r)
  PROVE  /\ pc'[q] = pc[q] /\ inbound'[q] = inbound[q] /\ outcome'[q] = outcome[q]
         /\ reply'[q] = reply[q] /\ sent'[q] = sent[q] /\ audits'[q] = audits[q]
<1>1. CASE Advance(r)
  BY <1>1 DEF Advance, Route, EvaluatePolicy, HandleToolsList, ProxyToUpstream, LookupTool,
              ValidateArguments, EvaluateConstraints, CheckSession, LogCall, ForwardRequest, UpstreamAnswers,
              InspectEgress, Conclude, Dispatch, Goto, Finish, Untouched, RouterTypeOK
<1>2. CASE Disconnect(r)
  BY <1>2 DEF Disconnect, Untouched, RouterTypeOK
<1>3. CASE \E m \in Inbox, sid \in issued \union {StraySession, NoSessionId} : Arrive(r, m, sid)
  BY <1>3 DEF Arrive, RouterTypeOK
<1> QED  BY <1>1, <1>2, <1>3 DEF MessageStep

TrailInv == \A r \in Requests : AuditInv(r)

LEMMA AuditStep ==
  ASSUME RouterInv, TrailInv, [RouterNext]_vars
  PROVE  TrailInv'
<1>1. RouterTypeOK /\ \A r \in Requests : RequestInv(r) /\ AuditInv(r)
  BY DEF RouterInv, TrailInv
<1>2. CASE \E r \in Requests : MessageStep(r)
  <2>1. PICK r \in Requests : MessageStep(r)
    BY <1>2
  <2>2. AuditInv(r)'
    BY <1>1, <2>1, RoutingAudit, GateAudit, AnswerAudit, OverAudit, ArriveAudit DEF MessageStep, Advance
  <2>3. \A q \in Requests \ {r} : AuditInv(q)'
    BY <1>1, <2>1, OthersUntouched, AuditUntouched
  <2> QED  BY <2>2, <2>3 DEF TrailInv
<1>3. CASE RegistryChanges \/ SessionsChange \/ UNCHANGED vars
  <2>1. UNCHANGED callVars
    BY <1>3 DEF RegistryChanges, SessionsChange, vars
  <2> QED  BY <1>1, <2>1, AuditUntouched DEF callVars, TrailInv
<1> QED  BY <1>2, <1>3 DEF RouterNext, MessageStep

LEMMA TrailInitInv == RouterInit => TrailInv
<1> SUFFICES ASSUME RouterInit, NEW r \in Requests PROVE AuditInv(r)
  BY DEF TrailInv
<1> QED  BY DEF RouterInit, AuditInv, Over, OkOutcomes, Errors, Sent, Replied, NoReply

LEMMA TrailAgrees == RouterTypeOK /\ TrailInv => AuditAgreesWithUpstream
<1> SUFFICES ASSUME RouterTypeOK, NEW r \in Requests, AuditInv(r)
             PROVE  /\ audits[r] \in {"Block", "DenyPolicy"} => ~Sent(r)
                    /\ (audits[r] = "Allow" /\ (IsToolCall(r) \/ Sent(r))) => reply[r].shape # "none"
                    /\ audits[r] = "Deny" => /\ reply[r].shape = "none"
                                             /\ Sent(r) => outcome[r] \in UpstreamFailures
  BY DEF TrailInv, AuditAgreesWithUpstream
<1>1. audits[r] \notin {"none", "lost"} => audits[r] = AuthDecision(outcome[r])
  BY DEF AuditInv
<1>2. CASE audits[r] \in {"Block", "DenyPolicy"}
  <2>1. outcome[r] \in Errors /\ outcome[r] \notin UpstreamFailures
    BY <1>1, <1>2 DEF AuthDecision, Errors, UpstreamFailures
  <2> QED  BY <1>2, <2>1 DEF AuditInv
<1>3. CASE audits[r] = "Allow"
  <2>1. outcome[r] \in OkOutcomes
    BY <1>1, <1>3 DEF AuthDecision
  <2> QED  BY <1>3, <2>1 DEF AuditInv, Replied
<1>4. CASE audits[r] = "Deny"
  <2>1. outcome[r] \notin OkOutcomes
    BY <1>1, <1>4 DEF AuthDecision
  <2>2. outcome[r] # "none"
    BY <1>4 DEF AuditInv
  <2>3. outcome[r] \in Errors
    BY <2>1, <2>2 DEF RouterTypeOK
  <2> QED  BY <1>4, <2>3 DEF AuditInv, Replied
<1> QED  BY <1>2, <1>3, <1>4

(* The audit trail tells the truth about the upstream servers, its four     *)
(* decisions each: what it calls blocked or denied by policy never left the *)
(* gateway, what it calls allowed and left came back with a reply, and what *)
(* it calls denied has none: it was refused, or it left and failed.         *)
(* (handle_message)                                                         *)
THEOREM AuditTrailAgrees == RouterSpec => []AuditAgreesWithUpstream
<1>1. RouterInv /\ TrailInv => AuditAgreesWithUpstream
  BY TrailAgrees DEF RouterInv
<1> QED  BY <1>1, TrailInitInv, AuditStep, RouterInvariant, PTL DEF RouterSpec

-----------------------------------------------------------------------------
(* No message goes back: every step of its own takes it to a later stage,   *)
(* so that it takes at most as many as there are stages, whatever happens   *)
(* around it.  That is the part of EveryMessageSettles that needs no        *)
(* fairness.                                                                *)
Rank(stage) ==
  CASE stage = "idle" -> 0
    [] stage = "routing" -> 1
    [] stage = "policy" -> 2
    [] stage \in {"list", "default", "lookup"} -> 3
    [] stage = "validate" -> 4
    [] stage = "constrain" -> 5
    [] stage = "session" -> 6
    [] stage = "log" -> 7
    [] stage = "send" -> 8
    [] stage = "upstream" -> 9
    [] stage = "inspect" -> 10
    [] stage = "settled" -> 11
    [] stage \in {"answered", "gone"} -> 12

Places == Stages \union {"idle", "answered", "gone"}

(* Of all messages at most one moves, and it moves forward; the others keep *)
(* their stage and their result.                                            *)
OneGoesForward ==
  \/ UNCHANGED <<pc, outcome>>
  \/ \E r \in Requests :
       /\ Rank(pc'[r]) > Rank(pc[r])
       /\ \A q \in Requests \ {r} : pc'[q] = pc[q] /\ outcome'[q] = outcome[q]

(* A result is final: it is there before the audit event is published, and  *)
(* neither the event, nor its failure, nor the transport's leaving, nor     *)
(* another message changes it.                                              *)
ResultsAreFinal ==
  \A r \in Requests : outcome[r] # "none" => outcome'[r] = outcome[r]

(* What a step does to the stage and the result of its own message.         *)
Forward(r) ==
  /\ pc[r] \in Places /\ pc'[r] \in Places /\ Rank(pc'[r]) > Rank(pc[r])
  /\ outcome[r] # "none" => outcome'[r] = outcome[r]

LEMMA GotoMoves ==
  ASSUME RouterTypeOK, NEW r \in Requests, NEW stage \in Places, Goto(r, stage)
  PROVE  pc'[r] = stage /\ outcome' = outcome
BY DEF RouterTypeOK, Goto

LEMMA FinishMoves ==
  ASSUME RouterTypeOK, NEW r \in Requests, NEW result, Finish(r, result)
  PROVE  pc'[r] = "settled"
BY DEF RouterTypeOK, Finish

LEMMA DispatchGoesForward ==
  ASSUME RouterTypeOK, NEW r \in Requests, Dispatch(r)
  PROVE  pc'[r] \in {"list", "lookup", "default", "settled"}
<1>1. \/ \E result : Finish(r, result)
      \/ \E stage \in {"list", "lookup", "default"} : Goto(r, stage)
  BY DEF Dispatch
<1> QED  BY <1>1, FinishMoves, GotoMoves DEF Places, Stages

(* The stage that each step of the pipeline leads to. *)
LEMMA AdvanceLeads ==
  ASSUME RouterTypeOK, NEW r \in Requests, Advance(r)
  PROVE  \/ pc[r] \in {"routing", "policy"}
            /\ pc'[r] \in {"list", "lookup", "default", "settled"}
         \/ pc[r] = "routing" /\ pc'[r] = "policy"
         \/ pc[r] = "list" /\ pc'[r] = "settled"
         \/ pc[r] = "default" /\ pc'[r] \in {"send", "settled"}
         \/ pc[r] = "lookup" /\ pc'[r] \in {"validate", "constrain", "session", "send", "settled"}
         \/ pc[r] = "validate" /\ pc'[r] \in {"constrain", "session", "send", "settled"}
         \/ pc[r] = "constrain" /\ pc'[r] \in {"session", "send", "settled"}
         \/ pc[r] = "session" /\ pc'[r] \in {"log", "settled"}
         \/ pc[r] = "log" /\ pc'[r] = "send"
         \/ pc[r] = "send" /\ pc'[r] \in {"upstream", "settled"}
         \/ pc[r] = "upstream" /\ pc'[r] \in {"inspect", "settled"}
         \/ pc[r] = "inspect" /\ pc'[r] = "settled"
         \/ pc[r] = "settled" /\ pc'[r] = "answered" /\ outcome' = outcome
<1> USE GotoMoves, FinishMoves, DispatchGoesForward
<1> USE DEF Places, Stages
<1>1. CASE Route(r)
  BY <1>1 DEF Route
<1>2. CASE EvaluatePolicy(r)
  BY <1>2 DEF EvaluatePolicy
<1>3. CASE HandleToolsList(r)
  BY <1>3 DEF HandleToolsList
<1>4. CASE ProxyToUpstream(r)
  BY <1>4 DEF ProxyToUpstream
<1>5. CASE LookupTool(r)
  BY <1>5 DEF LookupTool, AfterLookup, AfterValidation, AfterConstraints
<1>6. CASE ValidateArguments(r)
  BY <1>6 DEF ValidateArguments, AfterValidation, AfterConstraints
<1>7. CASE EvaluateConstraints(r)
  BY <1>7 DEF EvaluateConstraints, AfterConstraints
<1>8. CASE CheckSession(r)
  BY <1>8 DEF CheckSession
<1>9. CASE LogCall(r)
  BY <1>9 DEF LogCall
<1>10. CASE ForwardRequest(r)
  BY <1>10 DEF ForwardRequest
<1>11. CASE UpstreamAnswers(r)
  BY <1>11 DEF UpstreamAnswers
<1>12. CASE InspectEgress(r)
  BY <1>12 DEF InspectEgress
<1>13. CASE Conclude(r)
  BY <1>13 DEF Conclude, RouterTypeOK
<1> QED  BY <1>1, <1>2, <1>3, <1>4, <1>5, <1>6, <1>7, <1>8, <1>9, <1>10, <1>11, <1>12, <1>13 DEF Advance

LEMMA StepGoesForward ==
  ASSUME RouterTypeOK, NEW r \in Requests, AuditInv(r), MessageStep(r)
  PROVE  Forward(r)
<1>1. ASSUME NEW m, NEW sid, Arrive(r, m, sid)
      PROVE  pc[r] = "idle" /\ pc'[r] = "routing" /\ outcome' = outcome
  BY <1>1 DEF Arrive, RouterTypeOK
<1>2. CASE Disconnect(r)
  <2>1. pc[r] \in Stages /\ pc'[r] = "gone" /\ outcome' = outcome
    BY <1>2 DEF Disconnect, RouterTypeOK
  <2> QED  BY <2>1 DEF Forward, Places, Stages, Rank
<1>3. CASE Advance(r)
  <2>1. outcome[r] # "none" => pc[r] \in Over
    BY DEF AuditInv
  <2>2. Rank(pc'[r]) > Rank(pc[r]) /\ pc[r] \in Places /\ pc'[r] \in Places
    BY <1>3, AdvanceLeads DEF Rank, Places, Stages
  <2>3. pc[r] \in Over => outcome' = outcome
    BY <1>3, AdvanceLeads DEF Over
  <2> QED  BY <2>1, <2>2, <2>3 DEF Forward
<1>4. pc[r] = "idle" /\ pc'[r] = "routing" /\ outcome' = outcome => Forward(r)
  BY DEF Forward, Places, Stages, Rank
<1> QED  BY <1>1, <1>2, <1>3, <1>4 DEF MessageStep

LEMMA MessagesStep ==
  ASSUME RouterInv, TrailInv, [RouterNext]_vars
  PROVE  [OneGoesForward /\ ResultsAreFinal]_vars
<1>1. CASE \E r \in Requests : MessageStep(r)
  <2>1. PICK r \in Requests : MessageStep(r)
    BY <1>1
  <2>2. Forward(r)
    BY <2>1, StepGoesForward DEF RouterInv, TrailInv
  <2>3. ASSUME NEW q \in Requests \ {r} PROVE pc'[q] = pc[q] /\ outcome'[q] = outcome[q]
    BY <2>1, OthersUntouched DEF RouterInv
  <2> QED  BY <2>2, <2>3 DEF OneGoesForward, ResultsAreFinal, Forward
<1>2. CASE RegistryChanges \/ SessionsChange \/ UNCHANGED vars
  BY <1>2 DEF RegistryChanges, SessionsChange, vars, callVars, OneGoesForward, ResultsAreFinal
<1> QED  BY <1>1, <1>2 DEF RouterNext, MessageStep

(* For any number of messages, and whatever registrations, sessions and     *)
(* locks do meanwhile: a message only ever moves on, by its own steps, and  *)
(* keeps the result it got.  (McpRouter::handle_message)                    *)
THEOREM MessagesGoForward == RouterSpec => [][OneGoesForward /\ ResultsAreFinal]_vars
<1>1. RouterSpec => []TrailInv
  BY TrailInitInv, AuditStep, RouterInvariant, PTL DEF RouterSpec
<1> QED  BY <1>1, MessagesStep, RouterInvariant, PTL DEF RouterSpec

-----------------------------------------------------------------------------
(* The log of a session. *)
Unlogged == {"idle", "routing", "policy", "list", "default"} \union InToolCall

Calls(s) == sessions[s].calls

NotIn(r, log) == \A i \in DOMAIN log : log[i] # r

OnceIn(r, log) ==
  \E i \in DOMAIN log : log[i] = r /\ \A j \in DOMAIN log \ {i} : log[j] # r

LogInv(r) ==
  /\ Sid(r) \in issued \union {StraySession, NoSessionId}
  /\ pc[r] \in Unlogged => \A s \in SessionIds : Live(s) => NotIn(r, Calls(s))
  /\ (Has("sessions") /\ Leaving(r) /\ Live(Sid(r))) => OnceIn(r, Calls(Sid(r)))

(* What others do to the sessions: a log is kept, is a new one, or gets    *)
(* the record of another message.                                          *)
OthersLog(r) ==
  /\ issued \subseteq issued'
  /\ \A s \in SessionIds : Live(s)' =>
       \/ s \notin issued /\ Calls(s)' = <<>>
       \/ Live(s) /\ Calls(s)' = Calls(s)
       \/ Live(s) /\ \E q \in Requests \ {r} : Calls(s)' = Append(Calls(s), q)

LEMMA LogType ==
  ASSUME SessionTypeOK, NEW s, Live(s)
  PROVE  s \in SessionIds /\ sessions[s] \in Session /\ Calls(s) \in Seq(CallRecords)
BY DEF SessionTypeOK, Live, Calls, Session

(* Appending another record keeps how often a record is in the log.        *)
LEMMA AppendOther ==
  ASSUME NEW S, NEW log \in Seq(S), NEW r, NEW q \in S, q # r
  PROVE  /\ NotIn(r, log) => NotIn(r, Append(log, q))
         /\ OnceIn(r, log) => OnceIn(r, Append(log, q))
<1> DEFINE longer == Append(log, q)
<1>1. /\ DOMAIN longer = 1 .. Len(log) + 1 /\ DOMAIN log = 1 .. Len(log) /\ Len(log) \in Nat
      /\ longer[Len(log) + 1] = q
      /\ \A i \in 1 .. Len(log) : longer[i] = log[i]
  OBVIOUS
<1> HIDE DEF longer
<1>2. NotIn(r, log) => NotIn(r, longer)
  BY <1>1 DEF NotIn
<1>3. OnceIn(r, log) => OnceIn(r, longer)
  <2> SUFFICES ASSUME NEW i \in DOMAIN log, log[i] = r, \A j \in DOMAIN log \ {i} : log[j] # r
               PROVE  OnceIn(r, longer)
    BY DEF OnceIn
  <2>1. i \in DOMAIN longer /\ longer[i] = r
    BY <1>1
  <2>2. \A j \in DOMAIN longer \ {i} : longer[j] # r
    BY <1>1
  <2> QED  BY <2>1, <2>2 DEF OnceIn
<1> QED  BY <1>2, <1>3 DEF longer

(* The first record of a message makes it one. *)
LEMMA AppendItself ==
  ASSUME NEW S, NEW log \in Seq(S), NEW r \in S, NotIn(r, log)
  PROVE  OnceIn(r, Append(log, r))
<1> DEFINE longer == Append(log, r)
<1>1. /\ DOMAIN longer = 1 .. Len(log) + 1 /\ DOMAIN log = 1 .. Len(log) /\ Len(log) \in Nat
      /\ longer[Len(log) + 1] = r
      /\ \A i \in 1 .. Len(log) : longer[i] = log[i]
  OBVIOUS
<1> HIDE DEF longer
<1>2. Len(log) + 1 \in DOMAIN longer /\ \A j \in DOMAIN longer \ {Len(log) + 1} : longer[j] # r
  BY <1>1 DEF NotIn
<1>3. OnceIn(r, longer)
  BY <1>1, <1>2 DEF OnceIn
<1> QED  BY <1>3 DEF longer

(* A message whose own record is not written keeps what its log says, if   *)
(* it leaves only with its record there, or without a session.             *)
LEMMA LogKept ==
  ASSUME SessionTypeOK, NEW r \in Requests, LogInv(r), OthersLog(r), inbound'[r] = inbound[r],
         pc'[r] \in Unlogged => pc[r] \in Unlogged,
         (Leaving(r)' /\ Has("sessions")) => Leaving(r) \/ Sid(r) = NoSessionId
  PROVE  LogInv(r)'
<1>1. Sid(r)' = Sid(r)
  BY SameMessage
<1>2. Sid(r)' \in issued' \union {StraySession, NoSessionId}
  BY <1>1 DEF LogInv, OthersLog
<1>3. \A q \in Requests : q \in CallRecords
  BY RouterAssumption
<1>4. ASSUME NEW s \in SessionIds, Live(s)', pc'[r] \in Unlogged
      PROVE  NotIn(r, Calls(s)')
  <2>1. CASE Calls(s)' = <<>>
    BY <2>1 DEF NotIn
  <2>2. CASE Live(s) /\ (Calls(s)' = Calls(s) \/ \E q \in Requests \ {r} : Calls(s)' = Append(Calls(s), q))
    <3>1. NotIn(r, Calls(s)) /\ Calls(s) \in Seq(CallRecords)
      BY <1>4, <2>2, LogType DEF LogInv
    <3> QED  BY <1>3, <2>2, <3>1, AppendOther
  <2> QED  BY <1>4, <2>1, <2>2 DEF OthersLog
<1>5. ASSUME Has("sessions"), Leaving(r)', Live(Sid(r))'
      PROVE  OnceIn(r, Calls(Sid(r))')
  <2>1. PICK s \in SessionIds : s = Sid(r) /\ s = Sid(r)'
    BY <1>1, <1>5 DEF Live
  <2>2. s # NoSessionId /\ s # StraySession
    BY RouterAssumption
  <2>3. s \in issued /\ Leaving(r)
    BY <1>5, <2>1, <2>2 DEF LogInv
  <2>4. Live(s)'
    BY <1>5, <2>1 DEF Live
  <2>5. Live(s) /\ (Calls(s)' = Calls(s) \/ \E q \in Requests \ {r} : Calls(s)' = Append(Calls(s), q))
    BY <2>3, <2>4 DEF OthersLog
  <2>6. OnceIn(r, Calls(s)) /\ Calls(s) \in Seq(CallRecords)
    BY <1>5, <2>1, <2>3, <2>5, LogType DEF LogInv
  <2>7. OnceIn(r, Calls(s)')
    BY <1>3, <2>5, <2>6, AppendOther
  <2> QED  BY <2>1, <2>7 DEF Calls
<1> QED  BY <1>2, <1>4, <1>5 DEF LogInv, Calls, NotIn, OnceIn

LEMMA QuietSessions ==
  ASSUME NEW r \in Requests, UNCHANGED sessionVars
  PROVE  OthersLog(r)
BY DEF OthersLog, sessionVars, Live, Calls

(* Sessions that are created, locked and terminated forget no record. *)
LEMMA AdminLogs ==
  ASSUME SessionTypeOK, NEW r \in Requests, SessionAdmin
  PROVE  OthersLog(r)
<1>1. PICK s \in SessionIds : CreateSession(s) \/ TerminateSession(s) \/ \E c \in Contexts : LockContext(s, c)
  BY Zenon DEF SessionAdmin
<1>2. CASE CreateSession(s)
  <2>1. s \notin issued /\ issued \subseteq issued' /\ sessions'[s] = [locked |-> NoContext, calls |-> <<>>]
        /\ \A t \in SessionIds \ {s} : sessions'[t] = sessions[t]
    BY <1>2 DEF CreateSession, SessionTypeOK
  <2>2. Calls(s)' = <<>>
    BY <2>1 DEF Calls
  <2> QED  BY <2>1, <2>2 DEF OthersLog, Live, Calls
<1>3. CASE \E c \in Contexts : LockContext(s, c)
  <2>1. PICK c \in Contexts : LockContext(s, c)
    BY <1>3
  <2>2. Live(s) /\ sessions[s] \in Session /\ issued' = issued
        /\ sessions'[s] = [sessions[s] EXCEPT !.locked = c]
        /\ \A t \in SessionIds \ {s} : sessions'[t] = sessions[t]
    BY <2>1 DEF LockContext, Live, SessionTypeOK
  <2>3. Calls(s)' = Calls(s)
    BY <2>2 DEF Calls, Session
  <2> QED  BY <2>2, <2>3 DEF OthersLog, Live, Calls
<1>4. CASE TerminateSession(s)
  BY <1>4 DEF TerminateSession, SessionTypeOK, OthersLog, Live, Calls
<1> QED  BY <1>1, <1>2, <1>3, <1>4

(* log_tool_call, with the record of message q. *)
LEMMA Logging ==
  ASSUME SessionTypeOK, NEW q \in Requests, NEW s, LogToolCall(s, q)
  PROVE  /\ s \in SessionIds /\ Live(s) /\ issued' = issued
         /\ Calls(s)' = Append(Calls(s), q)
         /\ \A t \in SessionIds \ {s} : sessions'[t] = sessions[t]
<1>1. Live(s) /\ s \in SessionIds /\ sessions[s] \in Session
  BY LogType DEF LogToolCall
<1>2. /\ sessions'[s] = [sessions[s] EXCEPT !.calls = Append(@, q)]
      /\ \A t \in SessionIds \ {s} : sessions'[t] = sessions[t]
  BY <1>1 DEF LogToolCall, SessionTypeOK
<1>3. Calls(s)' = Append(Calls(s), q)
  BY <1>1, <1>2 DEF Calls, Session
<1> QED  BY <1>1, <1>2, <1>3 DEF LogToolCall

LEMMA LogCallOfAnother ==
  ASSUME RouterTypeOK, NEW r \in Requests, NEW q \in Requests \ {r}, LogCall(q)
  PROVE  OthersLog(r)
<1>1. CASE UNCHANGED sessionVars
  BY <1>1, QuietSessions
<1>2. CASE LogToolCall(Sid(q), q)
  <2>1. PICK s : s = Sid(q)
    OBVIOUS
  <2>2. SessionTypeOK /\ LogToolCall(s, q)
    BY <1>2, <2>1 DEF RouterTypeOK, LogToolCall, Live
  <2>3. /\ s \in SessionIds /\ Live(s) /\ issued' = issued /\ Calls(s)' = Append(Calls(s), q)
        /\ \A t \in SessionIds \ {s} : sessions'[t] = sessions[t]
    BY <2>2, Logging
  <2> QED  BY <2>3 DEF OthersLog, Live, Calls
<1> QED  BY <1>1, <1>2 DEF LogCall

(* A call writes its own record when it leaves its last stage before the   *)
(* upstream server, and had none before.                                   *)
LEMMA OwnLogCall ==
  ASSUME RouterTypeOK, NEW r \in Requests, LogInv(r), LogCall(r)
  PROVE  LogInv(r)'
<1>1. pc[r] = "log" /\ pc'[r] = "send" /\ pc[r] \in Unlogged /\ pc'[r] \notin Unlogged
  BY Moved DEF LogCall, Unlogged, InToolCall
<1>2. inbound' = inbound /\ Sid(r)' = Sid(r)
  <2>1. inbound' = inbound
    BY DEF LogCall, Untouched
  <2> QED  BY <2>1, SameMessage
<1>3. CASE ~Live(Sid(r)) /\ UNCHANGED sessionVars
  BY <1>1, <1>2, <1>3 DEF LogInv, Live, sessionVars
<1>4. CASE LogToolCall(Sid(r), r)
  <2>1. PICK s : s = Sid(r)
    OBVIOUS
  <2>2. SessionTypeOK /\ LogToolCall(s, r)
    BY <1>4, <2>1 DEF RouterTypeOK, LogToolCall, Live
  <2>3. s \in SessionIds /\ Live(s) /\ issued' = issued /\ Calls(s)' = Append(Calls(s), r)
    BY <2>2, Logging
  <2>4. NotIn(r, Calls(s)) /\ Calls(s) \in Seq(CallRecords) /\ r \in CallRecords
    BY <1>1, <2>2, <2>3, LogType, RouterAssumption DEF LogInv
  <2>5. OnceIn(r, Calls(s)')
    BY <2>3, <2>4, AppendItself
  <2>6. OnceIn(r, Calls(Sid(r)))'
    BY <1>2, <2>1, <2>5 DEF Calls, OnceIn
  <2> QED  BY <1>1, <1>2, <2>3, <2>6 DEF LogInv
<1> QED  BY <1>3, <1>4 DEF LogCall

(* The other steps of a message write no record: they end before the send, *)
(* are past it, or go to it where there is no session to log in.           *)
LEMMA OwnQuietStep ==
  ASSUME RouterTypeOK, NEW r \in Requests, RequestInv(r), LogInv(r), Advance(r) \/ Disconnect(r), ~LogCall(r)
  PROVE  LogInv(r)'
<1>1. UNCHANGED sessionVars /\ inbound' = inbound
  BY DEF Advance, Disconnect, Route, EvaluatePolicy, HandleToolsList, ProxyToUpstream, LookupTool,
         ValidateArguments, EvaluateConstraints, CheckSession, ForwardRequest, UpstreamAnswers,
         InspectEgress, Conclude, Untouched
<1>2. IsToolCall(r)' = IsToolCall(r)
  BY <1>1, SameMessage
<1>3. pc[r] \in Unlogged \/ (pc[r] \in {"send", "upstream", "inspect", "settled"} /\ pc'[r] \notin Unlogged)
  <2>1. CASE ForwardRequest(r) \/ UpstreamAnswers(r) \/ InspectEgress(r)
    BY <2>1, Moved DEF ForwardRequest, UpstreamAnswers, InspectEgress, Unlogged, InToolCall
  <2>2. CASE Conclude(r)
    BY <2>2 DEF Conclude, RouterTypeOK, Unlogged, InToolCall
  <2>3. CASE Disconnect(r)
    BY <2>3 DEF Disconnect, RouterTypeOK, Unlogged, InToolCall, Stages
  <2>4. CASE Route(r) \/ EvaluatePolicy(r) \/ HandleToolsList(r) \/ ProxyToUpstream(r) \/ LookupTool(r)
             \/ ValidateArguments(r) \/ EvaluateConstraints(r) \/ CheckSession(r)
    BY <2>4 DEF Route, EvaluatePolicy, HandleToolsList, ProxyToUpstream, LookupTool,
                ValidateArguments, EvaluateConstraints, CheckSession, Unlogged, InToolCall
  <2> QED  BY <2>1, <2>2, <2>3, <2>4 DEF Advance
<1>4. ASSUME Leaving(r)', Has("sessions"), ~Leaving(r)
      PROVE  Sid(r) = NoSessionId
  <2>1. IsToolCall(r) /\ ~Sent(r) /\ pc[r] # "send"
    BY <1>2, <1>4 DEF Leaving
  <2>2. pc'[r] = "send"
    <3>1. ForwardRequest(r) \/ sent' = sent
      BY DEF Advance, Disconnect, Route, EvaluatePolicy, HandleToolsList, ProxyToUpstream, LookupTool,
             ValidateArguments, EvaluateConstraints, CheckSession, LogCall, UpstreamAnswers,
             InspectEgress, Conclude
    <3>2. ~Sent(r)'
      BY <2>1, <3>1 DEF ForwardRequest, Sent
    <3> QED  BY <1>4, <3>2 DEF Leaving
  <2>3. \/ LookupTool(r) /\ AfterLookup(r) = "send"
        \/ ValidateArguments(r) /\ AfterValidation(r) = "send"
        \/ EvaluateConstraints(r) /\ AfterConstraints(r) = "send"
    <3>1. CASE Route(r) \/ EvaluatePolicy(r)
      <4>1. \/ \E result : Finish(r, result)
            \/ \E stage \in {"policy", "list", "lookup", "default"} : Goto(r, stage)
        BY <3>1 DEF Route, EvaluatePolicy, Dispatch
      <4> QED  BY <2>2, <4>1, Moved
    <3>2. CASE HandleToolsList(r) \/ ProxyToUpstream(r)
      BY <2>1, <3>2 DEF HandleToolsList, ProxyToUpstream, RequestInv, AtMethod
    <3>3. CASE LookupTool(r) \/ ValidateArguments(r) \/ EvaluateConstraints(r)
      BY <2>2, <3>3, Moved DEF LookupTool, ValidateArguments, EvaluateConstraints
    <3>4. CASE CheckSession(r) \/ ForwardRequest(r) \/ UpstreamAnswers(r) \/ InspectEgress(r)
      BY <2>1, <2>2, <3>4, Moved DEF CheckSession, ForwardRequest, UpstreamAnswers, InspectEgress
    <3>5. CASE Conclude(r) \/ Disconnect(r)
      BY <2>2, <3>5 DEF Conclude, Disconnect, RouterTypeOK
    <3> QED  BY <3>1, <3>2, <3>3, <3>4, <3>5 DEF Advance
  <2> QED  BY <1>4, <2>3 DEF AfterLookup, AfterValidation, AfterConstraints
<1>5. SessionTypeOK /\ OthersLog(r)
  BY <1>1, QuietSessions DEF RouterTypeOK
<1> QED  BY <1>1, <1>3, <1>4, <1>5, LogKept

(* A message that arrives is in no log, and was in none. *)
LEMMA ArriveLog ==
  ASSUME RouterTypeOK, NEW r \in Requests, RequestInv(r), LogInv(r), NEW m \in Inbox,
         NEW sid \in issued \union {StraySession, NoSessionId}, Arrive(r, m, sid)
  PROVE  LogInv(r)'
<1>1. /\ UNCHANGED sessionVars /\ UNCHANGED sent /\ pc[r] = "idle" /\ pc'[r] = "routing" /\ inbound'[r].session = sid
  BY DEF Arrive, RouterTypeOK
<1>2. ~Leaving(r)'
  BY <1>1 DEF RequestInv, AtForward, BeforeUpstream, Leaving, Sent
<1>3. Sid(r)' = sid /\ pc[r] \in Unlogged
  BY <1>1 DEF Sid, Unlogged
<1>4. \A s \in SessionIds : Live(s)' => NotIn(r, Calls(s))'
  BY <1>1, <1>3 DEF LogInv, sessionVars, Live, Calls, NotIn
<1> QED  BY <1>1, <1>2, <1>3, <1>4 DEF LogInv, sessionVars

LogsInv == \A r \in Requests : LogInv(r)

(* Whatever happens around a message. *)
LEMMA LogAround ==
  ASSUME SessionTypeOK, NEW r \in Requests, LogInv(r), OthersLog(r),
         pc'[r] = pc[r], inbound'[r] = inbound[r], sent'[r] = sent[r]
  PROVE  LogInv(r)'
<1>1. Leaving(r)' = Leaving(r)
  BY SameMessage DEF Leaving, Sent
<1> QED  BY <1>1, LogKept

LEMMA LogStep ==
  ASSUME RouterInv, LogsInv, [RouterNext]_vars
  PROVE  LogsInv'
<1>1. RouterTypeOK /\ SessionTypeOK /\ \A r \in Requests : RequestInv(r) /\ LogInv(r)
  BY DEF RouterInv, RouterTypeOK, LogsInv
<1>2. CASE \E r \in Requests : MessageStep(r)
  <2>1. PICK r \in Requests : MessageStep(r)
    BY <1>2
  <2>2. LogInv(r)'
    BY <1>1, <2>1, OwnLogCall, OwnQuietStep, ArriveLog DEF MessageStep
  <2>3. ASSUME NEW q \in Requests \ {r} PROVE LogInv(q)'
    <3>1. LogCall(r) \/ UNCHANGED sessionVars
      BY <2>1 DEF MessageStep, Advance, Route, EvaluatePolicy, HandleToolsList, ProxyToUpstream, LookupTool,
                  ValidateArguments, EvaluateConstraints, CheckSession, ForwardRequest, UpstreamAnswers,
                  InspectEgress, Conclude, Disconnect, Arrive
    <3>2. OthersLog(q)
      BY <1>1, <3>1, LogCallOfAnother, QuietSessions
    <3> QED  BY <1>1, <2>1, <3>2, OthersUntouched, LogAround
  <2> QED  BY <2>2, <2>3 DEF LogsInv
<1>3. CASE RegistryChanges \/ SessionsChange \/ UNCHANGED vars
  <2>1. UNCHANGED callVars /\ (SessionAdmin \/ UNCHANGED sessionVars)
    BY <1>3 DEF RegistryChanges, SessionsChange, vars
  <2>2. ASSUME NEW r \in Requests PROVE LogInv(r)'
    <3>1. OthersLog(r)
      BY <1>1, <2>1, AdminLogs, QuietSessions
    <3> QED  BY <1>1, <2>1, <3>1, LogAround DEF callVars
  <2> QED  BY <2>2 DEF LogsInv
<1> QED  BY <1>2, <1>3 DEF RouterNext, MessageStep

(* Whoever creates, locks and terminates sessions meanwhile, a tool call   *)
(* that went upstream is in the log of its session exactly once.           *)
(* (log_tool_call before forward_request in handle_tools_call)             *)
THEOREM CallsAreLoggedOnce == RouterSpec => []LoggedBeforeUpstream
<1>1. RouterInit => LogsInv
  <2> SUFFICES ASSUME RouterInit, NEW r \in Requests PROVE LogInv(r)
    BY DEF LogsInv
  <2>1. Sid(r) = NoSessionId /\ ~Leaving(r) /\ \A s \in SessionIds : ~Live(s)
    BY DEF RouterInit, SessionInit, NoInbound, Sid, Leaving, Sent, Live
  <2> QED  BY <2>1 DEF LogInv
<1>2. LogsInv => LoggedBeforeUpstream
  BY DEF LogsInv, LogInv, LoggedBeforeUpstream, Leaving, OnceIn, Calls
<1> QED  BY <1>1, <1>2, LogStep, RouterInvariant, PTL DEF RouterSpec
=============================================================================
