------------------------------ MODULE Gateway ------------------------------
(***************************************************************************)
(* The router (McpRouter) with the proxy it calls (UpstreamProxy).  A      *)
(* message that is to go upstream becomes a task of the proxy: it waits    *)
(* for the server table, a permit and the table again, and is dropped with *)
(* the message when the client goes away.  The server table is the one     *)
(* that start-up left (main.rs registers nothing later), so that the       *)
(* first key of its HashMap, the default server, is always the same.       *)
(* Nor does anything in the program create a session, so that the session  *)
(* manager, if there is one, stays empty.                                  *)
(*                                                                         *)
(* McpRouter sees a call as one step to the upstream server and one back.  *)
(* That this view is right, waiting and all, is what ImplementsRouter says.*)
(***************************************************************************)
EXTENDS McpRouter, FiniteSets

CONSTANTS
  Table,      \* UpstreamProxy.servers after start-up
  NoEntry,    \* no server under this id
  Limit,      \* max_concurrent_upstream
  Silent      \* servers whose host takes requests and never answers

VARIABLES permits, permitQueue, lockQueue, taskPc, target, taskResult, picked

taskVars == <<permits, permitQueue, lockQueue, taskPc, target, taskResult, picked>>
gatewayVars == <<vars, taskVars>>

Proxy == INSTANCE UpstreamProxy WITH
  Calls <- Requests, Registrars <- {}, ServerIds <- DOMAIN Table, Offered <- {},
  servers <- Table, pending <- <<>>, pc <- taskPc, result <- taskResult

(* The proxy plays the echo server itself and calls the ones with a URL. *)
Reachable(s) == s \in DOMAIN Table /\ Table[s] # NoEntry /\ (Table[s].echo \/ Proxy!CallsOut(Table[s]))

Known == {s \in DOMAIN Table : Table[s] # NoEntry}

ASSUME GatewayAssumption ==
  /\ IsFiniteSet(Requests)
  /\ Table \in [Servers -> Proxy!Entry \union {NoEntry}]
  /\ ProxyServers = {s \in DOMAIN Table : Reachable(s)}
  /\ IF Known = {} THEN DefaultServer = NoServer ELSE DefaultServer \in Known
  /\ Limit \in Nat \ {0}
  /\ Silent \subseteq DOMAIN Table

GatewayInit ==
  /\ RouterInit
  /\ permits = Limit /\ permitQueue = <<>> /\ lockQueue = <<>>
  /\ taskPc = [r \in Requests |-> "idle"]
  /\ target = [r \in Requests |-> Proxy!NoTarget]
  /\ taskResult = [r \in Requests |-> "none"]
  /\ picked = [r \in Requests |-> FALSE]

-----------------------------------------------------------------------------
(* The steps of a message that the proxy has no part in. *)
WithoutProxy(r) ==
  \/ Route(r) \/ EvaluatePolicy(r) \/ HandleToolsList(r) \/ LookupTool(r)
  \/ ValidateArguments(r) \/ EvaluateConstraints(r) \/ CheckSession(r) \/ LogCall(r)
  \/ InspectEgress(r) \/ Conclude(r)

(* Slip: the owner is read again when the call is handed over. *)
SubmitLate(r) ==
  /\ pc[r] = "send" /\ taskPc[r] = "idle"
  /\ Proxy!ForwardRequest(r, IF LookupHits(Msg(r).tool) THEN tools[Qualified(Msg(r).tool)].server
                             ELSE entry[r].server)
  /\ UNCHANGED vars

(* A vetted tool call is handed to forward_request. *)
Submit(r) ==
  /\ pc[r] = "send" /\ taskPc[r] = "idle"
  /\ Proxy!ForwardRequest(r, entry[r].server)
  /\ UNCHANGED vars

(* Any other method is handed to proxy_to_upstream. *)
SubmitDefault(r) ==
  /\ pc[r] = "default" /\ taskPc[r] = "idle"
  /\ Proxy!ProxyToUpstream(r)
  /\ UNCHANGED vars

(* default_server_id, of a table that does not change. *)
PickDefault(r) ==
  /\ pc[r] = "default"
  /\ Proxy!DefaultServerId(r)
  /\ IF Known = {} THEN Finish(r, "UpstreamError")
     ELSE target'[r] = DefaultServer /\ Goto(r, "send")
  /\ Untouched /\ UNCHANGED <<sessionVars, entry, reply, sent, audits>>

AcquirePermit(r) == Proxy!AcquirePermit(r) /\ UNCHANGED vars

(* The server is looked up under the read lock and the call leaves, or     *)
(* comes back as an error at once.                                         *)
LookUp(r) ==
  /\ pc[r] = "send"
  /\ Proxy!LookUpServer(r)
  /\ IF Reachable(target[r])
     THEN Goto(r, "upstream") /\ sent' = [sent EXCEPT ![r] = target[r]]
     ELSE Finish(r, "UpstreamError") /\ UNCHANGED sent
  /\ Untouched /\ UNCHANGED <<sessionVars, entry, reply, audits>>

(* What the router makes of what forward_request returned. *)
TakeResult(r, result, failures) ==
  \/ result = "error" /\ (\E failure \in failures : Finish(r, failure)) /\ UNCHANGED reply
  \/ /\ result = "reply"
     /\ \E answer \in UpstreamReplies :
          /\ reply' = [reply EXCEPT ![r] = answer]
          /\ IF IsToolCall(r) /\ Has("egress") /\ answer.shape # "error"
             THEN Goto(r, "inspect") ELSE Finish(r, "Ok")

(* The exchange is over: permit and lock are given back. *)
HttpAnswers(r) ==
  /\ pc[r] = "upstream"
  /\ Proxy!ForwardToHttp(r)
  /\ TakeResult(r, taskResult'[r], {"UpstreamError", "ParseError"})
  /\ Untouched /\ UNCHANGED <<sessionVars, entry, sent, audits>>

(* The echo server has answered within the look-up. *)
EchoAnswers(r) ==
  /\ pc[r] = "upstream" /\ taskPc[r] = "idle"
  /\ TakeResult(r, taskResult[r], {"MethodNotFound"})
  /\ Untouched /\ UNCHANGED <<sessionVars, entry, sent, audits, taskVars>>

(* Slip: the upstream call runs on as a task of its own. *)
DropDetached(r) == Disconnect(r) /\ UNCHANGED taskVars

(* The future of the message is dropped, and the proxy's with it. *)
Drop(r) ==
  /\ Disconnect(r)
  /\ IF taskPc[r] = "idle" THEN UNCHANGED taskVars ELSE Proxy!Cancel(r)

GatewaySteps(r) ==
  \/ WithoutProxy(r) /\ UNCHANGED taskVars
  \/ Submit(r) \/ SubmitDefault(r) \/ PickDefault(r) \/ AcquirePermit(r) \/ LookUp(r)
  \/ HttpAnswers(r) \/ EchoAnswers(r)

GatewayNext ==
  \/ \E r \in Requests, m \in Inbox, sid \in issued \union {StraySession, NoSessionId} :
       Arrive(r, m, sid) /\ UNCHANGED taskVars
  \/ \E r \in Requests : GatewaySteps(r)
  \/ \E r \in Requests : Drop(r)
  \/ RegistryChanges /\ UNCHANGED taskVars

(* As in RouterSpec and ProxySpec; a message that waits for a permit or    *)
(* for the table has no step of its own until its turn comes.              *)
GatewaySpec ==
  GatewayInit /\ [][GatewayNext]_gatewayVars
    /\ \A r \in Requests : WF_gatewayVars(GatewaySteps(r))

-----------------------------------------------------------------------------
(* What the router takes for one step upstream and one step back is what    *)
(* permits, locks, the server table and a host that never answers make of   *)
(* it: the call leaves for the server the router chose, is answered once,   *)
(* and always comes back.  (forward_request as handle_tools_call sees it)   *)
ImplementsRouter == RouterSpec

(* The proxy works for a message exactly while the router waits for it: no  *)
(* permit, lock or place in a queue is kept for a message that is answered, *)
(* refused or gone, and permits are neither lost nor made.  (the guards     *)
(* that the future of a message owns)                                       *)
PermitsFollowMessages ==
  /\ \A r \in Requests :
       /\ taskPc[r] # "idle" => pc[r] \in {"default", "send", "upstream"}
       /\ taskPc[r] = "http" <=> (pc[r] = "upstream" /\ ~Table[sent[r]].echo)
  /\ permits + Cardinality({r \in Requests : Proxy!HoldsPermit(r)}) = Limit
=============================================================================
