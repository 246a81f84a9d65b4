---------------------------- MODULE GatewayProofs ----------------------------
(***************************************************************************)
(* The router over its proxy, proved for any number of messages, servers   *)
(* and permits: the proxy works for a message exactly while the router     *)
(* waits for it, every step of the two together is a step of the router or *)
(* none, and so what was proved of the router holds of the gateway.        *)
(*                                                                         *)
(* The invariant says of a message what its task is doing, and for which   *)
(* server: it is the one that TargetServer names, although the proxy       *)
(* stores it when the call is handed over and reads it two waits later.    *)
(***************************************************************************)
EXTENDS Gateway, McpRouterProofs, FiniteSetTheorems

TaskStages == {"idle", "default", "permit", "lock", "http"}

PermitHolders == {r \in Requests : taskPc[r] \in {"lock", "http"}}

(* What a message's task does, and for which server. *)
TaskInv(r) ==
  /\ taskPc[r] = "default" => pc[r] = "default"
  /\ taskPc[r] \in {"permit", "lock"} => pc[r] = "send" /\ target[r] = TargetServer(r) /\ target[r] \in Servers
  /\ taskPc[r] = "http" => pc[r] = "upstream"
  /\ (pc[r] = "send" /\ taskPc[r] = "idle") => IsToolCall(r)
  /\ pc[r] = "upstream" => sent[r] \in Servers /\ Reachable(sent[r])
  /\ pc[r] = "upstream" => (taskPc[r] = "http" <=> ~Table[sent[r]].echo)

TasksInv ==
  /\ permits \in Nat
  /\ taskPc \in [Requests -> TaskStages]
  /\ target \in [Requests -> Servers \union {Proxy!NoTarget}]
  /\ \A r \in Requests : TaskInv(r)
  /\ permits + Cardinality(PermitHolders) = Limit

-----------------------------------------------------------------------------
(* What is known of the constants. *)
LEMMA TableFacts ==
  /\ DOMAIN Table = Servers /\ Proxy!Registered = Known
  /\ \A s \in Servers : Table[s] \in Proxy!Entry \union {NoEntry}
  /\ \A s \in Servers : Reachable(s) <=> s \in ProxyServers
  /\ Known = {} => DefaultServer = NoServer
  /\ Known # {} => DefaultServer \in Known /\ DefaultServer \in Servers /\ DefaultServer # NoServer
  /\ Limit \in Nat /\ IsFiniteSet(Requests)
<1>1. DOMAIN Table = Servers /\ \A s \in Servers : Table[s] \in Proxy!Entry \union {NoEntry}
  BY GatewayAssumption
<1>2. Known \subseteq Servers /\ Proxy!Registered = Known
  BY <1>1 DEF Known, Proxy!Registered
<1>3. \A s \in Servers : Reachable(s) <=> s \in ProxyServers
  BY <1>1, GatewayAssumption
<1> QED  BY <1>1, <1>2, <1>3, GatewayAssumption, RouterAssumption

(* A step that gives a permit to a message's task, takes one back or does   *)
(* neither leaves their number what it was.                                 *)
LEMMA PermitsCounted ==
  ASSUME TasksInv, NEW r \in Requests,
         \/ PermitHolders' = PermitHolders /\ permits' = permits
         \/ /\ r \notin PermitHolders /\ PermitHolders' = PermitHolders \union {r}
            /\ permits' = permits - 1 /\ permits > 0
         \/ r \in PermitHolders /\ PermitHolders' = PermitHolders \ {r} /\ permits' = permits + 1
  PROVE  permits' \in Nat /\ permits' + Cardinality(PermitHolders') = Limit
<1>1. IsFiniteSet(PermitHolders)
  BY TableFacts, FS_Subset DEF PermitHolders
<1>2. Cardinality(PermitHolders) \in Nat /\ permits \in Nat /\ permits + Cardinality(PermitHolders) = Limit
  BY <1>1, FS_CardinalityType DEF TasksInv
<1>3. CASE PermitHolders' = PermitHolders /\ permits' = permits
  BY <1>2, <1>3
<1>4. CASE r \notin PermitHolders /\ PermitHolders' = PermitHolders \union {r} /\ permits' = permits - 1 /\ permits > 0
  <2>1. Cardinality(PermitHolders') = Cardinality(PermitHolders) + 1
    BY <1>1, <1>4, FS_AddElement
  <2> QED  BY <1>2, <1>4, <2>1
<1>5. CASE r \in PermitHolders /\ PermitHolders' = PermitHolders \ {r} /\ permits' = permits + 1
  <2>1. Cardinality(PermitHolders') = Cardinality(PermitHolders) - 1
    BY <1>1, <1>5, FS_RemoveElement
  <2> QED  BY <1>2, <1>5, <2>1
<1> QED  BY <1>3, <1>4, <1>5

(* A task that goes from one stage to another. *)
TaskGoes(r, stage) == taskPc' = [taskPc EXCEPT ![r] = stage]

(* The task's move and the permits that the proxy has after it agree. *)
LEMMA TaskMoves ==
  ASSUME TasksInv, NEW r \in Requests, NEW stage \in TaskStages, TaskGoes(r, stage),
         LET had == taskPc[r] \in {"lock", "http"}
             has == stage \in {"lock", "http"}
         IN  \/ had = has /\ permits' = permits
             \/ ~had /\ has /\ permits > 0 /\ permits' = permits - 1
             \/ had /\ ~has /\ permits' = permits + 1
  PROVE  /\ permits' \in Nat /\ permits' + Cardinality(PermitHolders') = Limit
         /\ taskPc' \in [Requests -> TaskStages] /\ taskPc'[r] = stage
         /\ \A q \in Requests \ {r} : taskPc'[q] = taskPc[q]
<1>1. /\ taskPc' \in [Requests -> TaskStages] /\ taskPc'[r] = stage
      /\ \A q \in Requests \ {r} : taskPc'[q] = taskPc[q]
  BY DEF TasksInv, TaskGoes
<1>2. PermitHolders' = IF stage \in {"lock", "http"} THEN PermitHolders \union {r} ELSE PermitHolders \ {r}
  BY <1>1 DEF PermitHolders
<1>3. r \in PermitHolders <=> taskPc[r] \in {"lock", "http"}
  BY DEF PermitHolders
<1>4. \/ PermitHolders' = PermitHolders /\ permits' = permits
      \/ r \notin PermitHolders /\ PermitHolders' = PermitHolders \union {r} /\ permits' = permits - 1 /\ permits > 0
      \/ r \in PermitHolders /\ PermitHolders' = PermitHolders \ {r} /\ permits' = permits + 1
  BY <1>2, <1>3
<1> QED  BY <1>1, <1>4, PermitsCounted

(* What each step of the two together does to the task of its message.      *)
LEMMA TaskEffects ==
  ASSUME TasksInv, NEW r \in Requests
  PROVE  /\ Submit(r) => /\ TaskGoes(r, "permit") /\ permits' = permits
                          /\ target' = [target EXCEPT ![r] = entry[r].server]
         /\ SubmitDefault(r) => TaskGoes(r, "default") /\ permits' = permits /\ target' = target
         /\ PickDefault(r) => /\ taskPc[r] = "default" /\ permits' = permits
                               /\ IF Known = {} THEN TaskGoes(r, "idle") /\ target' = target
                                  ELSE TaskGoes(r, "permit") /\ target' = [target EXCEPT ![r] = DefaultServer]
         /\ AcquirePermit(r) => /\ taskPc[r] = "permit" /\ TaskGoes(r, "lock") /\ target' = target
                                 /\ permits > 0 /\ permits' = permits - 1
         /\ LookUp(r) => /\ taskPc[r] = "lock"
                          /\ IF Proxy!CallsOut(Table[target[r]])
                             THEN TaskGoes(r, "http") /\ permits' = permits /\ target' = target
                             ELSE /\ TaskGoes(r, "idle") /\ permits' = permits + 1
                                  /\ target' = [target EXCEPT ![r] = Proxy!NoTarget]
         /\ HttpAnswers(r) => /\ taskPc[r] = "http" /\ TaskGoes(r, "idle") /\ permits' = permits + 1
                               /\ target' = [target EXCEPT ![r] = Proxy!NoTarget]
         /\ (Drop(r) /\ taskPc[r] # "idle") =>
                /\ TaskGoes(r, "idle") /\ target' = [target EXCEPT ![r] = Proxy!NoTarget]
                /\ permits' = IF taskPc[r] \in {"lock", "http"} THEN permits + 1 ELSE permits
<1>1. Submit(r) => /\ TaskGoes(r, "permit") /\ permits' = permits
                   /\ target' = [target EXCEPT ![r] = entry[r].server]
  BY DEF Submit, Proxy!ForwardRequest, TaskGoes
<1>2. SubmitDefault(r) => TaskGoes(r, "default") /\ permits' = permits /\ target' = target
  BY DEF SubmitDefault, Proxy!ProxyToUpstream, TaskGoes
<1>3. ASSUME PickDefault(r)
      PROVE  /\ taskPc[r] = "default" /\ permits' = permits
             /\ IF Known = {} THEN TaskGoes(r, "idle") /\ target' = target
                ELSE TaskGoes(r, "permit") /\ target' = [target EXCEPT ![r] = DefaultServer]
  <2>1. taskPc[r] = "default" /\ permits' = permits
    BY <1>3 DEF PickDefault, Proxy!DefaultServerId
  <2>2. CASE Known = {}
    BY <1>3, <2>2, TableFacts DEF PickDefault, Proxy!DefaultServerId, TaskGoes
  <2>3. CASE Known # {}
    <3>1. PICK s \in Known : TaskGoes(r, "permit") /\ target' = [target EXCEPT ![r] = s]
      BY <1>3, <2>3, TableFacts DEF PickDefault, Proxy!DefaultServerId, TaskGoes
    <3>2. target'[r] = s
      BY <3>1 DEF TasksInv
    <3>3. target'[r] = DefaultServer
      BY <1>3, <2>3 DEF PickDefault
    <3> QED  BY <2>1, <2>3, <3>1, <3>2, <3>3
  <2> QED  BY <2>1, <2>2, <2>3
<1>4. AcquirePermit(r) => /\ taskPc[r] = "permit" /\ TaskGoes(r, "lock") /\ target' = target
                          /\ permits > 0 /\ permits' = permits - 1
  BY DEF AcquirePermit, Proxy!AcquirePermit, TaskGoes
<1>5. LookUp(r) => /\ taskPc[r] = "lock"
                   /\ IF Proxy!CallsOut(Table[target[r]])
                      THEN TaskGoes(r, "http") /\ permits' = permits /\ target' = target
                      ELSE /\ TaskGoes(r, "idle") /\ permits' = permits + 1
                           /\ target' = [target EXCEPT ![r] = Proxy!NoTarget]
  BY DEF LookUp, Proxy!LookUpServer, Proxy!Return, TaskGoes
<1>6. HttpAnswers(r) => /\ taskPc[r] = "http" /\ TaskGoes(r, "idle") /\ permits' = permits + 1
                        /\ target' = [target EXCEPT ![r] = Proxy!NoTarget]
  BY DEF HttpAnswers, Proxy!ForwardToHttp, Proxy!Return, TaskGoes
<1>7. (Drop(r) /\ taskPc[r] # "idle") =>
         /\ TaskGoes(r, "idle") /\ target' = [target EXCEPT ![r] = Proxy!NoTarget]
         /\ permits' = IF taskPc[r] \in {"lock", "http"} THEN permits + 1 ELSE permits
  BY DEF Drop, Proxy!Cancel, Proxy!HoldsPermit, TaskGoes
<1> QED  BY <1>1, <1>2, <1>3, <1>4, <1>5, <1>6, <1>7

-----------------------------------------------------------------------------
(* Every step of the two together is a step of the router, or none.         *)
LEMMA AnswersAlike ==
  ASSUME NEW r \in Requests, pc[r] = "upstream", Untouched, UNCHANGED <<sessionVars, entry, sent, audits>>,
         NEW result, NEW failures \in SUBSET UpstreamFailures, TakeResult(r, result, failures)
  PROVE  UpstreamAnswers(r)
BY DEF TakeResult, UpstreamAnswers

LEMMA ActsAsRouter ==
  ASSUME RouterInv, TasksInv, NEW r \in Requests, GatewaySteps(r) \/ Drop(r)
  PROVE  Advance(r) \/ Disconnect(r) \/ UNCHANGED vars
<1>0. TaskInv(r) /\ RequestInv(r)
  BY DEF TasksInv, RouterInv
<1>1. CASE WithoutProxy(r)
  BY <1>1 DEF WithoutProxy, Advance
<1>2. CASE Submit(r) \/ SubmitDefault(r) \/ AcquirePermit(r)
  BY <1>2 DEF Submit, SubmitDefault, AcquirePermit
<1>3. CASE PickDefault(r)
  <2>1. DefaultServer = NoServer <=> Known = {}
    BY TableFacts
  <2>2. ProxyToUpstream(r)
    BY <1>3, <2>1 DEF PickDefault, ProxyToUpstream
  <2> QED  BY <2>2 DEF Advance
<1>4. CASE LookUp(r)
  <2>1. target[r] = TargetServer(r)
    BY <1>0, <1>4, TaskEffects DEF TaskInv
  <2>2. Reachable(target[r]) <=> TargetServer(r) \in ProxyServers
    BY <2>1, TableFacts, RouterAssumption DEF Reachable
  <2>3. ForwardRequest(r)
    BY <1>4, <2>1, <2>2 DEF LookUp, ForwardRequest
  <2> QED  BY <2>3 DEF Advance
<1>5. CASE HttpAnswers(r)
  <2>1. {"UpstreamError", "ParseError"} \subseteq UpstreamFailures
    BY DEF UpstreamFailures
  <2>2. UpstreamAnswers(r)
    BY <1>5, <2>1, AnswersAlike DEF HttpAnswers
  <2> QED  BY <2>2 DEF Advance
<1>6. CASE EchoAnswers(r)
  <2>1. {"MethodNotFound"} \subseteq UpstreamFailures
    BY DEF UpstreamFailures
  <2>2. UpstreamAnswers(r)
    BY <1>6, <2>1, AnswersAlike DEF EchoAnswers
  <2> QED  BY <2>2 DEF Advance
<1>7. CASE Drop(r)
  BY <1>7 DEF Drop
<1> QED  BY <1>1, <1>2, <1>3, <1>4, <1>5, <1>6, <1>7 DEF GatewaySteps

LEMMA RouterStep ==
  ASSUME RouterInv, TasksInv, [GatewayNext]_gatewayVars
  PROVE  [RouterNext]_vars
<1>1. CASE \E r \in Requests : GatewaySteps(r) \/ Drop(r)
  BY <1>1, ActsAsRouter DEF RouterNext
<1>2. CASE RegistryChanges \/ UNCHANGED gatewayVars
  BY <1>2 DEF RouterNext, gatewayVars
<1>3. CASE \E r \in Requests, m \in Inbox, sid \in issued \union {StraySession, NoSessionId} : Arrive(r, m, sid)
  BY <1>3 DEF RouterNext
<1> QED  BY <1>1, <1>2, <1>3 DEF GatewayNext

-----------------------------------------------------------------------------
(* The invariant is kept: first for messages that a step is not about.      *)
LEMMA TaskUntouched ==
  ASSUME NEW q \in Requests, TaskInv(q), pc'[q] = pc[q], inbound'[q] = inbound[q], entry'[q] = entry[q],
         sent'[q] = sent[q], taskPc'[q] = taskPc[q], target'[q] = target[q]
  PROVE  TaskInv(q)'
<1>1. IsToolCall(q)' = IsToolCall(q)
  BY SameMessage
<1>2. TargetServer(q)' = TargetServer(q)
  BY <1>1 DEF TargetServer
<1> QED  BY <1>1, <1>2 DEF TaskInv, Reachable

LEMMA EntriesOfOthers ==
  ASSUME RouterTypeOK, NEW r \in Requests, NEW q \in Requests \ {r}, MessageStep(r)
  PROVE  entry'[q] = entry[q]
BY DEF MessageStep, Advance, Route, EvaluatePolicy, HandleToolsList, ProxyToUpstream, LookupTool, ValidateArguments,
       EvaluateConstraints, CheckSession, LogCall, ForwardRequest, UpstreamAnswers, InspectEgress, Conclude,
       Disconnect, Arrive, RouterTypeOK

(* Then for the message that moves without the proxy: it is not with the    *)
(* proxy before the step, and is a tool call if it waits to be sent after.  *)
LEMMA MovesWithoutProxy ==
  ASSUME RouterInv, NEW r \in Requests, TaskInv(r), taskPc'[r] = taskPc[r], MessageStep(r),
         pc[r] \notin {"default", "send", "upstream"}
  PROVE  TaskInv(r)'
<1>0. RouterTypeOK /\ RequestInv(r)
  BY DEF RouterInv
<1>1. taskPc[r] \notin {"default", "permit", "lock", "http"}
  BY DEF TaskInv
<1>2. pc'[r] # "upstream" /\ (pc'[r] = "send" => pc[r] \in InToolCall /\ inbound' = inbound)
  <2>1. CASE Route(r) \/ EvaluatePolicy(r)
    BY <1>0, <2>1, Moved DEF Route, EvaluatePolicy, Dispatch
  <2>2. CASE LookupTool(r) \/ ValidateArguments(r) \/ EvaluateConstraints(r) \/ CheckSession(r) \/ LogCall(r)
    BY <1>0, <2>2, Moved, AfterGates DEF LookupTool, ValidateArguments, EvaluateConstraints, CheckSession, LogCall,
                                       InToolCall, Untouched
  <2>3. CASE HandleToolsList(r) \/ InspectEgress(r) \/ Conclude(r) \/ Disconnect(r)
    BY <1>0, <2>3, Moved DEF HandleToolsList, InspectEgress, Conclude, Disconnect, RouterTypeOK
  <2>4. CASE \E m \in Inbox, sid \in issued \union {StraySession, NoSessionId} : Arrive(r, m, sid)
    BY <1>0, <2>4 DEF Arrive, RouterTypeOK
  <2> QED  BY <2>1, <2>2, <2>3, <2>4 DEF MessageStep, Advance, ProxyToUpstream, ForwardRequest, UpstreamAnswers
<1>3. pc'[r] = "send" => IsToolCall(r)'
  BY <1>0, <1>2, SameMessage DEF RequestInv, AtMethod
<1> QED  BY <1>1, <1>2, <1>3 DEF TaskInv

(* What a step leaves behind for its own message and in the proxy. *)
OwnTask(r) ==
  /\ TaskInv(r)'
  /\ permits' \in Nat /\ permits' + Cardinality(PermitHolders') = Limit
  /\ taskPc' \in [Requests -> TaskStages]
  /\ target' \in [Requests -> Servers \union {Proxy!NoTarget}]
  /\ \A q \in Requests \ {r} : taskPc'[q] = taskPc[q] /\ target'[q] = target[q]

(* The message and its gates stay while its task waits in the proxy.        *)
LEMMA WaitingInProxy ==
  ASSUME NEW r \in Requests, UNCHANGED <<inbound, entry>>
  PROVE  IsToolCall(r)' = IsToolCall(r) /\ TargetServer(r)' = TargetServer(r)
<1>1. IsToolCall(r)' = IsToolCall(r)
  BY SameMessage
<1> QED  BY <1>1 DEF TargetServer

LEMMA HandingOver ==
  ASSUME RouterInv, TasksInv, NEW r \in Requests,
         Submit(r) \/ SubmitDefault(r) \/ PickDefault(r) \/ AcquirePermit(r)
  PROVE  OwnTask(r)
<1>0. /\ RouterTypeOK /\ RequestInv(r) /\ TaskInv(r)
      /\ taskPc \in [Requests -> TaskStages] /\ target \in [Requests -> Servers \union {Proxy!NoTarget}]
  BY DEF RouterInv, TasksInv
<1>1. UNCHANGED <<inbound, entry, sent>>
  BY DEF Submit, SubmitDefault, PickDefault, AcquirePermit, vars, callVars, Untouched
<1>2. IsToolCall(r)' = IsToolCall(r) /\ TargetServer(r)' = TargetServer(r)
  BY <1>1, WaitingInProxy
<1>3. CASE Submit(r)
  <2>1. pc[r] = "send" /\ taskPc[r] = "idle" /\ pc' = pc
    BY <1>3 DEF Submit, vars, callVars
  <2>2. IsToolCall(r) /\ entry[r] \in RegisteredTool /\ entry[r].server \in Servers
    <3>1. IsToolCall(r) /\ entry[r] \in current[r]
      BY <1>0, <2>1 DEF TaskInv, RequestInv, AtLookup, Leaving
    <3>2. current[r] \subseteq RegisteredTool
      BY <1>0 DEF RouterTypeOK
    <3> QED  BY <3>1, <3>2 DEF RegisteredTool
  <2>3. TaskGoes(r, "permit") /\ permits' = permits /\ target' = [target EXCEPT ![r] = entry[r].server]
    BY <1>3, TaskEffects
  <2>4. /\ permits' \in Nat /\ permits' + Cardinality(PermitHolders') = Limit
        /\ taskPc' \in [Requests -> TaskStages] /\ taskPc'[r] = "permit"
        /\ \A q \in Requests \ {r} : taskPc'[q] = taskPc[q]
    BY <2>1, <2>3, TaskMoves DEF TaskStages
  <2>5. TaskInv(r)'
    BY <1>0, <1>1, <1>2, <2>1, <2>2, <2>3, <2>4 DEF TaskInv, TargetServer
  <2> QED  BY <1>0, <2>2, <2>3, <2>4, <2>5 DEF OwnTask
<1>4. CASE SubmitDefault(r)
  <2>1. pc[r] = "default" /\ taskPc[r] = "idle" /\ pc' = pc
    BY <1>4 DEF SubmitDefault, vars, callVars
  <2>2. TaskGoes(r, "default") /\ permits' = permits /\ target' = target
    BY <1>4, TaskEffects
  <2>3. /\ permits' \in Nat /\ permits' + Cardinality(PermitHolders') = Limit
        /\ taskPc' \in [Requests -> TaskStages] /\ taskPc'[r] = "default"
        /\ \A q \in Requests \ {r} : taskPc'[q] = taskPc[q]
    BY <2>1, <2>2, TaskMoves DEF TaskStages
  <2>4. TaskInv(r)'
    BY <2>1, <2>3 DEF TaskInv
  <2> QED  BY <1>0, <2>2, <2>3, <2>4 DEF OwnTask
<1>5. CASE PickDefault(r)
  <2>1. pc[r] = "default" /\ taskPc[r] = "default" /\ permits' = permits
    BY <1>5, TaskEffects DEF PickDefault
  <2>2. ~IsToolCall(r)
    BY <1>0, <2>1 DEF RequestInv, AtMethod
  <2>3. CASE Known = {}
    <3>1. pc'[r] = "settled" /\ TaskGoes(r, "idle") /\ target' = target
      BY <1>0, <1>5, <2>3, TaskEffects, Moved DEF PickDefault
    <3>2. /\ permits' \in Nat /\ permits' + Cardinality(PermitHolders') = Limit
          /\ taskPc' \in [Requests -> TaskStages] /\ taskPc'[r] = "idle"
          /\ \A q \in Requests \ {r} : taskPc'[q] = taskPc[q]
      BY <2>1, <3>1, TaskMoves DEF TaskStages
    <3>3. TaskInv(r)'
      BY <3>1, <3>2 DEF TaskInv
    <3> QED  BY <1>0, <3>1, <3>2, <3>3 DEF OwnTask
  <2>4. CASE Known # {}
    <3>1. pc'[r] = "send" /\ TaskGoes(r, "permit") /\ target' = [target EXCEPT ![r] = DefaultServer]
      BY <1>0, <1>5, <2>4, TaskEffects, Moved DEF PickDefault
    <3>2. /\ permits' \in Nat /\ permits' + Cardinality(PermitHolders') = Limit
          /\ taskPc' \in [Requests -> TaskStages] /\ taskPc'[r] = "permit"
          /\ \A q \in Requests \ {r} : taskPc'[q] = taskPc[q]
      BY <2>1, <3>1, TaskMoves DEF TaskStages
    <3>3. TargetServer(r) = DefaultServer /\ DefaultServer \in Servers
      BY <2>2, <2>4, TableFacts DEF TargetServer
    <3>4. target'[r] = TargetServer(r)' /\ target'[r] \in Servers
      BY <1>0, <1>2, <3>1, <3>3
    <3>5. TaskInv(r)'
      BY <3>1, <3>2, <3>4 DEF TaskInv
    <3> QED  BY <1>0, <3>1, <3>2, <3>3, <3>5 DEF OwnTask
  <2> QED  BY <2>3, <2>4
<1>6. CASE AcquirePermit(r)
  <2>1. /\ taskPc[r] = "permit" /\ TaskGoes(r, "lock") /\ target' = target
        /\ permits > 0 /\ permits' = permits - 1 /\ pc' = pc
    BY <1>6, TaskEffects DEF AcquirePermit, vars, callVars
  <2>2. /\ permits' \in Nat /\ permits' + Cardinality(PermitHolders') = Limit
        /\ taskPc' \in [Requests -> TaskStages] /\ taskPc'[r] = "lock"
        /\ \A q \in Requests \ {r} : taskPc'[q] = taskPc[q]
    BY <2>1, TaskMoves DEF TaskStages
  <2>3. TaskInv(r)'
    BY <1>0, <1>2, <2>1, <2>2 DEF TaskInv
  <2> QED  BY <1>0, <2>1, <2>2, <2>3 DEF OwnTask
<1> QED  BY <1>3, <1>4, <1>5, <1>6

LEMMA LookingUp ==
  ASSUME RouterInv, TasksInv, NEW r \in Requests, LookUp(r)
  PROVE  OwnTask(r)
<1>0. /\ RouterTypeOK /\ TaskInv(r)
      /\ taskPc \in [Requests -> TaskStages] /\ target \in [Requests -> Servers \union {Proxy!NoTarget}]
  BY DEF RouterInv, TasksInv
<1>1. taskPc[r] = "lock" /\ target[r] \in Servers /\ sent \in [Requests -> ProxyServers \union {NoServer}]
  BY <1>0, TaskEffects DEF TaskInv, RouterTypeOK
<1>2. CASE Proxy!CallsOut(Table[target[r]])
  <2>1. Reachable(target[r]) /\ ~Table[target[r]].echo
    BY <1>1, <1>2, TableFacts DEF Reachable, Proxy!CallsOut
  <2>2. pc'[r] = "upstream" /\ sent'[r] = target[r]
    BY <1>0, <1>1, <2>1, Moved DEF LookUp
  <2>3. TaskGoes(r, "http") /\ permits' = permits /\ target' = target
    BY <1>2, TaskEffects
  <2>4. /\ permits' \in Nat /\ permits' + Cardinality(PermitHolders') = Limit
        /\ taskPc' \in [Requests -> TaskStages] /\ taskPc'[r] = "http"
        /\ \A q \in Requests \ {r} : taskPc'[q] = taskPc[q]
    BY <1>1, <2>3, TaskMoves DEF TaskStages
  <2>5. TaskInv(r)'
    BY <1>1, <2>1, <2>2, <2>4 DEF TaskInv, Reachable
  <2> QED  BY <1>0, <2>3, <2>4, <2>5 DEF OwnTask
<1>3. CASE ~Proxy!CallsOut(Table[target[r]])
  <2>1. /\ TaskGoes(r, "idle") /\ permits' = permits + 1
        /\ target' = [target EXCEPT ![r] = Proxy!NoTarget]
    BY <1>3, TaskEffects
  <2>2. /\ permits' \in Nat /\ permits' + Cardinality(PermitHolders') = Limit
        /\ taskPc' \in [Requests -> TaskStages] /\ taskPc'[r] = "idle"
        /\ \A q \in Requests \ {r} : taskPc'[q] = taskPc[q]
    BY <1>1, <2>1, TaskMoves DEF TaskStages
  <2>3. TaskInv(r)'
    <3>1. CASE Reachable(target[r])
      <4>1. Table[target[r]].echo
        BY <1>3, <3>1 DEF Reachable
      <4>2. pc'[r] = "upstream" /\ sent'[r] = target[r]
        BY <1>0, <1>1, <3>1, Moved DEF LookUp
      <4> QED  BY <1>1, <2>2, <3>1, <4>1, <4>2 DEF TaskInv, Reachable
    <3>2. CASE ~Reachable(target[r])
      <4>1. pc'[r] = "settled"
        BY <1>0, <3>2, Moved DEF LookUp
      <4> QED  BY <2>2, <4>1 DEF TaskInv
    <3> QED  BY <3>1, <3>2
  <2> QED  BY <1>0, <2>1, <2>2, <2>3 DEF OwnTask
<1> QED  BY <1>2, <1>3

LEMMA ComingBack ==
  ASSUME RouterInv, TasksInv, NEW r \in Requests, HttpAnswers(r) \/ EchoAnswers(r)
  PROVE  OwnTask(r)
<1>0. /\ RouterTypeOK /\ TaskInv(r)
      /\ taskPc \in [Requests -> TaskStages] /\ target \in [Requests -> Servers \union {Proxy!NoTarget}]
  BY DEF RouterInv, TasksInv
<1>1. pc'[r] \in {"inspect", "settled"}
  BY <1>0, Moved DEF HttpAnswers, EchoAnswers, TakeResult
<1>2. CASE HttpAnswers(r)
  <2>1. /\ taskPc[r] = "http" /\ TaskGoes(r, "idle") /\ permits' = permits + 1
        /\ target' = [target EXCEPT ![r] = Proxy!NoTarget]
    BY <1>2, TaskEffects
  <2>2. /\ permits' \in Nat /\ permits' + Cardinality(PermitHolders') = Limit
        /\ taskPc' \in [Requests -> TaskStages] /\ taskPc'[r] = "idle"
        /\ \A q \in Requests \ {r} : taskPc'[q] = taskPc[q]
    BY <2>1, TaskMoves DEF TaskStages
  <2>3. TaskInv(r)'
    BY <1>1, <2>2 DEF TaskInv
  <2> QED  BY <1>0, <2>1, <2>2, <2>3 DEF OwnTask
<1>3. CASE EchoAnswers(r)
  <2>1. UNCHANGED taskVars /\ taskPc[r] = "idle"
    BY <1>3 DEF EchoAnswers
  <2>2. permits' \in Nat /\ permits' + Cardinality(PermitHolders') = Limit
    BY <2>1 DEF TasksInv, PermitHolders, taskVars
  <2>3. TaskInv(r)'
    BY <1>1, <2>1 DEF TaskInv, taskVars
  <2> QED  BY <1>0, <2>1, <2>2, <2>3 DEF OwnTask, taskVars
<1> QED  BY <1>2, <1>3

LEMMA Dropping ==
  ASSUME RouterInv, TasksInv, NEW r \in Requests, Drop(r)
  PROVE  OwnTask(r)
<1>0. /\ RouterTypeOK /\ TaskInv(r)
      /\ taskPc \in [Requests -> TaskStages] /\ target \in [Requests -> Servers \union {Proxy!NoTarget}]
  BY DEF RouterInv, TasksInv
<1>1. pc'[r] = "gone"
  BY <1>0 DEF Drop, Disconnect, RouterTypeOK
<1>2. CASE taskPc[r] = "idle"
  <2>1. UNCHANGED taskVars
    BY <1>2 DEF Drop
  <2>2. permits' \in Nat /\ permits' + Cardinality(PermitHolders') = Limit
    BY <2>1 DEF TasksInv, PermitHolders, taskVars
  <2>3. TaskInv(r)'
    BY <1>1, <1>2, <2>1 DEF TaskInv, taskVars
  <2> QED  BY <1>0, <2>1, <2>2, <2>3 DEF OwnTask, taskVars
<1>3. CASE taskPc[r] # "idle"
  <2>1. /\ TaskGoes(r, "idle") /\ target' = [target EXCEPT ![r] = Proxy!NoTarget]
        /\ permits' = IF taskPc[r] \in {"lock", "http"} THEN permits + 1 ELSE permits
    BY <1>3, TaskEffects
  <2>2. /\ permits' \in Nat /\ permits' + Cardinality(PermitHolders') = Limit
        /\ taskPc' \in [Requests -> TaskStages] /\ taskPc'[r] = "idle"
        /\ \A q \in Requests \ {r} : taskPc'[q] = taskPc[q]
    BY <2>1, TaskMoves DEF TaskStages
  <2>3. TaskInv(r)'
    BY <1>1, <2>2 DEF TaskInv
  <2> QED  BY <1>0, <2>1, <2>2, <2>3 DEF OwnTask
<1> QED  BY <1>2, <1>3

(* A step of the router alone, with the proxy as it was. *)
LEMMA RouterAlone ==
  ASSUME RouterInv, TasksInv, NEW r \in Requests, MessageStep(r), UNCHANGED taskVars,
         pc[r] \notin {"default", "send", "upstream"}
  PROVE  OwnTask(r)
<1>0. TaskInv(r) /\ taskPc \in [Requests -> TaskStages] /\ target \in [Requests -> Servers \union {Proxy!NoTarget}]
  BY DEF TasksInv
<1>1. permits' \in Nat /\ permits' + Cardinality(PermitHolders') = Limit
  BY DEF TasksInv, PermitHolders, taskVars
<1>2. TaskInv(r)'
  BY <1>0, MovesWithoutProxy DEF taskVars
<1> QED  BY <1>0, <1>1, <1>2 DEF OwnTask, taskVars

LEMMA TasksStep ==
  ASSUME RouterInv, TasksInv, [GatewayNext]_gatewayVars
  PROVE  TasksInv'
<1>0. RouterTypeOK /\ \A q \in Requests : TaskInv(q)
  BY DEF RouterInv, TasksInv
<1>1. ASSUME NEW r \in Requests, OwnTask(r), MessageStep(r) \/ UNCHANGED vars PROVE TasksInv'
  <2>1. ASSUME NEW q \in Requests \ {r} PROVE TaskInv(q)'
    <3>1. pc'[q] = pc[q] /\ inbound'[q] = inbound[q] /\ entry'[q] = entry[q] /\ sent'[q] = sent[q]
      BY <1>0, <1>1, <2>1, OthersUntouched, EntriesOfOthers DEF vars, callVars
    <3> QED  BY <1>0, <1>1, <3>1, TaskUntouched DEF OwnTask
  <2> QED  BY <1>1, <2>1 DEF OwnTask, TasksInv
<1>2. ASSUME NEW r \in Requests, GatewaySteps(r) \/ Drop(r) PROVE TasksInv'
  <2>1. MessageStep(r) \/ UNCHANGED vars
    BY <1>2, ActsAsRouter DEF MessageStep
  <2>2. CASE WithoutProxy(r) /\ UNCHANGED taskVars
    <3>1. MessageStep(r)
      BY <2>2 DEF WithoutProxy, MessageStep, Advance
    <3>2. pc[r] \notin {"default", "send", "upstream"}
      BY <2>2 DEF WithoutProxy, Route, EvaluatePolicy, HandleToolsList, LookupTool, ValidateArguments,
                  EvaluateConstraints, CheckSession, LogCall, InspectEgress, Conclude
    <3> QED  BY <1>1, <2>2, <3>1, <3>2, RouterAlone
  <2>3. CASE ~(WithoutProxy(r) /\ UNCHANGED taskVars)
    <3>1. OwnTask(r)
      BY <1>2, <2>3, HandingOver, LookingUp, ComingBack, Dropping DEF GatewaySteps
    <3> QED  BY <1>1, <2>1, <3>1
  <2> QED  BY <2>2, <2>3
<1>3. ASSUME NEW r \in Requests, NEW m \in Inbox, NEW sid \in issued \union {StraySession, NoSessionId},
             Arrive(r, m, sid), UNCHANGED taskVars
      PROVE  TasksInv'
  <2>1. MessageStep(r) /\ pc[r] = "idle"
    BY <1>3 DEF MessageStep, Arrive
  <2> QED  BY <1>1, <1>3, <2>1, RouterAlone
<1>4. CASE (RegistryChanges /\ UNCHANGED taskVars) \/ UNCHANGED gatewayVars
  <2>1. UNCHANGED callVars /\ UNCHANGED taskVars
    BY <1>4 DEF RegistryChanges, gatewayVars, vars
  <2>2. \A q \in Requests : TaskInv(q)'
    BY <1>0, <2>1, TaskUntouched DEF callVars, taskVars
  <2> QED  BY <2>1, <2>2 DEF TasksInv, PermitHolders, taskVars
<1> QED  BY <1>2, <1>3, <1>4 DEF GatewayNext

-----------------------------------------------------------------------------
GatewayInv == RouterInv /\ TasksInv /\ TrailInv

LEMMA GatewayInitInv == GatewayInit => GatewayInv
<1> SUFFICES ASSUME GatewayInit PROVE GatewayInv
  OBVIOUS
<1>1. RouterInv /\ TrailInv
  BY InitInv, TrailInitInv DEF GatewayInit
<1>2. PermitHolders = {}
  BY DEF GatewayInit, PermitHolders
<1>3. Cardinality(PermitHolders) = 0
  BY <1>2, FS_EmptySet
<1>4. permits = Limit /\ permits \in Nat
  BY TableFacts DEF GatewayInit
<1>5. ASSUME NEW r \in Requests PROVE TaskInv(r)
  BY DEF GatewayInit, RouterInit, TaskInv
<1>6. TasksInv
  BY <1>3, <1>4, <1>5 DEF GatewayInit, TasksInv, TaskStages
<1> QED  BY <1>1, <1>6 DEF GatewayInv

(* Whatever the router, the proxy and their clients do, each message's task *)
(* is where the invariant says, and the router's own invariants hold.       *)
THEOREM GatewayInvariant == GatewaySpec => []GatewayInv
<1>1. GatewayInv /\ [GatewayNext]_gatewayVars => GatewayInv'
  BY RouterStep, StepInv, AuditStep, TasksStep DEF GatewayInv
<1> QED  BY <1>1, GatewayInitInv, PTL DEF GatewaySpec

(* The proxy works for a message exactly while the router waits for it, and *)
(* no permit is lost or made, however calls, answers and clients that leave *)
(* overlap.  (the guards that the future of a message owns)                 *)
THEOREM PermitsFollow == GatewaySpec => []PermitsFollowMessages
<1>1. GatewayInv => PermitsFollowMessages
  <2> SUFFICES ASSUME RouterInv, TasksInv PROVE PermitsFollowMessages
    BY DEF GatewayInv
  <2>1. {r \in Requests : Proxy!HoldsPermit(r)} = PermitHolders
    BY DEF PermitHolders, Proxy!HoldsPermit
  <2>2. permits + Cardinality({r \in Requests : Proxy!HoldsPermit(r)}) = Limit
    BY <2>1 DEF TasksInv
  <2>3. ASSUME NEW r \in Requests
        PROVE  /\ taskPc[r] # "idle" => pc[r] \in {"default", "send", "upstream"}
               /\ taskPc[r] = "http" <=> (pc[r] = "upstream" /\ ~Table[sent[r]].echo)
    BY <2>3 DEF TasksInv, TaskInv, TaskStages
  <2> QED  BY <2>2, <2>3 DEF PermitsFollowMessages
<1> QED  BY <1>1, GatewayInvariant, PTL

(* Everything the router and its proxy do together is something McpRouter   *)
(* allows: waiting for a permit and for the server table is nothing, the    *)
(* look-up is the one step upstream, the end of the exchange the one step   *)
(* back.  (forward_request as handle_tools_call and proxy_to_upstream see   *)
(* it; the safety part of ImplementsRouter)                                 *)
THEOREM GatewayStepsAreTheRouters == GatewaySpec => RouterInit /\ [][RouterNext]_vars
<1>1. GatewayInit => RouterInit
  BY DEF GatewayInit
<1>2. GatewayInv /\ [GatewayNext]_gatewayVars => [RouterNext]_vars
  BY RouterStep DEF GatewayInv
<1> QED  BY <1>1, <1>2, GatewayInvariant, PTL DEF GatewaySpec

(* The pipeline's gates and the audit trail keep their promises with the    *)
(* proxy, its queues and its server table in the place of the router's one  *)
(* step: no wait lets a call past a gate, takes it to another server than   *)
(* its registration's or makes its audit event wrong.                       *)
THEOREM GatesHoldOverTheProxy ==
  GatewaySpec => [](OnlyVettedCallsGoUpstream /\ ServedByOneRegistration /\ AuditAgreesWithUpstream)
<1>1. RouterInv /\ TrailInv => OnlyVettedCallsGoUpstream /\ ServedByOneRegistration /\ AuditAgreesWithUpstream
  BY InvVetted, InvOneRegistration, TrailAgrees DEF RouterInv
<1> QED  BY <1>1, GatewayInvariant, PTL DEF GatewayInv

(* With the proxy in the place of the one step, too, a message only moves   *)
(* on and keeps its result: a task that waits, calls out or is dropped      *)
(* takes no message back.                                                   *)
THEOREM MessagesGoForwardOverTheProxy == GatewaySpec => [][OneGoesForward /\ ResultsAreFinal]_vars
<1>1. GatewayInv /\ [GatewayNext]_gatewayVars => [OneGoesForward /\ ResultsAreFinal]_vars
  BY RouterStep, MessagesStep DEF GatewayInv
<1> QED  BY <1>1, GatewayInvariant, PTL DEF GatewaySpec
=============================================================================
