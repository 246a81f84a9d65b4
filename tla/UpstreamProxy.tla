--------------------------- MODULE UpstreamProxy ---------------------------
(***************************************************************************)
(* The upstream proxy (src/gateway/proxy.rs).  forward_request takes one   *)
(* of the permits of a semaphore, then the read lock of the server table,  *)
(* and keeps both until the upstream call is over; register_server takes   *)
(* the write lock.  Both tokio primitives are first come, first served: a  *)
(* writer that waits holds up the readers that come after it.              *)
(*                                                                         *)
(* A writer, and a reader that does not call out, gives its lock back      *)
(* without awaiting, so these are one action each, and the tasks that hold *)
(* the lock between two steps are the calls that are under way.            *)
(***************************************************************************)
EXTENDS Naturals, Sequences, FiniteSets

CONSTANTS
  Calls,          \* tasks that forward requests, one after the other
  Registrars,     \* tasks that call register_server
  ServerIds,
  Offered,        \* pairs of an id and an entry that registrars may bring
  NoEntry,        \* no server under this id
  Limit,          \* max_concurrent
  Silent          \* servers whose host takes requests and never answers

Tasks == Calls \union Registrars

(* An UpstreamServer: its transport, whether it has a URL, and is_echo. *)
Entry == [transport : {"http", "sse", "stdio"}, url : BOOLEAN, echo : BOOLEAN]

ASSUME ProxyAssumption ==
  /\ Limit \in Nat
  /\ IsFiniteSet(Calls)
  /\ Calls \cap Registrars = {}
  /\ Silent \subseteq ServerIds
  /\ Offered \subseteq ServerIds \X Entry
  /\ NoEntry \notin Entry

VARIABLES
  servers,      \* UpstreamProxy.servers
  permits,      \* permits the semaphore has left
  permitQueue,  \* tasks that wait for a permit, in order
  lockQueue,    \* tasks that wait for the server table, in order
  pc,           \* where a task waits
  target,       \* the server id a call is for
  pending,      \* the id and entry a registrar brings
  result,       \* what the task's last forward_request returned
  picked        \* history: the target is what default_server_id returned

proxyVars == <<servers, permits, permitQueue, lockQueue, pc, target, pending, result, picked>>

NoTarget == "none"
NoPending == [id |-> NoTarget, entry |-> NoEntry]

(* What a call returned: nothing yet, that its server is unknown, another   *)
(* error, or a reply.                                                      *)
Results == {"none", "UnknownServer", "error", "reply"}

ProxyInit ==
  /\ servers = [s \in ServerIds |-> NoEntry]
  /\ permits = Limit
  /\ permitQueue = <<>>
  /\ lockQueue = <<>>
  /\ pc = [t \in Tasks |-> "idle"]
  /\ target = [c \in Calls |-> NoTarget]
  /\ pending = [w \in Registrars |-> NoPending]
  /\ result = [c \in Calls |-> "none"]
  /\ picked = [c \in Calls |-> FALSE]

-----------------------------------------------------------------------------
(* A task leaves the place it has in a queue, if it has one. *)
Without(queue, t) ==
  IF \E i \in DOMAIN queue : queue[i] = t
  THEN LET place == CHOOSE i \in DOMAIN queue : queue[i] = t
       IN  [i \in 1..(Len(queue) - 1) |-> IF i < place THEN queue[i] ELSE queue[i + 1]]
  ELSE queue

(* It is the task's turn: it waits and nobody waits longer. *)
Turn(queue, t) == queue # <<>> /\ Head(queue) = t

(* Slip: the read lock is given back before the call goes out. *)
ReadersNone == {}

(* Calls that hold the read lock between two steps: those under way. *)
Readers == {c \in Calls : pc[c] = "http"}

HoldsPermit(t) == pc[t] \in {"lock", "http"}

(* forward_request returns: the lock and the permit are given back. *)
Return(c, outcome) ==
  /\ permits' = permits + 1
  /\ pc' = [pc EXCEPT ![c] = "idle"]
  /\ result' = [result EXCEPT ![c] = outcome]
  /\ target' = [target EXCEPT ![c] = NoTarget]

-----------------------------------------------------------------------------
(* A call for a given server (tools/call) joins the permit queue. *)
ForwardRequest(c, s) ==
  /\ pc[c] = "idle"
  /\ pc' = [pc EXCEPT ![c] = "permit"]
  /\ permitQueue' = Append(permitQueue, c)
  /\ target' = [target EXCEPT ![c] = s]
  /\ result' = [result EXCEPT ![c] = "none"]
  /\ picked' = [picked EXCEPT ![c] = FALSE]
  /\ UNCHANGED <<servers, permits, lockQueue, pending>>

(* A request for the default server first reads the table. *)
ProxyToUpstream(c) ==
  /\ pc[c] = "idle"
  /\ pc' = [pc EXCEPT ![c] = "default"]
  /\ lockQueue' = Append(lockQueue, c)
  /\ result' = [result EXCEPT ![c] = "none"]
  /\ picked' = [picked EXCEPT ![c] = FALSE]
  /\ UNCHANGED <<servers, permits, permitQueue, target, pending>>

Registered == {s \in ServerIds : servers[s] # NoEntry}

(* default_server_id: whichever key the HashMap yields first. *)
DefaultServerId(c) ==
  /\ pc[c] = "default" /\ Turn(lockQueue, c)
  /\ lockQueue' = Tail(lockQueue)
  /\ \/ /\ Registered = {}
        /\ pc' = [pc EXCEPT ![c] = "idle"]
        /\ result' = [result EXCEPT ![c] = "error"]
        /\ UNCHANGED <<permitQueue, target, picked>>
     \/ \E s \in Registered :
          /\ target' = [target EXCEPT ![c] = s]
          /\ picked' = [picked EXCEPT ![c] = TRUE]
          /\ pc' = [pc EXCEPT ![c] = "permit"]
          /\ permitQueue' = Append(permitQueue, c)
          /\ UNCHANGED result
  /\ UNCHANGED <<servers, permits, pending>>

(* A permit is free for the call that waits longest. *)
AcquirePermit(c) ==
  /\ pc[c] = "permit" /\ Turn(permitQueue, c) /\ permits > 0
  /\ permits' = permits - 1
  /\ permitQueue' = Tail(permitQueue)
  /\ pc' = [pc EXCEPT ![c] = "lock"]
  /\ lockQueue' = Append(lockQueue, c)
  /\ UNCHANGED <<servers, target, pending, result, picked>>

CallsOut(entry) == entry # NoEntry /\ ~entry.echo /\ entry.transport # "stdio" /\ entry.url

(* What forward_request returns when it does not call out.  The echo       *)
(* server answers in place.                                                *)
AnsweredInPlace(entry) ==
  IF entry = NoEntry THEN {"UnknownServer"}
  ELSE IF entry.echo THEN {"error", "reply"} ELSE {"error"}

(* The read lock is granted and the server looked up. *)
LookUpServer(c) ==
  /\ pc[c] = "lock" /\ Turn(lockQueue, c)
  /\ lockQueue' = Tail(lockQueue)
  /\ LET entry == servers[target[c]] IN
     \/ /\ CallsOut(entry)
        /\ pc' = [pc EXCEPT ![c] = "http"]
        /\ UNCHANGED <<permits, target, result>>
     \/ /\ ~CallsOut(entry)
        /\ \E outcome \in AnsweredInPlace(entry) : Return(c, outcome)
  /\ UNCHANGED <<servers, permitQueue, pending, picked>>

(* Slip: a client without a timeout, as `Client::new()` makes it. *)
ForwardToHttpUntimed(c) ==
  /\ pc[c] = "http" /\ target[c] \notin Silent
  /\ \E outcome \in {"error", "reply"} : Return(c, outcome)
  /\ UNCHANGED <<servers, permitQueue, lockQueue, pending, picked>>

(* forward_to_http ends: a reply, whatever its id, or an error; the        *)
(* client's timeout is one, and all that ends a call to a silent server.   *)
ForwardToHttp(c) ==
  /\ pc[c] = "http"
  /\ \E outcome \in IF target[c] \in Silent THEN {"error"} ELSE {"error", "reply"} :
       Return(c, outcome)
  /\ UNCHANGED <<servers, permitQueue, lockQueue, pending, picked>>

(* register_server joins the queue of the lock. *)
RegisterServer(w, offer) ==
  /\ pc[w] = "idle"
  /\ pc' = [pc EXCEPT ![w] = "write"]
  /\ lockQueue' = Append(lockQueue, w)
  /\ pending' = [pending EXCEPT ![w] = [id |-> offer[1], entry |-> offer[2]]]
  /\ UNCHANGED <<servers, permits, permitQueue, target, result, picked>>

(* Slip: the insert replaces the table. *)
InsertServerAlone(w) ==
  /\ pc[w] = "write" /\ Turn(lockQueue, w) /\ Readers = {}
  /\ lockQueue' = Tail(lockQueue)
  /\ servers' = [s \in ServerIds |-> IF s = pending[w].id THEN pending[w].entry ELSE NoEntry]
  /\ pc' = [pc EXCEPT ![w] = "idle"]
  /\ pending' = [pending EXCEPT ![w] = NoPending]
  /\ UNCHANGED <<permits, permitQueue, target, result, picked>>

(* The write lock is granted once no reader is left, and the entry goes in. *)
InsertServer(w) ==
  /\ pc[w] = "write" /\ Turn(lockQueue, w) /\ Readers = {}
  /\ lockQueue' = Tail(lockQueue)
  /\ servers' = [servers EXCEPT ![pending[w].id] = pending[w].entry]
  /\ pc' = [pc EXCEPT ![w] = "idle"]
  /\ pending' = [pending EXCEPT ![w] = NoPending]
  /\ UNCHANGED <<permits, permitQueue, target, result, picked>>

(* Slip: a dropped future returns a permit it has not got yet. *)
CancelReturningPermit(c) ==
  /\ pc[c] # "idle"
  /\ pc' = [pc EXCEPT ![c] = "idle"]
  /\ permitQueue' = Without(permitQueue, c)
  /\ lockQueue' = Without(lockQueue, c)
  /\ permits' = permits + 1
  /\ target' = [target EXCEPT ![c] = NoTarget]
  /\ UNCHANGED <<servers, pending, result, picked>>

(* The caller drops the future: the guards it holds and its place in a     *)
(* queue are given back.                                                   *)
Cancel(c) ==
  /\ pc[c] # "idle"
  /\ pc' = [pc EXCEPT ![c] = "idle"]
  /\ permitQueue' = Without(permitQueue, c)
  /\ lockQueue' = Without(lockQueue, c)
  /\ permits' = IF HoldsPermit(c) THEN permits + 1 ELSE permits
  /\ target' = [target EXCEPT ![c] = NoTarget]
  /\ UNCHANGED <<servers, pending, result, picked>>

CallSteps(c) ==
  DefaultServerId(c) \/ AcquirePermit(c) \/ LookUpServer(c) \/ ForwardToHttp(c)

ProxyNext ==
  \/ \E c \in Calls :
       \/ \E s \in ServerIds : ForwardRequest(c, s)
       \/ ProxyToUpstream(c) \/ CallSteps(c) \/ Cancel(c)
  \/ \E w \in Registrars :
       \/ \E offer \in Offered : RegisterServer(w, offer)
       \/ InsertServer(w)

(* Tokio polls every task that can go on, and an HTTP exchange ends by its *)
(* timeout.  Nothing makes a call or a registration start.                 *)
ProxySpec ==
  /\ ProxyInit /\ [][ProxyNext]_proxyVars
  /\ \A c \in Calls : WF_proxyVars(CallSteps(c))
  /\ \A w \in Registrars : WF_proxyVars(InsertServer(w))

-----------------------------------------------------------------------------
(* Each queue holds, once each, exactly the tasks that wait in it: nobody   *)
(* who waits is forgotten by a grant or a cancellation, and nobody who left *)
(* keeps a place that would hold up the others for ever.                    *)
QueuesHoldTheWaiting ==
  /\ {permitQueue[i] : i \in DOMAIN permitQueue} = {c \in Calls : pc[c] = "permit"}
  /\ {lockQueue[i] : i \in DOMAIN lockQueue} = {t \in Tasks : pc[t] \in {"default", "lock", "write"}}
  /\ \A i, j \in DOMAIN permitQueue : permitQueue[i] = permitQueue[j] => i = j
  /\ \A i, j \in DOMAIN lockQueue : lockQueue[i] = lockQueue[j] => i = j

(* The state has its types, and each permit is free or held by one call,   *)
(* and the queues are what they should be.                                 *)
ProxyTypeOK ==
  /\ servers \in [ServerIds -> Entry \union {NoEntry}]
  /\ permits \in 0..Limit
  /\ permitQueue \in Seq(Calls)
  /\ lockQueue \in Seq(Tasks)
  /\ pc \in [Tasks -> {"idle", "default", "permit", "lock", "http", "write"}]
  /\ \A c \in Calls : pc[c] # "write"
  /\ target \in [Calls -> ServerIds \union {NoTarget}]
  /\ pending \in [Registrars -> [id : ServerIds, entry : Entry] \union {NoPending}]
  /\ result \in [Calls -> Results]
  /\ picked \in [Calls -> BOOLEAN]
  /\ permits + Cardinality({c \in Calls : HoldsPermit(c)}) = Limit
  /\ QueuesHoldTheWaiting

(* The proxy is a table with Limit slots: at most Limit calls are under     *)
(* way, each one to the entry its id has, and the table is not changed      *)
(* under them.  (forward_request, which keeps permit and guard to the end)  *)
Slots == INSTANCE UpstreamSlots WITH
  Entries <- Entry, table <- servers,
  active <- {<<c, target[c], servers[target[c]]>> : c \in {d \in Calls : pc[d] = "http"}}

ImplementsSlots == Slots!Spec

(* A request for the default server, which is picked before the permit is   *)
(* waited for, never ends with an unknown server, whatever is registered    *)
(* while it waits.  (proxy_to_upstream, forward_request)                    *)
DefaultServerIsKnown ==
  \A c \in Calls : picked[c] => result[c] # "UnknownServer"

(* Every call and every registration ends: no silent host, full semaphore,  *)
(* waiting writer or stream of calls keeps a task for ever.  Waiting is in  *)
(* order and every exchange times out.  (forward_request, register_server)  *)
TasksEnd == \A t \in Tasks : pc[t] # "idle" ~> pc[t] = "idle"
=============================================================================
