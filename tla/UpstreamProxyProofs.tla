------------------------- MODULE UpstreamProxyProofs -------------------------
(***************************************************************************)
(* That the proxy implements a table with slots, proved for every set of   *)
(* callers, registrars, servers and every limit.                           *)
(*                                                                         *)
(* The bound on the calls under way follows from the permits: a permit is  *)
(* free or held by one call, so a call that has a permit and is not yet    *)
(* under way leaves fewer than Limit that are.  That a call is to the      *)
(* entry its id has needs the read lock: a registration waits until no     *)
(* call is under way.                                                      *)
(***************************************************************************)
EXTENDS UpstreamProxy, FiniteSetTheorems, TLAPS

Holders == {c \in Calls : HoldsPermit(c)}
UnderWay == {c \in Calls : pc[c] = "http"}
Active == {<<c, target[c], servers[target[c]]>> : c \in UnderWay}

ProxyInv ==
  /\ servers \in [ServerIds -> Entry \union {NoEntry}]
  /\ permits \in Nat
  /\ pc \in [Tasks -> {"idle", "default", "permit", "lock", "http", "write"}]
  /\ target \in [Calls -> ServerIds \union {NoTarget}]
  /\ pending \in [Registrars -> [id : ServerIds, entry : Entry] \union {NoPending}]
  /\ \A w \in Registrars : pc[w] = "write" => pending[w] \in [id : ServerIds, entry : Entry]
  /\ \A c \in Calls : pc[c] \in {"permit", "lock"} => target[c] \in ServerIds
  /\ \A c \in UnderWay : target[c] \in ServerIds /\ servers[target[c]] \in Entry
  /\ permits + Cardinality(Holders) = Limit

(* Permits: a step that gives one to a call, takes one back or does neither *)
(* leaves their number what it was.                                         *)
LEMMA PermitsKept ==
  ASSUME ProxyInv, NEW c \in Calls,
         \/ Holders' = Holders /\ permits' = permits
         \/ c \notin Holders /\ Holders' = Holders \union {c} /\ permits' = permits - 1 /\ permits > 0
         \/ c \in Holders /\ Holders' = Holders \ {c} /\ permits' = permits + 1
  PROVE  permits' \in Nat /\ permits' + Cardinality(Holders') = Limit
<1>1. IsFiniteSet(Holders)
  BY ProxyAssumption, FS_Subset DEF Holders
<1>2. Cardinality(Holders) \in Nat /\ permits \in Nat /\ permits + Cardinality(Holders) = Limit
  BY <1>1, FS_CardinalityType DEF ProxyInv
<1>3. CASE Holders' = Holders /\ permits' = permits
  BY <1>2, <1>3
<1>4. CASE c \notin Holders /\ Holders' = Holders \union {c} /\ permits' = permits - 1 /\ permits > 0
  <2>1. Cardinality(Holders') = Cardinality(Holders) + 1
    BY <1>1, <1>4, FS_AddElement
  <2> QED  BY <1>2, <1>4, <2>1
<1>5. CASE c \in Holders /\ Holders' = Holders \ {c} /\ permits' = permits + 1
  <2>1. Cardinality(Holders') = Cardinality(Holders) - 1
    BY <1>1, <1>5, FS_RemoveElement
  <2> QED  BY <1>2, <1>5, <2>1
<1> QED  BY <1>3, <1>4, <1>5

(* A call with a permit that is not under way yet finds a slot free. *)
LEMMA SlotFree ==
  ASSUME ProxyInv, NEW c \in Calls, pc[c] = "lock"
  PROVE  Cardinality(Active) < Limit
<1>1. IsFiniteSet(Holders) /\ IsFiniteSet(UnderWay)
  BY ProxyAssumption, FS_Subset DEF Holders, UnderWay
<1>2. c \in Holders /\ UnderWay \subseteq Holders \ {c}
  BY DEF Holders, UnderWay, HoldsPermit
<1>3. Cardinality(Holders \ {c}) = Cardinality(Holders) - 1 /\ IsFiniteSet(Holders \ {c})
  BY <1>1, <1>2, FS_RemoveElement
<1>4. Cardinality(UnderWay) <= Cardinality(Holders) - 1
  BY <1>2, <1>3, FS_Subset
<1>5. Cardinality(Active) <= Cardinality(UnderWay) /\ IsFiniteSet(Active)
  <2> DEFINE f == [d \in UnderWay |-> <<d, target[d], servers[target[d]]>>]
  <2>1. f \in Surjection(UnderWay, Active)
    BY DEF Surjection, Active
  <2> QED  BY <1>1, <2>1, FS_Surjection
<1>6. /\ Cardinality(Holders) \in Nat /\ Cardinality(UnderWay) \in Nat /\ Cardinality(Active) \in Nat
      /\ permits \in Nat /\ permits + Cardinality(Holders) = Limit
  BY <1>1, <1>5, FS_CardinalityType DEF ProxyInv
<1> QED  BY <1>4, <1>5, <1>6

LEMMA ProxyInitInv == ProxyInit => ProxyInv
<1> SUFFICES ASSUME ProxyInit PROVE ProxyInv
  OBVIOUS
<1>1. Holders = {} /\ UnderWay = {}
  BY DEF ProxyInit, Holders, UnderWay, HoldsPermit, Tasks
<1>2. permits + Cardinality(Holders) = Limit /\ permits \in Nat
  BY <1>1, FS_EmptySet, ProxyAssumption DEF ProxyInit
<1> QED  BY <1>1, <1>2 DEF ProxyInit, ProxyInv, Tasks

(* What a step of one call does to the sets that the invariant speaks of. *)
LEMMA CallMoves ==
  ASSUME ProxyInv, NEW c \in Calls, NEW stage, pc' = [pc EXCEPT ![c] = stage]
  PROVE  /\ pc'[c] = stage /\ \A t \in Tasks \ {c} : pc'[t] = pc[t]
         /\ Holders' = IF stage \in {"lock", "http"} THEN Holders \union {c} ELSE Holders \ {c}
         /\ UnderWay' = IF stage = "http" THEN UnderWay \union {c} ELSE UnderWay \ {c}
         /\ (stage \in {"lock", "http"} <=> c \in Holders) => Holders' = Holders
<1>1. c \in Tasks /\ pc'[c] = stage /\ \A t \in Tasks \ {c} : pc'[t] = pc[t]
  BY DEF ProxyInv, Tasks
<1>2. \A d \in Calls : HoldsPermit(d)' <=> IF d = c THEN stage \in {"lock", "http"} ELSE HoldsPermit(d)
  BY <1>1 DEF HoldsPermit, Tasks
<1>3. Holders' = {d \in Calls : HoldsPermit(d)'}
  BY DEF Holders
<1>4. Holders' = IF stage \in {"lock", "http"} THEN Holders \union {c} ELSE Holders \ {c}
  BY <1>2, <1>3 DEF Holders
<1>5. UnderWay' = IF stage = "http" THEN UnderWay \union {c} ELSE UnderWay \ {c}
  BY <1>1 DEF UnderWay, Tasks
<1>6. ASSUME stage \in {"lock", "http"} <=> c \in Holders PROVE Holders' = Holders
  <2>1. CASE c \in Holders
    <3>1. Holders \union {c} = Holders
      BY <2>1
    <3> QED  BY <1>4, <1>6, <2>1, <3>1
  <2>2. CASE c \notin Holders
    <3>1. Holders \ {c} = Holders
      BY <2>2
    <3> QED  BY <1>4, <1>6, <2>2, <3>1
  <2> QED  BY <2>1, <2>2
<1> QED  BY <1>1, <1>4, <1>5, <1>6

(* A step of one call that does not go out keeps the invariant if it keeps *)
(* the permits, the table and the pending registrations.                   *)
LEMMA CallKeepsInv ==
  ASSUME ProxyInv, NEW c \in Calls,
         NEW stage \in {"idle", "default", "permit", "lock", "http"}, pc' = [pc EXCEPT ![c] = stage],
         NEW s \in ServerIds \union {NoTarget}, target' = [target EXCEPT ![c] = s],
         stage \in {"permit", "lock", "http"} => s \in ServerIds,
         stage = "http" => servers[s] \in Entry,
         servers' = servers, pending' = pending,
         permits' \in Nat /\ permits' + Cardinality(Holders') = Limit
  PROVE  ProxyInv'
<1>1. /\ pc'[c] = stage /\ \A t \in Tasks \ {c} : pc'[t] = pc[t]
      /\ UnderWay' = IF stage = "http" THEN UnderWay \union {c} ELSE UnderWay \ {c}
  BY CallMoves
<1>2. target'[c] = s /\ \A d \in Calls \ {c} : target'[d] = target[d]
  BY DEF ProxyInv
<1>3. /\ pc' \in [Tasks -> {"idle", "default", "permit", "lock", "http", "write"}]
      /\ target' \in [Calls -> ServerIds \union {NoTarget}]
  BY DEF ProxyInv, Tasks
<1>4. \A w \in Registrars : pc'[w] = "write" => pending'[w] \in [id : ServerIds, entry : Entry]
  BY <1>1, ProxyAssumption DEF ProxyInv, Tasks
<1>5. \A d \in Calls : pc'[d] \in {"permit", "lock"} => target'[d] \in ServerIds
  BY <1>1, <1>2 DEF ProxyInv, Tasks
<1>6. \A d \in UnderWay' : target'[d] \in ServerIds /\ servers'[target'[d]] \in Entry
  BY <1>1, <1>2 DEF ProxyInv, UnderWay
<1> QED  BY <1>3, <1>4, <1>5, <1>6 DEF ProxyInv

LEMMA CallStepInv ==
  ASSUME ProxyInv, NEW c \in Calls,
         \/ \E s \in ServerIds : ForwardRequest(c, s)
         \/ ProxyToUpstream(c) \/ CallSteps(c) \/ Cancel(c)
  PROVE  ProxyInv'
<1>0. target[c] \in ServerIds \union {NoTarget} /\ target = [target EXCEPT ![c] = target[c]] /\ c \in Tasks
  BY DEF ProxyInv, Tasks
<1>1. CASE \E s \in ServerIds : ForwardRequest(c, s)
  <2>1. PICK s \in ServerIds : ForwardRequest(c, s)
    BY <1>1
  <2>2. /\ pc' = [pc EXCEPT ![c] = "permit"] /\ target' = [target EXCEPT ![c] = s] /\ c \notin Holders
        /\ servers' = servers /\ pending' = pending /\ permits' = permits
    BY <2>1 DEF ForwardRequest, Holders, HoldsPermit
  <2>3. Holders' = Holders
    BY <2>2, CallMoves
  <2>4. permits' \in Nat /\ permits' + Cardinality(Holders') = Limit
    BY <2>2, <2>3, PermitsKept
  <2> QED  BY <2>2, <2>4, CallKeepsInv
<1>2. CASE ProxyToUpstream(c)
  <2>1. /\ pc' = [pc EXCEPT ![c] = "default"] /\ target' = target /\ c \notin Holders
        /\ servers' = servers /\ pending' = pending /\ permits' = permits
    BY <1>2 DEF ProxyToUpstream, Holders, HoldsPermit
  <2>2. Holders' = Holders
    BY <2>1, CallMoves
  <2>3. permits' \in Nat /\ permits' + Cardinality(Holders') = Limit
    BY <2>1, <2>2, PermitsKept
  <2> QED  BY <1>0, <2>1, <2>3, CallKeepsInv
<1>3. CASE DefaultServerId(c)
  <2>1. /\ c \notin Holders /\ servers' = servers /\ pending' = pending /\ permits' = permits
        /\ \/ pc' = [pc EXCEPT ![c] = "idle"] /\ target' = target
           \/ \E s \in ServerIds : pc' = [pc EXCEPT ![c] = "permit"] /\ target' = [target EXCEPT ![c] = s]
    BY <1>3 DEF DefaultServerId, Holders, HoldsPermit, Registered
  <2>2. Holders' = Holders
    BY <2>1, CallMoves
  <2>3. permits' \in Nat /\ permits' + Cardinality(Holders') = Limit
    BY <2>1, <2>2, PermitsKept
  <2>4. CASE pc' = [pc EXCEPT ![c] = "idle"] /\ target' = target
    BY <1>0, <2>1, <2>3, <2>4, CallKeepsInv
  <2>5. CASE \E s \in ServerIds : pc' = [pc EXCEPT ![c] = "permit"] /\ target' = [target EXCEPT ![c] = s]
    BY <2>1, <2>3, <2>5, CallKeepsInv
  <2> QED  BY <2>1, <2>4, <2>5
<1>4. CASE AcquirePermit(c)
  <2>1. /\ pc' = [pc EXCEPT ![c] = "lock"] /\ target' = target /\ c \notin Holders /\ target[c] \in ServerIds
        /\ servers' = servers /\ pending' = pending /\ permits' = permits - 1 /\ permits > 0
    BY <1>4 DEF AcquirePermit, Holders, HoldsPermit, ProxyInv
  <2>2. Holders' = Holders \union {c}
    BY <2>1, CallMoves
  <2>3. permits' \in Nat /\ permits' + Cardinality(Holders') = Limit
    BY <2>1, <2>2, PermitsKept
  <2> QED  BY <1>0, <2>1, <2>3, CallKeepsInv
<1>5. CASE LookUpServer(c)
  <2>1. /\ c \in Holders /\ target[c] \in ServerIds /\ servers[target[c]] \in Entry \union {NoEntry}
        /\ servers' = servers /\ pending' = pending
        /\ \/ /\ CallsOut(servers[target[c]])
              /\ pc' = [pc EXCEPT ![c] = "http"] /\ permits' = permits /\ target' = target
           \/ /\ pc' = [pc EXCEPT ![c] = "idle"] /\ permits' = permits + 1
              /\ target' = [target EXCEPT ![c] = NoTarget]
    BY <1>5 DEF LookUpServer, Return, Holders, HoldsPermit, ProxyInv
  <2>2. CASE /\ CallsOut(servers[target[c]]) /\ pc' = [pc EXCEPT ![c] = "http"]
             /\ permits' = permits /\ target' = target
    <3>1. Holders' = Holders
      BY <2>1, <2>2, CallMoves
    <3>2. permits' \in Nat /\ permits' + Cardinality(Holders') = Limit
      BY <2>2, <3>1, PermitsKept
    <3>3. servers[target[c]] \in Entry
      BY <2>1, <2>2 DEF CallsOut
    <3> QED  BY <1>0, <2>1, <2>2, <3>2, <3>3, CallKeepsInv
  <2>3. CASE /\ pc' = [pc EXCEPT ![c] = "idle"] /\ permits' = permits + 1
             /\ target' = [target EXCEPT ![c] = NoTarget]
    <3>1. Holders' = Holders \ {c}
      BY <2>3, CallMoves
    <3>2. permits' \in Nat /\ permits' + Cardinality(Holders') = Limit
      BY <2>1, <2>3, <3>1, PermitsKept
    <3> QED  BY <2>1, <2>3, <3>2, CallKeepsInv
  <2> QED  BY <2>1, <2>2, <2>3
<1>6. CASE ForwardToHttp(c)
  <2>1. /\ pc' = [pc EXCEPT ![c] = "idle"] /\ permits' = permits + 1 /\ c \in Holders
        /\ target' = [target EXCEPT ![c] = NoTarget] /\ servers' = servers /\ pending' = pending
    BY <1>6 DEF ForwardToHttp, Return, Holders, HoldsPermit
  <2>2. Holders' = Holders \ {c}
    BY <2>1, CallMoves
  <2>3. permits' \in Nat /\ permits' + Cardinality(Holders') = Limit
    BY <2>1, <2>2, PermitsKept
  <2> QED  BY <1>0, <2>1, <2>3, CallKeepsInv
<1>7. CASE Cancel(c)
  <2>1. /\ pc' = [pc EXCEPT ![c] = "idle"] /\ target' = [target EXCEPT ![c] = NoTarget]
        /\ servers' = servers /\ pending' = pending
        /\ permits' = IF c \in Holders THEN permits + 1 ELSE permits
    BY <1>7 DEF Cancel, Holders
  <2>2. Holders' = Holders \ {c}
    BY <2>1, CallMoves
  <2>3. permits' \in Nat /\ permits' + Cardinality(Holders') = Limit
    BY <2>1, <2>2, PermitsKept
  <2> QED  BY <1>0, <2>1, <2>3, CallKeepsInv
<1> QED  BY <1>1, <1>2, <1>3, <1>4, <1>5, <1>6, <1>7 DEF CallSteps

(* A registrar's step: joining the queue, or writing while nobody reads.   *)
LEMMA RegistrarStepInv ==
  ASSUME ProxyInv, NEW w \in Registrars,
         \/ \E offer \in Offered : RegisterServer(w, offer)
         \/ InsertServer(w)
  PROVE  ProxyInv'
<1>1. /\ w \in Tasks /\ w \notin Calls /\ target' = target /\ permits' = permits
      /\ \E stage \in {"idle", "write"} : pc' = [pc EXCEPT ![w] = stage]
  BY ProxyAssumption DEF RegisterServer, InsertServer, Tasks
<1>2. /\ \A t \in Tasks \ {w} : pc'[t] = pc[t]
      /\ pc' \in [Tasks -> {"idle", "default", "permit", "lock", "http", "write"}]
  BY <1>1 DEF ProxyInv
<1>3. \A c \in Calls : pc'[c] = pc[c]
  BY <1>1, <1>2 DEF Tasks
<1>4. Holders' = Holders /\ UnderWay' = UnderWay
  BY <1>3 DEF Holders, HoldsPermit, UnderWay
<1>5. CASE \E offer \in Offered : RegisterServer(w, offer)
  <2>1. /\ servers' = servers
        /\ \E p \in [id : ServerIds, entry : Entry] : pending' = [pending EXCEPT ![w] = p]
    BY <1>5, ProxyAssumption DEF RegisterServer
  <2>2. \A v \in Registrars : pc'[v] = "write" => pending'[v] \in [id : ServerIds, entry : Entry]
    BY <1>2, <2>1 DEF ProxyInv, Tasks
  <2>3. pending' \in [Registrars -> [id : ServerIds, entry : Entry] \union {NoPending}]
    BY <2>1 DEF ProxyInv
  <2> QED  BY <1>1, <1>2, <1>3, <1>4, <2>1, <2>2, <2>3 DEF ProxyInv
<1>6. CASE InsertServer(w)
  <2>1. /\ UnderWay = {} /\ pending[w] \in [id : ServerIds, entry : Entry]
        /\ servers' = [servers EXCEPT ![pending[w].id] = pending[w].entry]
        /\ pc' = [pc EXCEPT ![w] = "idle"] /\ pending' = [pending EXCEPT ![w] = NoPending]
    BY <1>6 DEF InsertServer, ProxyInv, Readers, UnderWay
  <2>2. servers' \in [ServerIds -> Entry \union {NoEntry}]
    BY <2>1 DEF ProxyInv
  <2>3. pending' \in [Registrars -> [id : ServerIds, entry : Entry] \union {NoPending}]
    BY <2>1 DEF ProxyInv
  <2>4. \A v \in Registrars : pc'[v] = "write" => pending'[v] \in [id : ServerIds, entry : Entry]
    BY <1>1, <1>2, <2>1 DEF ProxyInv, Tasks
  <2> QED  BY <1>1, <1>2, <1>3, <1>4, <2>1, <2>2, <2>3, <2>4 DEF ProxyInv
<1> QED  BY <1>5, <1>6

LEMMA ProxyStep == ProxyInv /\ [ProxyNext]_proxyVars => ProxyInv'
<1> SUFFICES ASSUME ProxyInv, [ProxyNext]_proxyVars PROVE ProxyInv'
  OBVIOUS
<1>1. CASE UNCHANGED proxyVars
  BY <1>1 DEF proxyVars, ProxyInv, Holders, HoldsPermit, UnderWay
<1>2. CASE ProxyNext
  BY <1>2, CallStepInv, RegistrarStepInv DEF ProxyNext
<1> QED  BY <1>1, <1>2

(* Permits are conserved and every call that is under way goes to an entry *)
(* of the table.                                                           *)
THEOREM ProxyInvariant == ProxySpec => []ProxyInv
BY ProxyInitInv, ProxyStep, PTL DEF ProxySpec

-----------------------------------------------------------------------------
(* The abstract module counts with its own instance of FiniteSets. *)
LEMMA CountedAlike == ASSUME NEW S PROVE Slots!Cardinality(S) = Cardinality(S)
BY DEF Slots!Cardinality, Cardinality

(* A call goes out: a slot is taken. *)
LEMMA GoingOutBegins ==
  ASSUME ProxyInv, NEW c \in Calls, pc[c] = "lock", pc' = [pc EXCEPT ![c] = "http"],
         servers' = servers, target' = target, NEW s \in ServerIds, target[c] = s, CallsOut(servers[s])
  PROVE  Slots!Begin(c, s)
<1>1. servers[s] \in Entry
  BY DEF ProxyInv, CallsOut
<1>2. c \notin UnderWay /\ UnderWay' = UnderWay \union {c}
  BY CallMoves DEF UnderWay
<1>3. Active' = Active \union {<<c, s, servers[s]>>}
  BY <1>2 DEF Active
<1>4. c \notin {a[1] : a \in Active}
  BY <1>2 DEF Active
<1>5. Slots!Cardinality(Active) < Limit
  <2>1. Slots!Cardinality(Active) = Cardinality(Active)
    BY CountedAlike
  <2> QED  BY SlotFree, <2>1
<1> QED  BY <1>1, <1>3, <1>4, <1>5 DEF Slots!Begin, Slots!InUse, Active, UnderWay

(* A call that is under way returns or is dropped: its slot is free again.  *)
LEMMA ReturningEnds ==
  ASSUME ProxyInv, NEW c \in Calls, pc[c] = "http", pc' = [pc EXCEPT ![c] = "idle"],
         servers' = servers, target' = [target EXCEPT ![c] = NoTarget],
         NEW a, a = <<c, target[c], servers[target[c]]>>
  PROVE  a \in Active /\ Slots!End(a)
<1>1. c \in UnderWay /\ UnderWay' = UnderWay \ {c}
  BY CallMoves DEF UnderWay
<1>2. a \in Active /\ Active' = Active \ {a}
  <2>1. \A d \in UnderWay \ {c} : target'[d] = target[d]
    BY DEF ProxyInv, UnderWay
  <2> QED  BY <1>1, <2>1 DEF Active
<1>3. Slots!End(a)
  BY <1>2 DEF Slots!End, Active, UnderWay
<1> QED  BY <1>2, <1>3

LEMMA SlotsStep ==
  ProxyInv /\ [ProxyNext]_proxyVars => [Slots!Next]_<<servers, Active>>
<1> SUFFICES ASSUME ProxyInv, [ProxyNext]_proxyVars PROVE [Slots!Next]_<<servers, Active>>
  OBVIOUS
<1>1. ASSUME NEW c \in Calls, servers' = servers, pc[c] # "http",
             NEW stage, stage # "http", pc' = [pc EXCEPT ![c] = stage],
             NEW s, target' = [target EXCEPT ![c] = s]
      PROVE  UNCHANGED <<servers, Active>>
  <2>1. UnderWay' = UnderWay
    <3>1. c \notin UnderWay /\ UnderWay' = UnderWay \ {c}
      BY <1>1, CallMoves DEF UnderWay
    <3> QED  BY <3>1
  <2>2. \A d \in UnderWay : target'[d] = target[d]
    BY <1>1 DEF UnderWay, ProxyInv
  <2> QED  BY <1>1, <2>1, <2>2 DEF Active
<1>2. ASSUME NEW c \in Calls, NEW s \in ServerIds, ForwardRequest(c, s) PROVE UNCHANGED <<servers, Active>>
  BY <1>1, <1>2 DEF ForwardRequest
<1>3. ASSUME NEW c \in Calls, ProxyToUpstream(c) PROVE UNCHANGED <<servers, Active>>
  <2>1. target' = [target EXCEPT ![c] = target[c]]
    BY <1>3 DEF ProxyToUpstream, ProxyInv
  <2> QED  BY <1>1, <1>3, <2>1 DEF ProxyToUpstream
<1>4. ASSUME NEW c \in Calls, DefaultServerId(c) PROVE UNCHANGED <<servers, Active>>
  <2>1. target = [target EXCEPT ![c] = target[c]]
    BY DEF ProxyInv
  <2> QED  BY <1>1, <1>4, <2>1 DEF DefaultServerId
<1>5. ASSUME NEW c \in Calls, AcquirePermit(c) PROVE UNCHANGED <<servers, Active>>
  <2>1. target' = [target EXCEPT ![c] = target[c]]
    BY <1>5 DEF AcquirePermit, ProxyInv
  <2> QED  BY <1>1, <1>5, <2>1 DEF AcquirePermit
<1>6. ASSUME NEW c \in Calls, LookUpServer(c) PROVE [Slots!Next]_<<servers, Active>>
  <2>1. /\ pc[c] = "lock" /\ servers' = servers
        /\ \/ CallsOut(servers[target[c]]) /\ pc' = [pc EXCEPT ![c] = "http"] /\ target' = target
           \/ pc' = [pc EXCEPT ![c] = "idle"] /\ target' = [target EXCEPT ![c] = NoTarget]
    BY <1>6 DEF LookUpServer, Return
  <2>2. CASE CallsOut(servers[target[c]]) /\ pc' = [pc EXCEPT ![c] = "http"] /\ target' = target
    <3>1. PICK s \in ServerIds : target[c] = s
      BY <2>1 DEF ProxyInv
    <3>2. Slots!Begin(c, s)
      BY <2>1, <2>2, <3>1, GoingOutBegins
    <3> QED  BY <3>2 DEF Slots!Next
  <2>3. CASE pc' = [pc EXCEPT ![c] = "idle"] /\ target' = [target EXCEPT ![c] = NoTarget]
    BY <1>1, <2>1, <2>3
  <2> QED  BY <2>1, <2>2, <2>3
<1>7. ASSUME NEW c \in Calls, ForwardToHttp(c) PROVE [Slots!Next]_<<servers, Active>>
  <2>1. PICK a : a = <<c, target[c], servers[target[c]]>>
    OBVIOUS
  <2>2. a \in Active /\ Slots!End(a)
    BY <1>7, <2>1, ReturningEnds DEF ForwardToHttp, Return
  <2> QED  BY <2>2 DEF Slots!Next, Active, UnderWay
<1>8. ASSUME NEW c \in Calls, Cancel(c) PROVE [Slots!Next]_<<servers, Active>>
  <2>1. CASE pc[c] = "http"
    <3>1. PICK a : a = <<c, target[c], servers[target[c]]>>
      OBVIOUS
    <3>2. a \in Active /\ Slots!End(a)
      BY <1>8, <2>1, <3>1, ReturningEnds DEF Cancel
    <3> QED  BY <3>2 DEF Slots!Next, Active, UnderWay
  <2>2. CASE pc[c] # "http"
    BY <1>1, <1>8, <2>2 DEF Cancel
  <2> QED  BY <2>1, <2>2
<1>9. ASSUME NEW w \in Registrars, NEW offer \in Offered, RegisterServer(w, offer)
      PROVE  UNCHANGED <<servers, Active>>
  <2>1. \A c \in Calls : pc'[c] = pc[c]
    BY <1>9, ProxyAssumption DEF RegisterServer, ProxyInv, Tasks
  <2> QED  BY <1>9, <2>1 DEF RegisterServer, Active, UnderWay
<1>10. ASSUME NEW w \in Registrars, InsertServer(w) PROVE [Slots!Next]_<<servers, Active>>
  <2>0. PICK p : p = pending[w]
    OBVIOUS
  <2>1. /\ UnderWay = {} /\ p \in [id : ServerIds, entry : Entry]
        /\ servers' = [servers EXCEPT ![p.id] = p.entry] /\ pc' = [pc EXCEPT ![w] = "idle"]
    BY <1>10, <2>0 DEF InsertServer, ProxyInv, Readers, UnderWay
  <2>2. UnderWay' = {}
    BY <2>1, ProxyAssumption DEF UnderWay, ProxyInv, Tasks
  <2>3. Active = {} /\ Active' = {}
    BY <2>1, <2>2 DEF Active
  <2>4. Slots!Put(p.id, p.entry)
    BY <2>1, <2>3 DEF Slots!Put, Active, UnderWay
  <2> QED  BY <2>1, <2>4 DEF Slots!Next
<1>11. CASE UNCHANGED proxyVars
  BY <1>11 DEF proxyVars, Active, UnderWay
<1> QED  BY <1>2, <1>3, <1>4, <1>5, <1>6, <1>7, <1>8, <1>9, <1>10, <1>11 DEF ProxyNext, CallSteps

(* The proxy implements a table with slots: never more than Limit calls are *)
(* under way, each to the entry that its id has, and the table changes only *)
(* between calls.                                                           *)
THEOREM ProxyImplementsSlots == ProxySpec => ImplementsSlots
<1>1. ProxyInit => Slots!Init
  <2> SUFFICES ASSUME ProxyInit PROVE Slots!Init
    OBVIOUS
  <2>1. UnderWay = {}
    BY DEF ProxyInit, UnderWay, Tasks
  <2>2. Active = {}
    BY <2>1 DEF Active
  <2> QED  BY <2>2 DEF ProxyInit, Slots!Init, Active, UnderWay
<1>2. ProxyInv /\ [ProxyNext]_proxyVars =>
        [Slots!Next]_<<servers, {<<c, target[c], servers[target[c]]>> : c \in {d \in Calls : pc[d] = "http"}}>>
  BY SlotsStep DEF Active, UnderWay
<1> QED  BY <1>1, <1>2, ProxyInvariant, PTL DEF ProxySpec, ImplementsSlots, Slots!Spec

-----------------------------------------------------------------------------
(* A picked server stays known: no step takes an entry out of the table.   *)
Known(c) ==
  /\ pc[c] = "default" => result[c] # "UnknownServer"
  /\ picked[c] => /\ result[c] # "UnknownServer"
                  /\ pc[c] \in {"permit", "lock"} => servers[target[c]] \in Entry

PickInv ==
  /\ result \in [Calls -> Results] /\ picked \in [Calls -> BOOLEAN]
  /\ \A c \in Calls : Known(c)

LEMMA EntriesStay ==
  ASSUME ProxyInv, ProxyNext
  PROVE  \A s \in ServerIds : servers[s] \in Entry => servers'[s] \in Entry
<1>1. CASE \E w \in Registrars : InsertServer(w)
  BY <1>1 DEF InsertServer, ProxyInv
<1>2. CASE ~\E w \in Registrars : InsertServer(w)
  <2>1. servers' = servers
    BY <1>2 DEF ProxyNext, CallSteps, ForwardRequest, ProxyToUpstream, DefaultServerId, AcquirePermit, LookUpServer,
                ForwardToHttp, Cancel, RegisterServer
  <2> QED  BY <2>1
<1> QED  BY <1>1, <1>2

(* A call that is not touched, that waits on, or that ends well.           *)
LEMMA KnownStays ==
  ASSUME ProxyInv, NEW c \in Calls, Known(c), ProxyNext,
         picked'[c] = picked[c], result'[c] = result[c] \/ result'[c] # "UnknownServer",
         pc'[c] = "default" => pc[c] = "default",
         pc'[c] \in {"permit", "lock"} => pc[c] \in {"permit", "lock"} /\ target'[c] = target[c]
  PROVE  Known(c)'
<1>1. (pc[c] \in {"permit", "lock"}) => target[c] \in ServerIds
  BY DEF ProxyInv
<1> QED  BY <1>1, EntriesStay DEF Known

LEMMA PickStep ==
  ASSUME ProxyInv, PickInv, ProxyNext
  PROVE  PickInv'
<1>0. /\ pc \in [Tasks -> {"idle", "default", "permit", "lock", "http", "write"}]
      /\ target \in [Calls -> ServerIds \union {NoTarget}]
      /\ result \in [Calls -> Results] /\ picked \in [Calls -> BOOLEAN] /\ Calls \subseteq Tasks
      /\ \A c \in Calls : Known(c)
  BY DEF ProxyInv, PickInv, Tasks
<1>1. ASSUME NEW w \in Registrars, (\E offer \in Offered : RegisterServer(w, offer)) \/ InsertServer(w)
      PROVE  PickInv'
  <2>1. UNCHANGED <<target, result, picked>> /\ \A c \in Calls : pc'[c] = pc[c]
    BY <1>0, <1>1, ProxyAssumption DEF RegisterServer, InsertServer, Tasks
  <2>2. \A c \in Calls : Known(c)'
    BY <1>0, <2>1, KnownStays
  <2> QED  BY <1>0, <2>1, <2>2 DEF PickInv
<1>2. ASSUME NEW c \in Calls,
             (\E s \in ServerIds : ForwardRequest(c, s)) \/ ProxyToUpstream(c) \/ CallSteps(c) \/ Cancel(c)
      PROVE  PickInv'
  <2>1. /\ result' \in [Calls -> Results] /\ picked' \in [Calls -> BOOLEAN]
        /\ \A d \in Calls \ {c} : /\ pc'[d] = pc[d] /\ target'[d] = target[d]
                                  /\ result'[d] = result[d] /\ picked'[d] = picked[d]
    BY <1>0, <1>2 DEF ForwardRequest, ProxyToUpstream, CallSteps, DefaultServerId, AcquirePermit, LookUpServer,
                      ForwardToHttp, Cancel, Return, Results, AnsweredInPlace
  <2>2. \A d \in Calls \ {c} : Known(d)'
    BY <1>0, <2>1, KnownStays
  <2>3. Known(c)'
    <3>1. CASE (\E s \in ServerIds : ForwardRequest(c, s)) \/ ProxyToUpstream(c)
      BY <1>0, <3>1 DEF ForwardRequest, ProxyToUpstream, Known
    <3>2. CASE DefaultServerId(c)
      <4>1. pc[c] = "default" /\ result[c] # "UnknownServer"
        BY <1>0, <3>2 DEF DefaultServerId, Known
      <4>2. CASE result' = [result EXCEPT ![c] = "error"] /\ pc' = [pc EXCEPT ![c] = "idle"]
        BY <1>0, <4>2 DEF Known
      <4>3. CASE \E s \in Registered : target' = [target EXCEPT ![c] = s] /\ result' = result /\ pc' = [pc EXCEPT ![c] = "permit"]
        <5>1. PICK s \in Registered : target' = [target EXCEPT ![c] = s]
          BY <4>3
        <5>2. servers[s] \in Entry /\ servers' = servers /\ target'[c] = s
          BY <1>0, <3>2, <5>1 DEF DefaultServerId, Registered, ProxyInv
        <5>3. pc'[c] = "permit" /\ result'[c] # "UnknownServer"
          BY <1>0, <4>1, <4>3
        <5> QED  BY <5>2, <5>3 DEF Known
      <4> QED  BY <3>2, <4>2, <4>3 DEF DefaultServerId
    <3>3. CASE AcquirePermit(c)
      BY <1>0, <3>3, KnownStays DEF AcquirePermit
    <3>4. CASE LookUpServer(c)
      <4>1. picked[c] => servers[target[c]] # NoEntry
        BY <1>0, <3>4, ProxyAssumption DEF LookUpServer, Known
      <4>2. picked' = picked /\ pc'[c] \in {"http", "idle"}
        BY <1>0, <3>4 DEF LookUpServer, Return
      <4>3. picked[c] => result'[c] # "UnknownServer"
        <5>1. CASE UNCHANGED result
          BY <1>0, <5>1 DEF Known
        <5>2. CASE \E outcome \in AnsweredInPlace(servers[target[c]]) : Return(c, outcome)
          BY <1>0, <4>1, <5>2 DEF AnsweredInPlace, Return
        <5> QED  BY <3>4, <5>1, <5>2 DEF LookUpServer
      <4> QED  BY <4>2, <4>3 DEF Known
    <3>5. CASE ForwardToHttp(c)
      <4>1. picked' = picked /\ pc'[c] = "idle" /\ result'[c] # "UnknownServer"
        BY <1>0, <3>5 DEF ForwardToHttp, Return
      <4> QED  BY <4>1 DEF Known
    <3>6. CASE Cancel(c)
      BY <1>0, <3>6, KnownStays DEF Cancel
    <3> QED  BY <1>2, <3>1, <3>2, <3>3, <3>4, <3>5, <3>6 DEF CallSteps
  <2> QED  BY <2>1, <2>2, <2>3 DEF PickInv
<1> QED  BY <1>1, <1>2 DEF ProxyNext

LEMMA PickInvariant == ProxySpec => []PickInv
<1>1. ProxyInit => PickInv
  BY DEF ProxyInit, PickInv, Known, Results, Tasks
<1>2. ProxyInv /\ PickInv /\ [ProxyNext]_proxyVars => PickInv'
  <2> SUFFICES ASSUME ProxyInv, PickInv, [ProxyNext]_proxyVars PROVE PickInv'
    OBVIOUS
  <2>1. CASE UNCHANGED proxyVars
    BY <2>1 DEF proxyVars, PickInv, Known
  <2> QED  BY <2>1, PickStep
<1> QED  BY <1>1, <1>2, ProxyInvariant, PTL DEF ProxySpec

(* The default server was picked from the table, and whatever is           *)
(* registered while the call waits for its permit, it is found there.      *)
(* (proxy_to_upstream, forward_request, register_server)                   *)
THEOREM DefaultServerStaysKnown == ProxySpec => []DefaultServerIsKnown
<1>1. PickInv => DefaultServerIsKnown
  BY DEF PickInv, Known, DefaultServerIsKnown
<1> QED  BY <1>1, PickInvariant, PTL

-----------------------------------------------------------------------------
(* The two queues.  Each is a sequence without repetitions, and its members *)
(* are the tasks that wait in it.                                           *)
Members(queue) == {queue[i] : i \in DOMAIN queue}
Once(queue) == \A i, j \in DOMAIN queue : queue[i] = queue[j] => i = j

(* Who joins a queue that he is not in is in it once, and so is everybody. *)
LEMMA Joins ==
  ASSUME NEW S, NEW q \in Seq(S), NEW t \in S, Once(q), t \notin Members(q)
  PROVE  Append(q, t) \in Seq(S) /\ Members(Append(q, t)) = Members(q) \union {t} /\ Once(Append(q, t))
<1> DEFINE a == Append(q, t)
<1>1. /\ a \in Seq(S) /\ DOMAIN a = 1..(Len(q) + 1) /\ Len(q) \in Nat /\ DOMAIN q = 1..Len(q)
      /\ a[Len(q) + 1] = t /\ \A i \in 1..Len(q) : a[i] = q[i]
  OBVIOUS
<1> HIDE DEF a
<1>2. Members(a) = Members(q) \union {t}
  BY <1>1 DEF Members
<1>3. \A i \in 1..Len(q) : q[i] # t
  BY <1>1 DEF Members
<1>4. Once(a)
  BY <1>1, <1>3 DEF Once
<1> QED  BY <1>1, <1>2, <1>4 DEF a

(* Who is first leaves. *)
LEMMA Leaves ==
  ASSUME NEW S, NEW q \in Seq(S), NEW t, Turn(q, t), Once(q)
  PROVE  t \in Members(q) /\ Tail(q) \in Seq(S) /\ Members(Tail(q)) = Members(q) \ {t} /\ Once(Tail(q))
<1> DEFINE a == Tail(q)
<1>1. /\ a \in Seq(S) /\ Len(q) \in Nat \ {0} /\ DOMAIN q = 1..Len(q) /\ DOMAIN a = 1..(Len(q) - 1)
      /\ q[1] = t /\ \A i \in 1..(Len(q) - 1) : a[i] = q[i + 1]
  BY DEF Turn
<1> HIDE DEF a
<1>2. \A i \in 2..Len(q) : q[i] # t /\ q[i] = a[i - 1]
  BY <1>1 DEF Once
<1>3. Members(a) = Members(q) \ {t}
  <2>1. ASSUME NEW i \in DOMAIN a PROVE a[i] \in Members(q) \ {t}
    <3>1. i + 1 \in 2..Len(q) /\ a[i] = q[i + 1]
      BY <1>1, <2>1
    <3> QED  BY <1>1, <1>2, <3>1 DEF Members
  <2>2. ASSUME NEW i \in DOMAIN q, q[i] # t PROVE q[i] \in Members(a)
    <3>1. i \in 2..Len(q) /\ i - 1 \in DOMAIN a
      BY <1>1, <2>2
    <3> QED  BY <1>2, <3>1 DEF Members
  <2> QED  BY <2>1, <2>2 DEF Members
<1>4. Once(a)
  BY <1>1 DEF Once
<1>5. t \in Members(q)
  BY <1>1 DEF Members
<1> QED  BY <1>1, <1>3, <1>4, <1>5 DEF a

(* Who is dropped leaves, if he is there, from wherever he is. *)
LEMMA LeavesEarly ==
  ASSUME NEW S, NEW q \in Seq(S), NEW t, Once(q)
  PROVE  Without(q, t) \in Seq(S) /\ Members(Without(q, t)) = Members(q) \ {t} /\ Once(Without(q, t))
<1>1. CASE t \notin Members(q)
  BY <1>1 DEF Members, Without
<1>2. CASE t \in Members(q)
  <2> DEFINE p == CHOOSE i \in DOMAIN q : q[i] = t
             c == [i \in 1..(Len(q) - 1) |-> IF i < p THEN q[i] ELSE q[i + 1]]
  <2>1. p \in DOMAIN q /\ q[p] = t /\ Without(q, t) = c
    BY <1>2 DEF Members, Without
  <2> HIDE DEF p
  <2>2. p \in 1..Len(q) /\ Len(q) \in Nat \ {0} /\ DOMAIN q = 1..Len(q) /\ \A i \in 1..Len(q) : q[i] \in S
    BY <2>1
  <2>3. /\ c \in Seq(S) /\ DOMAIN c = 1..(Len(q) - 1)
        /\ \A i \in 1..(Len(q) - 1) : c[i] = IF i < p THEN q[i] ELSE q[i + 1]
    <3>1. \A i \in 1..(Len(q) - 1) : i \in 1..Len(q) /\ i + 1 \in 1..Len(q)
      BY <2>2
    <3>2. c \in [1..(Len(q) - 1) -> S]
      BY <2>2, <3>1
    <3>3. Len(q) - 1 \in Nat
      BY <2>2
    <3> QED  BY <3>2, <3>3
  <2> HIDE DEF c
  <2>4. Members(c) = Members(q) \ {t}
    <3>1. ASSUME NEW i \in DOMAIN c PROVE c[i] \in Members(q) \ {t}
      BY <2>1, <2>2, <2>3 DEF Members, Once
    <3>2. ASSUME NEW i \in DOMAIN q, q[i] # t PROVE q[i] \in Members(c)
      <4>1. CASE i < p
        BY <2>2, <2>3, <4>1 DEF Members
      <4>2. CASE i > p
        <5>1. i - 1 \in DOMAIN c /\ c[i - 1] = q[i]
          BY <2>2, <2>3, <4>2
        <5> QED  BY <5>1 DEF Members
      <4> QED  BY <2>1, <2>2, <3>2, <4>1, <4>2
    <3> QED  BY <3>1, <3>2 DEF Members
  <2>5. Once(c)
    <3>1. \A i \in DOMAIN c : i \in DOMAIN q /\ i + 1 \in DOMAIN q
      BY <2>2, <2>3
    <3>2. SUFFICES ASSUME NEW i \in DOMAIN c, NEW j \in DOMAIN c, c[i] = c[j] PROVE i = j
      BY DEF Once
    <3>3. PICK k \in DOMAIN q, l \in DOMAIN q :
            /\ c[i] = q[k] /\ k = (IF i < p THEN i ELSE i + 1)
            /\ c[j] = q[l] /\ l = (IF j < p THEN j ELSE j + 1)
      BY <2>3, <3>1
    <3>4. k = l
      BY <3>2, <3>3 DEF Once
    <3> QED  BY <2>2, <2>3, <3>3, <3>4
  <2> QED  BY <2>1, <2>3, <2>4, <2>5
<1> QED  BY <1>1, <1>2

AtPermit == {c \in Calls : pc[c] = "permit"}
AtLock == {t \in Tasks : pc[t] \in {"default", "lock", "write"}}

QueueInv ==
  /\ permitQueue \in Seq(Calls) /\ Members(permitQueue) = AtPermit /\ Once(permitQueue)
  /\ lockQueue \in Seq(Tasks) /\ Members(lockQueue) = AtLock /\ Once(lockQueue)

(* A task that moves is where it went and nowhere else. *)
LEMMA TaskMoves ==
  ASSUME ProxyInv, NEW t \in Tasks,
         NEW stage \in {"idle", "default", "permit", "lock", "http", "write"},
         pc' = [pc EXCEPT ![t] = stage]
  PROVE  /\ AtPermit' = IF stage = "permit" /\ t \in Calls THEN AtPermit \union {t} ELSE AtPermit \ {t}
         /\ AtLock' = IF stage \in {"default", "lock", "write"} THEN AtLock \union {t} ELSE AtLock \ {t}
<1>1. pc'[t] = stage /\ \A u \in Tasks \ {t} : pc'[u] = pc[u]
  BY DEF ProxyInv
<1> QED  BY <1>1 DEF AtPermit, AtLock, Tasks

LEMMA QueueStep ==
  ASSUME ProxyInv, QueueInv, ProxyNext
  PROVE  QueueInv'
<1>0. /\ Calls \subseteq Tasks /\ Registrars \subseteq Tasks
      /\ permitQueue \in Seq(Calls) /\ Members(permitQueue) = AtPermit /\ Once(permitQueue)
      /\ lockQueue \in Seq(Tasks) /\ Members(lockQueue) = AtLock /\ Once(lockQueue)
  BY DEF QueueInv, Tasks
<1>1. ASSUME NEW c \in Calls, NEW s \in ServerIds, ForwardRequest(c, s) PROVE QueueInv'
  <2>1. c \notin AtPermit /\ c \notin AtLock /\ AtPermit' = AtPermit \union {c} /\ AtLock' = AtLock \ {c}
    BY <1>0, <1>1, TaskMoves DEF ForwardRequest, AtPermit, AtLock
  <2>2. permitQueue' = Append(permitQueue, c) /\ lockQueue' = lockQueue
    BY <1>1 DEF ForwardRequest
  <2> QED  BY <1>0, <2>1, <2>2, Joins DEF QueueInv
<1>2. ASSUME NEW c \in Calls, ProxyToUpstream(c) PROVE QueueInv'
  <2>1. c \notin AtPermit /\ c \notin AtLock /\ AtPermit' = AtPermit \ {c} /\ AtLock' = AtLock \union {c}
    BY <1>0, <1>2, TaskMoves DEF ProxyToUpstream, AtPermit, AtLock
  <2>2. permitQueue' = permitQueue /\ lockQueue' = Append(lockQueue, c)
    BY <1>2 DEF ProxyToUpstream
  <2> QED  BY <1>0, <2>1, <2>2, Joins DEF QueueInv
<1>3. ASSUME NEW c \in Calls, DefaultServerId(c) PROVE QueueInv'
  <2>1. c \notin AtPermit /\ Turn(lockQueue, c) /\ lockQueue' = Tail(lockQueue)
    BY <1>3 DEF DefaultServerId, AtPermit
  <2>2. lockQueue' \in Seq(Tasks) /\ Members(lockQueue') = AtLock \ {c} /\ Once(lockQueue')
    BY <1>0, <2>1, Leaves
  <2>3. CASE pc' = [pc EXCEPT ![c] = "idle"] /\ permitQueue' = permitQueue
    <3>1. AtPermit' = AtPermit \ {c} /\ AtLock' = AtLock \ {c}
      BY <1>0, <2>3, TaskMoves
    <3> QED  BY <1>0, <2>1, <2>2, <2>3, <3>1 DEF QueueInv
  <2>4. CASE pc' = [pc EXCEPT ![c] = "permit"] /\ permitQueue' = Append(permitQueue, c)
    <3>1. AtPermit' = AtPermit \union {c} /\ AtLock' = AtLock \ {c}
      BY <1>0, <2>4, TaskMoves
    <3> QED  BY <1>0, <2>1, <2>2, <2>4, <3>1, Joins DEF QueueInv
  <2> QED  BY <1>3, <2>3, <2>4 DEF DefaultServerId
<1>4. ASSUME NEW c \in Calls, AcquirePermit(c) PROVE QueueInv'
  <2>1. c \notin AtLock /\ AtPermit' = AtPermit \ {c} /\ AtLock' = AtLock \union {c}
    BY <1>0, <1>4, TaskMoves DEF AcquirePermit, AtLock
  <2>2. Turn(permitQueue, c) /\ permitQueue' = Tail(permitQueue) /\ lockQueue' = Append(lockQueue, c)
    BY <1>4 DEF AcquirePermit
  <2>3. permitQueue' \in Seq(Calls) /\ Members(permitQueue') = AtPermit' /\ Once(permitQueue')
    BY <1>0, <2>1, <2>2, Leaves
  <2> QED  BY <1>0, <2>1, <2>2, <2>3, Joins DEF QueueInv
<1>5. ASSUME NEW c \in Calls, LookUpServer(c) PROVE QueueInv'
  <2>1. /\ c \notin AtPermit /\ Turn(lockQueue, c) /\ lockQueue' = Tail(lockQueue) /\ permitQueue' = permitQueue
        /\ \E stage \in {"idle", "http"} : pc' = [pc EXCEPT ![c] = stage]
    BY <1>5 DEF LookUpServer, Return, AtPermit
  <2>2. AtPermit' = AtPermit \ {c} /\ AtLock' = AtLock \ {c}
    <3>1. PICK stage \in {"idle", "http"} : pc' = [pc EXCEPT ![c] = stage]
      BY <2>1
    <3> QED  BY <1>0, <3>1, TaskMoves
  <2> QED  BY <1>0, <2>1, <2>2, Leaves DEF QueueInv
<1>6. ASSUME NEW c \in Calls, ForwardToHttp(c) PROVE QueueInv'
  <2>1. c \notin AtPermit /\ c \notin AtLock /\ AtPermit' = AtPermit \ {c} /\ AtLock' = AtLock \ {c}
    BY <1>0, <1>6, TaskMoves DEF ForwardToHttp, Return, AtPermit, AtLock
  <2> QED  BY <1>0, <1>6, <2>1 DEF ForwardToHttp, QueueInv
<1>7. ASSUME NEW c \in Calls, Cancel(c) PROVE QueueInv'
  <2>1. /\ AtPermit' = AtPermit \ {c} /\ AtLock' = AtLock \ {c}
        /\ permitQueue' = Without(permitQueue, c) /\ lockQueue' = Without(lockQueue, c)
    BY <1>0, <1>7, TaskMoves DEF Cancel
  <2> QED  BY <1>0, <2>1, LeavesEarly DEF QueueInv
<1>8. ASSUME NEW w \in Registrars, NEW offer \in Offered, RegisterServer(w, offer) PROVE QueueInv'
  <2>1. w \notin AtLock /\ w \notin AtPermit /\ AtPermit' = AtPermit \ {w} /\ AtLock' = AtLock \union {w}
    BY <1>0, <1>8, TaskMoves DEF RegisterServer, AtPermit, AtLock
  <2>2. permitQueue' = permitQueue /\ lockQueue' = Append(lockQueue, w)
    BY <1>8 DEF RegisterServer
  <2> QED  BY <1>0, <2>1, <2>2, Joins DEF QueueInv
<1>9. ASSUME NEW w \in Registrars, InsertServer(w) PROVE QueueInv'
  <2>1. /\ w \notin AtPermit /\ AtPermit' = AtPermit \ {w} /\ AtLock' = AtLock \ {w}
        /\ Turn(lockQueue, w) /\ lockQueue' = Tail(lockQueue) /\ permitQueue' = permitQueue
    BY <1>0, <1>9, TaskMoves DEF InsertServer, AtPermit
  <2> QED  BY <1>0, <2>1, Leaves DEF QueueInv
<1> QED
  BY <1>1, <1>2, <1>3, <1>4, <1>5, <1>6, <1>7, <1>8, <1>9 DEF ProxyNext, CallSteps

(* Only registrars take the write lock. *)
CallsNeverWrite == \A c \in Calls : pc[c] # "write"

LEMMA CallsNeverWriteStep ==
  ProxyInv /\ CallsNeverWrite /\ [ProxyNext]_proxyVars => CallsNeverWrite'
<1> SUFFICES ASSUME ProxyInv, CallsNeverWrite, [ProxyNext]_proxyVars, NEW c \in Calls PROVE pc'[c] # "write"
  BY DEF CallsNeverWrite
<1>1. /\ pc \in [Tasks -> {"idle", "default", "permit", "lock", "http", "write"}]
      /\ Calls \subseteq Tasks /\ c \notin Registrars /\ pc[c] # "write"
  BY ProxyAssumption DEF ProxyInv, CallsNeverWrite, Tasks
<1>2. ASSUME NEW d \in Calls,
             (\E s \in ServerIds : ForwardRequest(d, s)) \/ ProxyToUpstream(d) \/ CallSteps(d) \/ Cancel(d)
      PROVE  pc'[c] # "write"
  BY <1>1, <1>2 DEF ForwardRequest, ProxyToUpstream, CallSteps, DefaultServerId, AcquirePermit, LookUpServer,
                    ForwardToHttp, Cancel, Return
<1>3. ASSUME NEW w \in Registrars, (\E offer \in Offered : RegisterServer(w, offer)) \/ InsertServer(w)
      PROVE  pc'[c] # "write"
  BY <1>1, <1>3 DEF RegisterServer, InsertServer
<1> QED  BY <1>1, <1>2, <1>3 DEF ProxyNext, proxyVars

(* The proxy's state has its types, permits are conserved, and each queue   *)
(* holds exactly the tasks that wait in it, once each: a grant serves who   *)
(* waits longest, and a call that is dropped keeps no place.                *)
THEOREM ProxyIsWellTyped == ProxySpec => []ProxyTypeOK
<1>1. ProxyInit => QueueInv
  BY DEF ProxyInit, QueueInv, Members, Once, AtPermit, AtLock, Tasks
<1>2. ProxyInv /\ QueueInv /\ [ProxyNext]_proxyVars => QueueInv'
  <2> SUFFICES ASSUME ProxyInv, QueueInv, [ProxyNext]_proxyVars PROVE QueueInv'
    OBVIOUS
  <2>1. CASE UNCHANGED proxyVars
    BY <2>1 DEF proxyVars, QueueInv, Members, Once, AtPermit, AtLock
  <2> QED  BY <2>1, QueueStep
<1>3. ProxyInv /\ PickInv /\ QueueInv /\ CallsNeverWrite => ProxyTypeOK
  <2> SUFFICES ASSUME ProxyInv, PickInv, QueueInv, CallsNeverWrite PROVE ProxyTypeOK
    OBVIOUS
  <2>1. Cardinality(Holders) \in Nat
    BY ProxyAssumption, FS_Subset, FS_CardinalityType DEF Holders
  <2>2. permits \in 0..Limit
    BY <2>1, ProxyAssumption DEF ProxyInv
  <2>3. QueuesHoldTheWaiting
    BY DEF QueueInv, Members, Once, AtPermit, AtLock, QueuesHoldTheWaiting
  <2> QED  BY <2>2, <2>3 DEF ProxyInv, PickInv, QueueInv, CallsNeverWrite, ProxyTypeOK, Holders
<1>4. ProxyInit => CallsNeverWrite
  BY DEF ProxyInit, CallsNeverWrite, Tasks
<1> QED  BY <1>1, <1>2, <1>3, <1>4, CallsNeverWriteStep, ProxyInvariant, PickInvariant, PTL DEF ProxySpec

-----------------------------------------------------------------------------
(* Nobody waits for ever because everybody waits.  This is TasksEnd as far  *)
(* as it is a matter of safety: somebody can always go on, and who waits is *)
(* overtaken by nobody.                                                     *)

(* A task that can take its next step without another's.                    *)
CanGoOn(t) ==
  \/ t \in Calls /\ pc[t] = "http"
  \/ t \in Calls /\ pc[t] \in {"default", "lock"} /\ Turn(lockQueue, t)
  \/ t \in Calls /\ pc[t] = "permit" /\ Turn(permitQueue, t) /\ permits > 0
  \/ t \in Registrars /\ pc[t] = "write" /\ Turn(lockQueue, t) /\ Readers = {}

(* As long as there is a permit at all, whatever waits for a permit, for    *)
(* the table or for the calls under way waits for somebody who does not:    *)
(* a permit holder that waits for the lock, behind a writer that waits for  *)
(* the readers, is no cycle.  (forward_request takes permit and lock in     *)
(* this order, register_server the lock alone)                              *)
SomebodyCanGoOn ==
  (Limit > 0 /\ \E t \in Tasks : pc[t] # "idle") => \E t \in Tasks : CanGoOn(t)

(* Registrars wait for the lock and for nothing else. *)
RegistrarsOnlyWrite == \A w \in Registrars : pc[w] \in {"idle", "write"}

LEMMA RegistrarsOnlyWriteStep ==
  ProxyInv /\ RegistrarsOnlyWrite /\ [ProxyNext]_proxyVars => RegistrarsOnlyWrite'
<1> SUFFICES ASSUME ProxyInv, RegistrarsOnlyWrite, [ProxyNext]_proxyVars, NEW w \in Registrars
             PROVE  pc'[w] \in {"idle", "write"}
  BY DEF RegistrarsOnlyWrite
<1>1. /\ pc \in [Tasks -> {"idle", "default", "permit", "lock", "http", "write"}]
      /\ Registrars \subseteq Tasks /\ w \notin Calls /\ pc[w] \in {"idle", "write"}
  BY ProxyAssumption DEF ProxyInv, RegistrarsOnlyWrite, Tasks
<1>2. ASSUME NEW c \in Calls,
             (\E s \in ServerIds : ForwardRequest(c, s)) \/ ProxyToUpstream(c) \/ CallSteps(c) \/ Cancel(c)
      PROVE  pc'[w] = pc[w]
  BY <1>1, <1>2 DEF ForwardRequest, ProxyToUpstream, CallSteps, DefaultServerId, AcquirePermit, LookUpServer,
                    ForwardToHttp, Cancel, Return
<1>3. ASSUME NEW v \in Registrars, (\E offer \in Offered : RegisterServer(v, offer)) \/ InsertServer(v)
      PROVE  pc'[w] \in {"idle", "write"}
  BY <1>1, <1>3 DEF RegisterServer, InsertServer
<1> QED  BY <1>1, <1>2, <1>3 DEF ProxyNext, proxyVars

(* The first of a queue that is not empty. *)
LEMMA FirstInLine ==
  ASSUME NEW S, NEW q \in Seq(S), NEW t \in Members(q)
  PROVE  \E u \in Members(q) : Turn(q, u)
<1>1. q # <<>> /\ Head(q) = q[1] /\ 1 \in DOMAIN q
  BY DEF Members
<1> QED  BY <1>1 DEF Members, Turn

(* Of those at the lock somebody can go on, or a call is under way. *)
LEMMA LockMovesOn ==
  ASSUME ProxyInv, QueueInv, CallsNeverWrite, RegistrarsOnlyWrite, NEW t \in AtLock
  PROVE  \E u \in Tasks : CanGoOn(u)
<1>1. PICK u \in AtLock : Turn(lockQueue, u)
  BY FirstInLine DEF QueueInv
<1>2. CASE Readers # {}
  BY <1>2 DEF Readers, CanGoOn, Tasks
<1>3. CASE Readers = {}
  <2>1. u \in Tasks /\ pc[u] \in {"default", "lock", "write"}
    BY DEF AtLock
  <2>2. CASE u \in Calls
    BY <1>1, <2>1, <2>2 DEF CanGoOn, CallsNeverWrite
  <2>3. CASE u \in Registrars
    BY <1>1, <1>3, <2>1, <2>3 DEF CanGoOn, RegistrarsOnlyWrite
  <2> QED  BY <2>1, <2>2, <2>3 DEF Tasks
<1> QED  BY <1>2, <1>3

LEMMA SomebodyMovesOn ==
  ASSUME ProxyInv, QueueInv, CallsNeverWrite, RegistrarsOnlyWrite
  PROVE  SomebodyCanGoOn
<1> SUFFICES ASSUME Limit > 0, NEW t \in Tasks, pc[t] # "idle" PROVE \E u \in Tasks : CanGoOn(u)
  BY DEF SomebodyCanGoOn
<1>1. CASE t \in AtLock
  BY <1>1, LockMovesOn
<1>2. CASE t \in Calls /\ pc[t] = "http"
  BY <1>2 DEF CanGoOn
<1>3. CASE t \in AtPermit
  <2>1. PICK u \in AtPermit : Turn(permitQueue, u)
    BY <1>3, FirstInLine DEF QueueInv
  <2>2. CASE permits > 0
    BY <2>1, <2>2 DEF CanGoOn, AtPermit, Tasks
  <2>3. CASE permits = 0
    <3>1. Holders # {}
      <4>1. Cardinality(Holders) # 0
        BY <2>3 DEF ProxyInv
      <4>2. Cardinality({}) = 0
        BY FS_EmptySet
      <4> QED  BY <4>1, <4>2
    <3>2. PICK h \in Calls : pc[h] \in {"lock", "http"}
      BY <3>1 DEF Holders, HoldsPermit
    <3>3. h \in AtLock \/ pc[h] = "http"
      BY <3>2 DEF AtLock, Tasks
    <3> QED  BY <3>2, <3>3, LockMovesOn DEF CanGoOn, Tasks
  <2> QED  BY <2>2, <2>3 DEF ProxyInv
<1>4. t \in AtLock \/ t \in AtPermit \/ (t \in Calls /\ pc[t] = "http")
  BY DEF ProxyInv, AtLock, AtPermit, Tasks, RegistrarsOnlyWrite, CallsNeverWrite
<1> QED  BY <1>1, <1>2, <1>3, <1>4

(* Who was before t in a queue afterwards was before t before.              *)
StaysInLine(old, new, t) ==
  \A i \in DOMAIN old : old[i] = t =>
    \E j \in DOMAIN new : /\ j <= i /\ new[j] = t
                          /\ \A k \in 1..(j - 1) : \E l \in 1..(i - 1) : new[k] = old[l]

(* A task that a step leaves where it is keeps its place in line or gets a  *)
(* better one, and nobody gets before it: not a reader before a writer, not *)
(* a late call before an early one.  (tokio's Semaphore and RwLock are      *)
(* fair)                                                                    *)
NobodyIsOvertaken ==
  \A t \in Tasks : pc'[t] = pc[t] =>
    StaysInLine(permitQueue, permitQueue', t) /\ StaysInLine(lockQueue, lockQueue', t)

LEMMA LineUnchanged ==
  ASSUME NEW S, NEW q \in Seq(S), NEW t
  PROVE  StaysInLine(q, q, t)
  BY DEF StaysInLine

LEMMA LineJoined ==
  ASSUME NEW S, NEW q \in Seq(S), NEW u \in S, NEW t
  PROVE  StaysInLine(q, Append(q, u), t)
<1> DEFINE a == Append(q, u)
<1>1. DOMAIN a = 1..(Len(q) + 1) /\ Len(q) \in Nat /\ DOMAIN q = 1..Len(q) /\ \A i \in 1..Len(q) : a[i] = q[i]
  OBVIOUS
<1> HIDE DEF a
<1>2. StaysInLine(q, a, t)
  BY <1>1 DEF StaysInLine
<1> QED  BY <1>2 DEF a

LEMMA LineLeft ==
  ASSUME NEW S, NEW q \in Seq(S), NEW u, NEW t, Turn(q, u), t # u
  PROVE  StaysInLine(q, Tail(q), t)
<1> DEFINE a == Tail(q)
<1>1. /\ Len(q) \in Nat \ {0} /\ DOMAIN q = 1..Len(q) /\ DOMAIN a = 1..(Len(q) - 1)
      /\ q[1] = u /\ \A i \in 1..(Len(q) - 1) : a[i] = q[i + 1]
  BY DEF Turn
<1> HIDE DEF a
<1>2. SUFFICES ASSUME NEW i \in DOMAIN q, q[i] = t
               PROVE  \E j \in DOMAIN a : /\ j <= i /\ a[j] = t
                                          /\ \A k \in 1..(j - 1) : \E l \in 1..(i - 1) : a[k] = q[l]
  BY DEF StaysInLine, a
<1>3. i \in 2..Len(q)
  BY <1>1, <1>2
<1>4. i - 1 \in DOMAIN a /\ i - 1 <= i /\ a[i - 1] = t
  BY <1>1, <1>2, <1>3
<1>5. ASSUME NEW k \in 1..((i - 1) - 1) PROVE \E l \in 1..(i - 1) : a[k] = q[l]
  <2>1. k + 1 \in 1..(i - 1) /\ a[k] = q[k + 1]
    BY <1>1, <1>3
  <2> QED  BY <2>1
<1> QED  BY <1>4, <1>5

LEMMA LineLeftEarly ==
  ASSUME NEW S, NEW q \in Seq(S), NEW u, NEW t, t # u
  PROVE  StaysInLine(q, Without(q, u), t)
<1>1. CASE u \notin Members(q)
  BY <1>1, LineUnchanged DEF Members, Without
<1>2. CASE u \in Members(q)
  <2> DEFINE p == CHOOSE i \in DOMAIN q : q[i] = u
             a == [i \in 1..(Len(q) - 1) |-> IF i < p THEN q[i] ELSE q[i + 1]]
  <2>1. p \in DOMAIN q /\ q[p] = u /\ Without(q, u) = a
    BY <1>2 DEF Members, Without
  <2> HIDE DEF p
  <2>2. p \in 1..Len(q) /\ Len(q) \in Nat \ {0} /\ DOMAIN q = 1..Len(q)
    BY <2>1
  <2>3. DOMAIN a = 1..(Len(q) - 1) /\ \A i \in 1..(Len(q) - 1) : a[i] = IF i < p THEN q[i] ELSE q[i + 1]
    OBVIOUS
  <2> HIDE DEF a
  <2>4. SUFFICES ASSUME NEW i \in DOMAIN q, q[i] = t
                 PROVE  \E j \in DOMAIN a : /\ j <= i /\ a[j] = t
                                            /\ \A k \in 1..(j - 1) : \E l \in 1..(i - 1) : a[k] = q[l]
    BY <2>1 DEF StaysInLine
  <2>5. CASE i < p
    <3>1. i \in DOMAIN a /\ a[i] = t
      BY <2>2, <2>3, <2>4, <2>5
    <3>2. ASSUME NEW k \in 1..(i - 1) PROVE a[k] = q[k]
      BY <2>2, <2>3, <2>5
    <3> QED  BY <2>2, <3>1, <3>2
  <2>6. CASE i > p
    <3>1. i - 1 \in DOMAIN a /\ i - 1 <= i /\ a[i - 1] = t
      BY <2>2, <2>3, <2>4, <2>6
    <3>2. ASSUME NEW k \in 1..((i - 1) - 1) PROVE \E l \in 1..(i - 1) : a[k] = q[l]
      <4>1. k \in 1..(i - 1) /\ k + 1 \in 1..(i - 1) /\ k \in DOMAIN a
        BY <2>2, <2>3
      <4> QED  BY <2>3, <4>1
    <3> QED  BY <3>1, <3>2
  <2>7. i # p
    BY <2>1, <2>4
  <2> QED  BY <2>2, <2>5, <2>6, <2>7
<1> QED  BY <1>1, <1>2

LEMMA LinesStep ==
  ASSUME ProxyInv, QueueInv, ProxyNext
  PROVE  NobodyIsOvertaken
<1> DEFINE Quiet(t) == StaysInLine(permitQueue, permitQueue', t) /\ StaysInLine(lockQueue, lockQueue', t)
<1>0. /\ permitQueue \in Seq(Calls) /\ lockQueue \in Seq(Tasks)
      /\ Calls \subseteq Tasks /\ Registrars \subseteq Tasks
      /\ pc \in [Tasks -> {"idle", "default", "permit", "lock", "http", "write"}]
  BY DEF QueueInv, ProxyInv, Tasks
<1>1. /\ \A t : StaysInLine(permitQueue, permitQueue, t) /\ StaysInLine(lockQueue, lockQueue, t)
      /\ \A t : \A u \in Calls : StaysInLine(permitQueue, Append(permitQueue, u), t)
      /\ \A t : \A u \in Tasks : StaysInLine(lockQueue, Append(lockQueue, u), t)
      /\ \A t, u : t # u => /\ Turn(permitQueue, u) => StaysInLine(permitQueue, Tail(permitQueue), t)
                            /\ Turn(lockQueue, u) => StaysInLine(lockQueue, Tail(lockQueue), t)
                            /\ StaysInLine(permitQueue, Without(permitQueue, u), t)
                            /\ StaysInLine(lockQueue, Without(lockQueue, u), t)
  BY <1>0, LineUnchanged, LineJoined, LineLeft, LineLeftEarly
<1> HIDE DEF Quiet
<1>2. SUFFICES ASSUME NEW t \in Tasks, pc'[t] = pc[t] PROVE Quiet(t)
  BY DEF NobodyIsOvertaken, Quiet
<1>3. ASSUME NEW c \in Calls, NEW s \in ServerIds, ForwardRequest(c, s) PROVE Quiet(t)
  BY <1>0, <1>1, <1>3 DEF ForwardRequest, Quiet
<1>4. ASSUME NEW c \in Calls, ProxyToUpstream(c) PROVE Quiet(t)
  BY <1>0, <1>1, <1>4 DEF ProxyToUpstream, Quiet
<1>5. ASSUME NEW c \in Calls, DefaultServerId(c) PROVE Quiet(t)
  <2>1. t # c /\ Turn(lockQueue, c) /\ lockQueue' = Tail(lockQueue)
    BY <1>0, <1>2, <1>5 DEF DefaultServerId
  <2>2. permitQueue' \in {permitQueue, Append(permitQueue, c)}
    BY <1>5 DEF DefaultServerId
  <2> QED  BY <1>1, <2>1, <2>2 DEF Quiet
<1>6. ASSUME NEW c \in Calls, AcquirePermit(c) PROVE Quiet(t)
  <2>1. t # c /\ c \in Tasks
    BY <1>0, <1>2, <1>6 DEF AcquirePermit
  <2> QED  BY <1>1, <1>6, <2>1 DEF AcquirePermit, Quiet
<1>7. ASSUME NEW c \in Calls, LookUpServer(c) PROVE Quiet(t)
  <2>1. t # c
    BY <1>0, <1>2, <1>7 DEF LookUpServer, Return
  <2> QED  BY <1>1, <1>7, <2>1 DEF LookUpServer, Quiet
<1>8. ASSUME NEW c \in Calls, ForwardToHttp(c) PROVE Quiet(t)
  BY <1>1, <1>8 DEF ForwardToHttp, Quiet
<1>9. ASSUME NEW c \in Calls, Cancel(c) PROVE Quiet(t)
  <2>1. t # c
    BY <1>0, <1>2, <1>9 DEF Cancel
  <2> QED  BY <1>1, <1>9, <2>1 DEF Cancel, Quiet
<1>10. ASSUME NEW w \in Registrars, NEW offer \in Offered, RegisterServer(w, offer) PROVE Quiet(t)
  BY <1>0, <1>1, <1>10 DEF RegisterServer, Quiet
<1>11. ASSUME NEW w \in Registrars, InsertServer(w) PROVE Quiet(t)
  <2>1. t # w
    BY <1>0, <1>2, <1>11 DEF InsertServer
  <2> QED  BY <1>1, <1>11, <2>1 DEF InsertServer, Quiet
<1> QED
  BY <1>3, <1>4, <1>5, <1>6, <1>7, <1>8, <1>9, <1>10, <1>11 DEF ProxyNext, CallSteps

LEMMA QueueInvariant == ProxySpec => [](ProxyInv /\ QueueInv /\ CallsNeverWrite /\ RegistrarsOnlyWrite)
<1>1. ProxyInit => QueueInv /\ CallsNeverWrite /\ RegistrarsOnlyWrite
  BY DEF ProxyInit, QueueInv, Members, Once, AtPermit, AtLock, Tasks, CallsNeverWrite, RegistrarsOnlyWrite
<1>2. ProxyInv /\ QueueInv /\ [ProxyNext]_proxyVars => QueueInv'
  BY QueueStep DEF proxyVars, QueueInv, Members, Once, AtPermit, AtLock
<1> QED  BY <1>1, <1>2, CallsNeverWriteStep, RegistrarsOnlyWriteStep, ProxyInvariant, PTL DEF ProxySpec

(* For any number of calls, registrars and servers, and any limit but zero: *)
(* the semaphore and the table's lock never leave everybody waiting.        *)
(* (forward_request, register_server)                                       *)
THEOREM NoDeadlockInProxy == ProxySpec => []SomebodyCanGoOn
BY QueueInvariant, SomebodyMovesOn, PTL

(* Waiting is in order, whoever is dropped meanwhile: a registration that   *)
(* waits is not overtaken by the calls that keep coming.                    *)
THEOREM ProxyQueuesAreFair == ProxySpec => [][NobodyIsOvertaken]_proxyVars
<1>1. ProxyInv /\ QueueInv /\ [ProxyNext]_proxyVars => [NobodyIsOvertaken]_proxyVars
  BY LinesStep
<1> QED  BY <1>1, QueueInvariant, PTL DEF ProxySpec
=============================================================================
