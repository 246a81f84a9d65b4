------------------------- MODULE ToolRegistryProofs -------------------------
(***************************************************************************)
(* That the two maps of the tool registry agree, and that no registration   *)
(* takes a name from another, proved for any servers, names and schemas.    *)
(*                                                                          *)
(* That the maps agree is not inductive on its own: unregister_server goes  *)
(* by the list, so a name that is listed twice would be left behind.        *)
(***************************************************************************)
EXTENDS ToolRegistry, TLAPS

-----------------------------------------------------------------------------
(* The empty registry satisfies the invariant. *)
LEMMA RegistryInitInv == RegistryInit => RegistryInv
<1>1. SUFFICES ASSUME RegistryInit PROVE RegistryInv
  OBVIOUS
<1>2. RegistryTypeOK
  BY <1>1 DEF RegistryInit, RegistryTypeOK
<1>3. \A s \in Servers : DOMAIN byServer[s] = {}
  BY <1>1 DEF RegistryInit
<1>4. IndexAgrees
  BY <1>1, <1>3 DEF RegistryInit, IndexAgrees, ListedFor
<1>5. NoDuplicateListing
  BY <1>3 DEF NoDuplicateListing
<1>6. OnlyQualifiedNames
  BY <1>1 DEF RegistryInit, OnlyQualifiedNames, ListTools
<1>7. QED  BY <1>2, <1>4, <1>5, <1>6 DEF RegistryInv

(* register_tool keeps the invariant. *)
LEMMA RegisterToolInv ==
  ASSUME RegistryInv, NEW raw \in RawName, NEW schema \in Schemas, NEW srv \in Servers,
         RegisterTool(raw, schema, srv)
  PROVE  RegistryInv'
<1> DEFINE n == Qualified(raw)
           e == [server |-> srv, schema |-> schema, padded |-> raw.padded]
<1>1. n \in QualifiedName
  BY DEF Qualified, QualifiedName, RawName
<1>2. e \in RegisteredTool /\ e.server = srv /\ e # NoTool
  BY RegistryAssumption DEF RegisteredTool, RawName
<1>3. tools \in [QualifiedName -> RegisteredTool \union {NoTool}] /\ byServer \in [Servers -> Seq(QualifiedName)]
  BY DEF RegistryInv, RegistryTypeOK
<1>4. tools' = [tools EXCEPT ![n] = e] /\ byServer' = [byServer EXCEPT ![srv] = Append(@, n)]
  BY DEF RegisterTool
<1>5. tools[n] = NoTool
  BY DEF RegisterTool, CanRegister
<1> HIDE DEF n, e
<1>6. RegistryTypeOK'
  BY <1>1, <1>2, <1>3, <1>4 DEF RegistryTypeOK
<1>7. \A s \in Servers : n \notin ListedFor(s)
  BY <1>1, <1>5 DEF RegistryInv, IndexAgrees
<1>8. byServer'[srv] = Append(byServer[srv], n) /\ \A s \in Servers \ {srv} : byServer'[s] = byServer[s]
  BY <1>3, <1>4
<1>9. byServer[srv] \in Seq(QualifiedName)
  BY <1>3
<1>10. DOMAIN byServer'[srv] = (DOMAIN byServer[srv]) \union {Len(byServer[srv]) + 1}
  BY <1>1, <1>8, <1>9
<1>11. /\ \A i \in DOMAIN byServer[srv] : byServer'[srv][i] = byServer[srv][i]
       /\ byServer'[srv][Len(byServer[srv]) + 1] = n
       /\ Len(byServer[srv]) + 1 \notin DOMAIN byServer[srv]
  BY <1>1, <1>8, <1>9
<1>12. ListedFor(srv)' = ListedFor(srv) \union {n} /\ \A s \in Servers \ {srv} : ListedFor(s)' = ListedFor(s)
  BY <1>8, <1>10, <1>11 DEF ListedFor
<1>13. tools'[n] = e /\ \A q \in QualifiedName \ {n} : tools'[q] = tools[q]
  BY <1>1, <1>3, <1>4
<1>14. IndexAgrees'
  <2> SUFFICES ASSUME NEW s \in Servers, NEW q \in QualifiedName
               PROVE  q \in ListedFor(s)' <=> (tools'[q] # NoTool /\ tools'[q].server = s)
    BY DEF IndexAgrees
  <2>1. q \in ListedFor(s) <=> (tools[q] # NoTool /\ tools[q].server = s)
    BY DEF RegistryInv, IndexAgrees
  <2>2. CASE q = n
    BY <2>2, <1>2, <1>7, <1>12, <1>13
  <2>3. CASE q # n
    BY <2>1, <2>3, <1>12, <1>13
  <2> QED  BY <2>2, <2>3
<1>15. NoDuplicateListing'
  <2> SUFFICES ASSUME NEW s \in Servers, NEW i \in DOMAIN byServer'[s], NEW j \in DOMAIN byServer'[s],
                      byServer'[s][i] = byServer'[s][j]
               PROVE  i = j
    BY DEF NoDuplicateListing
  <2>1. CASE s # srv
    BY <2>1, <1>8 DEF RegistryInv, NoDuplicateListing
  <2>2. CASE s = srv
    <3>1. \A k \in DOMAIN byServer[srv] : byServer[srv][k] # n
      BY <1>7 DEF ListedFor
    <3>2. \A k, l \in DOMAIN byServer[srv] : byServer[srv][k] = byServer[srv][l] => k = l
      BY DEF RegistryInv, NoDuplicateListing
    <3> QED  BY <2>2, <3>1, <3>2, <1>10, <1>11
  <2> QED  BY <2>1, <2>2
<1>16. OnlyQualifiedNames'
  <2> SUFFICES ASSUME NEW q \in ListTools'
               PROVE  /\ EnforcePrefixFormat => q[1] \in DottedPrefixes
                      /\ q[1] # EmptyPart /\ q[2] \in WellFormedNames
                      /\ AllowedPrefixes # {} => q[1] \in AllowedPrefixes
    BY DEF OnlyQualifiedNames
  <2>1. CASE q = n
    BY <2>1 DEF RegisterTool, CanRegister, ParsesAsToolName, PrefixAllowed, n, Qualified
  <2>2. CASE q # n
    <3>1. q \in ListTools
      BY <2>2, <1>13 DEF ListTools
    <3> QED  BY <3>1 DEF RegistryInv, OnlyQualifiedNames
  <2> QED  BY <2>1, <2>2
<1> QED  BY <1>6, <1>14, <1>15, <1>16 DEF RegistryInv

(* unregister_server keeps the invariant. *)
LEMMA UnregisterServerInv ==
  ASSUME RegistryInv, NEW srv \in Servers, UnregisterServer(srv)
  PROVE  RegistryInv'
<1>1. tools \in [QualifiedName -> RegisteredTool \union {NoTool}] /\ byServer \in [Servers -> Seq(QualifiedName)]
  BY DEF RegistryInv, RegistryTypeOK
<1>2. /\ tools' = [q \in QualifiedName |-> IF q \in ListedFor(srv) THEN NoTool ELSE tools[q]]
      /\ byServer' = [byServer EXCEPT ![srv] = <<>>]
  BY DEF UnregisterServer
<1>3. RegistryTypeOK'
  BY <1>1, <1>2 DEF RegistryTypeOK
<1>4. byServer'[srv] = <<>> /\ \A s \in Servers \ {srv} : byServer'[s] = byServer[s]
  BY <1>1, <1>2
<1>5. ListedFor(srv)' = {} /\ \A s \in Servers \ {srv} : ListedFor(s)' = ListedFor(s)
  BY <1>4 DEF ListedFor
<1>6. \A s \in Servers, q \in QualifiedName :
         q \in ListedFor(s) <=> (tools[q] # NoTool /\ tools[q].server = s)
  BY DEF RegistryInv, IndexAgrees
<1>7. IndexAgrees'
  BY <1>2, <1>5, <1>6 DEF IndexAgrees
<1>8. NoDuplicateListing'
  BY <1>4 DEF RegistryInv, NoDuplicateListing
<1>9. ListTools' \subseteq ListTools
  BY <1>2 DEF ListTools
<1>10. OnlyQualifiedNames'
  BY <1>9 DEF RegistryInv, OnlyQualifiedNames
<1> QED  BY <1>3, <1>7, <1>8, <1>10 DEF RegistryInv

(* clear keeps the invariant. *)
LEMMA ClearInv == ASSUME RegistryInv, Clear PROVE RegistryInv'
<1>1. tools' = [q \in QualifiedName |-> NoTool] /\ byServer' = [s \in Servers |-> <<>>]
  BY DEF Clear
<1>2. RegistryTypeOK'
  BY <1>1 DEF RegistryTypeOK
<1>3. \A s \in Servers : DOMAIN byServer'[s] = {}
  BY <1>1
<1>4. IndexAgrees' /\ NoDuplicateListing'
  BY <1>1, <1>3 DEF IndexAgrees, ListedFor, NoDuplicateListing
<1>5. OnlyQualifiedNames'
  BY <1>1 DEF OnlyQualifiedNames, ListTools
<1> QED  BY <1>2, <1>4, <1>5 DEF RegistryInv

(* Steps that leave the registry alone keep the invariant. *)
LEMMA RegistryStutterInv == ASSUME RegistryInv, UNCHANGED registryVars PROVE RegistryInv'
BY DEF RegistryInv, registryVars, RegistryTypeOK, IndexAgrees, NoDuplicateListing,
       OnlyQualifiedNames, ListedFor, ListTools

(* The registry's maps keep their types, agree with each other, list no     *)
(* name twice and hold qualified names only, whatever is registered and     *)
(* removed in whatever order.                                               *)
THEOREM RegistryInvariant == RegistrySpec => []RegistryInv
<1>1. RegistryInit => RegistryInv
  BY RegistryInitInv
<1>2. RegistryInv /\ [RegistryNext]_registryVars => RegistryInv'
  <2> SUFFICES ASSUME RegistryInv, [RegistryNext]_registryVars PROVE RegistryInv'
    OBVIOUS
  <2>1. CASE \E raw \in RawName, schema \in Schemas, s \in Servers : RegisterTool(raw, schema, s)
    BY <2>1, RegisterToolInv
  <2>2. CASE \E s \in Servers : UnregisterServer(s)
    BY <2>2, UnregisterServerInv
  <2>3. CASE Clear
    BY <2>3, ClearInv
  <2>4. CASE UNCHANGED registryVars
    BY <2>4, RegistryStutterInv
  <2> QED  BY <2>1, <2>2, <2>3, <2>4 DEF RegistryNext
<1> QED  BY <1>1, <1>2, PTL DEF RegistrySpec

(* by_server and tools agree in every reachable state. *)
THEOREM IndexAlwaysAgrees == RegistrySpec => [](IndexAgrees /\ NoDuplicateListing)
BY RegistryInvariant, PTL DEF RegistryInv

(* A name never passes from one server to another without being free: the   *)
(* collision check of register_tool, and unregister_server and clear, which *)
(* only free names.                                                         *)
THEOREM NamesAreNeverTakenOver == RegistrySpec => NoTakeover
<1>1. RegistryInv /\ [RegistryNext]_registryVars =>
        [\A q \in QualifiedName : tools[q] # NoTool => tools'[q] \in {tools[q], NoTool}]_registryVars
  <2> SUFFICES ASSUME RegistryInv, RegistryNext, NEW q \in QualifiedName, tools[q] # NoTool
               PROVE  tools'[q] \in {tools[q], NoTool}
    OBVIOUS
  <2>0. tools \in [QualifiedName -> RegisteredTool \union {NoTool}]
    BY DEF RegistryInv, RegistryTypeOK
  <2>1. CASE \E raw \in RawName, schema \in Schemas, s \in Servers : RegisterTool(raw, schema, s)
    BY <2>0, <2>1 DEF RegisterTool, CanRegister
  <2>2. CASE \E s \in Servers : UnregisterServer(s)
    BY <2>2 DEF UnregisterServer
  <2>3. CASE Clear
    BY <2>3 DEF Clear
  <2> QED  BY <2>1, <2>2, <2>3 DEF RegistryNext
<1> QED  BY <1>1, RegistryInvariant, PTL DEF RegistrySpec, NoTakeover
=============================================================================
