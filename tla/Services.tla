------------------------------ MODULE Services ------------------------------
(***************************************************************************)
(* The two services beside the pipeline, the audit producers and the        *)
(* control plane.  They share no state: a behaviour moves the `part` it     *)
(* starts with.                                                             *)
(***************************************************************************)
EXTENDS AuditProducers, ControlPlane

VARIABLE part    \* the part that moves

ServicesVars == <<part, auditVars, controlVars>>

ServicesInit ==
  /\ part \in {"audit", "control"}
  /\ AuditInit
  /\ ControlInit
  /\ \A c \in Creators : (wanted[c] = Default) <=> (dbPolicies = NoPolicies)
  /\ part = "audit" => dbPolicies = NoPolicies

ServicesNext ==
  /\ UNCHANGED part
  /\ \/ part = "audit" /\ AuditNext /\ UNCHANGED controlVars
     \/ part = "control" /\ ControlNext /\ UNCHANGED auditVars

(* Each part under its own fairness; callers of a part that does not move    *)
(* wait for nothing.                                                         *)
ServicesSpec ==
  /\ ServicesInit /\ [][ServicesNext]_ServicesVars
  /\ AuditFairness
  /\ SF_controlVars(part = "control" /\ FetchTenants(Background))
  /\ SF_controlVars(part = "control" /\ FetchPolicies(Background))
  /\ WF_controlVars(part = "control" /\ Store(Background))

(* Each part's state is of its types; a record waits for the broker only    *)
(* while its caller is there, and only enabled policies are fetched.        *)
ServicesTypeOK == IF part = "audit" THEN AuditTypeOK ELSE ControlTypeOK

(* The cache of a control plane that runs serves in the end what the        *)
(* database has.  (refresh_cache under the timer)                           *)
CacheOfPlaneConverges == part = "control" => CacheConverges
=============================================================================
