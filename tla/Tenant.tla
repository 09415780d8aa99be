-------------------------------- MODULE Tenant --------------------------------
(***************************************************************************)
(* The tenant controller (internal/controller/tenant_controller.go and     *)
(* tenant_resources.go): it gives a tenant a namespace with a user defined *)
(* network (UDN) in it, and takes both away when the tenant is deleted.    *)
(*                                                                         *)
(* The three kinds of objects are read from informer caches that follow    *)
(* the API server independently of each other.  A tenant is created by the *)
(* ComputeInstances that name it, and again when it is gone and another    *)
(* one needs it; it is deleted by the garbage collector or by a user.      *)
(***************************************************************************)
EXTENDS Naturals

CONSTANT
  MaxErrors    \* bound: requests that fail, restarts, owners added meanwhile

ASSUME TenantAssumption == MaxErrors \in Nat

VARIABLES
  t,        \* the tenant in the API server
  ns,       \* its namespace there
  udn,      \* the network in the namespace
  cacheT,   \* the tenant, the namespace and the network in the caches
  cacheN,
  cacheU,
  queued,   \* the work queue holds the key of the tenant
  pc,       \* step of the reconcile under way, "idle" between reconciles
  inst,     \* the local copy of the tenant
  old,      \* the local copy as it was read
  fresh,    \* ... which is still the current version
  errs,     \* failures so far, what MaxErrors bounds
  blind     \* history: some reconcile started before the caches had seen
            \* the namespace or the network the controller created

caches   == <<cacheT, cacheN, cacheU>>
ctrlVars == <<queued, pc, inst, old>>
vars     == <<t, ns, udn, caches, ctrlVars, fresh, errs, blind>>

-----------------------------------------------------------------------------
(* Types *)

Phases == {"None", "Progressing", "Failed", "Ready", "Deleting"}

(* named: status.namespace is set. *)
TenantObject == [exists : BOOLEAN, deleting : BOOLEAN, fin : BOOLEAN,
                 phase : Phases, named : BOOLEAN]

Lives == {"absent", "active", "terminating"}

Steps == {"idle", "finalizer", "namespace", "network", "deleteUDN", "deleteNS",
          "release", "save"}

Blank(e) == [exists |-> e, deleting |-> FALSE, fin |-> FALSE,
             phase |-> "None", named |-> FALSE]

NewTenant == Blank(TRUE)
Gone      == Blank(FALSE)

TypeOK ==
  /\ t \in TenantObject /\ cacheT \in TenantObject
  /\ inst \in TenantObject /\ old \in TenantObject
  /\ ns \in Lives /\ udn \in Lives /\ cacheN \in Lives /\ cacheU \in Lives
  /\ queued \in BOOLEAN /\ fresh \in BOOLEAN /\ blind \in BOOLEAN
  /\ pc \in Steps
  /\ errs \in Nat

Init ==
  /\ t = Gone /\ cacheT = Gone /\ inst = Gone /\ old = Gone
  /\ ns = "absent" /\ udn = "absent"
  /\ cacheN = "absent" /\ cacheU = "absent"
  /\ queued = FALSE /\ pc = "idle" /\ fresh = FALSE
  /\ errs = 0 /\ blind = FALSE

-----------------------------------------------------------------------------
(* The reconcile *)

Failure == errs < MaxErrors /\ errs' = errs + 1

EndReconcile == pc' = "idle" /\ inst' = Gone /\ old' = Gone /\ fresh' = FALSE

(* The caches have seen what the controller has created. *)
SeesOwnObjects ==
  /\ ns # "absent" => cacheN # "absent"
  /\ udn # "absent" => cacheU # "absent"

(* Reconcile up to the first request. *)
Reconcile ==
  /\ pc = "idle" /\ queued
  /\ queued' = FALSE
  /\ blind' = (blind \/ ~SeesOwnObjects)
  /\ IF ~cacheT.exists
     THEN UNCHANGED <<pc, inst, old, fresh>>
     ELSE /\ old' = cacheT
          /\ fresh' = (cacheT = t)
          /\ \/ /\ ~cacheT.deleting /\ ~cacheT.fin
                /\ inst' = cacheT /\ pc' = "finalizer"
             \/ /\ ~cacheT.deleting /\ cacheT.fin
                /\ inst' = [cacheT EXCEPT !.phase = "Progressing"]
                /\ pc' = "namespace"
             \/ /\ cacheT.deleting
                /\ inst' = [cacheT EXCEPT !.phase = "Deleting"]
                /\ \/ ~cacheT.fin /\ pc' = "save"
                   \/ cacheT.fin /\ ~cacheT.named /\ pc' = "release"
                   \/ cacheT.fin /\ cacheT.named /\ pc' = "deleteUDN"
  /\ UNCHANGED <<t, ns, udn, caches, errs>>

AddFinalizer ==
  /\ pc = "finalizer" /\ fresh
  /\ t' = [t EXCEPT !.fin = TRUE]
  /\ EndReconcile
  /\ UNCHANGED <<ns, udn, caches, queued, errs, blind>>

(* createOrUpdateTenantNamespace: the name is noted in any case. *)
EnsureNamespace ==
  /\ pc = "namespace"
  /\ \/ /\ cacheN # "absent" \/ ns = "absent"
        /\ ns' = IF cacheN = "absent" THEN "active" ELSE ns
        /\ inst' = [inst EXCEPT !.named = TRUE]
        /\ pc' = "network" /\ UNCHANGED queued
     \/ /\ cacheN = "absent" /\ ns # "absent"    \* AlreadyExists
        /\ inst' = [inst EXCEPT !.named = TRUE, !.phase = "Failed"]
        /\ pc' = "save" /\ queued' = TRUE
        /\ UNCHANGED ns
  /\ UNCHANGED <<t, udn, caches, old, fresh, errs, blind>>

(* createOrUpdateTenantUDN: nothing can be created where there is one
   already, or in a namespace that is not active. *)
EnsureNetwork ==
  /\ pc = "network"
  /\ LET create == cacheU = "absent"
         refused == create /\ (udn # "absent" \/ ns # "active")
     IN  /\ udn' = IF create /\ ~refused THEN "active" ELSE udn
         /\ inst' = [inst EXCEPT !.phase = IF refused THEN "Failed" ELSE "Ready"]
         /\ queued' = (queued \/ refused)
  /\ pc' = "save"
  /\ UNCHANGED <<t, ns, caches, old, fresh, errs, blind>>

(* Mutant: the namespace is deleted without waiting for the network. *)
DeleteNetworkOnly ==
  /\ pc = "deleteUDN"
  /\ udn' = IF udn = "active" THEN "terminating" ELSE udn
  /\ pc' = "deleteNS"
  /\ UNCHANGED <<t, ns, caches, queued, inst, old, fresh, errs, blind>>

(* deleteTenantUDN: one that is cached but gone makes the request fail. *)
DeleteNetwork ==
  /\ pc = "deleteUDN"
  /\ \/ /\ cacheU = "absent"
        /\ pc' = "deleteNS" /\ UNCHANGED <<udn, queued>>
     \/ /\ cacheU # "absent"
        /\ udn' = IF udn = "active" THEN "terminating" ELSE udn
        /\ queued' = (queued \/ udn = "absent")
        /\ pc' = "save"
  /\ UNCHANGED <<t, ns, caches, inst, old, fresh, errs, blind>>

(* Mutant: the end of the namespace is not waited for. *)
DeleteNamespaceOnly ==
  /\ pc = "deleteNS"
  /\ ns' = IF ns = "active" THEN "terminating" ELSE ns
  /\ pc' = "release"
  /\ UNCHANGED <<t, udn, caches, queued, inst, old, fresh, errs, blind>>

(* deleteTenantNamespace: one that is terminating is only waited for. *)
DeleteNamespace ==
  /\ pc = "deleteNS"
  /\ \/ /\ cacheN = "absent"
        /\ pc' = "release" /\ UNCHANGED <<ns, queued>>
     \/ /\ cacheN = "terminating"
        /\ pc' = "save" /\ UNCHANGED <<ns, queued>>
     \/ /\ cacheN = "active"
        /\ ns' = IF ns = "active" THEN "terminating" ELSE ns
        /\ queued' = (queued \/ ns = "absent")
        /\ pc' = "save"
  /\ UNCHANGED <<t, udn, caches, inst, old, fresh, errs, blind>>

(* "All resources deleted, remove finalizer" *)
Release ==
  /\ pc = "release" /\ fresh
  /\ t' = Gone
  /\ EndReconcile
  /\ UNCHANGED <<ns, udn, caches, queued, errs, blind>>

SameStatus == inst.phase = old.phase /\ inst.named = old.named

NothingToSave ==
  /\ pc = "save" /\ SameStatus
  /\ EndReconcile
  /\ UNCHANGED <<t, ns, udn, caches, queued, errs, blind>>

SaveStatus ==
  /\ pc = "save" /\ ~SameStatus /\ fresh
  /\ t' = [t EXCEPT !.phase = inst.phase, !.named = inst.named]
  /\ EndReconcile
  /\ UNCHANGED <<ns, udn, caches, queued, errs, blind>>

(* Mutant: an error of a request is not returned. *)
ErrorForgotten ==
  /\ pc \in Steps \ {"idle"}
  /\ IF pc \in {"finalizer", "release", "save"} /\ ~fresh
     THEN UNCHANGED errs ELSE Failure
  /\ pc = "save" => ~SameStatus
  /\ EndReconcile
  /\ UNCHANGED <<t, ns, udn, caches, queued, blind>>

(* Mutant: an error of the two that create things is not looked at. *)
ErrorUnchecked ==
  /\ pc \in {"namespace", "network"}
  /\ Failure
  /\ inst' = [inst EXCEPT !.named = TRUE, !.phase = "Ready"]
  /\ pc' = "save"
  /\ UNCHANGED <<t, ns, udn, caches, queued, old, fresh, blind>>

(* A request fails, an update of the tenant also when somebody else has
   written it: the handler gives up, the status is stored nevertheless, and
   the reconcile is repeated. *)
RequestFails ==
  /\ pc \in Steps \ {"idle"}
  /\ IF pc \in {"finalizer", "release", "save"} /\ ~fresh
     THEN UNCHANGED errs ELSE Failure
  /\ queued' = TRUE
  /\ \/ /\ pc = "save" /\ ~SameStatus
        /\ EndReconcile
     \/ /\ pc \in {"namespace", "network"}
        /\ inst' = [inst EXCEPT !.named = TRUE, !.phase = "Failed"]
        /\ pc' = "save" /\ UNCHANGED <<old, fresh>>
     \/ /\ pc \in {"finalizer", "deleteUDN", "deleteNS", "release"}
        /\ pc' = "save" /\ UNCHANGED <<inst, old, fresh>>
  /\ UNCHANGED <<t, ns, udn, caches, blind>>

(* The operator restarts with new caches and looks at every tenant. *)
Crash ==
  /\ pc # "idle"
  /\ Failure
  /\ EndReconcile
  /\ cacheT' = t /\ cacheN' = ns /\ cacheU' = udn
  /\ queued' = TRUE
  /\ UNCHANGED <<t, ns, udn, blind>>

-----------------------------------------------------------------------------
(* The informers *)

CacheTenant ==
  /\ cacheT # t
  /\ cacheT' = t /\ queued' = TRUE
  /\ UNCHANGED <<t, ns, udn, cacheN, cacheU, pc, inst, old, fresh, errs, blind>>

(* mapObjectToTenant: an event of the two others counts if the tenant is
   known. *)
CacheNamespace ==
  /\ cacheN # ns
  /\ cacheN' = ns /\ queued' = (queued \/ cacheT.exists)
  /\ UNCHANGED <<t, ns, udn, cacheT, cacheU, pc, inst, old, fresh, errs, blind>>

(* Mutant: networks are not watched. *)
CacheNetworkUnwatched ==
  /\ cacheU # udn
  /\ cacheU' = udn
  /\ UNCHANGED <<t, ns, udn, cacheT, cacheN, ctrlVars, fresh, errs, blind>>

CacheNetwork ==
  /\ cacheU # udn
  /\ cacheU' = udn /\ queued' = (queued \/ cacheT.exists)
  /\ UNCHANGED <<t, ns, udn, cacheT, cacheN, pc, inst, old, fresh, errs, blind>>

-----------------------------------------------------------------------------
(* ComputeInstances, garbage collector, Kubernetes and OVN *)

(* createOrUpdateTenant of a ComputeInstance that finds no tenant. *)
TenantCreated ==
  /\ ~t.exists
  /\ t' = NewTenant /\ fresh' = FALSE
  /\ UNCHANGED <<ns, udn, caches, ctrlVars, errs, blind>>

(* createOrUpdateTenant of another ComputeInstance that needs the tenant: a
   version of its own, in which nothing changes that is modelled here. *)
OwnerAdded ==
  /\ fresh
  /\ Failure
  /\ fresh' = FALSE /\ queued' = TRUE
  /\ UNCHANGED <<t, ns, udn, caches, pc, inst, old, blind>>

(* The last owner is gone. *)
TenantDeleted ==
  /\ t.exists /\ ~t.deleting
  /\ t' = IF t.fin THEN [t EXCEPT !.deleting = TRUE] ELSE Gone
  /\ fresh' = FALSE
  /\ UNCHANGED <<ns, udn, caches, ctrlVars, errs, blind>>

(* A namespace goes after what is in it. *)
NamespaceEnds ==
  /\ ns = "terminating"
  /\ \/ udn = "active" /\ udn' = "terminating" /\ UNCHANGED ns
     \/ udn = "absent" /\ ns' = "absent" /\ UNCHANGED udn
  /\ UNCHANGED <<t, caches, ctrlVars, fresh, errs, blind>>

NetworkEnds ==
  /\ udn = "terminating"
  /\ udn' = "absent"
  /\ UNCHANGED <<t, ns, caches, ctrlVars, fresh, errs, blind, blind>>

-----------------------------------------------------------------------------
ControllerStep ==
  \/ Reconcile \/ AddFinalizer \/ EnsureNamespace \/ EnsureNetwork
  \/ DeleteNetwork \/ DeleteNamespace \/ Release
  \/ NothingToSave \/ SaveStatus \/ RequestFails

Next ==
  \/ ControllerStep \/ Crash
  \/ CacheTenant \/ CacheNamespace \/ CacheNetwork
  \/ TenantCreated \/ OwnerAdded \/ TenantDeleted
  \/ NamespaceEnds \/ NetworkEnds

Spec == Init /\ [][Next]_vars

(* Nothing is assumed of those who create and delete tenants. *)
Fairness ==
  /\ WF_vars(ControllerStep)
  /\ WF_vars(CacheTenant) /\ WF_vars(CacheNamespace) /\ WF_vars(CacheNetwork)
  /\ WF_vars(NamespaceEnds) /\ WF_vars(NetworkEnds)

FairSpec == Spec /\ Fairness

-----------------------------------------------------------------------------
(* Properties.  Nothing in the code makes a reconcile wait for the caches, so
   the safety properties are those of a controller that is not blind. *)

(***************************************************************************)
(* A tenant that claims to be Ready has its namespace and its network; the *)
(* ComputeInstances that wait for it rely on that.                         *)
(***************************************************************************)
ReadyMeansReady ==
  ~blind /\ t.phase = "Ready" /\ ~t.deleting => ns = "active" /\ udn = "active"

(***************************************************************************)
(* "Delete UDN first": handleDelete asks the namespace to go only when the *)
(* network in it has gone.                                                 *)
(***************************************************************************)
NetworkGoesFirst ==
  [][ ~blind /\ ns = "active" /\ ns' = "terminating" => udn = "absent" ]_vars

(***************************************************************************)
(* "All resources deleted, remove finalizer": a tenant whose status names  *)
(* a namespace is not released before that is gone, with its network.      *)
(***************************************************************************)
ReleasedWhenClean ==
  [][ ~blind /\ t.exists /\ t.fin /\ t.named /\ ~t'.exists
        => ns = "absent" /\ udn = "absent" ]_vars

(***************************************************************************)
(* The inductive invariant behind them: what the copies of the controller  *)
(* say of the tenant, and what the objects are while nothing deletes them. *)
(***************************************************************************)
Ending == t.deleting /\ t.fin /\ t.named

Empty == ns = "absent" /\ udn = "absent" /\ cacheN = "absent" /\ cacheU = "absent"

CopiesInv ==
  /\ t.exists \/ t = Gone
  /\ fresh => pc # "idle" /\ t = old /\ cacheT = t
  /\ pc # "idle" => old.exists
  /\ cacheT.fin /\ ~cacheT.deleting => t.fin
  /\ pc \in {"namespace", "network"} => t.fin
  /\ pc = "finalizer" => SameStatus /\ ~old.deleting
  /\ pc \in {"deleteUDN", "deleteNS"} => old.named
  /\ pc \in {"deleteUDN", "deleteNS", "release"} =>
       old.deleting /\ old.fin /\ inst.phase = "Deleting" /\ inst.named = old.named
  /\ old.named => inst.named

DeletionInv ==
  /\ cacheT.deleting /\ cacheT.fin /\ cacheT.named => Ending \/ (Empty /\ ~t.fin)
  /\ pc \in {"deleteUDN", "deleteNS"} => Ending \/ Empty
  /\ pc \in {"deleteUDN", "deleteNS", "release"} => SeesOwnObjects
  /\ pc = "deleteNS" => udn = "absent" /\ cacheU = "absent"
  /\ pc = "release" /\ inst.named => Empty

CalmInv ==
  /\ ~Ending =>
       /\ ns # "terminating" /\ udn # "terminating"
       /\ cacheN # "absent" => ns = "active"
       /\ cacheU # "absent" => udn = "active"
       /\ udn = "active" => ns = "active"
  /\ pc = "save" /\ inst.phase = "Ready" /\ ~SameStatus /\ ~t.deleting =>
       ns = "active" /\ udn = "active"

IInv == TypeOK /\ CopiesInv /\ (~blind => DeletionInv /\ CalmInv) /\ ReadyMeansReady

(***************************************************************************)
(* Events are all that brings the controller back: when it waits and the   *)
(* caches have seen everything, a live tenant is Ready, with a namespace   *)
(* and a network, and a deleted one waits for the end of one of the two -  *)
(* after failing requests, conflicts, restarts and reconciles that were    *)
(* blind, and although handleDelete asks for no other turn.                *)
(***************************************************************************)
Resting ==
  pc = "idle" /\ ~queued /\ cacheT = t /\ cacheN = ns /\ cacheU = udn

NothingToDo ==
  IF t.deleting THEN "terminating" \in {ns, udn}
  ELSE t.fin /\ t.phase = "Ready" /\ ns # "absent" /\ udn # "absent"

RestsWhenDone == Resting /\ t.exists => NothingToDo

(***************************************************************************)
(* The finalizer "is used to clean up the tenant": any tenant that is gone *)
(* leaves nothing, whether or not its status named the namespace.          *)
(***************************************************************************)
NothingLeft == ~blind /\ ~t.exists => ns = "absent" /\ udn = "absent"

(***************************************************************************)
(* Events and the retries of failed reconciles are enough for handleUpdate *)
(* to make every tenant Ready that is not deleted, blind or not.           *)
(***************************************************************************)
BecomesReady ==
  t.exists /\ ~t.deleting ~> t.phase = "Ready" \/ t.deleting \/ ~t.exists

(***************************************************************************)
(* A deleted tenant goes: handleDelete returns without a requeue after it  *)
(* deleted the network and again after the namespace, and the watches of   *)
(* both bring it back.                                                     *)
(***************************************************************************)
DeletionCompletes == t.deleting ~> ~t.exists

=============================================================================
