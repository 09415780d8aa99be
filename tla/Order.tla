-------------------------------- MODULE Order --------------------------------
(***************************************************************************)
(* What the ClusterOrder and the HostPool controller share: a resource     *)
(* with a finalizer and a namespace of its own, the informer caches they   *)
(* are read from, the two webhooks, the store of the status at the end of  *)
(* a reconcile, and everybody else who acts on these objects.              *)
(*                                                                         *)
(* The modules ClusterOrder and HostPool add the steps of their Reconcile, *)
(* module Orders the next-state relation and the properties.  The caches   *)
(* follow the API server independently of each other.  A resource that is  *)
(* gone may be created again under its name, which is all that the         *)
(* namespace and the webhook client know of it.                            *)
(***************************************************************************)
EXTENDS WebhookClient

CONSTANTS
  ManagementStates,  \* values the management-state annotation takes
  MaxEvents          \* bound: edits of the spec or of the annotation,
                     \* creations, requests that fail, restarts,
                     \* degradations and late playbooks, all together

ASSUME OrderAssumption ==
  /\ ManagementStates \subseteq {"managed", "manual", "unmanaged"}
  /\ ManagementStates # {}
  /\ MaxEvents \in Nat

VARIABLES
  kind,      \* the resource is a "cluster" order or a "hostpool"
  order,     \* the resource in the API server
  ns,        \* its namespace there
  hc,        \* the hosted cluster in the namespace
  cacheO,    \* the resource, the namespace, the hosted cluster in the caches
  cacheN,
  cacheH,
  queued,    \* the work queue holds the key of the resource
  pc,        \* step of the reconcile under way, "idle" between reconciles
  inst,      \* the local copy of the resource
  old,       \* the local copy as it was read
  fresh,     \* ... which is still the current version
  errs,      \* failures so far, which MaxEvents bounds
  changes,   \* edits and creations so far, which MaxEvents bounds
  requested, \* history: specs of this resource a create webhook accepted
  cleaned,   \* history: the delete webhook was accepted for this resource
  manual,    \* history: this resource has been managed manually
  blind      \* history: some reconcile started before the cache had seen the
             \* namespace the controller created

caches   == <<cacheO, cacheN, cacheH>>
ctrlVars == <<pc, inst, old, fresh>>
history  == <<requested, cleaned, manual>>
bounds   == <<errs, changes>>
vars     == <<kind, order, ns, hc, caches, queued, ctrlVars, bounds, history,
              blind, clientVars>>

-----------------------------------------------------------------------------
(* Types *)

Kinds == {"cluster", "hostpool"}

Phases == {"None", "Progressing", "Failed", "Ready", "Deleting"}

(* uid tells resources of the same name apart; named: the reference to the
   namespace and what is set with it; hosts: the spec that status.hostSets
   shows, 0 when it shows none. *)
Object == [uid : Nat, exists : BOOLEAN, deleting : BOOLEAN, fin : BOOLEAN,
           spec : Nat,
           mgmt : {"managed", "manual", "unmanaged"},
           phase : Phases, named : BOOLEAN, hosts : Nat]

Lives == {"absent", "active", "terminating"}

ClusterLives == {"absent", "created", "ready"}

Steps == {"idle", "finalizer", "namespace", "hosted", "create", "deleting",
          "deleteNS", "release", "delete", "save"}

NewOrder(uid, mgmt) ==
  [uid |-> uid, exists |-> TRUE, deleting |-> FALSE, fin |-> FALSE, spec |-> 1,
   mgmt |-> mgmt, phase |-> "None", named |-> FALSE, hosts |-> 0]

(* What is left of a resource: history. *)
Gone(o) == [NewOrder(o.uid, o.mgmt) EXCEPT !.exists = FALSE]

NoOrder == Gone(NewOrder(0, "managed"))

(***************************************************************************)
(* The variables have the types of the code.                               *)
(***************************************************************************)
TypeOK ==
  /\ kind \in Kinds
  /\ order \in Object /\ cacheO \in Object /\ inst \in Object /\ old \in Object
  /\ ns \in Lives /\ cacheN \in Lives
  /\ hc \in ClusterLives /\ cacheH \in ClusterLives
  /\ queued \in BOOLEAN /\ fresh \in BOOLEAN /\ cleaned \in BOOLEAN
  /\ manual \in BOOLEAN /\ blind \in BOOLEAN
  /\ pc \in Steps
  /\ errs \in Nat /\ changes \in Nat /\ requested \subseteq Nat
  /\ ClientTypeOK

Init ==
  /\ kind \in Kinds
  /\ order \in {NewOrder(1, m) : m \in ManagementStates} /\ cacheO = order
  /\ ns = "absent" /\ cacheN = "absent" /\ hc = "absent" /\ cacheH = "absent"
  /\ queued = TRUE /\ pc = "idle" /\ inst = NoOrder /\ old = NoOrder /\ fresh = FALSE
  /\ errs = 0 /\ changes = 0 /\ requested = {} /\ cleaned = FALSE
  /\ manual = (order.mgmt = "manual")
  /\ blind = FALSE
  /\ ClientInit

-----------------------------------------------------------------------------
(* The parts of a reconcile that are alike *)

Failure == errs + changes < MaxEvents /\ errs' = errs + 1

EndReconcile == pc' = "idle" /\ inst' = NoOrder /\ old' = NoOrder /\ fresh' = FALSE

(* Reconcile up to the first request: the handler begins with the given local
   copy at the given step. *)
StartReconcile(local, step) ==
  /\ pc = "idle" /\ queued
  /\ queued' = FALSE
  /\ blind' = (blind \/ (ns # "absent" /\ cacheN = "absent"))
  /\ IF ~cacheO.exists \/ cacheO.mgmt = "unmanaged"
     THEN UNCHANGED ctrlVars
     ELSE /\ inst' = local /\ old' = cacheO /\ fresh' = (cacheO = order)
          /\ pc' = step
  /\ UNCHANGED <<kind, order, ns, hc, caches, bounds, history, clientVars>>

(* CreateOrUpdate of the namespace, which is looked up in the cache. *)
EnsureNamespace(next) ==
  /\ pc = "namespace"
  /\ cacheN # "absent" \/ ns = "absent"
  /\ ns' = IF cacheN = "absent" THEN "active" ELSE ns
  /\ inst' = [inst EXCEPT !.named = TRUE]
  /\ pc' = next
  /\ UNCHANGED <<kind, order, hc, caches, queued, old, fresh, bounds, history,
                 blind, clientVars>>

(* The deletion of the namespace, which may be on its way already. *)
DeleteNamespace(next) ==
  /\ ns # "absent"
  /\ ns' = "terminating"
  /\ pc' = next
  /\ UNCHANGED <<kind, order, hc, caches, queued, inst, old, fresh, bounds,
                 history, blind, clientVars>>

(* The update that removes the finalizer. *)
Release(next) ==
  /\ pc = "release" /\ fresh
  /\ order' = Gone(order)
  /\ pc' = next /\ inst' = old /\ fresh' = FALSE
  /\ UNCHANGED <<kind, ns, hc, caches, queued, old, bounds, history, blind,
                 clientVars>>

(* A request is in vain: the object is there although the cache does not say
   so, or is gone although it does, or the write meets a conflict; or the
   account of a cluster has to be created in a namespace that is going. *)
Refused ==
  \/ pc = "namespace" /\ cacheN = "absent" /\ ns # "absent"
  \/ pc = "namespace" /\ kind = "cluster" /\ ns = "terminating"
  \/ pc = "deleteNS" /\ ns = "absent"
  \/ pc \in {"finalizer", "release", "save"} /\ ~fresh

SameStatus ==
  inst.phase = old.phase /\ inst.named = old.named /\ inst.hosts = old.hosts

Requests == {"finalizer", "namespace", "hosted", "deleteNS", "release", "save"}

(* Mutant: the error ends the reconcile, and is not returned. *)
ErrorForgotten ==
  /\ pc \in Requests /\ (pc = "save" => ~SameStatus)
  /\ IF Refused THEN UNCHANGED errs ELSE Failure
  /\ EndReconcile /\ UNCHANGED queued
  /\ UNCHANGED <<kind, order, ns, hc, caches, changes, history, blind, clientVars>>

(* An error is returned: the status is not stored, the key is queued again. *)
RequestFails ==
  /\ pc \in Requests /\ (pc = "save" => ~SameStatus)
  /\ IF Refused THEN UNCHANGED errs ELSE Failure
  /\ EndReconcile /\ queued' = TRUE
  /\ UNCHANGED <<kind, order, ns, hc, caches, changes, history, blind, clientVars>>

NothingToSave ==
  /\ pc = "save" /\ SameStatus
  /\ EndReconcile
  /\ UNCHANGED <<kind, order, ns, hc, caches, queued, bounds, history, blind,
                 clientVars>>

SaveStatus ==
  /\ pc = "save" /\ ~SameStatus /\ fresh
  /\ order' = [order EXCEPT !.phase = inst.phase, !.named = inst.named,
                            !.hosts = inst.hosts]
  /\ EndReconcile
  /\ UNCHANGED <<kind, ns, hc, caches, queued, bounds, history, blind, clientVars>>

-----------------------------------------------------------------------------
(* The others *)

Change == errs + changes < MaxEvents /\ changes' = changes + 1

(* Mutant: events of the namespace do not reach the work queue. *)
CacheNamespaceUnwatched ==
  /\ cacheN # ns
  /\ cacheN' = ns
  /\ UNCHANGED <<kind, order, ns, hc, cacheO, cacheH, queued, ctrlVars, bounds,
                 history, blind, clientVars>>

(* The informers; an event of a namespace or of a hosted cluster counts when
   the cache holds the resource it belongs to. *)
CacheOrder ==
  /\ cacheO # order
  /\ cacheO' = order /\ queued' = TRUE
  /\ UNCHANGED <<kind, order, ns, hc, cacheN, cacheH, ctrlVars, bounds, history,
                 blind, clientVars>>

CacheNamespace ==
  /\ cacheN # ns
  /\ cacheN' = ns /\ queued' = (queued \/ cacheO.exists)
  /\ UNCHANGED <<kind, order, ns, hc, cacheO, cacheH, ctrlVars, bounds, history,
                 blind, clientVars>>

CacheHosted ==
  /\ cacheH # hc
  /\ cacheH' = hc /\ queued' = (queued \/ cacheO.exists)
  /\ UNCHANGED <<kind, order, ns, hc, cacheO, cacheN, ctrlVars, bounds, history,
                 blind, clientVars>>

(* A namespace ends when its hosted cluster has gone. *)
NamespaceEnds ==
  /\ ns = "terminating" /\ hc = "absent"
  /\ ns' = "absent"
  /\ UNCHANGED <<kind, order, hc, caches, queued, ctrlVars, bounds, history,
                 blind, clientVars>>

(* The hosted cluster is to go: the playbook was asked to delete it, or
   somebody does it who manages the resource. *)
CleanUpAsked == cleaned \/ (order.mgmt = "manual" /\ order.deleting)

(* The playbooks work on a resource that they were asked for, somebody else on
   a manual one. *)
HostedClusterCreated ==
  /\ kind = "cluster" /\ hc = "absent" /\ ns = "active"
  /\ order.exists /\ ~CleanUpAsked
  /\ requested # {} \/ order.mgmt = "manual"
  /\ hc' = "created"
  /\ UNCHANGED <<kind, order, ns, caches, queued, ctrlVars, bounds, history,
                 blind, clientVars>>

(* ... and a create playbook may come late. *)
HostedClusterCreatedLate ==
  /\ kind = "cluster" /\ hc = "absent" /\ ns = "active"
  /\ requested # {} /\ CleanUpAsked
  /\ hc' = "created" /\ Failure
  /\ UNCHANGED <<kind, order, ns, caches, queued, ctrlVars, changes, history,
                 blind, clientVars>>

HostedClusterReady ==
  /\ hc = "created" /\ hc' = "ready"
  /\ UNCHANGED <<kind, order, ns, caches, queued, ctrlVars, bounds, history,
                 blind, clientVars>>

HostedClusterDegrades ==
  /\ hc = "ready" /\ hc' = "created" /\ Failure
  /\ UNCHANGED <<kind, order, ns, caches, queued, ctrlVars, changes, history,
                 blind, clientVars>>

(* It goes with its namespace, or when its deletion was asked for. *)
HostedClusterGoes ==
  /\ hc # "absent" /\ hc' = "absent"
  /\ \/ ns = "terminating"
     \/ (~order.exists \/ order.deleting) /\ (cleaned \/ order.mgmt = "manual")
  /\ UNCHANGED <<kind, order, ns, caches, queued, ctrlVars, bounds, history,
                 blind, clientVars>>

UserEdits ==
  /\ order.exists /\ ~order.deleting
  /\ order' = [order EXCEPT !.spec = @ + 1]
  /\ Change /\ fresh' = FALSE
  /\ UNCHANGED <<kind, ns, hc, caches, queued, pc, inst, old, errs, history,
                 blind, clientVars>>

UserSetsManagementState ==
  /\ order.exists
  /\ \E m \in ManagementStates \ {order.mgmt} :
       /\ order' = [order EXCEPT !.mgmt = m]
       /\ manual' = (manual \/ m = "manual")
  /\ Change /\ fresh' = FALSE
  /\ UNCHANGED <<kind, ns, hc, caches, queued, pc, inst, old, errs, requested,
                 cleaned, blind, clientVars>>

UserDeletes ==
  /\ order.exists /\ ~order.deleting
  /\ order' = IF order.fin THEN [order EXCEPT !.deleting = TRUE] ELSE Gone(order)
  /\ fresh' = FALSE
  /\ UNCHANGED <<kind, ns, hc, caches, queued, pc, inst, old, bounds, history,
                 blind, clientVars>>

UserCreates ==
  /\ ~order.exists
  /\ \E m \in ManagementStates : order' = NewOrder(order.uid + 1, m)
  /\ Change /\ fresh' = FALSE
  /\ requested' = {} /\ cleaned' = FALSE /\ manual' = (order'.mgmt = "manual")
  /\ UNCHANGED <<kind, ns, hc, caches, queued, pc, inst, old, errs, blind,
                 clientVars>>

(* A restart loses the queue and the requests, and the caches are filled
   again. *)
Crash ==
  /\ pc # "idle" /\ Failure
  /\ EndReconcile
  /\ cacheO' = order /\ cacheN' = ns /\ cacheH' = hc /\ queued' = TRUE
  /\ ForgetRequests
  /\ UNCHANGED <<kind, order, ns, hc, changes, history, blind>>

(* One webhook at most belongs to a reconcile, so that time that passes during
   one may as well pass before or after it. *)
TimePasses ==
  /\ pc = "idle" /\ Tick
  /\ UNCHANGED <<kind, order, ns, hc, caches, queued, ctrlVars, bounds, history,
                 blind>>

Environment ==
  \/ CacheOrder \/ CacheNamespace \/ CacheHosted
  \/ NamespaceEnds
  \/ HostedClusterCreated \/ HostedClusterCreatedLate \/ HostedClusterReady
  \/ HostedClusterDegrades \/ HostedClusterGoes
  \/ UserEdits \/ UserSetsManagementState \/ UserDeletes \/ UserCreates
  \/ Crash \/ TimePasses

=============================================================================
