------------------------------ MODULE HostPool ------------------------------
(***************************************************************************)
(* Reconcile of the HostPool controller                                    *)
(* (internal/controller/hostpool_controller.go and hostpool_resources.go): *)
(* a namespace and a webhook that has the hosts allocated, and the way     *)
(* back in the opposite order.                                             *)
(*                                                                         *)
(* Nobody reports back which hosts there are: the pool is Ready as soon as *)
(* the webhook was called, and its status shows the host sets of the spec. *)
(* The conditions follow the phase and are not kept apart.                 *)
(***************************************************************************)
EXTENDS Order

(* The local copy and the step both handlers begin with. *)
Reconcile ==
  StartReconcile(
    [cacheO EXCEPT !.phase =
       CASE cacheO.deleting                                     -> "Deleting"
         [] ~cacheO.deleting /\ cacheO.fin /\ cacheO.phase = "None" -> "Progressing"
         [] OTHER                                               -> @],
    CASE cacheO.deleting /\ cacheO.fin   -> "deleting"
      [] cacheO.deleting /\ ~cacheO.fin  -> "save"
      [] ~cacheO.deleting /\ cacheO.fin  -> "namespace"
      [] ~cacheO.deleting /\ ~cacheO.fin -> "finalizer")

(* handleUpdate asks for another turn once the finalizer is there. *)
AddFinalizer ==
  /\ pc = "finalizer" /\ fresh
  /\ order' = [order EXCEPT !.fin = TRUE]
  /\ EndReconcile /\ queued' = TRUE
  /\ UNCHANGED <<kind, ns, hc, caches, bounds, history, blind, clientVars>>

EnsureComponents == EnsureNamespace("create")

(* Ready, with the host sets of the spec. *)
Allocated(pool) == [pool EXCEPT !.phase = "Ready", !.hosts = pool.spec]

SendCreate ==
  /\ pc = "create"
  /\ Sent("create")
  /\ requested' = requested \cup {inst.spec}
  /\ inst' = Allocated(inst)
  /\ pc' = "save"
  /\ UNCHANGED <<kind, order, ns, hc, caches, queued, old, fresh, bounds, cleaned,
                 manual, blind>>

(* The rate limit is not noticed. *)
CreateLimited ==
  /\ pc = "create"
  /\ Limited("create")
  /\ inst' = Allocated(inst)
  /\ pc' = "save"
  /\ UNCHANGED <<kind, order, ns, hc, caches, queued, old, fresh, bounds, history,
                 blind>>

(* Mutant: the failure is logged, and the pool goes Ready. *)
CreateFailureIgnored ==
  /\ pc = "create"
  /\ Failed("create") /\ Failure
  /\ inst' = Allocated(inst)
  /\ pc' = "save"
  /\ UNCHANGED <<kind, order, ns, hc, caches, queued, old, fresh, changes, history,
                 blind>>

(* The error is returned, so that phase Failed is not stored. *)
CreateFails ==
  /\ pc = "create"
  /\ Failed("create") /\ Failure
  /\ EndReconcile /\ queued' = TRUE
  /\ UNCHANGED <<kind, order, ns, hc, caches, changes, history, blind>>

-----------------------------------------------------------------------------
(* handleDelete *)

(* The namespace is there, or gone. *)
FindNamespace ==
  /\ pc = "deleting"
  /\ pc' = IF cacheN # "absent" THEN "delete" ELSE "release"
  /\ UNCHANGED <<kind, order, ns, hc, caches, queued, inst, old, fresh, bounds,
                 history, blind, clientVars>>

(* The delete webhook comes before the namespace goes. *)
SkipDelete ==
  /\ pc = "delete" /\ inst.mgmt = "manual"
  /\ pc' = "deleteNS"
  /\ UNCHANGED <<kind, order, ns, hc, caches, queued, inst, old, fresh, bounds,
                 history, blind, clientVars>>

SendDelete ==
  /\ pc = "delete" /\ inst.mgmt # "manual"
  /\ Sent("delete")
  /\ cleaned' = (cleaned \/ inst.uid = order.uid)
  /\ pc' = "deleteNS"
  /\ UNCHANGED <<kind, order, ns, hc, caches, queued, inst, old, fresh, bounds,
                 requested, manual, blind>>

DeleteLimited ==
  /\ pc = "delete" /\ inst.mgmt # "manual"
  /\ Limited("delete")
  /\ pc' = "save" /\ queued' = TRUE
  /\ UNCHANGED <<kind, order, ns, hc, caches, inst, old, fresh, bounds, history,
                 blind>>

(* Mutant: the namespace is deleted although the webhook failed. *)
DeleteFailsAndGoesOn ==
  /\ pc = "delete" /\ inst.mgmt # "manual"
  /\ Failed("delete") /\ Failure
  /\ pc' = "deleteNS"
  /\ UNCHANGED <<kind, order, ns, hc, caches, queued, inst, old, fresh, changes,
                 history, blind>>

DeleteFails ==
  /\ pc = "delete" /\ inst.mgmt # "manual"
  /\ Failed("delete") /\ Failure
  /\ pc' = "save" /\ queued' = TRUE
  /\ UNCHANGED <<kind, order, ns, hc, caches, inst, old, fresh, changes, history,
                 blind>>

DeleteItsNamespace == pc = "deleteNS" /\ DeleteNamespace("save")

RemoveFinalizer == Release("save")

-----------------------------------------------------------------------------
HostPoolStep ==
  \/ Reconcile \/ AddFinalizer \/ EnsureComponents
  \/ SendCreate \/ CreateLimited \/ CreateFails
  \/ FindNamespace \/ SkipDelete \/ SendDelete \/ DeleteLimited \/ DeleteFails
  \/ DeleteItsNamespace \/ RemoveFinalizer
  \/ RequestFails \/ NothingToSave \/ SaveStatus

=============================================================================
