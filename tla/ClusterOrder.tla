---------------------------- MODULE ClusterOrder ----------------------------
(***************************************************************************)
(* Reconcile of the ClusterOrder controller                                *)
(* (internal/controller/clusterorder_controller.go and                     *)
(* clusterorder_resources.go): a namespace with an account in it, a        *)
(* webhook that has the hosted cluster created there, the look-out for the *)
(* hosted cluster, and the way back.                                       *)
(*                                                                         *)
(* The conditions follow the phase and the reference to the namespace and  *)
(* are not kept apart, node pools are left out.                            *)
(***************************************************************************)
EXTENDS Order

(* handleUpdate starts with phase Progressing, handleDelete with Deleting. *)
Reconcile ==
  StartReconcile(
    [cacheO EXCEPT !.phase = IF cacheO.deleting THEN "Deleting" ELSE "Progressing"],
    CASE cacheO.deleting                 -> "deleting"
      [] ~cacheO.deleting /\ cacheO.fin  -> "namespace"
      [] ~cacheO.deleting /\ ~cacheO.fin -> "finalizer")

(* handleUpdate goes on with the version it wrote. *)
AddFinalizer ==
  /\ pc = "finalizer" /\ fresh
  /\ order' = [order EXCEPT !.fin = TRUE]
  /\ inst' = [inst EXCEPT !.fin = TRUE]
  /\ pc' = "namespace"
  /\ UNCHANGED <<kind, ns, hc, caches, queued, old, fresh, bounds, history, blind,
                 clientVars>>

(* The namespace, the service account and the role binding. *)
EnsureComponents == EnsureNamespace("hosted")

(* findNamespace and handleHostedCluster, both from the caches. *)
ReadHostedCluster ==
  /\ pc = "hosted" /\ cacheN # "absent"
  /\ inst' = [inst EXCEPT !.phase = IF cacheH = "ready" THEN "Ready" ELSE @]
  /\ pc' = "create"
  /\ UNCHANGED <<kind, order, ns, hc, caches, queued, old, fresh, bounds, history,
                 blind, clientVars>>

(* The name of a namespace that the cache does not hold yet is read: the panic
   ends the reconcile like an error. *)
NamespaceUnseen ==
  /\ pc = "hosted" /\ cacheN = "absent"
  /\ EndReconcile /\ queued' = TRUE
  /\ UNCHANGED <<kind, order, ns, hc, caches, bounds, history, blind, clientVars>>

(* The create webhook is sent by every reconcile that may send it. *)
SkipCreate ==
  /\ pc = "create" /\ inst.mgmt = "manual"
  /\ pc' = "save"
  /\ UNCHANGED <<kind, order, ns, hc, caches, queued, inst, old, fresh, bounds,
                 history, blind, clientVars>>

SendCreate ==
  /\ pc = "create" /\ inst.mgmt # "manual"
  /\ Sent("create")
  /\ requested' = requested \cup {inst.spec}
  /\ pc' = "save"
  /\ UNCHANGED <<kind, order, ns, hc, caches, queued, inst, old, fresh, bounds,
                 cleaned, manual, blind>>

(* Mutant: the retry after the rate limit is forgotten. *)
CreateLimitedForgotten ==
  /\ pc = "create" /\ inst.mgmt # "manual"
  /\ Limited("create")
  /\ pc' = "save"
  /\ UNCHANGED <<kind, order, ns, hc, caches, queued, inst, old, fresh, bounds,
                 history, blind>>

CreateLimited ==
  /\ pc = "create" /\ inst.mgmt # "manual"
  /\ Limited("create")
  /\ pc' = "save" /\ queued' = TRUE
  /\ UNCHANGED <<kind, order, ns, hc, caches, inst, old, fresh, bounds, history,
                 blind>>

CreateFails ==
  /\ pc = "create" /\ inst.mgmt # "manual"
  /\ Failed("create") /\ Failure
  /\ pc' = "save" /\ queued' = TRUE
  /\ UNCHANGED <<kind, order, ns, hc, caches, inst, old, fresh, changes, history,
                 blind>>

-----------------------------------------------------------------------------
(* handleDelete *)

(* Mutant: the namespace is deleted once; its end is not waited for. *)
FindNothingOnceDeleted ==
  /\ pc = "deleting"
  /\ cacheN # "active"
  /\ pc' = IF inst.fin THEN "release" ELSE "delete"
  /\ UNCHANGED <<kind, order, ns, hc, caches, queued, inst, old, fresh, bounds,
                 history, blind, clientVars>>

(* The namespace is gone. *)
FindNothing ==
  /\ pc = "deleting"
  /\ cacheN = "absent"
  /\ pc' = IF inst.fin THEN "release" ELSE "delete"
  /\ UNCHANGED <<kind, order, ns, hc, caches, queued, inst, old, fresh, bounds,
                 history, blind, clientVars>>

(* The namespace is there: it is deleted unless it has a hosted cluster. *)
FindNamespace ==
  /\ pc = "deleting"
  /\ cacheN # "absent"
  /\ pc' = IF cacheH = "absent" THEN "deleteNS" ELSE "delete"
  /\ UNCHANGED <<kind, order, ns, hc, caches, queued, inst, old, fresh, bounds,
                 history, blind, clientVars>>

DeleteEmptyNamespace == pc = "deleteNS" /\ DeleteNamespace("delete")

RemoveFinalizer == Release("delete")

(* The delete webhook comes last, and always. *)
SkipDelete ==
  /\ pc = "delete" /\ inst.mgmt = "manual"
  /\ pc' = "save"
  /\ UNCHANGED <<kind, order, ns, hc, caches, queued, inst, old, fresh, bounds,
                 history, blind, clientVars>>

SendDelete ==
  /\ pc = "delete" /\ inst.mgmt # "manual"
  /\ Sent("delete")
  /\ cleaned' = (cleaned \/ inst.uid = order.uid)
  /\ pc' = "save"
  /\ UNCHANGED <<kind, order, ns, hc, caches, queued, inst, old, fresh, bounds,
                 requested, manual, blind>>

DeleteLimited ==
  /\ pc = "delete" /\ inst.mgmt # "manual"
  /\ Limited("delete")
  /\ pc' = "save" /\ queued' = TRUE
  /\ UNCHANGED <<kind, order, ns, hc, caches, inst, old, fresh, bounds, history,
                 blind>>

DeleteFails ==
  /\ pc = "delete" /\ inst.mgmt # "manual"
  /\ Failed("delete") /\ Failure
  /\ pc' = "save" /\ queued' = TRUE
  /\ UNCHANGED <<kind, order, ns, hc, caches, inst, old, fresh, changes, history,
                 blind>>

-----------------------------------------------------------------------------
ClusterOrderStep ==
  \/ Reconcile \/ AddFinalizer \/ EnsureComponents
  \/ ReadHostedCluster \/ NamespaceUnseen
  \/ SkipCreate \/ SendCreate \/ CreateLimited \/ CreateFails
  \/ FindNothing \/ FindNamespace \/ DeleteEmptyNamespace \/ RemoveFinalizer
  \/ SkipDelete \/ SendDelete \/ DeleteLimited \/ DeleteFails
  \/ RequestFails \/ NothingToSave \/ SaveStatus

=============================================================================
