------------------------------- MODULE Orders -------------------------------
(***************************************************************************)
(* A ClusterOrder or a HostPool among its users, the playbooks and the     *)
(* namespace controller: the two controllers, and what is to be said of    *)
(* both.                                                                   *)
(***************************************************************************)
EXTENDS Order

CO == INSTANCE ClusterOrder

HP == INSTANCE HostPool

ControllerStep ==
  \/ kind = "cluster" /\ CO!ClusterOrderStep
  \/ kind = "hostpool" /\ HP!HostPoolStep

Next == ControllerStep \/ Environment

Spec == Init /\ [][Next]_vars

-----------------------------------------------------------------------------
(* Safety *)

(* The finalizer goes. *)
Released == order.exists /\ order.fin /\ ~order'.exists

(***************************************************************************)
(* handleDelete gives the resource up only when its namespace has ended,   *)
(* and the hosted cluster with it, although it asks the cache; provided    *)
(* that the cache has seen the namespaces the controller created.          *)
(***************************************************************************)
ReleasedWhenClean == [][ Released /\ ~blind => ns = "absent" ]_vars

(***************************************************************************)
(* A resource the create webhook was called for has had its delete webhook *)
(* called when it is gone and the controller rests: "We always trigger the *)
(* delete webhook", clusterorder_controller.go.                            *)
(***************************************************************************)
CleanUpRequested ==
  pc = "idle" /\ ~order.exists /\ ~blind /\ requested # {}
    => cleaned \/ manual

(***************************************************************************)
(* ... which is true of a HostPool at any time, whose webhook comes before *)
(* everything else and whose failures stop handleDelete: under failing     *)
(* requests, restarts, the rate limit and a successor of the same name.    *)
(***************************************************************************)
PoolCleanUpRequested ==
  kind = "hostpool" /\ ~order.exists /\ ~blind /\ requested # {}
    => cleaned \/ manual

(***************************************************************************)
(* A resource nobody has touched yet is reported Ready with reason: there  *)
(* is a hosted cluster, or the hosts were asked for.                       *)
(***************************************************************************)
ReadyIsTrue ==
  order.phase = "Ready" /\ ~order.deleting /\ changes = 0
    => IF kind = "cluster" THEN hc # "absent" ELSE requested # {}

(***************************************************************************)
(* Events and the retries the handlers ask for are all that brings the     *)
(* controllers back: when one waits and its caches have seen everything, a *)
(* live resource has its finalizer and its namespace, its phase says what  *)
(* there is, and its last spec has reached the create webhook of a         *)
(* cluster; a deleted one waits for the end of its namespace, or of the    *)
(* hosted cluster that the delete webhook was called for.                  *)
(***************************************************************************)
Resting ==
  pc = "idle" /\ ~queued /\ cacheO = order /\ cacheN = ns /\ cacheH = hc

NothingToDo ==
  IF order.deleting
  THEN \/ ns = "terminating"
       \/ kind = "cluster" /\ hc # "absent" /\ (cleaned \/ order.mgmt = "manual")
  ELSE /\ order.fin /\ order.named /\ ns # "absent"
       /\ order.phase = "Ready" <=> kind = "hostpool" \/ hc = "ready"
       /\ kind = "cluster" /\ order.mgmt = "managed" => order.spec \in requested

RestsWhenDone ==
  Resting /\ order.exists /\ order.mgmt # "unmanaged" => NothingToDo

-----------------------------------------------------------------------------
(* Why they hold: the inductive invariant of the proofs *)

(* Steps of handleUpdate that follow the finalizer, and of handleDelete. *)
Updating == pc \in {"namespace", "hosted", "create"}

Deleting == pc \in {"deleting", "deleteNS", "release", "delete"}

Alive(o) == o.exists /\ o.fin /\ ~o.deleting

(* A copy is an older version of the resource, or of a predecessor. *)
OlderThanOrder(o) ==
  /\ o.uid <= order.uid
  /\ o.uid = order.uid =>
       /\ o.mgmt = "manual" => manual
       /\ order.exists /\ o.exists /\ o.fin => order.fin
       /\ order.exists /\ o.exists /\ o.deleting => order.deleting

(* The local copy was read from the cache, fits the step, and is the current
   version until somebody else writes. *)
CopyFits ==
  /\ order.mgmt = "manual" => manual
  /\ OlderThanOrder(cacheO)
  /\ pc # "idle" =>
       /\ OlderThanOrder(inst) /\ inst.uid <= cacheO.uid /\ inst.exists
       /\ old.exists /\ old.uid = inst.uid /\ old.mgmt = inst.mgmt
       /\ old.deleting = inst.deleting
       /\ pc = "finalizer" \/ Updating => ~inst.deleting
       /\ Deleting => inst.deleting
       /\ fresh => /\ order.exists /\ order.uid = inst.uid
                   /\ order.deleting = inst.deleting

(* The controller lets go of a resource only once its cache shows that it is
   being deleted: what it holds as alive is. *)
AliveIsAlive ==
  /\ order.deleting => order.exists /\ order.fin
  /\ Alive(cacheO) =>
       order.exists /\ order.fin /\ order.uid = cacheO.uid
  /\ pc # "idle" /\ inst.deleting /\ inst.uid = cacheO.uid =>
       cacheO.deleting \/ ~cacheO.exists
  /\ Updating => order.exists /\ order.fin /\ order.uid = inst.uid

(* The controller has not got to the present resource, if there is one. *)
Untouched ==
  \/ ~order.exists
  \/ ~order.fin
  \/ cacheO.uid < order.uid
  \/ pc # "idle" /\ inst.uid < order.uid

(* The namespace, in the API server and in the cache, when the controller has
   always seen the one it created. *)
NamespaceInOrder ==
  /\ Untouched => ns = "absent" /\ cacheN = "absent"
  /\ order.exists /\ (~order.deleting \/ Updating \/ Alive(cacheO)) =>
       ns \in {"absent", "active"} /\ cacheN \in {"absent", ns}
  /\ pc \in {"hosted", "create"} => ns = "active"
  /\ Deleting => ns = "absent" \/ cacheN # "absent"
  /\ pc = "release" => ns = "absent" /\ cacheN = "absent"

(* The delete webhook of a pool comes before the end of its namespace, and the
   create webhook only while it has one. *)
Clean == cleaned \/ manual

WebhooksInOrder ==
  kind = "hostpool" =>
    /\ order.exists /\ Untouched => requested = {}
    /\ order.exists /\ requested # {} => ns = "active" \/ Clean
    /\ pc = "deleteNS" /\ inst.uid = order.uid => Clean

(* Phase Ready has its reason in every copy of a resource nobody has touched,
   which is the first of its name, and whose namespace is its own. *)
ReadyInv ==
  /\ ~order.exists => order.phase = "None"
  /\ changes = 0 => order.uid = 1 /\ cacheO.uid = 1 /\ (pc # "idle" => inst.uid = 1)
  /\ kind = "hostpool" /\ changes = 0 =>
       /\ "create" \in DOMAIN inflight => requested # {}
       /\ \A o \in {order, cacheO, inst, old} : o.phase = "Ready" => requested # {}
  /\ kind = "cluster" /\ changes = 0 /\ order.exists /\ ~order.deleting =>
       /\ ns # "terminating"
       /\ cacheH # "absent" => hc # "absent"
       /\ \A o \in {order, cacheO, inst, old} : o.phase = "Ready" => hc # "absent"

OrdersInv ==
  /\ CopyFits
  /\ AliveIsAlive
  /\ ~blind => NamespaceInOrder /\ WebhooksInOrder /\ PoolCleanUpRequested

-----------------------------------------------------------------------------
(* Liveness *)

(***************************************************************************)
(* The work queue, the informers, the namespace controller, the playbooks  *)
(* and time (between any two reconciles, however many there are) go on;    *)
(* nothing is assumed of the user.                                         *)
(***************************************************************************)
Fairness ==
  /\ WF_vars(ControllerStep)
  /\ WF_vars(CacheOrder) /\ WF_vars(CacheNamespace) /\ WF_vars(CacheHosted)
  /\ WF_vars(NamespaceEnds)
  /\ WF_vars(HostedClusterCreated) /\ WF_vars(HostedClusterReady)
  /\ WF_vars(HostedClusterGoes)
  /\ SF_vars(TimePasses)

FairSpec == Spec /\ Fairness

(***************************************************************************)
(* A deleted resource goes: each step of handleDelete that waits for an    *)
(* object is woken by its event, and the rate limit by time.               *)
(***************************************************************************)
DeletionCompletes == order.deleting ~> ~order.exists

(***************************************************************************)
(* A resource that stays settles at Ready, after restarts, conflicts and   *)
(* hosted clusters that degrade for a while.                               *)
(***************************************************************************)
SettlesReady ==
  <>[](order.phase = "Ready" \/ order.deleting \/ ~order.exists)

(***************************************************************************)
(* The last spec of a ClusterOrder reaches the create webhook, although    *)
(* the rate limit holds it up and a retry is all that brings it back.      *)
(***************************************************************************)
SpecSent ==
  kind = "cluster" /\ order.exists /\ order.mgmt = "managed"
    ~> \/ order.spec \in requested \/ order.mgmt # "managed"
       \/ order.deleting \/ ~order.exists

=============================================================================
