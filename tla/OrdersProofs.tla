---------------------------- MODULE OrdersProofs ----------------------------
(***************************************************************************)
(* The safety theorems about ClusterOrders and HostPools: for a controller *)
(* whose cache has seen the namespaces it created, a resource goes only    *)
(* when its namespace has ended, and a pool only after its delete webhook, *)
(* whatever else is out of date, fails, restarts or is created again; and  *)
(* the webhook client remembers every request it must not repeat; and a    *)
(* controller rests only when there is nothing left to do.                 *)
(***************************************************************************)
EXTENDS Orders, WebhookClientProofs

LEMMA NoOrderIsBlank ==
  /\ NoOrder \in Object /\ CO!NoOrder = NoOrder /\ HP!NoOrder = NoOrder
BY DEF NoOrder, Gone, NewOrder, CO!NoOrder, CO!Gone, CO!NewOrder, HP!NoOrder,
   HP!Gone, HP!NewOrder, Object, Phases

(* What is left of a resource is one. *)
LEMMA GoneIsOrder ==
  ASSUME NEW o \in Object
  PROVE  Gone(o) \in Object /\ CO!Gone(o) = Gone(o) /\ HP!Gone(o) = Gone(o)
BY DEF Gone, NewOrder, CO!Gone, CO!NewOrder, HP!Gone, HP!NewOrder, Object, Phases

LEMMA GoneParts ==
  ASSUME NEW o
  PROVE  \A g \in {Gone(o), CO!Gone(o), HP!Gone(o)} :
           /\ g.uid = o.uid /\ g.mgmt = o.mgmt /\ g.phase = "None"
           /\ ~g.exists /\ ~g.deleting
BY DEF Gone, NewOrder, CO!Gone, CO!NewOrder, HP!Gone, HP!NewOrder

(* Only the last value of the annotation counts. *)
LEMMA AnnotatedTwice ==
  ASSUME NEW o \in Object, NEW m, NEW n
  PROVE  [[o EXCEPT !.mgmt = m] EXCEPT !.mgmt = n] = [o EXCEPT !.mgmt = n]
BY DEF Object

(* A call of the webhook client is what module WebhookClient says it is. *)
LEMMA CreateWebhookOfCluster ==
  CO!SendCreate \/ CO!CreateLimited \/ CO!CreateFails
    => ClientStep("create")
BY DEF CO!SendCreate, CO!CreateLimited, CO!CreateFails, CO!Sent, CO!Limited,
   CO!Failed, CO!TooYoung, CO!Added, CO!Purged, Sent, Limited, Failed, TooYoung,
   Added, Purged, ClientStep

LEMMA DeleteWebhookOfCluster ==
  CO!SendDelete \/ CO!DeleteLimited \/ CO!DeleteFails
    => ClientStep("delete")
BY DEF CO!SendDelete, CO!DeleteLimited, CO!DeleteFails, CO!Sent, CO!Limited,
   CO!Failed, CO!TooYoung, CO!Added, CO!Purged, Sent, Limited, Failed, TooYoung,
   Added, Purged, ClientStep

LEMMA CreateWebhookOfPool ==
  HP!SendCreate \/ HP!CreateLimited \/ HP!CreateFails
    => ClientStep("create")
BY DEF HP!SendCreate, HP!CreateLimited, HP!CreateFails, HP!Sent, HP!Limited,
   HP!Failed, HP!TooYoung, HP!Added, HP!Purged, Sent, Limited, Failed, TooYoung,
   Added, Purged, ClientStep

LEMMA DeleteWebhookOfPool ==
  HP!SendDelete \/ HP!DeleteLimited \/ HP!DeleteFails
    => ClientStep("delete")
BY DEF HP!SendDelete, HP!DeleteLimited, HP!DeleteFails, HP!Sent, HP!Limited,
   HP!Failed, HP!TooYoung, HP!Added, HP!Purged, Sent, Limited, Failed, TooYoung,
   Added, Purged, ClientStep

(***************************************************************************)
(* Each step of the ClusterOrder controller keeps the types.               *)
(***************************************************************************)
LEMMA ClusterTypeStep == TypeOK /\ CO!ClusterOrderStep => TypeOK'
<1> SUFFICES ASSUME TypeOK, CO!ClusterOrderStep PROVE TypeOK'
  OBVIOUS
<1> USE DEF TypeOK, Lives, ClusterLives, Steps, Kinds,
        caches, CO!caches, CO!bounds, CO!history, CO!ctrlVars, CO!clientVars,
        bounds, history, ctrlVars, clientVars
<1>1. CASE CO!Reconcile
  <2>1. inst' \in Object /\ old' \in Object
    BY <1>1 DEF CO!Reconcile, CO!StartReconcile, Object, Phases
  <2> QED
    BY <1>1, <2>1 DEF CO!Reconcile, CO!StartReconcile, ClientTypeOK
<1>2. CASE CO!AddFinalizer \/ CO!EnsureComponents \/ CO!ReadHostedCluster
  <2>1. inst' \in Object /\ order' \in Object
    BY <1>2 DEF CO!AddFinalizer, CO!EnsureComponents, CO!EnsureNamespace,
       CO!ReadHostedCluster, Object, Phases
  <2> QED
    BY <1>2, <2>1 DEF CO!AddFinalizer, CO!EnsureComponents, CO!EnsureNamespace,
       CO!ReadHostedCluster, ClientTypeOK
<1>3. CASE CO!NamespaceUnseen \/ CO!SkipCreate \/ CO!SkipDelete
  BY <1>3, NoOrderIsBlank DEF CO!NamespaceUnseen, CO!EndReconcile,
     CO!SkipCreate, CO!SkipDelete, ClientTypeOK
<1>4. CASE CO!SendCreate \/ CO!CreateLimited \/ CO!CreateFails
  <2>1. ClientTypeOK'
    BY <1>4, CreateWebhookOfCluster, ClientTypeStep DEF Urls
  <2>2. errs' \in Nat
    BY <1>4 DEF CO!SendCreate, CO!CreateLimited, CO!CreateFails, CO!Failure
  <2>3. requested' \subseteq Nat
    BY <1>4 DEF CO!SendCreate, CO!CreateLimited, CO!CreateFails, Object
  <2> QED
    BY <1>4, <2>1, <2>2, <2>3 DEF CO!SendCreate, CO!CreateLimited, CO!CreateFails
<1>5. CASE CO!SendDelete \/ CO!DeleteLimited \/ CO!DeleteFails
  <2>1. ClientTypeOK'
    BY <1>5, DeleteWebhookOfCluster, ClientTypeStep DEF Urls
  <2>2. errs' \in Nat
    BY <1>5 DEF CO!SendDelete, CO!DeleteLimited, CO!DeleteFails, CO!Failure
  <2> QED
    BY <1>5, <2>1, <2>2 DEF CO!SendDelete, CO!DeleteLimited, CO!DeleteFails
<1>6. CASE CO!FindNothing \/ CO!FindNamespace \/ CO!DeleteEmptyNamespace
  BY <1>6 DEF CO!FindNothing, CO!FindNamespace, CO!DeleteEmptyNamespace,
     CO!DeleteNamespace, ClientTypeOK
<1>7. CASE CO!RemoveFinalizer
  BY <1>7, GoneIsOrder DEF CO!RemoveFinalizer, CO!Release, ClientTypeOK
<1>8. CASE CO!RequestFails
  <2>1. errs' \in Nat
    BY <1>8 DEF CO!RequestFails, CO!Failure
  <2> QED
    BY <1>8, <2>1, NoOrderIsBlank DEF CO!RequestFails, CO!EndReconcile, ClientTypeOK
<1>9. CASE CO!NothingToSave \/ CO!SaveStatus
  <2>1. order' \in Object
    BY <1>9 DEF CO!NothingToSave, CO!SaveStatus, Object
  <2> QED
    BY <1>9, <2>1, NoOrderIsBlank DEF CO!NothingToSave, CO!SaveStatus,
       CO!EndReconcile, ClientTypeOK
<1> QED
  BY <1>1, <1>2, <1>3, <1>4, <1>5, <1>6, <1>7, <1>8, <1>9 DEF CO!ClusterOrderStep

(***************************************************************************)
(* ... and so does each step of the HostPool controller.                   *)
(***************************************************************************)
LEMMA PoolTypeStep == TypeOK /\ HP!HostPoolStep => TypeOK'
<1> SUFFICES ASSUME TypeOK, HP!HostPoolStep PROVE TypeOK'
  OBVIOUS
<1> USE DEF TypeOK, Lives, ClusterLives, Steps, Kinds,
        caches, HP!caches, HP!bounds, HP!history, HP!ctrlVars, HP!clientVars,
        bounds, history, ctrlVars, clientVars
<1>1. CASE HP!Reconcile
  <2>1. inst' \in Object /\ old' \in Object
    BY <1>1 DEF HP!Reconcile, HP!StartReconcile, Object, Phases
  <2> QED
    BY <1>1, <2>1 DEF HP!Reconcile, HP!StartReconcile, ClientTypeOK
<1>2. CASE HP!AddFinalizer \/ HP!EnsureComponents
  <2>1. inst' \in Object /\ order' \in Object
    BY <1>2, NoOrderIsBlank DEF HP!AddFinalizer, HP!EndReconcile,
       HP!EnsureComponents, HP!EnsureNamespace, Object
  <2> QED
    BY <1>2, <2>1, NoOrderIsBlank DEF HP!AddFinalizer, HP!EndReconcile,
       HP!EnsureComponents, HP!EnsureNamespace, ClientTypeOK
<1>3. CASE HP!SendCreate \/ HP!CreateLimited \/ HP!CreateFails
  <2>1. ClientTypeOK'
    BY <1>3, CreateWebhookOfPool, ClientTypeStep DEF Urls
  <2>2. errs' \in Nat
    BY <1>3 DEF HP!SendCreate, HP!CreateLimited, HP!CreateFails, HP!Failure
  <2>3. requested' \subseteq Nat
    BY <1>3 DEF HP!SendCreate, HP!CreateLimited, HP!CreateFails, Object
  <2>4. inst' \in Object
    BY <1>3, NoOrderIsBlank DEF HP!SendCreate, HP!CreateLimited, HP!CreateFails,
       HP!Allocated, HP!EndReconcile, Object, Phases
  <2> QED
    BY <1>3, <2>1, <2>2, <2>3, <2>4, NoOrderIsBlank DEF HP!SendCreate, HP!CreateLimited,
       HP!CreateFails, HP!EndReconcile
<1>4. CASE HP!SendDelete \/ HP!DeleteLimited \/ HP!DeleteFails
  <2>1. ClientTypeOK'
    BY <1>4, DeleteWebhookOfPool, ClientTypeStep DEF Urls
  <2>2. errs' \in Nat
    BY <1>4 DEF HP!SendDelete, HP!DeleteLimited, HP!DeleteFails, HP!Failure
  <2> QED
    BY <1>4, <2>1, <2>2 DEF HP!SendDelete, HP!DeleteLimited, HP!DeleteFails
<1>5. CASE HP!FindNamespace \/ HP!SkipDelete \/ HP!DeleteItsNamespace
  BY <1>5 DEF HP!FindNamespace, HP!SkipDelete, HP!DeleteItsNamespace,
     HP!DeleteNamespace, ClientTypeOK
<1>6. CASE HP!RemoveFinalizer
  BY <1>6, GoneIsOrder DEF HP!RemoveFinalizer, HP!Release, ClientTypeOK
<1>7. CASE HP!RequestFails
  <2>1. errs' \in Nat
    BY <1>7 DEF HP!RequestFails, HP!Failure
  <2> QED
    BY <1>7, <2>1, NoOrderIsBlank DEF HP!RequestFails, HP!EndReconcile, ClientTypeOK
<1>8. CASE HP!NothingToSave \/ HP!SaveStatus
  <2>1. order' \in Object
    BY <1>8 DEF HP!NothingToSave, HP!SaveStatus, Object
  <2> QED
    BY <1>8, <2>1, NoOrderIsBlank DEF HP!NothingToSave, HP!SaveStatus,
       HP!EndReconcile, ClientTypeOK
<1> QED
  BY <1>1, <1>2, <1>3, <1>4, <1>5, <1>6, <1>7, <1>8 DEF HP!HostPoolStep

(***************************************************************************)
(* ... and everything else.                                                *)
(***************************************************************************)
LEMMA TypeStep == TypeOK /\ [Next]_vars => TypeOK'
<1> SUFFICES ASSUME TypeOK, [Next]_vars PROVE TypeOK'
  OBVIOUS
<1> USE DEF TypeOK, Lives, ClusterLives, Steps, Kinds,
        caches, bounds, history, ctrlVars, clientVars
<1>1. CASE ControllerStep
  BY <1>1, ClusterTypeStep, PoolTypeStep DEF ControllerStep
<1>2. CASE CacheOrder \/ CacheNamespace \/ CacheHosted \/ NamespaceEnds
  BY <1>2 DEF CacheOrder, CacheNamespace, CacheHosted, NamespaceEnds, ClientTypeOK
<1>3. CASE HostedClusterCreated \/ HostedClusterReady \/ HostedClusterGoes
  BY <1>3 DEF HostedClusterCreated, HostedClusterReady, HostedClusterGoes,
     ClientTypeOK
<1>4. CASE HostedClusterDegrades \/ HostedClusterCreatedLate \/ UserEdits
  <2>1. errs' \in Nat /\ changes' \in Nat
    BY <1>4 DEF HostedClusterDegrades, HostedClusterCreatedLate, UserEdits,
       Failure, Change
  <2>2. order' \in Object
    BY <1>4 DEF HostedClusterDegrades, HostedClusterCreatedLate, UserEdits, Object
  <2> QED
    BY <1>4, <2>1, <2>2 DEF HostedClusterDegrades, HostedClusterCreatedLate,
       UserEdits, ClientTypeOK
<1>10. CASE UserSetsManagementState
  <2>1. order' \in Object /\ manual' \in BOOLEAN
    BY <1>10, OrderAssumption DEF UserSetsManagementState, Object
  <2>2. changes' \in Nat
    BY <1>10 DEF UserSetsManagementState, Change
  <2>3. /\ UNCHANGED <<kind, ns, hc, caches, queued, pc, inst, old, errs>>
        /\ UNCHANGED <<requested, cleaned, blind, clientVars>>
        /\ fresh' \in BOOLEAN
    BY <1>10 DEF UserSetsManagementState
  <2> QED
    BY <2>1, <2>2, <2>3 DEF ClientTypeOK
<1>5. CASE UserDeletes
  <2>1. order' \in Object
    BY <1>5, GoneIsOrder DEF UserDeletes, Object
  <2>2. /\ UNCHANGED <<kind, ns, hc, caches, queued, pc, inst, old, bounds>>
        /\ UNCHANGED <<history, blind, clientVars>>
        /\ fresh' \in BOOLEAN
    BY <1>5 DEF UserDeletes
  <2> QED
    BY <2>1, <2>2 DEF ClientTypeOK
<1>6. CASE UserCreates
  <2>1. order' \in Object
    BY <1>6, OrderAssumption DEF UserCreates, NewOrder, Object, Phases
  <2>2. changes' \in Nat
    BY <1>6 DEF UserCreates, Change
  <2>3. /\ UNCHANGED <<kind, ns, hc, caches, queued, pc, inst, old, errs>>
        /\ UNCHANGED <<blind, clientVars>>
        /\ fresh' \in BOOLEAN /\ requested' = {}
        /\ cleaned' \in BOOLEAN /\ manual' \in BOOLEAN
    BY <1>6 DEF UserCreates
  <2> QED
    BY <2>1, <2>2, <2>3 DEF ClientTypeOK
<1>7. CASE Crash
  <2>1. ClientTypeOK'
    BY <1>7, ClientTypeStep DEF Crash, Urls, ClientStep
  <2>2. errs' \in Nat
    BY <1>7 DEF Crash, Failure
  <2> QED
    BY <1>7, <2>1, <2>2, NoOrderIsBlank DEF Crash, EndReconcile
<1>8. CASE TimePasses
  <2>1. ClientTypeOK'
    BY <1>8, ClientTypeStep DEF TimePasses, Urls, ClientStep
  <2> QED
    BY <1>8, <2>1 DEF TimePasses
<1>9. CASE UNCHANGED vars
  BY <1>9 DEF vars, ClientTypeOK
<1> QED
  BY <1>1, <1>2, <1>3, <1>4, <1>5, <1>6, <1>7, <1>8, <1>9, <1>10
     DEF Next, Environment

LEMMA InitOK == Init => TypeOK
<1> SUFFICES ASSUME Init PROVE TypeOK
  OBVIOUS
<1>1. ClientTypeOK
  BY IntervalAssumption DEF Init, ClientInit, ClientTypeOK, NoRequests, Urls, LongAgo
<1>2. order \in Object
  <2>1. PICK m \in ManagementStates : order = NewOrder(1, m)
    BY DEF Init
  <2> QED
    BY <2>1, OrderAssumption DEF Object, NewOrder, Phases
<1> QED
  BY <1>1, <1>2, NoOrderIsBlank
     DEF Init, TypeOK, Lives, ClusterLives, Steps, Kinds

(***************************************************************************)
(* The variables keep their types, for every bound and every interval.     *)
(***************************************************************************)
THEOREM TypeCorrect == Spec => []TypeOK
  BY InitOK, TypeStep, PTL DEF Spec

-----------------------------------------------------------------------------
(* Every step calls the webhook client as it is, or leaves it alone. *)
LEMMA ClientFollows ==
  ASSUME [Next]_vars
  PROVE  UNCHANGED clientVars \/ \E url \in Urls : ClientStep(url)
<1> USE DEF Urls
<1>1. CASE CO!ClusterOrderStep
  BY <1>1, CreateWebhookOfCluster, DeleteWebhookOfCluster
     DEF CO!ClusterOrderStep, CO!Reconcile, CO!StartReconcile, CO!AddFinalizer,
     CO!EnsureComponents, CO!EnsureNamespace, CO!ReadHostedCluster,
     CO!NamespaceUnseen, CO!SkipCreate, CO!FindNothing, CO!FindNamespace,
     CO!DeleteEmptyNamespace, CO!DeleteNamespace, CO!RemoveFinalizer, CO!Release,
     CO!SkipDelete, CO!RequestFails, CO!NothingToSave, CO!SaveStatus,
     CO!clientVars, clientVars
<1>2. CASE HP!HostPoolStep
  BY <1>2, CreateWebhookOfPool, DeleteWebhookOfPool
     DEF HP!HostPoolStep, HP!Reconcile, HP!StartReconcile, HP!AddFinalizer,
     HP!EnsureComponents, HP!EnsureNamespace, HP!FindNamespace, HP!SkipDelete,
     HP!DeleteItsNamespace, HP!DeleteNamespace, HP!RemoveFinalizer, HP!Release,
     HP!RequestFails, HP!NothingToSave, HP!SaveStatus, HP!clientVars, clientVars
<1>3. CASE Environment
  BY <1>3 DEF Environment, CacheOrder, CacheNamespace, CacheHosted,
     NamespaceEnds, HostedClusterCreated, HostedClusterReady,
     HostedClusterCreatedLate, HostedClusterDegrades, HostedClusterGoes,
     UserEdits, UserSetsManagementState, UserDeletes, UserCreates, Crash,
     TimePasses, ClientStep, clientVars
<1>4. CASE UNCHANGED vars
  BY <1>4 DEF vars
<1> QED
  BY <1>1, <1>2, <1>3, <1>4 DEF Next, ControllerStep

(***************************************************************************)
(* Under both controllers no request is repeated within the interval.      *)
(***************************************************************************)
THEOREM RequestsRemembered == Spec => []RequestRemembered
<1>1. Init => ClientInv
  BY ClientInvInit DEF Init
<1>2. ClientInv /\ [Next]_vars => ClientInv'
  <2> SUFFICES ASSUME ClientInv, [Next]_vars PROVE ClientInv'
    OBVIOUS
  <2>1. CASE UNCHANGED clientVars
    BY <2>1 DEF ClientInv, ClientTypeOK, clientVars
  <2>2. CASE \E url \in Urls : ClientStep(url)
    BY <2>2, ClientInvStep
  <2> QED
    BY <2>1, <2>2, ClientFollows
<1> QED
  BY <1>1, <1>2, ClientInvRemembers, PTL DEF Spec

-----------------------------------------------------------------------------

(* Each step of the ClusterOrder controller keeps the invariant. *)
LEMMA ClusterInvStep ==
  ASSUME TypeOK, TypeOK', OrdersInv, kind = "cluster", CO!ClusterOrderStep
  PROVE  OrdersInv'
<1> USE DEF TypeOK, Object, Phases, Lives, Steps, OrdersInv, CopyFits,
        AliveIsAlive, NamespaceInOrder, WebhooksInOrder, PoolCleanUpRequested,
        OlderThanOrder, Alive, Untouched, Updating, Deleting, Clean,
        CO!caches, CO!bounds, CO!history, CO!ctrlVars, CO!clientVars
<1>1. CASE CO!Reconcile
  <2>1. /\ UNCHANGED <<kind, order, ns, cacheO, cacheN, requested, cleaned, manual>>
        /\ pc = "idle" /\ (~blind' => ~blind)
        /\ ~blind' => ns = "absent" \/ cacheN # "absent"
    BY <1>1 DEF CO!Reconcile, CO!StartReconcile
  <2>2. \/ UNCHANGED <<pc, inst, old, fresh>>
        \/ /\ cacheO.exists /\ inst'.exists /\ inst'.uid = cacheO.uid
           /\ inst'.mgmt = cacheO.mgmt /\ inst'.deleting = cacheO.deleting
           /\ inst'.fin = cacheO.fin
           /\ old' = cacheO /\ (fresh' => cacheO = order)
           /\ pc' \in {"deleting", "namespace", "finalizer"}
           /\ pc' = "deleting" => cacheO.deleting
           /\ pc' \in {"namespace", "finalizer"} => ~cacheO.deleting
           /\ pc' = "namespace" => cacheO.fin
    BY <1>1 DEF CO!Reconcile, CO!StartReconcile
  <2>3. CopyFits'
    BY <2>1, <2>2
  <2>4. AliveIsAlive'
    BY <2>1, <2>2
  <2>5. ~blind' => NamespaceInOrder'
    BY <2>1, <2>2
  <2>6. ~blind' => WebhooksInOrder' /\ PoolCleanUpRequested'
    BY <2>1, <2>2
  <2> QED
    BY <2>3, <2>4, <2>5, <2>6
<1>2. CASE CO!AddFinalizer
  BY <1>2 DEF CO!AddFinalizer
<1>3. CASE CO!EnsureComponents
  BY <1>3 DEF CO!EnsureComponents, CO!EnsureNamespace
<1>4. CASE CO!ReadHostedCluster
  BY <1>4 DEF CO!ReadHostedCluster
<1>5. CASE CO!NamespaceUnseen
  BY <1>5 DEF CO!NamespaceUnseen, CO!EndReconcile
<1>6. CASE CO!SkipCreate
  BY <1>6 DEF CO!SkipCreate
<1>7. CASE CO!SendCreate
  BY <1>7 DEF CO!SendCreate
<1>8. CASE CO!CreateLimited
  BY <1>8 DEF CO!CreateLimited
<1>9. CASE CO!CreateFails
  BY <1>9 DEF CO!CreateFails
<1>10. CASE CO!FindNothing
  BY <1>10 DEF CO!FindNothing
<1>11. CASE CO!FindNamespace
  BY <1>11 DEF CO!FindNamespace
<1>12. CASE CO!DeleteEmptyNamespace
  BY <1>12 DEF CO!DeleteEmptyNamespace, CO!DeleteNamespace
<1>13. CASE CO!RemoveFinalizer
  BY <1>13 DEF CO!RemoveFinalizer, CO!Release, CO!Gone, CO!NewOrder
<1>14. CASE CO!SkipDelete
  BY <1>14 DEF CO!SkipDelete
<1>15. CASE CO!SendDelete
  BY <1>15 DEF CO!SendDelete
<1>16. CASE CO!DeleteLimited
  BY <1>16 DEF CO!DeleteLimited
<1>17. CASE CO!DeleteFails
  BY <1>17 DEF CO!DeleteFails
<1>18. CASE CO!RequestFails
  BY <1>18 DEF CO!RequestFails, CO!EndReconcile
<1>19. CASE CO!NothingToSave
  BY <1>19 DEF CO!NothingToSave, CO!EndReconcile
<1>20. CASE CO!SaveStatus
  BY <1>20 DEF CO!SaveStatus, CO!EndReconcile
<1> QED
  BY <1>1, <1>2, <1>3, <1>4, <1>5, <1>6, <1>7, <1>8, <1>9, <1>10, <1>11, <1>12, <1>13, <1>14, <1>15, <1>16, <1>17, <1>18, <1>19, <1>20 DEF CO!ClusterOrderStep


(* ... each step of the HostPool controller... *)
LEMMA PoolInvStep ==
  ASSUME TypeOK, TypeOK', OrdersInv, kind = "hostpool", HP!HostPoolStep
  PROVE  OrdersInv'
<1> USE DEF TypeOK, Object, Phases, Lives, Steps, OrdersInv, CopyFits,
        AliveIsAlive, NamespaceInOrder, WebhooksInOrder, PoolCleanUpRequested,
        OlderThanOrder, Alive, Untouched, Updating, Deleting, Clean,
        HP!caches, HP!bounds, HP!history, HP!ctrlVars, HP!clientVars
<1>1. CASE HP!Reconcile
  <2>1. /\ UNCHANGED <<kind, order, ns, cacheO, cacheN, requested, cleaned, manual>>
        /\ pc = "idle" /\ (~blind' => ~blind)
        /\ ~blind' => ns = "absent" \/ cacheN # "absent"
    BY <1>1 DEF HP!Reconcile, HP!StartReconcile
  <2>2. \/ UNCHANGED <<pc, inst, old, fresh>>
        \/ /\ cacheO.exists /\ inst'.exists /\ inst'.uid = cacheO.uid
           /\ inst'.mgmt = cacheO.mgmt /\ inst'.deleting = cacheO.deleting
           /\ inst'.fin = cacheO.fin
           /\ old' = cacheO /\ (fresh' => cacheO = order)
           /\ pc' \in {"deleting", "save", "namespace", "finalizer"}
           /\ pc' = "deleting" => cacheO.deleting
           /\ pc' \in {"namespace", "finalizer"} => ~cacheO.deleting
           /\ pc' = "namespace" => cacheO.fin
    BY <1>1 DEF HP!Reconcile, HP!StartReconcile
  <2>3. CopyFits'
    BY <2>1, <2>2
  <2>4. AliveIsAlive'
    BY <2>1, <2>2
  <2>5. ~blind' => NamespaceInOrder'
    BY <2>1, <2>2
  <2>6. ~blind' => WebhooksInOrder' /\ PoolCleanUpRequested'
    BY <2>1, <2>2
  <2> QED
    BY <2>3, <2>4, <2>5, <2>6
<1>2. CASE HP!AddFinalizer
  BY <1>2 DEF HP!AddFinalizer, HP!EndReconcile
<1>3. CASE HP!EnsureComponents
  BY <1>3 DEF HP!EnsureComponents, HP!EnsureNamespace
<1>4. CASE HP!SendCreate
  BY <1>4 DEF HP!SendCreate, HP!Allocated
<1>5. CASE HP!CreateLimited
  BY <1>5 DEF HP!CreateLimited, HP!Allocated
<1>6. CASE HP!CreateFails
  BY <1>6 DEF HP!CreateFails, HP!EndReconcile
<1>7. CASE HP!FindNamespace
  BY <1>7 DEF HP!FindNamespace
<1>8. CASE HP!SkipDelete
  BY <1>8 DEF HP!SkipDelete
<1>9. CASE HP!SendDelete
  BY <1>9 DEF HP!SendDelete
<1>10. CASE HP!DeleteLimited
  BY <1>10 DEF HP!DeleteLimited
<1>11. CASE HP!DeleteFails
  BY <1>11 DEF HP!DeleteFails
<1>12. CASE HP!DeleteItsNamespace
  BY <1>12 DEF HP!DeleteItsNamespace, HP!DeleteNamespace
<1>13. CASE HP!RemoveFinalizer
  BY <1>13 DEF HP!RemoveFinalizer, HP!Release, HP!Gone, HP!NewOrder
<1>14. CASE HP!RequestFails
  BY <1>14 DEF HP!RequestFails, HP!EndReconcile
<1>15. CASE HP!NothingToSave
  BY <1>15 DEF HP!NothingToSave, HP!EndReconcile
<1>16. CASE HP!SaveStatus
  BY <1>16 DEF HP!SaveStatus, HP!EndReconcile
<1> QED
  BY <1>1, <1>2, <1>3, <1>4, <1>5, <1>6, <1>7, <1>8, <1>9, <1>10, <1>11, <1>12, <1>13, <1>14, <1>15, <1>16 DEF HP!HostPoolStep


(* ... and everything else. *)
LEMMA EnvironmentInvStep ==
  ASSUME TypeOK, TypeOK', OrdersInv, Environment
  PROVE  OrdersInv'
<1> USE DEF TypeOK, Object, Phases, Lives, Steps, OrdersInv, CopyFits,
        AliveIsAlive, NamespaceInOrder, WebhooksInOrder, PoolCleanUpRequested,
        OlderThanOrder, Alive, Untouched, Updating, Deleting, Clean,
        caches, bounds, history, ctrlVars, clientVars
<1>1. CASE CacheOrder
  BY <1>1 DEF CacheOrder
<1>2. CASE CacheNamespace
  BY <1>2 DEF CacheNamespace
<1>3. CASE CacheHosted
  BY <1>3 DEF CacheHosted
<1>4. CASE NamespaceEnds
  BY <1>4 DEF NamespaceEnds
<1>5. CASE HostedClusterCreated
  BY <1>5 DEF HostedClusterCreated
<1>6. CASE HostedClusterReady
  BY <1>6 DEF HostedClusterReady
<1>7. CASE HostedClusterDegrades
  BY <1>7 DEF HostedClusterDegrades
<1>8. CASE HostedClusterGoes
  BY <1>8 DEF HostedClusterGoes
<1>9. CASE UserEdits
  BY <1>9 DEF UserEdits
<1>10. CASE UserDeletes
  <2>1. /\ UNCHANGED <<kind, ns, cacheO, cacheN, pc, inst, old, blind>>
        /\ UNCHANGED <<requested, cleaned, manual>>
        /\ ~fresh'
    BY <1>10 DEF UserDeletes
  <2>2. /\ order.exists /\ ~order.deleting
        /\ order'.uid = order.uid /\ order'.mgmt = order.mgmt
        /\ order.fin => order'.exists /\ order'.deleting /\ order'.fin
        /\ ~order.fin => ~order'.exists /\ ~order'.deleting
    BY <1>10 DEF UserDeletes, Gone, NewOrder
  <2>3. CopyFits' /\ AliveIsAlive'
    BY <2>1, <2>2
  <2>4. ~blind' => NamespaceInOrder'
    BY <2>1, <2>2
  <2>5. ~blind' => WebhooksInOrder' /\ PoolCleanUpRequested'
    BY <2>1, <2>2
  <2> QED
    BY <2>3, <2>4, <2>5
<1>11. CASE UserCreates
  <2>1. /\ UNCHANGED <<kind, ns, cacheO, cacheN, pc, inst, old, blind>>
        /\ requested' = {} /\ ~fresh'
    BY <1>11 DEF UserCreates
  <2>2. /\ ~order.exists
        /\ order'.uid = order.uid + 1 /\ order'.exists
        /\ ~order'.deleting /\ ~order'.fin
    BY <1>11 DEF UserCreates, NewOrder
  <2>3. order'.mgmt = "manual" => manual'
    BY <1>11 DEF UserCreates
  <2>4. CopyFits' /\ AliveIsAlive'
    BY <2>1, <2>2, <2>3
  <2>5. ~blind' => NamespaceInOrder'
    BY <2>1, <2>2
  <2>6. ~blind' => WebhooksInOrder' /\ PoolCleanUpRequested'
    BY <2>1, <2>2
  <2> QED
    BY <2>4, <2>5, <2>6
<1>12. CASE Crash
  BY <1>12 DEF Crash, EndReconcile
<1>13. CASE TimePasses
  BY <1>13 DEF TimePasses
<1>14. CASE HostedClusterCreatedLate
  BY <1>14 DEF HostedClusterCreatedLate
<1>15. CASE UserSetsManagementState
  <2>1. /\ UNCHANGED <<kind, ns, cacheO, cacheN, pc, inst, old, blind>>
        /\ UNCHANGED <<requested, cleaned>>
        /\ ~fresh'
    BY <1>15 DEF UserSetsManagementState
  <2>2. PICK m \in ManagementStates :
          /\ order' = [order EXCEPT !.mgmt = m]
          /\ manual' = (manual \/ m = "manual")
    BY <1>15 DEF UserSetsManagementState
  <2>3. order'.mgmt = m /\ (manual => manual') /\ (m = "manual" => manual')
    BY <2>2
  <2>4. /\ order'.uid = order.uid /\ order'.exists = order.exists
        /\ order'.fin = order.fin /\ order'.deleting = order.deleting
    BY <2>2
  <2>5. CopyFits' /\ AliveIsAlive'
    BY <2>1, <2>4, <2>3
  <2>6. ~blind' => NamespaceInOrder'
    BY <2>1, <2>4, <2>3
  <2>7. ~blind' => WebhooksInOrder' /\ PoolCleanUpRequested'
    BY <2>1, <2>4, <2>3
  <2> QED
    BY <2>5, <2>6, <2>7
<1> QED
  BY <1>1, <1>2, <1>3, <1>4, <1>5, <1>6, <1>7, <1>8, <1>9, <1>10, <1>11, <1>12, <1>13,
     <1>14, <1>15 DEF Environment

(* Every step keeps the invariant. *)
LEMMA InvStep == TypeOK /\ OrdersInv /\ [Next]_vars => OrdersInv'
<1> SUFFICES ASSUME TypeOK, OrdersInv, [Next]_vars PROVE OrdersInv'
  OBVIOUS
<1>t. TypeOK'
  BY TypeStep
<1>1. CASE ControllerStep
  BY <1>1, <1>t, ClusterInvStep, PoolInvStep DEF ControllerStep
<1>2. CASE Environment
  BY <1>2, <1>t, EnvironmentInvStep
<1>3. CASE UNCHANGED vars
  BY <1>3 DEF vars, caches, ctrlVars, history, OrdersInv, CopyFits, AliveIsAlive,
     NamespaceInOrder, WebhooksInOrder, PoolCleanUpRequested, OlderThanOrder,
     Alive, Untouched, Updating, Deleting, Clean
<1> QED
  BY <1>1, <1>2, <1>3 DEF Next

LEMMA InvInit == Init => OrdersInv
<1> SUFFICES ASSUME Init PROVE OrdersInv
  OBVIOUS
<1>1. /\ order.uid = 1 /\ order.exists /\ ~order.deleting /\ ~order.fin
      /\ cacheO = order
  BY DEF Init, NewOrder
<1>2. order.mgmt = "manual" => manual
  BY DEF Init
<1> QED
  BY <1>1, <1>2 DEF Init, OrdersInv, CopyFits, AliveIsAlive, NamespaceInOrder,
     WebhooksInOrder, PoolCleanUpRequested, OlderThanOrder, Alive, Untouched,
     Updating, Deleting, Clean

LEMMA InvariantHolds == Spec => [](TypeOK /\ OrdersInv)
BY InitOK, TypeStep, InvInit, InvStep, PTL DEF Spec

(***************************************************************************)
(* A pool is gone only after its delete webhook.                           *)
(***************************************************************************)
THEOREM PoolsAskForCleanUp == Spec => []PoolCleanUpRequested
<1>1. TypeOK /\ OrdersInv => PoolCleanUpRequested
  BY DEF OrdersInv, PoolCleanUpRequested
<1> QED
  BY <1>1, InvariantHolds, PTL

(* Only the controllers let go of a resource, at step release. *)
LEMMA ReleasedAtRelease ==
  ASSUME TypeOK, [Next]_vars, Released
  PROVE  pc = "release"
<1> USE DEF Released, TypeOK, Object
<1>1. CASE CO!ClusterOrderStep
  BY <1>1 DEF CO!ClusterOrderStep, CO!Reconcile, CO!StartReconcile,
     CO!AddFinalizer, CO!EnsureComponents, CO!EnsureNamespace,
     CO!ReadHostedCluster, CO!NamespaceUnseen, CO!SkipCreate, CO!SendCreate,
     CO!CreateLimited, CO!CreateFails, CO!FindNothing, CO!FindNamespace,
     CO!DeleteEmptyNamespace, CO!DeleteNamespace, CO!RemoveFinalizer, CO!Release,
     CO!SkipDelete, CO!SendDelete, CO!DeleteLimited, CO!DeleteFails,
     CO!RequestFails, CO!NothingToSave, CO!SaveStatus
<1>2. CASE HP!HostPoolStep
  BY <1>2 DEF HP!HostPoolStep, HP!Reconcile, HP!StartReconcile, HP!AddFinalizer,
     HP!EnsureComponents, HP!EnsureNamespace, HP!SendCreate, HP!CreateLimited,
     HP!CreateFails, HP!FindNamespace, HP!SkipDelete, HP!SendDelete,
     HP!DeleteLimited, HP!DeleteFails, HP!DeleteItsNamespace, HP!DeleteNamespace,
     HP!RemoveFinalizer, HP!Release, HP!RequestFails, HP!NothingToSave,
     HP!SaveStatus
<1>3. CASE Environment
  BY <1>3 DEF Environment, CacheOrder, CacheNamespace, CacheHosted,
     NamespaceEnds, HostedClusterCreated, HostedClusterReady,
     HostedClusterCreatedLate, HostedClusterDegrades, HostedClusterGoes,
     UserEdits, UserSetsManagementState, UserDeletes, UserCreates, Crash,
     TimePasses, caches, history, bounds
<1>4. CASE UNCHANGED vars
  BY <1>4 DEF vars
<1> QED
  BY <1>1, <1>2, <1>3, <1>4 DEF Next, ControllerStep

(***************************************************************************)
(* A resource is given up only when its namespace has ended.               *)
(***************************************************************************)
THEOREM ReleasedOnlyWhenClean == Spec => ReleasedWhenClean
<1>1. TypeOK /\ OrdersInv /\ [Next]_vars => [Released /\ ~blind => ns = "absent"]_vars
  <2> SUFFICES ASSUME TypeOK, OrdersInv, [Next]_vars, Released, ~blind
               PROVE  ns = "absent"
    OBVIOUS
  <2> QED
    BY ReleasedAtRelease DEF OrdersInv, NamespaceInOrder
<1> QED
  BY <1>1, InvariantHolds, PTL DEF Spec, ReleasedWhenClean

-----------------------------------------------------------------------------
(* No resource, no phase. *)
LEMMA NoOrderPhase ==
  /\ NoOrder.phase = "None" /\ CO!NoOrder.phase = "None"
  /\ HP!NoOrder.phase = "None"
BY DEF NoOrder, Gone, NewOrder, CO!NoOrder, CO!Gone, CO!NewOrder, HP!NoOrder,
   HP!Gone, HP!NewOrder


(* Each step of the ClusterOrder controller keeps what Ready stands for. *)
LEMMA ClusterReadyStep ==
  ASSUME TypeOK, TypeOK', OrdersInv, ReadyInv, kind = "cluster", CO!ClusterOrderStep
  PROVE  ReadyInv'
<1> USE DEF TypeOK, Object, Phases, ReadyInv,
        CO!caches, CO!bounds, CO!history, CO!ctrlVars, CO!clientVars
<1>1. CASE CO!Reconcile
  BY <1>1 DEF CO!Reconcile, CO!StartReconcile
<1>2. CASE CO!AddFinalizer
  BY <1>2 DEF CO!AddFinalizer
<1>3. CASE CO!EnsureComponents
  BY <1>3 DEF CO!EnsureComponents, CO!EnsureNamespace
<1>4. CASE CO!ReadHostedCluster
  BY <1>4 DEF CO!ReadHostedCluster
<1>5. CASE CO!NamespaceUnseen
  BY <1>5, NoOrderPhase DEF CO!NamespaceUnseen, CO!EndReconcile
<1>6. CASE CO!SkipCreate
  BY <1>6 DEF CO!SkipCreate
<1>7. CASE CO!SendCreate
  BY <1>7 DEF CO!SendCreate
<1>8. CASE CO!CreateLimited
  BY <1>8 DEF CO!CreateLimited
<1>9. CASE CO!CreateFails
  BY <1>9 DEF CO!CreateFails
<1>10. CASE CO!FindNothing
  BY <1>10 DEF CO!FindNothing
<1>11. CASE CO!FindNamespace
  BY <1>11 DEF CO!FindNamespace
<1>12. CASE CO!DeleteEmptyNamespace
  <2>1. changes = 0 /\ order.exists => order.deleting
    BY <1>12 DEF CO!DeleteEmptyNamespace, OrdersInv, CopyFits, Deleting,
       OlderThanOrder
  <2> QED
    BY <1>12, <2>1 DEF CO!DeleteEmptyNamespace, CO!DeleteNamespace
<1>13. CASE CO!RemoveFinalizer
  <2>1. old.uid = inst.uid /\ pc # "idle"
    BY <1>13 DEF CO!RemoveFinalizer, CO!Release, OrdersInv, CopyFits
  <2> QED
    BY <1>13, <2>1, GoneParts DEF CO!RemoveFinalizer, CO!Release
<1>14. CASE CO!SkipDelete
  BY <1>14 DEF CO!SkipDelete
<1>15. CASE CO!SendDelete
  BY <1>15 DEF CO!SendDelete
<1>16. CASE CO!DeleteLimited
  BY <1>16 DEF CO!DeleteLimited
<1>17. CASE CO!DeleteFails
  BY <1>17 DEF CO!DeleteFails
<1>18. CASE CO!RequestFails
  BY <1>18, NoOrderPhase DEF CO!RequestFails, CO!EndReconcile
<1>19. CASE CO!NothingToSave
  BY <1>19, NoOrderPhase DEF CO!NothingToSave, CO!EndReconcile
<1>20. CASE CO!SaveStatus
  <2>1. order.exists
    BY <1>20 DEF CO!SaveStatus, OrdersInv, CopyFits
  <2> QED
    BY <1>20, <2>1, NoOrderPhase DEF CO!SaveStatus, CO!EndReconcile
<1> QED
  BY <1>1, <1>2, <1>3, <1>4, <1>5, <1>6, <1>7, <1>8, <1>9, <1>10, <1>11, <1>12, <1>13, <1>14, <1>15, <1>16, <1>17, <1>18, <1>19, <1>20 DEF CO!ClusterOrderStep


(* ... each step of the HostPool controller... *)
LEMMA PoolReadyStep ==
  ASSUME TypeOK, TypeOK', OrdersInv, ReadyInv, kind = "hostpool", HP!HostPoolStep
  PROVE  ReadyInv'
<1> USE DEF TypeOK, Object, Phases, ReadyInv,
        HP!caches, HP!bounds, HP!history, HP!ctrlVars, HP!clientVars
<1>1. CASE HP!Reconcile
  BY <1>1 DEF HP!Reconcile, HP!StartReconcile
<1>2. CASE HP!AddFinalizer
  BY <1>2, NoOrderPhase DEF HP!AddFinalizer, HP!EndReconcile
<1>3. CASE HP!EnsureComponents
  BY <1>3 DEF HP!EnsureComponents, HP!EnsureNamespace
<1>4. CASE HP!SendCreate
  BY <1>4 DEF HP!SendCreate, HP!Allocated
<1>5. CASE HP!CreateLimited
  BY <1>5 DEF HP!CreateLimited, HP!Allocated, HP!Limited, HP!Purged, HP!TooYoung
<1>6. CASE HP!CreateFails
  BY <1>6, NoOrderPhase DEF HP!CreateFails, HP!EndReconcile, HP!Failed, HP!Purged
<1>7. CASE HP!FindNamespace
  BY <1>7 DEF HP!FindNamespace
<1>8. CASE HP!SkipDelete
  BY <1>8 DEF HP!SkipDelete
<1>9. CASE HP!SendDelete
  BY <1>9 DEF HP!SendDelete, HP!Sent, HP!Added, HP!Purged
<1>10. CASE HP!DeleteLimited
  BY <1>10 DEF HP!DeleteLimited, HP!Limited, HP!Purged
<1>11. CASE HP!DeleteFails
  BY <1>11 DEF HP!DeleteFails, HP!Failed, HP!Purged
<1>12. CASE HP!DeleteItsNamespace
  BY <1>12 DEF HP!DeleteItsNamespace, HP!DeleteNamespace
<1>13. CASE HP!RemoveFinalizer
  <2>1. old.uid = inst.uid /\ pc # "idle"
    BY <1>13 DEF HP!RemoveFinalizer, HP!Release, OrdersInv, CopyFits
  <2> QED
    BY <1>13, <2>1, GoneParts DEF HP!RemoveFinalizer, HP!Release
<1>14. CASE HP!RequestFails
  BY <1>14, NoOrderPhase DEF HP!RequestFails, HP!EndReconcile
<1>15. CASE HP!NothingToSave
  BY <1>15, NoOrderPhase DEF HP!NothingToSave, HP!EndReconcile
<1>16. CASE HP!SaveStatus
  <2>1. order.exists
    BY <1>16 DEF HP!SaveStatus, OrdersInv, CopyFits
  <2> QED
    BY <1>16, <2>1, NoOrderPhase DEF HP!SaveStatus, HP!EndReconcile
<1> QED
  BY <1>1, <1>2, <1>3, <1>4, <1>5, <1>6, <1>7, <1>8, <1>9, <1>10, <1>11, <1>12, <1>13, <1>14, <1>15, <1>16 DEF HP!HostPoolStep


(* ... and everything else. *)
LEMMA EnvironmentReadyStep ==
  ASSUME TypeOK, TypeOK', OrdersInv, ReadyInv, Environment
  PROVE  ReadyInv'
<1> USE DEF TypeOK, Object, Phases, ReadyInv,
        caches, bounds, history, ctrlVars, clientVars
<1>1. CASE CacheOrder
  BY <1>1 DEF CacheOrder
<1>2. CASE CacheNamespace
  BY <1>2 DEF CacheNamespace
<1>3. CASE CacheHosted
  BY <1>3 DEF CacheHosted
<1>4. CASE NamespaceEnds
  BY <1>4 DEF NamespaceEnds
<1>5. CASE HostedClusterCreated
  BY <1>5 DEF HostedClusterCreated
<1>6. CASE HostedClusterReady
  BY <1>6 DEF HostedClusterReady
<1>7. CASE HostedClusterDegrades
  BY <1>7 DEF HostedClusterDegrades, Failure
<1>8. CASE HostedClusterGoes
  BY <1>8 DEF HostedClusterGoes
<1>9. CASE UserEdits
  BY <1>9 DEF UserEdits, Change
<1>10. CASE UserDeletes
  BY <1>10 DEF UserDeletes, Gone, NewOrder
<1>11. CASE UserCreates
  <2>1. order'.exists /\ changes' # 0
    BY <1>11 DEF UserCreates, Change, NewOrder
  <2> QED
    BY <1>11, <2>1 DEF UserCreates
<1>12. CASE Crash
  BY <1>12, NoOrderPhase DEF Crash, EndReconcile, ForgetRequests, NoRequests
<1>13. CASE TimePasses
  BY <1>13 DEF TimePasses, Tick, Purged, Aged
<1>14. CASE HostedClusterCreatedLate
  BY <1>14 DEF HostedClusterCreatedLate
<1>15. CASE UserSetsManagementState
  <2>1. changes' # 0
    BY <1>15 DEF UserSetsManagementState, Change
  <2> QED
    BY <1>15, <2>1 DEF UserSetsManagementState
<1> QED
  BY <1>1, <1>2, <1>3, <1>4, <1>5, <1>6, <1>7, <1>8, <1>9, <1>10, <1>11, <1>12, <1>13,
     <1>14, <1>15 DEF Environment

LEMMA ReadyInvInit == Init => ReadyInv
BY NoOrderPhase DEF Init, ReadyInv, NewOrder, ClientInit, NoRequests

(***************************************************************************)
(* A resource nobody has touched is reported Ready with reason.            *)
(***************************************************************************)
THEOREM ReadyHasReason == Spec => []ReadyIsTrue
<1>1. TypeOK /\ OrdersInv /\ ReadyInv /\ [Next]_vars => ReadyInv'
  <2> SUFFICES ASSUME TypeOK, OrdersInv, ReadyInv, [Next]_vars PROVE ReadyInv'
    OBVIOUS
  <2>t. TypeOK'
    BY TypeStep
  <2>1. CASE ControllerStep
    BY <2>1, <2>t, ClusterReadyStep, PoolReadyStep DEF ControllerStep
  <2>2. CASE Environment
    BY <2>2, <2>t, EnvironmentReadyStep
  <2>3. CASE UNCHANGED vars
    BY <2>3 DEF vars, caches, ctrlVars, history, bounds, clientVars, ReadyInv
  <2> QED
    BY <2>1, <2>2, <2>3 DEF Next
<1>2. TypeOK /\ ReadyInv => ReadyIsTrue
  BY DEF TypeOK, Kinds, ReadyInv, ReadyIsTrue
<1> QED
  BY <1>1, <1>2, ReadyInvInit, InvariantHolds, PTL DEF Spec

-----------------------------------------------------------------------------
(* No wake-up is lost: the invariant *)

(* The namespace is there: the cache says so, or the controller has created
   what the cache does not show yet.  Its end is an event. *)
NamespaceThere == cacheN # "absent" \/ ns = "active"

(* It goes, and the cache does not say yet that it has gone. *)
NamespaceGoing == cacheN # "absent" /\ ns # "active"

(* The phase says what the cache shows of the hosted cluster. *)
PhaseSeen(o) == o.phase = "Ready" <=> kind = "hostpool" \/ cacheH = "ready"

(* The cache shows the resource, but for the last values of the annotation. *)
SeenButMgmt == cacheO = [order EXCEPT !.mgmt = cacheO.mgmt]

(* What a reconcile has to have achieved when nothing else is queued. *)
Achieved(o) ==
  IF o.deleting
  THEN \/ NamespaceGoing
       \/ kind = "cluster" /\ cacheH # "absent" /\ (cleaned \/ o.mgmt = "manual")
  ELSE /\ o.fin /\ o.named /\ NamespaceThere /\ PhaseSeen(o)
       /\ kind = "cluster" /\ o.mgmt = "managed" => o.spec \in requested

(* Only the user changes the spec. *)
SpecsInOrder ==
  order.exists /\ cacheO.uid = order.uid => cacheO.spec <= order.spec

(* Between two reconciles the last one has done its work, unless the cache
   has yet to show the write that ended it, or another. *)
IdleInv ==
  ~queued /\ pc = "idle" /\ SeenButMgmt /\ order.exists
  /\ cacheO.mgmt # "unmanaged" => Achieved(cacheO)

(* During one that no other will follow, the handlers get there. *)
TurnInv ==
  ~queued /\ pc # "idle" =>
    /\ old = cacheO
    /\ pc = "finalizer" => ~old.fin
    /\ SeenButMgmt =>
         /\ inst.fin = old.fin /\ inst.spec = old.spec
         /\ Updating => inst.fin
         /\ kind = "cluster" /\ pc \in {"namespace", "hosted"} =>
              inst.phase # "Ready"
         /\ kind = "cluster" /\ pc = "create" => PhaseSeen(inst)
         /\ pc \in {"hosted", "create"} => inst.named /\ NamespaceThere
         /\ pc = "deleteNS" => cacheN # "absent"
         /\ pc = "delete" =>
              \/ kind = "hostpool" /\ cacheN # "absent"
              \/ kind = "cluster" /\ (NamespaceGoing \/ cacheH # "absent")
         /\ pc = "save" => Achieved(inst)

(* A new value of the annotation hides nothing else. *)
LEMMA SeenBefore ==
  ASSUME order \in Object, UserSetsManagementState
  PROVE  SeenButMgmt' => SeenButMgmt
<1>1. PICK m : order' = [order EXCEPT !.mgmt = m]
  BY DEF UserSetsManagementState
<1>2. cacheO' = cacheO
  BY DEF UserSetsManagementState, caches
<1>3. [order' EXCEPT !.mgmt = cacheO.mgmt] = [order EXCEPT !.mgmt = cacheO.mgmt]
  BY <1>1, AnnotatedTwice
<1>4. QED BY <1>2, <1>3 DEF SeenButMgmt

RestInv == SpecsInOrder /\ IdleInv /\ TurnInv

(* Each step of the ClusterOrder controller keeps it. *)
LEMMA ClusterRestStep ==
  ASSUME TypeOK, TypeOK', OrdersInv, RestInv, kind = "cluster", CO!ClusterOrderStep
  PROVE  RestInv'
<1> USE DEF TypeOK, Object, Phases, Lives, ClusterLives, Steps, Kinds, OrdersInv,
        CopyFits, AliveIsAlive, OlderThanOrder, Alive, Updating, Deleting, Clean,
        RestInv, SpecsInOrder, IdleInv, TurnInv, Achieved, SeenButMgmt,
        PhaseSeen, NamespaceThere, NamespaceGoing,
        CO!caches, CO!bounds, CO!history, CO!ctrlVars, CO!clientVars
<1>1. CASE CO!Reconcile
  BY <1>1 DEF CO!Reconcile, CO!StartReconcile
<1>2. CASE CO!AddFinalizer
  <2>1. /\ order'.fin /\ order'.spec = order.spec /\ order'.uid = order.uid
        /\ order'.exists = order.exists
        /\ pc = "finalizer" /\ pc' = "namespace"
        /\ UNCHANGED <<kind, cacheO, cacheN, cacheH, queued, old>>
    BY <1>2 DEF CO!AddFinalizer
  <2>2. ~queued => ~SeenButMgmt'
    BY <2>1
  <2> QED
    BY <2>1, <2>2
<1>3. CASE CO!EnsureComponents
  BY <1>3 DEF CO!EnsureComponents, CO!EnsureNamespace
<1>4. CASE CO!ReadHostedCluster
  BY <1>4 DEF CO!ReadHostedCluster
<1>5. CASE CO!NamespaceUnseen
  BY <1>5 DEF CO!NamespaceUnseen, CO!EndReconcile
<1>6. CASE CO!SkipCreate
  BY <1>6 DEF CO!SkipCreate
<1>7. CASE CO!SendCreate
  BY <1>7 DEF CO!SendCreate
<1>8. CASE CO!CreateLimited
  BY <1>8 DEF CO!CreateLimited
<1>9. CASE CO!CreateFails
  BY <1>9 DEF CO!CreateFails
<1>10. CASE CO!FindNothing
  BY <1>10 DEF CO!FindNothing
<1>11. CASE CO!FindNamespace
  BY <1>11 DEF CO!FindNamespace
<1>12. CASE CO!DeleteEmptyNamespace
  BY <1>12 DEF CO!DeleteEmptyNamespace, CO!DeleteNamespace
<1>13. CASE CO!RemoveFinalizer
  <2>1. /\ ~order'.exists /\ pc # "idle" /\ pc' # "idle"
        /\ UNCHANGED <<cacheO, queued, old>>
    BY <1>13, GoneParts DEF CO!RemoveFinalizer, CO!Release
  <2>2. ~queued => old = cacheO /\ old.exists
    BY <2>1
  <2>3. ~queued => ~SeenButMgmt'
    BY <2>1, <2>2
  <2> QED
    BY <1>13, <2>1, <2>3 DEF CO!RemoveFinalizer, CO!Release
<1>14. CASE CO!SkipDelete
  BY <1>14 DEF CO!SkipDelete
<1>15. CASE CO!SendDelete
  BY <1>15 DEF CO!SendDelete
<1>16. CASE CO!DeleteLimited
  BY <1>16 DEF CO!DeleteLimited
<1>17. CASE CO!DeleteFails
  BY <1>17 DEF CO!DeleteFails
<1>18. CASE CO!RequestFails
  BY <1>18 DEF CO!RequestFails, CO!EndReconcile
<1>19. CASE CO!NothingToSave
  BY <1>19 DEF CO!NothingToSave, CO!EndReconcile, CO!SameStatus
<1>20. CASE CO!SaveStatus
  <2>1. /\ order'.phase = inst.phase /\ order'.named = inst.named
        /\ order'.hosts = inst.hosts /\ order'.spec = order.spec
        /\ order'.uid = order.uid /\ order'.exists = order.exists
        /\ pc # "idle" /\ pc' = "idle" /\ UNCHANGED <<cacheO, queued>>
        /\ ~(/\ inst.phase = old.phase /\ inst.named = old.named
             /\ inst.hosts = old.hosts)
    BY <1>20 DEF CO!SaveStatus, CO!EndReconcile, CO!SameStatus
  <2>2. ~queued => ~SeenButMgmt'
    <3>1. ~queued => old = cacheO
      BY <2>1 DEF TurnInv, RestInv
    <3> QED
      BY <2>1, <3>1
  <2>3. SpecsInOrder'
    BY <2>1
  <2>4. IdleInv' /\ TurnInv'
    BY <2>1, <2>2
  <2> QED
    BY <2>3, <2>4
<1> QED
  BY <1>1, <1>2, <1>3, <1>4, <1>5, <1>6, <1>7, <1>8, <1>9, <1>10, <1>11,
     <1>12, <1>13, <1>14, <1>15, <1>16, <1>17, <1>18, <1>19, <1>20 DEF
     CO!ClusterOrderStep

(* ... each step of the HostPool controller... *)
LEMMA PoolRestStep ==
  ASSUME TypeOK, TypeOK', OrdersInv, RestInv, kind = "hostpool", HP!HostPoolStep
  PROVE  RestInv'
<1> USE DEF TypeOK, Object, Phases, Lives, ClusterLives, Steps, Kinds, OrdersInv,
        CopyFits, AliveIsAlive, OlderThanOrder, Alive, Updating, Deleting, Clean,
        RestInv, SpecsInOrder, IdleInv, TurnInv, Achieved, SeenButMgmt,
        PhaseSeen, NamespaceThere, NamespaceGoing,
        HP!caches, HP!bounds, HP!history, HP!ctrlVars, HP!clientVars
<1>1. CASE HP!Reconcile
  BY <1>1 DEF HP!Reconcile, HP!StartReconcile
<1>2. CASE HP!AddFinalizer
  BY <1>2 DEF HP!AddFinalizer, HP!EndReconcile
<1>3. CASE HP!EnsureComponents
  BY <1>3 DEF HP!EnsureComponents, HP!EnsureNamespace
<1>4. CASE HP!SendCreate
  BY <1>4 DEF HP!SendCreate, HP!Allocated
<1>5. CASE HP!CreateLimited
  BY <1>5 DEF HP!CreateLimited, HP!Allocated
<1>6. CASE HP!CreateFails
  BY <1>6 DEF HP!CreateFails, HP!EndReconcile
<1>7. CASE HP!FindNamespace
  BY <1>7 DEF HP!FindNamespace
<1>8. CASE HP!SkipDelete
  BY <1>8 DEF HP!SkipDelete
<1>9. CASE HP!SendDelete
  BY <1>9 DEF HP!SendDelete
<1>10. CASE HP!DeleteLimited
  BY <1>10 DEF HP!DeleteLimited
<1>11. CASE HP!DeleteFails
  BY <1>11 DEF HP!DeleteFails
<1>12. CASE HP!DeleteItsNamespace
  BY <1>12 DEF HP!DeleteItsNamespace, HP!DeleteNamespace
<1>13. CASE HP!RemoveFinalizer
  <2>1. /\ ~order'.exists /\ pc # "idle" /\ pc' # "idle"
        /\ UNCHANGED <<cacheO, queued, old>>
    BY <1>13, GoneParts DEF HP!RemoveFinalizer, HP!Release
  <2>2. ~queued => old = cacheO /\ old.exists
    BY <2>1
  <2>3. ~queued => ~SeenButMgmt'
    BY <2>1, <2>2
  <2> QED
    BY <1>13, <2>1, <2>3 DEF HP!RemoveFinalizer, HP!Release
<1>14. CASE HP!RequestFails
  BY <1>14 DEF HP!RequestFails, HP!EndReconcile
<1>15. CASE HP!NothingToSave
  BY <1>15 DEF HP!NothingToSave, HP!EndReconcile, HP!SameStatus
<1>16. CASE HP!SaveStatus
  <2>1. /\ order'.phase = inst.phase /\ order'.named = inst.named
        /\ order'.hosts = inst.hosts /\ order'.spec = order.spec
        /\ order'.uid = order.uid /\ order'.exists = order.exists
        /\ pc # "idle" /\ pc' = "idle" /\ UNCHANGED <<cacheO, queued>>
        /\ ~(/\ inst.phase = old.phase /\ inst.named = old.named
             /\ inst.hosts = old.hosts)
    BY <1>16 DEF HP!SaveStatus, HP!EndReconcile, HP!SameStatus
  <2>2. ~queued => ~SeenButMgmt'
    <3>1. ~queued => old = cacheO
      BY <2>1 DEF TurnInv, RestInv
    <3> QED
      BY <2>1, <3>1
  <2>3. SpecsInOrder'
    BY <2>1
  <2>4. IdleInv' /\ TurnInv'
    BY <2>1, <2>2
  <2> QED
    BY <2>3, <2>4
<1> QED
  BY <1>1, <1>2, <1>3, <1>4, <1>5, <1>6, <1>7, <1>8, <1>9, <1>10, <1>11,
     <1>12, <1>13, <1>14, <1>15, <1>16 DEF HP!HostPoolStep

(* What an edit and a change of the annotation do to what RestInv reads. *)
LEMMA EditsOnly ==
  ASSUME order \in Object, UserEdits
  PROVE  /\ order'.spec = order.spec + 1 /\ order'.uid = order.uid
         /\ order.exists /\ order'.exists
         /\ UNCHANGED <<cacheO, queued, pc, inst, old>>
BY DEF UserEdits, Object, caches, ctrlVars

LEMMA AnnotatesOnly ==
  ASSUME order \in Object, UserSetsManagementState
  PROVE  /\ order'.uid = order.uid /\ order'.exists = order.exists
         /\ order'.spec = order.spec
         /\ UNCHANGED <<kind, ns, cacheO, cacheN, cacheH, queued, pc, inst, old,
                        requested, cleaned>>
BY DEF UserSetsManagementState, Object, caches

(* ... and everything else. *)
LEMMA EnvironmentRestStep ==
  ASSUME TypeOK, TypeOK', OrdersInv, RestInv, Environment
  PROVE  RestInv'
<1> USE DEF TypeOK, Object, Phases, Lives, ClusterLives, Steps, Kinds, OrdersInv,
        CopyFits, AliveIsAlive, OlderThanOrder, Alive, Updating, Deleting, Clean,
        RestInv, SpecsInOrder, IdleInv, TurnInv, Achieved, SeenButMgmt,
        PhaseSeen, NamespaceThere, NamespaceGoing,
        caches, bounds, history, ctrlVars, clientVars
<1>1. CASE CacheOrder
  BY <1>1 DEF CacheOrder
<1>2. CASE CacheNamespace
  BY <1>2 DEF CacheNamespace
<1>3. CASE CacheHosted
  BY <1>3 DEF CacheHosted
<1>4. CASE NamespaceEnds
  BY <1>4 DEF NamespaceEnds
<1>5. CASE HostedClusterCreated
  BY <1>5 DEF HostedClusterCreated
<1>6. CASE HostedClusterReady
  BY <1>6 DEF HostedClusterReady
<1>7. CASE HostedClusterDegrades
  BY <1>7 DEF HostedClusterDegrades
<1>8. CASE HostedClusterGoes
  BY <1>8 DEF HostedClusterGoes
<1>9. CASE UserEdits
  <2>1. /\ order'.spec = order.spec + 1 /\ order'.uid = order.uid
        /\ order.exists /\ order'.exists
        /\ UNCHANGED <<cacheO, queued, pc, inst, old>>
    <3>1. order \in Object
      BY DEF TypeOK
    <3> HIDE DEF OrdersInv, RestInv, TypeOK, Object
    <3> QED
      BY <1>9, <3>1, EditsOnly
  <2>2. ~SeenButMgmt'
    BY <2>1
  <2> QED
    BY <2>1, <2>2
<1>10. CASE UserDeletes
  BY <1>10 DEF UserDeletes, Gone, NewOrder
<1>11. CASE UserCreates
  BY <1>11 DEF UserCreates, NewOrder
<1>12. CASE Crash
  BY <1>12 DEF Crash, EndReconcile
<1>13. CASE TimePasses
  BY <1>13 DEF TimePasses
<1>14. CASE HostedClusterCreatedLate
  BY <1>14 DEF HostedClusterCreatedLate
<1>15. CASE UserSetsManagementState
  <2>1. /\ order'.uid = order.uid /\ order'.exists = order.exists
        /\ order'.spec = order.spec
        /\ UNCHANGED <<kind, ns, cacheO, cacheN, cacheH, queued, pc, inst, old,
                       requested, cleaned>>
    <3>1. order \in Object
      BY DEF TypeOK
    <3> HIDE DEF OrdersInv, RestInv, TypeOK, Object
    <3> QED
      BY <1>15, <3>1, AnnotatesOnly
  <2>2. SeenButMgmt' => SeenButMgmt
    BY <1>15, SeenBefore
  <2> QED
    BY <2>1, <2>2
<1> QED
  BY <1>1, <1>2, <1>3, <1>4, <1>5, <1>6, <1>7, <1>8, <1>9, <1>10, <1>11,
     <1>12, <1>13,
     <1>14, <1>15 DEF Environment

LEMMA RestInvInit == Init => RestInv
<1> SUFFICES ASSUME Init PROVE RestInv
  OBVIOUS
<1>1. cacheO = order /\ queued /\ order.spec \in Nat
  BY InitOK DEF Init, TypeOK, Object
<1> QED
  BY <1>1 DEF RestInv, SpecsInOrder, IdleInv, TurnInv

(***************************************************************************)
(* No wake-up is lost: a resource at rest has what its spec asks for, or   *)
(* waits for an object that goes.                                          *)
(***************************************************************************)
THEOREM OrdersRestWhenDone == Spec => []RestsWhenDone
<1>1. TypeOK /\ OrdersInv /\ RestInv /\ [Next]_vars => RestInv'
  <2> SUFFICES ASSUME TypeOK, OrdersInv, RestInv, [Next]_vars PROVE RestInv'
    OBVIOUS
  <2>t. TypeOK'
    BY TypeStep
  <2>1. CASE ControllerStep
    BY <2>1, <2>t, ClusterRestStep, PoolRestStep DEF ControllerStep
  <2>2. CASE Environment
    BY <2>2, <2>t, EnvironmentRestStep
  <2>3. CASE UNCHANGED vars
    BY <2>3 DEF vars, caches, ctrlVars, history, RestInv, SpecsInOrder, IdleInv,
       TurnInv, Achieved, SeenButMgmt, PhaseSeen, NamespaceThere, NamespaceGoing,
       Clean, Updating
  <2> QED
    BY <2>1, <2>2, <2>3 DEF Next
<1>2. TypeOK /\ OrdersInv /\ RestInv => RestsWhenDone
  BY DEF TypeOK, Lives, Kinds, OrdersInv, AliveIsAlive, RestInv, IdleInv, Achieved,
     SeenButMgmt, Object, PhaseSeen, NamespaceThere, NamespaceGoing, Clean, RestsWhenDone, Resting,
     NothingToDo
<1> QED
  BY <1>1, <1>2, RestInvInit, InvariantHolds, PTL DEF Spec

=============================================================================
