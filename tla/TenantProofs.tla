----------------------------- MODULE TenantProofs -----------------------------
(***************************************************************************)
(* The safety theorems about tenants: for a controller that sees what it   *)
(* has created, phase Ready is true, the network is deleted before the     *)
(* namespace, and a tenant whose status names a namespace is released when *)
(* both are gone, whatever fails, restarts or is out of date; and any      *)
(* controller rests only when there is nothing left to do.                 *)
(***************************************************************************)
EXTENDS Tenant, TLAPS

(* What Init and the end of a reconcile leave as local copies. *)
LEMMA GoneIsBlank ==
  /\ Gone \in TenantObject /\ NewTenant \in TenantObject
  /\ ~Gone.exists /\ Gone.phase = "None"
  /\ ~Gone.deleting /\ ~Gone.fin /\ ~Gone.named
  /\ NewTenant.exists /\ NewTenant.phase = "None"
  /\ ~NewTenant.deleting /\ ~NewTenant.fin /\ ~NewTenant.named
BY DEF Gone, NewTenant, Blank, TenantObject, Phases

(***************************************************************************)
(* Every value stays of its type, one action after the other.              *)
(***************************************************************************)
LEMMA TypeStep == TypeOK /\ [Next]_vars => TypeOK'
<1> SUFFICES ASSUME TypeOK, [Next]_vars PROVE TypeOK'
  OBVIOUS
<1> USE DEF TypeOK, TenantObject, Phases, Lives, Steps
<1>1. CASE Reconcile
  <2>1. queued' \in BOOLEAN /\ fresh' \in BOOLEAN /\ blind' \in BOOLEAN
    BY <1>1 DEF Reconcile
  <2>2. inst' \in TenantObject /\ old' \in TenantObject
    BY <1>1 DEF Reconcile
  <2>3. pc' \in Steps
    BY <1>1 DEF Reconcile
  <2> QED
    BY <1>1, <2>1, <2>2, <2>3 DEF Reconcile, caches
<1>2. CASE AddFinalizer \/ Release \/ NothingToSave \/ SaveStatus
  BY <1>2, GoneIsBlank DEF AddFinalizer, Release, NothingToSave, SaveStatus,
     EndReconcile, caches
<1>3. CASE EnsureNamespace \/ EnsureNetwork \/ DeleteNetwork \/ DeleteNamespace
  BY <1>3 DEF EnsureNamespace, EnsureNetwork, DeleteNetwork, DeleteNamespace, caches
<1>4. CASE RequestFails
  <2>1. errs' \in Nat /\ pc' \in Steps
    BY <1>4 DEF RequestFails, Failure, EndReconcile
  <2>2. inst' \in TenantObject /\ old' \in TenantObject /\ fresh' \in BOOLEAN
    BY <1>4, GoneIsBlank DEF RequestFails, EndReconcile
  <2> QED
    BY <1>4, <2>1, <2>2 DEF RequestFails, caches
<1>5. CASE Crash
  <2>1. errs' \in Nat
    BY <1>5 DEF Crash, Failure
  <2>2. /\ inst' \in TenantObject /\ old' \in TenantObject
        /\ t' \in TenantObject /\ cacheT' \in TenantObject
    BY <1>5, GoneIsBlank DEF Crash, EndReconcile
  <2> QED
    BY <1>5, <2>1, <2>2 DEF Crash, EndReconcile
<1>6. CASE CacheTenant \/ CacheNamespace \/ CacheNetwork
  BY <1>6 DEF CacheTenant, CacheNamespace, CacheNetwork
<1>7. CASE OwnerAdded
  <2>1. errs' \in Nat
    BY <1>7 DEF OwnerAdded, Failure
  <2>2. /\ UNCHANGED <<t, ns, udn, cacheT, cacheN, cacheU, pc, inst, old, blind>>
        /\ fresh' \in BOOLEAN /\ queued' \in BOOLEAN
    BY <1>7 DEF OwnerAdded, caches
  <2> QED
    BY <2>1, <2>2
<1>8. CASE TenantCreated \/ TenantDeleted \/ NamespaceEnds \/ NetworkEnds
  BY <1>8, GoneIsBlank DEF TenantCreated, TenantDeleted, NamespaceEnds,
     NetworkEnds, caches, ctrlVars
<1>9. CASE UNCHANGED vars
  BY <1>9 DEF vars, caches, ctrlVars
<1> QED
  BY <1>1, <1>2, <1>3, <1>4, <1>5, <1>6, <1>7, <1>8, <1>9 DEF Next, ControllerStep

(***************************************************************************)
(* Every action keeps the inductive invariant.                             *)
(***************************************************************************)
LEMMA InvStep == IInv /\ [Next]_vars => IInv'
<1> SUFFICES ASSUME IInv, [Next]_vars PROVE IInv'
  OBVIOUS
<1>t. TypeOK /\ TypeOK'
  BY TypeStep DEF IInv
<1> DEFINE Rest == CopiesInv /\ (~blind => DeletionInv /\ CalmInv) /\ ReadyMeansReady
<1> SUFFICES Rest'
  BY <1>t DEF IInv
<1>r. Rest
  BY DEF IInv
<1> USE DEF TypeOK, TenantObject, Phases, Lives, Steps, CopiesInv, DeletionInv,
        CalmInv, ReadyMeansReady, Ending, Empty, SeesOwnObjects, SameStatus
<1>1. CASE Reconcile
  BY <1>1, <1>t, <1>r DEF Reconcile, caches
<1>2. CASE AddFinalizer
  BY <1>2, <1>t, <1>r DEF AddFinalizer, EndReconcile, caches, Gone, NewTenant
<1>3. CASE EnsureNamespace
  <2>1. CopiesInv'
    BY <1>3, <1>t, <1>r DEF EnsureNamespace, caches
  <2>2. ~blind' => DeletionInv'
    BY <1>3, <1>t, <1>r DEF EnsureNamespace, caches
  <2>3. ~blind' => CalmInv'
    BY <1>3, <1>t, <1>r DEF EnsureNamespace, caches
  <2>4. ReadyMeansReady'
    BY <1>3, <1>t, <1>r DEF EnsureNamespace, caches
  <2> QED
    BY <2>1, <2>2, <2>3, <2>4
<1>4. CASE EnsureNetwork
  BY <1>4, <1>t, <1>r DEF EnsureNetwork, caches
<1>5. CASE DeleteNetwork
  BY <1>5, <1>t, <1>r DEF DeleteNetwork, caches
<1>6. CASE DeleteNamespace
  BY <1>6, <1>t, <1>r DEF DeleteNamespace, caches
<1>7. CASE Release
  BY <1>7, <1>t, <1>r, GoneIsBlank DEF Release, EndReconcile, caches
<1>8. CASE NothingToSave
  BY <1>8, <1>t, <1>r, GoneIsBlank DEF NothingToSave, EndReconcile, caches
<1>9. CASE SaveStatus
  BY <1>9, <1>t, <1>r, GoneIsBlank DEF SaveStatus, EndReconcile, caches
<1>10. CASE RequestFails
  <2>1. CopiesInv'
    <3>1. CASE pc = "save"
      BY <1>10, <1>t, <1>r, <3>1, GoneIsBlank DEF RequestFails, EndReconcile, caches
    <3>2. CASE pc \in {"namespace", "network"}
      <4>1. inst'.named /\ pc' = "save" /\ UNCHANGED <<t, cacheT, old, fresh>>
        BY <1>10, <1>t, <3>2 DEF RequestFails, caches
      <4> QED
        BY <4>1, <1>r, <3>2
    <3>3. CASE pc \in {"finalizer", "deleteUDN", "deleteNS", "release"}
      BY <1>10, <1>t, <1>r, <3>3, GoneIsBlank DEF RequestFails, caches
    <3> QED
      BY <1>10, <3>1, <3>2, <3>3 DEF RequestFails
  <2>2. ~blind' => DeletionInv'
    BY <1>10, <1>t, <1>r, GoneIsBlank DEF RequestFails, EndReconcile, caches
  <2>3. ~blind' => CalmInv'
    BY <1>10, <1>t, <1>r, GoneIsBlank DEF RequestFails, EndReconcile, caches
  <2>4. ReadyMeansReady'
    BY <1>10, <1>t, <1>r, GoneIsBlank DEF RequestFails, EndReconcile, caches
  <2> QED
    BY <2>1, <2>2, <2>3, <2>4
<1>11. CASE Crash
  BY <1>11, <1>t, <1>r, GoneIsBlank DEF Crash, EndReconcile
<1>12. CASE CacheTenant
  BY <1>12, <1>t, <1>r DEF CacheTenant
<1>13. CASE CacheNamespace
  BY <1>13, <1>t, <1>r DEF CacheNamespace
<1>14. CASE CacheNetwork
  BY <1>14, <1>t, <1>r DEF CacheNetwork
<1>15. CASE TenantCreated
  <2>1. CopiesInv'
    BY <1>15, <1>t, <1>r, GoneIsBlank DEF TenantCreated, caches, ctrlVars
  <2>2. ~blind' => DeletionInv'
    BY <1>15, <1>t, <1>r, GoneIsBlank DEF TenantCreated, caches, ctrlVars
  <2>3. ~blind' => CalmInv'
    BY <1>15, <1>t, <1>r, GoneIsBlank DEF TenantCreated, caches, ctrlVars
  <2>4. ReadyMeansReady'
    BY <1>15, <1>t, <1>r, GoneIsBlank DEF TenantCreated, caches, ctrlVars
  <2> QED
    BY <2>1, <2>2, <2>3, <2>4
<1>16. CASE OwnerAdded
  BY <1>16, <1>t, <1>r DEF OwnerAdded, caches
<1>17. CASE TenantDeleted
  BY <1>17, <1>t, <1>r, GoneIsBlank DEF TenantDeleted, caches, ctrlVars
<1>18. CASE NamespaceEnds
  BY <1>18, <1>t, <1>r DEF NamespaceEnds, caches, ctrlVars
<1>19. CASE NetworkEnds
  BY <1>19, <1>t, <1>r DEF NetworkEnds, caches, ctrlVars
<1>20. CASE UNCHANGED vars
  BY <1>20, <1>t, <1>r DEF vars, caches, ctrlVars
<1> QED
  BY <1>1, <1>2, <1>3, <1>4, <1>5, <1>6, <1>7, <1>8, <1>9, <1>10, <1>11, <1>12,
     <1>13, <1>14, <1>15, <1>16, <1>17, <1>18, <1>19, <1>20 DEF Next, ControllerStep

LEMMA InvInit == Init => IInv
<1> SUFFICES ASSUME Init PROVE IInv
  OBVIOUS
<1>1. TypeOK
  BY GoneIsBlank DEF Init, TypeOK, Lives, Steps
<1>2. CopiesInv /\ DeletionInv /\ CalmInv /\ ReadyMeansReady
  BY GoneIsBlank DEF Init, CopiesInv, DeletionInv, CalmInv, ReadyMeansReady,
     Ending, Empty, SeesOwnObjects, SameStatus
<1> QED
  BY <1>1, <1>2 DEF IInv

(***************************************************************************)
(* The inductive invariant holds, and with it the types.                   *)
(***************************************************************************)
THEOREM TenantInvariant == Spec => []IInv
BY InvInit, InvStep, PTL DEF Spec

(***************************************************************************)
(* A tenant in phase Ready has its namespace and its network: Reconcile    *)
(* stores the phase only after both requests succeeded, and nothing takes  *)
(* them away before the deletion of the tenant.                            *)
(***************************************************************************)
THEOREM ReadyIsTrue == Spec => []ReadyMeansReady
<1>1. IInv => ReadyMeansReady
  BY DEF IInv
<1> QED
  BY <1>1, TenantInvariant, PTL

(***************************************************************************)
(* handleDelete asks the namespace to go when the network has gone.        *)
(***************************************************************************)
THEOREM NetworkFirst == Spec => NetworkGoesFirst
<1> DEFINE Step == ~blind /\ ns = "active" /\ ns' = "terminating" => udn = "absent"
<1>1. IInv /\ [Next]_vars => [Step]_vars
  <2> SUFFICES ASSUME IInv, Next, ~blind, ns = "active", ns' = "terminating"
               PROVE udn = "absent"
    BY DEF vars
  <2>1. DeleteNamespace
    BY DEF Next, ControllerStep, Reconcile, AddFinalizer, EnsureNamespace,
       EnsureNetwork, DeleteNetwork, Release, NothingToSave, SaveStatus,
       RequestFails, Crash, CacheTenant, CacheNamespace, CacheNetwork,
       TenantCreated, OwnerAdded, TenantDeleted, NamespaceEnds, NetworkEnds
  <2> QED
    BY <2>1 DEF DeleteNamespace, IInv, DeletionInv
<1> QED
  BY <1>1, TenantInvariant, PTL DEF Spec, NetworkGoesFirst

(***************************************************************************)
(* A tenant whose status names a namespace is released when the namespace  *)
(* and the network are gone.                                               *)
(***************************************************************************)
THEOREM ReleaseIsClean == Spec => ReleasedWhenClean
<1> DEFINE Step == ~blind /\ t.exists /\ t.fin /\ t.named /\ ~t'.exists
                     => ns = "absent" /\ udn = "absent"
<1>1. IInv /\ [Next]_vars => [Step]_vars
  <2> SUFFICES ASSUME IInv, Next, ~blind, t.exists, t.fin, t.named, ~t'.exists
               PROVE ns = "absent" /\ udn = "absent"
    BY DEF vars
  <2>t. t \in TenantObject
    BY DEF IInv, TypeOK
  <2>1. CASE Release
    BY <2>1 DEF Release, IInv, CopiesInv, DeletionInv, Empty
  <2>2. CASE AddFinalizer \/ SaveStatus
    BY <2>2, <2>t DEF AddFinalizer, SaveStatus, TenantObject
  <2>3. CASE TenantCreated \/ TenantDeleted
    BY <2>3, <2>t DEF TenantCreated, TenantDeleted, TenantObject
  <2> QED
    BY <2>1, <2>2, <2>3 DEF Next, ControllerStep, Reconcile,
       EnsureNamespace, EnsureNetwork, DeleteNetwork, DeleteNamespace,
       NothingToSave, RequestFails, Crash, CacheTenant, CacheNamespace,
       CacheNetwork, OwnerAdded, NamespaceEnds, NetworkEnds
<1> QED
  BY <1>1, TenantInvariant, PTL DEF Spec, ReleasedWhenClean

-----------------------------------------------------------------------------
(* No wake-up is lost: the invariant *)

(* Both objects are there: the cache says so, or the controller has created
   what the cache does not show yet.  Whatever ends them is an event. *)
NamespaceThere == cacheN # "absent" \/ ns = "active"

BothThere ==
  NamespaceThere /\ (cacheU # "absent" \/ (udn = "active" /\ ns = "active"))

(* One of the two goes, and the cache does not say yet that it has gone. *)
OneGoing ==
  \/ cacheU # "absent" /\ udn # "active"
  \/ cacheN # "absent" /\ ns # "active"

(* What a reconcile has to have achieved when nothing else is queued. *)
Achieved(tenant) ==
  IF tenant.deleting THEN OneGoing
  ELSE tenant.fin /\ tenant.phase = "Ready" /\ BothThere

(* The cache shows an older version, which does not come back by itself. *)
VersionsInOrder ==
  /\ t.deleting => t.fin
  /\ cacheT.deleting => t.deleting \/ ~t.fin
  /\ cacheN = "terminating" => ns # "active"

(* Between two reconciles the last one has done its work, or the write that
   ended it brings an event. *)
IdleInv ==
  ~queued /\ pc = "idle" =>
    /\ cacheT.exists /\ ~cacheT.deleting /\ ~cacheT.fin => t.fin
    /\ cacheT = t /\ t.exists => Achieved(t)

(* During one that no other will follow, the handlers get there. *)
TurnInv ==
  ~queued /\ pc # "idle" =>
    /\ old = cacheT
    /\ pc = "finalizer" => ~old.deleting /\ ~old.fin
    /\ pc \in {"namespace", "network"} => ~old.deleting /\ old.fin
    /\ pc = "network" => NamespaceThere
    /\ pc \in {"deleteUDN", "deleteNS", "release"} => old.deleting
    /\ pc = "save" =>
         IF old.deleting THEN old.fin => OneGoing
         ELSE old.fin /\ inst.phase = "Ready" /\ BothThere

RestInv == VersionsInOrder /\ IdleInv /\ TurnInv

(***************************************************************************)
(* Every action keeps it: the writer of what the cache does not show yet   *)
(* brings the event, and every other end of a reconcile asks for the next. *)
(***************************************************************************)
LEMMA RestStep == IInv /\ RestInv /\ [Next]_vars => RestInv'
<1> SUFFICES ASSUME IInv, RestInv, [Next]_vars PROVE RestInv'
  OBVIOUS
<1>t. TypeOK /\ TypeOK' /\ CopiesInv
  BY TypeStep DEF IInv
<1>r. RestInv
  OBVIOUS
<1> USE DEF TypeOK, TenantObject, Phases, Lives, Steps, CopiesInv, RestInv,
        VersionsInOrder, IdleInv, TurnInv, Achieved, OneGoing, BothThere,
        NamespaceThere
<1>1. CASE Reconcile
  BY <1>1, <1>t, <1>r DEF Reconcile, caches
<1>2. CASE AddFinalizer
  BY <1>2, <1>t, <1>r DEF AddFinalizer, EndReconcile, caches
<1>3. CASE EnsureNamespace
  BY <1>3, <1>t, <1>r DEF EnsureNamespace, caches
<1>4. CASE EnsureNetwork
  BY <1>4, <1>t, <1>r DEF EnsureNetwork, caches
<1>5. CASE DeleteNetwork
  BY <1>5, <1>t, <1>r DEF DeleteNetwork, caches
<1>6. CASE DeleteNamespace
  BY <1>6, <1>t, <1>r DEF DeleteNamespace, caches
<1>7. CASE Release
  BY <1>7, <1>t, <1>r, GoneIsBlank DEF Release, EndReconcile, caches
<1>8. CASE NothingToSave
  BY <1>8, <1>t, <1>r DEF NothingToSave, SameStatus, EndReconcile, caches
<1>9. CASE SaveStatus
  BY <1>9, <1>t, <1>r DEF SaveStatus, EndReconcile, caches
<1>10. CASE RequestFails
  BY <1>10, <1>t, <1>r DEF RequestFails, caches
<1>11. CASE Crash
  BY <1>11, <1>t, <1>r DEF Crash
<1>12. CASE CacheTenant
  BY <1>12, <1>t, <1>r DEF CacheTenant
<1>13. CASE CacheNamespace
  BY <1>13, <1>t, <1>r DEF CacheNamespace
<1>14. CASE CacheNetwork
  BY <1>14, <1>t, <1>r DEF CacheNetwork
<1>15. CASE TenantCreated
  BY <1>15, <1>t, <1>r, GoneIsBlank DEF TenantCreated, caches, ctrlVars
<1>16. CASE OwnerAdded
  BY <1>16, <1>t, <1>r DEF OwnerAdded, caches
<1>17. CASE TenantDeleted
  BY <1>17, <1>t, <1>r, GoneIsBlank DEF TenantDeleted, caches, ctrlVars
<1>18. CASE NamespaceEnds
  BY <1>18, <1>t, <1>r DEF NamespaceEnds, caches, ctrlVars
<1>19. CASE NetworkEnds
  BY <1>19, <1>t, <1>r DEF NetworkEnds, caches, ctrlVars
<1>20. CASE UNCHANGED vars
  BY <1>20, <1>t, <1>r DEF vars, caches, ctrlVars
<1> QED
  BY <1>1, <1>2, <1>3, <1>4, <1>5, <1>6, <1>7, <1>8, <1>9, <1>10, <1>11, <1>12,
     <1>13, <1>14, <1>15, <1>16, <1>17, <1>18, <1>19, <1>20 DEF Next, ControllerStep

(***************************************************************************)
(* No wake-up is lost: a tenant at rest has what its spec asks for, or     *)
(* waits for an object that goes.                                          *)
(***************************************************************************)
THEOREM TenantRestsWhenDone == Spec => []RestsWhenDone
<1>1. Init => IInv /\ RestInv
  <2>1. Init => RestInv
    BY GoneIsBlank DEF Init, RestInv, VersionsInOrder, IdleInv, TurnInv
  <2> QED
    BY <2>1, InvInit
<1>2. IInv /\ RestInv => RestsWhenDone
  BY DEF IInv, TypeOK, Lives, TenantObject, RestInv, IdleInv, RestsWhenDone,
     Resting, NothingToDo, Achieved, OneGoing, BothThere, NamespaceThere
<1> QED
  BY <1>1, <1>2, InvStep, RestStep, PTL DEF Spec

=============================================================================
