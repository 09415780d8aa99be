------------------------------ MODULE Feedback ------------------------------
(***************************************************************************)
(* The feedback controllers of ComputeInstance, ClusterOrder and HostPool  *)
(* (internal/controller/computeinstance_feedback_controller.go,            *)
(* feedback_controller.go, hostpool_feedback_controller.go): they copy the *)
(* state of a resource into its record in the fulfillment service.  The    *)
(* first one also holds the resource back with a finalizer of its own      *)
(* until the end of the deletion has been reported there; the other two    *)
(* report nothing of a deletion.                                           *)
(*                                                                         *)
(* The controller that works on the resource appears by what it does to    *)
(* it: its finalizer, the phase and the RestartInProgress condition.  Of   *)
(* the record, the state and that condition are kept; the other fields are *)
(* copied in the same way.                                                 *)
(***************************************************************************)
EXTENDS Naturals, FiniteSets

CONSTANTS
  MaxErrors,   \* bound: requests that fail and restarts of the operator
  Faults       \* what else may happen, a subset of FaultKinds

(***************************************************************************)
(* crash         the operator restarts at any moment                       *)
(* unlabel       somebody removes the label with the record's identifier   *)
(***************************************************************************)
FaultKinds == {"crash", "unlabel"}

ASSUME FeedbackAssumption == MaxErrors \in Nat /\ Faults \subseteq FaultKinds

VARIABLES
  cr,       \* the resource in the API server
  cache,    \* the resource in the informer cache
  queued,   \* the work queue of the feedback controller holds the key
  pc,       \* step of its reconcile, "idle" between reconciles
  object,   \* the resource as the reconcile read it
  fresh,    \* ... which is still the current version
  record,   \* the record in the fulfillment service
  before,   \* the record as the reconcile fetched it
  ci,       \* ... and with the state of the resource copied into it
  errs      \* failures so far

ctrlVars   == <<queued, pc, object, before, ci>>
recordVars == <<record, before, ci>>
vars       == <<cr, cache, queued, pc, object, fresh, record, before, ci, errs>>

-----------------------------------------------------------------------------
(* Types *)

Kinds == {"instance", "cluster", "hostpool"}

(* The phases of a resource that is not deleted. *)
PhasesOf(kind) ==
  IF kind = "instance" THEN {"Starting", "Running", "Failed"}
                       ELSE {"Progressing", "Ready", "Failed"}

Phases == {"None", "Starting", "Running", "Progressing", "Ready", "Failed",
           "Deleting"}

Finalizers == {"base", "feedback"}

Resource == [kind : Kinds, exists : BOOLEAN, labelled : BOOLEAN,
             deleting : BOOLEAN, fins : SUBSET Finalizers, phase : Phases, restarting : BOOLEAN]

(* "" is the state of a record nobody has written yet. *)
States == {"", "STARTING", "RUNNING", "PROGRESSING", "READY", "FAILED",
           "DELETING"}

Record == [state : States, restarting : BOOLEAN]

Steps == {"idle", "fetch", "unlabelled", "finalizer", "save", "remove", "signal"}

NewResource(kind) ==
  [kind |-> kind, exists |-> TRUE, labelled |-> TRUE, deleting |-> FALSE,
   fins |-> {}, phase |-> "None", restarting |-> FALSE]

(* What is left of a resource. *)
Gone(kind) == [NewResource(kind) EXCEPT !.exists = FALSE]

NoObject == Gone("instance")

NewRecord == [state |-> "", restarting |-> FALSE]

TypeOK ==
  /\ cr \in Resource /\ cache \in Resource /\ object \in Resource
  /\ queued \in BOOLEAN /\ fresh \in BOOLEAN
  /\ pc \in Steps
  /\ record \in Record /\ before \in Record /\ ci \in Record
  /\ errs \in Nat

Init ==
  /\ cr \in {NewResource(k) : k \in Kinds} /\ cache = cr
  /\ queued = TRUE /\ pc = "idle"
  /\ object = NoObject /\ fresh = FALSE
  /\ record = NewRecord /\ before = NewRecord /\ ci = NewRecord
  /\ errs = 0

-----------------------------------------------------------------------------
(* The API server *)

(* An object without finalizers is removed as soon as it is deleted. *)
Settle(o) == IF o.deleting /\ o.fins = {} THEN Gone(o.kind) ELSE o

(* Somebody else's write; the version the reconcile works on is outdated. *)
ForeignWrite(new) ==
  /\ new # cr
  /\ cr' = new /\ fresh' = FALSE
  /\ UNCHANGED <<cache, ctrlVars, record, errs>>

(* The informer delivers the latest version and enqueues the key. *)
CacheSync ==
  /\ cache # cr
  /\ cache' = cr /\ queued' = TRUE
  /\ UNCHANGED <<cr, pc, object, fresh, recordVars, errs>>

-----------------------------------------------------------------------------
(* The reconcile *)

Failure == errs < MaxErrors /\ errs' = errs + 1

EndReconcile ==
  /\ pc' = "idle" /\ object' = NoObject /\ fresh' = FALSE
  /\ before' = NewRecord /\ ci' = NewRecord

(* syncPhase: a phase it does not know leaves the state of the record alone. *)
StateOf(phase, state) ==
  CASE phase = "Starting"    -> "STARTING"
    [] phase = "Progressing" -> "PROGRESSING"
    [] phase = "Failed"      -> "FAILED"
    [] phase = "Running"     -> "RUNNING"
    [] phase = "Ready"       -> "READY"
    [] phase = "Deleting"    -> "DELETING"
    [] OTHER                 -> state

(* syncState: a condition that is not there is not copied. *)
SyncInstance(r, o) ==
  [state |-> StateOf(o.phase, r.state),
   restarting |-> r.restarting \/ o.restarting]

(* handleUpdate; handleDelete is empty, the record knows no such state. *)
SyncCluster(r, o) ==
  IF o.deleting THEN r ELSE [r EXCEPT !.state = StateOf(o.phase, @)]

SyncPool(r, o) == [r EXCEPT !.state = StateOf(o.phase, @)]

(* A reconcile reads the resource, and goes on unless there is nothing to do. *)
StartReconcile(step) ==
  /\ pc = "idle" /\ queued
  /\ queued' = FALSE
  /\ IF step = "idle"
     THEN UNCHANGED <<object, fresh, pc>>
     ELSE object' = cache /\ fresh' = (cache = cr) /\ pc' = step
  /\ UNCHANGED <<cr, cache, recordVars, errs>>

(* Steps 1 and 2: a resource without label is left alone, or let go. *)
ReconcileInstance ==
  /\ cache.kind = "instance"
  /\ StartReconcile(
       CASE cache.exists /\ cache.labelled -> "fetch"
         [] /\ cache.exists /\ ~cache.labelled /\ cache.deleting
            /\ "feedback" \in cache.fins   -> "unlabelled"
         [] OTHER                          -> "idle")

ReconcileCluster ==
  /\ cache.kind = "cluster"
  /\ StartReconcile(IF cache.exists /\ cache.labelled THEN "fetch" ELSE "idle")

(* A pool that is being deleted is left alone. *)
ReconcilePool ==
  /\ cache.kind = "hostpool"
  /\ StartReconcile(IF cache.exists /\ cache.labelled /\ ~cache.deleting
                    THEN "fetch" ELSE "idle")

(* The record is fetched, and the resource copied into a copy of it. *)
Fetch(updated, step) ==
  /\ pc = "fetch"
  /\ before' = record /\ ci' = updated
  /\ pc' = step
  /\ UNCHANGED <<cr, cache, queued, object, fresh, record, errs>>

(* Steps 3 and 4. *)
FetchComputeInstance ==
  /\ object.kind = "instance"
  /\ Fetch(SyncInstance(record, object),
           IF ~object.deleting /\ "feedback" \notin object.fins
           THEN "finalizer" ELSE "save")

(* The hosted cluster of a ClusterOrder that is Ready is fetched as well. *)
FetchCluster ==
  /\ object.kind = "cluster"
  /\ Fetch(SyncCluster(record, object), "save")

FetchHostPool ==
  /\ object.kind = "hostpool"
  /\ Fetch(SyncPool(record, object), "save")

(* The finalizer of a resource that has lost its label is not kept. *)
ReleaseUnlabelled ==
  /\ pc = "unlabelled" /\ fresh
  /\ cr' = Settle([cr EXCEPT !.fins = @ \ {"feedback"}])
  /\ EndReconcile
  /\ UNCHANGED <<cache, queued, record, errs>>

(* handleUpdate *)
AddFinalizer ==
  /\ pc = "finalizer" /\ fresh
  /\ cr' = [cr EXCEPT !.fins = @ \cup {"feedback"}]
  /\ object' = cr'
  /\ pc' = "save"
  /\ UNCHANGED <<cache, queued, fresh, recordVars, errs>>

(* Mutant: other finalizers are not waited for. *)
HoldsResource(o) == o.deleting /\ "feedback" \in o.fins

(* The finalizer of the feedback controller is the last one. *)
LastFinalizer(o) ==
  o.deleting /\ "feedback" \in o.fins /\ Cardinality(o.fins) = 1

(* Step 5: update the record if anything is different. *)
SaveRecord ==
  /\ pc = "save"
  /\ record' = IF ci = before THEN record ELSE ci
  /\ IF LastFinalizer(object)
     THEN pc' = "remove" /\ UNCHANGED <<object, fresh, before, ci>>
     ELSE EndReconcile
  /\ UNCHANGED <<cr, cache, queued, errs>>

(* Mutant: the finalizer is removed by a patch, whatever the version. *)
RemoveFinalizerByPatch ==
  /\ pc = "remove" /\ cr.exists
  /\ cr' = Settle([cr EXCEPT !.fins = @ \ {"feedback"}])
  /\ pc' = "signal"
  /\ UNCHANGED <<cache, queued, object, fresh, recordVars, errs>>

(* Step 6: remove the finalizer, then signal. *)
RemoveFinalizer ==
  /\ pc = "remove" /\ fresh
  /\ cr' = Settle([cr EXCEPT !.fins = @ \ {"feedback"}])
  /\ pc' = "signal"
  /\ UNCHANGED <<cache, queued, object, fresh, recordVars, errs>>

(* An error of the signal is logged and forgotten. *)
Signal ==
  /\ pc = "signal"
  /\ EndReconcile
  /\ UNCHANGED <<cr, cache, queued, record, errs>>

(* Mutant: the error of an update of the record is logged and forgotten. *)
SwallowError ==
  /\ pc \in {"unlabelled", "fetch", "finalizer", "save", "remove"}
  /\ IF pc \in {"unlabelled", "finalizer", "remove"} /\ ~fresh
     THEN UNCHANGED errs ELSE Failure
  /\ queued' = (queued \/ pc # "save")
  /\ EndReconcile
  /\ UNCHANGED <<cr, cache, record>>

(* A request fails, an update of the resource also when somebody else has
   written it: the reconcile is repeated. *)
RequestFails ==
  /\ pc \in {"unlabelled", "fetch", "finalizer", "save", "remove"}
  /\ IF pc \in {"unlabelled", "finalizer", "remove"} /\ ~fresh
     THEN UNCHANGED errs ELSE Failure
  /\ queued' = TRUE
  /\ EndReconcile
  /\ UNCHANGED <<cr, cache, record>>

(* The operator restarts with a new cache and looks at every resource. *)
Crash ==
  /\ "crash" \in Faults
  /\ pc # "idle"
  /\ Failure
  /\ EndReconcile
  /\ cache' = cr /\ queued' = TRUE
  /\ UNCHANGED <<cr, record>>

-----------------------------------------------------------------------------
(* The controller of the resource and the user *)

(* handleUpdate puts the base finalizer on the resource... *)
BaseAddsFinalizer ==
  /\ cr.exists /\ ~cr.deleting
  /\ ForeignWrite([cr EXCEPT !.fins = @ \cup {"base"}])

(* ... and stores phases; a reconcile may have begun before the deletion. *)
BaseStoresPhase ==
  /\ cr.exists /\ cr.phase # "Deleting"
  /\ \E p \in PhasesOf(cr.kind) :
       ForeignWrite([cr EXCEPT !.phase = p])

(* handleDelete sets this one first, and it is stored when the reconcile ends,
   if need be in a later reconcile than the one that removes the finalizer. *)
BaseStoresDeleting ==
  /\ cr.exists /\ cr.deleting
  /\ ForeignWrite([cr EXCEPT !.phase = "Deleting"])

(* The condition is set to True, or removed. *)
BaseSetsRestartCondition ==
  /\ cr.kind = "instance" /\ cr.exists /\ "base" \in cr.fins
  /\ \E b \in BOOLEAN : ForeignWrite([cr EXCEPT !.restarting = b])

(* handleDelete is done with the resource: at once, and before phase Deleting
   is stored, when there is nothing to deprovision (EDA without the finalizer
   of the playbook, a manual ComputeInstance, a ClusterOrder or HostPool). *)
BaseRemovesFinalizer ==
  /\ cr.exists /\ cr.deleting /\ "base" \in cr.fins
  /\ ForeignWrite(Settle([cr EXCEPT !.fins = @ \ {"base"}]))

UserDeletes ==
  /\ cr.exists /\ ~cr.deleting
  /\ ForeignWrite(Settle([cr EXCEPT !.deleting = TRUE]))

UserRemovesLabel ==
  /\ "unlabel" \in Faults
  /\ cr.exists
  /\ ForeignWrite([cr EXCEPT !.labelled = FALSE])

-----------------------------------------------------------------------------
ControllerStep ==
  \/ ReconcileInstance \/ ReconcileCluster \/ ReconcilePool
  \/ ReleaseUnlabelled
  \/ FetchComputeInstance \/ FetchCluster \/ FetchHostPool
  \/ AddFinalizer
  \/ SaveRecord \/ RemoveFinalizer \/ Signal \/ RequestFails

OthersStep ==
  \/ BaseAddsFinalizer \/ BaseStoresPhase \/ BaseStoresDeleting
  \/ BaseSetsRestartCondition \/ BaseRemovesFinalizer
  \/ UserDeletes \/ UserRemovesLabel

Next == ControllerStep \/ CacheSync \/ Crash \/ OthersStep

Spec == Init /\ [][Next]_vars

(***************************************************************************)
(* Reconciles go on and the informer catches up.  A resource that is being *)
(* deleted gets its phase, after which the ComputeInstance controller      *)
(* leaves it alone but for the release.                                    *)
(***************************************************************************)
Fairness ==
  /\ WF_vars(ControllerStep)
  /\ WF_vars(CacheSync)
  /\ WF_vars(BaseStoresDeleting)
  /\ WF_vars(BaseRemovesFinalizer)

FairSpec == Spec /\ Fairness

-----------------------------------------------------------------------------
(* Properties *)

(* Nothing is left for the feedback controller to do, or to see. *)
Quiet == pc = "idle" /\ ~queued /\ cache = cr

Ours == cr.exists /\ cr.labelled

(* Only the deletion of a ComputeInstance is reported. *)
Copied(o) == o.kind = "instance" \/ ~o.deleting

(***************************************************************************)
(* "Sync CR state to the fulfillment service record": whenever the         *)
(* controller has come to rest, the record tells the phase of the          *)
(* resource, and of a restart that is in progress, whatever was stale,     *)
(* failed or crashed on the way.                                           *)
(***************************************************************************)
PhaseReported ==
  Quiet /\ Ours /\ Copied(cr)
    => /\ record.state = StateOf(cr.phase, record.state)
       /\ cr.kind = "instance" /\ cr.restarting => record.restarting

(***************************************************************************)
(* "Finalizer is removed first so the CR is gone before the fulfillment    *)
(* controller checks": when the signal is sent the resource is gone, so    *)
(* that the record can be archived.                                        *)
(***************************************************************************)
SignalAfterRemoval == pc = "signal" => ~cr.exists

(***************************************************************************)
(* Step 6 after step 5: a ComputeInstance does not disappear before its    *)
(* record tells the last phase and restart condition that were stored for  *)
(* it - DELETING, if phase Deleting was stored -, whatever the other       *)
(* controller and the users write between the fetch of the record, its     *)
(* update and the removal of the finalizer.                                *)
(***************************************************************************)
LastPhaseReported ==
  [][ Ours /\ "feedback" \in cr.fins /\ ~cr'.exists
        => /\ record.state = StateOf(cr.phase, record.state)
           /\ cr.restarting => record.restarting ]_vars

(***************************************************************************)
(* A deleted resource that the controller of it has let go of is let go of *)
(* here as well: whenever the feedback controller has come to rest it      *)
(* holds none back, with or without a label, whatever was stale, failed or *)
(* crashed on the way.                                                     *)
(***************************************************************************)
NotHeldBack == Quiet /\ cr.exists /\ cr.deleting => "base" \in cr.fins

(***************************************************************************)
(* The feedback finalizer does not hold a deleted resource for ever, also  *)
(* not one that has lost its label.                                        *)
(***************************************************************************)
DeletionCompletes == cr.deleting ~> ~cr.exists

-----------------------------------------------------------------------------
(* Why they hold: the inductive invariants of the proofs *)

(* The copy is the stored version until somebody else writes. *)
FreshCopy == fresh /\ pc # "signal" => object = cr

(* Each step is reached with the copy it is meant for. *)
CopyFits ==
  /\ pc # "idle" => object.exists
  /\ pc = "unlabelled" => ~object.labelled
  /\ pc = "finalizer" => object.kind = "instance" /\ ~object.deleting
  /\ pc = "remove" => LastFinalizer(object)

(* A record tells what is to be told of a resource. *)
Tells(r, o) ==
  Copied(o) => /\ r.state = StateOf(o.phase, r.state)
               /\ o.kind = "instance" /\ o.restarting => r.restarting

(* Nobody else writes the record between the fetch and the update. *)
RecordFits ==
  /\ pc \in {"finalizer", "save"} => before = record /\ Tells(ci, object)
  /\ pc \in {"remove", "signal"} => Tells(record, object)

(* Unless the key is queued again the reconcile works on what is cached, and
   has reported it when it is over. *)
NothingMissed ==
  ~queued =>
    /\ pc # "idle" => /\ object.kind = cache.kind
                      /\ object.labelled = cache.labelled
                      /\ object.deleting = cache.deleting
                      /\ object.phase = cache.phase
                      /\ object.restarting = cache.restarting
    /\ pc = "idle" /\ cache.exists /\ cache.labelled => Tells(record, cache)

(* Only this controller holds the resource back. *)
HeldBack(o) == o.exists /\ o.deleting /\ "base" \notin o.fins

(* What exists although it is deleted is held by somebody. *)
FinalizersFit ==
  \A o \in {cr, cache, object} :
    /\ "feedback" \in o.fins => o.kind = "instance"
    /\ o.exists /\ o.deleting => o.fins # {}

(* The reconcile that sees it let go of by the others lets go of it, or is
   repeated; and what is gone stays so. *)
LetGo ==
  ~queued /\ HeldBack(cache) =>
    /\ pc = "idle" => ~cr.exists
    /\ pc # "idle" => object = cache

FeedbackInv == FreshCopy /\ CopyFits /\ RecordFits /\ NothingMissed

=============================================================================
