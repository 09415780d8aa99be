--------------------------- MODULE ComputeInstance ---------------------------
(***************************************************************************)
(* The life of one ComputeInstance resource under the controller of        *)
(* internal/controller/computeinstance_controller.go with the AAP          *)
(* provider of internal/provisioning/aap_provider.go: finalizer, tenant    *)
(* gate, provisioning job, deprovisioning job, release of the resource.    *)
(*                                                                         *)
(* The controller reads the resource from an informer cache that may lag   *)
(* behind the API server, works on a local copy while the others go on     *)
(* writing, talks to AAP in between, and only then stores the status.      *)
(* Every exchange with the API server or with AAP is a step of its own, so *)
(* that users, playbooks, the feedback controller, AAP and a crash can get *)
(* between any two of them.                                                *)
(*                                                                         *)
(* Covered: Reconcile, handleUpdate, handleProvisioning, handleDelete,     *)
(* handleDeprovisioning, updateStatusWithRetry, the AAP provider.          *)
(* Left out: status conditions, messages, the VM lookup and the restart    *)
(* request (they do not influence the jobs, except that their errors end   *)
(* handleUpdate early, see HandleUpdateFails), and the EDA provider.       *)
(***************************************************************************)
EXTENDS JobHistory

CONSTANTS
  MaxSpec,              \* bound: the user edits the spec MaxSpec - 1 times
  MaxLaunches,          \* bound: jobs AAP accepts to launch
  MaxErrors,            \* bound: requests that fail for a transient reason
  ManagementStates,     \* values the management-state annotation takes
  ProvisionOutcomes,    \* ways in which a provision job ends
  DeprovisionOutcomes,  \* ways in which a deprovision job ends
  Faults                \* what else may happen, a subset of FaultKinds

(***************************************************************************)
(* stale_read  a reconcile starts before the informer cache has seen the   *)
(*             controller's own last write                                 *)
(* crash       the operator restarts at any moment                         *)
(* lost_reply  AAP launches a job but the reply never arrives              *)
(* same_second two jobs are recorded in the same second                    *)
(* purge       AAP forgets a finished job                                  *)
(* straggler   tasks of a cancelled provision job still run to completion  *)
(* tenant_fails a Ready tenant stops being Ready                           *)
(***************************************************************************)
FaultKinds == {"stale_read", "crash", "lost_reply", "same_second", "purge",
               "straggler", "tenant_fails"}

AAPActive == {"pending", "waiting", "running", "new"}

AAPFinal == {"successful", "failed", "error", "canceled"}

ASSUME BoundsAssumption ==
  /\ MaxSpec \in Nat \ {0}
  /\ MaxLaunches \in Nat
  /\ MaxErrors \in Nat

ASSUME EnvironmentAssumption ==
  /\ ManagementStates \subseteq {"managed", "manual", "unmanaged"}
  /\ "managed" \in ManagementStates
  /\ ProvisionOutcomes \subseteq AAPFinal
  /\ DeprovisionOutcomes \subseteq AAPFinal
  /\ Faults \subseteq FaultKinds

VARIABLES
  cr,       \* the resource as the API server stores it
  cache,    \* the resource as the informer cache of the operator holds it
  lag,      \* writes the cache has not seen: "none", "foreign" only, or "own"
  queued,   \* the work queue holds the key of the resource
  pc,       \* step of the reconcile under way, "idle" between reconciles
  inst,     \* the local copy the reconcile works on
  old,      \* the status of the local copy when it was read
  fresh,    \* the local copy carries the current resourceVersion
  reply,    \* provision job state read before cancelling the job
  aap,      \* the jobs AAP launched, in the order of their IDs
  infra,    \* the virtual machine of the resource exists
  tenant,   \* the Tenant object: "absent", "pending" or "ready"
  errs      \* transient errors so far

apiVars  == <<cr, cache, lag>>
ctrlVars == <<queued, pc, inst, old, fresh, reply>>
aapVars  == <<aap, infra>>
vars     == <<cr, cache, lag, queued, pc, inst, old, fresh, reply, aap, infra,
              tenant, errs>>

-----------------------------------------------------------------------------
(* Types *)

Phases == {"None", "Starting", "Running", "Failed", "Deleting"}

Status == [phase : Phases, tenantRef : BOOLEAN, jobs : Seq(JobStatus)]

Object == [exists : BOOLEAN, deleting : BOOLEAN,
           fins : SUBSET {"base", "feedback", "aap"},
           spec : Nat, annot : Nat, mgmt : {"managed", "manual", "unmanaged"},
           status : Status]

AAPJob == [type : JobTypes, status : AAPActive \cup AAPFinal,
           cancel : BOOLEAN, purged : BOOLEAN, spec : Nat]

Steps == {"idle", "finalizer", "update", "provision", "deprovision", "cancel",
          "release", "save"}

NoStatus == [phase |-> "None", tenantRef |-> FALSE, jobs |-> << >>]

(* annot is 0 when the reconciled-config-version annotation is not set. *)
NewObject == [exists |-> TRUE, deleting |-> FALSE, fins |-> {}, spec |-> 1,
              annot |-> 0, mgmt |-> "managed", status |-> NoStatus]

Gone == [NewObject EXCEPT !.exists = FALSE]

(***************************************************************************)
(* The variables have the types of the code, the stored and the local job  *)
(* histories respect MaxJobHistory.                                        *)
(***************************************************************************)
TypeOK ==
  /\ cr \in Object /\ cache \in Object /\ inst \in Object
  /\ \A o \in {cr, cache, inst} : Len(o.status.jobs) <= MaxJobHistory
  /\ old \in Status
  /\ lag \in {"none", "foreign", "own"}
  /\ queued \in BOOLEAN /\ fresh \in BOOLEAN /\ infra \in BOOLEAN
  /\ pc \in Steps
  /\ reply \in JobStates
  /\ aap \in Seq(AAPJob)
  /\ tenant \in {"absent", "pending", "ready"}
  /\ errs \in Nat

Init ==
  /\ cr = NewObject /\ cache = NewObject /\ lag = "none"
  /\ queued = TRUE /\ pc = "idle"
  /\ inst = Gone /\ old = NoStatus /\ fresh = FALSE /\ reply = "Unknown"
  /\ aap = << >> /\ infra = FALSE
  /\ tenant = "absent" /\ errs = 0

-----------------------------------------------------------------------------
(* The API server *)

(* What a write by somebody else leaves of the reconcile's view. *)
ForeignWrite(new) ==
  /\ new # cr
  /\ cr' = new
  /\ lag' = IF lag = "own" THEN "own" ELSE "foreign"
  /\ fresh' = FALSE
  /\ UNCHANGED cache

(* A write of the controller itself; storing what is stored changes nothing. *)
OwnWrite(new) ==
  /\ cr' = new
  /\ lag' = IF new = cr THEN lag ELSE "own"
  /\ UNCHANGED cache

(* An object without finalizers is removed as soon as it is deleted. *)
Settle(o) == IF o.deleting /\ o.fins = {} THEN Gone ELSE o

(* The informer delivers the latest version and enqueues the key. *)
CacheSync ==
  /\ lag # "none"
  /\ cache' = cr /\ lag' = "none" /\ queued' = TRUE
  /\ UNCHANGED <<cr, pc, inst, old, fresh, reply, aapVars, tenant, errs>>

-----------------------------------------------------------------------------
(* Steps of a reconcile *)

(* The reconcile ends and forgets its local copy. *)
EndReconcile ==
  /\ pc' = "idle" /\ inst' = Gone /\ old' = NoStatus /\ fresh' = FALSE
  /\ reply' = "Unknown"

(* A request fails for a transient reason. *)
TransientError == errs < MaxErrors /\ errs' = errs + 1

(* Mutant: the phase is set only when there is a finalizer to work for. *)
InitialPhaseWithFinalizer(o) ==
  IF o.deleting /\ "base" \in o.fins THEN "Deleting" ELSE "Starting"

(* Both handlers begin with a phase of their own. *)
InitialPhase(o) == IF o.deleting THEN "Deleting" ELSE "Starting"

(* Where handleUpdate or handleDelete goes first. *)
FirstStep(o) ==
  CASE o.deleting /\ "base" \in o.fins    -> "deprovision"
    [] o.deleting /\ "base" \notin o.fins -> "save"
    [] ~o.deleting /\ "base" \in o.fins   -> "update"
    [] OTHER                              -> "finalizer"

(* Reconcile reads the resource from the cache and picks the handler. *)
Reconcile ==
  /\ pc = "idle" /\ queued
  /\ lag = "own" => "stale_read" \in Faults
  /\ queued' = FALSE
  /\ IF ~cache.exists \/ cache.mgmt = "unmanaged"
     THEN UNCHANGED <<pc, inst, old, fresh, reply>>
     ELSE /\ inst' = [cache EXCEPT !.status.phase = InitialPhase(cache)]
          /\ old' = cache.status
          /\ fresh' = (lag = "none")
          /\ pc' = FirstStep(cache)
          /\ UNCHANGED reply
  /\ UNCHANGED <<apiVars, aapVars, tenant, errs>>

(* handleUpdate adds the base finalizer and writes the resource. *)
AddFinalizer ==
  LET new == [cr EXCEPT !.fins = @ \cup {"base"}]
  IN  /\ pc = "finalizer" /\ fresh
      /\ OwnWrite(new)
      /\ inst' = [inst EXCEPT !.fins = new.fins]
      /\ pc' = "update"
      /\ UNCHANGED <<queued, old, fresh, reply, aapVars, tenant, errs>>

(* The write of a finalizer meets a conflict or another error. *)
FinalizerUpdateFails ==
  /\ pc \in {"finalizer", "release"}
  /\ IF fresh THEN TransientError ELSE UNCHANGED errs
  /\ pc' = "save" /\ queued' = TRUE
  /\ UNCHANGED <<apiVars, inst, old, fresh, reply, aapVars, tenant>>

(* Mutant: the reference to the tenant is not set. *)
CreateTenantWithoutReference ==
  /\ pc = "update"
  /\ ~inst.status.tenantRef \/ tenant = "absent"
  /\ tenant' = IF tenant = "absent" THEN "pending" ELSE tenant
  /\ queued' = (queued \/ tenant = "absent")
  /\ pc' = "save"
  /\ UNCHANGED <<apiVars, inst, old, fresh, reply, aapVars, errs>>

(* getTenant finds nothing: createOrUpdateTenant, then wait for its events. *)
CreateTenant ==
  /\ pc = "update"
  /\ ~inst.status.tenantRef \/ tenant = "absent"
  /\ tenant' = IF tenant = "absent" THEN "pending" ELSE tenant
  /\ queued' = (queued \/ tenant = "absent")
  /\ inst' = [inst EXCEPT !.status.tenantRef = TRUE]
  /\ pc' = "save"
  /\ UNCHANGED <<apiVars, old, fresh, reply, aapVars, errs>>

(* The playbook has reported that the spec is applied. *)
InSync(o) == o.spec = o.annot

(* Mutant: a resource in sync is done, whatever its provision job does. *)
NothingToProvisionInSync(o) == InSync(o)

(* In sync, and no provision job is left to be polled. *)
NothingToProvision(o) ==
  LET p == FindLatestJobByType(o.status.jobs, "provision")
  IN  InSync(o) /\ (p # 0 => IsTerminal(o.status.jobs[p].state))

(* The tenant is there; handleUpdate goes on only when it is Ready. *)
HandleUpdate ==
  /\ pc = "update"
  /\ inst.status.tenantRef /\ tenant # "absent"
  /\ \/ /\ tenant # "ready"
        /\ pc' = "save" /\ UNCHANGED inst
     \/ /\ tenant = "ready"
        /\ inst' = [inst EXCEPT !.status.phase =
                      IF InSync(inst) THEN "Running" ELSE "Starting"]
        /\ pc' = IF NothingToProvision(inst) THEN "save" ELSE "provision"
  /\ UNCHANGED <<apiVars, queued, old, fresh, reply, aapVars, tenant, errs>>

(* Reading the tenant or the VM, or restarting the VM, fails. *)
HandleUpdateFails ==
  /\ pc = "update"
  /\ TransientError
  /\ pc' = "save" /\ queued' = TRUE
  /\ UNCHANGED <<apiVars, inst, old, fresh, reply, aapVars, tenant>>

-----------------------------------------------------------------------------
(* Provider: AAP *)

(* Mutant: a canceled job falls into the case of the failed ones. *)
mapAAPStatusCanceledFails(status) ==
  CASE status = "successful"                      -> "Succeeded"
    [] status \in {"failed", "error", "canceled"} -> "Failed"
    [] status = "pending"                         -> "Pending"
    [] status = "waiting"                         -> "Waiting"
    [] status = "running"                         -> "Running"
    [] OTHER                                      -> "Unknown"

(* The state of the AAP API as the state the status records. *)
mapAAPStatusToJobState(status) ==
  CASE status = "successful"          -> "Succeeded"
    [] status \in {"failed", "error"} -> "Failed"
    [] status = "canceled"            -> "Canceled"
    [] status = "pending"             -> "Pending"
    [] status = "waiting"             -> "Waiting"
    [] status = "running"             -> "Running"
    [] OTHER                          -> "Unknown"

(* AAP answers 404 for an ID it does not know, or knows no longer; for the empty
   ID of a failed launch, too, which is an assumption: the client sends it as
   it is, and nothing in the code says what AAP makes of it. *)
Found(id) == id \in DOMAIN aap /\ ~aap[id].purged

JobState(id) == mapAAPStatusToJobState(aap[id].status)

(* AAP launches a job; the payload carries the spec of the local copy. *)
Launch(type) ==
  /\ Len(aap) < MaxLaunches
  /\ aap' = Append(aap, [type |-> type, status |-> "pending",
                         cancel |-> FALSE, purged |-> FALSE,
                         spec |-> inst.spec])

(* Ranks a job recorded now may have: that of the last record, or a later one. *)
Now(jobs) ==
  IF jobs = << >> THEN {1}
  ELSE LET t == jobs[Len(jobs)].ts
       IN  {t + 1} \cup (IF "same_second" \in Faults THEN {t} ELSE {})

(* Record in the local copy that a job was, or could not be, triggered. *)
RecordNewJob(jobs, id, type, state) ==
  \E now \in Now(jobs) :
    inst' = [inst EXCEPT !.status.jobs =
               appendJob(jobs, [id |-> id, type |-> type, state |-> state,
                                block |-> type = "deprovision", ts |-> now])]

(* The job list with the state of the job at position i replaced. *)
WithState(jobs, i, state) == updateJob(jobs, [jobs[i] EXCEPT !.state = state])

(* Mutant: the handler returns without RequeueAfter. *)
SaveWithoutRequeue == pc' = "save" /\ UNCHANGED queued

(* The outcome is kept in the local copy; the key is requeued. *)
RequeueAndSave == pc' = "save" /\ queued' = TRUE

-----------------------------------------------------------------------------
(* handleProvisioning *)

(* A manual resource is left alone. *)
SkipProvisioning ==
  /\ pc = "provision" /\ inst.mgmt = "manual"
  /\ pc' = "save"
  /\ UNCHANGED <<apiVars, queued, inst, old, fresh, reply, aapVars, tenant, errs>>

ProvisionTriggerable ==
  /\ pc = "provision" /\ inst.mgmt # "manual"
  /\ NeedsTrigger(inst.status.jobs, "provision")

(* TriggerProvision succeeds and the job is recorded as Pending. *)
TriggerProvision ==
  /\ ProvisionTriggerable
  /\ Launch("provision")
  /\ RecordNewJob(inst.status.jobs, Len(aap) + 1, "provision", "Pending")
  /\ RequeueAndSave
  /\ UNCHANGED <<apiVars, old, fresh, reply, infra, tenant, errs>>

(* TriggerProvision fails: a Failed job without ID is recorded.  With
   lost_reply the job runs nevertheless. *)
TriggerProvisionFails ==
  /\ ProvisionTriggerable
  /\ TransientError
  /\ \/ UNCHANGED aap
     \/ "lost_reply" \in Faults /\ Launch("provision")
  /\ RecordNewJob(inst.status.jobs, NoJobID, "provision", "Failed")
  /\ RequeueAndSave
  /\ UNCHANGED <<apiVars, old, fresh, reply, infra, tenant>>

(* GetProvisionStatus: record the state; a failure ends in phase Failed. *)
PollProvision ==
  LET jobs == inst.status.jobs
      p    == FindLatestJobByType(jobs, "provision")
  IN  /\ pc = "provision" /\ inst.mgmt # "manual"
      /\ ~NeedsTrigger(jobs, "provision")
      /\ Found(jobs[p].id)
      /\ LET state == JobState(jobs[p].id)
         IN  /\ inst' = [inst EXCEPT
                  !.status.jobs = WithState(jobs, p, state),
                  !.status.phase = IF state \in {"Failed", "Canceled"}
                                   THEN "Failed" ELSE @]
             /\ queued' = (queued \/ ~IsTerminal(state))
      /\ pc' = "save"
      /\ UNCHANGED <<apiVars, old, fresh, reply, aapVars, tenant, errs>>

(* GetProvisionStatus fails, for good when AAP has purged the job. *)
PollProvisionFails ==
  LET jobs == inst.status.jobs
      p    == FindLatestJobByType(jobs, "provision")
  IN  /\ pc = "provision" /\ inst.mgmt # "manual"
      /\ ~NeedsTrigger(jobs, "provision")
      /\ IF Found(jobs[p].id) THEN TransientError ELSE UNCHANGED errs
      /\ RequeueAndSave
      /\ UNCHANGED <<apiVars, inst, old, fresh, reply, aapVars, tenant>>

-----------------------------------------------------------------------------
(* handleDeprovisioning *)

(* A manual resource is released without a deprovision job. *)
SkipDeprovisioning ==
  /\ pc = "deprovision" /\ inst.mgmt = "manual"
  /\ pc' = "release"
  /\ UNCHANGED <<apiVars, queued, inst, old, fresh, reply, aapVars, tenant, errs>>

DeprovisionTriggerable ==
  /\ pc = "deprovision" /\ inst.mgmt # "manual"
  /\ NeedsTrigger(inst.status.jobs, "deprovision")

(* Mutant: the request to cancel counts as the end of the job. *)
isReadyOnceCancelled ==
  LET jobs == inst.status.jobs
      p    == FindLatestJobByType(jobs, "provision")
  IN  p # 0 /\ Found(jobs[p].id)
        => IsTerminal(JobState(jobs[p].id)) \/ aap[jobs[p].id].cancel

(* No provision job, one AAP does not know, or one that has ended. *)
isReadyForDeprovision ==
  LET jobs == inst.status.jobs
      p    == FindLatestJobByType(jobs, "provision")
  IN  p # 0 /\ Found(jobs[p].id) => IsTerminal(JobState(jobs[p].id))

(* Jobs after recording the state isReadyForDeprovision read, if it read one. *)
ProvisionJobRecorded ==
  LET jobs == inst.status.jobs
      p    == FindLatestJobByType(jobs, "provision")
  IN  IF p # 0 /\ Found(jobs[p].id)
      THEN WithState(jobs, p, JobState(jobs[p].id)) ELSE jobs

(* TriggerDeprovision launches the job, which is recorded as Pending. *)
TriggerDeprovision ==
  /\ DeprovisionTriggerable
  /\ isReadyForDeprovision
  /\ Launch("deprovision")
  /\ RecordNewJob(ProvisionJobRecorded, Len(aap) + 1, "deprovision", "Pending")
  /\ RequeueAndSave
  /\ UNCHANGED <<apiVars, old, fresh, reply, infra, tenant, errs>>

(* TriggerDeprovision fails, in GetJob or at launch: nothing is recorded. *)
TriggerDeprovisionFails ==
  /\ DeprovisionTriggerable
  /\ TransientError
  /\ \/ UNCHANGED aap
     \/ /\ "lost_reply" \in Faults
        /\ isReadyForDeprovision
        /\ Launch("deprovision")
  /\ RequeueAndSave
  /\ UNCHANGED <<apiVars, inst, old, fresh, reply, infra, tenant>>

(* isReadyForDeprovision read a provision job that has not ended. *)
ProvisionStillActive ==
  LET jobs == inst.status.jobs
      p    == FindLatestJobByType(jobs, "provision")
  IN  /\ DeprovisionTriggerable
      /\ ~isReadyForDeprovision
      /\ reply' = JobState(jobs[p].id)
      /\ pc' = "cancel"
      /\ UNCHANGED <<apiVars, queued, inst, old, fresh, aapVars, tenant, errs>>

(* cancelProvisionJob: AAP takes note, or answers 405 when the job has ended
   since.  Either way the controller records what it read and waits. *)
CancelProvisionJob ==
  LET jobs == inst.status.jobs
      p    == FindLatestJobByType(jobs, "provision")
      j    == jobs[p].id
  IN  /\ pc = "cancel"
      /\ Found(j)
      /\ aap' = IF aap[j].status \in AAPActive
                THEN [aap EXCEPT ![j].cancel = TRUE] ELSE aap
      /\ inst' = [inst EXCEPT !.status.jobs = WithState(jobs, p, reply)]
      /\ RequeueAndSave
      /\ UNCHANGED <<apiVars, old, fresh, reply, infra, tenant, errs>>

(* The cancel request fails: nothing is recorded. *)
CancelProvisionJobFails ==
  LET jobs == inst.status.jobs
      p    == FindLatestJobByType(jobs, "provision")
  IN  /\ pc = "cancel"
      /\ IF Found(jobs[p].id) THEN TransientError ELSE UNCHANGED errs
      /\ RequeueAndSave
      /\ UNCHANGED <<apiVars, inst, old, fresh, reply, aapVars, tenant>>

(* Mutant: the policy stored with the job is not looked at. *)
AllowsReleaseAtAnyEnd(job, state) == IsTerminal(state)

(* The outcome of a deprovision job that lets handleDelete go on: success,
   or any end if the job was recorded as not blocking the deletion. *)
AllowsRelease(job, state) ==
  IsSuccessful(state) \/ (IsTerminal(state) /\ ~job.block)

(* GetDeprovisionStatus: release the resource, or come back later. *)
PollDeprovision ==
  LET jobs == inst.status.jobs
      d    == FindLatestJobByType(jobs, "deprovision")
  IN  /\ pc = "deprovision" /\ inst.mgmt # "manual"
      /\ ~NeedsTrigger(jobs, "deprovision")
      /\ Found(jobs[d].id)
      /\ LET state == JobState(jobs[d].id)
             done  == AllowsRelease(jobs[d], state)
         IN  /\ inst' = [inst EXCEPT !.status.jobs = WithState(jobs, d, state)]
             /\ pc' = IF done THEN "release" ELSE "save"
             /\ queued' = (queued \/ ~done)
      /\ UNCHANGED <<apiVars, old, fresh, reply, aapVars, tenant, errs>>

(* Mutant: a purged deprovision job is taken to have done its work. *)
PurgedDeprovisionReleases ==
  LET jobs == inst.status.jobs
      d    == FindLatestJobByType(jobs, "deprovision")
  IN  /\ pc = "deprovision" /\ inst.mgmt # "manual"
      /\ ~NeedsTrigger(jobs, "deprovision")
      /\ IF Found(jobs[d].id) THEN TransientError ELSE UNCHANGED errs
      /\ pc' = IF Found(jobs[d].id) THEN "save" ELSE "release"
      /\ queued' = TRUE
      /\ UNCHANGED <<apiVars, inst, old, fresh, reply, aapVars, tenant>>

(* GetDeprovisionStatus fails, for good when AAP has purged the job. *)
PollDeprovisionFails ==
  LET jobs == inst.status.jobs
      d    == FindLatestJobByType(jobs, "deprovision")
  IN  /\ pc = "deprovision" /\ inst.mgmt # "manual"
      /\ ~NeedsTrigger(jobs, "deprovision")
      /\ IF Found(jobs[d].id) THEN TransientError ELSE UNCHANGED errs
      /\ RequeueAndSave
      /\ UNCHANGED <<apiVars, inst, old, fresh, reply, aapVars, tenant>>

(* handleDelete removes the base finalizer and writes the resource.  The
   answer of the API server replaces the local status by the stored one. *)
RemoveFinalizer ==
  LET new == [cr EXCEPT !.fins = @ \ {"base"}]
  IN  /\ pc = "release" /\ fresh
      /\ OwnWrite(Settle(new))
      /\ inst' = new
      /\ pc' = "save"
      /\ UNCHANGED <<queued, old, fresh, reply, aapVars, tenant, errs>>

-----------------------------------------------------------------------------
(* updateStatusWithRetry *)

(* The status did not change: nothing to store. *)
NothingToSave ==
  /\ pc = "save" /\ inst.status = old
  /\ EndReconcile
  /\ UNCHANGED <<apiVars, queued, aapVars, tenant, errs>>

(* The status is stored when it has changed.  One that looks unchanged here
   may differ in a condition or a message, and is stored as well, but never
   after the release, when the local status is what was stored. *)
StatusToSave == pc = "save" /\ (inst.status # old \/ "base" \in inst.fins)

(* An attempt succeeds when the cache it reads from is up to date; the whole
   stored status is replaced by the local one. *)
SaveStatus ==
  /\ StatusToSave
  /\ lag = "none" /\ cr.exists
  /\ OwnWrite([cr EXCEPT !.status = inst.status])
  /\ EndReconcile
  /\ UNCHANGED <<queued, aapVars, tenant, errs>>

(* The resource is gone; or every attempt reads a version that is no longer
   the current one and meets a conflict, or one meets another error, which is
   not tried again: either counts as an error.  The key is requeued. *)
SaveStatusFails ==
  /\ StatusToSave
  /\ \/ ~cr.exists /\ UNCHANGED errs
     \/ TransientError
  /\ queued' = TRUE
  /\ EndReconcile
  /\ UNCHANGED <<apiVars, aapVars, tenant>>

(* The operator restarts: its memory is lost, its cache is listed anew. *)
Crash ==
  /\ "crash" \in Faults
  /\ pc # "idle"
  /\ EndReconcile
  /\ cache' = cr /\ lag' = "none" /\ queued' = TRUE
  /\ UNCHANGED <<cr, aapVars, tenant, errs>>

-----------------------------------------------------------------------------
(* Users, the tenant controller and the feedback controller *)

UserEditsSpec ==
  /\ cr.exists /\ cr.spec < MaxSpec
  /\ ForeignWrite([cr EXCEPT !.spec = @ + 1])
  /\ UNCHANGED <<queued, pc, inst, old, reply, aapVars, tenant, errs>>

UserSetsManagementState ==
  /\ cr.exists
  /\ \E m \in ManagementStates : ForeignWrite([cr EXCEPT !.mgmt = m])
  /\ UNCHANGED <<queued, pc, inst, old, reply, aapVars, tenant, errs>>

UserDeletes ==
  /\ cr.exists /\ ~cr.deleting
  /\ ForeignWrite(Settle([cr EXCEPT !.deleting = TRUE]))
  /\ UNCHANGED <<queued, pc, inst, old, reply, aapVars, tenant, errs>>

(* The feedback controller adds its finalizer to a live resource... *)
FeedbackAddsFinalizer ==
  /\ cr.exists /\ ~cr.deleting
  /\ ForeignWrite([cr EXCEPT !.fins = @ \cup {"feedback"}])
  /\ UNCHANGED <<queued, pc, inst, old, reply, aapVars, tenant, errs>>

(* ... and removes it when it is the last one of a deleted resource. *)
FeedbackRemovesFinalizer ==
  /\ cr.exists /\ cr.deleting /\ cr.fins = {"feedback"}
  /\ ForeignWrite(Gone)
  /\ UNCHANGED <<queued, pc, inst, old, reply, aapVars, tenant, errs>>

(* The tenant controller reports the tenant Ready, or not Ready any more;
   the event enqueues the ComputeInstance that owns the tenant. *)
TenantChanges ==
  /\ \/ tenant = "pending" /\ tenant' = "ready"
     \/ "tenant_fails" \in Faults /\ tenant = "ready" /\ tenant' = "pending"
  /\ queued' = TRUE
  /\ UNCHANGED <<apiVars, pc, inst, old, fresh, reply, aapVars, errs>>

-----------------------------------------------------------------------------
(* AAP and the playbooks it runs *)

Active(j) == aap[j].status \in AAPActive

JobStarts(j) ==
  /\ aap[j].status = "pending"
  /\ aap' = [aap EXCEPT ![j].status = "running"]
  /\ UNCHANGED <<apiVars, ctrlVars, infra, tenant, errs>>

(* The provision playbook creates the virtual machine... *)
PlaybookCreates(j) ==
  /\ aap[j].type = "provision"
  /\ \/ aap[j].status = "running"
     \/ aap[j].status = "canceled" /\ "straggler" \in Faults
  /\ ~infra /\ infra' = TRUE
  /\ UNCHANGED <<apiVars, ctrlVars, aap, tenant, errs>>

(* ... and notes in an annotation which version of the spec it applied. *)
PlaybookAnnotates(j) ==
  /\ aap[j].type = "provision" /\ aap[j].status = "running"
  /\ infra /\ cr.exists
  /\ ForeignWrite([cr EXCEPT !.annot = aap[j].spec])
  /\ UNCHANGED <<queued, pc, inst, old, reply, aapVars, tenant, errs>>

(* A successful job has done its work: the virtual machine is there and the
   annotation set, or the virtual machine is gone.  Any other outcome leaves
   things as they are. *)
JobEnds(j) ==
  /\ \/ /\ aap[j].type = "provision" /\ aap[j].status = "running"
        /\ \E s \in ProvisionOutcomes :
             /\ s = "successful"
                  => infra /\ (cr.exists => cr.annot = aap[j].spec)
             /\ aap' = [aap EXCEPT ![j].status = s]
        /\ UNCHANGED infra
     \/ /\ aap[j].type = "deprovision" /\ aap[j].status = "running"
        /\ \E s \in DeprovisionOutcomes :
             /\ aap' = [aap EXCEPT ![j].status = s]
             /\ infra' = (infra /\ s # "successful")
     \/ /\ Active(j) /\ aap[j].cancel
        /\ aap' = [aap EXCEPT ![j].status = "canceled"]
        /\ UNCHANGED infra
  /\ UNCHANGED <<apiVars, ctrlVars, tenant, errs>>

JobPurged(j) ==
  /\ "purge" \in Faults
  /\ ~Active(j) /\ ~aap[j].purged
  /\ aap' = [aap EXCEPT ![j].purged = TRUE]
  /\ UNCHANGED <<apiVars, ctrlVars, infra, tenant, errs>>

-----------------------------------------------------------------------------
ControllerStep ==
  \/ Reconcile \/ AddFinalizer \/ FinalizerUpdateFails
  \/ CreateTenant \/ HandleUpdate \/ HandleUpdateFails
  \/ SkipProvisioning \/ TriggerProvision \/ TriggerProvisionFails
  \/ PollProvision \/ PollProvisionFails
  \/ SkipDeprovisioning \/ TriggerDeprovision \/ TriggerDeprovisionFails
  \/ ProvisionStillActive \/ CancelProvisionJob \/ CancelProvisionJobFails
  \/ PollDeprovision \/ PollDeprovisionFails \/ RemoveFinalizer
  \/ NothingToSave \/ SaveStatus \/ SaveStatusFails

UserStep ==
  \/ UserEditsSpec \/ UserSetsManagementState \/ UserDeletes

AAPStep(j) ==
  \/ JobStarts(j) \/ PlaybookCreates(j) \/ PlaybookAnnotates(j)
  \/ JobEnds(j) \/ JobPurged(j)

Next ==
  \/ ControllerStep
  \/ CacheSync
  \/ Crash
  \/ UserStep
  \/ FeedbackAddsFinalizer
  \/ FeedbackRemovesFinalizer
  \/ TenantChanges
  \/ \E j \in DOMAIN aap : AAPStep(j)

Spec == Init /\ [][Next]_vars

-----------------------------------------------------------------------------
(* Safety *)

(***************************************************************************)
(* handleDelete gives the resource up only after a deprovision job has     *)
(* succeeded, or on behalf of a manual resource, whatever the cache, the   *)
(* API server and AAP do to the controller.                                *)
(***************************************************************************)
Deprovisioned ==
  \E j \in DOMAIN aap :
    aap[j].type = "deprovision" /\ aap[j].status = "successful"

ReleaseAfterDeprovision ==
  [][ "base" \in cr.fins /\ "base" \notin cr'.fins
        => Deprovisioned \/ inst.mgmt = "manual" ]_vars

(***************************************************************************)
(* A job that status.jobs reports as ended has ended in AAP, and in that   *)
(* way: neither handler invents an outcome, and no stale overwrite of the  *)
(* status brings a wrong one back.                                         *)
(***************************************************************************)
RecordsAreTrue ==
  \A i \in DOMAIN cr.status.jobs :
    LET job == cr.status.jobs[i]
    IN  job.id # NoJobID /\ IsTerminal(job.state)
          => /\ job.id \in DOMAIN aap
             /\ aap[job.id].type = job.type
             /\ aap[job.id].status \in
                  CASE job.state = "Succeeded" -> {"successful"}
                    [] job.state = "Failed"    -> {"failed", "error"}
                    [] job.state = "Canceled"  -> {"canceled"}

(***************************************************************************)
(* Why the two properties above hold.  A recorded job belongs to a job of  *)
(* its type in AAP, agrees with it when it is recorded as ended, and       *)
(* blocks the deletion if it is a deprovision job - in the stored          *)
(* resource, in the cache and in the local copy alike, since each of them  *)
(* may overwrite the others.  The release of the resource has a reason,    *)
(* and the request to cancel a provision job has one that had not ended.   *)
(***************************************************************************)
RecordIsTrue(job, jobsInAAP) ==
  /\ job.type = "deprovision" => job.block
  /\ job.id # NoJobID =>
       /\ job.id \in DOMAIN jobsInAAP
       /\ jobsInAAP[job.id].type = job.type
       /\ IsTerminal(job.state) =>
            mapAAPStatusToJobState(jobsInAAP[job.id].status) = job.state

AllTrue(jobs, jobsInAAP) ==
  \A i \in DOMAIN jobs : RecordIsTrue(jobs[i], jobsInAAP)

ReleaseJustified ==
  pc = "release" => Deprovisioned \/ inst.mgmt = "manual"

CancelHasTarget ==
  pc = "cancel" => /\ FindLatestJobByType(inst.status.jobs, "provision") # 0
                   /\ ~IsTerminal(reply)

IInv ==
  /\ TypeOK
  /\ AllTrue(cr.status.jobs, aap)
  /\ AllTrue(cache.status.jobs, aap)
  /\ AllTrue(inst.status.jobs, aap)
  /\ ReleaseJustified
  /\ CancelHasTarget

(***************************************************************************)
(* AAP never works on a resource with two jobs at once: a provision job is *)
(* launched once, and a deprovision job only when it has ended.            *)
(***************************************************************************)
AtMostOneActiveJob ==
  \A j, k \in DOMAIN aap : Active(j) /\ Active(k) => j = k

(***************************************************************************)
(* A resource that is gone has left neither a virtual machine behind nor a *)
(* provision job that could still create one.                              *)
(***************************************************************************)
NoOrphans ==
  ~cr.exists => /\ ~infra
                /\ \A j \in DOMAIN aap : aap[j].type = "provision" => ~Active(j)

(***************************************************************************)
(* The status of a resource that is being deleted goes on saying so: no    *)
(* reconcile puts the phase of handleUpdate back.                          *)
(***************************************************************************)
DeletingIsFinal ==
  [][ cr.status.phase = "Deleting" /\ cr'.exists
        => cr'.status.phase = "Deleting" ]_vars

-----------------------------------------------------------------------------
(* No wake-up is lost *)

(* The controller waits for events, and there are none on their way. *)
Resting == pc = "idle" /\ ~queued /\ lag = "none"

(* The provision job has ended, and no other one is called for. *)
Provisioned(o) ==
  LET jobs == o.status.jobs
      p    == FindLatestJobByType(jobs, "provision")
  IN  /\ p # 0 => IsTerminal(jobs[p].state)
      /\ InSync(o) \/ ~NeedsTrigger(jobs, "provision")

(* There is nothing the controller could do for the resource: it is not its
   business, it is released, or it waits for the tenant, a person or nobody. *)
NothingToDo(o) ==
  \/ ~o.exists \/ o.mgmt = "unmanaged"
  \/ o.deleting /\ "base" \notin o.fins
  \/ /\ ~o.deleting /\ "base" \in o.fins
     /\ tenant # "ready" \/ o.mgmt = "manual" \/ Provisioned(o)

(***************************************************************************)
(* Every return without a requeue is covered by an event to come: a        *)
(* controller that waits has finished the work on the resource as it is    *)
(* stored, whatever conflicts, restarts, lost replies and stale reads      *)
(* there were.  A job that still runs, a deletion under way, a finalizer   *)
(* or a job not yet asked for are never left to lie.                       *)
(***************************************************************************)
RestsWhenDone == Resting => NothingToDo(cr)

-----------------------------------------------------------------------------
(* Liveness *)

(***************************************************************************)
(* The work queue serves its keys, requests return, the informer catches   *)
(* up, AAP runs its jobs and the other controllers do their part; nothing  *)
(* is assumed of the user.                                                 *)
(***************************************************************************)
Fairness ==
  /\ WF_vars(ControllerStep)
  /\ WF_vars(CacheSync)
  /\ WF_vars(FeedbackRemovesFinalizer)
  /\ WF_vars(TenantChanges)
  /\ \A j \in 1..MaxLaunches :
       /\ WF_vars(j \in DOMAIN aap /\ JobStarts(j))
       /\ WF_vars(j \in DOMAIN aap /\ PlaybookCreates(j))
       /\ WF_vars(j \in DOMAIN aap /\ PlaybookAnnotates(j))
       /\ WF_vars(j \in DOMAIN aap /\ JobEnds(j))

FairSpec == Spec /\ Fairness

(***************************************************************************)
(* A deleted resource eventually disappears: handleDelete always asks for  *)
(* another turn or is woken by a write until the deprovision job is done.  *)
(***************************************************************************)
DeletionCompletes == cr.deleting ~> ~cr.exists

(***************************************************************************)
(* The end of a provision job that the status knows of is eventually       *)
(* recorded there, even when the annotation of the playbook comes first    *)
(* ("continue polling").  (A launch whose record was never stored is       *)
(* followed by another one, and its end is nobody's business.)             *)
(***************************************************************************)
OutcomeRecorded ==
  \A j \in 1..MaxLaunches :
    (/\ j \in DOMAIN aap /\ aap[j].type = "provision" /\ ~Active(j)
     /\ \E i \in DOMAIN cr.status.jobs : cr.status.jobs[i].id = j)
      ~> \/ ~cr.exists
         \/ \E i \in DOMAIN cr.status.jobs :
              cr.status.jobs[i].id = j /\ IsTerminal(cr.status.jobs[i].state)

(***************************************************************************)
(* A resource that is not deleted gets its provision job: handleUpdate     *)
(* waits for the tenant without asking for another turn, and no wake-up is *)
(* lost.                                                                   *)
(***************************************************************************)
ProvisioningStarts ==
  <>(aap # << >> \/ cr.deleting \/ ~cr.exists)

=============================================================================
