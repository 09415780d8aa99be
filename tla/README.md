# CloudKit operator: a TLA+ development

The operator turns Kubernetes resources (ComputeInstance, ClusterOrder,
HostPool, Tenant) into infrastructure by launching Ansible jobs, in the Ansible
Automation Platform (AAP) or through webhooks of Event-Driven Ansible (EDA), and
reports progress to a fulfillment service. These modules model the controllers:
the life of a ComputeInstance under either provider, with its restarts, the life
of a Tenant, of a ClusterOrder and of a HostPool, and the reports on all of them;
TLC checks them on small instances and TLAPS proves the safety theorems for every
instance.

Paths below are relative to the repository; `internal/controller/` is
abbreviated to `ctl/`.

## 1. The system

All controllers run in one process. Each has a work queue that holds a key at
most once and hands it to one worker at a time, and an informer cache that
follows the API server with a delay. A reconcile reads its resource from the
cache, works on that copy, and writes it back under optimistic concurrency.

| Component | State | Operations | Correct when |
|---|---|---|---|
| Job history (`api/v1alpha1/job_types.go`, helpers of `ctl/computeinstance_controller.go`) | `status.jobs`, a list bounded by MaxJobHistory | find the latest of a type, find by ID, update, append and trim | the latest job is the one recorded last; nothing outgrows the bound |
| ComputeInstance controller (`ctl/computeinstance_controller.go`) | finalizers, phase, tenant reference, job list, config versions, conditions | handleUpdate, handleProvisioning, handleDelete, handleDeprovisioning, updateStatusWithRetry | one job at a time; released only when deprovisioned; no orphans; deletion ends; the desired spec is applied |
| AAP provider and client (`provisioning/aap_provider.go`, `aap/client.go`) | none of its own (template cache) | trigger, poll, cancel; map AAP's job state | deprovision waits for the provision job; outcomes are told truly |
| EDA provider and webhook client (`provisioning/eda_provider.go`, `ctl/webhook_common.go`) | inflight requests with their times, an ID counter in the job list | create and delete webhooks, wait for the AAP finalizer | a webhook is not repeated within the minimum interval and is sent in the end; listed jobs have distinct IDs; a resource is released only when no playbook holds it |
| Restart (`ctl/computeinstance_restart.go`) | `restartRequestedAt`, `lastRestartedAt`, a condition | delete the VMI, wait for its successor | every request leads to a later recreation, and costs no more VMIs than it has to; the note of it is true and not forgotten |
| Feedback controllers (`ctl/*feedback_controller.go`) | the record in the fulfillment service, the feedback finalizer | fetch, update, signal, remove the finalizer | the record converges to the resource; that of a ComputeInstance tells its last stored phase before the resource goes, and the service is told when it has gone |
| Tenant controller (`ctl/tenant_*.go`) | namespace, network, status | create or adopt, delete | Ready only with both; a deleted tenant leaves neither |
| ClusterOrder controller (`ctl/clusterorder_*.go`) | namespace, service account, role binding, finalizer, phase | create webhook, watch the hosted cluster, delete webhook | the finalizer goes after namespace and hosted cluster; Ready is true; the last spec is asked for; clean-up is asked for |
| HostPool controller (`ctl/hostpool_*.go`) | namespace, phase, host sets, finalizer | create and delete webhooks | the finalizer goes after the delete webhook and the namespace; Ready is true |
| main, provider factory, names, generated clients | configuration | wiring at start | no behaviour over time |

How they interact: a user, the playbooks, the feedback controller and the
operator's own controllers all write the same resource; a Tenant's events wake
the ComputeInstance that owns it; the provider reads and the controller writes
the job list; the playbook that a job runs writes the
reconciled-config-version annotation, which decides the phase.

What is hard: the cache lags behind the controller's own writes; a job is
launched in AAP before it is recorded in the status, with a crash, a conflict or
a lost reply in between; the state of a provision job changes between the read
and the request to cancel it; the annotation and the end of the job arrive in
either order; handlers that return without asking for another turn rely on an
event; times are compared in whole seconds; two controllers hold one resource
with a finalizer each; a webhook is refused for a while after the last one, for
a successor of the same name too, and what was sent is forgotten by a restart.
`PROJECT.json` lists these hazards at their lines.

## 2. Modules

| Module | What it is |
|---|---|
| `JobHistory` | the job list and its helpers, pure operators |
| `ComputeInstance` | controller, cache, API server, AAP, users: the state machine |
| `ComputeInstanceHistory` | `ComputeInstance` with the history variables that say on which conditions its promises about jobs hold; the refinement of `Provisioning` |
| `Provisioning` | the abstract specification that `ComputeInstance` implements on these conditions |
| `WebhookClient` | the webhook client: which requests it remembers, for how long |
| `Eda` | the ComputeInstance controller with the EDA provider, the webhook client and the playbooks |
| `Restart` | restart requests: user, controller, KubeVirt and a clock |
| `Feedback` | the three feedback controllers, the fulfillment service's record and, as their environment, the controller of the resource |
| `Tenant` | the tenant controller, its three caches, the namespace and the network |
| `Order` | what ClusterOrder and HostPool controller share: resource, namespace, caches, webhook client, status, users, playbooks |
| `ClusterOrder`, `HostPool` | the steps of the two `Reconcile` functions, on the state of `Order` |
| `Orders` | the composition: a resource of either kind, its properties |
| `JobHistoryProofs`, `ComputeInstanceProofs`, `EdaProofs`, `WebhookClientProofs`, `RestartProofs`, `FeedbackProofs`, `TenantProofs`, `OrdersProofs` | the theorems about the module of that name |

`ComputeInstance` extends `JobHistory`; `ComputeInstanceHistory` adds variables
to it that no action reads. `Eda` extends `ComputeInstance` and `WebhookClient`: it takes the controller's steps that no provider takes part in
as they are, and has its own for those of the provider. `Order` extends
`WebhookClient`, `Orders` instantiates `ClusterOrder` and `HostPool` over the
variables of `Order`. Each proof module extends the module it is about,
`ComputeInstanceProofs` both `ComputeInstance` and its history.
`Restart` and `Feedback` stand beside `ComputeInstance`: they look at
other fields of the same resource, and repeat of its machinery only the cache
and the status write. `Tenant` is about another resource; `ComputeInstance` uses
of it that a tenant gets Ready. Mutants (operators marked *Mutant* in a comment)
sit beside the operator they vary; no behaviour uses them.

### JobHistory

`FindLatestJobByType`, `findJobByID`, `updateJob` and `appendJob` are the
functions of the same names; the ones that return a pointer return a position
here, 0 for nil. A job ID is a number, 0 for the empty string. `ts` stands for
the timestamp: its rank among the seconds in which jobs were recorded, because
`metav1.Time` is stored with second granularity and only the order of
timestamps is looked at. The scan of `FindLatestJobByType` replaces its
candidate only by a strictly later job, so the first job of a second wins,
although its comment promises the most recent one.

### ComputeInstance

State:

| Variable | In the code |
|---|---|
| `cr` | the resource in the API server: finalizers, deletion mark, generation of the spec, the config version in the playbook's annotation (`annot`), management-state annotation, and of the status the phase, the tenant reference and `jobs` |
| `cache`, `lag` | the informer's copy and what it has not seen yet |
| `queued`, `pc` | the key in the work queue; the point a reconcile has reached |
| `inst`, `old`, `fresh` | the reconcile's local copy, its status when it was read, and whether its resourceVersion is still the current one |
| `reply` | the state `isReadyForDeprovision` read before it cancels |
| `aap`, `infra` | AAP's jobs in the order of their IDs; the virtual machine |
| `tenant`, `errs` | the Tenant object; transient errors so far |

Every exchange with the API server or with AAP is one action, so that the other
actors get between any two:

| Code | Actions |
|---|---|
| `Reconcile` up to the handler | `Reconcile` |
| `handleUpdate`: finalizer, tenant, config version | `AddFinalizer`, `FinalizerUpdateFails`, `CreateTenant`, `HandleUpdate`, `HandleUpdateFails` |
| `handleProvisioning` | `SkipProvisioning`, `TriggerProvision`, `TriggerProvisionFails`, `PollProvision`, `PollProvisionFails` |
| `handleDeprovisioning`, `isReadyForDeprovision`, `cancelProvisionJob` | `SkipDeprovisioning`, `TriggerDeprovision`, `TriggerDeprovisionFails`, `ProvisionStillActive`, `CancelProvisionJob`, `CancelProvisionJobFails`, `PollDeprovision`, `PollDeprovisionFails` |
| rest of `handleDelete` | `RemoveFinalizer`, `FinalizerUpdateFails` |
| `updateStatusWithRetry` | `NothingToSave`, `SaveStatus`, `SaveStatusFails` |
| informer, restart of the process | `CacheSync`, `Crash` |
| user | `UserEditsSpec`, `UserSetsManagementState`, `UserDeletes` |
| feedback controller, tenant controller | `FeedbackAddsFinalizer`, `FeedbackRemovesFinalizer`, `TenantChanges` |
| AAP and its playbooks | `JobStarts`, `PlaybookCreates`, `PlaybookAnnotates`, `JobEnds`, `JobPurged` |

Decisions a reader should know:

- **Optimistic concurrency.** `fresh` replaces the resourceVersion: it is set
  when the cache was current at the read and cleared by every foreign write.
  A write of the whole resource needs it. `updateStatusWithRetry` reads the
  cache again for every attempt, so it needs a current cache (`lag = "none"`)
  and replaces the whole stored status.
- **The cache** jumps to the latest version when it catches up; versions in
  between are skipped. `lag` tells apart whether a write of the controller
  itself is among those not seen. Without `stale_read` a reconcile does not
  start while one is.
- **Answers of the API server.** The client decodes the answer of an update over
  its argument. The stored status of a resource that gets its finalizer is
  empty, so the local one survives; the answer to the removal replaces the local
  status by the stored one, and what the reconcile that removes the finalizer
  computed before is not stored.
- **SaveStatus** is also possible when phase, reference and jobs are unchanged:
  conditions and messages, which are left out, may have changed.
- **GetJob** for a purged job answers 404, which `isReadyForDeprovision` takes
  for "nothing to wait for" and the polls for an error. For a failed launch the
  recorded ID is empty, and the client asks for `/jobs//` (`aap/client.go:156`).
  What AAP answers to that is not in the repository: the model assumes 404
  (`Found`). With another error the deletion after a failed launch would be
  tried again without end, with a success it would wait for a job of unknown
  state without end; neither starts a job that the model does not start.
- **Errors of the status write.** RetryOnConflict tries again after a conflict
  only. `SaveStatusFails` is the write that fails although the cache is current
  as well as the one whose five attempts all meet conflicts; either is one of the
  `MaxErrors` errors, in every run, and in `Restart` too.
- **405 on cancel** is swallowed by `cancelProvisionJob`, so the branch of
  `isReadyForDeprovision` that would go on at once never runs: the controller
  records what it read and looks again in the next reconcile.
- **Left out:** conditions, messages and reasons; the lookup of the VM and the
  restart request (whose errors end handleUpdate early: `HandleUpdateFails`).

What may go wrong is in every module a constant, `Faults`, so that each property is checked
under the faults it survives and the findings name the one that breaks it:

The faults of `ComputeInstance`:

| Fault | Meaning |
|---|---|
| `stale_read` | a reconcile reads a cache without the controller's own last write |
| `crash` | the operator restarts in the middle of a reconcile |
| `lost_reply` | AAP launches a job, the request fails nevertheless |
| `same_second` | two jobs are recorded in the same second |
| `purge` | AAP deletes a finished job |
| `straggler` | tasks of a cancelled provision job still run |
| `tenant_fails` | a Ready tenant stops being Ready |

Transient errors of every single request, the status write included (bounded by
`MaxErrors`), deletion at any moment, edits of the spec (`MaxSpec`) and foreign
writes between any two steps are not in the list: they may happen in every run.

### ComputeInstanceHistory and Provisioning

The handlers decide by the job list of the local copy alone, and the list may
lack the last launch. This is no rare fault that could be assumed away: a failed
launch is retried at once, since the status write that records it is itself an
event, and timestamps have seconds, so that the failed attempt and the job that
follows it compare equal and the failed one counts as the latest. Three history
variables, which no action reads, therefore say when the list, AAP or a person
has let the controller down; the promises hold up to then:

| Variable | Becomes true when |
|---|---|
| `blind` | a handler begins (`BeginsBlind`) and its list does not show the last job that AAP launched as the latest of its type: after a stale read, a lost reply, a status write that failed or was cut off by a restart, or a retry in the same second |
| `strayed` | the virtual machine appears while no provision job is running: tasks of a cancelled job |
| `handed` | the base finalizer goes on behalf of a resource that is managed manually |

`blind` is not a fault but what can come of one: with every fault on, a
behaviour whose handlers find their last launch in the list keeps every promise.

`Provisioning` says what the operator promises about one resource, without caches,
requests, retries and records: `sound` says that none of the three conditions has
failed so far, after which everything is allowed; before that, `work` is what works on it (nothing, a provision or a deprovision
job), `vm` the virtual machine, `stage` goes from "serving" over "leaving" to
"clean", `held` says whether the controller holds the resource. Nothing is
provisioned once deprovisioning has begun; there is one job at a time; the
controller lets go only of what is clean. `ComputeInstanceHistory` maps its state to
these (`Work`, `Stage`, `Held`): `work` is the type of the one active job of AAP
("several", if there were two, is no value of the abstract variable), `stage`
what has become of the deprovision jobs, `held` the base finalizer. Property
`Provisions` says that each step of the detailed module is a step or a stutter of
this one; run `jobs` checks it.

### WebhookClient and Eda

| Variable | In the code |
|---|---|
| `inflight` | `inflightRequests`: by webhook the age of the last request, in ticks of which `Interval` make the minimum interval |
| `since` | history: the age of the last request that was accepted, whatever the client remembers |
| `lives`, `asked` | how often the resource was created; history: a provision webhook was accepted for the present one |
| `heir` | history: the status of its predecessor was stored for the present resource |
| `aap` | the playbooks at work, their status being how far they have got |

| Code | Actions |
|---|---|
| `TriggerWebhook`: accepted, refused by `checkForExistingRequest`, failed; each with `purgeExpiredRequests` | `Sent`, `Limited`, `Failed` (parts of the actions below) |
| `TriggerProvision` with `generateEDAJobID` | `SendCreate`, `CreateLimited`, `CreateFails` |
| `GetProvisionStatus` | `PollCreate` |
| `TriggerDeprovision` | `SkipDelete`, `SendDelete`, `DeleteLimited`, `DeleteFails` |
| `GetDeprovisionStatus` | `PollDelete` |
| `updateStatusWithRetry` | `StoreStatus` |
| feedback controller | `FeedbackAddsFinalizer`, `FeedbackRemovesFinalizer` of `ComputeInstance`, in `FeedbackStep` |
| playbooks | `PlaybookHolds`, `PlaybookProvisions`, `PlaybookAnnotates`, `ProvisionEnds`, `PlaybookRemoves`, `DeprovisionEnds` |
| user, process, time | `UserDeletes`, `UserCreates`, `Restart`, `TimePasses` |

A call of the client is one step, as a resource has one worker at a time and the
key of the memory is its name. The client's memory does not know of UIDs: a
successor of the same name inherits the rate limit and the playbooks of its
predecessor. What is returned as the delay before the retry is the time since
the last request and not the time that remains; the retry thus comes early or
late, which is why no delay is kept and the key is simply queued again.
A provision job stays in state Unknown, which is not terminal, and is polled as
long as the resource lives; its end is seen in the annotation only. The delete
webhook is sent while the create playbook may still be running.

A resource that the controller has released may still be held by the feedback
finalizer, and go while a reconcile works on its copy. `updateStatusWithRetry`
reads the resource again by its name: when a successor has been created by then,
it gets the status of its predecessor, with its jobs and phase Deleting.
`StoreStatus` notes this in `heir`. The finalizer is of interest as far as it
separates a resource from its successor, so only resources before the last one
(`lives < MaxLives`) get it. Left out: URLs that are not configured, manual
management (the same code as under AAP).

### Restart

| Variable | In the code |
|---|---|
| `cr`, `cache`, `old`, `inst` | `spec.restartRequestedAt`, `status.lastRestartedAt`, the conditions RestartInProgress and RestartFailed, the reference to the virtual machine: stored, cached, as read, and the local copy; a time that is nil is 0 |
| `vm`, `vmi` | the VirtualMachine exists; phase and creationTimestamp of its VMI |
| `clock` | the current second |
| `queued`, `pc`, `errs` | as above |
| `killed` | history: how many VMIs were deleted for the request of each second, counted up to one more than `AtMostOneRestart` allows |

| Code | Actions |
|---|---|
| `handleKubeVirtVM`, `handleRestartRequest` | `Reconcile` |
| `checkRestartCompletion` | `CheckRestartCompletion`, `ReadVMIFails` |
| `performRestart` | `PerformRestart`, `ReadVMIFails`, `DeleteVMI`, `DeleteVMIFails` |
| `updateStatusWithRetry`, informer, process | `NothingToSave`, `SaveStatus`, `SaveStatusFails`, `CacheSync`, `Crash` |
| user | `RequestRestart`, `WithdrawRequest` |
| playbook, KubeVirt, time | `PlaybookCreatesVM`, `KubeVirtCreatesVMI`, `VMIDisappears`, `VMIEnds`, `Tick` |

`handleRestartRequest` returns without asking for another turn while it waits.
What brings it back is the watch on virtual machines: a change of a VMI shows in
the status of its virtual machine, so those actions enqueue the key. The
controller's read of the VMI is taken to be current; a VMI cache that lags would
add the reading of a VMI that is gone. Faults: `stale_read`,
`crash`, `same_second` (KubeVirt creates the VMI in the second of the request)
and `impatient` (the user asks again, or withdraws, while a restart is under
way).

### Feedback

One resource of any of the three kinds, with the feedback controller of that kind.

| Variable | In the code |
|---|---|
| `cr`, `cache`, `object`, `fresh` | the resource (its kind, deletion mark, label with the record's identifier, the two finalizers, phase, condition RestartInProgress): stored, cached, the copy of the reconcile and whether its resourceVersion is current |
| `record` | state, and for a ComputeInstance RESTART_IN_PROGRESS, of the record in the fulfillment service |
| `before`, `ci` | the record as fetched, and with the resource's state copied into it |
| `queued`, `pc`, `errs` | as above |

| Code | Actions |
|---|---|
| steps 1 and 2 of `Reconcile` | `ReconcileInstance`, `ReconcileCluster`, `ReconcilePool`; `ReleaseUnlabelled` |
| step 3: fetch the record and copy into it | `FetchComputeInstance`, `FetchCluster`, `FetchHostPool` |
| `handleUpdate` of a ComputeInstance | `AddFinalizer` |
| the update of the record | `SaveRecord` |
| step 6 for a ComputeInstance | `RemoveFinalizer`, `Signal` |
| every `return result, err` | `RequestFails` |
| informer, process | `CacheSync`, `Crash` |
| controller of the resource | `BaseAddsFinalizer`, `BaseStoresPhase`, `BaseStoresDeleting`, `BaseSetsRestartCondition`, `BaseRemovesFinalizer` |
| user | `UserDeletes`, `UserRemovesLabel` |

Only the controller of ComputeInstances has a finalizer and reports the deletion;
the other two stop at a resource that is being deleted, and their records keep
the last state from before. The controller of the resource is reduced to what it
may do to it, in any order: it may remove its finalizer before phase Deleting is
stored - `handleDelete` does so in the first reconcile of a deletion when EDA has
nothing to deprovision (`eda_provider.go:137`) or the resource is managed
manually - and the user may delete a resource that has no base finalizer yet. The
faults are `crash` and `unlabel`.

The comment at step 6 (`computeinstance_feedback_controller.go:134`, "This must
happen after step 5 so the DELETING state is persisted before the CR is garbage
collected") says more than the code gives: with nothing to deprovision, the
feedback controller may find its finalizer the last one while the stored phase
is still that of before the deletion, and the record then never says DELETING.
What step 5 does guarantee is `LastPhaseReported`: the record tells the last
phase that was stored.

Left out: the conditions besides RestartInProgress, the IP address, URLs, node
sets and the time of the last restart, which are copied in the same step.

### Order, ClusterOrder, HostPool and Orders

| Variable | In the code |
|---|---|
| `kind` | which of the two controllers is at work |
| `order` | the resource in the API server: UID, deletion mark, finalizer, spec (a number that grows with each edit), management-state annotation, phase, whether the reference to the namespace is set, and of a HostPool the spec that `status.hostSets` shows |
| `ns`, `hc` | its namespace (absent, active, terminating); the HostedCluster in it (absent, created, ready) |
| `cacheO`, `cacheN`, `cacheH` | the three in the informer caches, each of which follows on its own |
| `queued`, `pc`, `inst`, `old`, `fresh` | as above |
| `inflight`, `since` | as in `WebhookClient`, by webhook "create" and "delete" |
| `errs`, `changes` | failures, degradations and late playbooks; edits of the spec or of the annotation and creations: together at most `MaxEvents` |
| `requested`, `cleaned`, `manual` | history: the specs of this resource that a create webhook accepted; whether a delete webhook was accepted; whether the resource has ever been managed manually |
| `blind` | history: some reconcile started before the cache held a namespace the controller had created |

| Code | `ClusterOrder` | `HostPool` |
|---|---|---|
| `Reconcile` up to the first request | `Reconcile` | `Reconcile` |
| `handleUpdate`: finalizer | `AddFinalizer`, goes on | `AddFinalizer`, ends the reconcile |
| namespace (with account and role binding) | `EnsureComponents` | `EnsureComponents` |
| `findNamespace`, `handleHostedCluster` | `ReadHostedCluster`, `NamespaceUnseen` | |
| create webhook | `SkipCreate`, `SendCreate`, `CreateLimited`, `CreateFails` | `SendCreate`, `CreateLimited`, `CreateFails` |
| `handleDelete` | `FindNothing`, `FindNamespace`, `DeleteEmptyNamespace`, `RemoveFinalizer`, then `SkipDelete`, `SendDelete`, `DeleteLimited`, `DeleteFails` | `FindNamespace`, `SkipDelete`, `SendDelete`, `DeleteLimited`, `DeleteFails`, `DeleteItsNamespace`, `RemoveFinalizer` |
| every other `return ctrl.Result{}, err` | `RequestFails` | `RequestFails` |
| `Status().Update`, only after a handler without an error | `NothingToSave`, `SaveStatus` | the same |

The environment (`Order`) is the informers (`CacheOrder`, `CacheNamespace`,
`CacheHosted`), the namespace controller (`NamespaceEnds`), the playbooks and
HyperShift (`HostedClusterCreated`, `HostedClusterCreatedLate`,
`HostedClusterReady`, `HostedClusterDegrades`, `HostedClusterGoes`), the user
(`UserEdits`, `UserSetsManagementState`, `UserDeletes`, `UserCreates`), restarts
(`Crash`) and time (`TimePasses`).

The management-state annotation may change at any time in a life, also of a
resource that is being deleted. A handler goes by the annotation of the copy it
read, which may be manual when the resource no longer is; so the properties about
clean-up except a resource that has ever been managed manually (`manual`), and
not only one that is so at the end. A create playbook may finish
after the delete webhook was accepted (`HostedClusterCreatedLate`); it counts as
a failure, since nothing but the end of the namespace then removes what it made.

What the tables show: the two controllers do the same things in different order.
`ClusterOrder` calls the delete webhook at the end of every reconcile, after it
has deleted an empty namespace or removed the finalizer (finding
`cluster_clean_up`); `HostPool` calls it first.
`ClusterOrder` reads the name of a namespace it has just created from a cache
that need not hold it: `findNamespace` returns nil, and the panic is recovered by
controller-runtime and ends the reconcile (`NamespaceUnseen`). The delete is by
name, so what a reconcile sees of a predecessor, it does to the successor.

`blind` plays the part it has in `Tenant`: a cache that has not seen the
namespace makes handleDelete believe there is none. The safety properties speak
of a controller that is not blind, the liveness properties of any.

Left out: service account and role binding as objects, which are made and go with
the namespace (that they cannot be created in a namespace that is terminating,
which is an error of `EnsureComponents`, is in `Refused`); node pools; the conditions, which follow the phase (and are never
set back).

### Tenant

| Variable | In the code |
|---|---|
| `t`, `ns`, `udn` | the tenant (deletion mark, finalizer, phase, whether `status.namespace` is set), its namespace and the UserDefinedNetwork in it: stored |
| `cacheT`, `cacheN`, `cacheU` | the same in the informer caches, each of which follows on its own |
| `inst`, `old`, `fresh` | the copy of the reconcile, as read, and whether its resourceVersion is current |
| `queued`, `pc`, `errs` | as above |
| `blind` | history: a reconcile has started before the caches had seen a namespace or a network that exists |

| Code | Actions |
|---|---|
| `Reconcile` up to the first request | `Reconcile` |
| `handleUpdate` | `AddFinalizer`, `EnsureNamespace` (createOrUpdateTenantNamespace), `EnsureNetwork` (createOrUpdateTenantUDN) |
| `handleDelete` | `DeleteNetwork` (deleteTenantUDN), `DeleteNamespace` (deleteTenantNamespace), `Release` |
| `Status().Update` | `NothingToSave`, `SaveStatus` |
| every `return ctrl.Result{}, err` | `RequestFails` |
| watches, `mapObjectToTenant`, process | `CacheTenant`, `CacheNamespace`, `CacheNetwork`, `Crash` |
| ComputeInstances, garbage collector, Kubernetes, OVN | `TenantCreated`, `OwnerAdded`, `TenantDeleted`, `NamespaceEnds`, `NetworkEnds` |

`CreateOrUpdate` reads the cache: what it does not see it creates, and when it
exists already the request fails. An object that is cached is not changed, its
labels being there. A namespace goes in two steps, as Kubernetes first deletes
what is in it. The status is stored whether or not the handler failed. The
answer to the removal of the finalizer replaces the local status by the stored
one, so nothing is left to save after `Release`. A request that fails has no
effect here: the requests to namespace and network are repeated in the same way
whether or not they had one. A tenant may be created again after it has gone, and find
what the one before left behind.

Nothing in the code makes a reconcile wait until the caches have seen what the
one before created; when it does not, `handleDelete` takes an object it does not
see for one that has gone. `blind` notes that this may have happened: the safety
properties speak of a controller that is not blind, the liveness properties of
any.

## 3. Runs

Bounds: in `ComputeInstance`, `MaxJobHistory = 2` lets a third job push the first
one out, the code's default of 10 would not be reached; `MaxLaunches` is 2 or 3,
one provision and one deprovision job and one launch too many; `MaxErrors = 1`
makes every request of a reconcile fail once. With so many faults at once `jobs`
and `faults` have two launches and no edit of the spec, `jobs` managed resources
only (so that `handed` stays false in it) and `faults` managed and manual ones;
`live` has three launches and `MaxSpec = 2`, one edit. Outcomes are thinned out per run to those that
matter to its properties. The theorems have none of these bounds.
`CHECK_DEADLOCK` is off because the system does stop: once the resource is gone
and its jobs have ended nothing is left to do.

| Run | Faults | Shows |
|---|---|---|
| `jobs` | all but `tenant_fails` | On the conditions of section 2: `SerialJobs`: AAP works for the resource with one job at a time. `NothingLeft`: a resource that is gone leaves no provision job at work and no virtual machine but one of a cancelled job. `Provisions`: the step-by-step refinement of `Provisioning`. Without a condition: `RecordsAreTrue`, a job recorded as ended has ended in AAP in that way, however stale the copy that overwrites the status |
| `faults` | all but `stale_read` | `ReleaseAfterDeprovision`: the finalizer goes only after a successful deprovision job. `DeletingIsFinal`: the stored phase never leaves Deleting. `RestsWhenDone`: a controller that waits for events has nothing left to do. `TypeOK`. With manual management as well |
| `live` | none | `DeletionCompletes`, `OutcomeRecorded`, `ProvisioningStarts` under `FairSpec` |
| `eda` | `crash` | `RequestRemembered`: a webhook is accepted at most once per interval, unless a restart has forgotten it. `JobIDsDistinct`: trimming the list brings no ID back. `ReleasedByPlaybook`: the resource goes only when no playbook holds it. `RestsWhenDone`, as in `faults`. `HeldDeletionCompletes`, `WebhookRequested` (unless the predecessor left its annotation or its status) under `FairEdaSpec` |
| `orders` | always: failures, restarts, lag | `ReadyIsTrue`: phase Ready has its reason, for a resource nobody has edited, annotated or created again. `ReleasedWhenClean`: the finalizer goes after the namespace. `PoolCleanUpRequested`: a HostPool that is gone, and was never manual, has had its delete webhook. `RestsWhenDone`: a controller that waits has what the spec asks for, or something is going. `DeletionCompletes`, `SettlesReady` and `SpecSent` (the last spec of a ClusterOrder reaches the webhook) under `FairSpec` |
| `restart` | `crash` | `RestartIsTrue`, `LastNeverGoesBack`: what the status notes has taken place and is not forgotten. `AtMostOneRestart`: a request costs one VMI, plus one per failure at most. `RestsWhenDone`: the controller does not wait while a VMI runs that a request has yet to replace. `RequestServed` under `FairSpec` |
| `feedback` | `crash`, `unlabel` | for each of the three kinds, `PhaseReported`: at rest the record tells the phase. `LastPhaseReported`: a ComputeInstance held by the feedback finalizer does not disappear before its record tells the last phase stored for it. `NotHeldBack`: at rest, the feedback finalizer is not the last on a deleted resource. `SignalAfterRemoval`, and `DeletionCompletes` under `FairSpec` |
| `tenant` | any | `ReadyMeansReady`: phase Ready is true. `NetworkGoesFirst`, `ReleasedWhenClean`: the order of the deletion. `RestsWhenDone`: a tenant at rest is Ready with both objects, or waits for one to end. `BecomesReady` and `DeletionCompletes` under `FairSpec`, also for a blind controller |

`eda` has `MaxJobHistory = 2` and two launches besides the second life of the
resource (`MaxLives = 2`), so that jobs are trimmed and a successor meets the
requests and the playbooks of its predecessor; `Interval = 1` tick, the smallest
with an age inside and one at the limit, as only the comparison with the
interval is looked at. `orders` has `MaxEvents = 1`: one disturbance, of any kind
and at any point, among the lag of three caches, the rate limit and deletion at
any time; each second event multiplies the state space by about ten. Managed and
manual resources are in it. In `Restart`, `MaxClock = 5` gives room for two
requests, one after the other is served, each with a VMI of a later second; in
`Feedback` `MaxErrors = 1` allows one failure of any kind, a restart of the
operator included, at every possible point. In `Restart` and `Tenant` it is 2, so
that two conflicts or restarts meet, and a request may lose its VMI twice or
three times; there is one tenant, deleted and created again
any number of times. `impatient`, `same_second` and `stale_read` of `Restart` are
in no passing run: the theorems of section 4 say what holds with them.
`stale_read` of `ComputeInstance` is in `jobs`, and left out of `faults`, whose
`DeletingIsFinal` a stale read breaks; `TypeOK`, `RestsWhenDone` and
`ReleaseAfterDeprovision` are proved with it. The owner reference that makes
a tenant's event reach its ComputeInstance is taken to be there, as
`createOrUpdateTenant` sets it in the request that creates the tenant.

The runs that end in a counterexample, each the statement of a comment in the
repository:

| Run | Fault | What the code does |
|---|---|---|
| `orphan` | `stale_read` | `NoOrphans` is violated: a reconcile that does not see the recorded provision job deprovisions beside it and releases the resource |
| `restart_twice` | `impatient` | `RequestServed` is violated, under fairness: while RestartInProgress is set, the VMI recreated for the first request is compared with the second one, which is later; nobody deletes it again |
| `tenant_leak` | none | `NothingLeft` is violated: a tenant is deleted after its namespace and network were created and before the status names them; the status update meets a conflict, the next reconcile finds nothing to delete and removes the finalizer |
| `cluster_clean_up` | none | `CleanUpRequested` is violated: a ClusterOrder whose namespace has gone loses its finalizer before the delete webhook is called; when no earlier call was accepted and this one is limited, fails or is cut off by a restart, none is ever made |

Seen while modelling, in the modules, but not in a run of their own:

- The five attempts of updateStatusWithRetry (about 150 ms together) all read the
  cache, and may meet the same stale version, or an attempt meets another error,
  which is not tried again: a job just launched is not recorded, and the next
  reconcile launches another one (`SaveStatusFails`, after which a handler begins
  `blind`).
- A launch that fails and the retry that succeeds may be recorded in the same
  second, as the status update is itself an event that starts the next
  reconcile. `FindLatestJobByType` then returns the failed attempt, which has no
  ID, and one more job is launched; if the resource is deleted instead, the
  deprovision job does not wait for the running one (fault `same_second`: the
  next handler begins `blind`, and `AtMostOneActiveJob` and `NoOrphans` are
  violated).
- Under EDA, the status of a ComputeInstance that went while a reconcile was
  working on it may be stored for a successor of the same name
  (`ctl/computeinstance_controller.go:181` reads by name, and nothing compares
  UIDs). Its list of jobs then holds a provision job, and the create webhook is
  never called for the successor (`heir`; without this exception
  `WebhookRequested` is violated).
- A provision job is triggered once: an edit of the spec after the launch is
  never applied and the phase stays Starting.
- A condition that was removed from the resource is skipped by the feedback
  controller: RestartInProgress stays True in the record.
- `ctl/feedback_controller.go` copies each of the four conditions
  into the condition PROGRESSING of the record, so that the last one wins.
- `ctl/hostpool_controller.go` does not look at the rate limit: a pool edited or
  created again within the interval goes Ready with host sets nobody was asked
  for (`CreateLimited` of `HostPool`).
- `ctl/clusterorder_controller.go` deletes the namespace before the delete
  webhook is called; `README.md:22` says "before deleting the target namespace".

### No wake-up is lost

Many returns of the handlers ask for no other turn, and trust that an event will
come: `handleUpdate` waits for the tenant, `checkRestartCompletion` for the VMI,
`handleDelete` of a tenant for the end of the network, an update that succeeds
for its own echo. `RestsWhenDone` (`NotHeldBack` in `Feedback`) is the safety
part of the liveness properties: in a state where the key is not queued, no
reconcile is under way and the caches have seen everything (nobody will call the
controller before something else changes) the stored resource needs nothing that
the controller could do. `NothingToDo` says for each
module what that is. It needs no fairness, bounds no failures, and holds after
stale reads and for blind controllers, which the liveness runs leave out in part;
a handler that swallows an error, or forgets its requeue, violates it. What is
missing from it to the liveness properties is that the controller gets its turns
and that a requeued key is not requeued for ever.

In `Restart` it is stated of a user who waits and of times that tell the VMIs
apart: with `impatient` it is violated, for the same reason as `RequestServed`.

### Fairness

`FairSpec` of `ComputeInstance` assumes weak fairness of: the controller (the
work queue serves a queued key and every request returns, or its deadline
expires), the informer, the feedback controller's removal of its finalizer, the
tenant controller, and the life of each AAP job (it starts, its playbook does its
work, it ends). Nothing is assumed of the user. Weak fairness of the controller
as a whole is enough because its steps follow each other in one goroutine: while
one of them is possible, some step is. Which job outcome comes is never forced.
Errors are bounded, as a request that fails for ever makes no progress; the
deprovision job is taken to succeed in `live`, because a failed one blocks the
deletion for good, on purpose ("to prevent orphaned cloud resources").

`eda` and `orders` assume the same of controller, caches, playbooks, namespace
controller and hosted cluster, and in addition that time passes. For time the
fairness is strong: a reconcile sends at most one webhook, so time may as well
pass before or after it, and `TimePasses` is enabled only between reconciles; a
requeued key would make it enabled infinitely often and not for ever. That is a
matter of this encoding: the clock of the code runs on while a reconcile does.
`HeldDeletionCompletes` speaks of a resource that has the controller's finalizer:
without it, the finalizer of a predecessor's playbook may stay on the successor,
and nobody asks for its removal.

In `Restart` fairness is assumed of the controller, the informer, KubeVirt (a
virtual machine gets its VMI, a terminating one disappears) and the clock, and
nothing of the user. In `Feedback` of the feedback controller, the informer and,
of the controller of the resource, that a deleted resource gets phase Deleting
and loses the base finalizer: what runs `live` and `orders` show of it. There,
too, failures are bounded; a fulfillment service that has lost the record for
good would keep the feedback finalizer on the resource for ever. In `Tenant` of
the controller, of each informer, of the namespace controller and of OVN, and
nothing of those who create and delete tenants.

## 4. Proofs

Assumptions: the bounds `MaxJobHistory`, `MaxSpec` and `MaxClock` are positive,
`MaxLaunches`, `MaxErrors`, `MaxEvents` and `Interval` natural, the
management states (at least one) and the outcomes are among the code's, `Faults`
is any subset of the module's faults. The theorems hold for all of these values,
also for all faults at once unless the table names one, and for lists and job
numbers of any size.

| Theorem | States |
|---|---|
| `ComputeInstanceProofs` `InvariantHolds` | `Spec => []IInv` |
| `TypeCorrect` | `Spec => []TypeOK` |
| `RecordedOutcomesAreTrue` | `Spec => []RecordsAreTrue` |
| `ReleasedOnlyWhenDeprovisioned` | `Spec => ReleaseAfterDeprovision` |
| `ControllerRestsWhenDone` | `Spec => []RestsWhenDone`, all faults |
| `HistoryInvariantHolds`, `OneJobAtATime` | `HSpec => []HInv`, `HSpec => []SerialJobs`, all faults |
| `DeletingStaysFinal` | `Spec => DeletingIsFinal`, without `stale_read` |
| `NothingOrphaned` | `HSpec => []NothingLeft`, all faults |
| `ControllerProvisions` | `HSpec => Provisions`, the refinement, all faults |
| `JobHistoryProofs` `LatestIsFirstOfTheLatest` | which job FindLatestJobByType returns |
| `RecordedJobIsLatest` | a job appended with a later timestamp is the one found, whatever was trimmed |
| `EdaProofs` `EdaInvariantHolds` | `EdaSpec => []EdaInv` |
| `NumbersDistinct` | `EdaSpec => []JobIDsDistinct` |
| `WebhookNotRepeated` | `EdaSpec => []RequestRemembered` |
| `ReleasedOnlyByPlaybook` | `EdaSpec => ReleasedByPlaybook` |
| `EdaRestsWhenDone` | `EdaSpec => []RestsWhenDone`, all faults |
| `RestartProofs` `RestartTypeCorrect` | `Spec => []TypeOK` |
| `NotedRestartsTookPlace` | `Spec => []RestartIsTrue`, all faults |
| `RestartsAreNotForgotten` | `Spec => LastNeverGoesBack`, without `stale_read` |
| `OneRestartPerRequest` | `Spec => []AtMostOneRestart`, without `stale_read` and `impatient` |
| `RestartRestsWhenDone` | `Spec => []RestsWhenDone`, without `stale_read`, `impatient` and `same_second` |
| `FeedbackProofs` `RecordIsUpToDate` | `Spec => []PhaseReported`, all faults, all kinds |
| `SignalComesLast` | `Spec => []SignalAfterRemoval`, all faults |
| `LastPhaseIsReported` | `Spec => LastPhaseReported` |
| `NothingHeldBack` | `Spec => []NotHeldBack`, all faults, all kinds |
| `TenantProofs` `TenantInvariant`, `ReadyIsTrue` | `Spec => []IInv`, `Spec => []ReadyMeansReady` |
| `NetworkFirst`, `ReleaseIsClean` | `Spec => NetworkGoesFirst`, `Spec => ReleasedWhenClean` |
| `TenantRestsWhenDone` | `Spec => []RestsWhenDone`, also of a blind controller |
| `OrdersProofs` `TypeCorrect` | `Spec => []TypeOK` |
| `RequestsRemembered` | `Spec => []RequestRemembered`, for the webhooks of both controllers |
| `ReleasedOnlyWhenClean` | `Spec => ReleasedWhenClean` |
| `PoolsAskForCleanUp` | `Spec => []PoolCleanUpRequested` |
| `ReadyHasReason` | `Spec => []ReadyIsTrue` |
| `OrdersRestWhenDone` | `Spec => []RestsWhenDone`, both kinds, also of a blind controller |

**Why an invariant of its own.** `RecordsAreTrue` speaks of the stored list. The
next stored list is computed from the local copy, and that one from the cache,
which may hold any earlier version: so the statement has to hold of all three
copies. It has to hold for jobs that have not ended too (they exist in AAP under
their ID, with their type), because a poll will turn them into ended ones. And
the release relies on every recorded deprovision job being one that blocks the
deletion. `IInv` adds that the steps "release" and "cancel" are reached for a
reason: a deprovision job has succeeded or the copy is managed manually; there
is a provision job that had not ended.

**The argument.** `AAPGoesOn`: whatever the step, jobs in AAP keep ID and type,
and an ended job keeps its outcome, which is why a true record stays true
(`AllTruePersists`) and `Deprovisioned` stays true. `SaneWrites`: overwriting one
good copy by another leaves a good copy. `LocalHistory`, `PolledState`,
`NewRecordGood`: the job that a handler updates or appends is a true record; here
the lemmas of `JobHistoryProofs` come in, whose own core is `WinnerExists` (the
scan has a winner, by taking the shortest prefix that has none). One lemma per
group of actions then shows that it preserves the parts of `IInv`, and
`IInvNext` puts them together.

**One job at a time.** These theorems are about launches, which only the job list
remembers, and the list may lack one. No fault is assumed away; what the theorems
say is conditioned on the history instead (`blind`, `strayed`, `handed`), and each
part of `HInv` names the conditions it needs. Without any: `ListInOrder`, a
deprovision job is listed only for a resource that is being deleted, in every
copy; `PurgedHaveEnded`, what AAP has forgotten does not work any more, so that a
404 may count as the end; `DeletionSeen`, handleUpdate and handleDelete run on
copies that say so, and a copy says nothing untrue of the deletion. Unless
`blind`: `LastJobOnly`, only the last job launched can be at work, and a
deprovision job is the last one ever; `HandlerSees`, from its beginning to the
launch a handler is shown the last job in its list. The two carry each other: a
handler that is shown the last job launches another one only when that one has
ended (`NeedsTrigger`, `isReadyForDeprovision`), and a launch, being the last
step of its handler, leaves `HandlerSees` to the beginning of the next one, which
is blind or sees it. Unless `blind` or `handed`, `HeldForJobs`: a resource without
the base finalizer has had no job yet or a successful deprovision job. Unless
`blind` or `strayed`, a successful deprovision job has left no virtual machine.
`ControllerProvisions` shows of each group of actions which step of `Provisioning`
it is (`NextRefines`), or that a condition fails in it.

**The phase of a deleted resource.** `DeletionKnown` needs nothing of all this:
a reconcile whose `old` is the stored status knows of the deletion when that
status does, and handleUpdate never runs on such a copy. Only a read of a cache
without the controller's own last write can break it, so `DeletingStaysFinal`
holds under all other faults, manual management included.

**Restart.** `TrueCopies` is the same idea in small: the cache and the local copy
say nothing untrue of the VMI either, whose creation time only grows. That the
note does not go back needs `InOrder`: a completion carries the time of a
request, no copy carries a request later than the stored one, and a reconcile
starts from the completion that is stored. For `AtMostOneRestart`, `CalmInv`: a
user who waits replaces only a request that was served (`OneUnserved`), so a
restart in progress is that of the stored request (`ProgressKnown`), and the VMI
is deleted only by a reconcile that read that none is in progress
(`DeletesOnce`). `KillsCounted` sets the deletions off against the failures: a
request with one more than those is `Spent` - served, or noted to be in
progress, or about to be noted - and stays so until the next failure.

**Feedback.** `FeedbackInv` has one part per claim the code makes by its order:
an update that succeeds meets the copy it was computed from (`FreshCopy`), each
step is reached with the copy it is meant for (`CopyFits`), the record is written
by nobody else between fetch and update (`RecordFits`), and unless the key is
queued again the reconcile works on what is cached (`NothingMissed`).
`LastPhaseReported` follows from these alone: the removal of the finalizer
succeeds only in the version that was reported.

**Tenant.** `CopiesInv` says what the cached and the local copy have in common
with the stored tenant, `DeletionInv` what `handleDelete` may rely on once it has
looked at the caches, and `CalmInv` that nothing terminates, and that no cache
holds a namespace or a network which is not there, as long as no tenant whose
status names a namespace is being deleted. The last is what makes a phase Ready
that was computed from the caches true when it is stored.

**WebhookClient and Eda.** `ClientInv` says that what the client remembers of a
webhook is as old as the last accepted request; the lemmas of
`WebhookClientProofs` show it of each part (`Sent`, `Limited`, `Failed`, `Tick`,
`ForgetRequests`) once, and `EdaProofs` and `OrdersProofs` cite them.
`DistinctIDs` must hold of the stored, the cached and the local list
(`GoodList`); an ID that is appended is larger than any in the list
(`LargestNumber`), so appending and trimming keep it (`AppendKeepsIDs`).
`FinalizersKnown` is why `ReleasedByPlaybook` holds in spite of the cache: while
the resourceVersion is current, the finalizers that the local copy shows are the
stored ones, and the update that removes the finalizer needs that version. It
speaks of the finalizers of a version, whichever resource of that name it is:
`StoreStatus` may write an old status over a new resource, and no finalizer.

**Orders.** `OrdersInv` is about what a reconcile may rely on after it has read
its caches: `CopyFits`, a copy is an older version of the resource or of a
predecessor, and fits the step; `AliveIsAlive`, the controller is the only one
to let go, so what its copies show as alive is alive; `NamespaceInOrder`, in
which states of a resource its namespace may be in which state, in the API
server and in the cache; `WebhooksInOrder`, a pool's delete webhook comes before
the end of its namespace. `Untouched` singles out a resource of which the
controller has not yet seen anything, where there is nothing to clean up. A copy
may be manual only if the resource has been (`manual` in `OlderThanOrder`), which
is what makes a handler that skips the delete webhook harmless to the proof.
`ReadyInv` carries the reason of phase Ready through the four copies and the
client's memory, because a create webhook that is limited makes a pool Ready.

**No wake-up is lost.** Whether a controller may rest is decided in the middle
of a reconcile, so each `RestInv` carries the reason through it. While the key is
queued there is nothing to show, since another reconcile will come. Otherwise the
reconcile under way is the last one, and has to get there: in `ComputeInstance`
and `Eda`, unless an event is on its way (`lag`), `CopyIsCurrent` says that it
works on what is stored and that each step is reached for a resource it is meant
for, so that at "save" there is nothing left to do for the local copy; in
`Tenant` and `Orders` `TurnInv` says the same of the caches, with what each step
has seen of the other objects, and `IdleInv` (`Achieved`) what is left of it
afterwards. The cases that take the thought are the writes. One that changes
something is an event, one that changes nothing is none, so the step before it
must already have achieved the rest (`WillBeStored` is the exception: the
reference to the tenant, with which handleUpdate ends). And a cache must not
show a version that looks like the stored one and is older, or the event that
should follow would not be needed: `VersionsInOrder` and `SpecsInOrder` say that
what a cache shows has not come back. (The management annotation of an order may
come back, so `SeenButMgmt` compares all but that.) In `Restart`, `VMIsInOrder` says that a
VMI which runs while a restart is in progress is the new one, so that
checkRestartCompletion either ends the restart, which is a write, or waits for a
VMI that does not run, whose change is an event; with `same_second` the
new VMI may be no later than the request, hence `Punctual`. In `Feedback`,
`LetGo` says that the reconcile that sees a resource held back by nobody else
(`HeldBack`) works on what is cached; it is then the last holder
(`HeldBackIsLast`), and lets go or fails and is repeated.

**Only model-checked.** The liveness properties, since ENABLED and fairness are
beyond the prover. Every safety and action property that a passing run checks is
also proved, some, as the table says, without some of the faults. The conditions
in the properties themselves (`blind`, `heir`, `manual` and the like) are the same
in run and theorem.

## 5. Not modelled, and why

- `cmd/main.go` and the provider factory: read the configuration and wire the
  controllers at start. What a restart does to memory is in every module.
- `internal/api/**/*.pb.go`: generated protobuf and gRPC code, by far the larger
  part of the lines of the repository. What is used of it, to fetch, update and
  signal a record, is in `Feedback`.
- Names and environment helpers: constants and string building.
- The branch of `isReadyForDeprovision` for a job that the EDA provider left
  (`provisioning/aap_provider.go`, lines 158 to 187): it takes an operator that
  was restarted with the other provider.
- Workflow jobs: `GetJob` and `CancelJob` ask for `/jobs/<id>/` also when the job
  was launched from a workflow template. What AAP answers to that is not in the
  repository; in the model a job is found under its ID.
- AAP's template cache: it saves a lookup, or repeats one, and changes neither
  which answers there are nor their effects.
- Node pools of a ClusterOrder, service account and role binding as objects; the conditions
  of all resources but RestartInProgress: written along with the phase and read
  by no guard.
- URLs that are not configured, and manual management under the EDA provider:
  handlers that do nothing.
